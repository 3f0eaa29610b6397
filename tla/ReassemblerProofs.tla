-------------------------- MODULE ReassemblerProofs --------------------------
(***************************************************************************)
(* Proofs about StreamReassembler's table of connections, for every set of *)
(* flows, stream length, table size, buffer limit and output mode, and for *)
(* callbacks that are registered late or raise; then about what callbacks  *)
(* are given.                                                              *)
(***************************************************************************)
EXTENDS StreamReassembler, NaturalLemmas, SequenceTheorems

(* Stretches of a flow's bytes: what follows one another joins up, and a   *)
(* stretch without its first k bytes is a stretch.                         *)
BytesOf(f) == {Byte(f, q) : q \in Int}

LEMMA TextType ==
  ASSUME NEW f, NEW p \in Int, NEW n \in Nat
  PROVE  /\ Text(f, p, n) \in Seq(BytesOf(f))
         /\ Len(Text(f, p, n)) = n
         /\ DOMAIN Text(f, p, n) = 1 .. n
         /\ \A i \in 1 .. n : Text(f, p, n)[i] = Byte(f, p + i - 1)
<1>1. \A i \in 1 .. n : Byte(f, p + i - 1) \in BytesOf(f)
  BY DEF BytesOf
<1>2. QED
  BY <1>1 DEF Text

LEMMA TextEmpty ==
  ASSUME NEW f, NEW p \in Int
  PROVE  Text(f, p, 0) = NoBytes
  BY DEF Text, NoBytes

LEMMA EmptyJoin ==
  ASSUME NEW S, NEW t \in Seq(S)
  PROVE  NoBytes \o t = t /\ t \o NoBytes = t
  BY ConcatEmptySeq, Zenon DEF NoBytes

LEMMA TextJoin ==
  ASSUME NEW f, NEW p \in Int, NEW n \in Nat, NEW m \in Nat
  PROVE  Text(f, p, n) \o Text(f, p + n, m) = Text(f, p, n + m)
<1> DEFINE s == Text(f, p, n)
           t == Text(f, p + n, m)
           u == Text(f, p, n + m)
           S == BytesOf(f)
<1>1. /\ s \in Seq(S) /\ Len(s) = n
      /\ \A i \in 1 .. n : s[i] = Byte(f, p + i - 1)
  BY TextType
<1>2. /\ t \in Seq(S) /\ Len(t) = m
      /\ \A i \in 1 .. m : t[i] = Byte(f, (p + n) + i - 1)
  BY TextType
<1>3. /\ u \in Seq(S) /\ Len(u) = n + m
      /\ \A i \in 1 .. n + m : u[i] = Byte(f, p + i - 1)
  BY TextType
<1> HIDE DEF s, t, u, S
<1>4. /\ s \o t \in Seq(S) /\ Len(s \o t) = n + m
      /\ \A i \in 1 .. n + m :
           (s \o t)[i] = IF i <= n THEN s[i] ELSE t[i - n]
  BY <1>1, <1>2, ConcatProperties
<1> DEFINE v == s \o t
<1> HIDE DEF v
<1>5. ASSUME NEW i \in 1 .. n + m PROVE v[i] = u[i]
  <2>1. CASE i <= n
    <3>1. i \in 1 .. n
      BY <2>1
    <3>2. v[i] = s[i]
      BY <2>1, <1>4 DEF v
    <3> QED BY <3>1, <3>2, <1>1, <1>3
  <2>2. CASE ~ (i <= n)
    <3>1. i - n \in 1 .. m /\ (p + n) + (i - n) - 1 = p + i - 1
      BY <2>2
    <3>2. t[i - n] = Byte(f, (p + n) + (i - n) - 1)
      BY <3>1, <1>2
    <3>3. v[i] = t[i - n]
      BY <2>2, <1>4 DEF v
    <3> QED BY <3>1, <3>2, <3>3, <1>3
  <2> QED BY <2>1, <2>2
<1>6. v = u
  BY <1>3, <1>4, <1>5, SeqEqual DEF v
<1>7. QED
  BY <1>6 DEF s, t, u, v

LEMMA TextCut ==
  ASSUME NEW f, NEW p \in Int, NEW n \in Nat, NEW k \in 0 .. n
  PROVE  SubSeq(Text(f, p, n), k + 1, n) = Text(f, p + k, n - k)
<1> DEFINE s == Text(f, p, n)
           m == k + 1
           c == SubSeq(s, m, n)
           u == Text(f, p + k, n - k)
           S == BytesOf(f)
<1>1. /\ s \in Seq(S) /\ Len(s) = n
      /\ \A i \in 1 .. n : s[i] = Byte(f, p + i - 1)
  BY TextType
<1>2. /\ u \in Seq(S) /\ Len(u) = n - k
      /\ \A i \in 1 .. n - k : u[i] = Byte(f, (p + k) + i - 1)
  <2>1. n - k \in Nat /\ p + k \in Int
    OBVIOUS
  <2> HIDE DEF S
  <2> QED BY <2>1, TextType DEF S
<1> HIDE DEF s, u, S
<1>3. m \in Int /\ n - m + 1 = n - k /\ (~ (m <= n) => n - k = 0)
  OBVIOUS
<1>4. \A i \in m .. n : s[i] \in S
  BY <1>1, ElementOfSeq
<1>5. /\ c \in Seq(S) /\ Len(c) = n - k
      /\ \A i \in 1 .. n - k : c[i] = s[m + i - 1]
  <2> HIDE DEF m
  <2>1. /\ c \in Seq(S) /\ Len(c) = IF m <= n THEN n - m + 1 ELSE 0
        /\ \A i \in 1 .. n - m + 1 : c[i] = s[m + i - 1]
    BY <1>3, <1>4, SubSeqProperties
  <2> QED BY <2>1, <1>3
<1> HIDE DEF c
<1>6. ASSUME NEW i \in 1 .. n - k PROVE c[i] = u[i]
  <2>1. m + i - 1 \in 1 .. n /\ p + (m + i - 1) - 1 = (p + k) + i - 1
    OBVIOUS
  <2>2. s[m + i - 1] = Byte(f, p + (m + i - 1) - 1)
    BY <2>1, <1>1
  <2> QED BY <2>1, <2>2, <1>2, <1>5
<1>7. c = u
  BY <1>2, <1>5, <1>6, SeqEqual
<1>8. QED
  BY <1>7 DEF c, u, s
-----------------------------------------------------------------------------
(* The states a buffer that is fed flow f can be in, in closed form: it    *)
(* knows the SYN, everything before position next has been ready, the last *)
(* `ready' bytes of it still are, the positions D are held, and the FIN    *)
(* has or has not been seen.                                               *)
Live(f, next, ready, D, fin) ==
  [ isn            |-> 0,
    next_seq       |-> next,
    fin_seq        |-> IF fin THEN StreamLen + 1 ELSE None,
    syn_received   |-> TRUE,
    fin_received   |-> fin,
    contiguous     |-> Text(f, next - ready, ready),
    segments       |-> [p \in D |-> Byte(f, p)],
    total_buffered |-> ready + Cardinality(D) ]

(* The positions that can be held when those before next have been ready.  *)
Beyond(next) == next + 1 .. StreamLen

Above(D, stop) == {p \in D : p > stop}

With(D, p, n) == D \cup p .. p + n - 1

Captured(next, D) == (1 .. next - 1) \cup D

(* c is what becomes of such a buffer with `next' and D, none of it ready, *)
(* that is given the n positions from p on: the bytes that got ready are   *)
(* the next ones of the flow, and nothing captured is missing.             *)
Grown(c, f, next, D, p, n, fin) ==
  \E stop \in next .. StreamLen + 1 : \E E \in SUBSET Beyond(stop) :
    /\ c = Live(f, stop, stop - next, E, fin)
    /\ Captured(stop, E) = With(Captured(next, D), p, n)

LEMMA BeyondFinite ==
  ASSUME NEW next \in Int, NEW D \in SUBSET Beyond(next)
  PROVE  IsFiniteSet(D) /\ Cardinality(D) \in Nat
<1>1. next + 1 \in Int /\ StreamLen \in Int
  BY ReassemblerAssumption
<1>2. IsFiniteSet(Beyond(next))
  BY <1>1, FS_Interval DEF Beyond
<1>3. QED
  BY <1>2, FS_Subset, FS_CardinalityType

(* The contiguous branch of feed: data that starts at next_seq makes ready *)
(* everything up to the first position that is neither in it nor held.     *)
LEMMA ExtendLive ==
  ASSUME NEW f, NEW next \in 1 .. StreamLen + 1,
         NEW D \in SUBSET Beyond(next), NEW fin \in BOOLEAN,
         NEW n \in Nat, next + n <= StreamLen + 1
  PROVE  \E stop \in next + n .. StreamLen + 1 :
           /\ stop \notin D
           /\ \A k \in next + n .. stop - 1 : k \in D
           /\ Extend(Live(f, next, 0, D, fin), Text(f, next, n))
                = Live(f, stop, stop - next, Above(D, stop), fin)
<1> DEFINE b      == Live(f, next, 0, D, fin)
           data   == Text(f, next, n)
           joined == next + n
           stop   == RunEnd(b.segments, joined)
           rest   == Above(D, stop)
           slice  == Slice(b.segments, joined, stop)
<1>1. /\ next \in Nat /\ next \in Int /\ joined \in Nat /\ joined \in Int
      /\ StreamLen \in Nat /\ D \subseteq Nat
  BY ReassemblerAssumption DEF Beyond
<1>2. /\ b.segments = [p \in D |-> Byte(f, p)] /\ DOMAIN b.segments = D
      /\ b.next_seq = next /\ b.contiguous = NoBytes
  BY <1>1, TextEmpty DEF Live
<1>3. \E m \in joined .. joined + Cardinality(D) :
        m \notin D /\ \A k \in joined .. m - 1 : k \in D
  BY <1>1, BeyondFinite, FirstGap
<1>4. /\ stop \in joined .. joined + Cardinality(D)
      /\ stop \notin D /\ \A k \in joined .. stop - 1 : k \in D
  <2> HIDE DEF b, joined
  <2> QED BY <1>2, <1>3, Zenon DEF RunEnd
<1>5. stop \in Nat /\ stop >= joined
  BY <1>1, <1>4, BeyondFinite
<1> HIDE DEF stop
<1>6. stop <= StreamLen + 1
  <2> SUFFICES ASSUME stop > StreamLen + 1 PROVE FALSE
    BY <1>1, <1>5
  <2>1. stop - 1 \in joined .. stop - 1
    BY <1>1, <1>5
  <2>2. stop - 1 \in D
    BY <2>1, <1>4
  <2>3. QED BY <2>2, <1>1, <1>5 DEF Beyond
<1>7. slice = Text(f, joined, stop - joined)
  <2>1. \A i \in 1 .. stop - joined : b.segments[joined + i - 1] = Byte(f, joined + i - 1)
    <3> SUFFICES ASSUME NEW i \in 1 .. stop - joined
                 PROVE  b.segments[joined + i - 1] = Byte(f, joined + i - 1)
      OBVIOUS
    <3>1. joined + i - 1 \in joined .. stop - 1
      BY <1>1, <1>5
    <3>2. joined + i - 1 \in D
      BY <3>1, <1>4
    <3> HIDE DEF joined, b
    <3> QED BY <3>2, <1>2
  <2> HIDE DEF joined, b
  <2> QED BY <2>1 DEF Slice, Text
<1>8. /\ Len(data) = n
      /\ b.contiguous \o data \o slice = Text(f, next, stop - next)
  <2>1. /\ data \in Seq(BytesOf(f)) /\ Len(data) = n
    BY <1>1, TextType
  <2>2. NoBytes \o data = data
    <3> HIDE DEF data
    <3> QED BY <2>1, EmptyJoin
  <2> DEFINE m == stop - joined
  <2>3. m \in Nat /\ n + m = stop - next
    BY <1>1, <1>5
  <2>4. data \o Text(f, joined, m) = Text(f, next, n + m)
    <3> HIDE DEF m
    <3> QED BY <1>1, <2>3, TextJoin
  <2> HIDE DEF data, slice, b
  <2> QED BY <2>1, <2>2, <2>3, <2>4, <1>2, <1>7
<1> DEFINE c == Extend(b, data)
           bytes == Text(f, next, stop - next)
<1>9. c = [b EXCEPT !.contiguous     = bytes,
                    !.next_seq       = stop,
                    !.segments       = [p \in rest |-> Byte(f, p)],
                    !.total_buffered = (stop - next) + Cardinality(rest)]
  <2>1. b.next_seq + Len(data) = joined
    BY <1>2, <1>8
  <2>2. [p \in rest |-> b.segments[p]] = [p \in rest |-> Byte(f, p)]
    BY <1>2 DEF Above
  <2>3. Len(bytes) = stop - next
    <3>1. stop - next \in Nat
      BY <1>1, <1>5
    <3> QED BY <1>1, <3>1, TextType
  <2>4. {p \in DOMAIN b.segments : p > stop} = rest
    BY <1>2 DEF Above
  <2>5. RunEnd(b.segments, joined) = stop
    BY DEF stop
  <2> HIDE DEF b, data, bytes, rest, joined
  <2>6. c = [b EXCEPT !.contiguous     = b.contiguous \o data \o slice,
                      !.next_seq       = stop,
                      !.segments       = [p \in rest |-> b.segments[p]],
                      !.total_buffered = Len(b.contiguous \o data \o slice)
                                           + Cardinality(rest)]
    BY <2>1, <2>4, <2>5, Zenon DEF Extend
  <2>7. b.contiguous \o data \o slice = bytes
    BY <1>8 DEF bytes
  <2> QED BY <2>2, <2>3, <2>6, <2>7
<1>10. c = Live(f, stop, stop - next, rest, fin)
  <2>1. stop - (stop - next) = next
    BY <1>1, <1>5
  <2> HIDE DEF rest, c
  <2> QED BY <1>9, <2>1 DEF Live
<1>11. stop \in joined .. StreamLen + 1
  BY <1>1, <1>5, <1>6
<1>12. QED
  <2> HIDE DEF c
  <2> QED BY <1>4, <1>10, <1>11 DEF c

(* The out-of-order branch: the new positions are held with the old ones,  *)
(* whichever copy wins where they overlap.                                 *)
LEMMA InsertLive ==
  ASSUME NEW f, NEW next \in 1 .. StreamLen + 1,
         NEW D \in SUBSET Beyond(next), NEW fin \in BOOLEAN,
         NEW p \in Nat, NEW n \in Nat, p > next, p + n - 1 <= StreamLen
  PROVE  /\ With(D, p, n) \in SUBSET Beyond(next)
         /\ InsertSegment(Live(f, next, 0, D, fin), p, Text(f, p, n))
              = Live(f, next, 0, With(D, p, n), fin)
<1> DEFINE b    == Live(f, next, 0, D, fin)
           data == Text(f, p, n)
           new  == p .. p + Len(data) - 1
           old  == b.segments
           Wins(q) == /\ q \in DOMAIN old
                      /\ q \in new => \E k \in p .. q : k \notin DOMAIN old
           held == [q \in DOMAIN old \cup new |->
                      IF Wins(q) THEN old[q] ELSE data[q - p + 1]]
           all  == With(D, p, n)
           c    == InsertSegment(b, p, data)
<1>1. /\ next \in Nat /\ next \in Int /\ StreamLen \in Nat
      /\ all \in SUBSET Beyond(next)
  BY ReassemblerAssumption DEF Beyond, With
<1>2. /\ old = [q \in D |-> Byte(f, q)] /\ DOMAIN old = D
      /\ b.contiguous = NoBytes
  BY <1>1, TextEmpty DEF Live
<1>3. /\ Len(data) = n
      /\ \A i \in 1 .. n : data[i] = Byte(f, p + i - 1)
  BY TextType
<1>4. \A q \in p .. p + n - 1 : data[q - p + 1] = Byte(f, q)
  <2> SUFFICES ASSUME NEW q \in p .. p + n - 1
               PROVE  data[q - p + 1] = Byte(f, q)
    OBVIOUS
  <2> DEFINE i == q - p + 1
  <2>1. i \in 1 .. n /\ p + i - 1 = q
    OBVIOUS
  <2> HIDE DEF i, data
  <2>2. data[i] = Byte(f, p + i - 1)
    BY <2>1, <1>3
  <2> QED BY <2>1, <2>2 DEF i
<1>5. new = p .. p + n - 1
  BY <1>3
<1>6. held = [q \in all |-> Byte(f, q)]
  <2>1. \A q \in all : (IF Wins(q) THEN old[q] ELSE data[q - p + 1]) = Byte(f, q)
    <3> SUFFICES ASSUME NEW q \in all
                 PROVE  (IF Wins(q) THEN old[q] ELSE data[q - p + 1]) = Byte(f, q)
      OBVIOUS
    <3>1. CASE Wins(q)
      <4>1. q \in D
        BY <3>1, <1>2
      <4>2. old[q] = Byte(f, q)
        BY <4>1, <1>2
      <4> HIDE DEF Wins, old
      <4> QED BY <3>1, <4>2
    <3>2. CASE ~ Wins(q)
      <4>1. q \in p .. p + n - 1
        <5>1. q \in D => q \in p .. p + n - 1
          BY <3>2, <1>2, <1>5
        <5> QED BY <5>1 DEF With
      <4>2. data[q - p + 1] = Byte(f, q)
        BY <4>1, <1>4
      <4> HIDE DEF Wins, data
      <4> QED BY <3>2, <4>2
    <3> QED BY <3>1, <3>2
  <2>2. DOMAIN old \cup new = all
    BY <1>2, <1>5 DEF With
  <2> HIDE DEF Wins, data, old, new
  <2> QED BY <2>1, <2>2
<1>7. c = [b EXCEPT !.segments       = held,
                    !.total_buffered = Len(b.contiguous) + Cardinality(DOMAIN held)]
  BY Zenon DEF InsertSegment
<1>8. Len(NoBytes) = 0 /\ DOMAIN held = all
  BY <1>6 DEF NoBytes
<1>9. c = [b EXCEPT !.segments       = [q \in all |-> Byte(f, q)],
                    !.total_buffered = 0 + Cardinality(all)]
  <2> HIDE DEF b, held, c
  <2> QED BY <1>2, <1>6, <1>7, <1>8
<1>10. c = Live(f, next, 0, all, fin)
  <2> HIDE DEF c
  <2> QED BY <1>9 DEF Live
<1>11. QED
  BY <1>1, <1>10

(* Placing n > 0 bytes of the stream: the bytes that get ready are the     *)
(* next ones of the flow, and what is now ready or held is what was before *)
(* and the new positions.                                                  *)
LEMMA PlaceLive ==
  ASSUME NEW f, NEW next \in 1 .. StreamLen + 1,
         NEW D \in SUBSET Beyond(next), NEW fin \in BOOLEAN,
         NEW p \in Nat \ {0}, NEW n \in Nat \ {0}, p + n - 1 <= StreamLen
  PROVE  Grown(Place(Live(f, next, 0, D, fin), p, Text(f, p, n)),
               f, next, D, p, n, fin)
<1> DEFINE b       == Live(f, next, 0, D, fin)
           payload == Text(f, p, n)
           overlap == IF p < next THEN next - p ELSE 0
           data    == SubSeq(payload, overlap + 1, Len(payload))
<1>1. /\ next \in Nat /\ StreamLen \in Nat /\ D \subseteq Nat
      /\ next \in next .. StreamLen + 1
      /\ p \in Nat /\ p \in Int /\ n \in Nat
  BY ReassemblerAssumption DEF Beyond
<1>2. b.next_seq = next /\ Len(payload) = n
  BY TextType DEF Live
<1>3. CASE p + n <= next
  <2>1. Place(b, p, payload) = b
    BY <1>2, <1>3, Zenon DEF Place
  <2>2. b = Live(f, next, next - next, D, fin)
    BY <1>1
  <2>3. Captured(next, D) = With(Captured(next, D), p, n)
    BY <1>1, <1>3 DEF Captured, With
  <2> HIDE DEF b, payload
  <2>4. /\ Place(b, p, payload) = Live(f, next, next - next, D, fin)
        /\ Captured(next, D) = With(Captured(next, D), p, n)
    BY <2>1, <2>2, <2>3
  <2> QED BY <2>4, <1>1 DEF b, payload, Grown
<1>4. ASSUME ~ (p + n <= next)
      PROVE  data = Text(f, p + overlap, n - overlap) /\ overlap \in 0 .. n
  <2>1. overlap \in 0 .. n
    BY <1>1, <1>4
  <2> HIDE DEF overlap
  <2>2. SubSeq(payload, overlap + 1, n) = Text(f, p + overlap, n - overlap)
    BY <2>1, <1>1, TextCut, Zenon
  <2> QED BY <2>1, <2>2, <1>2
<1>5. CASE ~ (p + n <= next) /\ p <= next
  <2> DEFINE m == n - overlap
  <2>1. p + overlap = next /\ m \in Nat /\ next + m = p + n
    BY <1>1, <1>5
  <2>2. data = Text(f, next, m)
    <3>1. data = Text(f, p + overlap, n - overlap)
      BY <1>4, <1>5
    <3> HIDE DEF data, overlap
    <3> QED BY <3>1, <2>1
  <2>bound. next + m <= StreamLen + 1
    BY <1>1, <2>1
  <2> HIDE DEF m, data, overlap
  <2>3. PICK stop \in next + m .. StreamLen + 1 :
          /\ stop \notin D
          /\ \A k \in next + m .. stop - 1 : k \in D
          /\ Extend(b, Text(f, next, m))
               = Live(f, stop, stop - next, Above(D, stop), fin)
    BY <2>1, <2>bound, ExtendLive
  <2> DEFINE E == Above(D, stop)
  <2>4. Place(b, p, payload) = Extend(b, data)
    BY <1>2, <1>5, Zenon DEF Place, data, overlap
  <2>5. stop \in next .. StreamLen + 1 /\ E \in SUBSET Beyond(stop)
    <3>1. stop \in next .. StreamLen + 1
      BY <1>1, <2>1
    <3>2. \A q \in D : q \in next + 1 .. StreamLen
      BY DEF Beyond
    <3>3. \A q \in E : q \in D /\ q > stop
      BY DEF Above
    <3> HIDE DEF E
    <3>4. ASSUME NEW q \in E PROVE q \in stop + 1 .. StreamLen
      <4>1. q \in D /\ q > stop
        BY <3>3
      <4>2. q \in next + 1 .. StreamLen
        BY <4>1, <3>2
      <4> QED BY <4>1, <4>2, <3>1, <1>1
    <3> QED BY <3>1, <3>4 DEF Beyond
  <2>6. Captured(stop, E) = With(Captured(next, D), p, n)
    <3>1. stop \in Nat /\ stop >= p + n
      BY <1>1, <2>1, <2>3
    <3>2. \A k \in p + n .. stop - 1 : k \in D
      BY <2>1, <2>3
    <3>3. ASSUME NEW k \in (1 .. stop - 1) \cup E
          PROVE  k \in ((1 .. next - 1) \cup D) \cup p .. p + n - 1
      <4>1. CASE k \in E
        BY <4>1 DEF Above
      <4>2. CASE k \in 1 .. stop - 1
        <5>1. CASE k < p
          BY <5>1, <4>2, <1>1, <1>5
        <5>2. CASE k >= p + n
          <6>1. k \in p + n .. stop - 1
            BY <5>2, <4>2
          <6> QED BY <6>1, <3>2
        <5>3. CASE ~ (k < p) /\ ~ (k >= p + n)
          BY <5>3, <4>2
        <5> QED BY <5>1, <5>2, <5>3
      <4> QED BY <4>1, <4>2
    <3>4. ASSUME NEW k \in ((1 .. next - 1) \cup D) \cup p .. p + n - 1
          PROVE  k \in (1 .. stop - 1) \cup E
      <4>1. k \in Nat \ {0}
        BY <1>1 DEF Beyond
      <4>2. CASE k < stop
        BY <4>1, <4>2, <3>1
      <4>3. CASE ~ (k < stop)
        <5>1. k \in D
          BY <4>3, <3>1, <1>1, <1>5
        <5>2. k # stop
          BY <5>1, <2>3
        <5> QED BY <5>1, <5>2, <4>1, <4>3, <3>1 DEF Above
      <4> QED BY <4>2, <4>3
    <3> HIDE DEF E
    <3> QED BY <3>3, <3>4 DEF Captured, With
  <2> HIDE DEF b, payload, data, E
  <2>7. Place(b, p, payload) = Live(f, stop, stop - next, E, fin)
    BY <2>2, <2>3, <2>4 DEF E
  <2>8. \E G \in SUBSET Beyond(stop) :
          /\ Place(b, p, payload) = Live(f, stop, stop - next, G, fin)
          /\ Captured(stop, G) = With(Captured(next, D), p, n)
    BY <2>5, <2>6, <2>7
  <2> QED BY <2>5, <2>8 DEF b, payload, Grown
<1>6. CASE ~ (p + n <= next) /\ ~ (p <= next)
  <2>1. data = Text(f, p, n)
    <3>1. data = Text(f, p + overlap, n - overlap)
      BY <1>4, <1>6
    <3>2. overlap = 0 /\ p + 0 = p /\ n - 0 = n
      BY <1>1, <1>6
    <3> HIDE DEF data, overlap
    <3> QED BY <3>1, <3>2
  <2> DEFINE E == With(D, p, n)
  <2>p. p > next
    BY <1>1, <1>6
  <2>2. /\ E \in SUBSET Beyond(next)
        /\ InsertSegment(b, p, Text(f, p, n)) = Live(f, next, 0, E, fin)
    <3> HIDE DEF data, overlap
    <3>1. E \in SUBSET Beyond(next)
      BY <2>p, <1>1, InsertLive
    <3>2. InsertSegment(Live(f, next, 0, D, fin), p, Text(f, p, n))
            = Live(f, next, 0, E, fin)
      BY <2>p, <1>1, InsertLive
    <3> QED BY <3>1, <3>2
  <2>3. Place(b, p, payload) = InsertSegment(b, p, data)
    BY <1>2, <1>6, Zenon DEF Place
  <2>4. next - next = 0
    BY <1>1
  <2>5. Captured(next, E) = With(Captured(next, D), p, n)
    BY DEF Captured, With
  <2> HIDE DEF b, payload, data, E
  <2>6. /\ Place(b, p, payload) = Live(f, next, next - next, E, fin)
        /\ Captured(next, E) = With(Captured(next, D), p, n)
    BY <2>1, <2>2, <2>3, <2>4, <2>5
  <2> QED BY <2>2, <2>6, <1>1 DEF b, payload, Grown
<1>7. QED
  BY <1>3, <1>5, <1>6
-----------------------------------------------------------------------------
(* feed on a buffer that knows the SYN: n bytes from position p on, or     *)
(* none, with or without the FIN of the flow.                              *)
LEMMA FeedLive ==
  ASSUME NEW f, NEW next \in 1 .. StreamLen + 1,
         NEW D \in SUBSET Beyond(next), NEW fin \in BOOLEAN,
         NEW p \in 1 .. StreamLen + 1, NEW n \in 0 .. StreamLen,
         p + n - 1 <= StreamLen,
         NEW last \in BOOLEAN, last => p + n - 1 = StreamLen
  PROVE  Grown(Feed(Live(f, next, 0, D, fin), p, Text(f, p, n), FALSE, last),
               f, next, D, p, n, fin \/ last)
<1> DEFINE b       == Live(f, next, 0, D, fin)
           payload == Text(f, p, n)
           either  == fin \/ last
           marked  == IF last THEN MarkFin(b, p, Len(payload)) ELSE b
<1>1. /\ next \in Nat /\ StreamLen \in Nat /\ p \in Nat \ {0} /\ p \in Int /\ n \in Nat
      /\ either \in BOOLEAN
  BY ReassemblerAssumption
<1>2. payload \in Seq(BytesOf(f)) /\ Len(payload) = n
  BY <1>1, TextType
<1>3. marked = Live(f, next, 0, D, either)
  <2>1. CASE last
    <3>1. p + Len(payload) = StreamLen + 1 /\ either = TRUE
      BY <2>1, <1>1, <1>2
    <3>2. marked = [b EXCEPT !.fin_seq = StreamLen + 1, !.fin_received = TRUE]
      <4> HIDE DEF b, payload
      <4> QED BY <2>1, <3>1 DEF MarkFin
    <3> QED BY <3>1, <3>2 DEF Live
  <2>2. CASE ~ last
    BY <2>2
  <2> QED BY <2>1, <2>2
<1>4. b.isn = 0 /\ 0 # None /\ p - 0 = p
  BY <1>1 DEF Live, None
<1>5. Feed(b, p, payload, FALSE, last)
        = IF payload = NoBytes THEN marked ELSE Place(marked, p - b.isn, payload)
  <2>1. b.isn # None
    BY <1>4
  <2> HIDE DEF b, payload
  <2> QED BY <2>1, Zenon DEF Feed
<1>6. CASE n = 0
  <2>1. payload = NoBytes
    BY <1>1, <1>6, TextEmpty
  <2>2. next - next = 0 /\ next \in next .. StreamLen + 1
    BY <1>1
  <2>3. Captured(next, D) = With(Captured(next, D), p, n)
    BY <1>1, <1>6 DEF With
  <2>4. Feed(b, p, payload, FALSE, last) = Live(f, next, next - next, D, either)
    <3> HIDE DEF b, payload, marked, either
    <3> QED BY <2>1, <2>2, <1>3, <1>5
  <2> HIDE DEF b, payload, marked, either
  <2>5. /\ Feed(b, p, payload, FALSE, last) = Live(f, next, next - next, D, either)
        /\ Captured(next, D) = With(Captured(next, D), p, n)
    BY <2>3, <2>4
  <2> QED BY <2>2, <2>5 DEF b, payload, either, Grown
<1>7. CASE n # 0
  <2>1. payload # NoBytes
    BY <1>2, <1>7, EmptySeq DEF NoBytes
  <2> n \in Nat \ {0} /\ p \in Nat \ {0}
    BY <1>1, <1>7
  <2>2. Feed(b, p, payload, FALSE, last) = Place(Live(f, next, 0, D, either), p, payload)
    <3> HIDE DEF b, payload, marked, either
    <3> QED BY <2>1, <1>3, <1>4, <1>5
  <2>3. Grown(Place(Live(f, next, 0, D, either), p, Text(f, p, n)),
              f, next, D, p, n, either)
    <3> HIDE DEF either
    <3> QED BY <1>1, PlaceLive
  <2> QED BY <2>2, <2>3, Zenon
<1>8. QED
  BY <1>6, <1>7

(* A buffer that knows no SYN takes nothing but a SYN, and a SYN sets the  *)
(* buffer back to the first position, with what it held.                   *)
LEMMA FeedUnknown ==
  ASSUME NEW seq, NEW payload, NEW last
  PROVE  Feed(NewBuffer, seq, payload, FALSE, last) = NewBuffer
  BY DEF Feed, NewBuffer

LEMMA FeedSynLive ==
  ASSUME NEW f
  PROVE  /\ Feed(NewBuffer, 0, NoBytes, TRUE, FALSE) = Live(f, 1, 0, {}, FALSE)
         /\ \A next \in 1 .. StreamLen + 1 : \A D \in SUBSET Beyond(next) :
              \A fin \in BOOLEAN :
                Feed(Live(f, next, 0, D, fin), 0, NoBytes, TRUE, FALSE)
                  = Live(f, 1, 0, D, fin)
<1>1. /\ Text(f, 1, 0) = NoBytes
      /\ Len(NoBytes) = 0
      /\ NoBytes \o NoBytes = NoBytes
      /\ 1 - 0 = 1 /\ 1 + 0 = 1 /\ 0 + 0 = 0
      /\ Cardinality({}) = 0
      /\ [p \in {} |-> Byte(f, p)] = NoBytes
  BY TextEmpty, FS_EmptySet DEF NoBytes
<1>2. Feed(NewBuffer, 0, NoBytes, TRUE, FALSE) = Live(f, 1, 0, {}, FALSE)
  BY <1>1 DEF Feed, FeedSyn, NewBuffer, Live
<1>3. ASSUME NEW next \in 1 .. StreamLen + 1, NEW D \in SUBSET Beyond(next),
             NEW fin \in BOOLEAN
      PROVE  Feed(Live(f, next, 0, D, fin), 0, NoBytes, TRUE, FALSE)
               = Live(f, 1, 0, D, fin)
  <2> DEFINE b == Live(f, next, 0, D, fin)
             m == 0 + Cardinality(D)
             held == [p \in D |-> Byte(f, p)]
             end  == IF fin THEN StreamLen + 1 ELSE None
             At0(k) == [isn |-> 0, next_seq |-> k, fin_seq |-> end,
                        syn_received |-> TRUE, fin_received |-> fin,
                        contiguous |-> NoBytes, segments |-> held,
                        total_buffered |-> m]
  <2>1. m \in Nat /\ m + 0 = m
    <3>1. next \in Int
      BY ReassemblerAssumption
    <3>2. Cardinality(D) \in Nat
      BY <3>1, BeyondFinite
    <3> QED BY <3>2
  <2>2. Text(f, next - 0, 0) = NoBytes /\ Text(f, 1 - 0, 0) = NoBytes
    BY TextEmpty, ReassemblerAssumption
  <2>3. b = At0(next)
    BY <2>2, Zenon DEF Live, m
  <2>4. Live(f, 1, 0, D, fin) = At0(1)
    BY <2>2, Zenon DEF Live, m
  <2> HIDE DEF b, held, end, m
  <2>5. Feed(At0(next), 0, NoBytes, TRUE, FALSE) = At0(1)
    BY <2>1, <1>1 DEF Feed, FeedSyn
  <2> HIDE DEF At0
  <2>6. Feed(b, 0, NoBytes, TRUE, FALSE) = Live(f, 1, 0, D, fin)
    BY <2>3, <2>4, <2>5, Zenon
  <2> QED BY <2>6 DEF b
<1>4. QED
  BY <1>2, <1>3
-----------------------------------------------------------------------------
(* get_data and merged_data on such a buffer.                              *)
LEMMA DrainLive ==
  ASSUME NEW f, NEW next \in 1 .. StreamLen + 1, NEW r \in 0 .. next - 1,
         NEW D \in SUBSET Beyond(next), NEW fin \in BOOLEAN
  PROVE  /\ DataOf(Live(f, next, r, D, fin), FALSE) = Text(f, next - r, r)
         /\ AfterGetData(Live(f, next, r, D, fin), FALSE)
              = Live(f, next, 0, D, fin)
         /\ Cleared(Live(f, next, r, D, fin)) = Live(f, next, 0, {}, fin)
<1> DEFINE b    == Live(f, next, r, D, fin)
           data == Text(f, next - r, r)
           held == [p \in D |-> Byte(f, p)]
           end  == IF fin THEN StreamLen + 1 ELSE None
           card == Cardinality(D)
           With0(bytes, segs, total) ==
             [isn |-> 0, next_seq |-> next, fin_seq |-> end,
              syn_received |-> TRUE, fin_received |-> fin,
              contiguous |-> bytes, segments |-> segs,
              total_buffered |-> total]
<1>1. /\ next \in Int /\ r \in Nat /\ next - r \in Int /\ card \in Nat
      /\ Len(data) = r
  <2>1. next \in Int /\ r \in Nat /\ next - r \in Int
    BY ReassemblerAssumption
  <2>2. card \in Nat
    BY <2>1, BeyondFinite
  <2>3. Len(data) = r
    <3> DEFINE q == next - r
    <3> HIDE DEF q
    <3>1. q \in Int
      BY <2>1 DEF q
    <3>2. Len(Text(f, q, r)) = r
      BY <2>1, <3>1, TextType
    <3> QED BY <3>2 DEF q
  <2> QED BY <2>1, <2>2, <2>3
<1>2. Text(f, next - 0, 0) = NoBytes
  BY TextEmpty, ReassemblerAssumption
<1>3. 0 + Cardinality({}) = 0 /\ [p \in {} |-> Byte(f, p)] = NoBytes
  BY FS_EmptySet DEF NoBytes
<1>4. b = With0(data, held, r + card)
  BY Zenon DEF Live
<1>5. Live(f, next, 0, D, fin) = With0(NoBytes, held, 0 + card)
  BY <1>2, Zenon DEF Live
<1>6. Live(f, next, 0, {}, fin) = With0(NoBytes, NoBytes, 0)
  BY <1>2, <1>3, Zenon DEF Live
<1> HIDE DEF b, data, held, end, card
<1> DEFINE full    == With0(data, held, r + card)
           drained == AfterGetData(full, FALSE)
           cleared == Cleared(full)
<1>7. DataOf(full, FALSE) = data
  BY DEF DataOf
<1>8. drained = With0(NoBytes, held, 0 + card)
  <2>1. drained = [full EXCEPT !.contiguous     = NoBytes,
                               !.total_buffered = 0 + card]
    <3> DEFINE left == full.total_buffered - Len(full.contiguous)
    <3>1. left = 0 + card
      BY <1>1
    <3> HIDE DEF full
    <3>2. drained = [full EXCEPT !.contiguous = NoBytes, !.total_buffered = left]
      BY DEF AfterGetData
    <3> HIDE DEF left, drained
    <3> QED BY <3>1, <3>2
  <2> HIDE DEF drained
  <2> QED BY <2>1
<1>9. cleared = With0(NoBytes, NoBytes, 0)
  <2>1. cleared = [full EXCEPT !.contiguous = NoBytes, !.segments = NoBytes,
                               !.total_buffered = 0]
    BY Zenon DEF Cleared
  <2> HIDE DEF cleared
  <2> QED BY <2>1
<1> HIDE DEF With0
<1>10. /\ DataOf(b, FALSE) = data
       /\ AfterGetData(b, FALSE) = Live(f, next, 0, D, fin)
       /\ Cleared(b) = Live(f, next, 0, {}, fin)
  BY <1>4, <1>5, <1>6, <1>7, <1>8, <1>9, Zenon
<1> QED BY <1>10, Zenon DEF b, data

LEMMA DrainUnknown ==
  /\ DataOf(NewBuffer, FALSE) = NoBytes
  /\ AfterGetData(NewBuffer, FALSE) = NewBuffer
  /\ Cleared(NewBuffer) = NewBuffer
<1>1. Len(NoBytes) = 0 /\ 0 - 0 = 0
  BY DEF NoBytes
<1>2. AfterGetData(NewBuffer, FALSE) = NewBuffer
  BY <1>1 DEF AfterGetData, NewBuffer
<1> DEFINE cleared == Cleared(NewBuffer)
<1>3. cleared = NewBuffer
  <2>1. cleared = [NewBuffer EXCEPT !.contiguous = NoBytes, !.segments = NoBytes,
                                    !.total_buffered = 0]
    BY Zenon DEF Cleared
  <2> HIDE DEF cleared
  <2> QED BY <2>1 DEF NewBuffer
<1> QED BY <1>2, <1>3 DEF DataOf, NewBuffer

(* The buffers between two packets, which have no bytes ready: callers of  *)
(* the model's feed leave no other ones behind.                            *)
Settled(f) ==
  {NewBuffer} \cup
    UNION {{Live(f, next, 0, D, fin) : D \in SUBSET Beyond(next), fin \in BOOLEAN}
             : next \in 1 .. StreamLen + 1}

(* The buffers while feed runs.                                            *)
IsFed(b, f) ==
  \/ b = NewBuffer
  \/ \E next \in 1 .. StreamLen + 1 : \E r \in 0 .. next - 1 :
       \E D \in SUBSET Beyond(next) : \E fin \in BOOLEAN :
         b = Live(f, next, r, D, fin)

LEMMA SettledCases ==
  ASSUME NEW f, NEW b
  PROVE  b \in Settled(f) <=>
           \/ b = NewBuffer
           \/ \E next \in 1 .. StreamLen + 1 : \E D \in SUBSET Beyond(next) :
                \E fin \in BOOLEAN : b = Live(f, next, 0, D, fin)
  BY DEF Settled

LEMMA SettledIsFed ==
  ASSUME NEW f, NEW b \in Settled(f)
  PROVE  IsFed(b, f)
<1>1. ASSUME NEW next \in 1 .. StreamLen + 1
      PROVE  0 \in 0 .. next - 1
  BY ReassemblerAssumption
<1> QED BY <1>1, SettledCases, Zenon DEF IsFed

LEMMA DrainSettles ==
  ASSUME NEW f, NEW b, IsFed(b, f), NEW gaps \in BOOLEAN
  PROVE  AfterGetData(b, gaps) \in Settled(f) /\ Cleared(b) \in Settled(f)
<1>1. CASE b = NewBuffer
  <2>1. AfterGetData(b, FALSE) = b /\ Cleared(b) = b
    BY <1>1, DrainUnknown, Zenon
  <2>2. AfterGetData(b, TRUE) = b
    BY <2>1 DEF AfterGetData
  <2>3. b \in Settled(f)
    BY <1>1, SettledCases, Zenon
  <2> QED BY <2>1, <2>2, <2>3
<1>2. ASSUME NEW next \in 1 .. StreamLen + 1, NEW r \in 0 .. next - 1,
             NEW D \in SUBSET Beyond(next), NEW fin \in BOOLEAN,
             b = Live(f, next, r, D, fin)
      PROVE  AfterGetData(b, gaps) \in Settled(f) /\ Cleared(b) \in Settled(f)
  <2>1. /\ AfterGetData(b, FALSE) = Live(f, next, 0, D, fin)
        /\ Cleared(b) = Live(f, next, 0, {}, fin)
    BY <1>2, DrainLive
  <2>2. {} \in SUBSET Beyond(next)
    OBVIOUS
  <2>3. Cleared(b) \in Settled(f)
    BY <2>1, <2>2, SettledCases, Zenon
  <2>4. AfterGetData(b, FALSE) \in Settled(f)
    BY <2>1, SettledCases, Zenon
  <2>5. AfterGetData(b, TRUE) = Cleared(b)
    BY DEF AfterGetData
  <2> QED BY <2>3, <2>4, <2>5
<1> QED BY <1>1, <1>2 DEF IsFed

LEMMA LimitedSettles ==
  ASSUME NEW f, NEW b \in Settled(f)
  PROVE  Limited(b) \in Settled(f)
<1>1. IsFed(b, f) /\ fill_gaps \in BOOLEAN
  BY SettledIsFed, ReassemblerAssumption
<1>2. AfterGetData(b, fill_gaps) \in Settled(f)
  BY <1>1, DrainSettles
<1> QED BY <1>2 DEF Limited
-----------------------------------------------------------------------------
(* Connections between two packets.  The second buffer of a connection     *)
(* of an endpoint with itself is never fed.                                *)
Reverse(f) == <<f[2], f[1]>>

Conns ==
  {c \in UNION {[id : {id}, c2s : Settled(id), s2c : Settled(Reverse(id))]
                  : id \in ConnIds} :
     c.id[1] = c.id[2] => c.s2c = NewBuffer}

LEMMA ConnParts ==
  ASSUME NEW c \in Conns
  PROVE  /\ c.id \in ConnIds
         /\ c.c2s \in Settled(c.id)
         /\ c.s2c \in Settled(Reverse(c.id))
         /\ c.id[1] = c.id[2] => c.s2c = NewBuffer
         /\ c = [id |-> c.id, c2s |-> c.c2s, s2c |-> c.s2c]
<1>1. PICK id \in ConnIds : c \in [id : {id}, c2s : Settled(id), s2c : Settled(Reverse(id))]
  BY DEF Conns
<1>2. c.id = id /\ c.c2s \in Settled(id) /\ c.s2c \in Settled(Reverse(id))
  BY <1>1
<1>3. c = [id |-> c.id, c2s |-> c.c2s, s2c |-> c.s2c]
  BY <1>1
<1>4. c.id[1] = c.id[2] => c.s2c = NewBuffer
  BY DEF Conns
<1> QED BY <1>2, <1>3, <1>4

LEMMA ConnOf ==
  ASSUME NEW id \in ConnIds, NEW x \in Settled(id), NEW y \in Settled(Reverse(id)),
         id[1] = id[2] => y = NewBuffer
  PROVE  [id |-> id, c2s |-> x, s2c |-> y] \in Conns
<1> DEFINE c == [id |-> id, c2s |-> x, s2c |-> y]
<1>1. c \in [id : {id}, c2s : Settled(id), s2c : Settled(Reverse(id))]
  OBVIOUS
<1>2. c.id[1] = c.id[2] => c.s2c = NewBuffer
  OBVIOUS
<1> HIDE DEF c
<1> QED BY <1>1, <1>2 DEF Conns, c

LEMMA NewConnOf ==
  ASSUME NEW id \in ConnIds
  PROVE  NewConnection(id) \in Conns
<1>1. NewBuffer \in Settled(id) /\ NewBuffer \in Settled(Reverse(id))
  BY SettledCases
<1> QED BY <1>1, ConnOf DEF NewConnection

(* A flow and the connection it belongs to.                                *)
LEMMA FlowId ==
  ASSUME NEW f \in Flows
  PROVE  /\ ConnId(f[1], f[2]) \in ConnIds
         /\ f[1] = ConnId(f[1], f[2])[1] => f = ConnId(f[1], f[2])
         /\ f[1] # ConnId(f[1], f[2])[1] =>
              /\ f = Reverse(ConnId(f[1], f[2]))
              /\ ConnId(f[1], f[2])[1] # ConnId(f[1], f[2])[2]
<1>1. /\ f \in Nat \X Nat
      /\ f = <<f[1], f[2]>> /\ f[1] \in Nat /\ f[2] \in Nat
  BY ReassemblerAssumption
<1>2. ConnId(f[1], f[2]) \in ConnIds
  BY DEF ConnIds
<1>3. CASE f[1] <= f[2]
  BY <1>1, <1>2, <1>3 DEF ConnId, Reverse
<1>4. CASE ~ (f[1] <= f[2])
  BY <1>1, <1>2, <1>4 DEF ConnId, Reverse
<1> QED BY <1>3, <1>4

LEMMA IndexOfFound ==
  ASSUME NEW conns, NEW id, Has(conns, id)
  PROVE  IndexOf(conns, id) \in Indices(conns) /\ conns[IndexOf(conns, id)].id = id
  BY Zenon DEF Has, IndexOf
-----------------------------------------------------------------------------
(* _evict_one.                                                             *)
LEMMA FirstOf ==
  ASSUME NEW T \in SUBSET Nat, T # {}
  PROVE  First(T) \in T
  BY LeastNatural, Zenon DEF First

LEMMA OutOfOrderBound ==
  ASSUME NEW f, NEW b \in Settled(f)
  PROVE  b.total_buffered - Len(b.contiguous) \in 0 .. StreamLen
<1>1. CASE b = NewBuffer
  <2>1. b.total_buffered = 0 /\ b.contiguous = NoBytes /\ Len(NoBytes) = 0
    BY <1>1 DEF NewBuffer, NoBytes
  <2> QED BY <2>1, ReassemblerAssumption
<1>2. ASSUME NEW next \in 1 .. StreamLen + 1, NEW D \in SUBSET Beyond(next),
             NEW fin \in BOOLEAN, b = Live(f, next, 0, D, fin)
      PROVE  b.total_buffered - Len(b.contiguous) \in 0 .. StreamLen
  <2>1. next \in Nat /\ next \in Int /\ next - 0 \in Int /\ StreamLen \in Nat /\ next >= 1
    BY ReassemblerAssumption
  <2>2. /\ b.total_buffered = 0 + Cardinality(D)
        /\ b.contiguous = NoBytes
    BY <1>2, <2>1, TextEmpty DEF Live
  <2>3. Len(NoBytes) = 0
    BY DEF NoBytes
  <2>4. Cardinality(D) \in 0 .. StreamLen
    <3> DEFINE a == next + 1
    <3>1. a \in Int /\ StreamLen \in Int /\ Beyond(next) = a .. StreamLen
      BY <2>1 DEF Beyond
    <3>2. /\ IsFiniteSet(Beyond(next))
          /\ Cardinality(Beyond(next)) = IF a > StreamLen THEN 0 ELSE StreamLen - a + 1
      <4> HIDE DEF a
      <4> QED BY <3>1, FS_Interval
    <3>3. Cardinality(D) <= Cardinality(Beyond(next)) /\ Cardinality(D) \in Nat
      BY <3>2, FS_Subset, FS_CardinalityType
    <3> QED BY <2>1, <3>2, <3>3
  <2> QED BY <2>1, <2>2, <2>3, <2>4
<1> QED BY <1>1, <1>2, SettledCases

(* The connection with most bytes out of order.                            *)
LEMMA WorstExists ==
  ASSUME NEW conns \in Seq(Conns), conns # << >>
  PROVE  \E i \in Indices(conns) : \A j \in Indices(conns) :
           OutOfOrder(conns[i]) >= OutOfOrder(conns[j])
<1> DEFINE top    == 2 * StreamLen
           T      == {top - OutOfOrder(conns[i]) : i \in Indices(conns)}
<1>1. Len(conns) \in Nat \ {0} /\ Indices(conns) = 1 .. Len(conns)
  BY EmptySeq DEF Indices
<1>2. ASSUME NEW i \in Indices(conns) PROVE OutOfOrder(conns[i]) \in 0 .. top
  <2>1. conns[i] \in Conns
    BY <1>1, ElementOfSeq
  <2>2. /\ conns[i].c2s \in Settled(conns[i].id)
        /\ conns[i].s2c \in Settled(Reverse(conns[i].id))
    BY <2>1, ConnParts
  <2> DEFINE x == conns[i].c2s.total_buffered - Len(conns[i].c2s.contiguous)
             y == conns[i].s2c.total_buffered - Len(conns[i].s2c.contiguous)
  <2>3. x \in 0 .. StreamLen /\ y \in 0 .. StreamLen
    BY <2>2, OutOfOrderBound
  <2>4. OutOfOrder(conns[i]) = x + y
    BY DEF OutOfOrder
  <2> HIDE DEF x, y
  <2> QED BY <2>3, <2>4, ReassemblerAssumption
<1>3. top \in Nat
  BY ReassemblerAssumption
<1> HIDE DEF top
<1>4. T \in SUBSET Nat /\ T # {}
  <2>1. 1 \in Indices(conns)
    BY <1>1
  <2> QED BY <1>2, <1>3, <2>1
<1>5. PICK t \in T : \A u \in T : t <= u
  BY <1>4, LeastNatural
<1>6. PICK i \in Indices(conns) : t = top - OutOfOrder(conns[i])
  BY <1>5
<1>7. ASSUME NEW j \in Indices(conns)
      PROVE  OutOfOrder(conns[i]) >= OutOfOrder(conns[j])
  <2>1. top - OutOfOrder(conns[j]) \in T
    OBVIOUS
  <2>2. t <= top - OutOfOrder(conns[j])
    BY <1>5, <2>1
  <2>3. /\ OutOfOrder(conns[i]) \in Int /\ OutOfOrder(conns[j]) \in Int
    BY <1>2, <1>3
  <2> HIDE DEF T
  <2> QED BY <1>3, <1>6, <2>2, <2>3
<1> QED BY <1>6, <1>7

LEMMA VictimFound ==
  ASSUME NEW conns \in Seq(Conns), conns # << >>
  PROVE  /\ Victim(conns) \in Indices(conns)
         /\ MayGo(conns, Victim(conns))
<1> DEFINE closed  == {i \in Indices(conns) : IsClosed(conns[i])}
           drained == {i \in closed : Drained(conns[i])}
           worst   == {i \in Indices(conns) : \A j \in Indices(conns) :
                         OutOfOrder(conns[i]) >= OutOfOrder(conns[j])}
           from    == IF drained # {} THEN drained
                      ELSE IF closed # {} THEN closed ELSE worst
<1>1. Victim(conns) = First(from)
  BY Zenon DEF Victim
<1>2. Indices(conns) \subseteq Nat
  BY DEF Indices
<1>3. worst # {}
  BY WorstExists
<1>4. /\ from # {} /\ from \subseteq Indices(conns)
      /\ \A i \in from : i \in closed \/ (closed = {} /\ i \in worst)
  <2> HIDE DEF worst
  <2>1. worst \subseteq Indices(conns)
    BY DEF worst
  <2> QED BY <1>3, <2>1
<1> HIDE DEF from
<1>5. First(from) \in from
  BY <1>2, <1>4, FirstOf
<1>6. \A i \in from : MayGo(conns, i)
  BY <1>4 DEF MayGo
<1> QED BY <1>1, <1>4, <1>5, <1>6

LEMMA WithoutOne ==
  ASSUME NEW S, NEW s \in Seq(S), NEW v \in 1 .. Len(s)
  PROVE  /\ Without(s, v) \in Seq(S)
         /\ Len(Without(s, v)) = Len(s) - 1
         /\ \A j \in 1 .. Len(s) - 1 :
              Without(s, v)[j] = s[IF j < v THEN j ELSE j + 1]
<1> DEFINE n == Len(s)
           a == SubSeq(s, 1, v - 1)
           b == SubSeq(s, v + 1, n)
           w == a \o b
<1>1. n \in Nat /\ v \in Nat /\ v >= 1 /\ v <= n
  BY LenProperties
<1> HIDE DEF n
<1>2. \A i \in 1 .. n : s[i] \in S
  BY ElementOfSeq DEF n
<1>3. /\ a \in Seq(S) /\ Len(a) = v - 1
      /\ \A i \in 1 .. v - 1 : a[i] = s[i]
  <2> DEFINE m == v - 1
  <2>1. m \in Int /\ 1 \in Int /\ (\A i \in 1 .. m : s[i] \in S) /\ (~ (1 <= m) => m = 0)
    BY <1>1, <1>2
  <2> HIDE DEF m
  <2>2. /\ SubSeq(s, 1, m) \in Seq(S)
        /\ Len(SubSeq(s, 1, m)) = IF 1 <= m THEN m - 1 + 1 ELSE 0
        /\ \A i \in 1 .. m - 1 + 1 : SubSeq(s, 1, m)[i] = s[1 + i - 1]
    BY <2>1, SubSeqProperties
  <2>3. m - 1 + 1 = m /\ \A i \in 1 .. m : 1 + i - 1 = i
    BY <2>1
  <2>4. Len(SubSeq(s, 1, m)) = m /\ \A i \in 1 .. m : SubSeq(s, 1, m)[i] = s[i]
    BY <2>1, <2>2, <2>3
  <2> QED BY <2>2, <2>4 DEF m
<1>4. /\ b \in Seq(S) /\ Len(b) = n - v
      /\ \A i \in 1 .. n - v : b[i] = s[v + i]
  <2> DEFINE m == v + 1
  <2>1. m \in Int /\ n \in Int /\ (\A i \in m .. n : s[i] \in S)
        /\ n - m + 1 = n - v /\ (~ (m <= n) => n - v = 0)
    BY <1>1, <1>2
  <2>2. \A i \in 1 .. n - v : m + i - 1 = v + i
    BY <1>1
  <2> HIDE DEF m
  <2>3. /\ SubSeq(s, m, n) \in Seq(S)
        /\ Len(SubSeq(s, m, n)) = IF m <= n THEN n - m + 1 ELSE 0
        /\ \A i \in 1 .. n - m + 1 : SubSeq(s, m, n)[i] = s[m + i - 1]
    BY <2>1, SubSeqProperties
  <2>4. Len(SubSeq(s, m, n)) = n - v /\ \A i \in 1 .. n - v : SubSeq(s, m, n)[i] = s[v + i]
    BY <2>1, <2>2, <2>3
  <2> QED BY <2>3, <2>4 DEF m
<1> HIDE DEF a, b
<1>5. /\ w \in Seq(S) /\ Len(w) = n - 1
      /\ \A i \in 1 .. n - 1 : w[i] = IF i <= v - 1 THEN a[i] ELSE b[i - (v - 1)]
  <2>1. /\ w \in Seq(S) /\ Len(w) = Len(a) + Len(b)
        /\ \A i \in 1 .. Len(a) + Len(b) :
             w[i] = IF i <= Len(a) THEN a[i] ELSE b[i - Len(a)]
    BY <1>3, <1>4, ConcatProperties
  <2>2. Len(a) + Len(b) = n - 1 /\ Len(a) = v - 1
    BY <1>1, <1>3, <1>4
  <2> HIDE DEF w
  <2> QED BY <2>1, <2>2
<1> HIDE DEF w
<1>6. ASSUME NEW j \in 1 .. n - 1 PROVE w[j] = s[IF j < v THEN j ELSE j + 1]
  <2>1. CASE j < v
    <3>1. j \in 1 .. v - 1 /\ j <= v - 1
      BY <1>1, <2>1
    <3> QED BY <2>1, <3>1, <1>3, <1>5
  <2>2. CASE ~ (j < v)
    <3>1. /\ ~ (j <= v - 1) /\ j - (v - 1) \in 1 .. n - v
          /\ v + (j - (v - 1)) = j + 1
      BY <1>1, <2>2
    <3>2. b[j - (v - 1)] = s[v + (j - (v - 1))]
      BY <3>1, <1>4
    <3> QED BY <2>2, <3>1, <3>2, <1>5
  <2> QED BY <2>1, <2>2
<1>7. Without(s, v) = w
  BY DEF Without, w, a, b, n
<1> QED BY <1>5, <1>6, <1>7 DEF n

(* The lookup in feed.                                                     *)
UniqueIds(conns) ==
  \A i, j \in Indices(conns) : conns[i].id = conns[j].id => i = j

Limit == IF max_connections = 0 THEN 1 ELSE max_connections

(* What eviction left out: one connection, which may go.                   *)
LeftOut(conns, table) == {i \in Indices(conns) : ~ Has(table, conns[i].id)}

OneLeftOut(conns, table) ==
  LeftOut(conns, table) # {} =>
    /\ Len(conns) >= max_connections
    /\ \E v \in Indices(conns) :
         /\ LeftOut(conns, table) = {v}
         /\ MayGo(conns, v)

LEMMA EvictOneKeeps ==
  ASSUME NEW conns \in Seq(Conns), conns # << >>, UniqueIds(conns)
  PROVE  /\ EvictOne(conns) \in Seq(Conns)
         /\ UniqueIds(EvictOne(conns))
         /\ Len(EvictOne(conns)) = Len(conns) - 1
         /\ \A j \in Indices(EvictOne(conns)) : \E k \in Indices(conns) :
              EvictOne(conns)[j] = conns[k]
         /\ \E v \in Indices(conns) :
              /\ MayGo(conns, v)
              /\ \A k \in Indices(conns) \ {v} : Has(EvictOne(conns), conns[k].id)
<1> DEFINE n == Len(conns)
           v == Victim(conns)
           w == EvictOne(conns)
           Old(j) == IF j < v THEN j ELSE j + 1
<1>1. n \in Nat \ {0} /\ Indices(conns) = 1 .. n
  BY EmptySeq DEF Indices
<1>2. /\ v \in 1 .. n
      /\ MayGo(conns, v)
  BY <1>1, VictimFound
<1> HIDE DEF v
<1>3. w = Without(conns, v)
  BY Zenon DEF EvictOne, v
<1>4. /\ w \in Seq(Conns) /\ Len(w) = n - 1
      /\ \A j \in 1 .. n - 1 : w[j] = conns[Old(j)]
  BY <1>2, <1>3, WithoutOne
<1> HIDE DEF w
<1>5. Indices(w) = 1 .. n - 1
  BY <1>4 DEF Indices
<1>6. \A j \in 1 .. n - 1 : Old(j) \in 1 .. n
  BY <1>1, <1>2
<1>7. UniqueIds(w)
  <2> SUFFICES ASSUME NEW i \in 1 .. n - 1, NEW j \in 1 .. n - 1, w[i].id = w[j].id
               PROVE  i = j
    BY <1>5 DEF UniqueIds
  <2>1. Old(i) \in Indices(conns) /\ Old(j) \in Indices(conns)
        /\ w[i] = conns[Old(i)] /\ w[j] = conns[Old(j)]
    BY <1>1, <1>4, <1>6
  <2>2. Old(i) = Old(j)
    <3> HIDE DEF Old
    <3> QED BY <2>1 DEF UniqueIds
  <2> QED BY <2>2, <1>1, <1>2
<1>8. \A k \in Indices(conns) \ {v} : Has(w, conns[k].id)
  <2> SUFFICES ASSUME NEW k \in 1 .. n, k # v
               PROVE  \E j \in 1 .. n - 1 : Old(j) = k
    <3>1. ASSUME NEW k \in 1 .. n, NEW j \in 1 .. n - 1, Old(j) = k
          PROVE  Has(w, conns[k].id)
      <4>1. w[j] = conns[k]
        BY <1>4, <3>1
      <4> QED BY <4>1, <1>5 DEF Has
    <3> HIDE DEF Old
    <3> QED BY <3>1, <1>1
  <2>1. CASE k < v
    <3>1. k \in 1 .. n - 1 /\ Old(k) = k
      BY <2>1, <1>1, <1>2
    <3> QED BY <3>1
  <2>2. CASE ~ (k < v)
    <3>1. k - 1 \in 1 .. n - 1 /\ Old(k - 1) = k
      BY <2>2, <1>1, <1>2
    <3> QED BY <3>1
  <2> QED BY <2>1, <2>2
<1>9. \A j \in Indices(w) : \E k \in Indices(conns) : w[j] = conns[k]
  <2> HIDE DEF Old
  <2> QED BY <1>1, <1>4, <1>5, <1>6
<1> QED BY <1>1, <1>2, <1>4, <1>7, <1>8, <1>9 DEF w

(* Where the entries of the table come from.                               *)
FromOrNew(conns, table, id) ==
  \A j \in Indices(table) :
    \/ \E k \in Indices(conns) : table[j] = conns[k]
    \/ table[j] = NewConnection(id) /\ ~ Has(conns, id)

LEMMA AdmitKeeps ==
  ASSUME NEW conns \in Seq(Conns), UniqueIds(conns), Len(conns) <= Limit,
         NEW id \in ConnIds
  PROVE  /\ Admit(conns, id) \in Seq(Conns)
         /\ UniqueIds(Admit(conns, id))
         /\ Len(Admit(conns, id)) <= Limit
         /\ Has(Admit(conns, id), id)
         /\ FromOrNew(conns, Admit(conns, id), id)
         /\ OneLeftOut(conns, Admit(conns, id))
<1> DEFINE t    == Admit(conns, id)
           kept == IF Len(conns) >= max_connections THEN EvictOne(conns) ELSE conns
           new  == NewConnection(id)
<1>1. Len(conns) \in Nat /\ max_connections \in Nat /\ Indices(conns) = 1 .. Len(conns)
  BY LenProperties, ReassemblerAssumption DEF Indices
<1>2. CASE Has(conns, id)
  <2>1. t = conns
    BY <1>2 DEF Admit
  <2>2. FromOrNew(conns, conns, id) /\ OneLeftOut(conns, conns)
    BY DEF FromOrNew, OneLeftOut, LeftOut, Has
  <2> QED BY <1>2, <2>1, <2>2
<1>3. CASE ~ Has(conns, id)
  <2>1. t = Append(kept, new)
    BY <1>3 DEF Admit
  <2>2. /\ kept \in Seq(Conns) /\ UniqueIds(kept) /\ Len(kept) < Limit
        /\ \A j \in Indices(kept) : \E k \in Indices(conns) : kept[j] = conns[k]
        /\ \/ \A k \in Indices(conns) : Has(kept, conns[k].id)
           \/ /\ Len(conns) >= max_connections
              /\ \E v \in Indices(conns) :
                   /\ MayGo(conns, v)
                   /\ \A k \in Indices(conns) \ {v} : Has(kept, conns[k].id)
    <3>1. CASE Len(conns) >= max_connections /\ conns # << >>
      <4>1. kept = EvictOne(conns)
        BY <3>1
      <4>2. Len(conns) - 1 < Limit
        BY <1>1
        DEF Limit
      <4> HIDE DEF kept
      <4> QED BY <3>1, <4>1, <4>2, EvictOneKeeps
    <3>2. CASE ~ (Len(conns) >= max_connections) \/ conns = << >>
      <4>1. kept = conns
        BY <3>2, Zenon DEF EvictOne
      <4>2. Len(conns) < Limit
        <5>1. CASE conns = << >>
          <6>1. Len(conns) = 0
            BY <5>1
          <6> QED BY <6>1, <1>1 DEF Limit
        <5>2. CASE ~ (Len(conns) >= max_connections)
          BY <5>2, <1>1 DEF Limit
        <5> QED BY <3>2, <5>1, <5>2
      <4>3. \A k \in Indices(conns) : Has(conns, conns[k].id)
        BY DEF Has
      <4> HIDE DEF kept
      <4> QED BY <4>1, <4>2, <4>3
    <3> QED BY <3>1, <3>2
  <2> HIDE DEF kept, t
  <2>3. /\ new \in Conns /\ new.id = id
    BY NewConnOf DEF NewConnection
  <2> HIDE DEF new
  <2>4. /\ t \in Seq(Conns) /\ Len(t) = Len(kept) + 1
        /\ \A j \in 1 .. Len(kept) : t[j] = kept[j]
        /\ t[Len(kept) + 1] = new
    BY <2>1, <2>2, <2>3, AppendProperties
  <2>5. Len(kept) \in Nat
    BY <2>2, LenProperties
  <2>6. /\ Indices(kept) = 1 .. Len(kept)
        /\ Indices(t) = 1 .. Len(kept) + 1
        /\ \A j \in Indices(t) : j \in Indices(kept) \/ j = Len(kept) + 1
    BY <2>4, <2>5 DEF Indices
  <2>7. ASSUME NEW j \in Indices(kept) PROVE kept[j].id # id
    <3>1. PICK k \in Indices(conns) : kept[j] = conns[k]
      BY <2>2
    <3> QED BY <3>1, <1>3 DEF Has
  <2>8. UniqueIds(t)
    <3> SUFFICES ASSUME NEW i \in Indices(t), NEW j \in Indices(t), t[i].id = t[j].id
                 PROVE  i = j
      BY DEF UniqueIds
    <3>1. CASE i \in Indices(kept) /\ j \in Indices(kept)
      <4>1. t[i] = kept[i] /\ t[j] = kept[j]
        BY <3>1, <2>4, <2>6
      <4> QED BY <3>1, <4>1, <2>2 DEF UniqueIds
    <3>2. CASE i \in Indices(kept) /\ j = Len(kept) + 1
      <4>1. t[i] = kept[i] /\ t[j].id = id
        BY <3>2, <2>3, <2>4, <2>6
      <4> QED BY <3>2, <4>1, <2>7
    <3>3. CASE j \in Indices(kept) /\ i = Len(kept) + 1
      <4>1. t[j] = kept[j] /\ t[i].id = id
        BY <3>3, <2>3, <2>4, <2>6
      <4> QED BY <3>3, <4>1, <2>7
    <3> QED BY <3>1, <3>2, <3>3, <2>6
  <2>9. Len(t) <= Limit
    BY <2>2, <2>4, <2>5, <1>1 DEF Limit
  <2>10. Has(t, id)
    BY <2>3, <2>4, <2>5, <2>6 DEF Has
  <2>11. FromOrNew(conns, t, id)
    <3> SUFFICES ASSUME NEW j \in Indices(t)
                 PROVE  (\E k \in Indices(conns) : t[j] = conns[k]) \/ t[j] = new
      BY <1>3 DEF FromOrNew, new
    <3>1. CASE j \in Indices(kept)
      BY <3>1, <2>2, <2>4, <2>6
    <3>2. CASE j = Len(kept) + 1
      BY <3>2, <2>4
    <3> QED BY <3>1, <3>2, <2>6
  <2>12. ASSUME NEW c, Has(kept, c) PROVE Has(t, c)
    <3>1. PICK j \in Indices(kept) : kept[j].id = c
      BY <2>12 DEF Has
    <3>2. j \in Indices(t) /\ t[j].id = c
      BY <3>1, <2>4, <2>5, <2>6
    <3> QED BY <3>2 DEF Has
  <2>13. OneLeftOut(conns, t)
    <3> SUFFICES ASSUME LeftOut(conns, t) # {}
                 PROVE  /\ Len(conns) >= max_connections
                        /\ \E v \in Indices(conns) :
                             /\ LeftOut(conns, t) = {v}
                             /\ MayGo(conns, v)
      BY DEF OneLeftOut
    <3>1. PICK k \in Indices(conns) : ~ Has(t, conns[k].id)
      BY DEF LeftOut
    <3>2. ~ Has(kept, conns[k].id)
      BY <3>1, <2>12
    <3>3. PICK v \in Indices(conns) :
            /\ MayGo(conns, v)
            /\ \A l \in Indices(conns) \ {v} : Has(kept, conns[l].id)
      BY <3>2, <2>2
    <3>4. Len(conns) >= max_connections
      BY <3>2, <2>2
    <3>5. \A l \in Indices(conns) : ~ Has(t, conns[l].id) => l = v
      BY <3>3, <2>12
    <3>6. LeftOut(conns, t) = {v}
      BY <3>1, <3>5 DEF LeftOut
    <3> QED BY <3>3, <3>4, <3>6
  <2> QED BY <2>4, <2>8, <2>9, <2>10, <2>11, <2>13 DEF t
<1> QED BY <1>2, <1>3

(* The connection that was fed goes back to its place.                     *)
Put(table, i, c) == [table EXCEPT ![i] = c]

LEMMA PutBack ==
  ASSUME NEW table \in Seq(Conns), UniqueIds(table), NEW id, Has(table, id),
         NEW i, i = IndexOf(table, id), NEW c \in Conns, c.id = id
  PROVE  /\ Put(table, i, c) \in Seq(Conns)
         /\ UniqueIds(Put(table, i, c))
         /\ Len(Put(table, i, c)) = Len(table)
         /\ Put(table, i, c)[i] = c
         /\ \A j \in Indices(table) : Put(table, i, c)[j].id = table[j].id
         /\ \A j \in Indices(table) : j # i => Put(table, i, c)[j] = table[j]
         /\ \A d : Has(Put(table, i, c), d) <=> Has(table, d)
<1> DEFINE u == Put(table, i, c)
<1>1. i \in Indices(table) /\ table[i].id = id
  BY IndexOfFound
<1>2. i \in 1 .. Len(table)
  BY <1>1 DEF Indices
<1>3. /\ u \in Seq(Conns) /\ Len(u) = Len(table)
      /\ \A j \in 1 .. Len(table) : u[j] = IF j = i THEN c ELSE table[j]
  BY <1>2, ExceptSeq DEF Put
<1> HIDE DEF u
<1>4. /\ Indices(u) = Indices(table)
      /\ \A j \in Indices(table) : u[j] = IF j = i THEN c ELSE table[j]
  BY <1>3 DEF Indices
<1>5. \A j \in Indices(table) : u[j].id = table[j].id
  BY <1>1, <1>4
<1>6. UniqueIds(u)
  BY <1>4, <1>5 DEF UniqueIds
<1>7. \A d : Has(u, d) <=> Has(table, d)
  BY <1>4, <1>5 DEF Has
<1> QED BY <1>1, <1>3, <1>4, <1>5, <1>6, <1>7 DEF u
-----------------------------------------------------------------------------
(* feed on a connection.                                                   *)
Conn(id, x, y) == [id |-> id, c2s |-> x, s2c |-> y]

WithC2s(c, z) == [c EXCEPT !.c2s = z]
WithS2c(c, w) == [c EXCEPT !.s2c = w]
WithBoth(c, z, w) == [c EXCEPT !.c2s = z, !.s2c = w]

LEMMA ConnUpdate ==
  ASSUME NEW id, NEW x, NEW y, NEW z, NEW w
  PROVE  /\ WithC2s(Conn(id, x, y), z) = Conn(id, z, y)
         /\ WithS2c(Conn(id, x, y), w) = Conn(id, x, w)
         /\ WithBoth(Conn(id, x, y), z, w) = Conn(id, z, w)
<1> DEFINE a == WithC2s(Conn(id, x, y), z)
           b == WithS2c(Conn(id, x, y), w)
           c == WithBoth(Conn(id, x, y), z, w)
<1>1. /\ a = [Conn(id, x, y) EXCEPT !.c2s = z]
      /\ b = [Conn(id, x, y) EXCEPT !.s2c = w]
      /\ c = [Conn(id, x, y) EXCEPT !.c2s = z, !.s2c = w]
  BY Zenon DEF WithC2s, WithS2c, WithBoth
<1> HIDE DEF a, b, c
<1>2. a = Conn(id, z, y)
  BY <1>1 DEF Conn
<1>3. b = Conn(id, x, w)
  BY <1>1 DEF Conn
<1>4. c = Conn(id, z, w)
  BY <1>1 DEF Conn
<1> QED BY <1>2, <1>3, <1>4 DEF a, b, c

LEMMA ConnFields ==
  ASSUME NEW id, NEW x, NEW y
  PROVE  Conn(id, x, y).id = id /\ Conn(id, x, y).c2s = x /\ Conn(id, x, y).s2c = y
  BY DEF Conn

(* The packets of a flow: its SYN, and stretches of its bytes.             *)
IsPacket(f, seq, payload, syn, fin) ==
  \/ seq = 0 /\ payload = NoBytes /\ syn = TRUE /\ fin = FALSE
  \/ /\ syn = FALSE /\ fin \in BOOLEAN /\ seq \in 1 .. StreamLen + 1
     /\ \E n \in 0 .. StreamLen :
          /\ payload = Text(f, seq, n)
          /\ seq + n - 1 <= StreamLen
          /\ fin => seq + n - 1 = StreamLen

LEMMA FeedSettled ==
  ASSUME NEW f, NEW b \in Settled(f),
         NEW seq, NEW payload, NEW syn, NEW fin, IsPacket(f, seq, payload, syn, fin)
  PROVE  IsFed(Feed(b, seq, payload, syn, fin), f)
<1>len. StreamLen \in Nat /\ 1 \in 1 .. StreamLen + 1 /\ 0 \in 0 .. 1 - 1
  BY ReassemblerAssumption
<1>1. CASE seq = 0 /\ payload = NoBytes /\ syn = TRUE /\ fin = FALSE
  <2> DEFINE Back == \E D \in SUBSET Beyond(1) : \E last \in BOOLEAN :
                Feed(b, 0, NoBytes, TRUE, FALSE) = Live(f, 1, 0, D, last)
  <2>1. Back
    <3>1. ASSUME b = NewBuffer PROVE Back
      <4>1. {} \in SUBSET Beyond(1) /\ FALSE \in BOOLEAN
        OBVIOUS
      <4> QED BY <3>1, <4>1, FeedSynLive, Zenon
    <3>2. ASSUME NEW next \in 1 .. StreamLen + 1, NEW D \in SUBSET Beyond(next),
                 NEW last \in BOOLEAN, b = Live(f, next, 0, D, last)
          PROVE  Back
      <4>1. D \in SUBSET Beyond(1)
        BY <1>len DEF Beyond
      <4>2. Feed(b, 0, NoBytes, TRUE, FALSE) = Live(f, 1, 0, D, last)
        BY <3>2, FeedSynLive
      <4> QED BY <4>1, <4>2
    <3> HIDE DEF Back
    <3> QED BY <3>1, <3>2, SettledCases, Zenon
  <2> QED BY <1>1, <1>len, <2>1, Zenon DEF IsFed
<1>2. ASSUME syn = FALSE, fin \in BOOLEAN, seq \in 1 .. StreamLen + 1,
             NEW n \in 0 .. StreamLen, payload = Text(f, seq, n),
             seq + n - 1 <= StreamLen, fin => seq + n - 1 = StreamLen
      PROVE  IsFed(Feed(b, seq, payload, syn, fin), f)
  <2>1. CASE b = NewBuffer
    <3>1. Feed(b, seq, payload, syn, fin) = NewBuffer
      BY <1>2, <2>1, FeedUnknown
    <3> QED BY <3>1 DEF IsFed
  <2>2. ASSUME NEW next \in 1 .. StreamLen + 1, NEW D \in SUBSET Beyond(next),
               NEW last \in BOOLEAN, b = Live(f, next, 0, D, last)
        PROVE  IsFed(Feed(b, seq, payload, syn, fin), f)
    <3> DEFINE c == Feed(b, seq, payload, syn, fin)
    <3>1. Grown(c, f, next, D, seq, n, last \/ fin)
      <4>1. Grown(Feed(Live(f, next, 0, D, last), seq, Text(f, seq, n), FALSE, fin),
                  f, next, D, seq, n, last \/ fin)
        BY <1>2, FeedLive
      <4> QED BY <4>1, <1>2, <2>2, Zenon
    <3> HIDE DEF c
    <3>2. PICK stop \in next .. StreamLen + 1 : \E E \in SUBSET Beyond(stop) :
            c = Live(f, stop, stop - next, E, last \/ fin)
      BY <3>1, Zenon DEF Grown
    <3>3. stop \in 1 .. StreamLen + 1 /\ stop - next \in 0 .. stop - 1
      BY <1>len
    <3>4. (last \/ fin) \in BOOLEAN
      OBVIOUS
    <3>5. IsFed(c, f)
      BY <3>2, <3>3, <3>4, Zenon DEF IsFed
    <3> QED BY <3>5 DEF c
  <2> QED BY <2>1, <2>2, SettledCases, Zenon
<1> QED BY <1>1, <1>2, Zenon DEF IsPacket

(* The states of a connection while feed runs.                             *)
IsFedConn(c) ==
  \E id \in ConnIds : \E x, y :
    /\ c = Conn(id, x, y)
    /\ IsFed(x, id) /\ IsFed(y, Reverse(id))
    /\ id[1] = id[2] => y = NewBuffer

(* Connection.feed feeds the one buffer that is the flow's.                *)
LEMMA ConnectionFeedFlow ==
  ASSUME NEW f \in Flows, NEW c \in Conns, c.id = ConnId(f[1], f[2]),
         NEW seq, NEW payload, NEW syn, NEW fin
  PROVE  \/ /\ f = c.id
            /\ DirectionFrom(c, f[1]) = "c2s"
            /\ ConnectionFeed(c, f[1], seq, payload, syn, fin)
                 = Conn(c.id, Feed(c.c2s, seq, payload, syn, fin), c.s2c)
         \/ /\ f = Reverse(c.id) /\ c.id[1] # c.id[2]
            /\ DirectionFrom(c, f[1]) = "s2c"
            /\ ConnectionFeed(c, f[1], seq, payload, syn, fin)
                 = Conn(c.id, c.c2s, Feed(c.s2c, seq, payload, syn, fin))
<1> DEFINE z == Feed(c.c2s, seq, payload, syn, fin)
           w == Feed(c.s2c, seq, payload, syn, fin)
           fed == ConnectionFeed(c, f[1], seq, payload, syn, fin)
<1>1. c = Conn(c.id, c.c2s, c.s2c)
  BY ConnParts DEF Conn
<1>2. CASE f[1] = c.id[1]
  <2>1. f = c.id /\ DirectionFrom(c, f[1]) = "c2s"
    BY <1>2, FlowId DEF DirectionFrom
  <2>2. fed = WithC2s(c, z)
    BY <2>1 DEF ConnectionFeed, WithC2s
  <2>3. WithC2s(Conn(c.id, c.c2s, c.s2c), z) = Conn(c.id, z, c.s2c)
    BY ConnUpdate
  <2>5. WithC2s(c, z) = Conn(c.id, z, c.s2c)
    <3> HIDE DEF z
    <3> QED BY <1>1, <2>3, Zenon
  <2> HIDE DEF fed
  <2>4. fed = Conn(c.id, z, c.s2c)
    BY <2>2, <2>5, Zenon
  <2> QED BY <2>1, <2>4, Zenon DEF fed
<1>3. CASE f[1] # c.id[1]
  <2>1. /\ f = Reverse(c.id) /\ c.id[1] # c.id[2]
        /\ DirectionFrom(c, f[1]) = "s2c"
    BY <1>3, FlowId DEF DirectionFrom
  <2>2. fed = WithS2c(c, w)
    BY <2>1 DEF ConnectionFeed, WithS2c
  <2>3. WithS2c(Conn(c.id, c.c2s, c.s2c), w) = Conn(c.id, c.c2s, w)
    BY ConnUpdate
  <2>5. WithS2c(c, w) = Conn(c.id, c.c2s, w)
    <3> HIDE DEF w
    <3> QED BY <1>1, <2>3, Zenon
  <2> HIDE DEF fed
  <2>4. fed = Conn(c.id, c.c2s, w)
    BY <2>2, <2>5, Zenon
  <2> QED BY <2>1, <2>4, Zenon DEF fed
<1> QED BY <1>2, <1>3

LEMMA ConnectionFeedFed ==
  ASSUME NEW f \in Flows, NEW c \in Conns, c.id = ConnId(f[1], f[2]),
         NEW seq, NEW payload, NEW syn, NEW fin, IsPacket(f, seq, payload, syn, fin)
  PROVE  /\ IsFedConn(ConnectionFeed(c, f[1], seq, payload, syn, fin))
         /\ ConnectionFeed(c, f[1], seq, payload, syn, fin).id = c.id
<1> DEFINE z == Feed(c.c2s, seq, payload, syn, fin)
           w == Feed(c.s2c, seq, payload, syn, fin)
           fed == ConnectionFeed(c, f[1], seq, payload, syn, fin)
<1>1. /\ c.id \in ConnIds /\ c.c2s \in Settled(c.id) /\ c.s2c \in Settled(Reverse(c.id))
      /\ c.id[1] = c.id[2] => c.s2c = NewBuffer
  BY ConnParts
<1>2. IsFed(c.c2s, c.id) /\ IsFed(c.s2c, Reverse(c.id))
  BY <1>1, SettledIsFed
<1>3. f = c.id => IsFed(z, c.id)
  BY <1>1, FeedSettled
<1>4. f = Reverse(c.id) => IsFed(w, Reverse(c.id))
  BY <1>1, FeedSettled
<1>5. \/ f = c.id /\ fed = Conn(c.id, z, c.s2c)
      \/ f = Reverse(c.id) /\ c.id[1] # c.id[2] /\ fed = Conn(c.id, c.c2s, w)
  BY ConnectionFeedFlow
<1> HIDE DEF z, w, fed
<1>6. IsFedConn(fed)
  BY <1>1, <1>2, <1>3, <1>4, <1>5, Zenon DEF IsFedConn
<1>7. fed.id = c.id
  BY <1>5 DEF Conn
<1> QED BY <1>6, <1>7 DEF fed

(* Taking the data out, in either mode, and applying the limits settles    *)
(* the connection again.                                                   *)
LEMMA OutputSettles ==
  ASSUME NEW c, IsFedConn(c)
  PROVE  /\ AfterOutput(c) \in Conns /\ AfterOutput(c).id = c.id
         /\ AfterLimits(AfterOutput(c)) \in Conns
         /\ AfterLimits(AfterOutput(c)).id = c.id
<1>0. PICK id \in ConnIds : \E x, y :
        /\ c = Conn(id, x, y)
        /\ IsFed(x, id) /\ IsFed(y, Reverse(id))
        /\ id[1] = id[2] => y = NewBuffer
  BY Zenon DEF IsFedConn
<1>1. PICK x, y :
        /\ c = Conn(id, x, y)
        /\ IsFed(x, id) /\ IsFed(y, Reverse(id))
        /\ id[1] = id[2] => y = NewBuffer
  BY <1>0
<1> DEFINE x1 == IF output_mode = "separate" THEN AfterGetData(x, fill_gaps) ELSE Cleared(x)
           y1 == IF output_mode = "separate" THEN AfterGetData(y, fill_gaps) ELSE Cleared(y)
           x2 == Limited(x1)
           y2 == Limited(y1)
<1>2. c.id = id /\ c.c2s = x /\ c.s2c = y
  BY <1>1, ConnFields
<1>3. AfterOutput(c) = Conn(id, x1, y1)
  <2>1. AfterOutput(c) = WithBoth(c, x1, y1)
    BY <1>2, Zenon DEF AfterOutput, AfterMergedData, WithBoth
  <2> HIDE DEF x1, y1
  <2>2. WithBoth(Conn(id, x, y), x1, y1) = Conn(id, x1, y1)
    BY ConnUpdate
  <2> QED BY <2>1, <2>2, <1>1, Zenon
<1>4. x1 \in Settled(id) /\ y1 \in Settled(Reverse(id))
  <2>1. fill_gaps \in BOOLEAN
    BY ReassemblerAssumption
  <2>2. /\ AfterGetData(x, fill_gaps) \in Settled(id) /\ Cleared(x) \in Settled(id)
        /\ AfterGetData(y, fill_gaps) \in Settled(Reverse(id))
        /\ Cleared(y) \in Settled(Reverse(id))
    BY <1>1, <2>1, DrainSettles
  <2> QED BY <2>2
<1>5. ASSUME id[1] = id[2] PROVE y1 = NewBuffer /\ y2 = NewBuffer
  <2>1. AfterGetData(NewBuffer, FALSE) = NewBuffer /\ Cleared(NewBuffer) = NewBuffer
    BY DrainUnknown
  <2>2. AfterGetData(NewBuffer, fill_gaps) = NewBuffer
    <3>1. CASE fill_gaps
      BY <3>1, <2>1, Zenon DEF AfterGetData
    <3>2. CASE ~ fill_gaps
      <4>1. fill_gaps = FALSE
        BY <3>2, ReassemblerAssumption
      <4> QED BY <4>1, <2>1
    <3> QED BY <3>1, <3>2
  <2>3. y = NewBuffer
    BY <1>1, <1>5
  <2>4. y1 = NewBuffer
    BY <2>1, <2>2, <2>3, Zenon
  <2>5. Limited(NewBuffer) = NewBuffer
    BY <2>2, Zenon DEF Limited
  <2> HIDE DEF y1
  <2> QED BY <2>4, <2>5
<1> HIDE DEF x1, y1
<1>6. x2 \in Settled(id) /\ y2 \in Settled(Reverse(id))
  BY <1>4, LimitedSettles
<1>7. AfterLimits(Conn(id, x1, y1)) = Conn(id, x2, y2)
  <2>1. Conn(id, x1, y1).c2s = x1 /\ Conn(id, x1, y1).s2c = y1
    BY ConnFields
  <2>2. AfterLimits(Conn(id, x1, y1)) = WithBoth(Conn(id, x1, y1), x2, y2)
    BY <2>1, Zenon DEF AfterLimits, WithBoth
  <2> HIDE DEF x2, y2
  <2>3. WithBoth(Conn(id, x1, y1), x2, y2) = Conn(id, x2, y2)
    BY ConnUpdate
  <2> QED BY <2>2, <2>3, Zenon
<1> HIDE DEF x2, y2
<1>8. /\ Conn(id, x1, y1) \in Conns /\ Conn(id, x1, y1).id = id
      /\ Conn(id, x2, y2) \in Conns /\ Conn(id, x2, y2).id = id
  BY <1>4, <1>5, <1>6, ConnOf DEF Conn
<1> QED BY <1>2, <1>3, <1>7, <1>8, Zenon
-----------------------------------------------------------------------------
(* The inductive invariant of the table, in every mode.  That the buffers  *)
(* are settled is needed for eviction: only then is there a connection     *)
(* with most bytes out of order.                                           *)
TableSound ==
  /\ connections \in Seq(Conns)
  /\ UniqueIds(connections)
  /\ Len(connections) <= Limit
  /\ callbacks \in 0 .. MaxCallbacks
  /\ evicted \subseteq ConnIds
  /\ seen \in [Flows -> SUBSET (1 .. StreamLen)]

LEMMA TableSoundInit == Init => TableSound
<1> SUFFICES ASSUME Init PROVE TableSound
  OBVIOUS
<1>1. Len(<< >>) = 0 /\ << >> \in Seq(Conns) /\ Indices(<< >>) = {}
  BY EmptySeq DEF Indices
<1>2. 0 <= Limit /\ 0 \in 0 .. MaxCallbacks
  BY ReassemblerAssumption DEF Limit
<1> QED BY <1>1, <1>2 DEF Init, TableSound, UniqueIds

(* What feed does, without the bound names: call number `raised' raises.   *)
Fed(t, i, id, c, raised) ==
  /\ connections' = [t EXCEPT ![i] =
       IF raised = 0 THEN AfterLimits(AfterOutput(c)) ELSE AfterOutput(c)]
  /\ received' = [cb \in 1 .. MaxCallbacks |->
       IF cb > callbacks THEN received[cb]
       ELSE [received[cb] EXCEPT ![id] =
               @ \o Joined(Output(c), PiecesGiven(cb, Output(c), raised))]]
  /\ evicted' = evicted \cup
       {d \in ConnIds : Has(connections, d) /\ ~ Has(t, d)}

Calls(c) == IF MayRaise THEN callbacks * Len(Output(c)) ELSE 0

LEMMA FeedPacketFed ==
  ASSUME NEW src, NEW dst, NEW seq, NEW payload, NEW syn, NEW fin,
         FeedPacket(src, dst, seq, payload, syn, fin)
  PROVE  LET id == ConnId(src, dst)
             t  == Admit(connections, id)
             i  == IndexOf(t, id)
             c  == ConnectionFeed(t[i], src, seq, payload, syn, fin)
         IN  \E raised \in 0 .. Calls(c) : Fed(t, i, id, c, raised)
<1> DEFINE id == ConnId(src, dst)
<1>1. \E t \in {Admit(connections, id)} :
        \E c \in {ConnectionFeed(t[IndexOf(t, id)], src, seq, payload, syn, fin)} :
          \E raised \in 0 .. Calls(c) : Fed(t, IndexOf(t, id), id, c, raised)
  BY Zenon DEF FeedPacket, Fed, Calls
<1> QED BY <1>1, Zenon

(* A fed packet leaves the table in order, and evicts what it should.      *)
LEMMA FeedPacketTable ==
  ASSUME TableSound, NEW f \in Flows,
         NEW seq, NEW payload, NEW syn, NEW fin, IsPacket(f, seq, payload, syn, fin),
         FeedPacket(f[1], f[2], seq, payload, syn, fin)
  PROVE  /\ connections' \in Seq(Conns)
         /\ UniqueIds(connections')
         /\ Len(connections') <= Limit
         /\ OneLeftOut(connections, connections')
         /\ evicted' \subseteq ConnIds
<1> DEFINE id    == ConnId(f[1], f[2])
           table == Admit(connections, id)
           i     == IndexOf(table, id)
           fed   == ConnectionFeed(table[i], f[1], seq, payload, syn, fin)
           left  == AfterOutput(fed)
           u(c)  == Put(table, i, c)
<1>1. id \in ConnIds
  BY FlowId
<1>2. /\ table \in Seq(Conns) /\ UniqueIds(table) /\ Len(table) <= Limit
      /\ Has(table, id) /\ OneLeftOut(connections, table)
  BY <1>1, AdmitKeeps DEF TableSound
<1>3. \E c \in {left, AfterLimits(left)} : connections' = u(c)
  BY DEF FeedPacket, Put
<1>4. evicted' = evicted \cup {c \in ConnIds : Has(connections, c) /\ ~ Has(table, c)}
  BY DEF FeedPacket
<1> HIDE DEF id, table
<1>5. i \in Indices(table) /\ table[i].id = id
  BY <1>2, IndexOfFound
<1>6. table[i] \in Conns
  BY <1>2, <1>5, ElementOfSeq DEF Indices
<1> HIDE DEF i
<1>7. IsFedConn(fed) /\ fed.id = id
  BY <1>5, <1>6, ConnectionFeedFed DEF id
<1> HIDE DEF fed
<1>8. /\ left \in Conns /\ left.id = id
      /\ AfterLimits(left) \in Conns /\ AfterLimits(left).id = id
  BY <1>7, OutputSettles
<1> HIDE DEF left
<1>9. PICK c \in {left, AfterLimits(left)} : connections' = u(c)
  BY <1>3
<1>10. c \in Conns /\ c.id = id
  BY <1>8
<1>11. /\ u(c) \in Seq(Conns) /\ UniqueIds(u(c)) /\ Len(u(c)) = Len(table)
       /\ \A d : Has(u(c), d) <=> Has(table, d)
  <2>1. i = IndexOf(table, id)
    BY DEF i
  <2> QED BY <2>1, <1>2, <1>10, PutBack
<1> HIDE DEF u
<1>12. LeftOut(connections, u(c)) = LeftOut(connections, table)
  BY <1>11 DEF LeftOut
<1>13. OneLeftOut(connections, u(c))
  BY <1>2, <1>12 DEF OneLeftOut
<1>14. Len(u(c)) <= Limit
  BY <1>2, <1>11
<1>15. evicted' \subseteq ConnIds
  BY <1>4 DEF TableSound
<1> QED BY <1>9, <1>11, <1>13, <1>14, <1>15

LEMMA SynIsPacket ==
  ASSUME NEW f
  PROVE  IsPacket(f, 0, NoBytes, TRUE, FALSE)
  BY DEF IsPacket

LEMMA DataIsPacket ==
  ASSUME NEW f, NEW p \in 1 .. StreamLen + 1, NEW n \in 0 .. StreamLen,
         NEW fin \in BOOLEAN, p + n - 1 <= StreamLen, fin => p + n - 1 = StreamLen
  PROVE  IsPacket(f, p, Text(f, p, n), FALSE, fin)
  BY Zenon DEF IsPacket

LEMMA TableSoundNext ==
  ASSUME TableSound, [Next]_vars
  PROVE  TableSound' /\ OneLeftOut(connections, connections')
<1> USE DEF TableSound
<1>0. OneLeftOut(connections, connections)
  BY DEF OneLeftOut, LeftOut, Has
<1>1. ASSUME NEW f \in Flows, Syn(f)
      PROVE  TableSound' /\ OneLeftOut(connections, connections')
  <2>1. /\ connections' \in Seq(Conns) /\ UniqueIds(connections')
        /\ Len(connections') <= Limit
        /\ OneLeftOut(connections, connections')
        /\ evicted' \subseteq ConnIds
    BY <1>1, SynIsPacket, FeedPacketTable DEF Syn
  <2> QED BY <1>1, <2>1 DEF Syn, UniqueIds, Indices
<1>2. ASSUME NEW f \in Flows, NEW p \in 1 .. StreamLen + 1,
             NEW n \in 0 .. StreamLen, NEW fin \in BOOLEAN, Data(f, p, n, fin)
      PROVE  TableSound' /\ OneLeftOut(connections, connections')
  <2>1. /\ p + n - 1 <= StreamLen
        /\ fin => p + n - 1 = StreamLen
        /\ FeedPacket(f[1], f[2], p, Text(f, p, n), FALSE, fin)
        /\ callbacks' = callbacks
    BY <1>2 DEF Data
  <2>2. IsPacket(f, p, Text(f, p, n), FALSE, fin)
    BY <2>1, DataIsPacket
  <2>3. /\ connections' \in Seq(Conns) /\ UniqueIds(connections')
        /\ Len(connections') <= Limit
        /\ OneLeftOut(connections, connections')
        /\ evicted' \subseteq ConnIds
    BY <2>1, <2>2, FeedPacketTable
  <2>4. seen' \in [Flows -> SUBSET (1 .. StreamLen)]
    <3>1. p .. p + n - 1 \subseteq 1 .. StreamLen
      BY <2>1, ReassemblerAssumption
    <3>2. seen' = seen \/ seen' = [seen EXCEPT ![f] = @ \cup p .. p + n - 1]
      BY <1>2, Zenon DEF Data
    <3> QED BY <3>1, <3>2
  <2> QED BY <2>1, <2>3, <2>4 DEF UniqueIds, Indices
<1>3. CASE OnData
  <2>1. callbacks' \in 0 .. MaxCallbacks
    BY <1>3, ReassemblerAssumption DEF OnData
  <2> QED BY <1>0, <1>3, <2>1 DEF OnData, UniqueIds, Indices
<1>4. CASE UNCHANGED vars
  BY <1>0, <1>4 DEF vars, UniqueIds, Indices
<1> QED BY <1>1, <1>2, <1>3, <1>4 DEF Next, Packet

LEMMA TableInvariant == Spec => []TableSound
<1>1. TableSound /\ [Next]_vars => TableSound'
  BY TableSoundNext
<1> QED BY TableSoundInit, <1>1, PTL DEF Spec

(* A subscriber's runs are among all runs.                                 *)
LEMMA SubscribedIsSpec == SubscribedSpec => Spec
<1>1. [SubscribedNext]_vars => [Next]_vars
  BY DEF SubscribedNext, EarlyOnData, Next
<1> QED BY <1>1, PTL DEF SubscribedSpec, Spec

LEMMA SettledAtRest ==
  ASSUME NEW f, NEW b \in Settled(f)
  PROVE  AtRest(b)
<1>1. CASE b = NewBuffer
  <2>1. Cardinality({}) = 0
    BY FS_EmptySet
  <2> QED BY <1>1, <2>1, ReassemblerAssumption DEF NewBuffer, AtRest, NoBytes, None
<1>2. ASSUME NEW next \in 1 .. StreamLen + 1, NEW D \in SUBSET Beyond(next),
             NEW fin \in BOOLEAN, b = Live(f, next, 0, D, fin)
      PROVE  AtRest(b)
  <2>1. /\ b.isn = 0 /\ b.next_seq = next /\ b.syn_received = TRUE /\ b.fin_received = fin
        /\ b.fin_seq = (IF fin THEN StreamLen + 1 ELSE None)
        /\ b.contiguous = Text(f, next - 0, 0) /\ DOMAIN b.segments = D
        /\ b.total_buffered = 0 + Cardinality(D)
    BY <1>2 DEF Live
  <2>2. IsFiniteSet(D) /\ Cardinality(D) \in Nat
    <3>1. IsFiniteSet(Beyond(next))
      BY FS_Interval, ReassemblerAssumption DEF Beyond
    <3> QED BY <3>1, FS_Subset, FS_CardinalityType
  <2>3. b.contiguous = NoBytes
    BY <2>1 DEF Text, NoBytes
  <2>4. b.total_buffered = Cardinality(DOMAIN b.segments)
    BY <2>1, <2>2
  <2>5. b.fin_received <=> b.fin_seq # None
    BY <2>1, ReassemblerAssumption DEF None
  <2>6. b.fin_seq \in {None, StreamLen + 1}
    BY <2>1
  <2>7. /\ b.isn \in {None, 0} /\ (b.syn_received <=> b.isn # None)
        /\ b.next_seq \in 0 .. StreamLen + 1 /\ (b.isn # None => b.next_seq >= 1)
    BY <2>1, ReassemblerAssumption DEF None
  <2>8. DOMAIN b.segments \subseteq b.next_seq + 1 .. StreamLen
    BY <2>1 DEF Beyond
  <2> QED BY <2>3, <2>4, <2>5, <2>6, <2>7, <2>8 DEF AtRest
<1> QED BY <1>1, <1>2, SettledCases

(* The table's keys are normalised endpoints of captured flows, each once, *)
(* both buffers of every connection are at rest between two packets, and   *)
(* the counters and histories stay in range: StreamReassembler.feed and    *)
(* on_data keep it so, whatever is captured and whichever callback raises. *)
THEOREM TableTyped == Spec => []TypeOK
<1>1. TableSound => TypeOK
  <2> SUFFICES ASSUME TableSound PROVE TypeOK
    OBVIOUS
  <2>1. \A i \in Indices(connections) : connections[i].id \in ConnIds
    <3> SUFFICES ASSUME NEW i \in Indices(connections) PROVE connections[i].id \in ConnIds
      OBVIOUS
    <3>1. connections[i] \in Conns
      BY ElementOfSeq DEF TableSound, Indices
    <3> QED BY <3>1, ConnParts
  <2>2. ASSUME NEW i \in Indices(connections)
        PROVE  AtRest(connections[i].c2s) /\ AtRest(connections[i].s2c)
    <3>1. connections[i] \in Conns
      BY ElementOfSeq DEF TableSound, Indices
    <3>2. /\ connections[i].c2s \in Settled(connections[i].id)
          /\ connections[i].s2c \in Settled(Reverse(connections[i].id))
      BY <3>1, ConnParts
    <3> QED BY <3>2, SettledAtRest
  <2> QED BY <2>1, <2>2 DEF TableSound, TypeOK, UniqueIds
<1> QED BY <1>1, TableInvariant, PTL

(* _evict_one makes room: the table never outgrows max_connections.        *)
THEOREM TableBounded == Spec => []TableBound
<1>1. TableSound => TableBound
  BY DEF TableSound, TableBound, Limit
<1> QED BY <1>1, TableInvariant, PTL

(* A packet of a new connection evicts at most one other, only out of a    *)
(* full table, no open one while a closed one is there, and of the open    *)
(* ones one that holds as many bytes beyond a gap as any other.            *)
THEOREM EvictionOrdered == Spec => EvictionOrder
<1>1. TableSound /\ [Next]_vars => [EvictsClosedFirst]_vars
  <2> SUFFICES ASSUME TableSound, [Next]_vars PROVE EvictsClosedFirst
    OBVIOUS
  <2>1. OneLeftOut(connections, connections')
    BY TableSoundNext
  <2> DEFINE gone == {i \in Indices(connections) : ~ Has(connections', connections[i].id)}
  <2> SUFFICES ASSUME gone # {}
               PROVE  /\ Len(connections) >= max_connections
                      /\ Cardinality(gone) = 1
                      /\ \A i \in gone : MayGo(connections, i)
    BY Zenon DEF EvictsClosedFirst
  <2>2. gone = LeftOut(connections, connections')
    BY DEF LeftOut
  <2> HIDE DEF gone
  <2>3. /\ Len(connections) >= max_connections
        /\ \E v \in Indices(connections) :
             /\ gone = {v}
             /\ MayGo(connections, v)
    BY <2>1, <2>2 DEF OneLeftOut
  <2>4. PICK v \in Indices(connections) :
          /\ gone = {v}
          /\ MayGo(connections, v)
    BY <2>3
  <2>5. Cardinality(gone) = 1
    BY <2>4, FS_Singleton
  <2> QED BY <2>3, <2>4, <2>5
<1> QED BY <1>1, TableInvariant, PTL DEF Spec, EvictionOrder
-----------------------------------------------------------------------------
(* What callbacks are given, with the default arguments output_mode =      *)
(* "separate" and fill_gaps = False: every order, loss and repetition of   *)
(* packets.                                                                *)
AnyByte == {Byte(f, q) : f \in Flows, q \in Int}

Increasing(bytes, f) ==
  \A i, j \in At(bytes, f) : i < j => bytes[i][3] < bytes[j][3]

LEMMA ByteParts ==
  ASSUME NEW f, NEW q
  PROVE  Byte(f, q)[1] = f[1] /\ Byte(f, q)[2] = f[2] /\ Byte(f, q)[3] = q
  BY DEF Byte

LEMMA SameFlow ==
  ASSUME NEW f \in Nat \X Nat, NEW h \in Nat \X Nat, NEW p, NEW q,
         Byte(f, p) = Byte(h, q)
  PROVE  f = h /\ p = q
<1>1. f[1] = h[1] /\ f[2] = h[2] /\ p = q
  BY ByteParts
<1>2. f = <<f[1], f[2]>> /\ h = <<h[1], h[2]>>
  OBVIOUS
<1> QED BY <1>1, <1>2

(* One byte after the other: where the old bytes stand, and the new ones.  *)
LEMMA GivenJoin ==
  ASSUME NEW f \in Flows, NEW g \in Seq(AnyByte), NEW p \in Int, NEW n \in Nat
  PROVE  /\ g \o Text(f, p, n) \in Seq(AnyByte)
         /\ DOMAIN g = 1 .. Len(g) /\ Len(g) \in Nat
         /\ DOMAIN (g \o Text(f, p, n)) = 1 .. Len(g) + n
         /\ \A i \in 1 .. Len(g) : (g \o Text(f, p, n))[i] = g[i]
         /\ \A i \in Len(g) + 1 .. Len(g) + n :
              (g \o Text(f, p, n))[i] = Byte(f, p + (i - Len(g)) - 1)
<1> DEFINE t == Text(f, p, n)
           w == g \o t
           k == Len(g)
<1>1. t \in Seq(AnyByte) /\ Len(t) = n /\ \A i \in 1 .. n : t[i] = Byte(f, p + i - 1)
  <2>1. BytesOf(f) \subseteq AnyByte
    BY DEF BytesOf, AnyByte
  <2>2. t \in Seq(BytesOf(f))
    BY TextType
  <2>3. t \in Seq(AnyByte)
    <3> HIDE DEF t
    <3> QED BY <2>1, <2>2, SeqMonotonic
  <2> QED BY <2>3, TextType
<1> HIDE DEF t
<1>2. k \in Nat /\ DOMAIN g = 1 .. k
  BY LenProperties
<1>3. /\ w \in Seq(AnyByte) /\ Len(w) = Len(g) + Len(t)
      /\ \A i \in 1 .. Len(g) + Len(t) :
           w[i] = IF i <= Len(g) THEN g[i] ELSE t[i - Len(g)]
  BY <1>1, ConcatProperties
<1> HIDE DEF w
<1>4. DOMAIN w = 1 .. k + n
  BY <1>1, <1>3, LenProperties
<1>5. ASSUME NEW i \in 1 .. k PROVE w[i] = g[i]
  <2>1. i \in 1 .. k + n /\ i <= k
    BY <1>2
  <2> QED BY <2>1, <1>1, <1>3
<1>6. ASSUME NEW i \in k + 1 .. k + n PROVE w[i] = Byte(f, p + (i - k) - 1)
  <2>1. i \in 1 .. k + n /\ ~ (i <= k) /\ i - k \in 1 .. n
    BY <1>2
  <2>2. w[i] = t[i - k]
    BY <2>1, <1>1, <1>3
  <2> QED BY <2>1, <2>2, <1>1
<1> QED BY <1>2, <1>3, <1>4, <1>5, <1>6 DEF w, t

LEMMA GivenMore ==
  ASSUME NEW f \in Flows, NEW g \in Seq(AnyByte), NEW p \in Nat \ {0}, NEW n \in Nat,
         p + n - 1 <= StreamLen
  PROVE  /\ Positions(g \o Text(f, p, n), f) = With(Positions(g, f), p, n)
         /\ Increasing(g, f) /\ Positions(g, f) \subseteq 1 .. p - 1
              => Increasing(g \o Text(f, p, n), f)
<1> DEFINE w == g \o Text(f, p, n)
           k == Len(g)
<1>1. /\ DOMAIN g = 1 .. k /\ k \in Nat
      /\ DOMAIN w = 1 .. k + n
      /\ \A i \in 1 .. k : w[i] = g[i]
      /\ \A i \in k + 1 .. k + n : w[i] = Byte(f, p + (i - k) - 1)
  BY GivenJoin
<1> HIDE DEF w, k
<1>2. \A i \in 1 .. k : i \in At(w, f) <=> i \in At(g, f)
  <2>1. \A i \in 1 .. k : i \in DOMAIN w /\ i \in DOMAIN g /\ w[i] = g[i]
    BY <1>1
  <2> QED BY <2>1 DEF At
<1>3. \A i \in k + 1 .. k + n : i \in At(w, f) /\ w[i][3] = p + (i - k) - 1
  <2> SUFFICES ASSUME NEW i \in k + 1 .. k + n
               PROVE  i \in At(w, f) /\ w[i][3] = p + (i - k) - 1
    OBVIOUS
  <2> DEFINE q == p + (i - k) - 1
  <2>1. i \in 1 .. k + n /\ q \in 1 .. StreamLen
    BY <1>1, ReassemblerAssumption
  <2>2. w[i] = Byte(f, q)
    BY <1>1
  <2> HIDE DEF q
  <2>3. i \in At(w, f)
    BY <2>1, <2>2, <1>1 DEF At
  <2>4. w[i][3] = q
    BY <2>2, ByteParts
  <2> QED BY <2>3, <2>4 DEF q
<1>4. \A i \in At(w, f) : i \in 1 .. k \/ i \in k + 1 .. k + n
  BY <1>1 DEF At
<1>5. \A i \in At(g, f) : i \in 1 .. k /\ i \in At(w, f) /\ w[i] = g[i]
  BY <1>1, <1>2 DEF At
<1>6. Positions(w, f) = With(Positions(g, f), p, n)
  <2>1. ASSUME NEW q \in Positions(w, f) PROVE q \in With(Positions(g, f), p, n)
    <3>1. PICK i \in At(w, f) : q = w[i][3]
      BY DEF Positions
    <3>2. CASE i \in 1 .. k
      <4>1. i \in At(g, f) /\ w[i] = g[i]
        BY <3>1, <3>2, <1>1, <1>2
      <4> QED BY <3>1, <4>1 DEF Positions, With
    <3>3. CASE i \in k + 1 .. k + n
      <4>1. q = p + (i - k) - 1
        BY <3>1, <3>3, <1>3
      <4>2. q \in p .. p + n - 1
        BY <4>1, <3>3, <1>1
      <4> QED BY <4>2 DEF With
    <3> QED BY <3>2, <3>3, <1>4
  <2>2. ASSUME NEW q \in With(Positions(g, f), p, n) PROVE q \in Positions(w, f)
    <3>1. CASE q \in Positions(g, f)
      <4>1. PICK i \in At(g, f) : q = g[i][3]
        BY <3>1 DEF Positions
      <4>2. i \in At(w, f) /\ q = w[i][3]
        BY <4>1, <1>5
      <4> QED BY <4>2 DEF Positions
    <3>2. CASE q \in p .. p + n - 1
      <4> DEFINE i == k + (q - p + 1)
      <4>1. i \in k + 1 .. k + n /\ p + (i - k) - 1 = q
        BY <3>2, <1>1
      <4> HIDE DEF i
      <4>2. i \in At(w, f) /\ w[i][3] = q
        BY <4>1, <1>3
      <4> QED BY <4>2 DEF Positions
    <3> QED BY <3>1, <3>2 DEF With
  <2> QED BY <2>1, <2>2
<1>7. ASSUME Increasing(g, f), Positions(g, f) \subseteq 1 .. p - 1
      PROVE  Increasing(w, f)
  <2> SUFFICES ASSUME NEW i \in At(w, f), NEW j \in At(w, f), i < j
               PROVE  w[i][3] < w[j][3]
    BY DEF Increasing
  <2>1. CASE i \in 1 .. k /\ j \in 1 .. k
    <3>1. i \in At(g, f) /\ j \in At(g, f) /\ w[i] = g[i] /\ w[j] = g[j]
      BY <2>1, <1>1, <1>2
    <3> QED BY <3>1, <1>7 DEF Increasing
  <2>2. CASE i \in 1 .. k /\ j \in k + 1 .. k + n
    <3>1. i \in At(g, f) /\ w[i] = g[i]
      BY <2>2, <1>1, <1>2
    <3>2. w[i][3] \in 1 .. p - 1
      BY <3>1, <1>7 DEF Positions
    <3>3. w[j][3] = p + (j - k) - 1
      BY <2>2, <1>3
    <3> QED BY <2>2, <3>2, <3>3, <1>1
  <2>3. CASE i \in k + 1 .. k + n /\ j \in k + 1 .. k + n
    <3>1. w[i][3] = p + (i - k) - 1 /\ w[j][3] = p + (j - k) - 1
      BY <2>3, <1>3
    <3> QED BY <2>3, <3>1, <1>1
  <2>4. CASE i \in k + 1 .. k + n /\ j \in 1 .. k
    BY <2>4, <1>1
  <2> QED BY <2>1, <2>2, <2>3, <2>4, <1>4
<1> QED BY <1>6, <1>7 DEF w

LEMMA GivenOther ==
  ASSUME NEW f \in Flows, NEW h \in Flows, h # f, NEW g \in Seq(AnyByte),
         NEW p \in Int, NEW n \in Nat
  PROVE  /\ Positions(g \o Text(f, p, n), h) = Positions(g, h)
         /\ Increasing(g, h) => Increasing(g \o Text(f, p, n), h)
<1> DEFINE w == g \o Text(f, p, n)
           k == Len(g)
<1>1. /\ DOMAIN g = 1 .. k /\ k \in Nat
      /\ DOMAIN w = 1 .. k + n
      /\ \A i \in 1 .. k : w[i] = g[i]
      /\ \A i \in k + 1 .. k + n : w[i] = Byte(f, p + (i - k) - 1)
  BY GivenJoin
<1> HIDE DEF w, k
<1>2. f \in Nat \X Nat /\ h \in Nat \X Nat
  BY ReassemblerAssumption
<1>3. \A i \in At(w, h) : i \in 1 .. k
  <2> SUFFICES ASSUME NEW i \in At(w, h), i \in k + 1 .. k + n PROVE FALSE
    BY <1>1 DEF At
  <2>1. w[i] = Byte(f, p + (i - k) - 1)
    BY <1>1
  <2>2. \E q \in 1 .. StreamLen : w[i] = Byte(h, q)
    BY DEF At
  <2> QED BY <2>1, <2>2, <1>2, SameFlow
<1>4. At(w, h) = At(g, h) /\ \A i \in At(g, h) : w[i] = g[i]
  <2>1. ASSUME NEW i \in At(w, h) PROVE i \in At(g, h)
    <3>1. i \in 1 .. k
      BY <1>3
    <3>2. i \in DOMAIN g /\ w[i] = g[i]
      BY <3>1, <1>1
    <3> QED BY <3>2 DEF At
  <2>2. ASSUME NEW i \in At(g, h) PROVE i \in At(w, h) /\ w[i] = g[i]
    <3>1. i \in 1 .. k
      BY <1>1 DEF At
    <3>2. i \in DOMAIN w /\ w[i] = g[i]
      BY <3>1, <1>1
    <3> QED BY <3>2 DEF At
  <2> QED BY <2>1, <2>2
<1>5. Positions(w, h) = Positions(g, h)
  BY <1>4 DEF Positions
<1>6. Increasing(g, h) => Increasing(w, h)
  BY <1>4 DEF Increasing
<1> QED BY <1>5, <1>6 DEF w
-----------------------------------------------------------------------------
(* The buffer of a flow in a table, for the flows captured and their       *)
(* reverses.                                                               *)
Both == UNION {{id, Reverse(id)} : id \in ConnIds}

BufferIn(conns, h) ==
  LET id == ConnId(h[1], h[2])
      i  == IndexOf(conns, id)
  IN  IF Has(conns, id) THEN conns[i][DirectionFrom(conns[i], h[1])] ELSE NewBuffer

LEMMA BothId ==
  ASSUME NEW h \in Both
  PROVE  /\ h \in Nat \X Nat /\ ConnId(h[1], h[2]) \in ConnIds
         /\ h[1] = ConnId(h[1], h[2])[1] => h = ConnId(h[1], h[2])
         /\ h[1] # ConnId(h[1], h[2])[1] =>
              /\ h = Reverse(ConnId(h[1], h[2]))
              /\ ConnId(h[1], h[2])[1] # ConnId(h[1], h[2])[2]
<1>1. PICK id \in ConnIds : h = id \/ h = Reverse(id)
  BY DEF Both
<1>2. PICK f \in Flows : id = ConnId(f[1], f[2])
  BY DEF ConnIds
<1>3. f[1] \in Nat /\ f[2] \in Nat
  BY ReassemblerAssumption
<1>4. id = <<id[1], id[2]>> /\ id[1] \in Nat /\ id[2] \in Nat /\ id[1] <= id[2]
  BY <1>2, <1>3 DEF ConnId
<1>5. h = id \/ h = <<id[2], id[1]>>
  BY <1>1 DEF Reverse
<1>6. h \in Nat \X Nat /\ h = <<h[1], h[2]>> /\ h[1] \in Nat /\ h[2] \in Nat
  BY <1>4, <1>5
<1>7. ConnId(h[1], h[2]) = id
  BY <1>4, <1>5, <1>6 DEF ConnId
<1>8. h[1] = id[1] => h = id
  BY <1>4, <1>5, <1>6
<1>9. h[1] # id[1] => h = Reverse(id) /\ id[1] # id[2]
  BY <1>4, <1>5, <1>6 DEF Reverse
<1> QED BY <1>6, <1>7, <1>8, <1>9

LEMMA FlowsInBoth == Flows \subseteq Both
<1> SUFFICES ASSUME NEW f \in Flows PROVE f \in Both
  OBVIOUS
<1>1. /\ ConnId(f[1], f[2]) \in ConnIds
      /\ f = ConnId(f[1], f[2]) \/ f = Reverse(ConnId(f[1], f[2]))
  BY FlowId
<1> QED BY <1>1 DEF Both

LEMMA UniqueIndex ==
  ASSUME NEW conns, UniqueIds(conns), NEW j \in Indices(conns)
  PROVE  Has(conns, conns[j].id) /\ IndexOf(conns, conns[j].id) = j
<1>1. Has(conns, conns[j].id)
  BY DEF Has
<1>2. IndexOf(conns, conns[j].id) \in Indices(conns)
      /\ conns[IndexOf(conns, conns[j].id)].id = conns[j].id
  BY <1>1, IndexOfFound
<1> QED BY <1>1, <1>2 DEF UniqueIds

(* The direction of a connection that h is.                                *)
LEMMA BufferOfConn ==
  ASSUME NEW c \in Conns, NEW h \in Both, c.id = ConnId(h[1], h[2])
  PROVE  /\ c[DirectionFrom(c, h[1])] \in Settled(h)
         /\ \/ h = c.id /\ DirectionFrom(c, h[1]) = "c2s"
            \/ /\ h = Reverse(c.id) /\ c.id[1] # c.id[2]
               /\ DirectionFrom(c, h[1]) = "s2c"
<1>1. c.c2s \in Settled(c.id) /\ c.s2c \in Settled(Reverse(c.id))
  BY ConnParts
<1>2. CASE h[1] = c.id[1]
  <2>1. h = c.id /\ DirectionFrom(c, h[1]) = "c2s"
    BY <1>2, BothId DEF DirectionFrom
  <2> QED BY <2>1, <1>1
<1>3. CASE h[1] # c.id[1]
  <2>1. h = Reverse(c.id) /\ c.id[1] # c.id[2] /\ DirectionFrom(c, h[1]) = "s2c"
    BY <1>3, BothId DEF DirectionFrom
  <2> QED BY <2>1, <1>1
<1> QED BY <1>2, <1>3

LEMMA BufferInSettled ==
  ASSUME NEW conns \in Seq(Conns), NEW h \in Both
  PROVE  BufferIn(conns, h) \in Settled(h)
<1> DEFINE id == ConnId(h[1], h[2])
           i  == IndexOf(conns, id)
<1>1. CASE Has(conns, id)
  <2>1. i \in Indices(conns) /\ conns[i].id = id
    BY <1>1, IndexOfFound
  <2>2. conns[i] \in Conns
    BY <2>1, ElementOfSeq DEF Indices
  <2>3. conns[i][DirectionFrom(conns[i], h[1])] \in Settled(h)
    <3> HIDE DEF i
    <3> QED BY <2>1, <2>2, BufferOfConn
  <2> QED BY <1>1, <2>3, Zenon DEF BufferIn
<1>2. CASE ~ Has(conns, id)
  <2>1. BufferIn(conns, h) = NewBuffer
    BY <1>2, Zenon DEF BufferIn
  <2> QED BY <2>1, SettledCases
<1> QED BY <1>1, <1>2

(* Looking a connection up leaves every buffer as it was, but for those    *)
(* of the connection that is evicted.                                      *)
LEMMA BufferAdmitted ==
  ASSUME NEW conns \in Seq(Conns), UniqueIds(conns), NEW id \in ConnIds,
         NEW table, UniqueIds(table), FromOrNew(conns, table, id), Has(table, id),
         NEW h \in Both
  PROVE  /\ BufferIn(table, h) \in {BufferIn(conns, h), NewBuffer}
         /\ ConnId(h[1], h[2]) = id => BufferIn(table, h) = BufferIn(conns, h)
<1> DEFINE hid == ConnId(h[1], h[2])
           j   == IndexOf(table, hid)
<1>1. CASE ~ Has(table, hid)
  <2>1. BufferIn(table, h) = NewBuffer
    BY <1>1, Zenon DEF BufferIn
  <2> QED BY <2>1, <1>1
<1>2. CASE Has(table, hid)
  <2>1. j \in Indices(table) /\ table[j].id = hid
    BY <1>2, IndexOfFound
  <2>2. BufferIn(table, h) = table[j][DirectionFrom(table[j], h[1])]
    BY <1>2, Zenon DEF BufferIn
  <2> HIDE DEF j
  <2>3. ASSUME NEW k \in Indices(conns), table[j] = conns[k]
        PROVE  BufferIn(table, h) = BufferIn(conns, h)
    <3>1. conns[k].id = hid
      BY <2>1, <2>3
    <3>2. Has(conns, hid) /\ IndexOf(conns, hid) = k
      BY <3>1, UniqueIndex
    <3>3. BufferIn(conns, h) = conns[k][DirectionFrom(conns[k], h[1])]
      BY <3>2, Zenon DEF BufferIn
    <3> QED BY <2>2, <2>3, <3>3, Zenon
  <2>4. ASSUME table[j] = NewConnection(id) /\ ~ Has(conns, id)
        PROVE  BufferIn(table, h) = BufferIn(conns, h)
    <3>1. table[j] \in Conns
      BY <2>4, NewConnOf
    <3>2. hid = id
      BY <2>1, <2>4 DEF NewConnection
    <3>3. BufferIn(conns, h) = NewBuffer
      BY <2>4, <3>2, Zenon DEF BufferIn
    <3>4. DirectionFrom(table[j], h[1]) \in {"c2s", "s2c"}
      BY DEF DirectionFrom
    <3>5. \A d \in {"c2s", "s2c"} : NewConnection(id)[d] = NewBuffer
      BY DEF NewConnection
    <3>6. BufferIn(table, h) = NewBuffer
      <4>1. table[j][DirectionFrom(table[j], h[1])]
              = NewConnection(id)[DirectionFrom(table[j], h[1])]
        BY <2>4, Zenon
      <4> QED BY <2>2, <3>4, <3>5, <4>1, Zenon
    <3> QED BY <3>3, <3>6
  <2>5. BufferIn(table, h) = BufferIn(conns, h)
    BY <2>1, <2>3, <2>4 DEF FromOrNew
  <2> QED BY <2>5
<1> QED BY <1>1, <1>2

(* Putting a connection back changes its own buffers only.                 *)
LEMMA BufferPut ==
  ASSUME NEW table \in Seq(Conns), UniqueIds(table), NEW id, Has(table, id),
         NEW i, i = IndexOf(table, id), NEW c \in Conns, c.id = id, NEW h \in Both
  PROVE  BufferIn(Put(table, i, c), h)
           = IF ConnId(h[1], h[2]) = id THEN c[DirectionFrom(c, h[1])]
             ELSE BufferIn(table, h)
<1> DEFINE hid == ConnId(h[1], h[2])
           u   == Put(table, i, c)
           j   == IndexOf(u, hid)
<1>1. /\ u \in Seq(Conns) /\ UniqueIds(u) /\ Len(u) = Len(table) /\ u[i] = c
      /\ \A k \in Indices(table) : u[k].id = table[k].id
      /\ \A k \in Indices(table) : k # i => u[k] = table[k]
      /\ \A d : Has(u, d) <=> Has(table, d)
  BY PutBack
<1>2. i \in Indices(table) /\ Indices(u) = Indices(table)
  BY <1>1, IndexOfFound DEF Indices
<1> HIDE DEF u
<1>3. CASE hid = id
  <2>1. u[i].id = hid
    BY <1>1, <1>3
  <2>2. Has(u, hid) /\ IndexOf(u, hid) = i
    BY <2>1, <1>1, <1>2, UniqueIndex
  <2>3. BufferIn(u, h) = u[i][DirectionFrom(u[i], h[1])]
    BY <2>2, Zenon DEF BufferIn
  <2>4. BufferIn(u, h) = c[DirectionFrom(c, h[1])]
    BY <2>3, <1>1, Zenon
  <2> QED BY <2>4, <1>3 DEF u
<1>4. CASE hid # id /\ Has(u, hid)
  <2>1. j \in Indices(u) /\ u[j].id = hid
    BY <1>4, IndexOfFound
  <2>2. BufferIn(u, h) = u[j][DirectionFrom(u[j], h[1])]
    BY <1>4, Zenon DEF BufferIn
  <2> HIDE DEF j
  <2>3. j # i /\ u[j] = table[j] /\ table[j].id = hid
    BY <2>1, <1>1, <1>2, <1>4
  <2>4. Has(table, hid) /\ IndexOf(table, hid) = j
    BY <2>1, <2>3, <1>2, UniqueIndex
  <2>5. BufferIn(table, h) = table[j][DirectionFrom(table[j], h[1])]
    BY <2>4, Zenon DEF BufferIn
  <2>6. BufferIn(u, h) = BufferIn(table, h)
    BY <2>2, <2>3, <2>5, Zenon
  <2> QED BY <2>6, <1>4 DEF u
<1>5. CASE hid # id /\ ~ Has(u, hid)
  <2>1. BufferIn(u, h) = NewBuffer /\ BufferIn(table, h) = NewBuffer
    BY <1>1, <1>5, Zenon DEF BufferIn
  <2> QED BY <2>1, <1>5 DEF u
<1> QED BY <1>3, <1>4, <1>5
-----------------------------------------------------------------------------
(* The default arguments.                                                  *)
Plain == output_mode = "separate" /\ fill_gaps = FALSE

LEMMA SettledStays ==
  ASSUME NEW f, NEW b \in Settled(f)
  PROVE  AfterGetData(b, FALSE) = b /\ DataOf(b, FALSE) = NoBytes
<1>1. CASE b = NewBuffer
  BY <1>1, DrainUnknown, Zenon
<1>2. ASSUME NEW next \in 1 .. StreamLen + 1, NEW D \in SUBSET Beyond(next),
             NEW fin \in BOOLEAN, b = Live(f, next, 0, D, fin)
      PROVE  AfterGetData(b, FALSE) = b /\ DataOf(b, FALSE) = NoBytes
  <2>1. 0 \in 0 .. next - 1 /\ next - 0 \in Int
    BY ReassemblerAssumption
  <2>2. /\ DataOf(b, FALSE) = Text(f, next - 0, 0)
        /\ AfterGetData(b, FALSE) = b
    BY <1>2, <2>1, DrainLive
  <2>3. Text(f, next - 0, 0) = NoBytes
    BY <2>1, TextEmpty
  <2> QED BY <2>2, <2>3
<1> QED BY <1>1, <1>2, SettledCases, Zenon

(* The two directions are drained one after the other, and the limits find *)
(* nothing left to do.                                                     *)
LEMMA SeparateOutput ==
  ASSUME Plain, NEW id, NEW x, NEW y, IsFed(x, id), IsFed(y, Reverse(id))
  PROVE  /\ Output(Conn(id, x, y)) = Piece(DataOf(x, FALSE)) \o Piece(DataOf(y, FALSE))
         /\ AfterOutput(Conn(id, x, y))
              = Conn(id, AfterGetData(x, FALSE), AfterGetData(y, FALSE))
         /\ AfterLimits(AfterOutput(Conn(id, x, y)))
              = Conn(id, AfterGetData(x, FALSE), AfterGetData(y, FALSE))
<1> DEFINE c  == Conn(id, x, y)
           x1 == AfterGetData(x, FALSE)
           y1 == AfterGetData(y, FALSE)
           e  == Conn(id, x1, y1)
<1>1. c.c2s = x /\ c.s2c = y /\ e.c2s = x1 /\ e.s2c = y1
  <2> HIDE DEF x1, y1
  <2> QED BY ConnFields
<1>2. x1 \in Settled(id) /\ y1 \in Settled(Reverse(id))
  BY DrainSettles
<1>3. AfterGetData(x1, FALSE) = x1 /\ AfterGetData(y1, FALSE) = y1
  <2> HIDE DEF x1, y1
  <2> QED BY <1>2, SettledStays
<1>4. WithBoth(c, x1, y1) = e
  <2> HIDE DEF x1, y1
  <2> QED BY ConnUpdate
<1>5. WithBoth(e, x1, y1) = e
  <2> HIDE DEF x1, y1
  <2> QED BY ConnUpdate
<1> HIDE DEF c, e
<1>6. Output(c) = Piece(DataOf(x, FALSE)) \o Piece(DataOf(y, FALSE))
  BY <1>1, Zenon DEF Output, Plain
<1>7. AfterOutput(c) = e
  <2>1. AfterOutput(c) = WithBoth(c, x1, y1)
    BY <1>1, Zenon DEF AfterOutput, Plain, WithBoth
  <2> QED BY <2>1, <1>4, Zenon
<1>8. AfterLimits(e) = e
  <2>1. Limited(x1) = x1 /\ Limited(y1) = y1
    <3> HIDE DEF x1, y1
    <3> QED BY <1>3 DEF Limited, Plain
  <2> HIDE DEF x1, y1
  <2>2. AfterLimits(e) = WithBoth(e, x1, y1)
    BY <1>1, <2>1, Zenon DEF AfterLimits, WithBoth
  <2> QED BY <2>2, <1>5, Zenon
<1> QED BY <1>6, <1>7, <1>8, Zenon DEF c, e

LEMMA PieceJoin ==
  ASSUME NEW data
  PROVE  /\ Piece(data) \o Piece(NoBytes) = Piece(data)
         /\ Piece(NoBytes) \o Piece(data) = Piece(data)
<1>1. Piece(NoBytes) = NoBytes
  BY DEF Piece, NoBytes
<1>2. Piece(data) \in Seq({data})
  <2>1. << >> \in Seq({data}) /\ << data >> \in Seq({data})
    OBVIOUS
  <2> QED BY <2>1, Zenon DEF Piece
<1> QED BY <1>1, <1>2, EmptyJoin, Zenon

(* Feeding flow f drains f's buffer, now z, and touches no other.          *)
FedAs(fed, f, c, z) ==
  /\ Output(fed) = Piece(DataOf(z, FALSE))
  /\ AfterLimits(AfterOutput(fed)) = AfterOutput(fed)
  /\ AfterOutput(fed) \in Conns /\ AfterOutput(fed).id = c.id
  /\ \A h \in Both : ConnId(h[1], h[2]) = c.id =>
       AfterOutput(fed)[DirectionFrom(AfterOutput(fed), h[1])]
         = IF h = f THEN AfterGetData(z, FALSE) ELSE c[DirectionFrom(c, h[1])]

LEMMA FedOutput ==
  ASSUME Plain, NEW f \in Flows, NEW c \in Conns, c.id = ConnId(f[1], f[2]),
         NEW seq, NEW payload, NEW syn, NEW fin, IsPacket(f, seq, payload, syn, fin)
  PROVE  FedAs(ConnectionFeed(c, f[1], seq, payload, syn, fin), f, c,
               Feed(c[DirectionFrom(c, f[1])], seq, payload, syn, fin))
<1> DEFINE b   == c[DirectionFrom(c, f[1])]
           z   == Feed(b, seq, payload, syn, fin)
           fed == ConnectionFeed(c, f[1], seq, payload, syn, fin)
<1>a. b = c[DirectionFrom(c, f[1])]
  OBVIOUS
<1> HIDE DEF b
<1>b. z = Feed(b, seq, payload, syn, fin)
  OBVIOUS
<1> HIDE DEF z
<1>c. fed = ConnectionFeed(c, f[1], seq, payload, syn, fin)
  OBVIOUS
<1> HIDE DEF fed
<1> SUFFICES FedAs(fed, f, c, z)
  BY Zenon DEF b, z, fed
<1> DEFINE e == AfterOutput(fed)
           x == c.c2s
           y == c.s2c
           z1 == AfterGetData(z, FALSE)
<1>1. /\ x \in Settled(c.id) /\ y \in Settled(Reverse(c.id))
      /\ IsFed(x, c.id) /\ IsFed(y, Reverse(c.id))
  BY ConnParts, SettledIsFed
<1>2. /\ AfterGetData(x, FALSE) = x /\ DataOf(x, FALSE) = NoBytes
      /\ AfterGetData(y, FALSE) = y /\ DataOf(y, FALSE) = NoBytes
  BY <1>1, SettledStays
<1>3. f \in Both
  BY FlowsInBoth
<1>4. b \in Settled(f)
  <2>1. c[DirectionFrom(c, f[1])] \in Settled(f)
    BY <1>3, BufferOfConn
  <2> QED BY <2>1, <1>a
<1>5. IsFed(z, f)
  BY <1>4, <1>b, FeedSettled
<1>6. /\ IsFedConn(fed) /\ fed.id = c.id
  BY <1>c, ConnectionFeedFed
<1>7. e \in Conns /\ e.id = c.id
  BY <1>6, OutputSettles
<1>8. \A h : DirectionFrom(e, h[1]) = DirectionFrom(c, h[1])
  BY <1>7 DEF DirectionFrom
<1>9. CASE f = c.id /\ DirectionFrom(c, f[1]) = "c2s"
  <2>1. b = x
    BY <1>9, <1>a
  <2>2. fed = Conn(c.id, z, y)
    <3>1. ConnectionFeed(c, f[1], seq, payload, syn, fin)
            = Conn(c.id, Feed(c.c2s, seq, payload, syn, fin), c.s2c)
      BY <1>9, ConnectionFeedFlow
    <3> QED BY <2>1, <3>1, <1>b, <1>c
  <2>3. /\ Output(fed) = Piece(DataOf(z, FALSE)) \o Piece(NoBytes)
        /\ e = Conn(c.id, z1, y)
        /\ AfterLimits(e) = Conn(c.id, z1, y)
    <3> HIDE DEF x, y
    <3>1. IsFed(z, c.id)
      BY <1>5, <1>9
    <3>2. /\ Output(Conn(c.id, z, y)) = Piece(DataOf(z, FALSE)) \o Piece(DataOf(y, FALSE))
          /\ AfterOutput(Conn(c.id, z, y)) = Conn(c.id, z1, AfterGetData(y, FALSE))
          /\ AfterLimits(AfterOutput(Conn(c.id, z, y)))
               = Conn(c.id, z1, AfterGetData(y, FALSE))
      <4>1. IsFed(y, Reverse(c.id))
        BY <1>1
      <4> DEFINE id == c.id
      <4> HIDE DEF id, z1
      <4>2. IsFed(z, id) /\ IsFed(y, Reverse(id))
        BY <3>1, <4>1 DEF id
      <4>3. Output(Conn(id, z, y)) = Piece(DataOf(z, FALSE)) \o Piece(DataOf(y, FALSE))
        BY <4>2, SeparateOutput
      <4>4. AfterOutput(Conn(id, z, y)) = Conn(id, AfterGetData(z, FALSE), AfterGetData(y, FALSE))
        BY <4>2, SeparateOutput
      <4>5. AfterLimits(AfterOutput(Conn(id, z, y)))
              = Conn(id, AfterGetData(z, FALSE), AfterGetData(y, FALSE))
        BY <4>2, SeparateOutput
      <4> QED BY <4>3, <4>4, <4>5 DEF id, z1
    <3> QED BY <1>2, <2>2, <3>2, Zenon
  <2>4. Output(fed) = Piece(DataOf(z, FALSE))
    BY <2>3, PieceJoin
  <2>5. e.c2s = z1 /\ e.s2c = y
    <3> HIDE DEF e, y, z1
    <3> QED BY <2>3 DEF Conn
  <2> HIDE DEF e, x, y, z1
  <2>6. ASSUME NEW h \in Both, ConnId(h[1], h[2]) = c.id
        PROVE  e[DirectionFrom(e, h[1])]
                 = IF h = f THEN z1 ELSE c[DirectionFrom(c, h[1])]
    <3>1. CASE h = c.id /\ DirectionFrom(c, h[1]) = "c2s"
      BY <1>8, <1>9, <2>5, <3>1
    <3>2. CASE h = Reverse(c.id) /\ c.id[1] # c.id[2] /\ DirectionFrom(c, h[1]) = "s2c"
      <4>1. h # f
        BY <1>9, <3>2
      <4>2. c[DirectionFrom(c, h[1])] = y
        BY <3>2 DEF y
      <4>3. e[DirectionFrom(e, h[1])] = y
        BY <1>8, <2>5, <3>2
      <4> QED BY <4>1, <4>2, <4>3
    <3> QED BY <2>6, <3>1, <3>2, BufferOfConn
  <2>7. AfterLimits(e) = e
    BY <2>3
  <2> QED BY <1>7, <2>4, <2>6, <2>7 DEF e, z1, FedAs
<1>10. CASE f = Reverse(c.id) /\ c.id[1] # c.id[2] /\ DirectionFrom(c, f[1]) = "s2c"
  <2>1. b = y
    BY <1>10, <1>a
  <2>2. fed = Conn(c.id, x, z)
    <3>1. ConnectionFeed(c, f[1], seq, payload, syn, fin)
            = Conn(c.id, c.c2s, Feed(c.s2c, seq, payload, syn, fin))
      BY <1>10, ConnectionFeedFlow
    <3> QED BY <2>1, <3>1, <1>b, <1>c
  <2>3. /\ Output(fed) = Piece(NoBytes) \o Piece(DataOf(z, FALSE))
        /\ e = Conn(c.id, x, z1)
        /\ AfterLimits(e) = Conn(c.id, x, z1)
    <3> HIDE DEF x, y
    <3>1. IsFed(z, Reverse(c.id))
      BY <1>5, <1>10
    <3>2. /\ Output(Conn(c.id, x, z)) = Piece(DataOf(x, FALSE)) \o Piece(DataOf(z, FALSE))
          /\ AfterOutput(Conn(c.id, x, z)) = Conn(c.id, AfterGetData(x, FALSE), z1)
          /\ AfterLimits(AfterOutput(Conn(c.id, x, z)))
               = Conn(c.id, AfterGetData(x, FALSE), z1)
      BY <1>1, <3>1, SeparateOutput
    <3> QED BY <1>2, <2>2, <3>2, Zenon
  <2>4. Output(fed) = Piece(DataOf(z, FALSE))
    BY <2>3, PieceJoin
  <2>5. e.c2s = x /\ e.s2c = z1
    <3> HIDE DEF e, x, z1
    <3> QED BY <2>3 DEF Conn
  <2> HIDE DEF e, x, y, z1
  <2>6. ASSUME NEW h \in Both, ConnId(h[1], h[2]) = c.id
        PROVE  e[DirectionFrom(e, h[1])]
                 = IF h = f THEN z1 ELSE c[DirectionFrom(c, h[1])]
    <3>1. CASE h = c.id /\ DirectionFrom(c, h[1]) = "c2s"
      <4>1. h # f
        BY <1>10, <3>1
      <4>2. c[DirectionFrom(c, h[1])] = x
        BY <3>1 DEF x
      <4>3. e[DirectionFrom(e, h[1])] = x
        BY <1>8, <2>5, <3>1
      <4> QED BY <4>1, <4>2, <4>3
    <3>2. CASE h = Reverse(c.id) /\ c.id[1] # c.id[2] /\ DirectionFrom(c, h[1]) = "s2c"
      BY <1>8, <1>10, <2>5, <3>2
    <3> QED BY <2>6, <3>1, <3>2, BufferOfConn
  <2>7. AfterLimits(e) = e
    BY <2>3
  <2> QED BY <1>7, <2>4, <2>6, <2>7 DEF e, z1, FedAs
<1> QED BY <1>3, <1>a, <1>9, <1>10, BufferOfConn

(* The callbacks each get the piece or not.                                *)
LEMMA JoinedPiece ==
  ASSUME NEW data, NEW cb \in Nat \ {0}, NEW raised \in Nat
  PROVE  /\ Joined(Piece(data), PiecesGiven(cb, Piece(data), raised)) \in {NoBytes, data}
         /\ raised = 0 =>
              Joined(Piece(data), PiecesGiven(cb, Piece(data), raised)) = data
<1> DEFINE out == Piece(data)
           n   == PiecesGiven(cb, out, raised)
<1>1. CASE data = NoBytes
  <2>1. Len(out) = 0
    BY <1>1 DEF Piece
  <2>2. n = 0
    <3> HIDE DEF out
    <3> QED BY <2>1 DEF PiecesGiven
  <2> HIDE DEF n
  <2>3. Joined(out, n) = data
    BY <1>1, <2>2 DEF Joined
  <2> QED BY <2>3 DEF out, n
<1>2. CASE data # NoBytes
  <2>1. Len(out) = 1 /\ out[1] = data
    BY <1>2 DEF Piece
  <2> HIDE DEF out
  <2>2. n \in {0, 1} /\ (raised = 0 => n = 1)
    BY <2>1 DEF PiecesGiven
  <2> HIDE DEF n
  <2>3. Joined(out, n) \in {NoBytes, data} /\ (raised = 0 => Joined(out, n) = data)
    BY <2>1, <2>2 DEF Joined
  <2> QED BY <2>3 DEF out, n
<1> QED BY <1>1, <1>2
-----------------------------------------------------------------------------
(* What feeding a packet of flow f does: to the buffers of f and of the    *)
(* other flows, and to what each callback was given.                       *)
Given1(row, id, add) == [row EXCEPT ![id] = @ \o add]

LEMMA FlowStep ==
  ASSUME TableSound, Plain, NEW f \in Flows,
         NEW seq, NEW payload, NEW syn, NEW fin, IsPacket(f, seq, payload, syn, fin),
         FeedPacket(f[1], f[2], seq, payload, syn, fin),
         NEW z, z = Feed(BufferIn(connections, f), seq, payload, syn, fin)
  PROVE  /\ BufferIn(connections', f) = AfterGetData(z, FALSE)
         /\ \A h \in Both \ {f} :
              BufferIn(connections', h) \in {BufferIn(connections, h), NewBuffer}
         /\ \A cb \in 1 .. MaxCallbacks :
              \/ received'[cb] = received[cb]
              \/ received'[cb]
                   = Given1(received[cb], ConnId(f[1], f[2]), DataOf(z, FALSE))
              \/ received'[cb]
                   = Given1(received[cb], ConnId(f[1], f[2]), NoBytes)
         /\ ~ MayRaise => \A cb \in 1 .. callbacks :
              received'[cb]
                = Given1(received[cb], ConnId(f[1], f[2]), DataOf(z, FALSE))
         /\ received' = [cb \in 1 .. MaxCallbacks |-> received'[cb]]
<1> DEFINE id    == ConnId(f[1], f[2])
           table == Admit(connections, id)
           i     == IndexOf(table, id)
           fed   == ConnectionFeed(table[i], f[1], seq, payload, syn, fin)
           e     == AfterOutput(fed)
           out   == Output(fed)
           top   == IF MayRaise THEN callbacks * Len(out) ELSE 0
           Row(raised, cb) ==
             IF cb > callbacks THEN received[cb]
             ELSE Given1(received[cb], id, Joined(out, PiecesGiven(cb, out, raised)))
<1>1. \E raised \in 0 .. top :
        /\ connections' = Put(table, i, IF raised = 0 THEN AfterLimits(e) ELSE e)
        /\ received' = [cb \in 1 .. MaxCallbacks |-> Row(raised, cb)]
  <2>1. \E raised \in 0 .. Calls(fed) : Fed(table, i, id, fed, raised)
    BY FeedPacketFed
  <2> QED BY <2>1, Zenon DEF Fed, Calls, Put, Given1
<1>2. id \in ConnIds /\ f \in Both
  BY FlowId, FlowsInBoth
<1>3. /\ table \in Seq(Conns) /\ UniqueIds(table) /\ Has(table, id)
      /\ FromOrNew(connections, table, id)
  BY <1>2, AdmitKeeps DEF TableSound
<1>4. connections \in Seq(Conns) /\ UniqueIds(connections)
  BY DEF TableSound
<1>5. \A h \in Both :
        /\ BufferIn(table, h) \in {BufferIn(connections, h), NewBuffer}
        /\ ConnId(h[1], h[2]) = id => BufferIn(table, h) = BufferIn(connections, h)
  <2> HIDE DEF id, table
  <2> QED BY <1>2, <1>3, <1>4, BufferAdmitted
<1> HIDE DEF table
<1>6. i \in Indices(table) /\ table[i].id = id
  BY <1>3, IndexOfFound
<1>7. table[i] \in Conns
  BY <1>3, <1>6, ElementOfSeq DEF Indices
<1>8. \A h \in Both : ConnId(h[1], h[2]) = id =>
        BufferIn(table, h) = table[i][DirectionFrom(table[i], h[1])]
  BY <1>3, Zenon DEF BufferIn
<1>9. z = Feed(table[i][DirectionFrom(table[i], f[1])], seq, payload, syn, fin)
  <2>1. BufferIn(connections, f) = table[i][DirectionFrom(table[i], f[1])]
    BY <1>2, <1>5, <1>8
  <2> HIDE DEF i
  <2> QED BY <2>1, Zenon
<1>10. i = IndexOf(table, id)
  OBVIOUS
<1> HIDE DEF i
<1>11. /\ out = Piece(DataOf(z, FALSE))
       /\ AfterLimits(e) = e
       /\ e \in Conns /\ e.id = id
       /\ \A h \in Both : ConnId(h[1], h[2]) = id =>
            e[DirectionFrom(e, h[1])]
              = IF h = f THEN AfterGetData(z, FALSE)
                ELSE table[i][DirectionFrom(table[i], h[1])]
  <2> DEFINE c == table[i]
  <2>1. c \in Conns /\ c.id = ConnId(f[1], f[2])
    BY <1>6, <1>7
  <2>2. z = Feed(c[DirectionFrom(c, f[1])], seq, payload, syn, fin)
    BY <1>9
  <2>3. fed = ConnectionFeed(c, f[1], seq, payload, syn, fin)
    OBVIOUS
  <2> HIDE DEF c
  <2>4. FedAs(ConnectionFeed(c, f[1], seq, payload, syn, fin), f, c,
              Feed(c[DirectionFrom(c, f[1])], seq, payload, syn, fin))
    BY <2>1, FedOutput
  <2> HIDE DEF fed
  <2>5. FedAs(fed, f, c, z)
    BY <2>2, <2>3, <2>4, Zenon
  <2> QED BY <2>1, <2>5 DEF c, FedAs
<1> HIDE DEF e
<1>12. PICK raised \in 0 .. top :
        /\ connections' = Put(table, i, e)
        /\ received' = [cb \in 1 .. MaxCallbacks |-> Row(raised, cb)]
  BY <1>1, <1>11
<1>13. \A h \in Both :
         BufferIn(connections', h)
           = IF ConnId(h[1], h[2]) = id THEN e[DirectionFrom(e, h[1])]
             ELSE BufferIn(table, h)
  <2> HIDE DEF id
  <2>1. \A h \in Both :
          BufferIn(Put(table, i, e), h)
            = IF ConnId(h[1], h[2]) = id THEN e[DirectionFrom(e, h[1])]
              ELSE BufferIn(table, h)
    BY <1>3, <1>10, <1>11, BufferPut
  <2> QED BY <1>12, <2>1
<1> HIDE DEF id
<1>14. BufferIn(connections', f) = AfterGetData(z, FALSE)
  BY <1>2, <1>11, <1>13 DEF id
<1>15. ASSUME NEW h \in Both \ {f}
       PROVE  BufferIn(connections', h) \in {BufferIn(connections, h), NewBuffer}
  <2>1. CASE ConnId(h[1], h[2]) = id
    BY <2>1, <1>5, <1>8, <1>11, <1>13
  <2>2. CASE ConnId(h[1], h[2]) # id
    BY <2>2, <1>5, <1>13
  <2> QED BY <2>1, <2>2
<1> HIDE DEF out, fed
<1>16. callbacks \in Nat /\ Len(out) \in Nat
  <2>1. Len(Piece(DataOf(z, FALSE))) \in Nat
    BY DEF Piece
  <2>2. callbacks \in Nat
    BY ReassemblerAssumption DEF TableSound
  <2> QED BY <1>11, <2>1, <2>2
<1>17. raised \in Nat /\ (~ MayRaise => raised = 0)
  <2>1. callbacks * Len(out) \in Nat
    BY <1>16
  <2> HIDE DEF out
  <2> QED BY <2>1, <1>12
<1>18. ASSUME NEW cb \in 1 .. MaxCallbacks
       PROVE  /\ \/ received'[cb] = received[cb]
                 \/ received'[cb] = Given1(received[cb], id, DataOf(z, FALSE))
                 \/ received'[cb] = Given1(received[cb], id, NoBytes)
              /\ raised = 0 /\ cb <= callbacks =>
                   received'[cb] = Given1(received[cb], id, DataOf(z, FALSE))
  <2> DEFINE add == Joined(out, PiecesGiven(cb, out, raised))
  <2>1. cb \in Nat \ {0}
    BY ReassemblerAssumption
  <2>2. add \in {NoBytes, DataOf(z, FALSE)} /\ (raised = 0 => add = DataOf(z, FALSE))
    BY <2>1, <1>11, <1>17, JoinedPiece
  <2>3. received'[cb] = IF cb > callbacks THEN received[cb]
                        ELSE Given1(received[cb], id, add)
    BY <1>12
  <2> HIDE DEF add, Row, out
  <2>4. CASE cb > callbacks
    <3>1. ~ (cb <= callbacks)
      BY <2>1, <2>4, <1>16
    <3>2. received'[cb] = received[cb]
      BY <2>3, <2>4, Zenon
    <3> QED BY <3>1, <3>2, Zenon
  <2>5. CASE ~ (cb > callbacks)
    <3>1. received'[cb] = Given1(received[cb], id, add)
      BY <2>3, <2>5, Zenon
    <3> QED BY <2>2, <3>1, Zenon
  <2> QED BY <2>4, <2>5
<1>19. ~ MayRaise => \A cb \in 1 .. callbacks :
         received'[cb] = Given1(received[cb], id, DataOf(z, FALSE))
  <2> SUFFICES ASSUME ~ MayRaise, NEW cb \in 1 .. callbacks
               PROVE  received'[cb] = Given1(received[cb], id, DataOf(z, FALSE))
    OBVIOUS
  <2>1. cb \in 1 .. MaxCallbacks /\ cb <= callbacks
    BY ReassemblerAssumption DEF TableSound
  <2> QED BY <2>1, <1>17, <1>18
<1>20. received' = [cb \in 1 .. MaxCallbacks |-> received'[cb]]
  <2> HIDE DEF Row
  <2>1. \A cb \in 1 .. MaxCallbacks : received'[cb] = Row(raised, cb)
    BY <1>12
  <2>2. [cb \in 1 .. MaxCallbacks |-> received'[cb]]
          = [cb \in 1 .. MaxCallbacks |-> Row(raised, cb)]
    BY <2>1
  <2> QED BY <1>12, <2>2, Zenon
<1> QED BY <1>14, <1>15, <1>18, <1>19, <1>20 DEF id
-----------------------------------------------------------------------------
(* What the buffer b of flow f, the positions S captured of it, and the    *)
(* bytes g a callback was given have to do with each other; all says that  *)
(* the callback was there from the start and is never skipped.             *)
InStep(g, f, S, next, D, all) ==
  /\ S = Captured(next, D)
  /\ Positions(g, f) \subseteq 1 .. next - 1
  /\ all => Positions(g, f) = 1 .. next - 1

Prefix(T) == \E m \in 0 .. StreamLen : T = 1 .. m

Sound(b, g, f, S, all) ==
  /\ Increasing(g, f)
  /\ Positions(g, f) \subseteq S
  /\ all => Prefix(Positions(g, f))
  /\ \/ b = NewBuffer
     \/ \E next \in 1 .. StreamLen + 1 : \E D \in SUBSET Beyond(next) :
          \E fin \in BOOLEAN :
            b = Live(f, next, 0, D, fin) /\ InStep(g, f, S, next, D, all)

LEMMA LiveSound ==
  ASSUME NEW f, NEW next \in 1 .. StreamLen + 1, NEW D \in SUBSET Beyond(next),
         NEW fin \in BOOLEAN, NEW g, NEW S, NEW all \in BOOLEAN,
         InStep(g, f, S, next, D, all), Increasing(g, f)
  PROVE  Sound(Live(f, next, 0, D, fin), g, f, S, all)
<1>1. Positions(g, f) \subseteq S
  BY DEF InStep, Captured
<1>2. all => Prefix(Positions(g, f))
  <2>1. next - 1 \in 0 .. StreamLen
    BY ReassemblerAssumption
  <2> QED BY <2>1 DEF InStep, Prefix
<1> QED BY <1>1, <1>2 DEF Sound

LEMMA ForgottenSound ==
  ASSUME NEW b, NEW c \in {b, NewBuffer}, NEW g, NEW f, NEW S, NEW all \in BOOLEAN,
         Sound(b, g, f, S, all)
  PROVE  Sound(c, g, f, S, all)
  BY DEF Sound

LEMMA FewerSound ==
  ASSUME NEW b, NEW g, NEW f, NEW S, NEW all \in BOOLEAN, Sound(b, g, f, S, all)
  PROVE  Sound(b, g, f, S, FALSE)
<1>1. \A next, D : InStep(g, f, S, next, D, all) => InStep(g, f, S, next, D, FALSE)
  BY DEF InStep
<1> QED BY <1>1 DEF Sound

(* Bytes of another flow of the connection change nothing.                 *)
LEMMA OtherSound ==
  ASSUME NEW f \in Flows, NEW h \in Flows, h # f, NEW g \in Seq(AnyByte),
         NEW p \in Int, NEW n \in Nat, NEW b, NEW S, NEW all \in BOOLEAN,
         Sound(b, g, h, S, all)
  PROVE  Sound(b, g \o Text(f, p, n), h, S, all)
<1> DEFINE w == g \o Text(f, p, n)
<1>1. /\ Positions(w, h) = Positions(g, h)
      /\ Increasing(g, h) => Increasing(w, h)
  BY GivenOther
<1> HIDE DEF w
<1>2. \A next, D : InStep(g, h, S, next, D, all) => InStep(w, h, S, next, D, all)
  BY <1>1 DEF InStep
<1>3. Sound(b, w, h, S, all)
  BY <1>1, <1>2 DEF Sound
<1> QED BY <1>3 DEF w

(* The bytes that get ready go out: the next ones of the flow.             *)
LEMMA GrownSound ==
  ASSUME NEW f \in Flows, NEW next \in 1 .. StreamLen + 1,
         NEW D \in SUBSET Beyond(next), NEW fin \in BOOLEAN,
         NEW stop \in next .. StreamLen + 1, NEW E \in SUBSET Beyond(stop),
         NEW g \in Seq(AnyByte), NEW S, NEW all \in BOOLEAN,
         InStep(g, f, S, next, D, all), Increasing(g, f)
  PROVE  /\ Sound(Live(f, stop, 0, E, fin), g \o Text(f, next, stop - next), f,
                  Captured(stop, E), all)
         /\ Sound(Live(f, stop, 0, E, fin), g, f, Captured(stop, E), FALSE)
<1> DEFINE n == stop - next
           w == g \o Text(f, next, n)
<1>1. /\ next \in Nat \ {0} /\ n \in Nat /\ next + n - 1 <= StreamLen
      /\ stop \in 1 .. StreamLen + 1 /\ next + n - 1 = stop - 1
  BY ReassemblerAssumption
<1>2. /\ Positions(w, f) = With(Positions(g, f), next, n)
      /\ Increasing(g, f) /\ Positions(g, f) \subseteq 1 .. next - 1
           => Increasing(w, f)
  <2> HIDE DEF n
  <2> QED BY <1>1, GivenMore
<1>3. Positions(w, f) = Positions(g, f) \cup next .. stop - 1
  BY <1>1, <1>2 DEF With
<1> HIDE DEF w, n
<1>4. Positions(g, f) \subseteq 1 .. next - 1
  BY DEF InStep
<1>5. InStep(w, f, Captured(stop, E), stop, E, all)
  <2>1. Positions(w, f) \subseteq 1 .. stop - 1
    BY <1>1, <1>3, <1>4
  <2>2. ASSUME all PROVE Positions(w, f) = 1 .. stop - 1
    <3>1. Positions(g, f) = 1 .. next - 1
      BY <2>2 DEF InStep
    <3> QED BY <1>1, <1>3, <3>1
  <2> QED BY <2>1, <2>2 DEF InStep
<1>6. InStep(g, f, Captured(stop, E), stop, E, FALSE)
  <2>1. Positions(g, f) \subseteq 1 .. stop - 1
    BY <1>1, <1>4
  <2> QED BY <2>1 DEF InStep
<1>7. Sound(Live(f, stop, 0, E, fin), w, f, Captured(stop, E), all)
  BY <1>1, <1>2, <1>4, <1>5, LiveSound
<1>8. Sound(Live(f, stop, 0, E, fin), g, f, Captured(stop, E), FALSE)
  BY <1>1, <1>6, LiveSound
<1> QED BY <1>7, <1>8 DEF w, n

(* What is ready of a fed buffer is a stretch of the flow.                 *)
IsText(data, f) == \E q \in Int : \E k \in Nat : data = Text(f, q, k)

(* The two histories after a packet whose bytes S grew to T: the callback  *)
(* was given what got ready, or missed it.                                 *)
Advanced(z, g, f, T, all) ==
  /\ IsText(DataOf(z, FALSE), f)
  /\ Sound(AfterGetData(z, FALSE), g \o DataOf(z, FALSE), f, T, all)
  /\ Sound(AfterGetData(z, FALSE), g, f, T, FALSE)

LEMMA UnknownAdvances ==
  ASSUME NEW f \in Flows, NEW g \in Seq(AnyByte), NEW S, NEW all \in BOOLEAN,
         Sound(NewBuffer, g, f, S, all)
  PROVE  Advanced(NewBuffer, g, f, S, all)
<1>1. DataOf(NewBuffer, FALSE) = NoBytes /\ AfterGetData(NewBuffer, FALSE) = NewBuffer
  BY DrainUnknown
<1>2. g \o NoBytes = g
  BY EmptyJoin
<1>3. IsText(NoBytes, f)
  <2>1. 1 \in Int /\ 0 \in Nat /\ NoBytes = Text(f, 1, 0)
    BY TextEmpty
  <2> QED BY <2>1 DEF IsText
<1>4. Sound(NewBuffer, g, f, S, FALSE)
  BY FewerSound
<1> QED BY <1>1, <1>2, <1>3, <1>4, Zenon DEF Advanced

LEMMA LiveAdvances ==
  ASSUME NEW f \in Flows, NEW next \in 1 .. StreamLen + 1,
         NEW D \in SUBSET Beyond(next), NEW fin \in BOOLEAN, NEW last \in BOOLEAN,
         NEW p \in Int, NEW n \in Nat, NEW z, Grown(z, f, next, D, p, n, last),
         NEW g \in Seq(AnyByte), NEW S, NEW all \in BOOLEAN,
         InStep(g, f, S, next, D, all), Increasing(g, f)
  PROVE  Advanced(z, g, f, With(S, p, n), all)
<1>1. PICK stop \in next .. StreamLen + 1 : \E E \in SUBSET Beyond(stop) :
        /\ z = Live(f, stop, stop - next, E, last)
        /\ Captured(stop, E) = With(Captured(next, D), p, n)
  BY DEF Grown
<1>2. PICK E \in SUBSET Beyond(stop) :
        /\ z = Live(f, stop, stop - next, E, last)
        /\ Captured(stop, E) = With(Captured(next, D), p, n)
  BY <1>1
<1>3. S = Captured(next, D)
  BY DEF InStep
<1>4. /\ stop \in 1 .. StreamLen + 1 /\ stop - next \in 0 .. stop - 1
      /\ stop - (stop - next) = next /\ next \in Int /\ stop - next \in Nat
  BY ReassemblerAssumption
<1>5. /\ DataOf(z, FALSE) = Text(f, next, stop - next)
      /\ AfterGetData(z, FALSE) = Live(f, stop, 0, E, last)
  <2> DEFINE r == stop - next
  <2>1. r \in 0 .. stop - 1 /\ stop - r = next
    BY <1>4
  <2> HIDE DEF r
  <2>2. /\ DataOf(Live(f, stop, r, E, last), FALSE) = Text(f, stop - r, r)
        /\ AfterGetData(Live(f, stop, r, E, last), FALSE) = Live(f, stop, 0, E, last)
    BY <1>4, <2>1, DrainLive
  <2>3. z = Live(f, stop, r, E, last)
    BY <1>2 DEF r
  <2> QED BY <2>1, <2>2, <2>3, Zenon DEF r
<1>6. /\ Sound(Live(f, stop, 0, E, last), g \o Text(f, next, stop - next), f,
               Captured(stop, E), all)
      /\ Sound(Live(f, stop, 0, E, last), g, f, Captured(stop, E), FALSE)
  BY GrownSound
<1>7. IsText(DataOf(z, FALSE), f)
  BY <1>4, <1>5 DEF IsText
<1>8. Captured(stop, E) = With(S, p, n)
  BY <1>2, <1>3
<1> QED BY <1>5, <1>6, <1>7, <1>8, Zenon DEF Advanced

LEMMA SynAdvances ==
  ASSUME NEW f \in Flows, NEW b, NEW g \in Seq(AnyByte), NEW all \in BOOLEAN,
         Sound(b, g, f, {}, all)
  PROVE  Advanced(Feed(b, 0, NoBytes, TRUE, FALSE), g, f, {}, all)
<1> DEFINE none == {}
           z == Feed(b, 0, NoBytes, TRUE, FALSE)
<1>1. Increasing(g, f) /\ Positions(g, f) = {}
  BY DEF Sound
<1>2. /\ 1 \in 1 .. StreamLen + 1 /\ none \in SUBSET Beyond(1)
      /\ 0 \in Nat /\ FALSE \in BOOLEAN /\ 1 \in Int
  BY ReassemblerAssumption
<1>3. \E fin \in BOOLEAN : z = Live(f, 1, 0, none, fin)
  <2>1. CASE b = NewBuffer
    BY <2>1, FeedSynLive
  <2>2. ASSUME NEW next \in 1 .. StreamLen + 1, NEW D \in SUBSET Beyond(next),
               NEW fin \in BOOLEAN, b = Live(f, next, 0, D, fin),
               InStep(g, f, {}, next, D, all)
        PROVE  \E last \in BOOLEAN : z = Live(f, 1, 0, none, last)
    <3>1. D = none
      BY <2>2 DEF InStep, Captured
    <3>2. z = Live(f, 1, 0, D, fin)
      BY <2>2, FeedSynLive
    <3> QED BY <3>1, <3>2
  <2> QED BY <2>1, <2>2 DEF Sound
<1>4. PICK fin \in BOOLEAN : z = Live(f, 1, 0, none, fin)
  BY <1>3
<1>5. InStep(g, f, none, 1, none, all)
  <2>1. Captured(1, none) = none /\ 1 .. 1 - 1 = none
    BY DEF Captured
  <2> QED BY <1>1, <2>1 DEF InStep
<1>6. /\ DataOf(z, FALSE) = Text(f, 1 - 0, 0)
      /\ AfterGetData(z, FALSE) = Live(f, 1, 0, none, fin)
  <2>1. 0 \in 0 .. 1 - 1
    OBVIOUS
  <2> HIDE DEF z, none
  <2> QED BY <1>2, <1>4, <2>1, DrainLive
<1>7. DataOf(z, FALSE) = NoBytes /\ g \o NoBytes = g
  <2>1. 1 - 0 \in Int
    OBVIOUS
  <2>2. Text(f, 1 - 0, 0) = NoBytes
    BY <2>1, TextEmpty
  <2> QED BY <1>6, <2>2, EmptyJoin
<1> HIDE DEF z
<1>8. Sound(Live(f, 1, 0, none, fin), g, f, none, all)
  <2> HIDE DEF none
  <2> QED BY <1>1, <1>2, <1>5, LiveSound
<1>9. Sound(Live(f, 1, 0, none, fin), g, f, none, FALSE)
  <2> HIDE DEF none
  <2> QED BY <1>8, FewerSound
<1>10. IsText(DataOf(z, FALSE), f)
  <2>1. 1 - 0 = 1
    OBVIOUS
  <2>2. DataOf(z, FALSE) = Text(f, 1, 0)
    BY <1>6, <2>1, Zenon
  <2> QED BY <1>2, <2>2, Zenon DEF IsText
<1>11. Advanced(z, g, f, none, all)
  <2> HIDE DEF none
  <2> QED BY <1>6, <1>7, <1>8, <1>9, <1>10, Zenon DEF Advanced
<1> QED BY <1>11 DEF z

LEMMA DataAdvances ==
  ASSUME NEW f \in Flows, NEW b, NEW g \in Seq(AnyByte), NEW S, NEW all \in BOOLEAN,
         Sound(b, g, f, S, all),
         NEW p \in 1 .. StreamLen + 1, NEW n \in 0 .. StreamLen,
         p + n - 1 <= StreamLen, NEW last \in BOOLEAN, last => p + n - 1 = StreamLen
  PROVE  Advanced(Feed(b, p, Text(f, p, n), FALSE, last), g, f,
                  IF b.isn = None THEN S ELSE With(S, p, n), all)
<1> DEFINE z == Feed(b, p, Text(f, p, n), FALSE, last)
<1>1. CASE b = NewBuffer
  <2>1. z = NewBuffer
    BY <1>1, FeedUnknown
  <2>2. b.isn = None
    BY <1>1 DEF NewBuffer
  <2>3. Advanced(NewBuffer, g, f, S, all)
    BY <1>1, UnknownAdvances
  <2> QED BY <2>1, <2>2, <2>3
<1>2. ASSUME NEW next \in 1 .. StreamLen + 1, NEW D \in SUBSET Beyond(next),
             NEW fin \in BOOLEAN, b = Live(f, next, 0, D, fin),
             InStep(g, f, S, next, D, all)
      PROVE  Advanced(z, g, f, IF b.isn = None THEN S ELSE With(S, p, n), all)
  <2>1. Grown(z, f, next, D, p, n, fin \/ last)
    BY <1>2, FeedLive
  <2>2. b.isn # None
    BY <1>2 DEF Live, None
  <2>3. Increasing(g, f)
    BY DEF Sound
  <2>4. p \in Int /\ n \in Nat /\ (fin \/ last) \in BOOLEAN
    BY ReassemblerAssumption
  <2> HIDE DEF z
  <2>5. Advanced(z, g, f, With(S, p, n), all)
    BY <1>2, <2>1, <2>3, <2>4, LiveAdvances
  <2> QED BY <2>2, <2>5
<1> QED BY <1>1, <1>2 DEF Sound
-----------------------------------------------------------------------------
(* What callbacks were given, in step with the table.                      *)
Histories == [1 .. MaxCallbacks -> [ConnIds -> Seq(AnyByte)]]

DeliverySound(all) ==
  /\ received \in Histories
  /\ \A h \in Both \ Flows : BufferIn(connections, h) = NewBuffer
  /\ \A f \in Flows, cb \in 1 .. MaxCallbacks :
       Sound(BufferIn(connections, f), Given(cb, f), f, seen[f], all)

LEMMA DeliverySoundInit ==
  ASSUME Init, NEW all \in BOOLEAN
  PROVE  DeliverySound(all)
<1>1. \A h : BufferIn(connections, h) = NewBuffer
  <2>1. \A id : ~ Has(connections, id)
    BY EmptySeq DEF Init, Has, Indices
  <2> QED BY <2>1, Zenon DEF BufferIn
<1>2. NoBytes \in Seq(AnyByte)
  BY DEF NoBytes
<1>3. received \in Histories
  BY <1>2 DEF Init, Histories
<1>4. ASSUME NEW f \in Flows, NEW cb \in 1 .. MaxCallbacks
      PROVE  Sound(NewBuffer, Given(cb, f), f, seen[f], all)
  <2>1. Given(cb, f) = NoBytes /\ seen[f] = {}
    BY FlowId DEF Init, Given
  <2>2. At(NoBytes, f) = {}
    BY DEF At, NoBytes
  <2>3. Positions(NoBytes, f) = {} /\ Increasing(NoBytes, f)
    BY <2>2 DEF Positions, Increasing
  <2>4. 0 \in 0 .. StreamLen /\ {} = 1 .. 0
    BY ReassemblerAssumption
  <2>5. Prefix(Positions(NoBytes, f))
    BY <2>3, <2>4 DEF Prefix
  <2> QED BY <2>1, <2>3, <2>5 DEF Sound
<1> QED BY <1>1, <1>3, <1>4 DEF DeliverySound

(* A packet of flow f whose captured positions grow from seen[f] to T.     *)
LEMMA PacketDelivers ==
  ASSUME TableSound, Plain, NEW all \in BOOLEAN, DeliverySound(all),
         all => ~ MayRaise /\ callbacks = MaxCallbacks,
         NEW f \in Flows,
         NEW seq, NEW payload, NEW syn, NEW fin, IsPacket(f, seq, payload, syn, fin),
         FeedPacket(f[1], f[2], seq, payload, syn, fin),
         NEW T, seen' = [seen EXCEPT ![f] = T],
         \A cb \in 1 .. MaxCallbacks :
           Advanced(Feed(BufferIn(connections, f), seq, payload, syn, fin),
                    Given(cb, f), f, T, all)
  PROVE  DeliverySound(all)'
<1> DEFINE id == ConnId(f[1], f[2])
           b  == BufferIn(connections, f)
           z  == Feed(b, seq, payload, syn, fin)
           add == DataOf(z, FALSE)
           z1  == AfterGetData(z, FALSE)
<1>1. /\ BufferIn(connections', f) = z1
      /\ \A h \in Both \ {f} :
           BufferIn(connections', h) \in {BufferIn(connections, h), NewBuffer}
      /\ \A cb \in 1 .. MaxCallbacks :
           \/ received'[cb] = received[cb]
           \/ received'[cb] = Given1(received[cb], id, add)
           \/ received'[cb] = Given1(received[cb], id, NoBytes)
      /\ ~ MayRaise => \A cb \in 1 .. callbacks :
           received'[cb] = Given1(received[cb], id, add)
      /\ received' = [cb \in 1 .. MaxCallbacks |-> received'[cb]]
  BY FlowStep
<1>2. /\ received \in Histories
      /\ \A cb \in 1 .. MaxCallbacks, h \in Flows :
           Given(cb, h) \in Seq(AnyByte)
  BY FlowId DEF DeliverySound, Histories, Given
<1>3. id \in ConnIds
  BY FlowId
<1>4. \A cb \in 1 .. MaxCallbacks : Advanced(z, Given(cb, f), f, T, all)
  OBVIOUS
<1> HIDE DEF z, b
<1>5. ASSUME NEW cb \in 1 .. MaxCallbacks PROVE IsText(add, f)
  BY <1>4 DEF Advanced
<1>6. ASSUME NEW cb \in 1 .. MaxCallbacks, NEW new \in {NoBytes, add},
             received'[cb] = Given1(received[cb], id, new)
      PROVE  /\ received'[cb] \in [ConnIds -> Seq(AnyByte)]
             /\ \A h \in Flows : Given(cb, h)' =
                  IF ConnId(h[1], h[2]) = id THEN Given(cb, h) \o new
                  ELSE Given(cb, h)
  <2> HIDE DEF add
  <2>1. new \in Seq(AnyByte)
    <3>1. NoBytes \in Seq(AnyByte)
      BY DEF NoBytes
    <3>2. PICK q \in Int : \E k \in Nat : add = Text(f, q, k)
      BY <1>5 DEF IsText
    <3>3. PICK k \in Nat : add = Text(f, q, k)
      BY <3>2
    <3>4. add \in Seq(BytesOf(f)) /\ BytesOf(f) \subseteq AnyByte
      BY <3>3, TextType DEF BytesOf, AnyByte
    <3>5. add \in Seq(AnyByte)
      BY <3>4, SeqMonotonic
    <3> QED BY <3>1, <3>5
  <2>2. received[cb] \in [ConnIds -> Seq(AnyByte)]
    BY <1>2 DEF Histories
  <2> HIDE DEF id
  <2>3. \A d \in ConnIds :
          received'[cb][d] = IF d = id THEN received[cb][d] \o new ELSE received[cb][d]
    BY <1>6, <2>2 DEF Given1
  <2>4. received[cb][id] \o new \in Seq(AnyByte)
    <3>1. received[cb][id] \in Seq(AnyByte)
      BY <1>3, <2>2
    <3> QED BY <2>1, <3>1, ConcatProperties
  <2>5. received'[cb] \in [ConnIds -> Seq(AnyByte)]
    BY <1>3, <1>6, <2>2, <2>4 DEF Given1
  <2>6. ASSUME NEW h \in Flows
        PROVE  Given(cb, h)' = IF ConnId(h[1], h[2]) = id THEN Given(cb, h) \o new
                               ELSE Given(cb, h)
    <3>1. ConnId(h[1], h[2]) \in ConnIds
      BY FlowId
    <3> QED BY <2>3, <3>1 DEF Given
  <2> QED BY <2>5, <2>6
<1>7. \A cb \in 1 .. MaxCallbacks :
        /\ received'[cb] \in [ConnIds -> Seq(AnyByte)]
        /\ \/ \A h \in Flows : Given(cb, h)' = Given(cb, h)
           \/ \A h \in Flows : Given(cb, h)' =
                IF ConnId(h[1], h[2]) = id THEN Given(cb, h) \o add ELSE Given(cb, h)
        /\ all => \A h \in Flows : Given(cb, h)' =
                    IF ConnId(h[1], h[2]) = id THEN Given(cb, h) \o add
                    ELSE Given(cb, h)
  <2> SUFFICES ASSUME NEW cb \in 1 .. MaxCallbacks
               PROVE
        /\ received'[cb] \in [ConnIds -> Seq(AnyByte)]
        /\ \/ \A h \in Flows : Given(cb, h)' = Given(cb, h)
           \/ \A h \in Flows : Given(cb, h)' =
                IF ConnId(h[1], h[2]) = id THEN Given(cb, h) \o add ELSE Given(cb, h)
        /\ all => \A h \in Flows : Given(cb, h)' =
                    IF ConnId(h[1], h[2]) = id THEN Given(cb, h) \o add
                    ELSE Given(cb, h)
    OBVIOUS
  <2> HIDE DEF id, add
  <2>1. all => received'[cb] = Given1(received[cb], id, add)
    BY <1>1
  <2>2. CASE received'[cb] = Given1(received[cb], id, add)
    BY <2>2, <1>6
  <2>3. CASE ~ all /\ received'[cb] = received[cb]
    <3>1. \A h \in Flows : Given(cb, h)' = Given(cb, h)
      BY <2>3 DEF Given
    <3>2. received[cb] \in [ConnIds -> Seq(AnyByte)]
      BY <1>2 DEF Histories
    <3> QED BY <2>3, <3>1, <3>2
  <2>4. CASE ~ all /\ received'[cb] = Given1(received[cb], id, NoBytes)
    <3>1. /\ received'[cb] \in [ConnIds -> Seq(AnyByte)]
          /\ \A h \in Flows : Given(cb, h)' =
               IF ConnId(h[1], h[2]) = id THEN Given(cb, h) \o NoBytes
               ELSE Given(cb, h)
      BY <2>4, <1>6
    <3>2. \A h \in Flows : Given(cb, h) \o NoBytes = Given(cb, h)
      BY <1>2, EmptyJoin
    <3>3. \A h \in Flows : Given(cb, h)' = Given(cb, h)
      BY <3>1, <3>2, Zenon
    <3> QED BY <2>4, <3>1, <3>3
  <2> QED BY <1>1, <2>1, <2>2, <2>3, <2>4
<1> HIDE DEF add, z1
<1>8. received' \in Histories
  <2>1. [cb \in 1 .. MaxCallbacks |-> received'[cb]] \in Histories
    BY <1>7 DEF Histories
  <2> QED BY <2>1, <1>1
<1>9. ASSUME NEW h \in Both \ Flows
      PROVE  BufferIn(connections', h) = NewBuffer
  <2>1. BufferIn(connections, h) = NewBuffer
    BY DEF DeliverySound
  <2> QED BY <2>1, <1>1
<1>10. /\ seen'[f] = T
       /\ \A h \in Flows : h # f => seen'[h] = seen[h]
  BY DEF TableSound
<1>11. ASSUME NEW h \in Flows, h # f, NEW cb \in 1 .. MaxCallbacks
       PROVE  Sound(BufferIn(connections', h), Given(cb, h)', h, seen'[h], all)
  <2> DEFINE c == BufferIn(connections', h)
             g == Given(cb, h)
  <2>1. c \in {BufferIn(connections, h), NewBuffer}
    BY <1>1, <1>11, FlowsInBoth
  <2>2. Sound(BufferIn(connections, h), g, h, seen[h], all)
    BY DEF DeliverySound
  <2>3. g \in Seq(AnyByte)
    BY <1>2
  <2> HIDE DEF c, g
  <2>4. Sound(c, g, h, seen[h], all)
    BY <2>1, <2>2, ForgottenSound
  <2>5. Sound(c, g \o add, h, seen[h], all)
    <3>1. PICK q \in Int : \E k \in Nat : add = Text(f, q, k)
      BY <1>5 DEF IsText
    <3>2. PICK k \in Nat : add = Text(f, q, k)
      BY <3>1
    <3> QED BY <1>11, <2>3, <2>4, <3>2, OtherSound
  <2>6. g' \in {g, g \o add}
    BY <1>7, Zenon DEF g
  <2>7. seen'[h] = seen[h]
    BY <1>10, <1>11
  <2>8. Sound(c, g', h, seen'[h], all)
    BY <2>4, <2>5, <2>6, <2>7, Zenon
  <2> QED BY <2>8 DEF c, g
<1>12. ASSUME NEW cb \in 1 .. MaxCallbacks
       PROVE  Sound(BufferIn(connections', f), Given(cb, f)', f, seen'[f], all)
  <2> DEFINE g == Given(cb, f)
  <2>1. /\ Sound(z1, g \o add, f, T, all)
        /\ Sound(z1, g, f, T, FALSE)
    BY <1>4 DEF Advanced, z1, add
  <2>2. \/ g' = g \o add
        \/ g' = g /\ ~ all
    BY <1>7, Zenon DEF g, id
  <2> HIDE DEF g
  <2>3. all \in {TRUE, FALSE}
    OBVIOUS
  <2>4. Sound(z1, g', f, T, all)
    BY <2>1, <2>2, <2>3, Zenon
  <2>5. BufferIn(connections', f) = z1 /\ seen'[f] = T
    BY <1>1, <1>10
  <2> QED BY <2>4, <2>5, Zenon DEF g
<1> QED BY <1>8, <1>9, <1>11, <1>12 DEF DeliverySound

LEMMA PacketSound ==
  ASSUME TableSound, Plain, NEW all \in BOOLEAN, DeliverySound(all),
         all => ~ MayRaise /\ callbacks = MaxCallbacks, Packet
  PROVE  DeliverySound(all)'
<1>1. ASSUME NEW f \in Flows
      PROVE  /\ BufferIn(connections, f) = BufferOf(f[1], f[2])
             /\ \A cb \in 1 .. MaxCallbacks :
                  /\ Given(cb, f) \in Seq(AnyByte)
                  /\ Sound(BufferIn(connections, f), Given(cb, f), f, seen[f], all)
  <2>1. BufferIn(connections, f) = BufferOf(f[1], f[2])
    BY Zenon DEF BufferIn, BufferOf
  <2>2. \A cb \in 1 .. MaxCallbacks : Given(cb, f) \in Seq(AnyByte)
    BY FlowId DEF DeliverySound, Histories, Given
  <2> QED BY <2>1, <2>2 DEF DeliverySound
<1>2. ASSUME NEW f \in Flows, Syn(f)
      PROVE  DeliverySound(all)'
  <2> DEFINE none == {}
  <2>1. /\ FeedPacket(f[1], f[2], 0, NoBytes, TRUE, FALSE)
        /\ seen[f] = none /\ seen' = seen
    BY <1>2 DEF Syn
  <2>2. seen' = [seen EXCEPT ![f] = none]
    BY <2>1 DEF TableSound
  <2>3. IsPacket(f, 0, NoBytes, TRUE, FALSE)
    BY SynIsPacket
  <2>4. ASSUME NEW cb \in 1 .. MaxCallbacks
        PROVE  Advanced(Feed(BufferIn(connections, f), 0, NoBytes, TRUE, FALSE),
                        Given(cb, f), f, none, all)
    <3> DEFINE b == BufferIn(connections, f)
               g == Given(cb, f)
    <3>1. g \in Seq(AnyByte) /\ Sound(b, g, f, {}, all)
      BY <1>1, <2>1
    <3> HIDE DEF b, g
    <3>2. Advanced(Feed(b, 0, NoBytes, TRUE, FALSE), g, f, {}, all)
      BY <3>1, SynAdvances
    <3> QED BY <3>2, Zenon DEF b, g
  <2> HIDE DEF none
  <2> QED BY <2>1, <2>2, <2>3, <2>4, PacketDelivers
<1>3. ASSUME NEW f \in Flows, NEW p \in 1 .. StreamLen + 1,
             NEW n \in 0 .. StreamLen, NEW fin \in BOOLEAN, Data(f, p, n, fin)
      PROVE  DeliverySound(all)'
  <2> DEFINE old == BufferIn(connections, f)
             T   == IF old.isn = None THEN seen[f] ELSE With(seen[f], p, n)
  <2>1. /\ p + n - 1 <= StreamLen /\ (fin => p + n - 1 = StreamLen)
        /\ FeedPacket(f[1], f[2], p, Text(f, p, n), FALSE, fin)
        /\ seen' = IF BufferOf(f[1], f[2]).isn = None THEN seen
                   ELSE [seen EXCEPT ![f] = @ \cup p .. p + n - 1]
    BY <1>3 DEF Data
  <2>2. seen' = [seen EXCEPT ![f] = T]
    <3>1. old = BufferOf(f[1], f[2])
      BY <1>1
    <3> HIDE DEF old
    <3> QED BY <2>1, <3>1 DEF TableSound, With
  <2>3. IsPacket(f, p, Text(f, p, n), FALSE, fin)
    BY <2>1, DataIsPacket
  <2>4. ASSUME NEW cb \in 1 .. MaxCallbacks
        PROVE  Advanced(Feed(BufferIn(connections, f), p, Text(f, p, n), FALSE, fin),
                        Given(cb, f), f, T, all)
    <3> DEFINE g == Given(cb, f)
               S == seen[f]
    <3>1. g \in Seq(AnyByte) /\ Sound(old, g, f, S, all)
      BY <1>1
    <3> HIDE DEF old, g, S
    <3>2. Advanced(Feed(old, p, Text(f, p, n), FALSE, fin), g, f,
                   IF old.isn = None THEN S ELSE With(S, p, n), all)
      BY <2>1, <3>1, DataAdvances
    <3> QED BY <3>2, Zenon DEF old, g, S
  <2> HIDE DEF T
  <2> QED BY <2>1, <2>2, <2>3, <2>4, PacketDelivers
<1> QED BY <1>2, <1>3 DEF Packet

LEMMA QuietSound ==
  ASSUME NEW all \in BOOLEAN, DeliverySound(all),
         UNCHANGED <<connections, received, seen>>
  PROVE  DeliverySound(all)'
<1>1. \A f \in Flows, cb \in 1 .. MaxCallbacks :
        BufferIn(connections', f) = BufferIn(connections, f)
          /\ Given(cb, f)' = Given(cb, f) /\ seen'[f] = seen[f]
  BY DEF Given
<1>2. \A h \in Both \ Flows : BufferIn(connections', h) = NewBuffer
  BY DEF DeliverySound
<1>3. received' \in Histories
  BY DEF DeliverySound
<1>4. \A f \in Flows, cb \in 1 .. MaxCallbacks :
        Sound(BufferIn(connections', f), Given(cb, f)', f, seen'[f], all)
  BY <1>1, Zenon DEF DeliverySound
<1> QED BY <1>2, <1>3, <1>4 DEF DeliverySound

(* Any callbacks: late ones, and ones that raise.                          *)
LEMMA DeliveryInvariant ==
  ASSUME Plain
  PROVE  Spec => [](TableSound /\ DeliverySound(FALSE))
<1>1. Init => TableSound /\ DeliverySound(FALSE)
  BY TableSoundInit, DeliverySoundInit
<1>2. TableSound /\ DeliverySound(FALSE) /\ [Next]_vars
        => (TableSound /\ DeliverySound(FALSE))'
  <2> SUFFICES ASSUME TableSound, DeliverySound(FALSE), [Next]_vars
               PROVE  (TableSound /\ DeliverySound(FALSE))'
    OBVIOUS
  <2>1. TableSound'
    BY TableSoundNext
  <2>2. CASE Packet
    BY <2>1, <2>2, PacketSound
  <2>3. CASE OnData \/ UNCHANGED vars
    BY <2>1, <2>3, QuietSound DEF OnData, vars
  <2> QED BY <2>2, <2>3 DEF Next
<1> QED BY <1>1, <1>2, PTL DEF Spec

(* Callbacks registered before the first packet that never raise.          *)
LEMMA SubscribedInvariant ==
  ASSUME Plain, ~ MayRaise
  PROVE  SubscribedSpec => [](TableSound /\ DeliverySound(TRUE))
<1>1. Init => TableSound /\ DeliverySound(TRUE)
  BY TableSoundInit, DeliverySoundInit
<1>2. TableSound /\ DeliverySound(TRUE) /\ [SubscribedNext]_vars
        => (TableSound /\ DeliverySound(TRUE))'
  <2> SUFFICES ASSUME TableSound, DeliverySound(TRUE), [SubscribedNext]_vars
               PROVE  (TableSound /\ DeliverySound(TRUE))'
    OBVIOUS
  <2>1. [Next]_vars
    BY DEF SubscribedNext, EarlyOnData, Next
  <2>2. TableSound'
    BY <2>1, TableSoundNext
  <2>3. CASE callbacks = MaxCallbacks /\ Packet
    BY <2>2, <2>3, PacketSound
  <2>4. CASE EarlyOnData \/ UNCHANGED vars
    BY <2>2, <2>4, QuietSound DEF EarlyOnData, OnData, vars
  <2> QED BY <2>3, <2>4 DEF SubscribedNext
<1> QED BY <1>1, <1>2, PTL DEF SubscribedSpec
-----------------------------------------------------------------------------
(* Late subscribers and callbacks that raise may miss bytes, but feed      *)
(* never gives them a byte of a flow again or out of order.                *)
THEOREM NothingGivenAgain ==
  ASSUME Plain
  PROVE  Spec => []NeverGivenAgain
<1>1. TableSound /\ DeliverySound(FALSE) => NeverGivenAgain
  <2> SUFFICES ASSUME TableSound, DeliverySound(FALSE),
                      NEW cb \in 1 .. callbacks, NEW f \in Flows
               PROVE  Increasing(Given(cb, f), f)
    BY Zenon DEF NeverGivenAgain, Increasing
  <2>1. cb \in 1 .. MaxCallbacks
    BY ReassemblerAssumption DEF TableSound
  <2> QED BY <2>1 DEF DeliverySound, Sound
<1> QED BY <1>1, DeliveryInvariant, PTL

(* A callback registered before the first packet gets the bytes 1, 2, ...  *)
(* of every flow, in order and each once.                                  *)
THEOREM SubscriberInOrder ==
  ASSUME Plain, ~ MayRaise
  PROVE  SubscribedSpec => []SubscriberGetsPrefix
<1>1. TableSound /\ DeliverySound(TRUE) => SubscriberGetsPrefix
  <2> SUFFICES ASSUME TableSound, DeliverySound(TRUE),
                      NEW cb \in 1 .. callbacks, NEW f \in Flows,
                      NEW i \in At(Given(cb, f), f)
               PROVE  {Given(cb, f)[j][3] : j \in {k \in At(Given(cb, f), f) : k < i}}
                        = 1 .. Given(cb, f)[i][3] - 1
    BY DEF SubscriberGetsPrefix
  <2> DEFINE g == Given(cb, f)
  <2>1. cb \in 1 .. MaxCallbacks
    BY ReassemblerAssumption DEF TableSound
  <2>2. Sound(BufferIn(connections, f), g, f, seen[f], TRUE)
    BY <2>1 DEF DeliverySound
  <2>3. At(g, f) \subseteq Nat
    <3>1. g \in Seq(AnyByte)
      BY <2>1, FlowId DEF DeliverySound, Histories, Given
    <3> HIDE DEF g
    <3>2. DOMAIN g = 1 .. Len(g) /\ Len(g) \in Nat
      BY <3>1, LenProperties
    <3> QED BY <3>2 DEF At
  <2> HIDE DEF g
  <2>4. PICK m \in 0 .. StreamLen : Positions(g, f) = 1 .. m
    BY <2>2 DEF Sound, Prefix
  <2>5. \A j \in At(g, f) : g[j][3] \in 1 .. m
    BY <2>4 DEF Positions
  <2>6. \A q \in 1 .. m : \E j \in At(g, f) : g[j][3] = q
    BY <2>4 DEF Positions
  <2>7. \A j, k \in At(g, f) : j < k => g[j][3] < g[k][3]
    BY <2>2 DEF Sound, Increasing
  <2>8. i \in At(g, f) /\ g[i][3] \in 1 .. m
    BY <2>5 DEF g
  <2>9. ASSUME NEW j \in At(g, f), j < i
        PROVE  g[j][3] \in 1 .. g[i][3] - 1
    BY <2>5, <2>7, <2>8, <2>9
  <2>10. ASSUME NEW q \in 1 .. g[i][3] - 1
         PROVE  \E j \in {k \in At(g, f) : k < i} : g[j][3] = q
    <3>1. q \in 1 .. m /\ q < g[i][3]
      BY <2>8
    <3>2. PICK j \in At(g, f) : g[j][3] = q
      BY <2>6, <3>1
    <3>3. j # i /\ ~ (i < j)
      BY <2>7, <2>8, <3>1, <3>2
    <3>4. j < i
      BY <2>3, <2>8, <3>3
    <3> QED BY <3>2, <3>4
  <2>11. {g[j][3] : j \in {k \in At(g, f) : k < i}} = 1 .. g[i][3] - 1
    BY <2>9, <2>10
  <2> QED BY <2>11 DEF g
<1> QED BY <1>1, SubscribedInvariant, PTL

LEMMA LiveFields ==
  ASSUME NEW f, NEW next \in 1 .. StreamLen + 1, NEW D \in SUBSET Beyond(next),
         NEW fin \in BOOLEAN
  PROVE  /\ DOMAIN Live(f, next, 0, D, fin).segments = D
         /\ Live(f, next, 0, D, fin).contiguous = NoBytes
         /\ IsComplete(Live(f, next, 0, D, fin)) => next = StreamLen + 1 /\ D = {}
<1> DEFINE b == Live(f, next, 0, D, fin)
<1>1. /\ b.isn = 0 /\ b.next_seq = next
      /\ b.fin_seq = IF fin THEN StreamLen + 1 ELSE None
      /\ b.contiguous = Text(f, next - 0, 0)
      /\ b.segments = [p \in D |-> Byte(f, p)]
  BY DEF Live
<1> HIDE DEF b
<1>2. next - 0 \in Int
  BY ReassemblerAssumption
<1>3. b.contiguous = NoBytes
  BY <1>1, <1>2, TextEmpty
<1>4. DOMAIN b.segments = D
  BY <1>1
<1>5. IsComplete(b) => next = StreamLen + 1 /\ D = {}
  BY <1>1, <1>4, ReassemblerAssumption DEF IsComplete, None
<1> QED BY <1>3, <1>4, <1>5 DEF b

(* Every captured byte of a flow whose buffer knows its SYN was given to   *)
(* the subscribers or is held beyond a real gap.                           *)
THEOREM NothingWithheld ==
  ASSUME Plain, ~ MayRaise
  PROVE  SubscribedSpec => []GivenOrHeld
<1>1. TableSound /\ DeliverySound(TRUE) => GivenOrHeld
  <2> SUFFICES ASSUME TableSound, DeliverySound(TRUE),
                      NEW cb \in 1 .. callbacks, NEW f \in Flows,
                      BufferOf(f[1], f[2]).isn # None
               PROVE  /\ seen[f] = Positions(Given(cb, f), f)
                           \cup DOMAIN BufferOf(f[1], f[2]).segments
                      /\ \E p \in 1 .. StreamLen + 1 :
                           Positions(Given(cb, f), f) = 1 .. p - 1 /\ p \notin seen[f]
    BY Zenon DEF GivenOrHeld
  <2> DEFINE b == BufferOf(f[1], f[2])
             g == Given(cb, f)
  <2>1. cb \in 1 .. MaxCallbacks
    BY ReassemblerAssumption DEF TableSound
  <2>2. BufferIn(connections, f) = b
    BY Zenon DEF BufferIn, BufferOf
  <2>3. Sound(b, g, f, seen[f], TRUE)
    <3> HIDE DEF b
    <3> QED BY <2>1, <2>2 DEF DeliverySound
  <2>4. b.isn # None
    OBVIOUS
  <2> HIDE DEF b, g
  <2>5. b # NewBuffer
    BY <2>4 DEF NewBuffer
  <2>6. PICK next \in 1 .. StreamLen + 1 : \E D \in SUBSET Beyond(next) :
          \E fin \in BOOLEAN :
            b = Live(f, next, 0, D, fin) /\ InStep(g, f, seen[f], next, D, TRUE)
    BY <2>3, <2>5 DEF Sound
  <2>7. PICK D \in SUBSET Beyond(next) : \E fin \in BOOLEAN :
            b = Live(f, next, 0, D, fin) /\ InStep(g, f, seen[f], next, D, TRUE)
    BY <2>6
  <2>8. PICK fin \in BOOLEAN :
            b = Live(f, next, 0, D, fin) /\ InStep(g, f, seen[f], next, D, TRUE)
    BY <2>7
  <2>9. DOMAIN b.segments = D
    BY <2>8, LiveFields
  <2>10. Positions(g, f) = 1 .. next - 1 /\ seen[f] = (1 .. next - 1) \cup D
    BY <2>8 DEF InStep, Captured
  <2>11. next \notin seen[f]
    BY <2>10, ReassemblerAssumption DEF Beyond
  <2> QED BY <2>9, <2>10, <2>11 DEF b, g
<1> QED BY <1>1, SubscribedInvariant, PTL

(* A complete buffer in the table gave all bytes of its flow, which is one *)
(* that was captured.                                                      *)
LEMMA CompleteDelivered ==
  ASSUME TableSound, DeliverySound(TRUE), NEW h \in Both, NEW cb \in 1 .. MaxCallbacks,
         NEW b, b = BufferIn(connections, h), IsComplete(b)
  PROVE  /\ b.contiguous = NoBytes /\ DOMAIN b.segments = {}
         /\ Positions(Given(cb, h), h) = 1 .. StreamLen
<1>1. b # NewBuffer
  BY DEF IsComplete, NewBuffer
<1>2. h \in Flows
  BY <1>1 DEF DeliverySound
<1> DEFINE g == Given(cb, h)
<1>3. Sound(b, g, h, seen[h], TRUE)
  BY <1>2 DEF DeliverySound
<1> HIDE DEF g
<1>4. PICK next \in 1 .. StreamLen + 1 : \E D \in SUBSET Beyond(next) :
        \E fin \in BOOLEAN :
          b = Live(h, next, 0, D, fin) /\ InStep(g, h, seen[h], next, D, TRUE)
  BY <1>1, <1>3 DEF Sound
<1>5. PICK D \in SUBSET Beyond(next) : \E fin \in BOOLEAN :
          b = Live(h, next, 0, D, fin) /\ InStep(g, h, seen[h], next, D, TRUE)
  BY <1>4
<1>6. PICK fin \in BOOLEAN :
          b = Live(h, next, 0, D, fin) /\ InStep(g, h, seen[h], next, D, TRUE)
  BY <1>5
<1>7. b.contiguous = NoBytes /\ DOMAIN b.segments = D
  BY <1>6, LiveFields
<1>8. next = StreamLen + 1 /\ D = {}
  <2>1. IsComplete(Live(h, next, 0, D, fin))
    BY <1>6
  <2> QED BY <2>1, LiveFields
<1>9. Positions(g, h) = 1 .. next - 1
  BY <1>6 DEF InStep
<1>10. next - 1 = StreamLen
  BY <1>8, ReassemblerAssumption
<1> QED BY <1>7, <1>8, <1>9, <1>10 DEF g

(* The two buffers of a connection in the table.                           *)
LEMMA DirectionsIn ==
  ASSUME TableSound, NEW i \in Indices(connections),
         connections[i].id[1] # connections[i].id[2]
  PROVE  /\ connections[i].id \in Both /\ Reverse(connections[i].id) \in Both
         /\ BufferIn(connections, connections[i].id) = connections[i].c2s
         /\ BufferIn(connections, Reverse(connections[i].id)) = connections[i].s2c
<1> DEFINE c  == connections[i]
           id == c.id
           r  == Reverse(id)
<1>1. c \in Conns
  BY ElementOfSeq DEF TableSound, Indices
<1>2. id \in ConnIds
  BY <1>1, ConnParts
<1>3. id \in Both /\ r \in Both
  BY <1>2 DEF Both
<1>4. r = <<id[2], id[1]>> /\ r[1] = id[2] /\ r[2] = id[1]
  BY DEF Reverse
<1>5. Has(connections, id) /\ IndexOf(connections, id) = i
  BY UniqueIndex DEF TableSound
<1>6. id[1] \in Nat /\ id[2] \in Nat /\ id = <<id[1], id[2]>> /\ id[1] <= id[2]
  <2>1. PICK f \in Flows : id = ConnId(f[1], f[2])
    BY <1>2 DEF ConnIds
  <2>2. f[1] \in Nat /\ f[2] \in Nat
    BY ReassemblerAssumption
  <2> HIDE DEF id
  <2> QED BY <2>1, <2>2 DEF ConnId
<1>7. ConnId(id[1], id[2]) = id /\ ConnId(r[1], r[2]) = id
  <2> HIDE DEF id, r
  <2> QED BY <1>4, <1>6 DEF ConnId
<1>8. id[1] # id[2]
  OBVIOUS
<1>9. DirectionFrom(c, id[1]) = "c2s" /\ DirectionFrom(c, r[1]) = "s2c"
  BY <1>4, <1>8 DEF DirectionFrom
<1>10. BufferIn(connections, id) = c["c2s"] /\ BufferIn(connections, r) = c["s2c"]
  <2> HIDE DEF id, r
  <2>1. BufferIn(connections, id)
          = connections[i][DirectionFrom(connections[i], id[1])]
    BY <1>5, <1>7, Zenon DEF BufferIn
  <2>2. BufferIn(connections, r)
          = connections[i][DirectionFrom(connections[i], r[1])]
    BY <1>5, <1>7, Zenon DEF BufferIn
  <2> QED BY <2>1, <2>2, <1>9, Zenon DEF c
<1>11. c["c2s"] = c.c2s /\ c["s2c"] = c.s2c
  OBVIOUS
<1> QED BY <1>3, <1>10, <1>11, Zenon DEF c, id, r

(* A connection that is_closed calls closed has nothing left to give: both *)
(* flows went out completely to the subscribers.                           *)
THEOREM ClosedIsDelivered ==
  ASSUME Plain, ~ MayRaise
  PROVE  SubscribedSpec => []ClosedMeansDelivered
<1>1. TableSound /\ DeliverySound(TRUE) => ClosedMeansDelivered
  <2> SUFFICES ASSUME TableSound, DeliverySound(TRUE),
                      NEW i \in Indices(connections), NEW cb \in 1 .. callbacks,
                      IsClosed(connections[i])
               PROVE  /\ Drained(connections[i])
                      /\ \A f \in {connections[i].id,
                                   <<connections[i].id[2], connections[i].id[1]>>} :
                           Positions(Given(cb, f), f) = 1 .. StreamLen
    BY Zenon DEF ClosedMeansDelivered
  <2> DEFINE c  == connections[i]
             id == c.id
             r  == Reverse(id)
  <2>1. cb \in 1 .. MaxCallbacks
    BY ReassemblerAssumption DEF TableSound
  <2>2. c \in Conns
    BY ElementOfSeq DEF TableSound, Indices
  <2>3. IsComplete(c.c2s) /\ IsComplete(c.s2c)
    BY DEF IsClosed
  <2>4. id[1] # id[2]
    <3>1. ~ IsComplete(NewBuffer)
      BY DEF IsComplete, NewBuffer
    <3> HIDE DEF c
    <3> QED BY <2>2, <2>3, <3>1, ConnParts
  <2>5. /\ id \in Both /\ r \in Both
        /\ BufferIn(connections, id) = c.c2s
        /\ BufferIn(connections, r) = c.s2c
    BY <2>4, DirectionsIn
  <2> DEFINE x == c.c2s
             y == c.s2c
  <2>6. x = BufferIn(connections, id) /\ y = BufferIn(connections, r)
    BY <2>5
  <2>7. IsComplete(x) /\ IsComplete(y)
    BY <2>3
  <2>8. r = <<id[2], id[1]>>
    BY DEF Reverse
  <2> HIDE DEF r, x, y, id
  <2>9. /\ x.contiguous = NoBytes /\ DOMAIN x.segments = {}
        /\ Positions(Given(cb, id), id) = 1 .. StreamLen
    BY <2>1, <2>5, <2>6, <2>7, CompleteDelivered
  <2>10. /\ y.contiguous = NoBytes /\ DOMAIN y.segments = {}
         /\ Positions(Given(cb, r), r) = 1 .. StreamLen
    BY <2>1, <2>5, <2>6, <2>7, CompleteDelivered
  <2>11. Drained(c)
    BY <2>9, <2>10 DEF Drained, x, y
  <2> QED BY <2>8, <2>9, <2>10, <2>11 DEF c, id
<1> QED BY <1>1, SubscribedInvariant, PTL
==============================================================================
