----------------------- MODULE FlatBufferBuilderProofs -----------------------
(***************************************************************************)
(* Theorems about FlatBufferBuilder: for every schema, initial size and    *)
(* order of the calls, those included whose asserts fail.                  *)
(***************************************************************************)
EXTENDS FlatBufferBuilder, FiniteSetTheorems, SequenceTheorems, TLAPS

\* What is written stays where it is.
Keeps(a, b) ==
    /\ DOMAIN a.cells \subseteq DOMAIN b.cells
    /\ \A r \in DOMAIN a.cells : b.cells[r] = a.cells[r]

\* The types of a buffer, and that its cells are in it.
Typed(b) ==
    /\ b = [reserved |-> b.reserved, size |-> b.size, cells |-> b.cells,
            minalign |-> b.minalign, held |-> b.held, aborted |-> b.aborted]
    /\ b.reserved \in Nat /\ b.reserved % WordSize = 0 /\ b.size \in 0..b.reserved
    /\ b.minalign \in Alignments /\ b.held \in BOOLEAN /\ b.aborted \in BOOLEAN
    /\ b.cells = [r \in DOMAIN b.cells |-> b.cells[r]]
    /\ \A r \in DOMAIN b.cells :
          b.cells[r] \in Cell /\ r \in Nat /\ b.cells[r].size <= r /\ r <= b.size

\* b is a, with room made in front of it.
Roomier(a, b) ==
    /\ Typed(b) /\ b.cells = a.cells /\ a.size <= b.size /\ a.minalign <= b.minalign
    /\ b.held = a.held /\ (a.aborted => b.aborted)

\* b is a, with one cell more, right in front.
OneMore(a, b, c) ==
    /\ Typed(b) /\ Keeps(a, b) /\ a.minalign <= b.minalign
    /\ b.held = a.held /\ (a.aborted => b.aborted)
    /\ b.size - c.size >= a.size /\ b.size \notin DOMAIN a.cells
    /\ DOMAIN b.cells = DOMAIN a.cells \cup {b.size}
    /\ b.cells[b.size] = c

-----------------------------------------------------------------------------
(* The operators of the buffer.                                            *)

\* The padding for an alignment reaches it, and is none where it is reached.
LEMMA PadAligns ==
    ASSUME NEW n \in Int, NEW a \in Alignments
    PROVE  /\ PaddingBytes(n, a) \in 0..(a - 1)
           /\ (n + PaddingBytes(n, a)) % a = 0
           /\ n % a = 0 => PaddingBytes(n, a) = 0
<1>1. CASE a = 1
  BY <1>1 DEF PaddingBytes
<1>2. CASE a = 2
  BY <1>2 DEF PaddingBytes
<1>3. CASE a = 4
  BY <1>3 DEF PaddingBytes
<1>4. CASE a = 8
  BY <1>4 DEF PaddingBytes
<1>5. CASE a = 16
  BY <1>5 DEF PaddingBytes
<1> QED BY <1>1, <1>2, <1>3, <1>4, <1>5 DEF Alignments

\* Of two alignments the larger is a multiple of the smaller.
LEMMA AlignedFor ==
    ASSUME NEW n \in Int, NEW a \in Alignments, NEW less \in Alignments, less <= a, n % a = 0
    PROVE  n % less = 0
<1> USE DEF Alignments
<1>1. CASE a = 1
  BY <1>1
<1>2. CASE a = 2
  BY <1>2
<1>3. CASE a = 4
  BY <1>3
<1>4. CASE a = 8
  BY <1>4
<1>5. CASE a = 16
  BY <1>5
<1> QED BY <1>1, <1>2, <1>3, <1>4, <1>5

\* What make_space reserves is enough, in whole words.
LEMMA ReservedEnough ==
    ASSUME NEW n \in Nat, NEW len \in Nat, n % WordSize = 0
    PROVE  /\ Reallocated(n, len) \in Nat /\ Reallocated(n, len) >= n + len
           /\ Reallocated(n, len) % WordSize = 0
<1> DEFINE m == Greater(len, GrowthPolicy(n))
<1>1. m \in Int /\ m >= len
  BY DEF Greater, GrowthPolicy, WordSize
<1>2. Reallocated(n, len) = RoundUp(n + m)
  BY DEF Reallocated
<1> HIDE DEF m
<1>3. n + m \in Nat
  BY <1>1
<1>4. \A k \in Nat : RoundUp(k) \in Nat /\ RoundUp(k) >= k /\ RoundUp(k) % 8 = 0
  BY DEF RoundUp, WordSize
<1> QED BY <1>1, <1>2, <1>3, <1>4 DEF WordSize

\* Room in front of the buffer changes nothing in it.
LEMMA FillRoom ==
    ASSUME NEW b, Typed(b), NEW n \in Nat
    PROVE  Roomier(b, Fill(b, n)) /\ Fill(b, n).size = b.size + n
                                  /\ Fill(b, n).minalign = b.minalign
<1> DEFINE c == Fill(b, n)
           m == IF n > b.reserved - b.size THEN Reallocated(b.reserved, n) ELSE b.reserved
           x == b.aborted \/ b.size + n >= MaxBufferSize
<1>1. c = [reserved |-> m, size |-> b.size + n, cells |-> b.cells, minalign |-> b.minalign,
           held |-> b.held, aborted |-> x]
  <2>1. c = [b EXCEPT !.reserved = m, !.size = b.size + n, !.aborted = x]
    BY Zenon DEF Fill, MakeSpace
  <2> HIDE DEF c, m, x
  <2> QED BY <2>1 DEF Typed
<1>2. m \in Nat /\ m % WordSize = 0 /\ b.size + n <= m /\ b.size + n \in Nat
  BY ReservedEnough DEF Typed
<1>3. x \in BOOLEAN
  OBVIOUS
<1> HIDE DEF c, m, x
<1>4. /\ c.reserved = m /\ c.size = b.size + n /\ c.cells = b.cells
      /\ c.minalign = b.minalign /\ c.held = b.held /\ c.aborted = x
  BY <1>1
<1>5. Typed(c)
  <2>1. c = [reserved |-> c.reserved, size |-> c.size, cells |-> c.cells,
             minalign |-> c.minalign, held |-> c.held, aborted |-> c.aborted]
    BY <1>1
  <2> QED BY <1>2, <1>3, <1>4, <2>1 DEF Typed
<1>6. b.minalign <= b.minalign /\ b.size <= b.size + n
  BY DEF Typed, Alignments
<1>7. b.aborted => x
  BY DEF x
<1> QED BY <1>4, <1>5, <1>6, <1>7 DEF Roomier, c

\* ... nor does a larger alignment.
LEMMA RaiseRoom ==
    ASSUME NEW b, Typed(b), NEW a \in Alignments
    PROVE  LET c == [b EXCEPT !.minalign = Greater(@, a)]
           IN  Roomier(b, c) /\ c.size = b.size /\ c.minalign >= a
<1> DEFINE c == [b EXCEPT !.minalign = Greater(@, a)]
           g == Greater(b.minalign, a)
<1>1. c = [reserved |-> b.reserved, size |-> b.size, cells |-> b.cells, minalign |-> g,
           held |-> b.held, aborted |-> b.aborted]
  BY DEF Typed
<1>2. g \in Alignments /\ g >= a /\ g >= b.minalign
  BY DEF Greater, Typed, Alignments
<1> HIDE DEF c, g
<1>3. Typed(c)
  BY <1>1, <1>2 DEF Typed
<1> QED BY <1>1, <1>2, <1>3 DEF Roomier, c, Typed

\* Room may be made twice.
LEMMA RoomTrans ==
    ASSUME NEW a, NEW b, NEW c, Typed(a), Roomier(a, b), Roomier(b, c)
    PROVE  Roomier(a, c)
BY DEF Roomier, Typed, Alignments

\* No room need be made.
LEMMA RoomSelf ==
    ASSUME NEW a, Typed(a)
    PROVE  Roomier(a, a)
BY DEF Roomier, Typed, Alignments

\* Align.
LEMMA AlignRoom ==
    ASSUME NEW b, Typed(b), NEW a \in Alignments
    PROVE  /\ Roomier(b, Align(b, a)) /\ Align(b, a).minalign >= a
           /\ Align(b, a).size % a = 0 /\ Align(b, a).size < b.size + a
           /\ b.size % a = 0 => Align(b, a).size = b.size
<1> DEFINE c == [b EXCEPT !.minalign = Greater(@, a)]
           p == PaddingBytes(b.size, a)
<1>1. Roomier(b, c) /\ c.size = b.size /\ c.minalign >= a
  BY RaiseRoom
<1>2. b.size \in Nat /\ Typed(c)
  BY <1>1 DEF Typed, Roomier
<1>3. p \in 0..(a - 1) /\ (b.size + p) % a = 0 /\ (b.size % a = 0 => p = 0)
  BY <1>2, PadAligns
<1>4. a \in Nat
  BY DEF Alignments
<1>5. Align(b, a) = Fill(c, p)
  BY DEF Align
<1> HIDE DEF c, p
<1>6. Roomier(c, Fill(c, p)) /\ Fill(c, p).size = c.size + p /\ Fill(c, p).minalign = c.minalign
  BY <1>2, <1>3, <1>4, FillRoom
<1>7. Roomier(b, Fill(c, p))
  BY <1>1, <1>6, RoomTrans
<1> QED BY <1>1, <1>2, <1>3, <1>4, <1>5, <1>6, <1>7

\* PreAlign, for what is to be written next.
LEMMA PreAlignRoom ==
    ASSUME NEW b, Typed(b), NEW len \in Nat, NEW a \in Nat \ {0}
    PROVE  /\ Roomier(b, PreAlign(b, len, a)) /\ PreAlign(b, len, a).minalign = b.minalign
           /\ a \in Alignments =>
                 /\ (PreAlign(b, len, a).size + len) % a = 0
                 /\ PreAlign(b, len, a).size < b.size + a
                 /\ (b.size + len) % a = 0 => PreAlign(b, len, a).size = b.size
<1> DEFINE p == PaddingBytes(b.size + len, a)
<1>1. b.size \in Nat /\ b.size + len \in Int
  BY DEF Typed
<1>2. p \in Nat
  BY <1>1 DEF PaddingBytes
<1>3. a \in Alignments =>
         /\ p \in 0..(a - 1) /\ (b.size + len + p) % a = 0
         /\ (b.size + len) % a = 0 => p = 0
  BY <1>1, PadAligns
<1>4. PreAlign(b, len, a) = Fill(b, p)
  BY DEF PreAlign
<1> HIDE DEF p
<1>5. /\ Roomier(b, Fill(b, p)) /\ Fill(b, p).size = b.size + p
      /\ Fill(b, p).minalign = b.minalign
  BY <1>2, FillRoom
<1>6. b.size + p + len = b.size + len + p
  BY <1>1, <1>2
<1> QED BY <1>1, <1>2, <1>3, <1>4, <1>5, <1>6

\* A cell is put right in front.
LEMMA PushOne ==
    ASSUME NEW b, Typed(b), NEW c \in Cell
    PROVE  OneMore(b, Push(b, c), c) /\ Push(b, c).size = b.size + c.size
                                     /\ Push(b, c).minalign = b.minalign
<1> DEFINE n == Fill(b, c.size)
           d == Push(b, c)
           f == [r \in DOMAIN b.cells \cup {n.size} |-> IF r = n.size THEN c ELSE b.cells[r]]
<1>1. c.size \in Nat \ {0}
  BY DEF Cell
<1>2. Roomier(b, n) /\ n.size = b.size + c.size /\ n.minalign = b.minalign
  BY <1>1, FillRoom
<1>3. d = [n EXCEPT !.cells = f]
  BY <1>1 DEF Push, Fill
<1>4. Typed(n) /\ b.size \in Nat
  BY <1>2 DEF Roomier, Typed
<1>5. /\ DOMAIN f = DOMAIN b.cells \cup {n.size} /\ f[n.size] = c
      /\ \A r \in DOMAIN b.cells : r # n.size => f[r] = b.cells[r]
      /\ f = [r \in DOMAIN f |-> f[r]]
  OBVIOUS
<1>6. n.size \notin DOMAIN b.cells
  BY <1>1, <1>2, <1>4 DEF Typed
<1> HIDE DEF n, f, d
<1>7. d = [reserved |-> n.reserved, size |-> n.size, cells |-> f, minalign |-> n.minalign,
           held |-> n.held, aborted |-> n.aborted]
  BY <1>3, <1>4 DEF Typed
<1>8. Typed(d)
  <2>1. /\ d.reserved = n.reserved /\ d.size = n.size /\ d.cells = f
        /\ d.minalign = n.minalign /\ d.held = n.held /\ d.aborted = n.aborted
    BY <1>7
  <2>2. d = [reserved |-> d.reserved, size |-> d.size, cells |-> d.cells,
             minalign |-> d.minalign, held |-> d.held, aborted |-> d.aborted]
    BY <1>7
  <2>3. ASSUME NEW r \in DOMAIN f PROVE f[r] \in Cell /\ r \in Nat /\ f[r].size <= r /\ r <= n.size
    <3>1. CASE r = n.size
      BY <1>1, <1>2, <1>4, <1>5, <3>1
    <3>2. CASE r # n.size
      BY <1>1, <1>2, <1>4, <1>5, <3>2 DEF Typed
    <3> QED BY <3>1, <3>2
  <2>4. d.cells = [r \in DOMAIN d.cells |-> d.cells[r]]
    BY <1>5, <2>1
  <2> QED BY <1>4, <2>1, <2>2, <2>3, <2>4 DEF Typed
<1>9. /\ d.size = b.size + c.size /\ d.minalign = b.minalign /\ d.cells = f
      /\ d.held = b.held /\ (b.aborted => d.aborted)
  BY <1>2, <1>7 DEF Roomier
<1>10. Keeps(b, d)
  BY <1>5, <1>6, <1>9 DEF Keeps
<1>11. d.size - c.size >= b.size /\ b.minalign <= d.minalign
  BY <1>1, <1>4, <1>9 DEF Typed, Alignments
<1>12. d.size = n.size
  BY <1>2, <1>9
<1>13. OneMore(b, d, c)
  BY <1>5, <1>6, <1>8, <1>9, <1>10, <1>11, <1>12 DEF OneMore
<1> QED BY <1>9, <1>13 DEF d

\* Room may be made before.
LEMMA RoomOne ==
    ASSUME NEW a, NEW b, NEW d, NEW c, Typed(a), c.size \in Nat, Roomier(a, b), OneMore(b, d, c)
    PROVE  OneMore(a, d, c)
<1>1. Typed(b) /\ Typed(d)
  BY DEF Roomier, OneMore
<1>2. d.size - c.size >= a.size
  BY <1>1 DEF Roomier, OneMore, Typed
<1>3. a.minalign <= d.minalign
  BY <1>1 DEF Roomier, OneMore, Typed, Alignments
<1> QED BY <1>1, <1>2, <1>3 DEF Roomier, OneMore, Keeps

\* PushElement.
LEMMA ElementOne ==
    ASSUME NEW b, Typed(b), NEW a \in Alignments, NEW kind \in CellKinds, NEW v \in Int
    PROVE  LET d == PushElement(b, a, kind, v)
           IN  /\ OneMore(b, d, MkCell(a, a, kind, <<v>>))
               /\ d.minalign >= a /\ d.size % a = 0 /\ d.size < b.size + 2 * a
               /\ b.size % a = 0 => d.size = b.size + a
<1> DEFINE n == Align(b, a)
           c == MkCell(a, a, kind, <<v>>)
           d == Push(n, c)
<1>1. /\ Roomier(b, n) /\ n.minalign >= a /\ n.size % a = 0 /\ n.size < b.size + a
      /\ b.size % a = 0 => n.size = b.size
  BY AlignRoom
<1>2. a \in Nat \ {0}
  BY DEF Alignments
<1>3. c \in Cell /\ c.size = a
  BY <1>2 DEF Cell, MkCell
<1>4. Typed(n) /\ n.size \in Nat /\ b.size \in Nat
  BY <1>1 DEF Roomier, Typed
<1> HIDE DEF n, c
<1>5. OneMore(n, d, c) /\ d.size = n.size + a /\ d.minalign = n.minalign
  BY <1>3, <1>4, PushOne
<1>6. OneMore(b, d, c)
  BY <1>1, <1>2, <1>3, <1>5, RoomOne
<1>7. d.size % a = 0
  <2> HIDE DEF d
  <2>1. (n.size + a) % a = 0
    <3>1. \A k \in Nat : k % a = 0 => (k + a) % a = 0
      BY DEF Alignments
    <3> QED BY <1>1, <1>4, <3>1
  <2> QED BY <1>5, <2>1
<1>8. d.size < b.size + 2 * a /\ (b.size % a = 0 => d.size = b.size + a)
  <2> HIDE DEF d
  <2> QED BY <1>1, <1>2, <1>4, <1>5
<1>9. d = PushElement(b, a, kind, v)
  BY DEF d, n, c, PushElement
<1> HIDE DEF d
<1>10. d.minalign >= a
  BY <1>1, <1>5
<1> QED BY <1>6, <1>7, <1>8, <1>9, <1>10 DEF c

\* PushElement of an offset: it is told from where it is stored.
LEMMA OffsetOne ==
    ASSUME NEW b, Typed(b), NEW off \in DOMAIN b.cells
    PROVE  LET d == PushOffset(b, off)
           IN  /\ OneMore(b, d, MkCell(4, 4, "uoffset", <<d.size - off>>))
               /\ d.minalign >= 4 /\ d.size % 4 = 0 /\ d.size < b.size + 8
               /\ b.size % 4 = 0 => d.size = b.size + 4
<1> DEFINE n == Align(b, 4)
           v == n.size - off + 4
           d == PushElement(n, 4, "uoffset", v)
<1>1. 4 \in Alignments
  BY DEF Alignments
<1>2. /\ Roomier(b, n) /\ n.minalign >= 4 /\ n.size % 4 = 0 /\ n.size < b.size + 4
      /\ b.size % 4 = 0 => n.size = b.size
  BY <1>1, AlignRoom
<1>3. /\ Typed(n) /\ n.size \in Nat /\ b.size \in Nat /\ off \in 1..b.size
      /\ off \in 1..n.size
  BY <1>2 DEF Roomier, Typed, Cell
<1>4. v \in Int
  BY <1>3
<1> HIDE DEF n
<1>5. /\ OneMore(n, d, MkCell(4, 4, "uoffset", <<v>>)) /\ d.minalign >= 4
      /\ d.size % 4 = 0 /\ d.size = n.size + 4
  <2>1. "uoffset" \in CellKinds
    BY DEF CellKinds
  <2> HIDE DEF d, v
  <2> QED BY <1>1, <1>2, <1>3, <1>4, <2>1, ElementOne DEF d
<1>6. OneMore(b, d, MkCell(4, 4, "uoffset", <<v>>))
  BY <1>2, <1>5, RoomOne DEF MkCell
<1>7. PushOffset(b, off) = d
  BY <1>3 DEF PushOffset, n
<1>8. d.size - off = v
  <2> HIDE DEF d
  <2> QED BY <1>3, <1>5
<1> HIDE DEF d
<1> QED BY <1>2, <1>3, <1>5, <1>6, <1>7, <1>8

\* b is a, with a vector more: a length, and right behind it the elements.
VectorMore(a, b, c, n) ==
    /\ Typed(b) /\ Keeps(a, b) /\ a.minalign <= b.minalign /\ 4 <= b.minalign
    /\ b.held = a.held /\ (a.aborted => b.aborted)
    /\ b.size - 4 - c.size >= a.size /\ b.size % 4 = 0
    /\ b.size \notin DOMAIN a.cells
    /\ DOMAIN b.cells = DOMAIN a.cells \cup {b.size}
                            \cup (IF c.size > 0 THEN {b.size - 4} ELSE {})
    /\ b.cells[b.size] = MkCell(4, 4, "length", <<n>>)
    /\ c.size > 0 => b.size - 4 \notin DOMAIN a.cells /\ b.cells[b.size - 4] = c

-----------------------------------------------------------------------------
(* The buffers of strings and vectors.                                     *)

\* What the types say of the sizes.
LEMMA Measures ==
    ASSUME NEW b, Typed(b)
    PROVE  /\ b.size \in Nat /\ b.minalign \in Alignments /\ b.minalign \in Nat \ {0}
           /\ b.held \in BOOLEAN /\ b.aborted \in BOOLEAN
BY DEF Typed, Alignments

\* ... and of the cells.
LEMMA CellsInside ==
    ASSUME NEW b, Typed(b), NEW r \in DOMAIN b.cells
    PROVE  /\ r \in 1..b.size /\ b.cells[r] \in Cell
           /\ b.cells[r].size \in Nat \ {0} /\ b.cells[r].size <= r
<1>1. b.cells[r] \in Cell /\ r \in Nat /\ b.cells[r].size <= r /\ r <= b.size
  BY DEF Typed
<1>2. b.cells[r].size \in Nat \ {0} /\ b.size \in Nat
  BY <1>1, Measures DEF Cell
<1> QED BY <1>1, <1>2

\* A vector that has been aligned for its length.
LEMMA VectorEnds ==
    ASSUME NEW a, Typed(a), NEW b, Roomier(a, b), NEW n \in Nat,
           NEW c, c.size \in Nat, c.size # 0 => c \in Cell, (b.size + c.size) % 4 = 0
    PROVE  LET d == EndVector(Push(b, c), n)
           IN  /\ VectorMore(a, d, c, n) /\ d.minalign >= b.minalign
               /\ d.size = b.size + c.size + 4
<1> DEFINE m == Push(b, c)
           l == MkCell(4, 4, "length", <<n>>)
           d == PushElement(m, 4, "length", n)
<1>1. EndVector(m, n) = d
  BY DEF EndVector
<1>2. /\ a.size \in Nat /\ Typed(b) /\ b.size \in Nat /\ b.size >= a.size
      /\ b.cells = a.cells /\ b.held = a.held /\ (a.aborted => b.aborted)
      /\ a.minalign <= b.minalign /\ a.minalign \in Int /\ b.minalign \in Int
  <2>1. Typed(b)
    BY DEF Roomier
  <2>2. a.size \in Nat /\ b.size \in Nat /\ a.minalign \in Int /\ b.minalign \in Int
    BY ONLY Typed(a), <2>1, Measures
  <2> QED BY <2>1, <2>2 DEF Roomier
<1>3. /\ Typed(m) /\ m.size = b.size + c.size /\ m.minalign = b.minalign
      /\ m.held = a.held /\ (a.aborted => m.aborted)
      /\ DOMAIN m.cells = DOMAIN a.cells \cup (IF c.size > 0 THEN {m.size} ELSE {})
      /\ (c.size > 0 => m.size \notin DOMAIN a.cells /\ m.cells[m.size] = c)
      /\ \A r \in DOMAIN a.cells : m.cells[r] = a.cells[r]
  <2>1. CASE c.size = 0
    <3>1. m = b
      BY <2>1 DEF Push
    <3>2. m.size = b.size + c.size /\ ~(c.size > 0)
      BY <1>2, <2>1, <3>1
    <3> QED BY <1>2, <3>1, <3>2
  <2>2. CASE c.size # 0
    <3>1. OneMore(b, m, c) /\ m.size = b.size + c.size /\ m.minalign = b.minalign
      BY <1>2, <2>2, PushOne
    <3> QED BY <1>2, <2>2, <3>1 DEF OneMore, Keeps
  <2> QED BY <2>1, <2>2
<1> HIDE DEF m
<1>4. 4 \in Alignments /\ "length" \in CellKinds
  BY DEF Alignments, CellKinds
<1>5. /\ OneMore(m, d, l) /\ d.minalign >= 4 /\ d.size % 4 = 0
      /\ (m.size % 4 = 0 => d.size = m.size + 4)
  BY <1>3, <1>4, ElementOne
<1> HIDE DEF d
<1>6. d.size = b.size + c.size + 4 /\ m.size = d.size - 4 /\ m.size \in Nat
  BY <1>2, <1>3, <1>5
<1>7. /\ Typed(d) /\ m.minalign <= d.minalign /\ d.held = m.held /\ (m.aborted => d.aborted)
      /\ d.size \notin DOMAIN m.cells /\ DOMAIN d.cells = DOMAIN m.cells \cup {d.size}
      /\ d.cells[d.size] = l /\ \A r \in DOMAIN m.cells : d.cells[r] = m.cells[r]
  BY <1>5 DEF OneMore, Keeps
<1>8. a.minalign <= d.minalign /\ d.minalign >= b.minalign /\ d.minalign \in Int
  <2>1. d.minalign \in Int
    BY <1>7, Measures
  <2>2. b.minalign <= d.minalign
    BY <1>3, <1>7
  <2> QED BY ONLY <1>2, <2>1, <2>2
<1>9. d.size - 4 - c.size >= a.size
  BY <1>2, <1>6
<1>11. Keeps(a, d)
  BY <1>3, <1>7 DEF Keeps
<1>12. c.size > 0 => d.size - 4 \notin DOMAIN a.cells /\ d.cells[d.size - 4] = c
  BY <1>3, <1>6, <1>7
<1>13. DOMAIN d.cells = DOMAIN a.cells \cup {d.size}
                            \cup (IF c.size > 0 THEN {d.size - 4} ELSE {})
  BY <1>3, <1>6, <1>7
<1>14. VectorMore(a, d, c, n)
  <2>1. d.size \notin DOMAIN a.cells
    BY <1>3, <1>7
  <2>2. d.held = a.held /\ (a.aborted => d.aborted)
    BY <1>3, <1>7
  <2> HIDE DEF l
  <2> QED BY <1>5, <1>7, <1>8, <1>9, <1>11, <1>12, <1>13, <2>1, <2>2 DEF VectorMore, l
<1> QED BY <1>1, <1>6, <1>8, <1>14 DEF m

\* StartVector aligns what is to be written for the length and for the elements.
LEMMA StartVectorRoom ==
    ASSUME NEW a, Typed(a), NEW b, Roomier(a, b), NEW e \in Alignments, NEW n \in Nat
    PROVE  LET d == PreAlign(PreAlign(b, n, 4), n, e)
           IN  /\ Roomier(a, d) /\ d.minalign = b.minalign
               /\ (d.size + n) % 4 = 0 /\ (d.size + n) % e = 0
<1> DEFINE m == PreAlign(b, n, 4)
           d == PreAlign(m, n, e)
<1>1. 4 \in Alignments /\ e \in Nat \ {0} /\ Typed(b)
  BY DEF Alignments, Roomier
<1>3. Roomier(b, m) /\ m.minalign = b.minalign /\ (m.size + n) % 4 = 0
  BY <1>1, PreAlignRoom
<1>4. Typed(m)
  BY <1>3 DEF Roomier
<1> HIDE DEF m
<1>5. /\ Roomier(m, d) /\ d.minalign = m.minalign /\ (d.size + n) % e = 0
      /\ (m.size + n) % e = 0 => d.size = m.size
  BY <1>1, <1>4, PreAlignRoom
<1> HIDE DEF d
<1>6. m.size + n \in Int /\ d.size + n \in Int
  BY <1>1, <1>4, <1>5 DEF Roomier, Typed
<1>7. (d.size + n) % 4 = 0
  <2>1. CASE e <= 4
    <3>1. (m.size + n) % e = 0
      BY <1>1, <1>3, <1>6, <2>1, AlignedFor
    <3> QED BY <1>3, <1>5, <3>1
  <2>2. CASE ~(e <= 4)
    <3>1. 4 <= e
      BY <1>1, <2>2
    <3> QED BY <1>1, <1>5, <1>6, <3>1, AlignedFor
  <2> QED BY <2>1, <2>2
<1>8. Roomier(a, d)
  <2>1. Roomier(b, d)
    BY <1>1, <1>3, <1>5, RoomTrans
  <2> QED BY <2>1, RoomTrans
<1> QED BY <1>3, <1>5, <1>7, <1>8 DEF d, m

\* A string, with its terminator.
StringCell(text) == MkCell(Len(text) + 1, 1, "string", text)

\* CreateString puts its bytes, with the NUL, behind their length.
LEMMA StringMade ==
    ASSUME NEW b, Typed(b), NEW text \in Seq(Int)
    PROVE  VectorMore(b, StringArena(b, text), StringCell(text), Len(text))
<1> DEFINE n == Len(text) + 1
           m == PreAlign(b, n, 4)
           c == StringCell(text)
<1>1. n \in Nat \ {0} /\ 4 \in Alignments /\ 4 \in Nat \ {0}
  BY DEF Alignments
<1>2. Roomier(b, m) /\ (m.size + n) % 4 = 0
  BY <1>1, PreAlignRoom
<1>3. c \in Cell /\ c.size = n
  BY <1>1 DEF StringCell, MkCell, Cell, CellKinds
<1>4. StringArena(b, text) = EndVector(Push(m, c), Len(text))
  BY DEF StringArena, EndVector, StringCell
<1> HIDE DEF m, c, n
<1>5. Len(text) \in Nat /\ (m.size + c.size) % 4 = 0 /\ c.size \in Nat
  BY <1>1, <1>2, <1>3
<1> QED BY <1>2, <1>3, <1>4, <1>5, VectorEnds DEF c

\* The buffer CreateVector leaves behind.
ScalarArena(b, size, n, elements) ==
    LET m == StartVector(b, n, size)
        k == IF n = 0 \/ size = 1 THEN m ELSE Align(m, size)
    IN  EndVector(Push(k, MkCell(n * size, size, "scalar", elements)), n)

\* CreateVector puts its elements aligned, behind their length.
LEMMA ScalarsMade ==
    ASSUME NEW b, Typed(b), NEW size \in {1, 2, 4, 8}, NEW n \in Nat,
           NEW elements \in Seq(Int)
    PROVE  LET d == ScalarArena(b, size, n, elements)
           IN  /\ VectorMore(b, d, MkCell(n * size, size, "scalar", elements), n)
               /\ n # 0 => d.minalign >= size /\ (d.size - 4) % size = 0
<1> DEFINE m == StartVector(b, n, size)
           k == IF n = 0 \/ size = 1 THEN m ELSE Align(m, size)
           l == n * size
           c == MkCell(l, size, "scalar", elements)
           d == EndVector(Push(k, c), n)
<1>1. size \in Alignments /\ l \in Nat /\ (n # 0 => l # 0) /\ size \in Nat \ {0}
  BY DEF Alignments
<1>2. Roomier(b, b)
  BY RoomSelf
<1>3. Roomier(b, m) /\ (m.size + l) % 4 = 0 /\ (m.size + l) % size = 0
  <2>1. m = PreAlign(PreAlign(b, l, 4), l, size)
    BY DEF StartVector
  <2> HIDE DEF l, m
  <2> QED BY <1>1, <1>2, <2>1, StartVectorRoom
<1>4. Typed(m) /\ m.size \in Nat /\ m.minalign \in Nat \ {0}
  BY <1>3 DEF Roomier, Typed, Alignments
<1>5. m.size % size = 0
  <2> HIDE DEF m
  <2>1. \A x \in Nat : (x + n * size) % size = 0 => x % size = 0
    <3>1. CASE size = 1
      BY <3>1
    <3>2. CASE size = 2
      BY <3>2
    <3>3. CASE size = 4
      BY <3>3
    <3>4. CASE size = 8
      BY <3>4
    <3> QED BY <3>1, <3>2, <3>3, <3>4
  <2> QED BY <1>3, <1>4, <2>1
<1>6. c.size = l /\ (c.size # 0 => c \in Cell)
  <2> HIDE DEF l
  <2> QED BY <1>1 DEF MkCell, Cell, CellKinds
<1>7. ScalarArena(b, size, n, elements) = d
  BY DEF ScalarArena
<1> HIDE DEF m
<1>8. Roomier(b, k) /\ k.size = m.size /\ (n # 0 => k.minalign >= size)
  <2>1. CASE n = 0 \/ size = 1
    BY <1>3, <1>4, <2>1
  <2>2. CASE ~(n = 0 \/ size = 1)
    <3>1. Roomier(m, Align(m, size)) /\ Align(m, size).minalign >= size
          /\ Align(m, size).size = m.size
      BY <1>1, <1>4, <1>5, AlignRoom
    <3> QED BY <1>3, <2>2, <3>1, RoomTrans
  <2> QED BY <2>1, <2>2
<1> HIDE DEF k, c, l
<1>9. /\ VectorMore(b, d, c, n) /\ d.minalign >= k.minalign /\ d.size = k.size + c.size + 4
  BY <1>1, <1>3, <1>6, <1>8, VectorEnds
<1>10. n # 0 => d.minalign >= size /\ (d.size - 4) % size = 0
  <2>1. d.minalign \in Int /\ k.minalign \in Int
    BY <1>8, <1>9 DEF VectorMore, Roomier, Typed, Alignments
  <2>2. d.size - 4 = m.size + l
    BY <1>1, <1>4, <1>6, <1>8, <1>9
  <2> QED BY <1>1, <1>3, <1>8, <1>9, <2>1, <2>2
<1> QED BY <1>7, <1>9, <1>10 DEF c, l

\* The run of offsets in front of which d has its length, to what is in offs.
OffsetsCell(d, offs) ==
    MkCell(4 * Len(offs), 4, "uoffset",
           [k \in 1..Len(offs) |-> d.size - 4 - 4 * (k - 1) - offs[k]])

\* CreateVector of offsets puts them behind their length.
LEMMA OffsetsMade ==
    ASSUME NEW b, Typed(b), NEW n \in Nat, NEW offs \in [1..n -> DOMAIN b.cells]
    PROVE  LET d == EndVector(PushOffsets(StartVector(b, n, 4), offs), n)
           IN  VectorMore(b, d, OffsetsCell(d, offs), n)
<1> DEFINE m == StartVector(b, n, 4)
           At(k) == m.size + 4 * (n - k + 1)
           q == [m EXCEPT !.minalign = Greater(@, IF n = 0 THEN 1 ELSE 4)]
           c == MkCell(4 * n, 4, "uoffset", [k \in 1..n |-> At(k) - offs[k]])
           d == EndVector(Push(q, c), n)
<1>1. Roomier(b, b) /\ 4 \in Alignments /\ 1 \in Alignments
  BY RoomSelf DEF Alignments
<1>2. Roomier(b, m) /\ (m.size + 4 * n) % 4 = 0
  <2> DEFINE l == n * 4
  <2>1. m = PreAlign(PreAlign(b, l, 4), l, 4) /\ l \in Nat
    BY DEF StartVector
  <2>2. l = 4 * n
    OBVIOUS
  <2> HIDE DEF l, m
  <2>3. 4 \in Alignments /\ l \in Nat /\ Roomier(b, b)
    BY <1>1, <2>1
  <2>4. Roomier(b, m) /\ (m.size + l) % 4 = 0
    BY <2>1, <2>3, StartVectorRoom
  <2> QED BY ONLY <2>2, <2>4
<1>3. Typed(m) /\ m.size \in Nat /\ b.size \in Nat /\ b.size <= m.size
  BY <1>2 DEF Roomier, Typed
<1>4. \A r \in DOMAIN b.cells : r \in 1..b.size
  BY DEF Typed, Cell
<1>5. \A k \in 1..n : offs[k] \in 1..b.size
  BY <1>4
<1>6. offs \in Seq(Nat) /\ Len(offs) = n
  <2>1. offs \in [1..n -> Nat]
    BY <1>4
  <2> QED BY <2>1
<1> HIDE DEF m
<1>7. /\ \A k \in 1..n : At(k) - offs[k] \in Int /\ offs[k] \in 1..(At(k) - 4)
      /\ [k \in 1..n |-> At(k) - offs[k]] \in Seq(Int)
  <2>1. \A k \in 1..n : At(k) - offs[k] \in Int /\ offs[k] \in 1..(At(k) - 4)
    BY <1>3, <1>5
  <2> HIDE DEF At
  <2> QED BY <2>1
<1>8. PushOffsets(m, offs) = Push(q, c)
  BY <1>6, <1>7 DEF PushOffsets
<1>9. c.size = 4 * n /\ (c.size # 0 => c \in Cell)
  <2> DEFINE val == [k \in 1..n |-> At(k) - offs[k]]
           l == 4 * n
  <2>1. val \in Seq(Int) /\ l \in Nat
    BY <1>7
  <2> HIDE DEF val, l
  <2>2. c = MkCell(l, 4, "uoffset", val)
    BY DEF c, val, l
  <2>3. c.size = l /\ (l # 0 => c \in Cell)
    BY <2>1, <2>2 DEF MkCell, Cell, CellKinds
  <2> QED BY <2>3 DEF l
<1> HIDE DEF c
<1>10. Roomier(b, q) /\ q.size = m.size
  <2> DEFINE a == IF n = 0 THEN 1 ELSE 4
  <2>1. a \in Alignments
    BY <1>1
  <2> HIDE DEF a
  <2>2. Roomier(m, q) /\ q.size = m.size
    BY <1>3, <2>1, RaiseRoom DEF a
  <2> HIDE DEF q
  <2> QED BY <1>2, <2>2, RoomTrans
<1> HIDE DEF q
<1>11. VectorMore(b, d, c, n) /\ d.size = q.size + c.size + 4
  <2>1. (q.size + c.size) % 4 = 0 /\ c.size \in Nat
    <3>1. c.size = 4 * n /\ q.size = m.size /\ (m.size + 4 * n) % 4 = 0
      BY <1>2, <1>9, <1>10
    <3>2. 4 * n \in Nat
      OBVIOUS
    <3> QED BY ONLY <3>1, <3>2
  <2> HIDE DEF d
  <2> QED BY <1>9, <1>10, <2>1, VectorEnds DEF d
<1> HIDE DEF d
<1>12. c = OffsetsCell(d, offs)
  <2>1. \A k \in 1..n : d.size - 4 - 4 * (k - 1) - offs[k] = At(k) - offs[k]
    <3>1. d.size = m.size + 4 * n + 4 /\ m.size \in Nat
      BY <1>3, <1>9, <1>10, <1>11
    <3>2. \A k \in 1..n : d.size - 4 - 4 * (k - 1) = At(k)
      BY ONLY <3>1, n \in Nat
    <3> QED BY <3>2
  <2> HIDE DEF At
  <2>2. [k \in 1..n |-> d.size - 4 - 4 * (k - 1) - offs[k]] = [k \in 1..n |-> At(k) - offs[k]]
    BY <2>1
  <2> QED BY <1>6, <2>2 DEF OffsetsCell, c
<1> QED BY <1>8, <1>11, <1>12 DEF d, m

\* A vector of bytes or structs: elements that are copied or left as they are.
LEMMA CopiedMade ==
    ASSUME NEW a, Typed(a), NEW b, Roomier(a, b), NEW len \in Nat, NEW e \in Alignments,
           NEW n \in Nat, NEW align \in Nat \ {0}, NEW kind \in CellKinds, NEW val \in Seq(Int)
    PROVE  LET c == MkCell(len * e, align, kind, val)
           IN  VectorMore(a, EndVector(Push(StartVector(b, len, e), c), n), c, n)
<1> DEFINE m == StartVector(b, len, e)
           l == len * e
           c == MkCell(l, align, kind, val)
<1>1. l \in Nat
  BY DEF Alignments
<1>2. Roomier(a, m) /\ (m.size + l) % 4 = 0
  <2>1. m = PreAlign(PreAlign(b, l, 4), l, e)
    BY DEF StartVector
  <2> HIDE DEF l, m
  <2> QED BY <1>1, <2>1, StartVectorRoom
<1> HIDE DEF m, l
<1>3. c.size = l /\ (c.size # 0 => c \in Cell)
  BY <1>1 DEF MkCell, Cell
<1> HIDE DEF c
<1>4. VectorMore(a, EndVector(Push(m, c), n), c, n)
  BY <1>1, <1>2, <1>3, VectorEnds
<1> QED BY <1>4 DEF c, m, l

-----------------------------------------------------------------------------
(* The inductive invariant.                                                *)

\* A cell is aligned as far as minalign_ knows, but what is copied into vectors.
LooseIn(b, r) ==
    /\ b.cells[r].kind \in {"struct", "bytes"}
    /\ r + 4 \in DOMAIN b.cells /\ b.cells[r + 4].kind = "length"
Even(b, r) ==
    /\ b.cells[r].align \in Alignments /\ b.cells[r].align <= b.minalign
    /\ r % b.cells[r].align = 0
Placed(b) == \A r \in DOMAIN b.cells : LooseIn(b, r) \/ Even(b, r)

\* Every soffset leads to a vtable with the places of the fields.
FieldsAt(b, r) ==
    LET entries == Entries(b, r)
        size    == b.cells[VtableOf(b, r)].val[2]
    IN  \A i \in Present(entries) :
            /\ r - entries[i] \in DOMAIN b.cells
            /\ entries[i] >= 4
            /\ entries[i] + b.cells[r - entries[i]].size <= size
            /\ \A j \in Present(entries) : entries[i] = entries[j] => i = j
TableSound(b, r) == IsTable(b, r) /\ FieldsAt(b, r) /\ b.cells[r].align = 4
TablesSound(b) ==
    \A r \in DOMAIN b.cells : b.cells[r].kind = "soffset" => TableSound(b, r)

VtableCells(b) == {r \in DOMAIN b.cells : b.cells[r].kind = "vtable"}
Listed(b, list) == {list[k] : k \in DOMAIN list} = VtableCells(b)
Different(b, list) ==
    \A j, k \in DOMAIN list : b.cells[list[j]].val = b.cells[list[k]].val => j = k

PoolSound(b, pool) ==
    /\ \A o \in pool :
          /\ {o, o - 4} \subseteq DOMAIN b.cells
          /\ b.cells[o].kind = "length" /\ b.cells[o - 4].kind = "string"
    /\ \A o, p \in pool : CStr(TextAt(b, o)) = CStr(TextAt(b, p)) => o = p

\* The fields added so far lie behind the start of the table, each on its own.
DraftIn(b, draft, locs) ==
    /\ draft.fields \in Seq(FieldTypes) /\ draft.start \in Nat /\ draft.start <= b.size
    /\ \A k \in DOMAIN locs :
          /\ locs[k].id \in DOMAIN draft.fields /\ locs[k].off \in DOMAIN b.cells
          /\ locs[k].off - b.cells[locs[k].off].size >= draft.start
    /\ \A j, k \in DOMAIN locs : locs[j].off = locs[k].off => j = k

\* A table that has been built last ends the buffer, or its vtable does.
TopIn(b) ==
    \A root \in Roots(b) : (\A r \in Places(b) : r <= root) =>
        b.size = Greater(root, VtableOf(b, root))

NoPrefix(b) == \A r \in DOMAIN b.cells : b.cells[r].kind # "prefix"

\* What finishing leaves: everything aligned from the end, the prefix in front,
\* and in front of what was there the first word that counts to the root.
EvenFromFront(b) ==
    \A r \in DOMAIN b.cells : LooseIn(b, r) \/ (b.size - r) % b.cells[r].align = 0
Counted(b) ==
    \A r \in DOMAIN b.cells :
        b.cells[r].kind = "prefix" => b.cells[r].val[1] = b.size - 4 /\ r = b.size
RootIn(b) == IF b.cells[b.size].kind = "prefix" THEN b.size - 4 ELSE b.size
WordIn(b, r) ==
    IF r \in DOMAIN b.cells /\ b.cells[r].kind \in {"uoffset", "prefix"}
    THEN b.cells[r].val[1] ELSE 0
FoundIn(b) ==
    LET root  == Target(b, RootIn(b), 1)
        from  == Greater(root, VtableOf(b, root))
        At(k) == from + ((-from) % 4) + 4 * k
    IN  (\A r \in Places(b) : r <= root) =>
            \E m \in 1..5 : /\ At(m) = RootIn(b) /\ WordIn(b, At(m)) = At(m) - root
                            /\ \A k \in 1..5 : k < m => WordIn(b, At(k)) # At(k) - root
Complete(b) == EvenFromFront(b) /\ Counted(b) /\ FoundIn(b)

BuildInv ==
    /\ Typed(buf) /\ Placed(buf) /\ TablesSound(buf)
    /\ vtables \in Seq(Nat) /\ (buf.held => Listed(buf, vtables))
    /\ (\A f \in FlagChoices : f.dedup) =>
          dedupVtables /\ (buf.held => Different(buf, vtables))
    /\ buf.held => PoolSound(buf, stringPool)
    /\ offsetbuf \in Seq([id : Nat, off : Nat])
    /\ nested = (table # NoTable)
    /\ nested => buf.held /\ ~finished /\ DraftIn(buf, table, offsetbuf)
    /\ ~nested => offsetbuf = <<>>
    /\ ~finished => NoPrefix(buf) /\ (~nested => TopIn(buf))
    /\ finished => Counted(buf) /\ (buf.held => Complete(buf))
    /\ finished \in BOOLEAN /\ forceDefaults \in BOOLEAN /\ dedupVtables \in BOOLEAN

-----------------------------------------------------------------------------
(* What a step that only adds to the buffer keeps.                         *)

\* A sound table stays sound while nothing in the buffer is overwritten.
LEMMA KeepsTable ==
    ASSUME NEW a, NEW b, Keeps(a, b), NEW r \in DOMAIN a.cells, TableSound(a, r)
    PROVE  TableSound(b, r) /\ VtableOf(b, r) = VtableOf(a, r)
<1>1. r \in DOMAIN b.cells /\ b.cells[r] = a.cells[r]
  BY DEF Keeps
<1>2. VtableOf(b, r) = VtableOf(a, r) /\ VtableOf(a, r) \in DOMAIN a.cells
  BY <1>1 DEF VtableOf, TableSound, IsTable
<1>3. /\ b.cells[VtableOf(b, r)] = a.cells[VtableOf(a, r)]
      /\ VtableOf(b, r) \in DOMAIN b.cells
  BY <1>2 DEF Keeps
<1>4. IsTable(b, r)
  BY <1>1, <1>3 DEF TableSound, IsTable
<1> DEFINE e == Entries(a, r)
           w == a.cells[VtableOf(a, r)].val[2]
<1>5. Entries(b, r) = e /\ b.cells[VtableOf(b, r)].val[2] = w
  BY <1>3 DEF Entries
<1>6. \A i \in Present(e) :
         /\ r - e[i] \in DOMAIN a.cells /\ e[i] >= 4 /\ e[i] + a.cells[r - e[i]].size <= w
         /\ \A j \in Present(e) : e[i] = e[j] => i = j
  BY DEF TableSound, FieldsAt
<1> HIDE DEF e, w
<1>7. \A i \in Present(e) :
         /\ r - e[i] \in DOMAIN b.cells /\ e[i] >= 4 /\ e[i] + b.cells[r - e[i]].size <= w
         /\ \A j \in Present(e) : e[i] = e[j] => i = j
  BY <1>6 DEF Keeps
<1>8. FieldsAt(b, r)
  BY <1>5, <1>7 DEF FieldsAt
<1> QED BY <1>1, <1>2, <1>4, <1>8 DEF TableSound

\* So do all of them, if the new ones are sound.
LEMMA KeepsTables ==
    ASSUME NEW a, NEW b, Keeps(a, b), TablesSound(a),
           \A r \in DOMAIN b.cells \ DOMAIN a.cells :
              b.cells[r].kind = "soffset" => TableSound(b, r)
    PROVE  TablesSound(b)
<1> SUFFICES ASSUME NEW r \in DOMAIN a.cells, b.cells[r].kind = "soffset"
             PROVE  TableSound(b, r)
  BY DEF TablesSound
<1>1. TableSound(a, r)
  BY DEF Keeps, TablesSound
<1> QED BY <1>1, KeepsTable

\* Cells stay where they are placed.
LEMMA KeepsPlaced ==
    ASSUME NEW a, NEW b, Typed(a), Typed(b), Keeps(a, b), a.minalign <= b.minalign, Placed(a),
           \A r \in DOMAIN b.cells \ DOMAIN a.cells : LooseIn(b, r) \/ Even(b, r)
    PROVE  Placed(b)
<1> SUFFICES ASSUME NEW r \in DOMAIN a.cells PROVE LooseIn(b, r) \/ Even(b, r)
  BY DEF Placed
<1>1. LooseIn(a, r) \/ Even(a, r)
  BY DEF Placed
<1>2. LooseIn(a, r) => LooseIn(b, r)
  BY DEF LooseIn, Keeps
<1>3. Even(a, r) => Even(b, r)
  <2>1. a.minalign \in Nat /\ b.minalign \in Nat
    BY Measures
  <2>2. \A x \in Alignments : x <= a.minalign => x <= b.minalign
    BY <2>1 DEF Alignments
  <2>3. b.cells[r] = a.cells[r]
    BY DEF Keeps
  <2> QED BY <2>2, <2>3 DEF Even
<1> QED BY <1>1, <1>2, <1>3

\* vtables_ still lists the vtables, if no new one is written.
LEMMA KeepsVtables ==
    ASSUME NEW a, NEW b, Keeps(a, b), NEW list, Listed(a, list),
           \A r \in DOMAIN b.cells \ DOMAIN a.cells : b.cells[r].kind # "vtable"
    PROVE  Listed(b, list) /\ (Different(a, list) => Different(b, list))
<1>1. VtableCells(b) = VtableCells(a)
  BY DEF VtableCells, Keeps
<1>2. \A k \in DOMAIN list : b.cells[list[k]] = a.cells[list[k]]
  BY DEF Listed, VtableCells, Keeps
<1> QED BY <1>1, <1>2 DEF Listed, Different

\* The string pool still leads to its strings.
LEMMA KeepsPool ==
    ASSUME NEW a, NEW b, Keeps(a, b), NEW pool, PoolSound(a, pool)
    PROVE  PoolSound(b, pool)
<1>1. \A o \in pool : /\ o \in DOMAIN a.cells /\ o - 4 \in DOMAIN a.cells
                      /\ b.cells[o] = a.cells[o] /\ b.cells[o - 4] = a.cells[o - 4]
  BY DEF PoolSound, Keeps
<1>2. \A o \in pool : TextAt(b, o) = TextAt(a, o)
  BY <1>1 DEF TextAt
<1>3. \A o \in pool : {o, o - 4} \subseteq DOMAIN b.cells
  BY <1>1 DEF Keeps
<1> QED BY <1>1, <1>2, <1>3 DEF PoolSound

\* The fields of the open table are still in it.
LEMMA KeepsDraft ==
    ASSUME NEW a, NEW b, Typed(a), Typed(b), Keeps(a, b), a.size <= b.size,
           NEW draft, NEW locs, DraftIn(a, draft, locs)
    PROVE  DraftIn(b, draft, locs)
<1>1. a.size \in Nat /\ b.size \in Nat
  BY Measures
<1>2. \A k \in DOMAIN locs : /\ locs[k].off \in DOMAIN b.cells
                             /\ b.cells[locs[k].off] = a.cells[locs[k].off]
  BY DEF DraftIn, Keeps
<1> QED BY <1>1, <1>2 DEF DraftIn

\* Nothing but the room changes, or minalign_, or the process has ended.
SameCells(a, b) ==
    /\ Typed(b) /\ b.cells = a.cells /\ b.size = a.size /\ b.held = a.held
    /\ a.minalign <= b.minalign

\* A buffer with the same cells is as sound.
LEMMA SameKeeps ==
    ASSUME NEW a, NEW b, Typed(a), SameCells(a, b)
    PROVE  /\ Keeps(a, b)
           /\ Placed(a) => Placed(b)
           /\ TablesSound(a) => TablesSound(b)
           /\ \A list : Listed(a, list) => Listed(b, list)
           /\ \A list : Different(a, list) => Different(b, list)
           /\ \A pool : PoolSound(a, pool) => PoolSound(b, pool)
           /\ \A draft, locs : DraftIn(a, draft, locs) => DraftIn(b, draft, locs)
           /\ NoPrefix(a) => NoPrefix(b)
           /\ TopIn(a) => TopIn(b)
           /\ Counted(a) => Counted(b)
           /\ Complete(a) => Complete(b)
<1>1. Keeps(a, b) /\ Typed(b) /\ b.cells = a.cells /\ b.size = a.size
  BY DEF SameCells, Keeps
<1>2. Placed(a) => Placed(b)
  BY <1>1, KeepsPlaced DEF SameCells
<1>3. TablesSound(a) => TablesSound(b)
  BY <1>1, KeepsTables
<1>4. \A list : Listed(a, list) => Listed(b, list)
  BY <1>1 DEF Listed, VtableCells
<1>5. \A list : Different(a, list) => Different(b, list)
  BY <1>1 DEF Different
<1>6. \A pool : PoolSound(a, pool) => PoolSound(b, pool)
  BY <1>1, KeepsPool
<1>7. \A draft, locs : DraftIn(a, draft, locs) => DraftIn(b, draft, locs)
  BY <1>1 DEF DraftIn
<1>8. NoPrefix(a) => NoPrefix(b)
  BY <1>1 DEF NoPrefix
<1>9. /\ \A r : IsTable(b, r) = IsTable(a, r)
      /\ \A r : VtableOf(b, r) = VtableOf(a, r)
      /\ \A r, k : Target(b, r, k) = Target(a, r, k)
      /\ \A r : WordIn(b, r) = WordIn(a, r)
      /\ RootIn(b) = RootIn(a)
  BY <1>1 DEF IsTable, VtableOf, Target, WordIn, RootIn
<1>10. Places(b) = Places(a)
  BY <1>1, <1>9 DEF Places
<1>11. Roots(b) = Roots(a)
  BY <1>9, <1>10 DEF Roots
<1>12. TopIn(a) => TopIn(b)
  BY <1>1, <1>9, <1>10, <1>11 DEF TopIn
<1>13. Counted(a) => Counted(b)
  BY <1>1 DEF Counted
<1>14. EvenFromFront(a) => EvenFromFront(b)
  BY <1>1 DEF EvenFromFront, LooseIn
<1>15. FoundIn(a) => FoundIn(b)
  BY <1>9, <1>10 DEF FoundIn
<1> QED BY <1>1, <1>2, <1>3, <1>4, <1>5, <1>6, <1>7, <1>8, <1>12, <1>13, <1>14, <1>15
        DEF Complete

-----------------------------------------------------------------------------
(* Steps that leave the cells alone.                                       *)

\* A failed assert writes nothing.
LEMMA AbortSame ==
    ASSUME NEW b, Typed(b)
    PROVE  SameCells(b, Abort(b))
<1> DEFINE c == Abort(b)
<1>1. c = [reserved |-> b.reserved, size |-> b.size, cells |-> b.cells,
           minalign |-> b.minalign, held |-> b.held, aborted |-> TRUE]
  <2>1. b = [reserved |-> b.reserved, size |-> b.size, cells |-> b.cells,
             minalign |-> b.minalign, held |-> b.held, aborted |-> b.aborted]
    BY DEF Typed
  <2>2. c = [b EXCEPT !.aborted = TRUE]
    BY DEF Abort
  <2> HIDE DEF c
  <2> QED BY ONLY <2>1, <2>2
<1>2. b.minalign <= b.minalign
  BY Measures
<1> HIDE DEF c
<1>3. /\ c.reserved = b.reserved /\ c.size = b.size /\ c.cells = b.cells
      /\ c.minalign = b.minalign /\ c.held = b.held /\ c.aborted = TRUE
  BY <1>1
<1>4. c = [reserved |-> c.reserved, size |-> c.size, cells |-> c.cells,
           minalign |-> c.minalign, held |-> c.held, aborted |-> c.aborted]
  BY <1>1
<1>5. Typed(c)
  BY <1>3, <1>4 DEF Typed
<1> QED BY <1>2, <1>3, <1>5 DEF SameCells, c

\* A buffer without a cell.
LEMMA EmptyTyped ==
    ASSUME NEW b, NEW reserved \in Nat, reserved % WordSize = 0, NEW minalign \in Alignments,
           NEW held \in BOOLEAN, NEW aborted \in BOOLEAN,
           b = [reserved |-> reserved, size |-> 0, cells |-> NoCells, minalign |-> minalign,
                held |-> held, aborted |-> aborted]
    PROVE  Typed(b)
<1>1. /\ b.reserved = reserved /\ b.size = 0 /\ b.cells = NoCells
      /\ b.minalign = minalign /\ b.held = held /\ b.aborted = aborted
  OBVIOUS
<1>2. b = [reserved |-> b.reserved, size |-> b.size, cells |-> b.cells,
           minalign |-> b.minalign, held |-> b.held, aborted |-> b.aborted]
  BY <1>1
<1>3. \A r \in DOMAIN b.cells : FALSE
  BY <1>1 DEF NoCells
<1>4. 0 \in 0..reserved
  OBVIOUS
<1>5. b.cells = [r \in DOMAIN b.cells |-> b.cells[r]]
  BY <1>1 DEF NoCells
<1> QED BY <1>1, <1>2, <1>3, <1>4, <1>5 DEF Typed

\* A buffer in which nothing is written is sound.
LEMMA EmptyKeeps ==
    ASSUME NEW b, b.cells = NoCells
    PROVE  /\ Placed(b) /\ TablesSound(b) /\ NoPrefix(b) /\ TopIn(b) /\ Counted(b)
           /\ Listed(b, <<>>) /\ Different(b, <<>>) /\ PoolSound(b, {})
<1>1. DOMAIN b.cells = {}
  BY DEF NoCells
<1> QED BY <1>1 DEF Placed, TablesSound, NoPrefix, TopIn, Counted, Roots, Places, PoolSound,
                    Listed, VtableCells, Different

\* A new builder is sound.
LEMMA BuilderInit ==
    ASSUME BuilderConstants, Init
    PROVE  BuildInv
<1>1. PICK n \in InitialSizes : buf = EmptyBuffer(n)
  BY DEF Init
<1>2. n \in Nat
  BY DEF BuilderConstants
<1>3. RoundUp(n) \in Nat /\ RoundUp(n) % WordSize = 0
  BY <1>2 DEF RoundUp, WordSize
<1>4. 1 \in Alignments
  BY DEF Alignments
<1>5. buf = [reserved |-> RoundUp(n), size |-> 0, cells |-> NoCells, minalign |-> 1,
             held |-> TRUE, aborted |-> FALSE]
  BY <1>1 DEF EmptyBuffer
<1>6. Typed(buf) /\ buf.cells = NoCells
  BY <1>3, <1>4, <1>5, EmptyTyped
<1>7. /\ Placed(buf) /\ TablesSound(buf) /\ NoPrefix(buf) /\ TopIn(buf)
      /\ PoolSound(buf, {}) /\ Listed(buf, <<>>) /\ Different(buf, <<>>)
  BY <1>6, EmptyKeeps
<1>8. /\ offsetbuf = <<>> /\ vtables = <<>> /\ stringPool = {} /\ nested = FALSE
      /\ finished = FALSE /\ forceDefaults = FALSE /\ dedupVtables = TRUE /\ table = NoTable
  BY DEF Init
<1>9. <<>> \in Seq(Nat) /\ <<>> \in Seq([id : Nat, off : Nat])
  OBVIOUS
<1> QED BY <1>6, <1>7, <1>8, <1>9 DEF BuildInv

\* Everything but buf_ as before, and that but for the room.
Rest == <<offsetbuf, nested, finished, vtables, flags, stringPool, table>>

\* What changes only the room in the buffer keeps it sound.
LEMMA RoomKeeps ==
    ASSUME BuildInv, SameCells(buf, buf'), UNCHANGED Rest
    PROVE  BuildInv'
<1>1. /\ vtables' = vtables /\ stringPool' = stringPool /\ offsetbuf' = offsetbuf
      /\ nested' = nested /\ finished' = finished /\ table' = table
      /\ forceDefaults' = forceDefaults /\ dedupVtables' = dedupVtables
      /\ Typed(buf') /\ buf'.held = buf.held
  BY DEF Rest, flags, SameCells
<1>2. Typed(buf) /\ Placed(buf) /\ TablesSound(buf)
  BY DEF BuildInv
<1>3. Placed(buf') /\ TablesSound(buf')
  BY <1>2, SameKeeps
<1>4. vtables' \in Seq(Nat) /\ (buf'.held => Listed(buf', vtables'))
  BY <1>1, <1>2, SameKeeps DEF BuildInv
<1>5. (\A f \in FlagChoices : f.dedup) =>
         dedupVtables' /\ (buf'.held => Different(buf', vtables'))
  BY <1>1, <1>2, SameKeeps DEF BuildInv
<1>6. buf'.held => PoolSound(buf', stringPool')
  BY <1>1, <1>2, SameKeeps DEF BuildInv
<1>7. nested' => buf'.held /\ ~finished' /\ DraftIn(buf', table', offsetbuf')
  BY <1>1, <1>2, SameKeeps DEF BuildInv
<1>8. ~finished' => NoPrefix(buf') /\ (~nested' => TopIn(buf'))
  BY <1>1, <1>2, SameKeeps DEF BuildInv
<1>9. finished' => Counted(buf') /\ (buf'.held => Complete(buf'))
  BY <1>1, <1>2, SameKeeps DEF BuildInv
<1> QED BY <1>1, <1>3, <1>4, <1>5, <1>6, <1>7, <1>8, <1>9 DEF BuildInv

\* A buffer has the cells it has.
LEMMA SelfSame ==
    ASSUME NEW b, Typed(b)
    PROVE  SameCells(b, b)
BY Measures DEF SameCells

\* A call stopped by its assert keeps the builder sound.
LEMMA FailKeeps ==
    ASSUME BuildInv, AssertFails
    PROVE  BuildInv'
BY AbortSame, RoomKeeps DEF AssertFails, Rest, BuildInv

\* ForceDefaults and DedupVtables keep it sound.
LEMMA FlagsKeep ==
    ASSUME BuilderConstants, BuildInv, NEW f \in FlagChoices, SetFlags(f.force, f.dedup)
    PROVE  BuildInv'
<1>1. /\ buf' = buf /\ vtables' = vtables /\ stringPool' = stringPool /\ offsetbuf' = offsetbuf
      /\ nested' = nested /\ finished' = finished /\ table' = table
      /\ forceDefaults' = f.force /\ dedupVtables' = f.dedup
  BY DEF SetFlags, tracking
<1>2. f.force \in BOOLEAN /\ f.dedup \in BOOLEAN
  BY DEF BuilderConstants
<1>3. (\A g \in FlagChoices : g.dedup) =>
         dedupVtables' /\ (buf'.held => Different(buf', vtables'))
  BY <1>1 DEF BuildInv
<1> QED BY <1>1, <1>2, <1>3 DEF BuildInv

\* StartTable keeps it sound.
LEMMA StartKeeps ==
    ASSUME BuilderConstants, BuildInv, NEW T \in Tables, StartTable(T)
    PROVE  BuildInv'
<1>1. CASE nested
  BY <1>1, FailKeeps DEF StartTable
<1>2. CASE ~nested
  <2>1. /\ buf' = buf /\ vtables' = vtables /\ stringPool' = stringPool
        /\ offsetbuf' = offsetbuf /\ nested' = TRUE /\ finished' = finished
        /\ table' = [fields |-> T, start |-> buf.size]
        /\ forceDefaults' = forceDefaults /\ dedupVtables' = dedupVtables
        /\ buf.held /\ ~finished
    BY <1>2 DEF StartTable, flags, Building, Running
  <2>2. buf.size \in Nat /\ T \in Seq(FieldTypes)
    BY Measures DEF BuildInv, BuilderConstants
  <2>3. table' # NoTable
    BY <2>1, <2>2 DEF NoTable
  <2>4. DraftIn(buf', table', offsetbuf')
    BY <1>2, <2>1, <2>2 DEF DraftIn, BuildInv
  <2> QED BY <1>2, <2>1, <2>3, <2>4 DEF BuildInv
<1> QED BY <1>1, <1>2

\* ReleaseBufferPointer keeps it sound.
LEMMA ReleaseKeeps ==
    ASSUME BuildInv, ReleaseBufferPointer
    PROVE  BuildInv'
<1>1. CASE ~finished
  BY <1>1, FailKeeps DEF ReleaseBufferPointer
<1>2. CASE finished
  <2>1. /\ buf' = [buf EXCEPT !.held = FALSE, !.cells = NoCells, !.size = 0]
        /\ vtables' = vtables /\ stringPool' = stringPool /\ offsetbuf' = offsetbuf
        /\ nested' = nested /\ finished' = finished /\ table' = table
        /\ forceDefaults' = forceDefaults /\ dedupVtables' = dedupVtables
    BY <1>2 DEF ReleaseBufferPointer, flags, tracking
  <2>2. Typed(buf)
    BY DEF BuildInv
  <2>3. buf' = [reserved |-> buf.reserved, size |-> 0, cells |-> NoCells,
                minalign |-> buf.minalign, held |-> FALSE, aborted |-> buf.aborted]
    BY <2>1, <2>2 DEF Typed
  <2>4. /\ buf.reserved \in Nat /\ buf.reserved % WordSize = 0 /\ buf.minalign \in Alignments
        /\ buf.aborted \in BOOLEAN
    BY <2>2 DEF Typed
  <2>7. Typed(buf') /\ buf'.cells = NoCells /\ buf'.held = FALSE
    BY <2>3, <2>4, EmptyTyped
  <2>8. ~nested
    BY <1>2 DEF BuildInv
  <2>9. Placed(buf') /\ TablesSound(buf') /\ Counted(buf')
    BY <2>7, EmptyKeeps
  <2> QED BY <1>2, <2>1, <2>7, <2>8, <2>9 DEF BuildInv
<1> QED BY <1>1, <1>2

\* Clear keeps it sound.
LEMMA ClearKeeps ==
    ASSUME BuildInv, Clear
    PROVE  BuildInv'
<1>1. /\ buf' = [buf EXCEPT !.size = 0, !.cells = NoCells, !.minalign = 1, !.held = TRUE]
      /\ vtables' = <<>> /\ stringPool' = {} /\ offsetbuf' = <<>>
      /\ nested' = FALSE /\ finished' = FALSE /\ table' = NoTable
      /\ forceDefaults' = forceDefaults /\ dedupVtables' = dedupVtables
  BY DEF Clear, Cleared, flags
<1>2. Typed(buf)
  BY DEF BuildInv
<1>3. buf' = [reserved |-> buf.reserved, size |-> 0, cells |-> NoCells,
              minalign |-> 1, held |-> TRUE, aborted |-> buf.aborted]
  BY <1>1, <1>2 DEF Typed
<1>4. /\ buf.reserved \in Nat /\ buf.reserved % WordSize = 0 /\ 1 \in Alignments
      /\ buf.aborted \in BOOLEAN
  BY <1>2 DEF Typed, Alignments
<1>7. Typed(buf') /\ buf'.cells = NoCells /\ buf'.held = TRUE
  BY <1>3, <1>4, EmptyTyped
<1>8. /\ Placed(buf') /\ TablesSound(buf') /\ NoPrefix(buf') /\ TopIn(buf')
      /\ Listed(buf', <<>>) /\ Different(buf', <<>>) /\ PoolSound(buf', {})
  BY <1>7, EmptyKeeps
<1>9. <<>> \in Seq(Nat) /\ <<>> \in Seq([id : Nat, off : Nat])
  OBVIOUS
<1>10. (\A f \in FlagChoices : f.dedup) => dedupVtables'
  BY <1>1 DEF BuildInv
<1>11. forceDefaults \in BOOLEAN /\ dedupVtables \in BOOLEAN
  BY DEF BuildInv
<1> QED BY <1>1, <1>7, <1>8, <1>9, <1>10, <1>11 DEF BuildInv

-----------------------------------------------------------------------------
(* Strings and vectors.                                                    *)

\* What the elements of a vector are like.
Element(b, c) ==
    /\ c.kind \in {"scalar", "uoffset", "string", "bytes", "struct"}
    /\ \/ c.kind \in {"struct", "bytes"}
       \/ c.align \in Alignments /\ c.align <= b.minalign /\ (b.size - 4) % c.align = 0

\* One more vector keeps a buffer sound.
LEMMA VectorKeeps ==
    ASSUME NEW a, Typed(a), NEW b, NEW c, NEW n, VectorMore(a, b, c, n), c.size \in Nat,
           c.size # 0 => Element(b, c)
    PROVE  /\ Typed(b) /\ Keeps(a, b) /\ b.held = a.held
           /\ b.size \in DOMAIN b.cells /\ b.cells[b.size].kind = "length"
           /\ b.size \notin DOMAIN a.cells
           /\ Placed(a) => Placed(b)
           /\ TablesSound(a) => TablesSound(b)
           /\ \A list : Listed(a, list) => Listed(b, list)
           /\ \A list : Listed(a, list) /\ Different(a, list) => Different(b, list)
           /\ \A pool : PoolSound(a, pool) => PoolSound(b, pool)
           /\ NoPrefix(a) => NoPrefix(b)
           /\ TopIn(b)
<1>1. /\ Typed(b) /\ Keeps(a, b) /\ b.held = a.held /\ a.minalign <= b.minalign
      /\ 4 <= b.minalign /\ b.size % 4 = 0 /\ b.size \notin DOMAIN a.cells
      /\ b.cells[b.size] = MkCell(4, 4, "length", <<n>>) /\ b.size \in DOMAIN b.cells
  BY DEF VectorMore
<1>2. b.cells[b.size].kind = "length" /\ b.cells[b.size].align = 4
  BY <1>1 DEF MkCell
<1>3. \A r \in DOMAIN b.cells \ DOMAIN a.cells :
         r = b.size \/ (c.size # 0 /\ r = b.size - 4 /\ b.cells[r] = c /\ Element(b, c))
  BY DEF VectorMore
<1>4. \A r \in DOMAIN b.cells \ DOMAIN a.cells :
         b.cells[r].kind \notin {"soffset", "vtable", "prefix"}
  BY <1>2, <1>3 DEF Element
<1>5. b.size \in Nat
  BY <1>1, Measures
<1>6. ASSUME NEW r \in DOMAIN b.cells \ DOMAIN a.cells PROVE LooseIn(b, r) \/ Even(b, r)
  <2>1. CASE r = b.size
    <3>1. 4 \in Alignments
      BY DEF Alignments
    <3> QED BY <1>1, <1>2, <2>1, <3>1 DEF Even
  <2>2. CASE r # b.size
    <3>1. r = b.size - 4 /\ b.cells[r] = c /\ Element(b, c) /\ r + 4 = b.size
      BY <1>3, <1>5, <2>2
    <3> QED BY <1>1, <1>2, <3>1 DEF Element, Even, LooseIn
  <2> QED BY <2>1, <2>2
<1>7. Placed(a) => Placed(b)
  BY <1>1, <1>6, KeepsPlaced
<1>8. TablesSound(a) => TablesSound(b)
  BY <1>1, <1>4, KeepsTables
<1>9. \A list : Listed(a, list) => Listed(b, list) /\ (Different(a, list) => Different(b, list))
  BY <1>1, <1>4, KeepsVtables
<1>10. \A pool : PoolSound(a, pool) => PoolSound(b, pool)
  BY <1>1, KeepsPool
<1>11. NoPrefix(a) => NoPrefix(b)
  BY <1>1, <1>4 DEF NoPrefix, Keeps
<1>12. TopIn(b)
  <2> SUFFICES ASSUME NEW root \in Roots(b), \A r \in Places(b) : r <= root PROVE FALSE
    BY DEF TopIn
  <2>1. b.size \in Places(b)
    BY <1>1, <1>2 DEF Places
  <2>2. root \in DOMAIN b.cells /\ b.cells[root].kind = "soffset"
    BY DEF Roots, Places, IsTable
  <2>3. root \in 1..b.size
    BY <1>1, <2>2, CellsInside
  <2>4. root = b.size
    BY <1>5, <2>1, <2>3
  <2> QED BY <1>2, <2>2, <2>4
<1> QED BY <1>1, <1>2, <1>7, <1>8, <1>9, <1>10, <1>11, <1>12

\* A call that adds one vector keeps the builder sound.
LEMMA MoreKeeps ==
    ASSUME BuildInv, NEW b, NEW c, NEW n, VectorMore(buf, b, c, n), c.size \in Nat,
           c.size # 0 => Element(b, c), ~nested, ~finished, buf' = b,
           UNCHANGED <<nested, finished, flags, tracking>>,
           buf.held /\ PoolSound(b, stringPool) => PoolSound(b, stringPool')
    PROVE  BuildInv'
<1>1. /\ vtables' = vtables /\ offsetbuf' = offsetbuf
      /\ nested' = nested /\ finished' = finished /\ table' = table
      /\ forceDefaults' = forceDefaults /\ dedupVtables' = dedupVtables
  BY DEF tracking, flags
<1>2. Typed(buf) /\ Placed(buf) /\ TablesSound(buf)
  BY DEF BuildInv
<1>3. /\ Typed(b) /\ Placed(b) /\ TablesSound(b) /\ b.held = buf.held /\ TopIn(b)
      /\ \A list : Listed(buf, list) => Listed(b, list)
      /\ \A list : Listed(buf, list) /\ Different(buf, list) => Different(b, list)
      /\ \A pool : PoolSound(buf, pool) => PoolSound(b, pool)
      /\ NoPrefix(buf) => NoPrefix(b)
  BY <1>2, VectorKeeps
<1>4. vtables' \in Seq(Nat) /\ (buf'.held => Listed(buf', vtables'))
  BY <1>1, <1>3 DEF BuildInv
<1>5. (\A f \in FlagChoices : f.dedup) =>
         dedupVtables' /\ (buf'.held => Different(buf', vtables'))
  BY <1>1, <1>3 DEF BuildInv
<1>6. buf'.held => PoolSound(buf', stringPool')
  BY <1>3 DEF BuildInv
<1>7. NoPrefix(buf')
  BY <1>3 DEF BuildInv
<1> QED BY <1>1, <1>3, <1>4, <1>5, <1>6, <1>7 DEF BuildInv

\* A string or a vector has been built, in whatever way its buffer came about: it
\* is read as what it was made of.
Built(b, c, n, arg) ==
    /\ VectorMore(buf, b, c, n) /\ c.size \in Nat /\ (c.size # 0 => Element(b, c))
    /\ NewVector(b, "build", arg)
    /\ n \in Nat /\ (n = 0 => arg = Nothing)
    /\ n # 0 => /\ c.size # 0 /\ arg = ReadAt(b, b.size - 4)
                /\ Store!RefsOf(arg) \subseteq Places(buf)

\* A call that builds an item keeps the builder sound.
LEMMA BuiltKeeps ==
    ASSUME BuildInv, NEW b, NEW c, NEW n, NEW arg, Built(b, c, n, arg)
    PROVE  BuildInv'
<1> DEFINE op == "build"
<1>0. /\ VectorMore(buf, b, c, n) /\ c.size \in Nat /\ (c.size # 0 => Element(b, c))
      /\ NewVector(b, op, arg)
  BY DEF Built
<1>1. CASE nested
  BY <1>0, <1>1, FailKeeps DEF NewVector
<1>2. CASE ~nested
  <2>1. /\ ~finished /\ Leaves(b, op, arg, b.size)
        /\ UNCHANGED <<nested, finished, flags, stringPool, tracking>>
    BY <1>0, <1>2 DEF NewVector, Building
  <2>2. CASE b.aborted
    <3>1. buf' = Abort(buf) /\ UNCHANGED Rest
      BY <2>1, <2>2 DEF Leaves, Rest, flags, tracking
    <3> QED BY <3>1, AbortSame, RoomKeeps DEF BuildInv
  <2>3. CASE ~b.aborted
    BY <1>0, <1>2, <2>1, <2>3, MoreKeeps DEF Leaves
  <2> QED BY <2>2, <2>3
<1> QED BY <1>1, <1>2

\* What is no run of offsets is read as it was written.
LEMMA PlainBuilt ==
    ASSUME NEW b, NEW c, NEW n \in Nat, VectorMore(buf, b, c, n), c.size \in Nat,
           c.size # 0 => Element(b, c), n # 0 => c.size # 0, c.kind # "uoffset",
           NEW arg, NewVector(b, "build", arg),
           arg = IF n = 0 THEN Nothing ELSE Content(c.kind, c.size, c.val)
    PROVE  Built(b, c, n, arg)
<1>1. ASSUME n # 0
      PROVE  arg = ReadAt(b, b.size - 4) /\ Store!RefsOf(arg) \subseteq Places(buf)
  <2>1. b.cells[b.size - 4] = c /\ arg = Content(c.kind, c.size, c.val)
    BY <1>1 DEF VectorMore
  <2>2. arg.kind = c.kind
    BY <2>1 DEF Content
  <2> QED BY <2>1, <2>2 DEF ReadAt, Store!RefsOf
<1> QED BY <1>1 DEF Built

\* The bytes of a string are aligned as any other.
LEMMA StringElement ==
    ASSUME NEW b, Typed(b), NEW text \in Seq(Int)
    PROVE  LET c == StringCell(text) IN c.size \in Nat /\ Element(b, c)
<1>1. b.size \in Nat /\ b.minalign \in Nat \ {0}
  BY Measures
<1>2. (b.size - 4) % 1 = 0 /\ 1 <= b.minalign /\ 1 \in Alignments
  BY <1>1 DEF Alignments
<1>3. Len(text) + 1 \in Nat
  OBVIOUS
<1> QED BY <1>2, <1>3 DEF StringCell, MkCell, Element

\* What a reader makes of the bytes of a string.
LEMMA TextRead ==
    ASSUME NEW text \in Seq(Int)
    PROVE  LET c == StringCell(text)
           IN  /\ TextContent(text) = IF Len(text) = 0 THEN Nothing
                                      ELSE Content(c.kind, c.size, c.val)
               /\ c.kind = "string" /\ c.size = Len(text) + 1 /\ c.size # 0 /\ c.val = text
<1>1. Len(text) = 0 <=> text = <<>>
  OBVIOUS
<1>2. Len(text) \in Nat
  OBVIOUS
<1> QED BY <1>1, <1>2 DEF StringCell, MkCell, TextContent

\* CreateString builds an item.
LEMMA StringBuilt ==
    ASSUME BuilderConstants, BuildInv, NEW text \in Texts, CreateString(text)
    PROVE  \E b, c, n, arg : Built(b, c, n, arg)
<1> DEFINE b == StringArena(buf, text)
<1>1. text \in Seq(Int) /\ Typed(buf)
  BY DEF BuilderConstants, BuildInv
<1>2. VectorMore(buf, b, StringCell(text), Len(text))
  BY <1>1, StringMade
<1> HIDE DEF b
<1>3. Typed(b)
  BY <1>2 DEF VectorMore
<1>4. StringCell(text).size \in Nat /\ Element(b, StringCell(text))
  BY <1>1, <1>3, StringElement
<1>5. NewVector(b, "build", TextContent(text))
  BY DEF CreateString, b
<1>6. Built(b, StringCell(text), Len(text), TextContent(text))
  BY <1>1, <1>2, <1>4, <1>5, TextRead, PlainBuilt
<1> QED BY <1>6

\* CreateVector builds an item.
LEMMA ScalarsBuilt ==
    ASSUME BuilderConstants, BuildInv, NEW t \in DOMAIN ScalarTypes, NEW n \in Lengths,
           NEW es \in [1..n -> Values], CreateVector(t, es)
    PROVE  \E b, c, m, arg : Built(b, c, m, arg)
<1> DEFINE size == ScalarTypes[t]
           b == ScalarArena(buf, size, n, es)
           c == MkCell(n * size, size, "scalar", es)
           content == IF n = 0 THEN Nothing ELSE Content("scalar", n * size, es)
<1>1. /\ size \in {1, 2, 4, 8} /\ n \in Nat /\ Typed(buf) /\ Values \subseteq Int
  BY DEF BuilderConstants, BuildInv
<1>2. es \in Seq(Int) /\ Len(es) = n
  <2>1. es \in [1..n -> Int]
    BY <1>1
  <2> QED BY <1>1, <2>1
<1>3. NewVector(b, "build", content)
  BY <1>2 DEF CreateVector, ScalarArena
<1> HIDE DEF b, content, size
<1>4. VectorMore(buf, b, c, n) /\ (n # 0 => b.minalign >= size /\ (b.size - 4) % size = 0)
  BY <1>1, <1>2, ScalarsMade DEF b
<1>5. n * size \in Nat /\ (n * size # 0 => n # 0) /\ size \in Alignments
  BY <1>1 DEF Alignments
<1> DEFINE l == n * size
<1>6. c.size = l /\ c.kind = "scalar" /\ c.align = size /\ c.val = es
  <2>1. c = MkCell(l, size, "scalar", es)
    OBVIOUS
  <2> HIDE DEF l, c
  <2> QED BY <2>1 DEF MkCell
<1> HIDE DEF c
<1>7. c.size \in Nat /\ (c.size # 0 <=> n # 0)
  <2>1. n # 0 => n * size # 0
    BY <1>1
  <2> QED BY <1>5, <1>6, <2>1
<1>8. c.size # 0 => Element(b, c)
  <2>1. size \in Nat /\ b.minalign \in Nat
    BY <1>1, <1>4, Measures DEF VectorMore
  <2>2. n # 0 => size <= b.minalign /\ (b.size - 4) % size = 0
    BY <1>4, <2>1
  <2> QED BY <1>5, <1>6, <1>7, <2>2 DEF Element
<1>9. content = IF n = 0 THEN Nothing ELSE Content(c.kind, c.size, c.val)
  BY <1>6 DEF content
<1>10. Built(b, c, n, content)
  BY <1>1, <1>3, <1>4, <1>6, <1>7, <1>8, <1>9, PlainBuilt
<1> QED BY <1>10

\* CreateVector of offsets builds an item.
LEMMA OffsetsBuilt ==
    ASSUME BuilderConstants, BuildInv, NEW n \in Lengths, NEW offs \in [1..n -> Places(buf)],
           CreateVectorOfOffsets(offs)
    PROVE  \E b, c, m, arg : Built(b, c, m, arg)
<1> DEFINE b == EndVector(PushOffsets(StartVector(buf, n, 4), offs), n)
           c == OffsetsCell(b, offs)
           content == IF n = 0 THEN Nothing ELSE Content("uoffset", 4 * n, offs)
<1>1. n \in Nat /\ Typed(buf) /\ offs \in [1..n -> DOMAIN buf.cells]
  BY DEF BuilderConstants, BuildInv, Places
<1>2. Len(offs) = n
  <2>1. offs \in Seq(DOMAIN buf.cells)
    BY <1>1
  <2> QED BY <1>1, <2>1
<1>3. NewVector(b, "build", content)
  BY <1>2 DEF CreateVectorOfOffsets
<1>4. VectorMore(buf, b, c, n)
  BY <1>1, OffsetsMade
<1> HIDE DEF b, content
<1>5. c.size = 4 * n /\ c.kind = "uoffset" /\ c.align = 4
  BY <1>2 DEF OffsetsCell, MkCell
<1> HIDE DEF c
<1>6. /\ c.size \in Nat /\ 4 \in Alignments /\ 4 <= b.minalign /\ b.size % 4 = 0
      /\ b.size \in Nat
  BY <1>1, <1>4, <1>5, Measures DEF VectorMore, Alignments
<1>7. (b.size - 4) % 4 = 0
  BY <1>6
<1>8. Element(b, c)
  BY <1>5, <1>6, <1>7 DEF Element
<1>9. ASSUME n # 0
      PROVE  content = ReadAt(b, b.size - 4) /\ Store!RefsOf(content) \subseteq Places(buf)
  <2>1. b.cells[b.size - 4] = c
    BY <1>1, <1>4, <1>5, <1>9 DEF VectorMore
  <2>2. /\ DOMAIN c.val = 1..n
        /\ \A k \in 1..n : c.val[k] = b.size - 4 - 4 * (k - 1) - offs[k]
    BY <1>2 DEF c, OffsetsCell, MkCell
  <2>3. \A k \in 1..n : offs[k] \in Nat
    BY <1>1, CellsInside
  <2>4. ASSUME NEW k \in 1..n PROVE Target(b, b.size - 4, k) = offs[k]
    <3> DEFINE o == offs[k]
               v == c.val[k]
               z == b.size - 4
    <3>1. o \in Nat /\ v = z - 4 * (k - 1) - o
      BY <2>2, <2>3
    <3>2. Target(b, z, k) = z - 4 * (k - 1) - v
      BY <2>1 DEF Target
    <3>3. z \in Int /\ k \in Int
      BY <1>6
    <3> HIDE DEF o, v, z
    <3>4. z - 4 * (k - 1) - v = o
      BY <3>1, <3>3
    <3> QED BY <3>2, <3>4 DEF o, z
  <2>5. [k \in DOMAIN c.val |-> Target(b, b.size - 4, k)] = offs
    BY <2>2, <2>4
  <2>6. ReadAt(b, b.size - 4) = Content("uoffset", 4 * n, offs)
    BY <1>5, <2>1, <2>5 DEF ReadAt
  <2>7. content = Content("uoffset", 4 * n, offs)
    BY <1>9 DEF content
  <2>8. Store!RefsOf(content) = {offs[k] : k \in 1..n}
    BY <2>7 DEF Store!RefsOf, Content
  <2> QED BY <2>6, <2>7, <2>8
<1>10. n = 0 => content = Nothing
  BY DEF content
<1>11. n # 0 => c.size # 0
  BY <1>1, <1>5
<1>12. Built(b, c, n, content)
  BY <1>1, <1>3, <1>4, <1>6, <1>8, <1>9, <1>10, <1>11 DEF Built
<1> QED BY <1>12

\* The bytes of n structs are those of whole alignments.
LEMMA StructBytes ==
    ASSUME BuilderConstants, NEW s \in DOMAIN Structs, NEW n \in Nat
    PROVE  LET bytes == Structs[s].bytes * n
               align == Structs[s].align
           IN  /\ bytes \in Nat /\ bytes \div align \in Nat
               /\ (bytes \div align) * align = bytes
<1> DEFINE size == Structs[s].bytes
           align == Structs[s].align
<1>1. size \in Nat \ {0} /\ align \in Alignments /\ size % align = 0
  BY DEF BuilderConstants
<1> HIDE DEF size, align
<1>2. size * n \in Nat
  BY <1>1
<1>3. PICK k \in Nat : size = align * k
  <2>1. CASE align = 1
    BY <1>1, <2>1
  <2>2. CASE align = 2
    BY <1>1, <2>2
  <2>3. CASE align = 4
    BY <1>1, <2>3
  <2>4. CASE align = 8
    BY <1>1, <2>4
  <2>5. CASE align = 16
    BY <1>1, <2>5
  <2> QED BY <1>1, <2>1, <2>2, <2>3, <2>4, <2>5 DEF Alignments
<1>4. PICK m \in Nat : m = k * n
  OBVIOUS
<1>5. size * n = align * m
  BY <1>1, <1>3, <1>4 DEF Alignments
<1>6. (align * m) \div align = m /\ m * align = align * m
  BY <1>1 DEF Alignments
<1> QED BY <1>2, <1>4, <1>5, <1>6 DEF size, align

\* CreateVectorOfStructs builds an item.
LEMMA StructsBuilt ==
    ASSUME BuilderConstants, BuildInv, NEW s \in DOMAIN Structs, NEW n \in Lengths,
           CreateVectorOfStructs(s, n)
    PROVE  \E b, c, m, arg : Built(b, c, m, arg)
<1> DEFINE bytes == Structs[s].bytes * n
           align == Structs[s].align
           len == bytes \div align
           zeros == [k \in 1..n |-> 0]
           c == MkCell(len * align, align, "struct", zeros)
           b == EndVector(Push(StartVector(buf, len, align), c), n)
           content == IF n = 0 THEN Nothing ELSE Content("struct", bytes, zeros)
<1>1. n \in Nat /\ Typed(buf) /\ align \in Alignments
  BY DEF BuilderConstants, BuildInv
<1>2. bytes \in Nat /\ len \in Nat /\ len * align = bytes
  BY <1>1, StructBytes
<1>3. zeros \in Seq(Int) /\ "struct" \in CellKinds
  BY <1>1 DEF CellKinds
<1>4. NewVector(b, "build", content)
  <2>1. c = MkCell(bytes, align, "struct", zeros)
    BY <1>2
  <2> HIDE DEF c
  <2> QED BY <2>1 DEF CreateVectorOfStructs
<1>5. c.size \in Nat /\ c.size = bytes /\ c.kind = "struct" /\ c.val = zeros
  <2>1. c = MkCell(bytes, align, "struct", zeros)
    BY <1>2
  <2> HIDE DEF c, bytes, align, zeros, len
  <2> QED BY <1>2, <2>1 DEF MkCell
<1>6. VectorMore(buf, b, c, n)
  <2>1. Roomier(buf, buf) /\ align \in Nat \ {0}
    BY <1>1, RoomSelf DEF Alignments
  <2> HIDE DEF bytes, align, zeros, len
  <2> QED BY <1>1, <1>2, <1>3, <2>1, CopiedMade
<1>7. n # 0 => c.size # 0
  <2>1. Structs[s].bytes \in Nat \ {0}
    BY DEF BuilderConstants
  <2>2. n # 0 => bytes # 0
    BY <1>1, <2>1
  <2> HIDE DEF bytes, c
  <2> QED BY <1>5, <2>2
<1> HIDE DEF b, c, content, bytes, zeros
<1>8. Element(b, c)
  BY <1>5 DEF Element
<1>9. content = IF n = 0 THEN Nothing ELSE Content(c.kind, c.size, c.val)
  BY <1>5 DEF content
<1>10. Built(b, c, n, content)
  BY <1>1, <1>4, <1>5, <1>6, <1>7, <1>8, <1>9, PlainBuilt
<1> QED BY <1>10

\* A vector after ForceVectorAlignment is an item.
LEMMA ForcedBuilt ==
    ASSUME BuilderConstants, BuildInv, NEW n \in Lengths, NEW alignment \in ForcedAligns,
           CreateForcedVector(n, alignment)
    PROVE  \E b, c, m, arg : Built(b, c, m, arg)
<1> DEFINE m == PreAlign(buf, n, alignment)
           zeros == [k \in 1..n |-> 0]
           c == MkCell(n * 1, alignment, "bytes", zeros)
           b == EndVector(Push(StartVector(m, n, 1), c), n)
           content == IF n = 0 THEN Nothing ELSE Content("bytes", n, zeros)
<1>1. n \in Nat /\ Typed(buf) /\ alignment \in Nat \ {0}
  BY DEF BuilderConstants, BuildInv
<1>2. zeros \in Seq(Int) /\ "bytes" \in CellKinds /\ 1 \in Alignments
  BY <1>1 DEF CellKinds, Alignments
<1>3. n * 1 = n
  BY <1>1
<1>4. NewVector(b, "build", content)
  BY <1>3 DEF CreateForcedVector
<1>5. c.size \in Nat /\ c.size = n /\ c.kind = "bytes" /\ c.val = zeros
  <2> HIDE DEF zeros
  <2> QED BY <1>1, <1>3 DEF MkCell
<1>6. VectorMore(buf, b, c, n)
  <2>1. Roomier(buf, m)
    BY <1>1, PreAlignRoom
  <2> HIDE DEF m, zeros
  <2> QED BY <1>1, <1>2, <2>1, CopiedMade
<1> HIDE DEF b, c, content, zeros
<1>7. Element(b, c)
  BY <1>5 DEF Element
<1>8. content = IF n = 0 THEN Nothing ELSE Content(c.kind, c.size, c.val)
  BY <1>5 DEF content
<1>9. Built(b, c, n, content)
  BY <1>1, <1>4, <1>5, <1>6, <1>7, <1>8, PlainBuilt
<1> QED BY <1>9

\* Every call for a vector or a string builds an item.
LEMMA VectorBuilt ==
    ASSUME BuilderConstants, BuildInv, VectorCalls
    PROVE  \E b, c, m, arg : Built(b, c, m, arg)
<1>1. PICK n \in Lengths :
         \/ \E t \in DOMAIN ScalarTypes : \E es \in [1..n -> Values] : CreateVector(t, es)
         \/ \E offs \in [1..n -> Places(buf)] : CreateVectorOfOffsets(offs)
         \/ \E s \in DOMAIN Structs : CreateVectorOfStructs(s, n)
         \/ \E alignment \in ForcedAligns : CreateForcedVector(n, alignment)
  BY DEF VectorCalls
<1>2. CASE \E t \in DOMAIN ScalarTypes : \E es \in [1..n -> Values] : CreateVector(t, es)
  BY <1>2, ScalarsBuilt
<1>3. CASE \E offs \in [1..n -> Places(buf)] : CreateVectorOfOffsets(offs)
  BY <1>3, OffsetsBuilt
<1>4. CASE \E s \in DOMAIN Structs : CreateVectorOfStructs(s, n)
  BY <1>4, StructsBuilt
<1>5. CASE \E alignment \in ForcedAligns : CreateForcedVector(n, alignment)
  BY <1>5, ForcedBuilt
<1> QED BY <1>1, <1>2, <1>3, <1>4, <1>5

\* Taking back what is in front of a leaves a, but for the room.
LEMMA PopBack ==
    ASSUME NEW a, NEW b, Typed(a), Typed(b), Keeps(a, b), a.minalign <= b.minalign,
           b.held = a.held, a.size <= b.size,
           \A r \in DOMAIN b.cells \ DOMAIN a.cells : r > a.size
    PROVE  SameCells(a, Pop(b, b.size - a.size)) /\ Pop(b, b.size - a.size).aborted = b.aborted
<1> DEFINE d == Pop(b, b.size - a.size)
           f == [r \in {s \in DOMAIN b.cells : s <= b.size - (b.size - a.size)} |-> b.cells[r]]
<1>1. a.size \in Nat /\ b.size \in Nat
  BY Measures
<1>2. b.size - (b.size - a.size) = a.size
  BY <1>1
<1>3. {s \in DOMAIN b.cells : s <= b.size - (b.size - a.size)} = DOMAIN a.cells
  <2>1. \A r \in DOMAIN a.cells : r \in DOMAIN b.cells /\ r <= a.size
    BY CellsInside DEF Keeps
  <2>2. \A r \in DOMAIN b.cells : r \in Nat
    BY CellsInside
  <2>3. \A r \in DOMAIN b.cells : r <= a.size => r \in DOMAIN a.cells
    BY <1>1, <2>2
  <2> QED BY <1>2, <2>1, <2>3
<1>4. f = a.cells
  <2>1. f = [r \in DOMAIN a.cells |-> b.cells[r]]
    BY <1>3
  <2>2. [r \in DOMAIN a.cells |-> b.cells[r]] = [r \in DOMAIN a.cells |-> a.cells[r]]
    BY DEF Keeps
  <2>3. a.cells = [r \in DOMAIN a.cells |-> a.cells[r]]
    BY DEF Typed
  <2> HIDE DEF f
  <2> QED BY <2>1, <2>2, <2>3
<1>5. d = [b EXCEPT !.size = a.size, !.cells = a.cells]
  <2>1. d = [b EXCEPT !.size = b.size - (b.size - a.size), !.cells = f]
    BY Zenon DEF Pop
  <2> HIDE DEF d, f
  <2> QED BY <1>2, <1>4, <2>1
<1>6. d = [reserved |-> b.reserved, size |-> a.size, cells |-> a.cells,
           minalign |-> b.minalign, held |-> b.held, aborted |-> b.aborted]
  <2>1. b = [reserved |-> b.reserved, size |-> b.size, cells |-> b.cells,
             minalign |-> b.minalign, held |-> b.held, aborted |-> b.aborted]
    BY DEF Typed
  <2> HIDE DEF d
  <2> QED BY ONLY <1>5, <2>1
<1> HIDE DEF d, f
<1>7. /\ d.reserved = b.reserved /\ d.size = a.size /\ d.cells = a.cells
      /\ d.minalign = b.minalign /\ d.held = b.held /\ d.aborted = b.aborted
  BY <1>6
<1>8. d = [reserved |-> d.reserved, size |-> d.size, cells |-> d.cells,
           minalign |-> d.minalign, held |-> d.held, aborted |-> d.aborted]
  BY <1>6
<1>9. /\ d.reserved \in Nat /\ d.reserved % WordSize = 0 /\ d.size \in 0..d.reserved
      /\ d.minalign \in Alignments /\ d.held \in BOOLEAN /\ d.aborted \in BOOLEAN
  <2>1. /\ b.reserved \in Nat /\ b.reserved % WordSize = 0 /\ b.size <= b.reserved
        /\ b.minalign \in Alignments /\ b.held \in BOOLEAN /\ b.aborted \in BOOLEAN
    BY DEF Typed
  <2>2. a.size \in 0..b.reserved
    BY <1>1, <2>1
  <2> QED BY <1>7, <2>1, <2>2
<1>10. /\ d.cells = [r \in DOMAIN d.cells |-> d.cells[r]]
       /\ \A r \in DOMAIN d.cells :
             d.cells[r] \in Cell /\ r \in Nat /\ d.cells[r].size <= r /\ r <= d.size
  BY <1>7 DEF Typed
<1>11. Typed(d)
  BY <1>8, <1>9, <1>10 DEF Typed
<1> QED BY <1>7, <1>11 DEF SameCells, d

\* A shared string, known or new.
LEMMA SharedKeeps ==
    ASSUME BuilderConstants, BuildInv, NEW text \in Texts, CreateSharedString(text)
    PROVE  BuildInv'
<1> DEFINE b == StringArena(buf, text)
           c == StringCell(text)
           p == Pop(b, b.size - buf.size)
<1>1. text \in Seq(Int) /\ Typed(buf)
  BY DEF BuilderConstants, BuildInv
<1>2. VectorMore(buf, b, c, Len(text))
  BY <1>1, StringMade
<1>3. c.kind = "string" /\ c.size = Len(text) + 1
  BY DEF StringCell, MkCell
<1>4. \/ AssertFails
      \/ /\ ~nested /\ ~b.aborted
         /\ \E known \in Pooled(b, b.size) : Leaves(p, "share", TextContent(text), known)
         /\ UNCHANGED <<nested, finished, flags, stringPool, tracking>>
      \/ /\ ~nested /\ ~b.aborted /\ Pooled(b, b.size) = {}
         /\ Leaves(b, "build", TextContent(text), b.size)
         /\ stringPool' = stringPool \cup {b.size}
         /\ UNCHANGED <<nested, finished, flags, tracking>>
  BY DEF CreateSharedString
<1>5. ~finished
  BY DEF CreateSharedString, Building
<1> HIDE DEF b, c
<1>6. Len(text) \in Nat /\ c.size \in Nat /\ c.size > 0
  BY <1>1, <1>3
<1>7. /\ Typed(b) /\ Keeps(buf, b) /\ buf.minalign <= b.minalign /\ b.held = buf.held
      /\ b.size - 4 - c.size >= buf.size
      /\ DOMAIN b.cells = DOMAIN buf.cells \cup {b.size, b.size - 4}
      /\ b.cells[b.size] = MkCell(4, 4, "length", <<Len(text)>>)
      /\ b.cells[b.size - 4] = c
  BY <1>2, <1>6 DEF VectorMore
<1>8. buf.size \in Nat /\ b.size \in Nat
  BY <1>1, <1>7, Measures
<1>9. CASE AssertFails
  BY <1>9, FailKeeps
<1>10. CASE /\ ~nested /\ ~b.aborted
            /\ \E known \in Pooled(b, b.size) : Leaves(p, "share", TextContent(text), known)
            /\ UNCHANGED <<nested, finished, flags, stringPool, tracking>>
  <2>1. \A r \in DOMAIN b.cells \ DOMAIN buf.cells : r > buf.size
    BY <1>6, <1>7, <1>8
  <2>2. buf.size <= b.size
    BY <1>6, <1>7, <1>8
  <2>3. SameCells(buf, p) /\ p.aborted = b.aborted
    BY <1>1, <1>7, <2>1, <2>2, PopBack
  <2> HIDE DEF p
  <2>4. buf' = p
    BY <1>10, <2>3 DEF Leaves
  <2>5. UNCHANGED Rest
    BY <1>10 DEF Rest, tracking, flags
  <2> QED BY <2>3, <2>4, <2>5, RoomKeeps
<1>11. CASE /\ ~nested /\ ~b.aborted /\ Pooled(b, b.size) = {}
            /\ Leaves(b, "build", TextContent(text), b.size)
            /\ stringPool' = stringPool \cup {b.size}
            /\ UNCHANGED <<nested, finished, flags, tracking>>
  <2>1. buf' = b
    BY <1>11 DEF Leaves
  <2>2. Element(b, c)
    BY <1>1, <1>7, StringElement DEF c
  <2>3. ASSUME PoolSound(b, stringPool) PROVE PoolSound(b, stringPool')
    <3>1. /\ {b.size, b.size - 4} \subseteq DOMAIN b.cells
          /\ b.cells[b.size].kind = "length" /\ b.cells[b.size - 4].kind = "string"
      BY <1>3, <1>7 DEF MkCell
    <3>2. \A o \in stringPool : CStr(TextAt(b, o)) # CStr(TextAt(b, b.size))
      BY <1>11 DEF Pooled
    <3>3. \A o \in stringPool' :
             /\ {o, o - 4} \subseteq DOMAIN b.cells
             /\ b.cells[o].kind = "length" /\ b.cells[o - 4].kind = "string"
      BY <1>11, <2>3, <3>1 DEF PoolSound
    <3>4. \A o, q \in stringPool' : CStr(TextAt(b, o)) = CStr(TextAt(b, q)) => o = q
      BY <1>11, <2>3, <3>2 DEF PoolSound
    <3> QED BY <3>3, <3>4 DEF PoolSound
  <2> QED BY <1>2, <1>5, <1>6, <1>11, <2>1, <2>2, <2>3, MoreKeeps
<1> QED BY <1>4, <1>9, <1>10, <1>11

-----------------------------------------------------------------------------
(* Fields.                                                                 *)

\* Sums of multiples are multiples.
LEMMA SumAligned ==
    ASSUME NEW a \in Alignments, NEW m \in Nat, NEW n \in Nat, m % a = 0, n % a = 0
    PROVE  (m + n) % a = 0
<1>1. CASE a = 1
  BY <1>1
<1>2. CASE a = 2
  BY <1>2
<1>3. CASE a = 4
  BY <1>3
<1>4. CASE a = 8
  BY <1>4
<1>5. CASE a = 16
  BY <1>5
<1> QED BY <1>1, <1>2, <1>3, <1>4, <1>5 DEF Alignments

\* A field of the table being built that may be added.
Free(i) ==
    /\ i \in DOMAIN table.fields /\ table # NoTable /\ ~finished
    /\ AddTwice \/ \A k \in DOMAIN offsetbuf : offsetbuf[k].id # i

\* It has been added, read as what the client gave, or is a default left out.
FieldSet(i, b, c, arg) ==
    /\ Free(i) /\ OneMore(buf, b, c) /\ Field(i, b, arg)
    /\ c \in Cell /\ c.kind \in {"scalar", "uoffset", "struct"}
    /\ c.align \in Alignments /\ c.align <= b.minalign /\ b.size % c.align = 0
    /\ arg = ReadAt(b, b.size) /\ Store!RefsOf(arg) \subseteq Places(buf)

FieldSkipped(i, w) ==
    /\ Free(i) /\ call' = Called("set", Content("scalar", w, <<Default>>), i)
    /\ UNCHANGED <<buf, offsetbuf, nested, finished, flags, vtables, table, stringPool>>

\* A call that adds a field keeps the builder sound.
LEMMA FieldKeeps ==
    ASSUME BuildInv, NEW i, NEW b, NEW c, NEW content, FieldSet(i, b, c, content)
    PROVE  BuildInv'
<1>0. /\ i \in DOMAIN table.fields /\ table # NoTable /\ ~finished
      /\ OneMore(buf, b, c) /\ Field(i, b, content)
      /\ c \in Cell /\ c.kind \in {"scalar", "uoffset", "struct"}
      /\ c.align \in Alignments /\ c.align <= b.minalign /\ b.size % c.align = 0
  BY DEF FieldSet, Free
<1>1. /\ vtables' = vtables /\ stringPool' = stringPool
      /\ nested' = nested /\ finished' = finished /\ table' = table
      /\ forceDefaults' = forceDefaults /\ dedupVtables' = dedupVtables
      /\ Leaves(b, "set", content, i)
      /\ offsetbuf' = IF b.aborted THEN offsetbuf ELSE TrackField(i, b)
  BY <1>0 DEF Field, flags
<1>2. Typed(buf) /\ Placed(buf) /\ TablesSound(buf) /\ nested /\ buf.held
  BY <1>0 DEF BuildInv
<1>3. CASE b.aborted
  <2>1. buf' = Abort(buf) /\ UNCHANGED Rest
    BY <1>1, <1>3 DEF Leaves, Rest, flags
  <2> QED BY <1>2, <2>1, AbortSame, RoomKeeps
<1>4. CASE ~b.aborted
  <2>1. buf' = b /\ offsetbuf' = Append(offsetbuf, [id |-> i, off |-> b.size])
    BY <1>1, <1>4 DEF Leaves, TrackField
  <2>2. /\ Typed(b) /\ Keeps(buf, b) /\ buf.minalign <= b.minalign /\ b.held = buf.held
        /\ b.size - c.size >= buf.size /\ b.size \notin DOMAIN buf.cells
        /\ DOMAIN b.cells = DOMAIN buf.cells \cup {b.size} /\ b.cells[b.size] = c
    BY <1>0 DEF OneMore
  <2>3. \A r \in DOMAIN b.cells \ DOMAIN buf.cells :
           Even(b, r) /\ b.cells[r].kind \notin {"soffset", "vtable", "prefix"}
    BY <1>0, <2>2 DEF Even
  <2>4. Placed(b) /\ TablesSound(b)
    BY <1>2, <2>2, <2>3, KeepsPlaced, KeepsTables
  <2>5. Listed(b, vtables) /\ ((\A f \in FlagChoices : f.dedup) => Different(b, vtables))
    BY <1>2, <2>2, <2>3, KeepsVtables DEF BuildInv
  <2>6. PoolSound(b, stringPool)
    BY <1>2, <2>2, KeepsPool DEF BuildInv
  <2>7. NoPrefix(b)
    BY <1>0, <2>2, <2>3 DEF BuildInv, NoPrefix, Keeps
  <2>8. buf.size \in Nat /\ b.size \in Nat /\ c.size \in Nat
    BY <1>0, <1>2, <2>2, Measures DEF Cell
  <2>9. DraftIn(buf, table, offsetbuf) /\ offsetbuf \in Seq([id : Nat, off : Nat])
    BY <1>2 DEF BuildInv
  <2>10. i \in Nat
    BY <1>0, <2>9 DEF DraftIn
  <2>11. DraftIn(b, table, offsetbuf)
    BY <1>2, <2>2, <2>8, <2>9, KeepsDraft
  <2> DEFINE l == [id |-> i, off |-> b.size]
             locs == Append(offsetbuf, l)
  <2>12. l \in [id : Nat, off : Nat] /\ l.id = i /\ l.off = b.size
    BY <2>8, <2>10
  <2> HIDE DEF l
  <2>13. /\ locs \in Seq([id : Nat, off : Nat])
         /\ DOMAIN locs = DOMAIN offsetbuf \cup {Len(offsetbuf) + 1}
         /\ \A k \in DOMAIN offsetbuf : locs[k] = offsetbuf[k]
         /\ locs[Len(offsetbuf) + 1] = l
    BY ONLY <2>9, <2>12, AppendProperties
  <2> HIDE DEF locs
  <2>14. /\ table.fields \in Seq(FieldTypes) /\ table.start \in Nat /\ table.start <= b.size
         /\ table.start <= buf.size
    BY <2>9, <2>11 DEF DraftIn
  <2>15. ASSUME NEW k \in DOMAIN locs
         PROVE  /\ locs[k].id \in DOMAIN table.fields /\ locs[k].off \in DOMAIN b.cells
                /\ locs[k].off - b.cells[locs[k].off].size >= table.start
    <3>1. CASE k \in DOMAIN offsetbuf
      BY <2>11, <2>13, <3>1 DEF DraftIn
    <3>2. CASE k \notin DOMAIN offsetbuf
      <4>1. locs[k] = l
        BY <2>13, <3>2
      <4>2. locs[k].id = i /\ locs[k].off = b.size
        BY <2>12, <4>1
      <4> QED BY <1>0, <2>2, <2>8, <2>14, <4>2
    <3> QED BY <3>1, <3>2
  <2>16. ASSUME NEW j \in DOMAIN locs, NEW k \in DOMAIN locs, locs[j].off = locs[k].off
         PROVE  j = k
    <3>1. \A m \in DOMAIN locs : IF m \in DOMAIN offsetbuf
                                 THEN locs[m].off = offsetbuf[m].off /\ locs[m].off # b.size
                                 ELSE locs[m].off = b.size /\ m = Len(offsetbuf) + 1
      <4>1. \A m \in DOMAIN offsetbuf : offsetbuf[m].off # b.size
        BY <2>2, <2>9 DEF DraftIn
      <4>2. \A m \in DOMAIN locs :
               m \in DOMAIN offsetbuf \/ (m = Len(offsetbuf) + 1 /\ locs[m].off = b.size)
        BY <2>12, <2>13
      <4> QED BY <2>13, <4>1, <4>2
    <3> QED BY <2>9, <2>16, <3>1 DEF DraftIn
  <2>17. DraftIn(b, table, locs)
    BY <2>14, <2>15, <2>16 DEF DraftIn
  <2>18. offsetbuf' = locs
    BY <2>1 DEF locs, l
  <2> QED BY <1>0, <1>1, <1>2, <2>1, <2>2, <2>4, <2>5, <2>6, <2>7, <2>13, <2>17, <2>18 DEF BuildInv
<1> QED BY <1>3, <1>4

\* What is no offset is read as it was written.
LEMMA PlainSet ==
    ASSUME NEW i, NEW b, NEW c \in Cell, Free(i), OneMore(buf, b, c),
           c.kind \in {"scalar", "struct"},
           c.align \in Alignments, c.align <= b.minalign, b.size % c.align = 0,
           NEW arg, Field(i, b, arg), arg = Content(c.kind, c.size, c.val)
    PROVE  FieldSet(i, b, c, arg)
<1>1. b.cells[b.size] = c /\ arg.kind = c.kind
  BY DEF OneMore, Content
<1>2. arg = ReadAt(b, b.size) /\ Store!RefsOf(arg) = {}
  BY <1>1 DEF ReadAt, Store!RefsOf
<1> QED BY <1>2 DEF FieldSet

\* A field is added only while a table is open.
LEMMA AddingFree ==
    ASSUME NEW i \in DOMAIN table.fields, NEW types, Adding(i, types)
    PROVE  Free(i)
BY DEF Adding, Building, Free

\* AddElement sets the field or skips a default.
LEMMA ElementSet ==
    ASSUME BuilderConstants, BuildInv, NEW i \in DOMAIN table.fields,
           NEW t \in DOMAIN ScalarTypes, NEW v \in Values, AddElement(i, t, v)
    PROVE  \/ \E w \in Nat \ {0} : FieldSkipped(i, w)
           \/ \E b, c, arg : FieldSet(i, b, c, arg)
<1> DEFINE size == ScalarTypes[t]
           content == Content("scalar", size, <<v>>)
           b == PushElement(buf, size, "scalar", v)
           c == MkCell(size, size, "scalar", <<v>>)
<1>1. /\ Adding(i, {t})
      /\ \/ /\ v = Default /\ call' = Called("set", content, i)
            /\ UNCHANGED <<buf, offsetbuf, nested, finished, flags, vtables, table, stringPool>>
         \/ Field(i, b, content)
  BY DEF AddElement
<1>2. Free(i) /\ Typed(buf)
  BY <1>1, AddingFree DEF BuildInv
<1>3. size \in Alignments /\ v \in Int /\ "scalar" \in CellKinds /\ size \in Nat \ {0}
  BY DEF BuilderConstants, Alignments, CellKinds
<1> HIDE DEF size
<1>4. CASE /\ v = Default /\ call' = Called("set", content, i)
           /\ UNCHANGED <<buf, offsetbuf, nested, finished, flags, vtables, table, stringPool>>
  BY <1>2, <1>3, <1>4 DEF FieldSkipped
<1>5. CASE Field(i, b, content)
  <2>1. OneMore(buf, b, c) /\ b.minalign >= size /\ b.size % size = 0
    BY <1>2, <1>3, ElementOne
  <2>2. c \in Cell /\ c.kind = "scalar" /\ c.align = size
        /\ content = Content(c.kind, c.size, c.val)
    BY <1>3 DEF MkCell, Cell
  <2>3. b.minalign \in Nat
    BY <2>1, Measures DEF OneMore
  <2> HIDE DEF b, c, content
  <2>4. size <= b.minalign
    BY <1>3, <2>1, <2>3
  <2> QED BY <1>2, <1>3, <1>5, <2>1, <2>2, <2>4, PlainSet
<1> QED BY <1>1, <1>4, <1>5

\* AddOffset sets the field.
LEMMA OffsetSet ==
    ASSUME BuilderConstants, BuildInv, NEW i \in DOMAIN table.fields,
           NEW off \in Places(buf), AddOffset(i, off)
    PROVE  \E b, c, arg : FieldSet(i, b, c, arg)
<1> DEFINE content == Content("uoffset", 4, <<off>>)
           b == PushOffset(buf, off)
           c == MkCell(4, 4, "uoffset", <<b.size - off>>)
<1>1. Adding(i, RefTypes) /\ Field(i, b, content)
  BY DEF AddOffset
<1>2. Free(i) /\ Typed(buf) /\ off \in DOMAIN buf.cells
  BY <1>1, AddingFree DEF BuildInv, Places
<1>3. OneMore(buf, b, c) /\ b.minalign >= 4 /\ b.size % 4 = 0
  BY <1>2, OffsetOne
<1> HIDE DEF b
<1>4. b.minalign \in Nat /\ b.size \in Nat /\ off \in Nat /\ 4 \in Alignments
  BY <1>2, <1>3, Measures, CellsInside DEF OneMore, Alignments
<1>5. c \in Cell /\ c.kind = "uoffset" /\ c.align = 4
  <2>1. <<b.size - off>> \in Seq(Int) /\ "uoffset" \in CellKinds
    BY <1>4 DEF CellKinds
  <2> QED BY <2>1 DEF MkCell, Cell
<1>6. c.val = <<b.size - off>> /\ c.size = 4
  BY DEF MkCell
<1> HIDE DEF c
<1>7. b.cells[b.size] = c
  BY <1>3 DEF OneMore
<1>8. content = ReadAt(b, b.size)
  <2>1. Target(b, b.size, 1) = off
    BY <1>4, <1>6, <1>7 DEF Target
  <2>2. [k \in DOMAIN c.val |-> Target(b, b.size, k)] = <<off>>
    BY <1>6, <2>1
  <2> QED BY <1>5, <1>6, <1>7, <2>2 DEF ReadAt
<1>9. Store!RefsOf(content) = {off}
  BY DEF Store!RefsOf, Content
<1> HIDE DEF content
<1>10. 4 <= b.minalign
  BY <1>3, <1>4
<1> QED BY <1>1, <1>2, <1>3, <1>4, <1>5, <1>8, <1>9, <1>10 DEF FieldSet

\* AddStruct sets the field.
LEMMA StructSet ==
    ASSUME BuilderConstants, BuildInv, NEW i \in DOMAIN table.fields,
           NEW s \in DOMAIN Structs, AddStruct(i, s)
    PROVE  \E b, c, arg : FieldSet(i, b, c, arg)
<1> DEFINE align == Structs[s].align
           bytes == Structs[s].bytes
           c == MkCell(bytes, align, "struct", <<0>>)
           content == Content("struct", bytes, <<0>>)
           m == Align(buf, align)
           b == Push(m, c)
<1>1. /\ c.align = align /\ c.size = bytes /\ c.kind = "struct"
      /\ content = Content(c.kind, c.size, c.val)
  BY DEF MkCell
<1>2. Adding(i, {s}) /\ Field(i, b, content)
  BY <1>1 DEF AddStruct
<1>3. Free(i) /\ Typed(buf)
  BY <1>2, AddingFree DEF BuildInv
<1>4. align \in Alignments /\ bytes \in Nat \ {0} /\ bytes % align = 0 /\ align \in Nat \ {0}
  BY DEF BuilderConstants, Alignments
<1>5. c \in Cell
  <2>1. "struct" \in CellKinds
    BY DEF CellKinds
  <2> QED BY <1>4, <2>1 DEF MkCell, Cell
<1> HIDE DEF align, bytes, c, content
<1>6. Roomier(buf, m) /\ m.minalign >= align /\ m.size % align = 0
  BY <1>3, <1>4, AlignRoom
<1> HIDE DEF m
<1>7. Typed(m)
  BY <1>6 DEF Roomier
<1>8. OneMore(m, b, c) /\ b.size = m.size + bytes /\ b.minalign = m.minalign
  BY <1>1, <1>5, <1>7, PushOne
<1> HIDE DEF b
<1>9. OneMore(buf, b, c)
  BY <1>1, <1>3, <1>4, <1>6, <1>8, RoomOne
<1>10. b.size % align = 0
  <2>1. m.size \in Nat
    BY <1>7, Measures
  <2> QED BY <1>4, <1>6, <1>8, <2>1, SumAligned
<1>11. align <= b.minalign
  <2>1. m.minalign \in Nat
    BY <1>7, Measures
  <2> QED BY <1>4, <1>6, <1>8, <2>1
<1> QED BY <1>1, <1>2, <1>3, <1>4, <1>5, <1>9, <1>10, <1>11, PlainSet

\* Every call for a field sets it or skips a default.
LEMMA FieldAdded ==
    ASSUME BuilderConstants, BuildInv, FieldCalls
    PROVE  \E i : \/ \E w \in Nat \ {0} : FieldSkipped(i, w)
                  \/ \E b, c, arg : FieldSet(i, b, c, arg)
<1>1. PICK i \in DOMAIN table.fields :
         \/ \E t \in DOMAIN ScalarTypes, v \in Values : AddElement(i, t, v)
         \/ \E off \in Places(buf) : AddOffset(i, off)
         \/ \E s \in DOMAIN Structs : AddStruct(i, s)
  BY DEF FieldCalls
<1>2. CASE \E t \in DOMAIN ScalarTypes, v \in Values : AddElement(i, t, v)
  BY <1>2, ElementSet
<1>3. CASE \E off \in Places(buf) : AddOffset(i, off)
  BY <1>3, OffsetSet
<1>4. CASE \E s \in DOMAIN Structs : AddStruct(i, s)
  BY <1>4, StructSet
<1> QED BY <1>1, <1>2, <1>3, <1>4

-----------------------------------------------------------------------------
(* Finishing a table.                                                      *)

\* The entry of a field is its distance from the start of the table, 0 if there
\* is none.
Slots(vt, r, locs, fields, start) ==
    LET n == Len(fields)
    IN  /\ vt \in Cell /\ vt.kind = "vtable" /\ vt.align = 2 /\ vt.size = 2 * n + 4
        /\ Len(vt.val) = n + 2 /\ vt.val[1] = 2 * n + 4 /\ vt.val[2] = r - start
        /\ \A i \in 1..n :
              \/ vt.val[i + 2] = 0 /\ \A k \in DOMAIN locs : locs[k].id # i
              \/ \E k \in DOMAIN locs : locs[k].id = i /\ vt.val[i + 2] = r - locs[k].off

\* EndTable fills the slot of every field that was added and leaves the others at 0.
LEMMA VtableMade ==
    ASSUME NEW b, DraftIn(b, table, offsetbuf), offsetbuf \in Seq([id : Nat, off : Nat]),
           NEW r \in Nat
    PROVE  Slots(VtableCell(r, offsetbuf), r, offsetbuf, table.fields, table.start)
<1> DEFINE n == Len(table.fields)
           Positions(i) ==
               {r - offsetbuf[k].off : k \in {j \in DOMAIN offsetbuf : offsetbuf[j].id = i}}
           s == [i \in 1..n |-> IF Positions(i) = {} THEN 0 ELSE CHOOSE p \in Positions(i) : TRUE]
           h == <<2 * n + 4, r - table.start>>
           val == h \o s
           vt == VtableCell(r, offsetbuf)
<1>1. vt = MkCell(2 * n + 4, 2, "vtable", val)
  BY DEF VtableCell
<1>2. n \in Nat /\ table.start \in Nat
  BY DEF DraftIn
<1>3. \A k \in DOMAIN offsetbuf : offsetbuf[k] \in [id : Nat, off : Nat]
  <2>1. /\ offsetbuf \in [1..Len(offsetbuf) -> [id : Nat, off : Nat]]
        /\ DOMAIN offsetbuf = 1..Len(offsetbuf)
    BY LenProperties
  <2> QED BY ONLY <2>1
<1>4. \A i \in 1..n : Positions(i) \subseteq Int
  <2>1. \A k \in DOMAIN offsetbuf : offsetbuf[k].off \in Nat
    BY <1>3
  <2>2. \A k \in DOMAIN offsetbuf : r - offsetbuf[k].off \in Int
    BY <2>1
  <2> QED BY <2>2
<1>5. ASSUME NEW i \in 1..n
      PROVE  s[i] \in Int /\ ((s[i] = 0 /\ Positions(i) = {}) \/ s[i] \in Positions(i))
  <2>1. s[i] = IF Positions(i) = {} THEN 0 ELSE CHOOSE p \in Positions(i) : TRUE
    OBVIOUS
  <2> HIDE DEF s, Positions
  <2>2. CASE Positions(i) = {}
    BY <2>1, <2>2
  <2>3. CASE Positions(i) # {}
    <3>1. s[i] = CHOOSE p \in Positions(i) : TRUE
      BY <2>1, <2>3
    <3>2. (CHOOSE p \in Positions(i) : TRUE) \in Positions(i)
      BY <2>3
    <3> QED BY <1>4, <3>1, <3>2
  <2> QED BY <2>2, <2>3
<1>6. s \in Seq(Int) /\ Len(s) = n
  <2>1. s \in [1..n -> Int]
    <3>1. s = [i \in 1..n |-> s[i]]
      OBVIOUS
    <3> HIDE DEF s
    <3> QED BY <1>5, <3>1
  <2> HIDE DEF s, n
  <2> QED BY ONLY <1>2, <2>1
<1>7. h \in Seq(Int) /\ Len(h) = 2 /\ h[1] = 2 * n + 4 /\ h[2] = r - table.start
  <2>1. 2 * n + 4 \in Int /\ r - table.start \in Int
    BY <1>2
  <2> QED BY <2>1
<1>8. \A i \in 1..n :
         \/ s[i] = 0 /\ \A k \in DOMAIN offsetbuf : offsetbuf[k].id # i
         \/ \E k \in DOMAIN offsetbuf : offsetbuf[k].id = i /\ s[i] = r - offsetbuf[k].off
  <2> SUFFICES ASSUME NEW i \in 1..n
               PROVE  \/ s[i] = 0 /\ \A k \in DOMAIN offsetbuf : offsetbuf[k].id # i
                      \/ \E k \in DOMAIN offsetbuf :
                            offsetbuf[k].id = i /\ s[i] = r - offsetbuf[k].off
    OBVIOUS
  <2>1. (s[i] = 0 /\ Positions(i) = {}) \/ s[i] \in Positions(i)
    BY <1>5
  <2> HIDE DEF s
  <2>2. \A k \in DOMAIN offsetbuf : offsetbuf[k].id = i => r - offsetbuf[k].off \in Positions(i)
    OBVIOUS
  <2>3. s[i] \in Positions(i) =>
           \E k \in DOMAIN offsetbuf : offsetbuf[k].id = i /\ s[i] = r - offsetbuf[k].off
    OBVIOUS
  <2> HIDE DEF Positions
  <2> QED BY <2>1, <2>2, <2>3
<1> HIDE DEF h, s, n
<1>9. /\ val \in Seq(Int) /\ Len(val) = n + 2
      /\ val[1] = h[1] /\ val[2] = h[2] /\ \A i \in 1..n : val[i + 2] = s[i]
  <2>1. /\ val \in Seq(Int) /\ Len(val) = Len(h) + Len(s)
        /\ \A i \in 1..Len(h) + Len(s) : val[i] = IF i <= Len(h) THEN h[i] ELSE s[i - Len(h)]
    BY <1>6, <1>7, ConcatProperties
  <2> HIDE DEF val
  <2>2. Len(val) = n + 2 /\ val[1] = h[1] /\ val[2] = h[2]
    BY <1>2, <1>6, <1>7, <2>1
  <2>3. ASSUME NEW i \in 1..n PROVE val[i + 2] = s[i]
    <3>1. i + 2 \in 1..Len(h) + Len(s) /\ ~(i + 2 <= Len(h)) /\ i + 2 - Len(h) = i
      BY <1>2, <1>6, <1>7
    <3> QED BY <2>1, <3>1
  <2> QED BY <2>1, <2>2, <2>3
<1> HIDE DEF val, vt
<1>10. /\ vt.size = 2 * n + 4 /\ vt.align = 2 /\ vt.kind = "vtable" /\ vt.val = val
       /\ vt \in Cell
  <2>1. 2 * n + 4 \in Nat \ {0} /\ "vtable" \in CellKinds
    BY <1>2 DEF CellKinds
  <2> QED BY <1>1, <1>9, <2>1 DEF MkCell, Cell
<1>11. /\ Len(vt.val) = n + 2 /\ vt.val[1] = 2 * n + 4 /\ vt.val[2] = r - table.start
       /\ \A i \in 1..n : vt.val[i + 2] = s[i]
  BY ONLY <1>7, <1>9, <1>10
<1>12. \A i \in 1..n :
          \/ vt.val[i + 2] = 0 /\ \A k \in DOMAIN offsetbuf : offsetbuf[k].id # i
          \/ \E k \in DOMAIN offsetbuf :
                offsetbuf[k].id = i /\ vt.val[i + 2] = r - offsetbuf[k].off
  BY ONLY <1>8, <1>11
<1> QED BY ONLY <1>10, <1>11, <1>12 DEF Slots, vt, n

\* The soffset is written into the table when the place of the vtable is known.
LEMMA Patched ==
    ASSUME NEW b, Typed(b), NEW r \in DOMAIN b.cells,
           b.cells[r] = MkCell(4, 4, "soffset", << 0 >>), NEW v \in Int
    PROVE  LET c == PatchSOffset(b, r, v)
           IN  /\ Typed(c) /\ c.size = b.size /\ c.minalign = b.minalign /\ c.held = b.held
               /\ DOMAIN c.cells = DOMAIN b.cells
               /\ c.cells[r] = MkCell(4, 4, "soffset", <<v - r>>)
               /\ \A q \in DOMAIN b.cells : q # r => c.cells[q] = b.cells[q]
<1> DEFINE c == PatchSOffset(b, r, v)
           x == MkCell(4, 4, "soffset", <<v - r>>)
           f == [q \in DOMAIN b.cells |-> IF q = r THEN x ELSE b.cells[q]]
<1>1. r \in 1..b.size
  BY CellsInside
<1>2. [b.cells[r] EXCEPT !.val = <<v - r>>] = x
  BY DEF MkCell
<1>3. c = [b EXCEPT !.cells = [b.cells EXCEPT ![r] = x]]
  <2>1. c = [b EXCEPT !.cells = [b.cells EXCEPT ![r] = [b.cells[r] EXCEPT !.val = <<v - r>>]]]
    BY Zenon DEF PatchSOffset
  <2> HIDE DEF c, x
  <2> QED BY ONLY <1>2, <2>1
<1>4. [b.cells EXCEPT ![r] = x] = f
  <2>1. b.cells = [q \in DOMAIN b.cells |-> b.cells[q]]
    BY DEF Typed
  <2> HIDE DEF x
  <2> QED BY <2>1
<1>5. c = [reserved |-> b.reserved, size |-> b.size, cells |-> f,
           minalign |-> b.minalign, held |-> b.held, aborted |-> b.aborted]
  <2>1. b = [reserved |-> b.reserved, size |-> b.size, cells |-> b.cells,
             minalign |-> b.minalign, held |-> b.held, aborted |-> b.aborted]
    BY DEF Typed
  <2>2. c = [b EXCEPT !.cells = f]
    BY <1>3, <1>4
  <2> HIDE DEF c, f
  <2> QED BY ONLY <2>1, <2>2
<1>6. /\ DOMAIN f = DOMAIN b.cells /\ f[r] = x
      /\ \A q \in DOMAIN b.cells : q # r => f[q] = b.cells[q]
      /\ f = [q \in DOMAIN f |-> f[q]]
  <2> HIDE DEF x
  <2> QED OBVIOUS
<1>7. x \in Cell /\ x.size = 4
  <2>1. <<v - r>> \in Seq(Int) /\ "soffset" \in CellKinds
    BY <1>1 DEF CellKinds
  <2> QED BY <2>1 DEF MkCell, Cell
<1>8. 4 <= r
  BY DEF MkCell, Typed
<1> HIDE DEF c, f, x
<1>9. /\ c.reserved = b.reserved /\ c.size = b.size /\ c.cells = f
      /\ c.minalign = b.minalign /\ c.held = b.held /\ c.aborted = b.aborted
  BY <1>5
<1>10. c = [reserved |-> c.reserved, size |-> c.size, cells |-> c.cells,
            minalign |-> c.minalign, held |-> c.held, aborted |-> c.aborted]
  BY <1>5
<1>11. \A q \in DOMAIN f : f[q] \in Cell /\ q \in Nat /\ f[q].size <= q /\ q <= b.size
  BY <1>1, <1>6, <1>7, <1>8 DEF Typed
<1>12. Typed(c)
  BY <1>6, <1>9, <1>10, <1>11 DEF Typed
<1> QED BY <1>6, <1>9, <1>12 DEF c, x

\* The least of some numbers, which is the one FirstOf chooses.
LEMMA FirstIs ==
    ASSUME NEW S \in SUBSET Nat, S # {}
    PROVE  FirstOf(S) \in S /\ \A m \in S : FirstOf(S) <= m
<1> DEFINE R == OpToRel(<, Nat)
<1>1. IsWellFoundedOn(R, Nat)
  BY NatLessThanWellFounded
<1> HIDE DEF R
<1>2. PICK n \in S : \A m \in S : <<m, n>> \notin R
  BY <1>1, WFMin
<1>3. \A m \in S : ~(m < n)
  BY <1>2 DEF R, OpToRel
<1>4. \A m \in S : n <= m
  BY <1>3
<1> QED BY <1>4 DEF FirstOf

\* c is b, with a table more, whose vtable is its own or one there has been.
TableMore(b, c, r, v, vt) ==
    /\ Typed(c) /\ Keeps(b, c) /\ b.minalign <= c.minalign /\ 4 <= c.minalign
    /\ c.held = b.held
    /\ r \in Nat /\ r - 4 >= b.size /\ r % 4 = 0 /\ r \notin DOMAIN b.cells
    /\ c.cells[r] = MkCell(4, 4, "soffset", <<v - r>>)
    /\ \/ /\ v \in VtableCells(b) /\ b.cells[v].val = vt.val
          /\ DOMAIN c.cells = DOMAIN b.cells \cup {r} /\ c.size = r
       \/ /\ v \notin DOMAIN b.cells /\ v = c.size /\ v > r /\ v % 2 = 0 /\ c.cells[v] = vt
          /\ DOMAIN c.cells = DOMAIN b.cells \cup {r, v}

\* EndTable puts the offset of a vtable in front of the fields, a vtable that is there
\* already if vtables are shared.
LEMMA TableMade ==
    ASSUME BuildInv, EndTable, ~AssertFails
    PROVE  \E r, v \in Nat :
              LET vt == VtableCell(r, offsetbuf)
              IN  /\ TableMore(buf, buf', r, v, vt)
                  /\ Slots(vt, r, offsetbuf, table.fields, table.start)
                  /\ vtables' = IF v \in VtableCells(buf) THEN vtables ELSE Append(vtables, v)
                  /\ v \notin VtableCells(buf) /\ dedupVtables => Known(vt) = {}
                  /\ call' = Called("commit", Nothing, r)
<1> DEFINE a  == PushElement(buf, 4, "soffset", 0)
           r  == a.size
           vt == VtableCell(a.size, offsetbuf)
           b  == Push(a, vt)
           reuse == dedupVtables /\ Known(vt) # {}
           use   == IF reuse THEN vtables[FirstOf(Known(vt))] ELSE b.size
           m  == IF reuse THEN PopVtable(b, a.size) ELSE b
           c  == PatchSOffset(m, r, use)
<1>1. /\ Leaves(c, "commit", Nothing, a.size) /\ ~b.aborted
      /\ vtables' = IF reuse THEN vtables ELSE Append(vtables, use)
      /\ Building /\ table # NoTable
  BY DEF EndTable
<1>2. /\ Typed(buf) /\ nested /\ buf.held /\ DraftIn(buf, table, offsetbuf)
      /\ offsetbuf \in Seq([id : Nat, off : Nat]) /\ vtables \in Seq(Nat)
      /\ Listed(buf, vtables)
  BY <1>1 DEF BuildInv
<1>3. 4 \in Alignments /\ "soffset" \in CellKinds
  BY DEF Alignments, CellKinds
<1> DEFINE z == MkCell(4, 4, "soffset", <<0>>)
<1>4. OneMore(buf, a, z) /\ a.minalign >= 4 /\ a.size % 4 = 0
  BY ONLY <1>2, <1>3, 0 \in Int, ElementOne
<1> HIDE DEF a
<1>5. z.size = 4
  BY DEF MkCell
<1> HIDE DEF z
<1>6. /\ Typed(a) /\ Keeps(buf, a) /\ buf.minalign <= a.minalign /\ a.held = buf.held
      /\ r - 4 >= buf.size /\ r \notin DOMAIN buf.cells
      /\ DOMAIN a.cells = DOMAIN buf.cells \cup {r} /\ a.cells[r] = z
  BY <1>4, <1>5 DEF OneMore
<1>7. /\ r \in Nat /\ buf.size \in Nat /\ buf.minalign \in Nat /\ a.minalign \in Nat
  BY <1>2, <1>6, Measures
<1>8. Slots(vt, r, offsetbuf, table.fields, table.start)
  BY <1>2, <1>7, VtableMade
<1> HIDE DEF vt
<1>9. vt \in Cell /\ vt.kind = "vtable" /\ vt.size = 2 * Len(table.fields) + 4
      /\ Len(table.fields) \in Nat
  BY <1>2, <1>8 DEF Slots, DraftIn
<1>10. OneMore(a, b, vt) /\ b.size = r + vt.size /\ b.minalign = a.minalign
  BY <1>6, <1>9, PushOne
<1> HIDE DEF b
<1>11. /\ Typed(b) /\ Keeps(a, b) /\ b.held = a.held /\ b.size \notin DOMAIN a.cells
       /\ DOMAIN b.cells = DOMAIN a.cells \cup {b.size} /\ b.cells[b.size] = vt
  BY <1>10 DEF OneMore
<1>12. b.size \in Nat /\ b.size > r /\ b.size % 2 = 0
  <2> DEFINE n == Len(table.fields)
  <2>1. b.size = r + (2 * n + 4) /\ n \in Nat
    BY <1>9, <1>10
  <2> HIDE DEF n
  <2>2. r % 2 = 0
    BY <1>4, <1>7
  <2> QED BY ONLY <1>7, <2>1, <2>2
<1>13. CASE reuse
  <2>1. Known(vt) \in SUBSET Nat /\ Known(vt) # {}
    BY <1>2, <1>13 DEF Known
  <2>2. FirstOf(Known(vt)) \in Known(vt)
    BY <2>1, FirstIs
  <2> DEFINE v == vtables[FirstOf(Known(vt))]
  <2>3. FirstOf(Known(vt)) \in DOMAIN vtables /\ buf.cells[v].val = vt.val
    BY <2>2 DEF Known
  <2>4. v \in VtableCells(buf)
    BY <1>2, <2>3 DEF Listed
  <2> HIDE DEF v
  <2>5. v \in Nat
    BY <1>2, <2>4, CellsInside DEF VtableCells
  <2>6. use = v
    BY <1>13 DEF v
  <2>7. m = Pop(b, b.size - a.size)
    BY <1>13 DEF PopVtable
  <2>8. \A q \in DOMAIN b.cells \ DOMAIN a.cells : q > a.size
    BY <1>11, <1>12
  <2>9. a.minalign <= b.minalign /\ a.size <= b.size
    BY <1>7, <1>10, <1>12
  <2>10. SameCells(a, m) /\ m.aborted = b.aborted
    BY <1>6, <1>11, <2>7, <2>8, <2>9, PopBack
  <2> HIDE DEF m
  <2>11. Typed(m) /\ m.cells = a.cells /\ m.size = a.size /\ m.held = a.held
         /\ a.minalign <= m.minalign
    BY <2>10 DEF SameCells
  <2>12. /\ Typed(c) /\ c.size = m.size /\ c.minalign = m.minalign /\ c.held = m.held
         /\ DOMAIN c.cells = DOMAIN m.cells
         /\ c.cells[r] = MkCell(4, 4, "soffset", <<v - r>>)
         /\ \A q \in DOMAIN m.cells : q # r => c.cells[q] = m.cells[q]
    BY <1>6, <2>5, <2>6, <2>11, Patched DEF z
  <2>13. c.aborted = m.aborted
    <3>1. m = [reserved |-> m.reserved, size |-> m.size, cells |-> m.cells,
               minalign |-> m.minalign, held |-> m.held, aborted |-> m.aborted]
      BY <2>11 DEF Typed
    <3> QED BY <3>1 DEF PatchSOffset
  <2> HIDE DEF c
  <2>14. buf' = c /\ call' = Called("commit", Nothing, r)
    BY <1>1, <2>10, <2>13 DEF Leaves
  <2>15. Keeps(buf, c)
    BY <1>6, <2>11, <2>12 DEF Keeps
  <2>16. buf.minalign <= c.minalign /\ 4 <= c.minalign
    <3>1. m.minalign \in Nat
      BY <2>11, Measures
    <3> QED BY <1>4, <1>6, <1>7, <2>11, <2>12, <3>1
  <2>17. TableMore(buf, buf', r, v, vt)
    BY <1>4, <1>6, <1>7, <2>3, <2>4, <2>11, <2>12, <2>14, <2>15, <2>16 DEF TableMore, v
  <2>18. vtables' = vtables
    BY <1>1, <1>13
  <2> QED BY <1>7, <1>8, <2>4, <2>5, <2>14, <2>17, <2>18 DEF vt
<1>14. CASE ~reuse
  <2>1. use = b.size /\ m = b
    BY <1>14
  <2>2. b.cells[r] = z /\ r \in DOMAIN b.cells /\ b.size # r
    BY <1>6, <1>11, <1>12 DEF Keeps
  <2>3. /\ Typed(c) /\ c.size = b.size /\ c.minalign = b.minalign /\ c.held = b.held
        /\ DOMAIN c.cells = DOMAIN b.cells
        /\ c.cells[r] = MkCell(4, 4, "soffset", <<b.size - r>>)
        /\ \A q \in DOMAIN b.cells : q # r => c.cells[q] = b.cells[q]
    BY <1>11, <1>12, <2>1, <2>2, Patched DEF z
  <2>4. c.aborted = b.aborted
    <3>1. b = [reserved |-> b.reserved, size |-> b.size, cells |-> b.cells,
               minalign |-> b.minalign, held |-> b.held, aborted |-> b.aborted]
      BY <1>11 DEF Typed
    <3> QED BY <2>1, <3>1 DEF PatchSOffset
  <2> HIDE DEF c, m
  <2>5. buf' = c /\ call' = Called("commit", Nothing, r)
    BY <1>1, <2>4 DEF Leaves
  <2>6. Keeps(buf, c)
    BY <1>6, <1>11, <2>3 DEF Keeps
  <2>7. /\ b.size \notin DOMAIN buf.cells /\ c.cells[b.size] = vt
        /\ DOMAIN c.cells = DOMAIN buf.cells \cup {r, b.size}
    BY <1>6, <1>11, <2>2, <2>3
  <2>8. buf.minalign <= c.minalign /\ 4 <= c.minalign
    BY <1>4, <1>6, <1>7, <1>10, <2>3
  <2>9. TableMore(buf, buf', r, b.size, vt)
    BY <1>4, <1>6, <1>7, <1>11, <1>12, <2>3, <2>5, <2>6, <2>7, <2>8 DEF TableMore
  <2>10. b.size \notin VtableCells(buf)
    BY <2>7 DEF VtableCells
  <2>11. vtables' = Append(vtables, b.size) /\ (dedupVtables => Known(vt) = {})
    BY <1>1, <1>14, <2>1
  <2> QED BY <1>7, <1>8, <1>12, <2>5, <2>9, <2>10, <2>11 DEF vt
<1> QED BY <1>13, <1>14

\* A reader finds where the fields were put.
Entered(c, r, draft, locs) ==
    LET n == Len(draft.fields)
        e == Entries(c, r)
    IN  /\ IsTable(c, r) /\ c.cells[r].align = 4
        /\ c.cells[VtableOf(c, r)].val[2] = r - draft.start
        /\ DOMAIN draft.fields = 1..n /\ DOMAIN e = 1..n
        /\ \A i \in 1..n :
              \/ e[i] = 0 /\ \A k \in DOMAIN locs : locs[k].id # i
              \/ \E k \in DOMAIN locs : locs[k].id = i /\ e[i] = r - locs[k].off

\* The new table leads to the fields that were added, and to no other.
LEMMA TableEntries ==
    ASSUME NEW b, NEW c, Typed(b), Typed(c), NEW r \in Nat, NEW v \in Nat, NEW vt,
           TableMore(b, c, r, v, vt), NEW draft, NEW locs, DraftIn(b, draft, locs),
           locs \in Seq([id : Nat, off : Nat]), Slots(vt, r, locs, draft.fields, draft.start)
    PROVE  Entered(c, r, draft, locs) /\ VtableOf(c, r) = v
<1> DEFINE n == Len(draft.fields)
           e == SubSeq(vt.val, 3, vt.val[1] \div 2)
<1>1. n \in Nat /\ draft.start \in Nat /\ DOMAIN draft.fields = 1..n
  BY DEF DraftIn
<1> HIDE DEF n
<1>2. c.cells[r] = MkCell(4, 4, "soffset", <<v - r>>) /\ r \in DOMAIN c.cells /\ Keeps(b, c)
  BY DEF TableMore
<1>3. c.cells[r].kind = "soffset" /\ c.cells[r].align = 4 /\ VtableOf(c, r) = v
  BY <1>2 DEF MkCell, VtableOf
<1>4. v \in DOMAIN c.cells /\ c.cells[v].kind = "vtable" /\ c.cells[v].val = vt.val
  BY DEF TableMore, VtableCells, Keeps, Slots
<1>5. IsTable(c, r)
  BY <1>3, <1>4 DEF IsTable
<1>6. Entries(c, r) = e /\ c.cells[VtableOf(c, r)].val[2] = r - draft.start
  BY <1>3, <1>4 DEF Entries, Slots
<1>7. /\ vt.val \in Seq(Int) /\ Len(vt.val) = n + 2 /\ vt.val[1] = 2 * n + 4
      /\ \A i \in 1..n :
              \/ vt.val[i + 2] = 0 /\ \A k \in DOMAIN locs : locs[k].id # i
              \/ \E k \in DOMAIN locs : locs[k].id = i /\ vt.val[i + 2] = r - locs[k].off
  BY DEF Slots, Cell, n
<1>8. vt.val[1] \div 2 = n + 2
  BY <1>1, <1>7
<1>9. DOMAIN e = 1..n /\ \A i \in 1..n : e[i] = vt.val[i + 2]
  <2>1. e = SubSeq(vt.val, 3, n + 2)
    BY <1>8
  <2> HIDE DEF e
  <2>2. \A i \in 3..(n + 2) : i \in DOMAIN vt.val
    BY <1>1, <1>7
  <2>3. /\ Len(e) = IF 3 <= n + 2 THEN n + 2 - 3 + 1 ELSE 0
        /\ \A i \in 1..(n + 2 - 3 + 1) : e[i] = vt.val[3 + i - 1]
        /\ DOMAIN e = 1..Len(e)
    BY <1>1, <1>7, <2>1
  <2>4. Len(e) = n
    BY <1>1, <2>3
  <2>5. ASSUME NEW i \in 1..n PROVE e[i] = vt.val[i + 2]
    <3>1. i \in 1..(n + 2 - 3 + 1) /\ 3 + i - 1 = i + 2
      BY <1>1
    <3> QED BY <2>3, <3>1
  <2> QED BY <2>3, <2>4, <2>5
<1>10. \A i \in 1..n :
          \/ e[i] = 0 /\ \A k \in DOMAIN locs : locs[k].id # i
          \/ \E k \in DOMAIN locs : locs[k].id = i /\ e[i] = r - locs[k].off
  <2> HIDE DEF e
  <2>1. ASSUME NEW i \in 1..n
        PROVE  \/ e[i] = 0 /\ \A k \in DOMAIN locs : locs[k].id # i
               \/ \E k \in DOMAIN locs : locs[k].id = i /\ e[i] = r - locs[k].off
    <3>1. e[i] = vt.val[i + 2]
      BY <1>9
    <3>2. \/ vt.val[i + 2] = 0 /\ \A k \in DOMAIN locs : locs[k].id # i
          \/ \E k \in DOMAIN locs : locs[k].id = i /\ vt.val[i + 2] = r - locs[k].off
      BY <1>7
    <3> QED BY ONLY <3>1, <3>2
  <2> QED BY <2>1
<1> HIDE DEF e
<1>11. /\ DOMAIN Entries(c, r) = 1..n
       /\ \A i \in 1..n :
             \/ Entries(c, r)[i] = 0 /\ \A k \in DOMAIN locs : locs[k].id # i
             \/ \E k \in DOMAIN locs : locs[k].id = i /\ Entries(c, r)[i] = r - locs[k].off
  BY <1>6, <1>9, <1>10
<1>12. c.cells[VtableOf(c, r)].val[2] = r - draft.start
  BY <1>6
<1> QED BY ONLY <1>1, <1>3, <1>5, <1>11, <1>12 DEF Entered, n

\* The table that has been added is where the fields were.
LEMMA TableAdded ==
    ASSUME NEW b, NEW c, Typed(b), Typed(c), NEW r \in Nat, NEW v \in Nat, NEW vt,
           TableMore(b, c, r, v, vt), NEW draft, NEW locs, DraftIn(b, draft, locs),
           locs \in Seq([id : Nat, off : Nat]), Slots(vt, r, locs, draft.fields, draft.start)
    PROVE  TableSound(c, r) /\ VtableOf(c, r) = v
<1> DEFINE n == Len(draft.fields)
           e == Entries(c, r)
<1>1. n \in Nat /\ draft.start \in Nat
  BY DEF DraftIn
<1>2. Keeps(b, c)
  BY DEF TableMore
<1>3. /\ IsTable(c, r) /\ c.cells[r].align = 4 /\ VtableOf(c, r) = v
      /\ c.cells[VtableOf(c, r)].val[2] = r - draft.start
      /\ DOMAIN e = 1..n
      /\ \A i \in 1..n :
            \/ e[i] = 0 /\ \A k \in DOMAIN locs : locs[k].id # i
            \/ \E k \in DOMAIN locs : locs[k].id = i /\ e[i] = r - locs[k].off
  <2>1. Entered(c, r, draft, locs) /\ VtableOf(c, r) = v
    BY TableEntries
  <2> QED BY <2>1 DEF Entered
<1> HIDE DEF n, e
<1>4. ASSUME NEW i \in Present(e)
       PROVE  \E k \in DOMAIN locs : locs[k].id = i /\ e[i] = r - locs[k].off
  <2>1. i \in 1..n /\ e[i] # 0
    BY <1>3 DEF Present
  <2> QED BY <1>3, <2>1
<1>5. \A k \in DOMAIN locs : locs[k] \in [id : Nat, off : Nat]
  BY LenProperties
<1>6. r - 4 >= b.size /\ b.size \in Nat
  BY Measures DEF TableMore
<1>7. ASSUME NEW i \in Present(e)
       PROVE  /\ r - e[i] \in DOMAIN c.cells
              /\ e[i] >= 4
              /\ e[i] + c.cells[r - e[i]].size <= r - draft.start
              /\ \A j \in Present(e) : e[i] = e[j] => i = j
  <2>1. PICK k \in DOMAIN locs : locs[k].id = i /\ e[i] = r - locs[k].off
    BY <1>4
  <2> DEFINE o == locs[k].off
  <2>2. /\ o \in DOMAIN b.cells /\ o - b.cells[o].size >= draft.start /\ o \in Nat
    BY <1>5 DEF DraftIn
  <2>3. \A j \in DOMAIN locs : locs[j].off = o => j = k
    BY DEF DraftIn
  <2> HIDE DEF o
  <2>4. e[i] = r - o /\ r - e[i] = o
    BY <2>1, <2>2 DEF o
  <2>5. o \in 1..b.size /\ b.cells[o].size \in Nat
    BY <2>2, CellsInside
  <2>6. c.cells[o] = b.cells[o] /\ o \in DOMAIN c.cells
    BY <1>2, <2>2 DEF Keeps
  <2>7. e[i] >= 4 /\ e[i] + c.cells[o].size <= r - draft.start
    <3> DEFINE size == b.cells[o].size
               start == draft.start
    <3>1. c.cells[o].size = size
      BY <2>6
    <3>2. size \in Nat /\ o - size >= start /\ start \in Nat /\ o <= b.size
      BY <1>1, <2>2, <2>5
    <3> HIDE DEF size, start
    <3>3. e[i] = r - o /\ o \in Nat
      BY <2>2, <2>4
    <3>4. e[i] >= 4 /\ e[i] + size <= r - start
      BY ONLY r \in Nat, <1>6, <3>2, <3>3
    <3> QED BY <3>1, <3>4 DEF start
  <2>8. ASSUME NEW j \in Present(e), e[i] = e[j] PROVE i = j
    <3>1. PICK l \in DOMAIN locs : locs[l].id = j /\ e[j] = r - locs[l].off
      BY <1>4
    <3> DEFINE x == locs[l].off
    <3>2. x \in Nat /\ r - x = r - o /\ o \in Nat
      BY <1>5, <2>2, <2>4, <2>8, <3>1
    <3> HIDE DEF x
    <3>3. x = o
      BY ONLY r \in Nat, <3>2
    <3> USE DEF x
    <3>4. l = k
      BY <2>3, <3>3
    <3> QED BY <2>1, <3>1, <3>4
  <2> QED BY <2>4, <2>6, <2>7, <2>8
<1>8. FieldsAt(c, r)
  BY <1>3, <1>7 DEF FieldsAt, e
<1> QED BY <1>3, <1>8 DEF TableSound

\* EndTable keeps the builder sound.
LEMMA EndKeeps ==
    ASSUME BuildInv, EndTable
    PROVE  BuildInv'
<1>1. CASE AssertFails
  BY <1>1, FailKeeps
<1>2. CASE ~AssertFails
  <2>1. PICK r \in Nat, v \in Nat :
           LET vt == VtableCell(r, offsetbuf)
           IN  /\ TableMore(buf, buf', r, v, vt)
               /\ Slots(vt, r, offsetbuf, table.fields, table.start)
               /\ vtables' = IF v \in VtableCells(buf) THEN vtables ELSE Append(vtables, v)
               /\ v \notin VtableCells(buf) /\ dedupVtables => Known(vt) = {}
    BY <1>2, TableMade
  <2> DEFINE vt == VtableCell(r, offsetbuf)
             c  == buf'
  <2>2. /\ TableMore(buf, c, r, v, vt)
        /\ Slots(vt, r, offsetbuf, table.fields, table.start)
        /\ vtables' = IF v \in VtableCells(buf) THEN vtables ELSE Append(vtables, v)
        /\ v \notin VtableCells(buf) /\ dedupVtables => Known(vt) = {}
    BY <2>1
  <2> HIDE DEF vt
  <2>3. /\ Building /\ table # NoTable
        /\ offsetbuf' = <<>> /\ nested' = FALSE /\ table' = NoTable
        /\ finished' = finished /\ stringPool' = stringPool
        /\ forceDefaults' = forceDefaults /\ dedupVtables' = dedupVtables
    BY <1>2 DEF EndTable, flags
  <2>4. /\ Typed(buf) /\ Placed(buf) /\ TablesSound(buf) /\ nested /\ buf.held /\ ~finished
        /\ DraftIn(buf, table, offsetbuf) /\ offsetbuf \in Seq([id : Nat, off : Nat])
        /\ NoPrefix(buf) /\ vtables \in Seq(Nat) /\ Listed(buf, vtables)
        /\ PoolSound(buf, stringPool)
        /\ (\A f \in FlagChoices : f.dedup) => dedupVtables /\ Different(buf, vtables)
    BY <2>3 DEF BuildInv, Building
  <2>5. /\ Typed(c) /\ Keeps(buf, c) /\ buf.minalign <= c.minalign /\ 4 <= c.minalign
        /\ c.held = buf.held /\ r - 4 >= buf.size /\ r % 4 = 0 /\ r \notin DOMAIN buf.cells
        /\ c.cells[r] = MkCell(4, 4, "soffset", <<v - r>>)
    BY <2>2 DEF TableMore
  <2>6. \/ /\ v \in VtableCells(buf) /\ buf.cells[v].val = vt.val
           /\ DOMAIN c.cells = DOMAIN buf.cells \cup {r} /\ c.size = r
        \/ /\ v \notin DOMAIN buf.cells /\ v = c.size /\ v > r /\ v % 2 = 0 /\ c.cells[v] = vt
           /\ DOMAIN c.cells = DOMAIN buf.cells \cup {r, v}
    BY <2>2 DEF TableMore
  <2>7. TableSound(c, r) /\ VtableOf(c, r) = v
    BY <2>2, <2>4, <2>5, TableAdded
  <2>8. vt.kind = "vtable" /\ vt.align = 2
    BY <2>2 DEF Slots
  <2>9. c.cells[r].kind = "soffset" /\ c.cells[r].align = 4 /\ r \in DOMAIN c.cells
    BY <2>5, <2>6 DEF MkCell
  <2> HIDE DEF c
  <2>10. buf.size \in Nat /\ c.size \in Nat /\ c.minalign \in Nat
    BY <2>4, <2>5, Measures
  <2>11. \A q \in DOMAIN c.cells \ DOMAIN buf.cells :
            q = r \/ (q = v /\ v \notin DOMAIN buf.cells /\ v # r /\ c.cells[v] = vt /\ v % 2 = 0)
    BY <2>6
  <2>12. \A q \in DOMAIN c.cells \ DOMAIN buf.cells : Even(c, q)
    <3>1. 4 \in Alignments /\ 2 \in Alignments /\ 2 <= c.minalign
      BY <2>5, <2>10 DEF Alignments
    <3>2. r % 4 = 0 /\ 4 <= c.minalign
      BY <2>5
    <3>3. Even(c, r)
      BY <2>9, <3>1, <3>2 DEF Even
    <3>4. \A q \in DOMAIN c.cells \ DOMAIN buf.cells : q # r =>
             q = v /\ c.cells[q].align = 2 /\ q % 2 = 0
      BY <2>8, <2>11
    <3>5. \A q \in DOMAIN c.cells \ DOMAIN buf.cells : q # r => Even(c, q)
      BY <3>1, <3>4 DEF Even
    <3> QED BY <3>3, <3>5
  <2>13. Placed(c)
    BY <2>4, <2>5, <2>12, KeepsPlaced
  <2>14. TablesSound(c)
    <3>1. \A q \in DOMAIN c.cells \ DOMAIN buf.cells :
             c.cells[q].kind = "soffset" => TableSound(c, q)
      BY <2>7, <2>8, <2>11
    <3> QED BY <2>4, <2>5, <3>1, KeepsTables
  <2>15. NoPrefix(c)
    <3>1. \A q \in DOMAIN c.cells \ DOMAIN buf.cells : c.cells[q].kind # "prefix"
      BY <2>8, <2>9, <2>11
    <3>2. \A q \in DOMAIN buf.cells : c.cells[q].kind # "prefix"
      BY <2>4, <2>5 DEF NoPrefix, Keeps
    <3> QED BY <3>1, <3>2 DEF NoPrefix
  <2>16. PoolSound(c, stringPool)
    BY <2>4, <2>5, KeepsPool
  <2>17. TopIn(c)
    <3> SUFFICES ASSUME NEW root \in Roots(c), \A q \in Places(c) : q <= root
                 PROVE  c.size = Greater(root, VtableOf(c, root))
      BY DEF TopIn
    <3>1. r \in Places(c)
      BY <2>7, <2>9 DEF Places, TableSound
    <3>2. root \in DOMAIN c.cells /\ c.cells[root].kind = "soffset" /\ root \in 1..c.size
      BY <2>5, CellsInside DEF Roots, Places, IsTable
    <3>3. root \in DOMAIN buf.cells => root <= buf.size
      BY <2>4, <2>10, CellsInside
    <3>4. root \notin DOMAIN buf.cells => root = r
      BY <2>8, <2>11, <3>2
    <3>5. root = r
      BY <2>5, <2>10, <3>1, <3>2, <3>3, <3>4
    <3>6. CASE v \in VtableCells(buf) /\ c.size = r
      <4>1. v \in 1..buf.size
        BY <2>4, <3>6, CellsInside DEF VtableCells
      <4>2. ~(r > v) => FALSE
        BY <2>5, <2>10, <4>1
      <4> QED BY <2>7, <3>5, <3>6, <4>2 DEF Greater
    <3>7. CASE v = c.size /\ v > r
      <4>1. ~(r > v)
        BY <3>7
      <4> QED BY <2>7, <3>5, <3>7, <4>1 DEF Greater
    <3> QED BY <2>6, <3>6, <3>7
  <2>18. /\ vtables' \in Seq(Nat) /\ Listed(c, vtables')
         /\ (\A f \in FlagChoices : f.dedup) => Different(c, vtables')
    <3>1. CASE v \in VtableCells(buf)
      <4>1. v \in DOMAIN buf.cells /\ vtables' = vtables
        BY <2>2, <3>1 DEF VtableCells
      <4>2. \A q \in DOMAIN c.cells \ DOMAIN buf.cells : c.cells[q].kind # "vtable"
        BY <2>9, <2>11, <4>1
      <4> QED BY <2>4, <2>5, <4>1, <4>2, KeepsVtables
    <3>2. CASE v \notin VtableCells(buf)
      <4>1. /\ v \notin DOMAIN buf.cells /\ c.cells[v] = vt
            /\ DOMAIN c.cells = DOMAIN buf.cells \cup {r, v}
        BY <2>6, <3>2
      <4>2. VtableCells(c) = VtableCells(buf) \cup {v}
        <5>1. \A q \in DOMAIN c.cells : c.cells[q].kind = "vtable" <=>
                                           q \in VtableCells(buf) \/ q = v
          <6>1. \A q \in DOMAIN buf.cells : c.cells[q] = buf.cells[q]
            BY <2>5 DEF Keeps
          <6> QED BY <2>8, <2>9, <4>1, <6>1 DEF VtableCells
        <5>2. VtableCells(buf) \cup {v} \subseteq DOMAIN c.cells
          BY <4>1 DEF VtableCells
        <5> QED BY <5>1, <5>2 DEF VtableCells
      <4> DEFINE list == Append(vtables, v)
                 n == Len(vtables)
      <4>3. /\ list \in Seq(Nat) /\ DOMAIN list = DOMAIN vtables \cup {n + 1}
            /\ \A k \in DOMAIN vtables : list[k] = vtables[k]
            /\ list[n + 1] = v
        BY ONLY <2>4, AppendProperties
      <4>4. vtables' = list
        BY <2>2, <3>2
      <4> HIDE DEF list, n
      <4>5. {list[k] : k \in DOMAIN list} = {vtables[k] : k \in DOMAIN vtables} \cup {v}
        BY <4>3
      <4>6. Listed(c, list)
        BY <2>4, <4>2, <4>5 DEF Listed
      <4>7. ASSUME \A f \in FlagChoices : f.dedup PROVE Different(c, list)
        <5>1. dedupVtables /\ Different(buf, vtables)
          BY <2>4, <4>7
        <5>2. \A k \in DOMAIN vtables : buf.cells[vtables[k]].val # vt.val
          BY <2>2, <3>2, <5>1 DEF Known
        <5>3. \A k \in DOMAIN vtables : vtables[k] \in DOMAIN buf.cells
          BY <2>4 DEF Listed, VtableCells
        <5>4. \A k \in DOMAIN vtables : c.cells[list[k]] = buf.cells[vtables[k]]
          BY <2>5, <4>3, <5>3 DEF Keeps
        <5>5. c.cells[list[n + 1]] = vt
          BY <4>1, <4>3
        <5>6. ASSUME NEW j \in DOMAIN list, NEW k \in DOMAIN list,
                     c.cells[list[j]].val = c.cells[list[k]].val
              PROVE  j = k
          <6>1. CASE j \in DOMAIN vtables /\ k \in DOMAIN vtables
            BY <5>1, <5>4, <5>6, <6>1 DEF Different
          <6>2. CASE j \in DOMAIN vtables /\ k \notin DOMAIN vtables
            BY <4>3, <5>2, <5>4, <5>5, <5>6, <6>2
          <6>3. CASE j \notin DOMAIN vtables /\ k \in DOMAIN vtables
            BY <4>3, <5>2, <5>4, <5>5, <5>6, <6>3
          <6>4. CASE j \notin DOMAIN vtables /\ k \notin DOMAIN vtables
            BY <4>3, <6>4
          <6> QED BY <6>1, <6>2, <6>3, <6>4
        <5> QED BY <5>6 DEF Different
      <4> QED BY <4>3, <4>4, <4>6, <4>7
    <3> QED BY <3>1, <3>2
  <2>19. <<>> \in Seq([id : Nat, off : Nat])
    OBVIOUS
  <2> USE DEF c
  <2>20. ~finished' /\ ~nested' /\ nested' = (table' # NoTable)
    BY <2>3, <2>4
  <2>21. (\A f \in FlagChoices : f.dedup) =>
            dedupVtables' /\ (buf'.held => Different(buf', vtables'))
    BY <2>3, <2>4, <2>18
  <2>22. finished' \in BOOLEAN /\ forceDefaults' \in BOOLEAN /\ dedupVtables' \in BOOLEAN
    BY <2>3 DEF BuildInv
  <2> QED BY <2>3, <2>5, <2>13, <2>14, <2>15, <2>16, <2>17, <2>18, <2>19, <2>20, <2>21, <2>22
          DEF BuildInv
<1> QED BY <1>1, <1>2

-----------------------------------------------------------------------------
(* Finishing the buffer.                                                   *)

\* Differences of multiples are multiples.
LEMMA LessAligned ==
    ASSUME NEW a \in Alignments, NEW m \in Nat, NEW n \in Nat, m % a = 0, n % a = 0
    PROVE  (m - n) % a = 0
<1>1. CASE a = 1
  BY <1>1
<1>2. CASE a = 2
  BY <1>2
<1>3. CASE a = 4
  BY <1>3
<1>4. CASE a = 8
  BY <1>4
<1>5. CASE a = 16
  BY <1>5
<1> QED BY <1>1, <1>2, <1>3, <1>4, <1>5 DEF Alignments

\* d is b, finished: padding, an identifier, the offset of the root at top, and
\* the prefix.
Finishes(b, d, root, top, prefixed) ==
    /\ Typed(d) /\ Keeps(b, d) /\ b.minalign <= d.minalign /\ d.held = b.held
    /\ top \in Nat /\ top % 4 = 0 /\ top >= b.size + 4 /\ top <= b.size + 23
    /\ d.size = top + (IF prefixed THEN 4 ELSE 0) /\ d.size % b.minalign = 0
    /\ top \in DOMAIN d.cells /\ d.cells[top] = MkCell(4, 4, "uoffset", <<top - root>>)
    /\ prefixed => d.size \in DOMAIN d.cells /\ d.cells[d.size] = MkCell(4, 4, "prefix", <<top>>)
    /\ \A q \in DOMAIN d.cells \ DOMAIN b.cells :
          \/ q = top
          \/ prefixed /\ q = d.size
          \/ d.cells[q] = IdentCell

\* Finish puts the root offset, the identifier and the prefix in front, aligned.
LEMMA FinishMade ==
    ASSUME Typed(buf), NEW root \in DOMAIN buf.cells, 4 <= buf.minalign,
           NEW ident \in BOOLEAN, NEW prefixed \in BOOLEAN
    PROVE  \E top \in Nat : Finishes(buf, FinishedArena(root, ident, prefixed), root, top, prefixed)
<1> DEFINE more == IF ident THEN 4 ELSE 0
           last == IF prefixed THEN 4 ELSE 0
           len  == 4 + last + more
           w    == buf.minalign
           a    == PreAlign(buf, len, w)
           m    == IF ident THEN Push(a, IdentCell) ELSE a
           b    == PushOffset(m, root)
           d    == IF prefixed THEN PushElement(b, 4, "prefix", b.size) ELSE b
           top  == b.size
<1>1. FinishedArena(root, ident, prefixed) = d
  BY DEF FinishedArena
<1>2. more \in {0, 4} /\ last \in {0, 4} /\ len \in Nat /\ len = 4 + last + more
  OBVIOUS
<1>3. w \in Alignments /\ w \in Nat \ {0} /\ buf.size \in Nat
  BY Measures
<1>4. 4 \in Alignments /\ {"prefix", "uoffset", "ident"} \subseteq CellKinds
  BY DEF Alignments, CellKinds
<1> HIDE DEF more, last, len, w
<1>5. /\ Roomier(buf, a) /\ a.minalign = w /\ (a.size + len) % w = 0 /\ a.size < buf.size + w
  BY <1>2, <1>3, PreAlignRoom DEF w
<1> HIDE DEF a
<1>6. /\ Typed(a) /\ a.cells = buf.cells /\ a.held = buf.held /\ buf.size <= a.size
      /\ a.size \in Nat
  <2>1. Typed(a)
    BY <1>5 DEF Roomier
  <2> QED BY <1>5, <2>1, Measures DEF Roomier
<1>7. a.size % 4 = 0
  <2>1. 4 <= w /\ a.size + len \in Int
    BY <1>2, <1>6 DEF w
  <2>2. (a.size + len) % 4 = 0
    BY <1>3, <1>4, <1>5, <2>1, AlignedFor
  <2> QED BY ONLY <1>2, <1>6, <2>2
<1>8. /\ Typed(m) /\ Keeps(a, m) /\ m.size = a.size + more /\ m.minalign = w /\ m.held = a.held
      /\ \A q \in DOMAIN m.cells \ DOMAIN a.cells : m.cells[q] = IdentCell
  <2>1. CASE ident
    <3>1. IdentCell \in Cell /\ IdentCell.size = 4
      <4>1. <<>> \in Seq(Int)
        OBVIOUS
      <4> QED BY <1>4, <4>1 DEF IdentCell, MkCell, Cell
    <3>2. m = Push(a, IdentCell) /\ more = 4
      BY <2>1 DEF more
    <3> HIDE DEF m
    <3>3. OneMore(a, m, IdentCell) /\ m.size = a.size + 4 /\ m.minalign = a.minalign
      BY <1>6, <3>1, <3>2, PushOne
    <3> QED BY <1>5, <3>2, <3>3 DEF OneMore
  <2>2. CASE ~ident
    <3>1. m = a /\ more = 0
      BY <2>2 DEF more
    <3> QED BY <1>5, <1>6, <3>1 DEF Keeps
  <2> QED BY <2>1, <2>2
<1> HIDE DEF m
<1>9. m.size \in Nat /\ m.size % 4 = 0 /\ root \in DOMAIN m.cells /\ root \in Nat
  <2>1. m.size % 4 = 0
    BY ONLY <1>2, <1>6, <1>7, <1>8
  <2>2. root \in Nat
    BY CellsInside
  <2> QED BY <1>6, <1>8, <2>1, <2>2, Measures DEF Keeps
<1>10. /\ OneMore(m, b, MkCell(4, 4, "uoffset", <<b.size - root>>))
       /\ b.size % 4 = 0 /\ b.size = m.size + 4
  BY <1>8, <1>9, OffsetOne
<1> HIDE DEF b
<1>11. /\ Typed(b) /\ Keeps(m, b) /\ m.minalign <= b.minalign /\ b.held = m.held
       /\ DOMAIN b.cells = DOMAIN m.cells \cup {b.size}
       /\ b.cells[b.size] = MkCell(4, 4, "uoffset", <<b.size - root>>)
       /\ b.size \in Nat /\ b.minalign \in Nat
  <2>1. Typed(b)
    BY <1>10 DEF OneMore
  <2> QED BY <1>10, <2>1, Measures DEF OneMore
<1>12. /\ Typed(d) /\ Keeps(b, d) /\ b.minalign <= d.minalign /\ d.held = b.held
       /\ d.size = b.size + last
       /\ DOMAIN d.cells = DOMAIN b.cells \cup (IF prefixed THEN {d.size} ELSE {})
       /\ prefixed => d.cells[d.size] = MkCell(4, 4, "prefix", <<b.size>>)
  <2>1. CASE prefixed
    <3>1. d = PushElement(b, 4, "prefix", b.size) /\ last = 4
      BY <2>1 DEF last
    <3> HIDE DEF d
    <3>2. b.size \in Int
      BY <1>11
    <3>3. /\ OneMore(b, d, MkCell(4, 4, "prefix", <<b.size>>))
          /\ b.size % 4 = 0 => d.size = b.size + 4
      BY <1>4, <1>11, <3>1, <3>2, ElementOne
    <3> QED BY <1>10, <2>1, <3>1, <3>3 DEF OneMore
  <2>2. CASE ~prefixed
    <3>1. d = b /\ last = 0
      BY <2>2 DEF last
    <3> HIDE DEF d
    <3> QED BY <1>11, <2>2, <3>1 DEF Keeps
  <2> QED BY <2>1, <2>2
<1> HIDE DEF d
<1>13. Keeps(buf, d)
  BY <1>6, <1>8, <1>11, <1>12 DEF Keeps
<1>14. d.held = buf.held
  BY <1>6, <1>8, <1>11, <1>12
<1>15. buf.minalign <= d.minalign
  <2>1. d.minalign \in Nat
    BY <1>12, Measures
  <2> QED BY <1>3, <1>8, <1>11, <1>12, <2>1 DEF w
<1>16. /\ top >= buf.size + 4 /\ top <= buf.size + 23 /\ d.size = top + last
       /\ d.size = a.size + len
  <2>1. w <= 16
    BY <1>3 DEF Alignments
  <2>2. b.size = m.size + 4 /\ d.size = b.size + last /\ m.size = a.size + more
    BY <1>8, <1>10, <1>12
  <2>3. a.size < buf.size + w /\ buf.size <= a.size
    BY <1>5, <1>6
  <2>4. w \in Nat /\ buf.size \in Nat /\ a.size \in Nat
    BY <1>3, <1>6
  <2> QED BY ONLY <1>2, <2>1, <2>2, <2>3, <2>4
<1>17. d.size % buf.minalign = 0
  BY <1>5, <1>16 DEF w
<1>18. /\ top \in DOMAIN d.cells /\ d.cells[top] = MkCell(4, 4, "uoffset", <<top - root>>)
  BY <1>11, <1>12 DEF Keeps
<1>19. \A q \in DOMAIN d.cells \ DOMAIN buf.cells :
          q = top \/ (prefixed /\ q = d.size) \/ d.cells[q] = IdentCell
  <2> SUFFICES ASSUME NEW q \in DOMAIN d.cells \ DOMAIN buf.cells, q # top,
                      ~(prefixed /\ q = d.size)
               PROVE  d.cells[q] = IdentCell
    OBVIOUS
  <2>1. q \in DOMAIN b.cells
    BY <1>12
  <2>2. q \in DOMAIN m.cells
    BY <1>11, <2>1
  <2>3. m.cells[q] = IdentCell
    BY <1>6, <1>8, <2>2
  <2> QED BY <1>11, <1>12, <2>1, <2>2, <2>3 DEF Keeps
<1>20. prefixed => d.size \in DOMAIN d.cells
  BY <1>12
<1>21. Finishes(buf, d, root, top, prefixed)
  BY <1>10, <1>11, <1>12, <1>13, <1>14, <1>15, <1>16, <1>17, <1>18, <1>19, <1>20
     DEF Finishes, last
<1> QED BY <1>1, <1>11, <1>21

\* In a finished buffer everything is aligned from its front, and the root is
\* found again.
LEMMA FinishComplete ==
    ASSUME NEW b, NEW d, Typed(b), Placed(b), TablesSound(b), NoPrefix(b), TopIn(b),
           NEW root \in Roots(b), NEW top \in Nat, NEW prefixed \in BOOLEAN,
           Finishes(b, d, root, top, prefixed), 4 <= b.minalign
    PROVE  Complete(d) /\ RootIn(d) = top
<1> DEFINE word == MkCell(4, 4, "uoffset", <<top - root>>)
           count == MkCell(4, 4, "prefix", <<top>>)
           last == IF prefixed THEN 4 ELSE 0
<1>1. /\ word.kind = "uoffset" /\ word.align = 4 /\ word.val[1] = top - root
      /\ count.kind = "prefix" /\ count.align = 4 /\ count.val[1] = top
      /\ IdentCell.kind = "ident" /\ IdentCell.align = 1
  BY DEF MkCell, IdentCell
<1>2. /\ Typed(d) /\ Keeps(b, d) /\ b.minalign <= d.minalign
      /\ top % 4 = 0 /\ top >= b.size + 4 /\ top <= b.size + 23
      /\ d.size = top + last /\ d.size % b.minalign = 0
      /\ top \in DOMAIN d.cells /\ d.cells[top] = word
      /\ prefixed => d.size \in DOMAIN d.cells /\ d.cells[d.size] = count
      /\ \A q \in DOMAIN d.cells \ DOMAIN b.cells :
            q = top \/ (prefixed /\ q = d.size) \/ d.cells[q] = IdentCell
  BY DEF Finishes
<1> HIDE DEF word, count
<1>3. b.size \in Nat /\ d.size \in Nat /\ b.minalign \in Alignments
  BY <1>2, Measures
<1>4. last = (IF prefixed THEN 4 ELSE 0) /\ last \in {0, 4}
  OBVIOUS
<1> HIDE DEF last
<1>5. \A q \in DOMAIN b.cells : d.cells[q] = b.cells[q] /\ q \in 1..b.size
  BY <1>2, CellsInside DEF Keeps
<1>6. EvenFromFront(d)
  <2> SUFFICES ASSUME NEW r \in DOMAIN d.cells
               PROVE  LooseIn(d, r) \/ (d.size - r) % d.cells[r].align = 0
    BY DEF EvenFromFront
  <2>1. r \in 1..d.size
    BY <1>2, CellsInside
  <2>2. CASE r \in DOMAIN b.cells
    <3>1. CASE LooseIn(b, r)
      BY <1>2, <1>5, <2>2, <3>1 DEF LooseIn, Keeps
    <3>2. CASE Even(b, r)
      <4> DEFINE w == b.cells[r].align
      <4>1. w \in Alignments /\ w <= b.minalign /\ r % w = 0
        BY <3>2 DEF Even
      <4> HIDE DEF w
      <4>2. d.size % w = 0
        BY <1>2, <1>3, <4>1, AlignedFor
      <4>3. (d.size - r) % w = 0
        BY <1>3, <2>1, <4>1, <4>2, LessAligned
      <4> QED BY <1>5, <2>2, <4>3 DEF w
    <3> QED BY <2>2, <3>1, <3>2 DEF Placed
  <2>3. CASE r \notin DOMAIN b.cells /\ d.cells[r] = IdentCell
    <3>1. (d.size - r) % 1 = 0
      BY <1>3, <2>1
    <3> QED BY <1>1, <2>3, <3>1
  <2>4. CASE r = top \/ (prefixed /\ r = d.size)
    <3>1. d.cells[r].align = 4
      BY <1>1, <1>2, <2>4
    <3>2. d.size % 4 = 0 /\ r % 4 = 0
      BY <1>2, <1>4, <2>4
    <3>3. (d.size - r) % 4 = 0
      BY <1>3, <2>1, <3>2
    <3> QED BY <3>1, <3>3
  <2> QED BY <1>2, <2>2, <2>3, <2>4
<1>7. ASSUME NEW q \in DOMAIN d.cells, d.cells[q].kind = "prefix"
      PROVE  prefixed /\ q = d.size
  BY <1>1, <1>2, <1>5, <1>7 DEF NoPrefix
<1>8. Counted(d)
  <2>1. prefixed => d.size - 4 = top
    BY <1>2, <1>4
  <2> QED BY <1>1, <1>2, <1>7, <2>1 DEF Counted
<1>9. RootIn(d) = top
  <2>1. CASE prefixed
    <3>1. d.size - 4 = top
      BY <1>2, <1>4, <2>1
    <3> QED BY <1>1, <1>2, <2>1, <3>1 DEF RootIn
  <2>2. CASE ~prefixed
    <3>1. d.size = top
      BY <1>2, <1>4, <2>2
    <3> QED BY <1>1, <1>2, <3>1 DEF RootIn
  <2> QED BY <2>1, <2>2
<1>10. IsTable(b, root) /\ root \in DOMAIN b.cells /\ root \in 1..b.size
  BY <1>5 DEF Roots, Places
<1>11. Target(d, top, 1) = root
  <2>1. Target(d, top, 1) = top - 4 * (1 - 1) - (top - root)
    BY <1>1, <1>2 DEF Target
  <2> QED BY <1>10, <2>1
<1>12. TableSound(b, root)
  BY <1>10 DEF TablesSound, IsTable
<1>13. VtableOf(d, root) = VtableOf(b, root)
  BY <1>2, <1>10, <1>12, KeepsTable
<1>14. ASSUME \A r \in Places(d) : r <= root
       PROVE  LET from  == Greater(root, VtableOf(d, root))
                  At(k) == from + ((-from) % 4) + 4 * k
              IN  \E m \in 1..5 : /\ At(m) = top /\ WordIn(d, At(m)) = At(m) - root
                                  /\ \A k \in 1..5 : k < m => WordIn(d, At(k)) # At(k) - root
  <2>1. \A r \in Places(b) : r \in Places(d)
    <3>1. ASSUME NEW r \in Places(b) PROVE r \in Places(d)
      <4>1. r \in DOMAIN b.cells /\ r \in DOMAIN d.cells /\ d.cells[r] = b.cells[r]
        BY <1>2 DEF Places, Keeps
      <4>2. CASE b.cells[r].kind = "length"
        BY <4>1, <4>2 DEF Places
      <4>3. CASE IsTable(b, r)
        <5>1. TableSound(b, r)
          BY <4>1, <4>3 DEF TablesSound, IsTable
        <5>2. IsTable(d, r)
          BY <1>2, <4>1, <5>1, KeepsTable DEF TableSound
        <5> QED BY <4>1, <5>2 DEF Places
      <4> QED BY <4>2, <4>3 DEF Places
    <3> QED BY <3>1
  <2>2. b.size = Greater(root, VtableOf(d, root))
    BY <1>13, <1>14, <2>1 DEF TopIn
  <2> DEFINE from == b.size
             up == from + ((-from) % 4)
             At(k) == up + 4 * k
             n == (top - up) \div 4
  <2>3. from \in Nat
    BY <1>3
  <2>4. up \in Nat /\ up >= from /\ up < from + 4 /\ up % 4 = 0
    BY <2>3
  <2>5. top >= from + 4 /\ top <= from + 23 /\ top % 4 = 0
    BY <1>2
  <2> HIDE DEF from, up
  <2>6. n \in 1..5 /\ At(n) = top
    BY <2>3, <2>4, <2>5
  <2> HIDE DEF n
  <2>7. WordIn(d, At(n)) = At(n) - root
    BY <1>1, <1>2, <2>6 DEF WordIn
  <2>8. ASSUME NEW k \in 1..5, k < n PROVE WordIn(d, At(k)) # At(k) - root
    <3> DEFINE q == At(k)
    <3>1. q > from /\ q < top /\ q \in Nat
      BY <2>3, <2>4, <2>6, <2>8
    <3> HIDE DEF q
    <3>2. q > root /\ q # top /\ q < d.size
      BY <1>2, <1>4, <1>10, <2>3, <3>1 DEF from
    <3>3. q \notin DOMAIN b.cells
      BY <1>3, <1>5, <3>1 DEF from
    <3>4. q \in DOMAIN d.cells => d.cells[q].kind = "ident"
      BY <1>1, <1>2, <1>3, <3>2, <3>3
    <3>5. WordIn(d, q) = 0
      BY <3>4 DEF WordIn
    <3>6. q - root # 0
      BY <1>10, <3>1, <3>2
    <3> QED BY <3>5, <3>6 DEF q
  <2>9. Greater(root, VtableOf(d, root)) = from
    BY <2>2 DEF from
  <2>10. /\ At(n) = top /\ WordIn(d, At(n)) = At(n) - root
         /\ \A k \in 1..5 : k < n => WordIn(d, At(k)) # At(k) - root
    BY <2>6, <2>7, <2>8
  <2> QED BY <2>6, <2>9, <2>10 DEF up
<1>15. FoundIn(d)
  BY <1>9, <1>11, <1>14 DEF FoundIn
<1> QED BY <1>6, <1>8, <1>9, <1>15 DEF Complete

\* Finish keeps the builder sound.
LEMMA FinishKeeps ==
    ASSUME BuildInv, NEW root \in Roots(buf), NEW ident \in BOOLEAN, NEW prefixed \in BOOLEAN,
           Finish(root, ident, prefixed)
    PROVE  BuildInv'
<1> DEFINE d == FinishedArena(root, ident, prefixed)
<1>1. CASE nested
  BY <1>1, FailKeeps DEF Finish
<1>2. CASE ~nested
  <2>1. /\ ~finished /\ buf.held /\ Leaves(d, "finish", Nothing, root) /\ finished' = ~d.aborted
        /\ vtables' = vtables /\ stringPool' = stringPool /\ offsetbuf' = offsetbuf
        /\ nested' = nested /\ table' = table
        /\ forceDefaults' = forceDefaults /\ dedupVtables' = dedupVtables
    BY <1>2 DEF Finish, Building, Running, flags, tracking
  <2>2. /\ Typed(buf) /\ Placed(buf) /\ TablesSound(buf) /\ NoPrefix(buf) /\ TopIn(buf)
        /\ vtables \in Seq(Nat) /\ Listed(buf, vtables) /\ PoolSound(buf, stringPool)
        /\ (\A f \in FlagChoices : f.dedup) => dedupVtables /\ Different(buf, vtables)
    BY <1>2, <2>1 DEF BuildInv
  <2>3. CASE d.aborted
    <3>1. buf' = Abort(buf) /\ UNCHANGED Rest
      <4>1. finished \in BOOLEAN
        BY DEF BuildInv
      <4> QED BY <2>1, <2>3, <4>1 DEF Leaves, Rest, flags
    <3> QED BY <2>2, <3>1, AbortSame, RoomKeeps
  <2>4. CASE ~d.aborted
    <3>1. buf' = d /\ finished' = TRUE
      BY <2>1, <2>4 DEF Leaves
    <3>2. root \in DOMAIN buf.cells /\ buf.cells[root].kind = "soffset"
      BY DEF Roots, Places, IsTable
    <3>3. 4 <= buf.minalign
      BY <2>2, <3>2 DEF TablesSound, TableSound, Placed, LooseIn, Even
    <3>4. PICK top \in Nat : Finishes(buf, d, root, top, prefixed)
      BY <2>2, <3>2, <3>3, FinishMade
    <3> HIDE DEF d
    <3>5. Complete(d)
      BY <2>2, <3>3, <3>4, FinishComplete
    <3>6. /\ Typed(d) /\ Keeps(buf, d) /\ buf.minalign <= d.minalign /\ d.held = buf.held
      BY <3>4 DEF Finishes
    <3>7. \A q \in DOMAIN d.cells \ DOMAIN buf.cells :
             /\ d.cells[q].kind \in {"ident", "uoffset", "prefix"}
             /\ \/ d.cells[q].align = 1
                \/ d.cells[q].align = 4 /\ q % 4 = 0
      <4>1. /\ IdentCell.kind = "ident" /\ IdentCell.align = 1
            /\ \A v : MkCell(4, 4, "uoffset", v).kind = "uoffset"
            /\ \A v : MkCell(4, 4, "prefix", v).kind = "prefix"
            /\ \A k, v : MkCell(4, 4, k, v).align = 4
        BY DEF IdentCell, MkCell
      <4>2. /\ top % 4 = 0 /\ (prefixed => d.size = top + 4)
            /\ d.cells[top] = MkCell(4, 4, "uoffset", <<top - root>>)
            /\ (prefixed => d.cells[d.size] = MkCell(4, 4, "prefix", <<top>>))
            /\ \A q \in DOMAIN d.cells \ DOMAIN buf.cells :
                  q = top \/ (prefixed /\ q = d.size) \/ d.cells[q] = IdentCell
        BY <3>4 DEF Finishes
      <4>3. prefixed => d.size % 4 = 0
        BY <4>2
      <4> QED BY <4>1, <4>2, <4>3
    <3>8. \A q \in DOMAIN d.cells \ DOMAIN buf.cells : Even(d, q)
      <4>1. 1 \in Alignments /\ 4 \in Alignments /\ d.minalign \in Nat /\ buf.minalign \in Nat
        BY <2>2, <3>6, Measures DEF Alignments
      <4>2. 1 <= d.minalign /\ 4 <= d.minalign
        BY <3>3, <3>6, <4>1
      <4>3. \A q \in DOMAIN d.cells : q % 1 = 0
        <5>1. \A q \in DOMAIN d.cells : q \in Nat
          BY <3>6, CellsInside
        <5> QED BY <5>1
      <4> QED BY <3>7, <4>1, <4>2, <4>3 DEF Even
    <3>9. Placed(d) /\ TablesSound(d)
      BY <2>2, <3>6, <3>7, <3>8, KeepsPlaced, KeepsTables
    <3>10. Listed(d, vtables) /\ (Different(buf, vtables) => Different(d, vtables))
      BY <2>2, <3>6, <3>7, KeepsVtables
    <3>11. PoolSound(d, stringPool)
      BY <2>2, <3>6, KeepsPool
    <3>12. (\A f \in FlagChoices : f.dedup) =>
              dedupVtables' /\ (buf'.held => Different(buf', vtables'))
      BY <2>1, <2>2, <3>1, <3>10
    <3> QED BY <1>2, <2>1, <3>1, <3>5, <3>6, <3>9, <3>10, <3>11, <3>12 DEF BuildInv, Complete
  <2> QED BY <2>3, <2>4
<1> QED BY <1>1, <1>2

-----------------------------------------------------------------------------
(* The theorem.                                                            *)

\* Every step keeps the builder sound.
LEMMA BuilderNext ==
    ASSUME BuilderConstants, BuildInv, [Next]_builderVars
    PROVE  BuildInv'
<1>1. ASSUME NEW text \in Texts, CreateString(text) \/ CreateSharedString(text)
      PROVE  BuildInv'
  BY <1>1, StringBuilt, BuiltKeeps, SharedKeeps
<1>2. CASE VectorCalls
  BY <1>2, VectorBuilt, BuiltKeeps
<1>3. ASSUME NEW T \in Tables, StartTable(T) PROVE BuildInv'
  BY <1>3, StartKeeps
<1>4. CASE FieldCalls
  <2>1. PICK i : \/ \E w \in Nat \ {0} : FieldSkipped(i, w)
                 \/ \E b, c, arg : FieldSet(i, b, c, arg)
    BY <1>4, FieldAdded
  <2>2. CASE \E w \in Nat \ {0} : FieldSkipped(i, w)
    <3>1. SameCells(buf, buf') /\ UNCHANGED Rest
      BY <2>2, SelfSame DEF FieldSkipped, Rest, BuildInv
    <3> QED BY <3>1, RoomKeeps
  <2>3. CASE \E b, c, arg : FieldSet(i, b, c, arg)
    BY <2>3, FieldKeeps
  <2> QED BY <2>1, <2>2, <2>3
<1>5. CASE EndTable
  BY <1>5, EndKeeps
<1>6. ASSUME NEW root \in Roots(buf), NEW ident \in BOOLEAN, NEW prefixed \in BOOLEAN,
             Finish(root, ident, prefixed)
      PROVE  BuildInv'
  BY <1>6, FinishKeeps
<1>7. CASE ReleaseBufferPointer
  BY <1>7, ReleaseKeeps
<1>8. CASE Clear
  BY <1>8, ClearKeeps
<1>9. ASSUME NEW f \in FlagChoices, SetFlags(f.force, f.dedup) PROVE BuildInv'
  BY <1>9, FlagsKeep
<1>10. CASE UNCHANGED builderVars
  <2>1. SameCells(buf, buf') /\ UNCHANGED Rest
    BY <1>10, SelfSame DEF builderVars, Rest, flags, BuildInv
  <2> QED BY <2>1, RoomKeeps
<1> QED BY <1>1, <1>2, <1>3, <1>4, <1>5, <1>6, <1>7, <1>8, <1>9, <1>10 DEF Next

\* A sound builder has its types.
LEMMA BuildInvType ==
    ASSUME BuildInv
    PROVE  TypeOK
<1>1. Typed(buf)
  BY DEF BuildInv
<1>2. \A r \in DOMAIN buf.cells : buf.cells[r] \in Cell /\ r \in 1..buf.size
  BY <1>1, CellsInside
<1>3. /\ buf.size <= buf.reserved /\ buf.reserved % WordSize = 0
      /\ buf.minalign \in Nat \ {0} /\ buf.held \in BOOLEAN /\ buf.aborted \in BOOLEAN
  BY <1>1, Measures DEF Typed
<1>4. \A k \in DOMAIN offsetbuf : offsetbuf[k].id \in DOMAIN table.fields
  BY DEF BuildInv, DraftIn
<1>5. stringPool \subseteq Places(buf) \/ ~buf.held
  BY DEF BuildInv, PoolSound, Places
<1>6. finished \in BOOLEAN /\ flags \in BOOLEAN \X BOOLEAN /\ nested = (table # NoTable)
  BY DEF BuildInv, flags
<1> QED BY <1>2, <1>3, <1>4, <1>5, <1>6 DEF TypeOK

\* A sound builder has built what is sound.
LEMMA BuildInvSound ==
    ASSUME BuildInv
    PROVE  BuiltSound
<1>1. VtablesShared
  BY DEF BuildInv, VtablesShared, Listed, VtableCells, Different
<1>2. FieldsInTable
  <2>1. \A r \in Roots(buf) : FieldsAt(buf, r)
    BY DEF BuildInv, TablesSound, TableSound, Roots, Places, IsTable
  <2> QED BY <2>1 DEF FieldsInTable, FieldsAt
<1>3. PoolLeadsToStrings
  BY DEF BuildInv, PoolSound, PoolLeadsToStrings
<1>4. FinishedAligned
  BY DEF BuildInv, Complete, EvenFromFront, LooseIn, FinishedAligned, Untracked, InVector
<1>5. PrefixCounts
  BY DEF BuildInv, Counted, NoPrefix, PrefixCounts
<1>6. StartFoundFromRoot
  <2> SUFFICES ASSUME finished, buf.held, \A r \in Places(buf) : r <= RootRead
               PROVE  BufferStart(RootRead) = RootPlace
    BY DEF StartFoundFromRoot
  <2> DEFINE root  == RootRead
             from  == Greater(root, VtableOf(buf, root))
             At(k) == from + ((-from) % 4) + 4 * k
             hits  == {k \in 1..5 : WordAt(At(k)) = At(k) - root}
  <2>1. RootPlace = RootIn(buf) /\ root = Target(buf, RootIn(buf), 1)
    BY DEF RootPlace, RootIn, RootRead
  <2>2. \A r : WordAt(r) = WordIn(buf, r)
    BY DEF WordAt, WordIn
  <2>3. FoundIn(buf)
    BY DEF BuildInv, Complete
  <2>4. \E m \in 1..5 : /\ At(m) = RootIn(buf) /\ WordIn(buf, At(m)) = At(m) - root
                        /\ \A k \in 1..5 : k < m => WordIn(buf, At(k)) # At(k) - root
    BY <2>1, <2>3 DEF FoundIn
  <2>5. BufferStart(root) = IF hits = {} THEN 0 ELSE At(FirstOf(hits))
    <3>1. MaxAlignment \div 4 + 1 = 5
      BY DEF MaxAlignment
    <3> QED BY <3>1 DEF BufferStart
  <2> HIDE DEF root, from, At
  <2>6. PICK m \in 1..5 : /\ At(m) = RootIn(buf) /\ WordAt(At(m)) = At(m) - root
                          /\ \A k \in 1..5 : k < m => WordAt(At(k)) # At(k) - root
    BY <2>2, <2>4
  <2>7. m \in hits /\ \A k \in hits : k \in 1..5 /\ ~(k < m)
    BY <2>6
  <2> HIDE DEF hits
  <2>8. hits \in SUBSET Nat /\ hits # {}
    BY <2>7
  <2>9. FirstOf(hits) \in hits /\ \A k \in hits : FirstOf(hits) <= k
    BY <2>8, FirstIs
  <2>10. FirstOf(hits) = m
    <3>1. PICK f : f = FirstOf(hits)
      OBVIOUS
    <3>2. f \in 1..5 /\ ~(f < m) /\ f <= m
      BY <2>7, <2>9, <3>1
    <3>3. f = m
      BY <3>2
    <3> QED BY <3>1, <3>3
  <2>11. BufferStart(root) = At(m)
    BY <2>5, <2>8, <2>10
  <2> QED BY <2>1, <2>6, <2>11 DEF root
<1> QED BY <1>1, <1>2, <1>3, <1>4, <1>5, <1>6 DEF BuiltSound

\* buf_ holds what has been written, a table is open exactly while nested says so,
\* and its fields are those of its type.
THEOREM BuilderTypes ==
    ASSUME BuilderConstants
    PROVE  Spec => []TypeOK
<1>1. Init => BuildInv
  BY BuilderInit
<1>2. BuildInv /\ [Next]_builderVars => BuildInv'
  BY BuilderNext
<1>3. BuildInv => TypeOK
  BY BuildInvType
<1> QED BY <1>1, <1>2, <1>3, PTL DEF Spec

\* What FlatBufferBuilder builds is sound, for every schema and order of calls:
\* vtables_ lists the vtables in the buffer and shares them, the fields of every
\* table are where its vtable says, the string pool leads to its strings, and a
\* finished buffer is aligned, counted by its prefix and found from its root.
THEOREM BuilderBuiltSound ==
    ASSUME BuilderConstants
    PROVE  Spec => []BuiltSound
<1>1. Init => BuildInv
  BY BuilderInit
<1>2. BuildInv /\ [Next]_builderVars => BuildInv'
  BY BuilderNext
<1>3. BuildInv => BuiltSound
  BY BuildInvSound
<1> QED BY <1>1, <1>2, <1>3, PTL DEF Spec

-----------------------------------------------------------------------------
(* What a reader decodes does not change when something is put in front.   *)

ItemAt(a, r) == IF IsTable(a, r) THEN ReadTable(a, r) ELSE ReadVector(a, r)

\* A vector that is not empty is behind its length.
LengthsLead(a) ==
    \A r \in DOMAIN a.cells :
        a.cells[r].kind = "length" /\ a.cells[r].val[1] # 0 => r - 4 \in DOMAIN a.cells

\* What a reader follows is there.
Readable(a) == Typed(a) /\ TablesSound(a) /\ LengthsLead(a)

\* The kinds an offset may lead to.
Heads == {"length", "soffset"}

\* What can be referred to starts with a length or is a table.
LEMMA PlacesAre ==
    ASSUME NEW a, TablesSound(a)
    PROVE  Places(a) = {r \in DOMAIN a.cells : a.cells[r].kind \in Heads}
BY DEF Places, TablesSound, TableSound, IsTable, Heads

\* A cell is read as before: what it refers to is told from its own place.
LEMMA ReadKept ==
    ASSUME NEW a, NEW b, Keeps(a, b), NEW r \in DOMAIN a.cells
    PROVE  ReadAt(b, r) = ReadAt(a, r)
<1>1. b.cells[r] = a.cells[r]
  BY DEF Keeps
<1>2. \A k : Target(b, r, k) = Target(a, r, k)
  BY <1>1 DEF Target
<1>3. [k \in DOMAIN b.cells[r].val |-> Target(b, r, k)]
        = [k \in DOMAIN a.cells[r].val |-> Target(a, r, k)]
  BY <1>1, <1>2
<1> QED BY <1>1, <1>3 DEF ReadAt

\* So are the fields of a table, of which only the defaults are left out.
LEMMA FieldValuesKept ==
    ASSUME NEW a, NEW b, Keeps(a, b), NEW q,
           \A j \in DOMAIN q : q[j] \in DOMAIN a.cells
    PROVE  ReadFields(b, q) = ReadFields(a, q)
<1>1. \A j \in DOMAIN q : ReadAt(b, q[j]) = ReadAt(a, q[j])
  BY ReadKept
<1> DEFINE stored(c) == {j \in DOMAIN q : ~IsDefault(ReadAt(c, q[j]))}
<1>2. stored(b) = stored(a)
  BY <1>1
<1>3. /\ ReadFields(a, q) = [j \in stored(a) |-> ReadAt(a, q[j])]
      /\ ReadFields(b, q) = [j \in stored(b) |-> ReadAt(b, q[j])]
  BY DEF ReadFields
<1>4. \A j \in stored(a) : ReadAt(b, q[j]) = ReadAt(a, q[j])
  BY <1>1
<1> HIDE DEF stored
<1>5. [j \in stored(b) |-> ReadAt(b, q[j])] = [j \in stored(a) |-> ReadAt(a, q[j])]
  BY <1>2, <1>4
<1> QED BY <1>3, <1>5

\* One field more.
LEMMA FieldRead ==
    ASSUME NEW a, NEW b, Keeps(a, b), NEW p, NEW q, NEW i, i \notin DOMAIN p,
           DOMAIN q = DOMAIN p \cup {i},
           \A j \in DOMAIN p : q[j] = p[j] /\ p[j] \in DOMAIN a.cells
    PROVE  ReadFields(b, q) =
              IF IsDefault(ReadAt(b, q[i])) THEN ReadFields(a, p)
              ELSE Store!Extended(ReadFields(a, p), i, ReadAt(b, q[i]))
<1> DEFINE stored(c, f) == {j \in DOMAIN f : ~IsDefault(ReadAt(c, f[j]))}
<1>1. \A j \in DOMAIN p : ReadAt(b, q[j]) = ReadAt(a, p[j])
  BY ReadKept
<1>2. i \notin stored(a, p)
  OBVIOUS
<1>3. CASE IsDefault(ReadAt(b, q[i]))
  <2>1. stored(b, q) = stored(a, p)
    BY <1>1, <1>3
  <2>2. \A j \in stored(a, p) : ReadAt(b, q[j]) = ReadAt(a, p[j])
    BY <1>1
  <2>3. [j \in stored(b, q) |-> ReadAt(b, q[j])] = [j \in stored(a, p) |-> ReadAt(a, p[j])]
    BY <2>1, <2>2
  <2> QED BY <1>3, <2>3 DEF ReadFields
<1>4. CASE ~IsDefault(ReadAt(b, q[i]))
  <2>1. stored(b, q) = stored(a, p) \cup {i}
    BY <1>1, <1>4
  <2>2. \A j \in stored(a, p) : ReadAt(b, q[j]) = ReadAt(a, p[j])
    BY <1>1
  <2> DEFINE f == [j \in stored(a, p) |-> ReadAt(a, p[j])]
  <2>3. DOMAIN f = stored(a, p) /\ \A j \in stored(a, p) : f[j] = ReadAt(a, p[j])
    OBVIOUS
  <2>4. f = ReadFields(a, p)
    BY DEF ReadFields
  <2> HIDE DEF f
  <2>5. Store!Extended(f, i, ReadAt(b, q[i])) =
           [z \in stored(a, p) \cup {i} |-> IF z = i THEN ReadAt(b, q[i]) ELSE f[z]]
    BY <2>3 DEF Store!Extended
  <2>6. ReadFields(b, q) = [j \in stored(b, q) |-> ReadAt(b, q[j])]
    BY DEF ReadFields
  <2> HIDE DEF stored
  <2>7. [j \in stored(b, q) |-> ReadAt(b, q[j])] =
           [z \in stored(a, p) \cup {i} |-> IF z = i THEN ReadAt(b, q[i]) ELSE f[z]]
    BY <1>2, <2>1, <2>2, <2>3
  <2> QED BY <1>4, <2>4, <2>5, <2>6, <2>7
<1> QED BY <1>3, <1>4

\* An item is an item still, and is read as before.
LEMMA ItemKept ==
    ASSUME NEW a, NEW b, Keeps(a, b), Readable(a), NEW r \in Places(a)
    PROVE  r \in Places(b) /\ ItemAt(b, r) = ItemAt(a, r)
<1>1. r \in DOMAIN a.cells /\ r \in DOMAIN b.cells /\ b.cells[r] = a.cells[r]
  BY DEF Places, Keeps
<1>2. VtableOf(b, r) = VtableOf(a, r)
  BY <1>1 DEF VtableOf
<1>3. CASE IsTable(a, r)
  <2> DEFINE w == VtableOf(a, r)
             e == Entries(a, r)
             q == [i \in Present(e) |-> r - e[i]]
  <2>1. w \in DOMAIN a.cells /\ w \in DOMAIN b.cells /\ b.cells[w] = a.cells[w]
    BY <1>3 DEF IsTable, Keeps
  <2>2. IsTable(b, r)
    BY <1>1, <1>2, <1>3, <2>1 DEF IsTable
  <2>3. Entries(b, r) = e
    BY <1>2, <2>1 DEF Entries
  <2>4. \A i \in Present(e) : r - e[i] \in DOMAIN a.cells
    <3>1. a.cells[r].kind = "soffset"
      BY <1>3 DEF IsTable
    <3>2. FieldsAt(a, r)
      BY <1>1, <3>1 DEF Readable, TablesSound, TableSound
    <3> QED BY <3>2 DEF FieldsAt
  <2> HIDE DEF e
  <2>5. \A i \in DOMAIN q : q[i] \in DOMAIN a.cells
    BY <2>4
  <2> HIDE DEF q
  <2>6. ReadFields(b, q) = ReadFields(a, q)
    BY <2>5, FieldValuesKept
  <2>7. ReadTable(b, r) = [kind |-> "table", fields |-> ReadFields(b, q)]
    BY <2>3 DEF ReadTable, q
  <2>8. ReadTable(a, r) = [kind |-> "table", fields |-> ReadFields(a, q)]
    BY DEF ReadTable, q, e
  <2> QED BY <1>1, <1>3, <2>2, <2>6, <2>7, <2>8 DEF Places, ItemAt
<1>4. CASE ~IsTable(a, r)
  <2>1. a.cells[r].kind = "length"
    BY <1>4 DEF Places
  <2>2. ~IsTable(b, r)
    BY <1>1, <2>1 DEF IsTable
  <2>3. a.cells[r].val[1] # 0 => ReadAt(b, r - 4) = ReadAt(a, r - 4)
    BY <1>1, <2>1, ReadKept DEF Readable, LengthsLead
  <2>4. ReadVector(b, r) = ReadVector(a, r)
    BY <1>1, <2>3 DEF ReadVector
  <2> QED BY <1>1, <1>4, <2>1, <2>2, <2>4 DEF Places, ItemAt
<1> QED BY <1>3, <1>4

\* When nothing new can be referred to, the items are the same ...
LEMMA ItemsSame ==
    ASSUME NEW a, NEW b, Keeps(a, b), Readable(a), TablesSound(b),
           \A q \in DOMAIN b.cells \ DOMAIN a.cells : b.cells[q].kind \notin Heads
    PROVE  Items(b) = Items(a)
<1>1. \A r \in Places(a) : r \in Places(b) /\ ItemAt(b, r) = ItemAt(a, r)
  BY ItemKept
<1>2. Places(b) \subseteq Places(a)
  BY PlacesAre DEF Readable, Keeps
<1>3. Places(b) = Places(a)
  BY <1>1, <1>2
<1>4. [r \in Places(b) |-> ItemAt(b, r)] = [r \in Places(a) |-> ItemAt(a, r)]
  BY <1>1, <1>3
<1> QED BY <1>4 DEF Items, ItemAt

\* ... and when one thing more can, there is one more.
LEMMA ItemsMore ==
    ASSUME NEW a, NEW b, Keeps(a, b), Readable(a), TablesSound(b),
           NEW s \in DOMAIN b.cells \ DOMAIN a.cells, b.cells[s].kind \in Heads,
           \A q \in DOMAIN b.cells \ DOMAIN a.cells : q # s => b.cells[q].kind \notin Heads
    PROVE  Items(b) = Store!Extended(Items(a), s, ItemAt(b, s)) /\ s \notin DOMAIN Items(a)
<1>1. \A r \in Places(a) : r \in Places(b) /\ ItemAt(b, r) = ItemAt(a, r)
  BY ItemKept
<1>2. Places(b) = Places(a) \cup {s} /\ s \notin Places(a)
  <2>1. \A r \in Places(b) : r # s => r \in Places(a)
    BY PlacesAre DEF Readable, Keeps
  <2>2. s \in Places(b) /\ s \notin Places(a)
    BY PlacesAre DEF Readable
  <2> QED BY <1>1, <2>1, <2>2
<1> DEFINE f == [r \in Places(a) |-> ItemAt(a, r)]
<1>3. f = Items(a)
  BY DEF Items, ItemAt
<1>4. DOMAIN f = Places(a) /\ \A r \in Places(a) : f[r] = ItemAt(a, r)
  OBVIOUS
<1> HIDE DEF f
<1>5. Items(b) = [r \in Places(b) |-> ItemAt(b, r)]
  BY DEF Items, ItemAt
<1>6. [r \in Places(b) |-> ItemAt(b, r)] =
         [z \in Places(a) \cup {s} |-> IF z = s THEN ItemAt(b, s) ELSE f[z]]
  BY <1>1, <1>2, <1>4
<1>7. Store!Extended(f, s, ItemAt(b, s)) =
         [z \in Places(a) \cup {s} |-> IF z = s THEN ItemAt(b, s) ELSE f[z]]
  BY <1>4 DEF Store!Extended
<1> QED BY <1>2, <1>3, <1>4, <1>5, <1>6, <1>7

\* A vector that is not empty stays behind its length.
LEMMA LeadKept ==
    ASSUME NEW a, NEW b, Keeps(a, b), LengthsLead(a),
           \A s \in DOMAIN b.cells \ DOMAIN a.cells :
              b.cells[s].kind = "length" /\ b.cells[s].val[1] # 0 => s - 4 \in DOMAIN b.cells
    PROVE  LengthsLead(b)
BY DEF LengthsLead, Keeps

\* The calls the store knows.
StoreContents == [kind : CellKinds, size : Nat \ {0}, val : Seq(Int)]

\* A call can be told to the store.
LEMMA IsCall ==
    ASSUME NEW op, NEW arg \in StoreContents \cup {Nothing}, NEW at \in Nat
    PROVE  /\ Called(op, arg, at) \in Store!Calls(op)
           /\ Called(op, arg, at).op = op /\ Called(op, arg, at).arg = arg
           /\ Called(op, arg, at).at = at
<1>1. at \in (Nat \ {0}) \cup {0}
  OBVIOUS
<1> QED BY <1>1 DEF Called, Store!Calls, StoreContents, Store!Nothing, Nothing, Content

\* A call that gives the store nothing.
LEMMA NothingCall ==
    ASSUME NEW op, NEW at \in Nat
    PROVE  /\ Called(op, Nothing, at) \in Store!Calls(op)
           /\ Called(op, Nothing, at).op = op /\ Called(op, Nothing, at).at = at
<1>1. PICK n : n = Nothing
  OBVIOUS
<1>2. n \in StoreContents \cup {Nothing}
  BY <1>1
<1>3. /\ Called(op, n, at) \in Store!Calls(op)
      /\ Called(op, n, at).op = op /\ Called(op, n, at).at = at
  BY ONLY <1>2, at \in Nat, IsCall
<1> QED BY <1>1, <1>3

\* What a reader finds in a cell can be told to the store.
LEMMA ReadTyped ==
    ASSUME NEW a, Typed(a), NEW r \in DOMAIN a.cells
    PROVE  ReadAt(a, r) \in StoreContents
<1> DEFINE c == a.cells[r]
           v == [k \in DOMAIN c.val |-> Target(a, r, k)]
<1>1. c \in Cell /\ r \in Nat
  BY DEF Typed
<1>2. c.kind \in CellKinds /\ c.size \in Nat \ {0} /\ c.val \in Seq(Int)
  BY <1>1 DEF Cell
<1>3. v \in Seq(Int)
  <2>1. \A k \in DOMAIN c.val : c.val[k] \in Int /\ k \in Int
    BY <1>2
  <2>2. \A k \in DOMAIN c.val : Target(a, r, k) \in Int
    BY <1>1, <2>1 DEF Target
  <2>3. DOMAIN c.val = 1..Len(c.val) /\ Len(c.val) \in Nat
    BY <1>2, LenProperties
  <2> QED BY <2>2, <2>3
<1>4. ReadAt(a, r) = Content(c.kind, c.size, IF c.kind = "uoffset" THEN v ELSE c.val)
  BY DEF ReadAt
<1> QED BY <1>2, <1>3, <1>4 DEF StoreContents, Content

-----------------------------------------------------------------------------
(* The table being built.                                                  *)

\* Each field is added once.
Once(locs) == \A j, k \in DOMAIN locs : locs[j].id = locs[k].id => j = k

\* Where the fields added so far are.
FieldIds(locs)    == {locs[k].id : k \in DOMAIN locs}
LocOf(locs, i)    == CHOOSE k \in DOMAIN locs : locs[k].id = i
DraftPlaces(locs) == [i \in FieldIds(locs) |-> locs[LocOf(locs, i)].off]

\* A field added once is where its location says.
LEMMA LocIs ==
    ASSUME NEW locs, Once(locs), NEW k \in DOMAIN locs
    PROVE  /\ locs[k].id \in FieldIds(locs)
           /\ DraftPlaces(locs)[locs[k].id] = locs[k].off
<1> DEFINE i == locs[k].id
           m == LocOf(locs, i)
<1>1. m \in DOMAIN locs /\ locs[m].id = i
  BY DEF LocOf
<1> HIDE DEF m
<1>2. m = k
  BY <1>1 DEF Once
<1>3. i \in FieldIds(locs)
  BY DEF FieldIds
<1> QED BY <1>2, <1>3 DEF DraftPlaces, m

\* What is read of the open table.
LEMMA DraftReads ==
    /\ table = NoTable => DraftRead = Store!NoDraft
    /\ table # NoTable =>
          DraftRead = Store!Draft(ReadFields(buf, DraftPlaces(offsetbuf)))
BY DEF DraftRead, DraftPlaces, FieldIds, LocOf, Store!Draft, Store!NoDraft

\* What is read of it after a step.
LEMMA DraftReadsNext ==
    /\ table' = NoTable => DraftRead' = Store!NoDraft
    /\ table' # NoTable =>
          DraftRead' = Store!Draft(ReadFields(buf', DraftPlaces(offsetbuf')))
BY DEF DraftRead, DraftPlaces, FieldIds, LocOf, Store!Draft, Store!NoDraft

\* The fields of the table being built are there.
LEMMA DraftThere ==
    ASSUME BuildInv, table # NoTable, Once(offsetbuf)
    PROVE  \A i \in DOMAIN DraftPlaces(offsetbuf) :
              DraftPlaces(offsetbuf)[i] \in DOMAIN buf.cells
<1>1. DOMAIN DraftPlaces(offsetbuf) = FieldIds(offsetbuf)
  BY DEF DraftPlaces
<1>2. \A k \in DOMAIN offsetbuf : offsetbuf[k].off \in DOMAIN buf.cells
  BY DEF BuildInv, DraftIn
<1> QED BY <1>1, <1>2, LocIs DEF FieldIds

\* They are read as before.
LEMMA DraftStays ==
    ASSUME BuildInv, Once(offsetbuf), Keeps(buf, buf'), UNCHANGED <<offsetbuf, table>>
    PROVE  DraftRead' = DraftRead
<1>1. CASE table = NoTable
  BY <1>1, DraftReads, DraftReadsNext
<1>2. CASE table # NoTable
  <2>1. ReadFields(buf', DraftPlaces(offsetbuf)) = ReadFields(buf, DraftPlaces(offsetbuf))
    BY <1>2, DraftThere, FieldValuesKept
  <2> QED BY <1>2, <2>1, DraftReads, DraftReadsNext
<1> QED BY <1>1, <1>2

-----------------------------------------------------------------------------
(* Every call is one of the store.                                         *)

\* No text has a NUL in it, and no client adds a field twice.
StoreConstants ==
    /\ BuilderConstants /\ ~AddTwice
    /\ \A text \in Texts : \A k \in DOMAIN text : text[k] # 0

\* What is in the pool is one of the texts, as it was given.
PoolRead(b, pool) ==
    \A o \in pool :
        \E text \in Texts :
            /\ {o, o - 4} \subseteq DOMAIN b.cells
            /\ b.cells[o] = MkCell(4, 4, "length", <<Len(text)>>)
            /\ b.cells[o - 4] = StringCell(text)

\* The strings of the pool are read as before.
LEMMA PoolReadKept ==
    ASSUME NEW a, NEW b, Keeps(a, b), NEW pool, PoolRead(a, pool)
    PROVE  PoolRead(b, pool)
BY DEF PoolRead, Keeps

ShareTold == call.op = "share" => TextContent(TextAt(buf, call.at)) = call.arg

StoreMore ==
    /\ LengthsLead(buf) /\ Once(offsetbuf) /\ ShareTold
    /\ buf.held => PoolRead(buf, stringPool)

StoreInv == BuildInv /\ StoreMore

\* What a call keeps that neither shares a string nor forgets one.
LEMMA MoreKept ==
    ASSUME StoreMore, Keeps(buf, buf'), buf'.held = buf.held, LengthsLead(buf'),
           Once(offsetbuf'), stringPool' = stringPool, call'.op # "share"
    PROVE  StoreMore'
<1>1. buf'.held => PoolRead(buf', stringPool')
  BY PoolReadKept DEF StoreMore
<1> QED BY <1>1 DEF StoreMore, ShareTold

\* When the cells are the same, a reader sees the same.
LEMMA SameRead ==
    ASSUME StoreInv, SameCells(buf, buf'), UNCHANGED <<offsetbuf, table, finished>>
    PROVE  /\ Items(buf') = Items(buf) /\ DraftRead' = DraftRead /\ RootRead' = RootRead
           /\ LengthsLead(buf')
<1>1. /\ Typed(buf) /\ TablesSound(buf) /\ Once(offsetbuf) /\ LengthsLead(buf)
      /\ Keeps(buf, buf') /\ TablesSound(buf') /\ buf'.cells = buf.cells
      /\ buf'.size = buf.size /\ buf'.held = buf.held
  BY SameKeeps DEF StoreInv, StoreMore, BuildInv, SameCells
<1>2. Items(buf') = Items(buf)
  BY <1>1, ItemsSame DEF Readable
<1>3. DraftRead' = DraftRead
  BY <1>1, DraftStays DEF StoreInv
<1>4. RootRead' = RootRead
  BY <1>1 DEF RootRead, RootPlace, Target
<1> QED BY <1>1, <1>2, <1>3, <1>4 DEF LengthsLead

\* An assert ends the process, and the store has no more to say.
LEMMA StoreFails ==
    ASSUME StoreInv, buf' = Abort(buf), call' = Called("failed", Nothing, 0), UNCHANGED Rest
    PROVE  Store!Fail /\ StoreMore'
<1>1. /\ Typed(buf) /\ StoreMore /\ offsetbuf' = offsetbuf /\ table' = table
      /\ finished' = finished /\ stringPool' = stringPool
  BY DEF StoreInv, BuildInv, Rest
<1>2. SameCells(buf, buf')
  BY <1>1, AbortSame
<1>3. /\ Items(buf') = Items(buf) /\ DraftRead' = DraftRead /\ RootRead' = RootRead
      /\ LengthsLead(buf')
  BY <1>1, <1>2, SameRead
<1>4. call' \in Store!Calls("failed") /\ call'.op = "failed"
  BY IsCall
<1>5. Keeps(buf, buf') /\ buf'.held = buf.held
  BY <1>2 DEF SameCells, Keeps
<1>6. StoreMore'
  BY <1>1, <1>3, <1>4, <1>5, MoreKept DEF StoreMore
<1> QED BY <1>3, <1>4, <1>6 DEF Store!Fail

\* A string or a vector is a new item, read as what it was made of.
LEMMA StoreBuilds ==
    ASSUME StoreInv, BuildInv', NEW b, NEW c, NEW n \in Nat, VectorMore(buf, b, c, n),
           c.size \in Nat, c.size # 0 => Element(b, c), NEW arg, n = 0 => arg = Nothing,
           n # 0 => /\ c.size # 0 /\ arg = ReadAt(b, b.size - 4)
                    /\ Store!RefsOf(arg) \subseteq Places(buf),
           ~nested, ~finished, buf' = b, call' = Called("build", arg, b.size),
           UNCHANGED <<finished, offsetbuf, table>>
    PROVE  Store!Build /\ LengthsLead(buf')
<1>1. /\ Typed(buf) /\ TablesSound(buf) /\ LengthsLead(buf) /\ Once(offsetbuf)
      /\ Typed(b) /\ TablesSound(b) /\ table = NoTable
  BY DEF StoreInv, StoreMore, BuildInv
<1>2. /\ Keeps(buf, b) /\ b.size \notin DOMAIN buf.cells
      /\ DOMAIN b.cells = DOMAIN buf.cells \cup {b.size}
                              \cup (IF c.size > 0 THEN {b.size - 4} ELSE {})
      /\ b.cells[b.size] = MkCell(4, 4, "length", <<n>>)
      /\ c.size > 0 => b.cells[b.size - 4] = c
  BY DEF VectorMore
<1>3. b.cells[b.size].kind = "length" /\ b.cells[b.size].val[1] = n
  BY <1>2 DEF MkCell
<1>4. c.size > 0 <=> c.size # 0
  OBVIOUS
<1>5. b.size \in DOMAIN b.cells \ DOMAIN buf.cells /\ b.cells[b.size].kind \in Heads
  BY <1>2, <1>3 DEF Heads
<1>6. \A q \in DOMAIN b.cells \ DOMAIN buf.cells :
         q # b.size => q = b.size - 4 /\ b.cells[q].kind \notin Heads
  BY <1>2, <1>4 DEF Element, Heads
<1>7. b.size \in Nat \ {0}
  <2>1. b.size \in Nat /\ b.size \in 1..b.size
    BY <1>1, <1>5, Measures, CellsInside
  <2> QED BY <2>1
<1>8. LengthsLead(b)
  <2>1. ASSUME NEW q \in DOMAIN b.cells \ DOMAIN buf.cells, b.cells[q].kind = "length",
               b.cells[q].val[1] # 0
        PROVE  q - 4 \in DOMAIN b.cells
    <3>1. q = b.size
      BY <1>6, <2>1 DEF Heads
    <3>2. c.size # 0
      BY <1>3, <2>1, <3>1
    <3> QED BY <1>2, <1>4, <3>1, <3>2
  <2> QED BY <1>1, <1>2, <2>1, LeadKept
<1>9. ItemAt(b, b.size) = arg
  <2>1. ~IsTable(b, b.size)
    BY <1>3 DEF IsTable
  <2>2. ReadVector(b, b.size) = IF n = 0 THEN Nothing ELSE ReadAt(b, b.size - 4)
    BY <1>3 DEF ReadVector
  <2> QED BY <2>1, <2>2 DEF ItemAt
<1>10. Items(b) = Store!Extended(Items(buf), b.size, arg) /\ b.size \notin DOMAIN Items(buf)
  BY <1>1, <1>2, <1>5, <1>6, <1>9, ItemsMore DEF Readable
<1>11. arg \in StoreContents \cup {Nothing} /\ Store!RefsOf(arg) \subseteq Places(buf)
  <2>1. CASE n = 0
    <3>1. Store!RefsOf(Nothing) = {}
      BY DEF Store!RefsOf, Nothing, Content
    <3> QED BY <2>1, <3>1
  <2>2. CASE n # 0
    <3>1. b.size - 4 \in DOMAIN b.cells
      BY <1>2, <1>4, <2>2
    <3> QED BY <1>1, <2>2, <3>1, ReadTyped
  <2> QED BY <2>1, <2>2
<1>12. call' \in Store!Calls("build") /\ call'.arg = arg /\ call'.at = b.size
  <2>1. arg \in StoreContents \cup {Nothing} /\ b.size \in Nat
    BY <1>7, <1>11
  <2>2. /\ Called("build", arg, b.size) \in Store!Calls("build")
        /\ Called("build", arg, b.size).arg = arg /\ Called("build", arg, b.size).at = b.size
    BY ONLY <2>1, IsCall
  <2> QED BY <2>2
<1>13. DraftRead' = DraftRead /\ ~DraftRead.open
  <2>1. DraftRead' = DraftRead
    BY <1>1, <1>2, DraftStays DEF StoreInv
  <2>2. DraftRead = Store!NoDraft
    BY <1>1, DraftReads
  <2> QED BY <2>1, <2>2 DEF Store!NoDraft
<1>14. RootRead' = 0 /\ RootRead = 0
  BY DEF RootRead
<1>15. DOMAIN Items(buf) = Places(buf)
  BY DEF Items
<1> QED BY <1>7, <1>8, <1>10, <1>11, <1>12, <1>13, <1>14, <1>15 DEF Store!Build

\* So every vector, and a string that is not shared.
LEMMA StoreBuilt ==
    ASSUME StoreInv, BuildInv', NEW b, NEW c, NEW n, NEW arg, Built(b, c, n, arg)
    PROVE  (Store!Build \/ Store!Fail) /\ StoreMore'
<1>1. /\ VectorMore(buf, b, c, n) /\ c.size \in Nat /\ (c.size # 0 => Element(b, c))
      /\ n \in Nat /\ (n = 0 => arg = Nothing)
      /\ n # 0 => /\ c.size # 0 /\ arg = ReadAt(b, b.size - 4)
                  /\ Store!RefsOf(arg) \subseteq Places(buf)
  BY DEF Built
<1>2. CASE AssertFails
  BY <1>2, StoreFails DEF AssertFails, Rest
<1>3. CASE ~AssertFails
  <2>1. /\ Leaves(b, "build", arg, b.size) /\ ~nested /\ ~finished
        /\ UNCHANGED <<nested, finished, flags, stringPool, tracking>>
    BY <1>3 DEF Built, NewVector, Building
  <2>2. CASE b.aborted
    <3>1. UNCHANGED Rest
      BY <2>1 DEF Rest, tracking, flags
    <3> QED BY <2>1, <2>2, <3>1, StoreFails DEF Leaves
  <2>3. CASE ~b.aborted
    <3>1. buf' = b /\ call' = Called("build", arg, b.size)
      BY <2>1, <2>3 DEF Leaves
    <3>2. finished' = finished /\ offsetbuf' = offsetbuf /\ table' = table
          /\ stringPool' = stringPool
      BY <2>1 DEF tracking
    <3>3. Store!Build /\ LengthsLead(buf')
      BY <1>1, <2>1, <3>1, <3>2, StoreBuilds
    <3>4. Keeps(buf, buf') /\ buf'.held = buf.held
      BY <1>1, <3>1 DEF VectorMore
    <3>5. call'.op # "share"
      BY <3>1 DEF Called
    <3>6. StoreMore'
      BY <3>2, <3>3, <3>4, <3>5, MoreKept DEF StoreInv, StoreMore
    <3> QED BY <3>3, <3>6
  <2> QED BY <2>2, <2>3
<1> QED BY <1>2, <1>3

\* A text without a NUL is compared to its end.
LEMMA WholeText ==
    ASSUME NEW text, \A k \in DOMAIN text : text[k] # 0
    PROVE  CStr(text) = text
<1>1. {k \in DOMAIN text : text[k] = 0} = {}
  OBVIOUS
<1> QED BY <1>1 DEF CStr

\* A shared string is the one that is there, or a new one.
LEMMA StoreShares ==
    ASSUME StoreConstants, StoreInv, BuildInv', NEW text \in Texts, CreateSharedString(text)
    PROVE  (Store!Build \/ Store!Share \/ Store!Fail) /\ StoreMore'
<1> DEFINE b == StringArena(buf, text)
           c == StringCell(text)
           p == Pop(b, b.size - buf.size)
           arg == TextContent(text)
<1>1. text \in Seq(Int) /\ Typed(buf) /\ BuildInv /\ StoreMore /\ LengthsLead(buf)
  BY DEF StoreConstants, BuilderConstants, StoreInv, StoreMore, BuildInv
<1>2. VectorMore(buf, b, c, Len(text)) /\ Len(text) \in Nat
  BY <1>1, StringMade
<1>3. /\ arg = IF Len(text) = 0 THEN Nothing ELSE Content(c.kind, c.size, c.val)
      /\ c.kind = "string" /\ c.size = Len(text) + 1 /\ c.size # 0 /\ c.val = text
  BY <1>1, TextRead
<1>4. \/ AssertFails
      \/ /\ ~nested /\ ~b.aborted
         /\ \E known \in Pooled(b, b.size) : Leaves(p, "share", arg, known)
         /\ UNCHANGED <<nested, finished, flags, stringPool, tracking>>
      \/ /\ ~nested /\ ~b.aborted /\ Pooled(b, b.size) = {}
         /\ Leaves(b, "build", arg, b.size)
         /\ stringPool' = stringPool \cup {b.size}
         /\ UNCHANGED <<nested, finished, flags, tracking>>
  BY DEF CreateSharedString
<1>5. ~finished /\ buf.held
  BY DEF CreateSharedString, Building, Running
<1>6. \A t \in Texts : CStr(t) = t
  BY WholeText DEF StoreConstants
<1>7. PoolRead(buf, stringPool)
  BY <1>1, <1>5 DEF StoreMore
<1> HIDE DEF b, c, arg
<1>8. /\ Typed(b) /\ Keeps(buf, b) /\ buf.minalign <= b.minalign /\ b.held = buf.held
      /\ b.size - 4 - c.size >= buf.size /\ c.size \in Nat /\ c.size > 0
      /\ DOMAIN b.cells = DOMAIN buf.cells \cup {b.size, b.size - 4}
      /\ b.cells[b.size] = MkCell(4, 4, "length", <<Len(text)>>)
      /\ b.cells[b.size - 4] = c
  BY <1>2, <1>3 DEF VectorMore
<1>9. buf.size \in Nat /\ b.size \in Nat
  BY <1>1, <1>8, Measures
<1>10. CASE AssertFails
  BY <1>10, StoreFails DEF AssertFails, Rest
<1>11. CASE /\ ~nested /\ ~b.aborted
            /\ \E known \in Pooled(b, b.size) : Leaves(p, "share", arg, known)
            /\ UNCHANGED <<nested, finished, flags, stringPool, tracking>>
  <2>1. \A r \in DOMAIN b.cells \ DOMAIN buf.cells : r > buf.size
    BY <1>8, <1>9
  <2>2. buf.size <= b.size
    BY <1>8, <1>9
  <2>3. SameCells(buf, p) /\ p.aborted = b.aborted
    BY <1>1, <1>8, <2>1, <2>2, PopBack
  <2> HIDE DEF p
  <2>4. PICK known \in Pooled(b, b.size) : Leaves(p, "share", arg, known)
    BY <1>11
  <2>5. buf' = p /\ call' = Called("share", arg, known)
    BY <1>11, <2>3, <2>4 DEF Leaves
  <2>6. known \in stringPool /\ CStr(TextAt(b, known)) = CStr(TextAt(b, b.size))
    BY DEF Pooled
  <2>7. PICK t \in Texts : /\ {known, known - 4} \subseteq DOMAIN buf.cells
                           /\ buf.cells[known] = MkCell(4, 4, "length", <<Len(t)>>)
                           /\ buf.cells[known - 4] = StringCell(t)
    BY <1>7, <2>6 DEF PoolRead
  <2>8. t = text
    <3>1. TextAt(b, known) = t
      BY <1>8, <2>7 DEF Keeps, TextAt, StringCell, MkCell
    <3>2. TextAt(b, b.size) = text
      BY <1>3, <1>8 DEF TextAt
    <3> QED BY <1>6, <2>6, <3>1, <3>2
  <2>9. buf.cells[known].kind = "length" /\ buf.cells[known].val[1] = Len(text)
        /\ known \in DOMAIN buf.cells /\ known - 4 \in DOMAIN buf.cells
        /\ buf.cells[known - 4] = c
    BY <2>7, <2>8 DEF MkCell, c
  <2>10. known \in Places(buf) /\ ~IsTable(buf, known) /\ known \in Nat
    BY <1>1, <2>9, CellsInside DEF Places, IsTable
  <2>11. ReadAt(buf, known - 4) = Content(c.kind, c.size, c.val)
    BY <1>3, <2>9 DEF ReadAt
  <2>12. Items(buf)[known] = arg /\ known \in DOMAIN Items(buf)
    <3>1. ReadVector(buf, known) = arg
      BY <1>3, <2>9, <2>11 DEF ReadVector
    <3> QED BY <2>10, <3>1 DEF Items
  <2>13. arg \in StoreContents \cup {Nothing}
    BY <1>1, <1>3, <2>9, <2>11, ReadTyped
  <2>14. call' \in Store!Calls("share") /\ call'.arg = arg /\ call'.at = known
         /\ call'.op = "share"
    BY <2>5, <2>10, <2>13, IsCall
  <2>15. offsetbuf' = offsetbuf /\ table' = table /\ finished' = finished
         /\ stringPool' = stringPool
    BY <1>11 DEF tracking
  <2>16. /\ Items(buf') = Items(buf) /\ DraftRead' = DraftRead /\ RootRead' = RootRead
         /\ LengthsLead(buf')
    BY <2>3, <2>5, <2>15, SameRead
  <2>17. ~DraftRead.open /\ RootRead = 0
    <3>1. table = NoTable
      BY <1>1, <1>11 DEF BuildInv
    <3> QED BY <1>5, <3>1, DraftReads DEF Store!NoDraft, RootRead
  <2>18. Store!Share
    BY <2>12, <2>14, <2>16, <2>17 DEF Store!Share
  <2>19. ShareTold'
    <3>1. buf'.cells[known - 4].val = text
      BY <1>3, <2>3, <2>5, <2>9 DEF SameCells
    <3>2. TextContent(TextAt(buf', known)) = arg
      BY <3>1 DEF TextAt, arg
    <3> QED BY <2>14, <3>2 DEF ShareTold
  <2>20. buf'.held => PoolRead(buf', stringPool')
    <3>1. Keeps(buf, buf')
      BY <2>3, <2>5 DEF SameCells, Keeps
    <3> QED BY <1>7, <2>15, <3>1, PoolReadKept
  <2>21. StoreMore'
    BY <1>1, <2>15, <2>16, <2>19, <2>20 DEF StoreMore
  <2> QED BY <2>18, <2>21
<1>12. CASE /\ ~nested /\ ~b.aborted /\ Pooled(b, b.size) = {}
            /\ Leaves(b, "build", arg, b.size)
            /\ stringPool' = stringPool \cup {b.size}
            /\ UNCHANGED <<nested, finished, flags, tracking>>
  <2>1. buf' = b /\ call' = Called("build", arg, b.size)
    BY <1>12 DEF Leaves
  <2>2. offsetbuf' = offsetbuf /\ table' = table /\ finished' = finished
    BY <1>12 DEF tracking
  <2>3. Element(b, c)
    BY <1>1, <1>8, StringElement DEF c
  <2>4. ASSUME Len(text) # 0
        PROVE  c.size # 0 /\ arg = ReadAt(b, b.size - 4)
               /\ Store!RefsOf(arg) \subseteq Places(buf)
    <3>1. arg = Content(c.kind, c.size, c.val)
      BY <1>3, <2>4
    <3>2. arg.kind = "string"
      BY <1>3, <3>1 DEF Content
    <3> QED BY <1>3, <1>8, <3>1, <3>2 DEF ReadAt, Store!RefsOf
  <2>5. Len(text) = 0 => arg = Nothing
    BY <1>3
  <2>6. Store!Build /\ LengthsLead(buf')
    BY <1>2, <1>5, <1>8, <1>12, <2>1, <2>2, <2>3, <2>4, <2>5, StoreBuilds
  <2>7. PoolRead(buf', stringPool')
    <3>1. PoolRead(b, stringPool)
      BY <1>7, <1>8, PoolReadKept
    <3>2. /\ {b.size, b.size - 4} \subseteq DOMAIN b.cells
          /\ b.cells[b.size] = MkCell(4, 4, "length", <<Len(text)>>)
          /\ b.cells[b.size - 4] = StringCell(text)
      BY <1>8 DEF c
    <3> QED BY <1>12, <2>1, <3>1, <3>2 DEF PoolRead
  <2>8. ShareTold'
    BY <2>1 DEF ShareTold, Called
  <2>9. StoreMore'
    BY <1>1, <2>2, <2>6, <2>7, <2>8 DEF StoreMore
  <2> QED BY <2>6, <2>9
<1> QED BY <1>4, <1>10, <1>11, <1>12

\* A table that is started has no fields.
LEMMA StoreBegins ==
    ASSUME BuilderConstants, StoreInv, NEW T \in Tables, StartTable(T)
    PROVE  (Store!Begin \/ Store!Fail) /\ StoreMore'
<1>1. CASE AssertFails
  BY <1>1, StoreFails DEF AssertFails, Rest
<1>2. CASE ~AssertFails
  <2>1. /\ ~nested /\ ~finished /\ buf' = buf /\ offsetbuf' = offsetbuf
        /\ finished' = finished /\ stringPool' = stringPool
        /\ table' = [fields |-> T, start |-> buf.size]
        /\ call' = Called("begin", Nothing, 0)
    BY <1>2 DEF StartTable, Building
  <2>2. /\ Typed(buf) /\ StoreMore /\ table = NoTable /\ offsetbuf = <<>>
    BY <2>1 DEF StoreInv, BuildInv
  <2>3. table' # NoTable
    <3>1. buf.size \in Nat
      BY <2>2, Measures
    <3> QED BY <2>1, <3>1 DEF NoTable
  <2>4. call' \in Store!Calls("begin") /\ call'.op = "begin"
    <3>1. /\ Called("begin", Nothing, 0) \in Store!Calls("begin")
          /\ Called("begin", Nothing, 0).op = "begin"
      BY ONLY Nothing \in StoreContents \cup {Nothing}, 0 \in Nat, IsCall
    <3> QED BY <2>1, <3>1
  <2>5. DraftRead' = Store!Draft(Store!NoFields)
    <3> DEFINE p == DraftPlaces(offsetbuf')
               stored == {j \in DOMAIN p : ~IsDefault(ReadAt(buf', p[j]))}
    <3>1. DOMAIN p = {}
      BY <2>1, <2>2 DEF DraftPlaces, FieldIds
    <3>2. DraftRead' = Store!Draft(ReadFields(buf', p))
      BY <2>3, DraftReadsNext
    <3> HIDE DEF p
    <3>3. stored = {}
      BY <3>1
    <3>4. ReadFields(buf', p) = [i \in stored |-> ReadAt(buf', p[i])]
      BY DEF ReadFields
    <3> HIDE DEF stored
    <3>5. [i \in stored |-> ReadAt(buf', p[i])] = Store!NoFields
      BY <3>3 DEF Store!NoFields
    <3> QED BY <3>2, <3>4, <3>5
  <2>6. DraftRead = Store!NoDraft
    BY <2>2, DraftReads
  <2>7. RootRead' = 0 /\ RootRead = 0
    BY <2>1 DEF RootRead
  <2>8. Store!Begin
    BY <2>1, <2>4, <2>5, <2>6, <2>7 DEF Store!Begin, Store!NoDraft
  <2>9. Keeps(buf, buf')
    BY <2>1 DEF Keeps
  <2>10. StoreMore'
    BY <2>1, <2>2, <2>4, <2>9, MoreKept DEF StoreMore
  <2> QED BY <2>8, <2>10
<1> QED BY <1>1, <1>2

\* A field is read as what was stored for it.
LEMMA StoreSets ==
    ASSUME StoreConstants, StoreInv, BuildInv', NEW i, NEW b, NEW c, NEW arg,
           FieldSet(i, b, c, arg)
    PROVE  (Store!Set \/ Store!Fail) /\ StoreMore'
<1>1. /\ table # NoTable /\ ~finished /\ i \in DOMAIN table.fields
      /\ \A k \in DOMAIN offsetbuf : offsetbuf[k].id # i
      /\ OneMore(buf, b, c) /\ c.kind \in {"scalar", "uoffset", "struct"}
      /\ arg = ReadAt(b, b.size) /\ Store!RefsOf(arg) \subseteq Places(buf)
      /\ Leaves(b, "set", arg, i)
      /\ offsetbuf' = IF b.aborted THEN offsetbuf ELSE TrackField(i, b)
      /\ UNCHANGED <<nested, finished, flags, vtables, table, stringPool>>
  BY DEF StoreConstants, FieldSet, Free, Field
<1>2. /\ Typed(buf) /\ TablesSound(buf) /\ LengthsLead(buf) /\ Once(offsetbuf) /\ StoreMore
      /\ offsetbuf \in Seq([id : Nat, off : Nat]) /\ DraftIn(buf, table, offsetbuf)
  BY <1>1 DEF StoreInv, StoreMore, BuildInv
<1>3. CASE b.aborted
  <2>1. UNCHANGED Rest
    BY <1>1, <1>3 DEF Rest, flags
  <2> QED BY <1>1, <1>3, <2>1, StoreFails DEF Leaves
<1>4. CASE ~b.aborted
  <2>1. /\ buf' = b /\ call' = Called("set", arg, i)
        /\ offsetbuf' = Append(offsetbuf, [id |-> i, off |-> b.size])
    BY <1>1, <1>4 DEF Leaves, TrackField
  <2>2. /\ Typed(b) /\ Keeps(buf, b) /\ b.held = buf.held /\ b.size \notin DOMAIN buf.cells
        /\ DOMAIN b.cells = DOMAIN buf.cells \cup {b.size} /\ b.cells[b.size] = c
    BY <1>1 DEF OneMore
  <2>3. TablesSound(b)
    BY <2>1 DEF BuildInv
  <2>4. \A q \in DOMAIN b.cells \ DOMAIN buf.cells :
           b.cells[q].kind \notin Heads /\ b.cells[q].kind # "length"
    BY <1>1, <2>2 DEF Heads
  <2>5. Items(b) = Items(buf)
    BY <1>2, <2>2, <2>3, <2>4, ItemsSame DEF Readable
  <2>6. LengthsLead(b)
    BY <1>2, <2>2, <2>4, LeadKept
  <2>7. b.size \in Nat /\ i \in Nat \ {0}
    <3>1. i \in 1..Len(table.fields)
      BY <1>1, <1>2 DEF DraftIn
    <3> QED BY <2>2, <3>1, Measures
  <2> DEFINE n == Len(offsetbuf)
             l == [id |-> i, off |-> b.size]
             locs == Append(offsetbuf, l)
             p == DraftPlaces(offsetbuf)
             q == DraftPlaces(locs)
  <2>8. l \in [id : Nat, off : Nat] /\ l.id = i /\ l.off = b.size
    BY <2>7
  <2> HIDE DEF l
  <2>9. /\ DOMAIN locs = DOMAIN offsetbuf \cup {n + 1} /\ n + 1 \notin DOMAIN offsetbuf
        /\ \A k \in DOMAIN offsetbuf : locs[k] = offsetbuf[k]
        /\ locs[n + 1] = l
    <3>1. n \in Nat /\ DOMAIN offsetbuf = 1..n
      BY <1>2, LenProperties
    <3>2. n + 1 \notin 1..n
      BY <3>1
    <3> QED BY <1>2, <2>8, <3>1, <3>2, AppendProperties
  <2>10. offsetbuf' = locs
    BY <2>1 DEF l
  <2> HIDE DEF locs, n
  <2>11. Once(locs)
    <3>1. \A k \in DOMAIN offsetbuf : locs[k].id = offsetbuf[k].id /\ locs[k].id # i
      BY <1>1, <2>9
    <3>2. locs[n + 1].id = i
      BY <2>8, <2>9
    <3> QED BY <1>2, <2>9, <3>1, <3>2 DEF Once
  <2>12. /\ DOMAIN p = FieldIds(offsetbuf) /\ DOMAIN q = FieldIds(locs)
         /\ FieldIds(locs) = FieldIds(offsetbuf) \cup {i} /\ i \notin FieldIds(offsetbuf)
    <3>1. DOMAIN p = FieldIds(offsetbuf) /\ DOMAIN q = FieldIds(locs)
      BY DEF DraftPlaces
    <3>2. FieldIds(locs) = FieldIds(offsetbuf) \cup {i}
      BY <2>8, <2>9 DEF FieldIds
    <3> QED BY <1>1, <3>1, <3>2 DEF FieldIds
  <2>13. \A j \in DOMAIN p : q[j] = p[j]
    <3>1. \A k \in DOMAIN offsetbuf : p[offsetbuf[k].id] = offsetbuf[k].off
      BY <1>2, LocIs
    <3>2. \A k \in DOMAIN offsetbuf : q[offsetbuf[k].id] = offsetbuf[k].off
      <4>1. \A k \in DOMAIN locs : q[locs[k].id] = locs[k].off
        BY <2>11, LocIs
      <4> QED BY <2>9, <4>1
    <3> QED BY <2>12, <3>1, <3>2 DEF FieldIds
  <2>14. q[i] = b.size
    <3>1. q[locs[n + 1].id] = locs[n + 1].off
      BY <2>9, <2>11, LocIs
    <3> QED BY <2>8, <2>9, <3>1
  <2>15. \A j \in DOMAIN p : p[j] \in DOMAIN buf.cells
    BY <1>1, <1>2, DraftThere DEF StoreInv
  <2> HIDE DEF p, q
  <2>16. ReadFields(b, q) =
            IF IsDefault(ReadAt(b, q[i])) THEN ReadFields(buf, p)
            ELSE Store!Extended(ReadFields(buf, p), i, ReadAt(b, q[i]))
    BY <2>2, <2>12, <2>13, <2>15, FieldRead
  <2>17. DraftRead = Store!Draft(ReadFields(buf, p)) /\ DraftRead' = Store!Draft(ReadFields(b, q))
    BY <1>1, <2>1, <2>10, DraftReads, DraftReadsNext DEF p, q
  <2>18. DraftRead.open /\ DraftRead.fields = ReadFields(buf, p)
    BY <2>17 DEF Store!Draft
  <2>19. i \notin DOMAIN DraftRead.fields
    <3>1. DOMAIN ReadFields(buf, p) \subseteq DOMAIN p
      BY DEF ReadFields
    <3> QED BY <2>12, <2>18, <3>1
  <2>20. DraftRead' = Store!Draft(IF IsDefault(arg) THEN DraftRead.fields
                                  ELSE Store!Extended(DraftRead.fields, i, arg))
    BY <1>1, <2>14, <2>16, <2>17, <2>18
  <2>21. call' \in Store!Calls("set") /\ call'.arg = arg /\ call'.at = i /\ call'.op = "set"
    <3>1. arg \in StoreContents \cup {Nothing} /\ i \in Nat
      BY <1>1, <2>2, <2>7, ReadTyped
    <3>2. /\ Called("set", arg, i) \in Store!Calls("set") /\ Called("set", arg, i).op = "set"
          /\ Called("set", arg, i).arg = arg /\ Called("set", arg, i).at = i
      BY ONLY <3>1, IsCall
    <3> QED BY <2>1, <3>2
  <2>22. RootRead' = 0 /\ RootRead = 0
    BY <1>1 DEF RootRead
  <2>23. DOMAIN Items(buf) = Places(buf)
    BY DEF Items
  <2>24. Store!Set
    BY <1>1, <2>1, <2>5, <2>7, <2>18, <2>19, <2>20, <2>21, <2>22, <2>23 DEF Store!Set
  <2>25. StoreMore'
    BY <1>1, <1>2, <2>1, <2>2, <2>6, <2>10, <2>11, <2>21, MoreKept
  <2> QED BY <2>24, <2>25
<1> QED BY <1>3, <1>4

\* A default need not be stored.
LEMMA StoreSkips ==
    ASSUME StoreConstants, StoreInv, NEW i, NEW w \in Nat \ {0}, FieldSkipped(i, w)
    PROVE  Store!Set /\ StoreMore'
<1> DEFINE p == DraftPlaces(offsetbuf)
<1>0. PICK arg : arg = Content("scalar", w, <<Default>>)
  OBVIOUS
<1>1. /\ table # NoTable /\ ~finished /\ i \in DOMAIN table.fields
      /\ \A k \in DOMAIN offsetbuf : offsetbuf[k].id # i
      /\ call' = Called("set", arg, i)
      /\ UNCHANGED <<buf, offsetbuf, nested, finished, flags, vtables, table, stringPool>>
  BY <1>0 DEF StoreConstants, FieldSkipped, Free
<1>2. /\ Typed(buf) /\ StoreMore /\ DraftIn(buf, table, offsetbuf)
  BY <1>1 DEF StoreInv, BuildInv
<1>3. SameCells(buf, buf')
  BY <1>1, <1>2, SelfSame
<1>4. /\ Items(buf') = Items(buf) /\ DraftRead' = DraftRead /\ RootRead' = RootRead
      /\ LengthsLead(buf')
  BY <1>1, <1>3, SameRead
<1>5. arg \in StoreContents /\ Store!RefsOf(arg) = {} /\ IsDefault(arg)
  BY <1>0 DEF Content, StoreContents, CellKinds, Default, Store!RefsOf, IsDefault
<1> HIDE DEF p
<1>6. i \in Nat \ {0}
  <2>1. i \in 1..Len(table.fields)
    BY <1>1, <1>2 DEF DraftIn
  <2> QED BY <2>1
<1>7. call' \in Store!Calls("set") /\ call'.arg = arg /\ call'.at = i /\ call'.op = "set"
  <2>1. arg \in StoreContents \cup {Nothing} /\ i \in Nat
    BY <1>5, <1>6
  <2>2. Called("set", arg, i) \in Store!Calls("set")
    BY <2>1, IsCall
  <2>3. /\ Called("set", arg, i).op = "set" /\ Called("set", arg, i).arg = arg
        /\ Called("set", arg, i).at = i
    BY DEF Called
  <2> QED BY <1>1, <2>2, <2>3
<1>8. DraftRead = Store!Draft(ReadFields(buf, p))
  BY <1>1, DraftReads DEF p
<1>9. DraftRead.open /\ DraftRead.fields = ReadFields(buf, p)
  BY <1>8 DEF Store!Draft
<1>10. i \notin DOMAIN DraftRead.fields
  <2>1. DOMAIN ReadFields(buf, p) \subseteq FieldIds(offsetbuf)
    BY DEF ReadFields, p, DraftPlaces
  <2> QED BY <1>1, <1>9, <2>1 DEF FieldIds
<1>11. Store!Set
  BY <1>4, <1>5, <1>6, <1>7, <1>8, <1>9, <1>10 DEF Store!Set
<1>12. StoreMore'
  <2>1. Keeps(buf, buf') /\ buf'.held = buf.held
    BY <1>3 DEF SameCells, Keeps
  <2> QED BY <1>1, <1>2, <1>4, <1>7, <2>1, MoreKept DEF StoreMore
<1> QED BY <1>11, <1>12

\* A table that is finished has the fields of the draft.
LEMMA StoreCommits ==
    ASSUME StoreInv, BuildInv', EndTable
    PROVE  (Store!Commit \/ Store!Fail) /\ StoreMore'
<1>1. CASE AssertFails
  BY <1>1, StoreFails DEF AssertFails, Rest
<1>2. CASE ~AssertFails
  <2>1. /\ table # NoTable /\ ~finished /\ finished' = finished
        /\ offsetbuf' = <<>> /\ table' = NoTable /\ stringPool' = stringPool
    BY <1>2 DEF EndTable, Building
  <2>2. /\ Typed(buf) /\ TablesSound(buf) /\ LengthsLead(buf) /\ Once(offsetbuf) /\ StoreMore
        /\ offsetbuf \in Seq([id : Nat, off : Nat]) /\ DraftIn(buf, table, offsetbuf)
        /\ Typed(buf') /\ TablesSound(buf')
    BY <2>1 DEF StoreInv, StoreMore, BuildInv
  <2>3. PICK r \in Nat, v \in Nat :
           LET vt == VtableCell(r, offsetbuf)
           IN  /\ TableMore(buf, buf', r, v, vt)
               /\ Slots(vt, r, offsetbuf, table.fields, table.start)
               /\ call' = Called("commit", Nothing, r)
    BY <1>2, TableMade DEF StoreInv
  <2> DEFINE b == buf'
             vt == VtableCell(r, offsetbuf)
             e == Entries(b, r)
             n == Len(table.fields)
             p == DraftPlaces(offsetbuf)
             q == [i \in Present(e) |-> r - e[i]]
  <2>4. /\ TableMore(buf, b, r, v, vt) /\ Slots(vt, r, offsetbuf, table.fields, table.start)
        /\ call' = Called("commit", Nothing, r)
    BY <2>3
  <2> HIDE DEF vt
  <2>5. Entered(b, r, table, offsetbuf)
    BY <2>2, <2>4, TableEntries
  <2>6. /\ Keeps(buf, b) /\ b.held = buf.held /\ r - 4 >= buf.size /\ r \notin DOMAIN buf.cells
        /\ b.cells[r] = MkCell(4, 4, "soffset", <<v - r>>) /\ r \in DOMAIN b.cells
        /\ \A s \in DOMAIN b.cells \ DOMAIN buf.cells : s # r => b.cells[s] = vt
    BY <2>4 DEF TableMore
  <2>7. b.cells[r].kind = "soffset" /\ vt.kind = "vtable"
    BY <2>4, <2>6 DEF MkCell, Slots
  <2>8. r \in DOMAIN b.cells \ DOMAIN buf.cells /\ b.cells[r].kind \in Heads
    BY <2>6, <2>7 DEF Heads
  <2>9. \A s \in DOMAIN b.cells \ DOMAIN buf.cells : s # r => b.cells[s].kind \notin Heads
    BY <2>6, <2>7 DEF Heads
  <2>10. buf.size \in Nat
    BY <2>2, Measures
  <2>11. /\ IsTable(b, r) /\ DOMAIN table.fields = 1..n /\ DOMAIN e = 1..n
         /\ \A i \in 1..n :
               \/ e[i] = 0 /\ \A k \in DOMAIN offsetbuf : offsetbuf[k].id # i
               \/ \E k \in DOMAIN offsetbuf : offsetbuf[k].id = i /\ e[i] = r - offsetbuf[k].off
    BY <2>5 DEF Entered
  <2>12. \A k \in DOMAIN offsetbuf :
            /\ offsetbuf[k].id \in 1..n /\ offsetbuf[k].off \in Nat
            /\ offsetbuf[k].off <= buf.size
    <3>1. \A k \in DOMAIN offsetbuf :
             /\ offsetbuf[k].id \in 1..n /\ offsetbuf[k].off \in DOMAIN buf.cells
      BY ONLY <2>2, <2>11 DEF DraftIn
    <3>2. \A m \in DOMAIN buf.cells : m \in Nat /\ m <= buf.size
      BY <2>2 DEF Typed
    <3> QED BY ONLY <3>1, <3>2
  <2> HIDE DEF b, e, n
  <2>13. \A k \in DOMAIN offsetbuf : /\ e[offsetbuf[k].id] = r - offsetbuf[k].off
                                     /\ offsetbuf[k].id \in Present(e)
    <3> SUFFICES ASSUME NEW k \in DOMAIN offsetbuf
                 PROVE  /\ e[offsetbuf[k].id] = r - offsetbuf[k].off
                        /\ offsetbuf[k].id \in Present(e)
      OBVIOUS
    <3>1. PICK m \in DOMAIN offsetbuf : /\ offsetbuf[m].id = offsetbuf[k].id
                                        /\ e[offsetbuf[k].id] = r - offsetbuf[m].off
      BY <2>11, <2>12
    <3>2. m = k
      BY <2>2, <3>1 DEF Once
    <3>3. e[offsetbuf[k].id] = r - offsetbuf[k].off
      BY <3>1, <3>2
    <3>4. r - offsetbuf[k].off # 0
      BY <2>6, <2>10, <2>12
    <3> QED BY <2>11, <2>12, <3>3, <3>4 DEF Present
  <2>14. Present(e) = FieldIds(offsetbuf)
    BY <2>11, <2>13 DEF Present, FieldIds
  <2>15. q = p
    <3>1. DOMAIN p = FieldIds(offsetbuf)
      BY DEF DraftPlaces
    <3>2. \A k \in DOMAIN offsetbuf : r - e[offsetbuf[k].id] = p[offsetbuf[k].id]
      <4>1. \A k \in DOMAIN offsetbuf : r - (r - offsetbuf[k].off) = offsetbuf[k].off
        BY <2>12
      <4> QED BY <2>2, <2>13, <4>1, LocIs
    <3>3. \A i \in Present(e) : r - e[i] = p[i]
      BY <2>14, <3>2 DEF FieldIds
    <3>4. p = [i \in FieldIds(offsetbuf) |-> p[i]]
      BY DEF DraftPlaces
    <3> HIDE DEF p
    <3> QED BY <2>14, <3>3, <3>4
  <2>16. ReadTable(b, r) = Store!Table(ReadFields(b, q))
    BY DEF ReadTable, e, Store!Table
  <2>17. ReadFields(b, p) = ReadFields(buf, p)
    BY <2>1, <2>2, <2>6, DraftThere, FieldValuesKept DEF StoreInv
  <2>18. DraftRead = Store!Draft(ReadFields(buf, p))
    BY <2>1, DraftReads
  <2> HIDE DEF p, q
  <2>19. DraftRead.open /\ DraftRead.fields = ReadFields(buf, p)
    BY <2>18 DEF Store!Draft
  <2>20. ItemAt(b, r) = Store!Table(DraftRead.fields)
    BY <2>11, <2>15, <2>16, <2>17, <2>19 DEF ItemAt
  <2>21. /\ Items(b) = Store!Extended(Items(buf), r, Store!Table(DraftRead.fields))
         /\ r \notin DOMAIN Items(buf)
    BY <2>2, <2>6, <2>8, <2>9, <2>20, ItemsMore DEF Readable, b
  <2>22. DraftRead' = Store!NoDraft
    BY <2>1, DraftReadsNext
  <2>23. RootRead' = 0 /\ RootRead = 0
    BY <2>1 DEF RootRead
  <2>24. call' \in Store!Calls("commit") /\ call'.at = r /\ call'.op = "commit"
    <3>1. /\ Called("commit", Nothing, r) \in Store!Calls("commit")
          /\ Called("commit", Nothing, r).at = r /\ Called("commit", Nothing, r).op = "commit"
      BY r \in Nat, NothingCall
    <3> QED BY <2>4, <3>1
  <2>25. r # 0
    BY <2>6, <2>10
  <2>26. Store!Commit
    BY <2>19, <2>21, <2>22, <2>23, <2>24, <2>25 DEF Store!Commit, b
  <2>27. LengthsLead(b)
    <3>1. \A s \in DOMAIN b.cells \ DOMAIN buf.cells : b.cells[s].kind # "length"
      BY <2>6, <2>7
    <3> QED BY <2>2, <2>6, <3>1, LeadKept
  <2>28. Once(offsetbuf')
    BY <2>1 DEF Once
  <2>29. StoreMore'
    BY <2>1, <2>2, <2>6, <2>24, <2>27, <2>28, MoreKept DEF b
  <2> QED BY <2>26, <2>29
<1> QED BY <1>1, <1>2

\* A finished buffer leads to its root.
LEMMA StoreFinishes ==
    ASSUME StoreInv, BuildInv', NEW root \in Roots(buf), NEW ident \in BOOLEAN,
           NEW prefixed \in BOOLEAN, Finish(root, ident, prefixed)
    PROVE  (Store!Finish \/ Store!Fail) /\ StoreMore'
<1> DEFINE d == FinishedArena(root, ident, prefixed)
<1>1. CASE AssertFails
  BY <1>1, StoreFails DEF AssertFails, Rest
<1>2. CASE ~AssertFails
  <2>1. /\ ~nested /\ ~finished /\ buf.held /\ Leaves(d, "finish", Nothing, root)
        /\ finished' = ~d.aborted /\ UNCHANGED <<nested, flags, stringPool, tracking>>
    BY <1>2 DEF Finish, Building, Running
  <2>2. /\ offsetbuf' = offsetbuf /\ table' = table /\ stringPool' = stringPool
    BY <2>1 DEF tracking
  <2>3. /\ Typed(buf) /\ Placed(buf) /\ TablesSound(buf) /\ NoPrefix(buf) /\ TopIn(buf)
        /\ LengthsLead(buf) /\ Once(offsetbuf) /\ StoreMore /\ table = NoTable
        /\ finished = FALSE
    BY <2>1 DEF StoreInv, StoreMore, BuildInv
  <2>4. CASE d.aborted
    <3>1. UNCHANGED Rest
      BY <2>1, <2>3, <2>4 DEF Rest, tracking, flags
    <3> QED BY <2>1, <2>4, <3>1, StoreFails DEF Leaves
  <2>5. CASE ~d.aborted
    <3>1. buf' = d /\ finished' /\ call' = Called("finish", Nothing, root)
      BY <2>1, <2>5 DEF Leaves
    <3>2. root \in DOMAIN buf.cells /\ buf.cells[root].kind = "soffset" /\ IsTable(buf, root)
          /\ root \in Places(buf)
      BY DEF Roots, Places, IsTable
    <3>3. 4 <= buf.minalign
      BY <2>3, <3>2 DEF TablesSound, TableSound, Placed, LooseIn, Even
    <3>4. PICK top \in Nat : Finishes(buf, d, root, top, prefixed)
      BY <2>3, <3>2, <3>3, FinishMade
    <3> HIDE DEF d
    <3>5. RootIn(d) = top
      BY <2>3, <3>3, <3>4, FinishComplete
    <3>6. /\ Keeps(buf, d) /\ d.held = buf.held /\ TablesSound(d)
          /\ d.cells[top] = MkCell(4, 4, "uoffset", <<top - root>>)
      BY <3>1, <3>4 DEF Finishes, BuildInv
    <3>7. \A q \in DOMAIN d.cells \ DOMAIN buf.cells :
             d.cells[q].kind \in {"ident", "uoffset", "prefix"}
      <4>1. /\ IdentCell.kind = "ident"
            /\ \A w : MkCell(4, 4, "uoffset", w).kind = "uoffset"
            /\ \A w : MkCell(4, 4, "prefix", w).kind = "prefix"
        BY DEF IdentCell, MkCell
      <4>2. \A q \in DOMAIN d.cells \ DOMAIN buf.cells :
               \/ d.cells[q] = MkCell(4, 4, "uoffset", <<top - root>>)
               \/ d.cells[q] = MkCell(4, 4, "prefix", <<top>>)
               \/ d.cells[q] = IdentCell
        BY ONLY <3>4 DEF Finishes
      <4> QED BY ONLY <4>1, <4>2
    <3>8. Items(d) = Items(buf)
      BY <2>3, <3>6, <3>7, ItemsSame DEF Readable, Heads
    <3>9. LengthsLead(d)
      <4>1. \A q \in DOMAIN d.cells \ DOMAIN buf.cells : d.cells[q].kind # "length"
        BY <3>7
      <4> QED BY <2>3, <3>6, <4>1, LeadKept
    <3>10. DraftRead' = DraftRead /\ ~DraftRead.open
      <4>1. DraftRead' = DraftRead
        BY <2>2, <2>3, <3>1, <3>6, DraftStays DEF StoreInv
      <4>2. DraftRead = Store!NoDraft
        BY <2>3, DraftReads
      <4> QED BY <4>1, <4>2 DEF Store!NoDraft
    <3>11. root \in Nat
      BY <2>3, <3>2, CellsInside
    <3>12. RootRead = 0 /\ RootRead' = root
      <4>1. RootRead' = Target(d, RootIn(d), 1)
        BY <2>1, <3>1, <3>6 DEF RootRead, RootPlace, RootIn
      <4>2. Target(d, top, 1) = root
        <5>1. d.cells[top].val[1] = top - root
          BY <3>6 DEF MkCell
        <5>2. top - 4 * (1 - 1) - (top - root) = root
          BY <3>11
        <5> QED BY <5>1, <5>2 DEF Target
      <4> QED BY <2>1, <3>5, <4>1, <4>2 DEF RootRead
    <3>13. root \in DOMAIN Items(buf) /\ Items(buf)[root].kind = "table"
      <4>1. DOMAIN Items(buf) = Places(buf) /\ Items(buf)[root] = ReadTable(buf, root)
        BY <3>2 DEF Items
      <4> QED BY <3>2, <4>1 DEF ReadTable
    <3>14. call' \in Store!Calls("finish") /\ call'.at = root /\ call'.op = "finish"
      <4>1. /\ Called("finish", Nothing, root) \in Store!Calls("finish")
            /\ Called("finish", Nothing, root).at = root
            /\ Called("finish", Nothing, root).op = "finish"
        BY <3>11, NothingCall
      <4> QED BY <3>1, <4>1
    <3>15. Store!Finish
      BY <3>1, <3>8, <3>10, <3>12, <3>13, <3>14 DEF Store!Finish
    <3>16. StoreMore'
      BY <2>2, <2>3, <3>1, <3>6, <3>9, <3>14, MoreKept
    <3> QED BY <3>15, <3>16
  <2> QED BY <2>4, <2>5
<1> QED BY <1>1, <1>2

\* Without a cell there is nothing to read.
LEMMA EmptyRead ==
    ASSUME NEW b, b.cells = NoCells
    PROVE  Items(b) = Store!NoFields /\ LengthsLead(b) /\ PoolRead(b, {})
<1>1. DOMAIN b.cells = {}
  BY DEF NoCells
<1>2. Places(b) = {}
  BY <1>1 DEF Places
<1>3. Items(b) = [r \in {} |-> Nothing]
  BY <1>2 DEF Items
<1> QED BY <1>1, <1>3 DEF Store!NoFields, Store!Nothing, Nothing, Content, LengthsLead, PoolRead

\* ReleaseBufferPointer clears the store, or its assert fails.
LEMMA StoreReleases ==
    ASSUME StoreInv, ReleaseBufferPointer
    PROVE  (Store!Clear \/ Store!Fail) /\ StoreMore'
<1>1. CASE AssertFails
  BY <1>1, StoreFails DEF AssertFails, Rest
<1>2. CASE ~AssertFails
  <2>1. /\ finished /\ buf' = [buf EXCEPT !.held = FALSE, !.cells = NoCells, !.size = 0]
        /\ call' = Called("new", Nothing, 0) /\ offsetbuf' = offsetbuf /\ table' = table
    BY <1>2 DEF ReleaseBufferPointer, tracking
  <2>2. Typed(buf) /\ table = NoTable /\ Once(offsetbuf)
    BY <2>1 DEF StoreInv, StoreMore, BuildInv
  <2>3. buf' = [reserved |-> buf.reserved, size |-> 0, cells |-> NoCells,
                minalign |-> buf.minalign, held |-> FALSE, aborted |-> buf.aborted]
    BY <2>1, <2>2 DEF Typed
  <2>4. buf'.held = FALSE /\ buf'.cells = NoCells
    BY <2>3
  <2>5. Items(buf') = Store!NoFields /\ LengthsLead(buf')
    BY <2>4, EmptyRead
  <2>6. DraftRead' = Store!NoDraft /\ RootRead' = 0
    BY <2>1, <2>2, <2>4, DraftReadsNext DEF RootRead
  <2>7. call' \in Store!Calls("new") /\ call'.op = "new"
    BY <2>1, NothingCall
  <2> QED BY <2>1, <2>2, <2>4, <2>5, <2>6, <2>7 DEF Store!Clear, StoreMore, ShareTold
<1> QED BY <1>1, <1>2

\* Clear clears the store.
LEMMA StoreClears ==
    ASSUME StoreInv, Clear
    PROVE  Store!Clear /\ StoreMore'
<1>1. /\ buf' = [buf EXCEPT !.size = 0, !.cells = NoCells, !.minalign = 1, !.held = TRUE]
      /\ stringPool' = {} /\ offsetbuf' = <<>> /\ ~finished' /\ table' = NoTable
      /\ call' = Called("new", Nothing, 0)
  BY DEF Clear, Cleared
<1>2. buf'.cells = NoCells
  <2>1. buf = [reserved |-> buf.reserved, size |-> buf.size, cells |-> buf.cells,
               minalign |-> buf.minalign, held |-> buf.held, aborted |-> buf.aborted]
    BY DEF StoreInv, BuildInv, Typed
  <2> QED BY <1>1, <2>1
<1>3. Items(buf') = Store!NoFields /\ LengthsLead(buf') /\ PoolRead(buf', stringPool')
  BY <1>1, <1>2, EmptyRead
<1>4. DraftRead' = Store!NoDraft /\ RootRead' = 0
  BY <1>1, DraftReadsNext DEF RootRead
<1>5. call' \in Store!Calls("new") /\ call'.op = "new"
  BY <1>1, NothingCall
<1>6. Once(offsetbuf')
  BY <1>1 DEF Once
<1> QED BY <1>3, <1>4, <1>5, <1>6 DEF Store!Clear, StoreMore, ShareTold

\* What is read.
readView == <<call, Items(buf), DraftRead, RootRead>>

\* What is only kept in the builder is not told to the store.
LEMMA StoreStutters ==
    ASSUME StoreInv, UNCHANGED <<buf, offsetbuf, finished, stringPool, table, call>>
    PROVE  UNCHANGED readView /\ StoreMore'
BY DEF readView, DraftRead, RootRead, RootPlace, StoreInv, StoreMore, ShareTold

\* Every step of the builder is one of the store.
LEMMA StoreSteps ==
    ASSUME StoreConstants, StoreInv, BuildInv', [Next]_builderVars
    PROVE  (Store!Next \/ UNCHANGED readView) /\ StoreMore'
<1>1. BuilderConstants /\ BuildInv
  BY DEF StoreConstants, StoreInv
<1>2. ASSUME NEW text \in Texts, CreateString(text)
      PROVE  Store!Next /\ StoreMore'
  BY <1>1, <1>2, StringBuilt, StoreBuilt DEF Store!Next
<1>3. ASSUME NEW text \in Texts, CreateSharedString(text)
      PROVE  Store!Next /\ StoreMore'
  BY <1>3, StoreShares DEF Store!Next
<1>4. CASE VectorCalls
  BY <1>1, <1>4, VectorBuilt, StoreBuilt DEF Store!Next
<1>5. ASSUME NEW T \in Tables, StartTable(T) PROVE Store!Next /\ StoreMore'
  BY <1>1, <1>5, StoreBegins DEF Store!Next
<1>6. CASE FieldCalls
  <2>1. PICK i : \/ \E w \in Nat \ {0} : FieldSkipped(i, w)
                 \/ \E b, c, arg : FieldSet(i, b, c, arg)
    BY <1>1, <1>6, FieldAdded
  <2> QED BY <2>1, StoreSkips, StoreSets DEF Store!Next
<1>7. CASE EndTable
  BY <1>7, StoreCommits DEF Store!Next
<1>8. ASSUME NEW root \in Roots(buf), NEW ident \in BOOLEAN, NEW prefixed \in BOOLEAN,
             Finish(root, ident, prefixed)
      PROVE  Store!Next /\ StoreMore'
  BY <1>8, StoreFinishes DEF Store!Next
<1>9. CASE ReleaseBufferPointer
  BY <1>9, StoreReleases DEF Store!Next
<1>10. CASE Clear
  BY <1>10, StoreClears DEF Store!Next
<1>11. ASSUME NEW f \in FlagChoices, SetFlags(f.force, f.dedup)
       PROVE  UNCHANGED readView /\ StoreMore'
  BY <1>11, StoreStutters DEF SetFlags, tracking
<1>12. CASE UNCHANGED builderVars
  BY <1>12, StoreStutters DEF builderVars
<1> QED BY <1>2, <1>3, <1>4, <1>5, <1>6, <1>7, <1>8, <1>9, <1>10, <1>11, <1>12 DEF Next

\* A new builder is an empty store.
LEMMA StoreStarts ==
    ASSUME BuilderConstants, Init
    PROVE  Store!Init /\ StoreInv
<1>1. BuildInv
  BY BuilderInit
<1>2. PICK n \in InitialSizes : buf = EmptyBuffer(n)
  BY DEF Init
<1>3. /\ offsetbuf = <<>> /\ stringPool = {} /\ finished = FALSE /\ table = NoTable
      /\ call = Called("new", Nothing, 0) /\ buf.cells = NoCells
  BY <1>2 DEF Init, EmptyBuffer
<1>4. Items(buf) = Store!NoFields /\ LengthsLead(buf) /\ PoolRead(buf, stringPool)
  BY <1>3, EmptyRead
<1>5. DraftRead = Store!NoDraft /\ RootRead = 0
  BY <1>3, DraftReads DEF RootRead
<1>6. call \in Store!Calls("new") /\ call.op = "new"
  BY <1>3, NothingCall
<1>7. Once(offsetbuf)
  BY <1>3 DEF Once
<1> QED BY <1>1, <1>4, <1>5, <1>6, <1>7 DEF Store!Init, StoreInv, StoreMore, ShareTold

\* A client that adds no field twice, with texts without a NUL, sees a store of
\* immutable items, whatever has been shared, popped again, cleared or released.
THEOREM BuilderImplementsFlatStore ==
    ASSUME StoreConstants
    PROVE  Spec => ImplementsFlatStore
<1>1. Init => Store!Init /\ StoreInv
  BY StoreStarts DEF StoreConstants
<1>2. StoreInv /\ [Next]_builderVars => StoreInv' /\ (Store!Next \/ UNCHANGED readView)
  <2> SUFFICES ASSUME StoreInv, [Next]_builderVars
               PROVE  StoreInv' /\ (Store!Next \/ UNCHANGED readView)
    OBVIOUS
  <2>1. BuildInv'
    BY BuilderNext DEF StoreConstants, StoreInv
  <2> QED BY <2>1, StoreSteps DEF StoreInv
<1> QED BY <1>1, <1>2, PTL DEF Spec, ImplementsFlatStore, Store!Spec, readView

\* CreateSharedString returns a string that is the one it was given.
THEOREM BuilderSharesExactStrings ==
    ASSUME StoreConstants
    PROVE  Spec => SharesExactStrings
<1>1. Init => StoreInv
  BY StoreStarts DEF StoreConstants
<1>2. StoreInv /\ [Next]_builderVars =>
         StoreInv' /\ [call'.op = "share" =>
                         TextContent(TextAt(buf', call'.at)) = call'.arg]_builderVars
  <2> SUFFICES ASSUME StoreInv, [Next]_builderVars
               PROVE  StoreInv' /\ (call'.op = "share" =>
                                      TextContent(TextAt(buf', call'.at)) = call'.arg)
    OBVIOUS
  <2>1. BuildInv'
    BY BuilderNext DEF StoreConstants, StoreInv
  <2>2. StoreMore'
    BY <2>1, StoreSteps
  <2> QED BY <2>1, <2>2 DEF StoreInv, StoreMore, ShareTold
<1> QED BY <1>1, <1>2, PTL DEF Spec, SharesExactStrings

=============================================================================
