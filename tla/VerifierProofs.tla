--------------------------- MODULE VerifierProofs ---------------------------
(***************************************************************************)
(* What the verifier promises, whatever the bytes and the schema are: it   *)
(* reads nothing it has not checked, counts how deep it is, and what it    *)
(* accepts can be read to any depth.  Two facts carry the proof.  What a   *)
(* check on the stack reads has been checked before, or will have been     *)
(* when its turn comes; and what a reader will ask of the tables entered   *)
(* so far has been checked, or is on the stack.                            *)
(***************************************************************************)
EXTENDS Verifier, FiniteSetTheorems, SequenceTheorems, WellFoundedInduction, TLAPS

-----------------------------------------------------------------------------
(* The checks of a field, and what they establish.                         *)

Kind(T, i) == Types[T][i].kind
Many     == {"strings", "tables", "unions"}
Loops    == {"eachString", "eachTable", "eachUnion"}
OfFields == {"inline", "string", "table", "vector", "strings", "tables", "union", "unions"}
Checks   == {"buffer", "start", "fields"} \cup OfFields \cup Loops

Goals == [check : Checks, at : Int, with : Int,
          type : DOMAIN Types \cup {<<>>} \cup {b.ident : b \in Buffers}, k : Nat]

Chain(kind) == {"inline"} \cup (IF kind \in {"scalar", "struct"} THEN {} ELSE {kind})
                          \cup (IF kind \in Many THEN {"vector"} ELSE {})

InlineMet(t, T, i) ==
    IF FieldOffset(t, i) = 0 THEN ~Types[T][i].required
    ELSE Inside(t + FieldOffset(t, i), InlineSize(Types[T][i]))
VectorMet(t, T, i) == Pointer(t, i) = Null \/ VectorFits(Pointer(t, i), Types[T][i].size)

TableSound(t)  == Inside(t, 4) /\ VTableFits(t)
VectorSound(v) == Inside(v, 4) /\ Inside(v, 4 + 4 * U32(v))

-----------------------------------------------------------------------------
(* What a check reads has been checked.                                    *)

FieldGoal(g) ==
    /\ g.check \in OfFields /\ g.type \in DOMAIN Types /\ g.k \in DOMAIN Types[g.type]
    /\ g.check \in Chain(Kind(g.type, g.k))
    /\ g.with = Null

Sound(g) ==
    /\ g.check = "buffer" => g.at \in {0, 4}
    /\ g.check = "start"  => g.type \in DOMAIN Types
    /\ g.check = "fields" =>
          /\ g.type \in DOMAIN Types /\ g.k \in 1..(Len(Types[g.type]) + 1)
          /\ TableSound(g.at) /\ g.with = Null
    /\ g.check \in OfFields => FieldGoal(g) /\ TableSound(g.at)
    /\ g.check \in Loops => VectorSound(g.at) /\ g.k > 0
    /\ g.check = "eachTable" => g.type \in DOMAIN Types
    /\ g.check = "eachUnion" => Inside(g.with, 4 + U32(g.at))

\* g needs the check c of the field i of its table.
Needs(g, c, i) ==
    \/ /\ g.check = "fields" /\ i = g.k - 1 /\ i \in DOMAIN Types[g.type]
       /\ c \in Chain(Kind(g.type, i))
    \/ g.check \in OfFields \ {"inline"} /\ i = g.k /\ c = "inline"
    \/ g.check \in Many /\ i = g.k /\ c = "vector"
    \/ g.check \in {"union", "unions"} /\ i = g.k - 1 /\ c = "inline"
    \/ g.check = "unions" /\ i = g.k - 1 /\ c = "vector"

Met(c, t, T, i) ==
    /\ c = "inline" => InlineMet(t, T, i)
    /\ c = "vector" => VectorMet(t, T, i)

\* What g needs has been checked, or is checked by one of `earlier`; so for
\* every check of a stack.
Ready(g, earlier) ==
    /\ Sound(g)
    /\ \A c \in {"inline", "vector"}, i \in Nat : Needs(g, c, i) =>
          Met(c, g.at, g.type, i) \/ Goal(c, g.at, g.type, i) \in earlier

Before(s, j) == {s[m] : m \in 1..(j - 1)}

AllReady(s, earlier) == \A j \in DOMAIN s : Ready(s[j], earlier \cup Before(s, j))

-----------------------------------------------------------------------------
(* Bytes and numbers.                                                      *)

Bytes8 ==
    /\ mem \in Seq(0..255)
    /\ LargestBuffer \in 0..Int32Max
    /\ SizeRange \in Nat /\ LargestBuffer + 4 < SizeRange

LEMMA LargestInt == Int32Max \in Nat
BY SMT DEF Int32Max

LEMMA ByteType ==
    ASSUME Bytes8, NEW p \in Int
    PROVE  Byte(p) \in 0..255
<1>1. CASE p \in 0..(End - 1)
  <2>1. p + 1 \in 1..Len(mem)
    BY <1>1 DEF Bytes8, End
  <2>2. mem[p + 1] \in 0..255
    BY <2>1, ElementOfSeq DEF Bytes8
  <2> QED BY <1>1, <2>2 DEF Byte
<1>2. CASE p \notin 0..(End - 1)
  BY <1>2 DEF Byte
<1> QED BY <1>1, <1>2

LEMMA NumberTypes ==
    ASSUME Bytes8, NEW p \in Int
    PROVE  /\ End \in Nat
           /\ U16(p) \in Nat /\ U32(p) \in Nat /\ S32(p) \in Int
           /\ VTable(p) \in Int /\ VTSize(p) \in Nat
           /\ Indirect(p) \in Int /\ (p >= 0 => Indirect(p) >= 0)
<1>1. End \in Nat
  BY DEF Bytes8, End
<1>2. \A q \in Int : U16(q) \in Nat
  <2> SUFFICES ASSUME NEW q \in Int PROVE U16(q) \in Nat
    OBVIOUS
  <2>1. q + 1 \in Int
    OBVIOUS
  <2>2. Byte(q) \in 0..255 /\ Byte(q + 1) \in 0..255
    BY <2>1, ByteType
  <2>3. PICK low \in 0..255, high \in 0..255 : Byte(q) = low /\ Byte(q + 1) = high
    BY <2>2
  <2>4. low + 256 * high \in Nat
    OBVIOUS
  <2> QED BY <2>3, <2>4 DEF U16
<1>3. U32(p) \in Nat /\ S32(p) \in Int
  <2>1. /\ Byte(p) \in 0..255 /\ Byte(p + 1) \in 0..255
        /\ Byte(p + 2) \in 0..255 /\ Byte(p + 3) \in 0..255
    BY ByteType
  <2>2. Low31(p) \in Nat
    <3>1. U16(p) \in Nat /\ Byte(p + 3) % 128 \in Nat
      BY <1>2, <2>1
    <3> QED BY <2>1, <3>1 DEF Low31
  <2>3. \A n \in Int : Below(LargestBuffer, n) \in Int
    BY DEF Below, Bytes8
  <2> QED BY <2>2, <2>3, LargestInt DEF U32, S32
<1>4. VTable(p) \in Int
  BY <1>3 DEF VTable
<1>5. VTSize(p) \in Nat
  BY <1>2, <1>4 DEF VTSize
<1>6. Indirect(p) \in Int /\ (p >= 0 => Indirect(p) >= 0)
  BY <1>3 DEF Indirect, Plus, Bytes8
<1> QED BY <1>1, <1>2, <1>3, <1>4, <1>5, <1>6

LEMMA FieldTypes ==
    ASSUME Bytes8, NEW t \in Int, NEW i \in Nat
    PROVE  /\ FieldOffset(t, i) \in Nat
           /\ Pointer(t, i) \in Int
           /\ FieldOffset(t, i) = 0 => Pointer(t, i) = Null
           /\ FieldOffset(t, i) # 0 => Pointer(t, i) = Indirect(t + FieldOffset(t, i))
           /\ FieldOffset(t, i) # 0 /\ t >= 0 => Pointer(t, i) >= 0
<1>1. VTable(t) + Slot(i) \in Int
  BY NumberTypes DEF Slot
<1>2. FieldOffset(t, i) \in Nat
  BY <1>1, NumberTypes DEF FieldOffset
<1>3. CASE FieldOffset(t, i) = 0
  BY <1>2, <1>3 DEF Pointer, Null
<1>4. CASE FieldOffset(t, i) # 0
  <2>1. t + FieldOffset(t, i) \in Int
    BY <1>2
  <2>2. /\ Indirect(t + FieldOffset(t, i)) \in Int
        /\ t >= 0 => Indirect(t + FieldOffset(t, i)) >= 0
    BY <1>2, <2>1, NumberTypes
  <2> QED BY <1>2, <1>4, <2>2 DEF Pointer
<1> QED BY <1>2, <1>3, <1>4

\* A range within one that lies inside lies inside.
LEMMA Within ==
    ASSUME Bytes8, NEW p \in Int, NEW n \in Nat, Inside(p, n),
           NEW q \in Int, NEW m \in Nat, p <= q, q + m <= p + n
    PROVE  Inside(q, m)
BY NumberTypes DEF Inside

\* The vtable of a table that has been looked at can be read, and so can the
\* entry of a field.
LEMMA OffsetsInside ==
    ASSUME Bytes8, NEW t \in Int, TableSound(t), NEW i \in Nat \ {0}
    PROVE  \A r \in OffsetReads(t, i) : Inside(r.at, r.size)
<1> DEFINE n == VTSize(t)
           v == VTable(t)
<1>1. n \in Nat /\ v \in Int
  BY NumberTypes
<1>2. Inside(t, 4) /\ Inside(v, 2) /\ n % 2 = 0 /\ Inside(v, n)
  BY DEF TableSound, VTableFits
<1>3. ASSUME Slot(i) < n PROVE Inside(v + Slot(i), 2)
  <2> HIDE DEF n, v
  <2>1. Slot(i) = 2 + 2 * i
    BY DEF Slot
  <2>2. Slot(i) + 2 <= n
    <3>1. PICK h \in Nat : n = 2 * h
      BY <1>1, <1>2
    <3> QED BY <1>3, <2>1, <3>1
  <2> QED BY <1>1, <1>2, <2>1, <2>2, Within
<1>4. OffsetReads(t, i) \subseteq {Bytes(t, 4), Bytes(v, 2)} \cup
        (IF Slot(i) < n THEN {Bytes(v + Slot(i), 2)} ELSE {})
  BY DEF OffsetReads
<1> HIDE DEF n, v
<1> QED BY <1>2, <1>3, <1>4 DEF Bytes

\* A field that is an offset can be read where it has been checked to be.
LEMMA PointersInside ==
    ASSUME Bytes8, NEW t \in Int, TableSound(t), NEW i \in Nat \ {0}, NEW T,
           InlineMet(t, T, i), InlineSize(Types[T][i]) = 4
    PROVE  \A r \in PointerReads(t, i) : Inside(r.at, r.size)
<1>1. FieldOffset(t, i) # 0 => Inside(t + FieldOffset(t, i), 4)
  BY DEF InlineMet
<1> QED BY <1>1, OffsetsInside DEF PointerReads, Bytes

LEMMA TypesInside ==
    ASSUME Bytes8, NEW t \in Int, TableSound(t), NEW i \in Nat \ {0}, NEW T,
           InlineMet(t, T, i), InlineSize(Types[T][i]) = 1
    PROVE  \A r \in ByteFieldReads(t, i) : Inside(r.at, r.size)
<1>1. FieldOffset(t, i) # 0 => Inside(t + FieldOffset(t, i), 1)
  BY DEF InlineMet
<1> QED BY <1>1, OffsetsInside DEF ByteFieldReads, Bytes

\* An element of a vector that fits.
LEMMA ElementsInside ==
    ASSUME Bytes8, NEW v \in Int, VectorSound(v), NEW k \in Nat \ {0}, k <= U32(v)
    PROVE  Inside(Element(v, k, 4), 4) /\ Element(v, k, 4) \in Int
<1>1. U32(v) \in Nat
  BY NumberTypes
<1>2. Element(v, k, 4) = v + 4 * k
  BY DEF Element
<1>3. Inside(v, 4 + 4 * U32(v))
  BY DEF VectorSound
<1> HIDE DEF Element
<1> QED BY <1>1, <1>2, <1>3, Within

\* A length that is compared first is a size_t as it stands, and so is the
\* byte size made of it: nothing wraps around.
LEMMA Quotient ==
    ASSUME NEW n \in Nat, NEW largest \in Nat, NEW size \in {1, 2, 4, 8, 12},
           n < largest \div size
    PROVE  n <= largest /\ size * n <= largest
BY SMTT(30)

LEMMA Unwrapped ==
    ASSUME NEW n \in Nat, NEW range \in Nat, n < range
    PROVE  n % range = n
OBVIOUS

LEMMA ByteSizeExact ==
    ASSUME Bytes8, NEW v \in Int, NEW size \in {1, 2, 4, 8, 12},
           U32(v) < LargestBuffer \div size
    PROVE  ByteSize(v, size) = 4 + size * U32(v)
<1>1. /\ U32(v) \in Nat /\ Byte(v + 3) \in 0..255
      /\ LargestBuffer \in Nat /\ LargestBuffer <= Int32Max /\ Int32Max \in Nat
      /\ SizeRange \in Nat /\ LargestBuffer + 4 < SizeRange
  <2>1. v + 3 \in Int
    OBVIOUS
  <2>2. U32(v) \in Nat /\ Byte(v + 3) \in 0..255
    BY <2>1, NumberTypes, ByteType
  <2>3. /\ LargestBuffer \in 0..Int32Max /\ SizeRange \in Nat
        /\ LargestBuffer + 4 < SizeRange
    BY DEF Bytes8
  <2> QED BY <2>2, <2>3, LargestInt
<1>2. U32(v) <= LargestBuffer /\ size * U32(v) <= LargestBuffer
  BY <1>1, Quotient
<1>3. Byte(v + 3) <= 127
  <2>1. CASE Byte(v + 3) > 127
    <3>1. U32(v) = Int32Max
      BY <2>1 DEF U32
    <3>2. LargestBuffer \div size <= LargestBuffer
      BY <1>1, SMTT(30)
    <3>3. LargestBuffer \div size \in Int
      BY <1>1, SMTT(30)
    <3> QED BY <1>1, <3>1, <3>2, <3>3
  <2> QED BY <1>1, <2>1
<1>4. ~(Byte(v + 3) > 127)
  BY <1>1, <1>3
<1>5. U32(v) = Low31(v)
  BY <1>4 DEF U32
<1>6. SizeAt(v) = U32(v)
  <2>1. U32(v) % SizeRange = U32(v)
    BY <1>1, <1>2, Unwrapped
  <2> QED BY <1>4, <1>5, <2>1 DEF SizeAt
<1>7. 4 + size * U32(v) \in Nat /\ 4 + size * U32(v) < SizeRange
  BY <1>1, <1>2
<1>8. (4 + size * U32(v)) % SizeRange = 4 + size * U32(v)
  BY <1>1, <1>7, Unwrapped
<1> QED BY <1>6, <1>8 DEF ByteSize

\* A vector that fits is inside the buffer, length and elements.
LEMMA VectorsInside ==
    ASSUME Bytes8, NEW v \in Int, NEW size \in {1, 2, 4, 8, 12}, VectorFits(v, size)
    PROVE  /\ Inside(v, 4) /\ Inside(v, 4 + size * U32(v))
           /\ ByteSize(v, size) = 4 + size * U32(v)
<1>1. /\ Inside(v, 4) /\ U32(v) < LargestBuffer \div size
      /\ Inside(v, ByteSize(v, size))
  BY DEF VectorFits
<1>2. ByteSize(v, size) = 4 + size * U32(v)
  BY <1>1, ByteSizeExact
<1> QED BY <1>1, <1>2

LEMMA StringsInside ==
    ASSUME Bytes8, NEW s \in Int
    PROVE  /\ \A r \in StringReads(s) : Inside(r.at, r.size)
           /\ StringFits(s) => StringInside(s)
<1>1. U32(s) \in Nat /\ End \in Nat
  BY NumberTypes
<1>2. \A r \in LengthReads(s) : Inside(r.at, r.size)
  BY DEF LengthReads, Bytes
<1>3. \A r \in StringReads(s) : Inside(r.at, r.size)
  BY <1>2 DEF StringReads, Bytes
<1>4. ASSUME StringFits(s) PROVE StringInside(s)
  <2>1. Inside(s, 4) /\ ByteSize(s, 1) = 4 + 1 * U32(s)
    BY <1>4, VectorsInside DEF StringFits
  <2>2. Behind(s) = s + 4 + U32(s)
    BY <1>1, <2>1 DEF Behind
  <2>3. Inside(s + 4 + U32(s), 1) /\ Byte(s + 4 + U32(s)) = 0
    BY <1>4, <2>2 DEF StringFits
  <2>4. Inside(s, 4 + U32(s) + 1)
    BY <1>1, <2>1, <2>3 DEF Inside
  <2> QED BY <2>1, <2>3, <2>4 DEF StringInside
<1> QED BY <1>3, <1>4

-----------------------------------------------------------------------------
(* Stacks of checks that are ready.                                        *)

LEMMA ReadyMore ==
    ASSUME NEW g, NEW X, NEW Y, Ready(g, X), X \subseteq Y
    PROVE  Ready(g, Y)
BY DEF Ready

LEMMA ReadyNone ==
    ASSUME NEW X
    PROVE  <<>> \in Seq(Goals) /\ AllReady(<<>>, X)
BY DEF AllReady

LEMMA ReadyOne ==
    ASSUME NEW g \in Goals, NEW X, Ready(g, X)
    PROVE  <<g>> \in Seq(Goals) /\ AllReady(<<g>>, X)
<1>1. DOMAIN <<g>> = {1} /\ <<g>>[1] = g
  OBVIOUS
<1> QED BY <1>1, ReadyMore DEF AllReady

LEMMA ReadyConcat ==
    ASSUME NEW a \in Seq(Goals), NEW b \in Seq(Goals), NEW X,
           AllReady(a, X), AllReady(b, X \cup {a[m] : m \in DOMAIN a})
    PROVE  a \o b \in Seq(Goals) /\ AllReady(a \o b, X)
<1> DEFINE s == a \o b
           n == Len(a)
<1>1. /\ s \in Seq(Goals) /\ n \in Nat /\ Len(b) \in Nat
      /\ DOMAIN a = 1..n /\ DOMAIN b = 1..Len(b) /\ DOMAIN s = 1..(n + Len(b))
      /\ \A j \in 1..n : s[j] = a[j]
      /\ \A j \in 1..Len(b) : s[n + j] = b[j]
  OBVIOUS
<1> HIDE DEF s, n
<1>2. ASSUME NEW j \in DOMAIN s PROVE Ready(s[j], X \cup Before(s, j))
  <2>1. CASE j <= n
    <3>1. j \in DOMAIN a /\ s[j] = a[j]
      BY <1>1, <2>1
    <3>2. Before(a, j) \subseteq Before(s, j)
      BY <1>1, <2>1 DEF Before
    <3>3. Ready(a[j], X \cup Before(a, j))
      BY <3>1 DEF AllReady
    <3> QED BY <3>1, <3>2, <3>3, ReadyMore
  <2>2. CASE j > n
    <3>1. PICK k \in 1..Len(b) : j = n + k
      <4>1. j - n \in 1..Len(b) /\ j = n + (j - n)
        BY <1>1, <2>2
      <4> QED BY <4>1
    <3>2. Ready(b[k], (X \cup {a[m] : m \in DOMAIN a}) \cup Before(b, k))
      BY <1>1 DEF AllReady
    <3>3. {a[m] : m \in DOMAIN a} \subseteq Before(s, j)
      <4> SUFFICES ASSUME NEW m \in DOMAIN a PROVE a[m] \in Before(s, j)
        OBVIOUS
      <4>1. m \in 1..(j - 1) /\ s[m] = a[m]
        BY <1>1, <3>1
      <4> QED BY <4>1 DEF Before
    <3>4. Before(b, k) \subseteq Before(s, j)
      <4> SUFFICES ASSUME NEW m \in 1..(k - 1) PROVE b[m] \in Before(s, j)
        BY DEF Before
      <4>1. n + m \in 1..(j - 1) /\ m \in 1..Len(b)
        BY <1>1, <3>1
      <4>2. s[n + m] = b[m]
        BY <1>1, <4>1
      <4> QED BY <4>1, <4>2 DEF Before
    <3>5. s[j] = b[k]
      BY <1>1, <3>1
    <3> QED BY <3>2, <3>3, <3>4, <3>5, ReadyMore
  <2> QED BY <1>1, <2>1, <2>2
<1>3. AllReady(s, X)
  BY <1>2 DEF AllReady
<1> QED BY <1>1, <1>3 DEF s

\* The verifier at work.
Working ==
    /\ VerifierAssumption /\ Bytes8 /\ rootType \in DOMAIN Types
    /\ todo \in Seq(Goals) /\ todo # <<>>
    /\ AllReady(todo, {})

LEMMA HeadReady ==
    ASSUME Working
    PROVE  /\ G \in Goals /\ Sound(G)
           /\ \A c \in {"inline", "vector"}, i \in Nat :
                 Needs(G, c, i) => Met(c, G.at, G.type, i)
           /\ Tail(todo) \in Seq(Goals)
           /\ Len(todo) \in Nat \ {0} /\ todo[1] = G
           /\ Len(Tail(todo)) = Len(todo) - 1
           /\ \A j \in DOMAIN Tail(todo) : Tail(todo)[j] = todo[j + 1]
<1>1. /\ todo \in Seq(Goals) /\ todo # <<>> /\ AllReady(todo, {})
  BY DEF Working
<1>2. /\ Len(todo) \in Nat \ {0} /\ todo[1] = G /\ G \in Goals
      /\ Tail(todo) \in Seq(Goals)
      /\ Len(Tail(todo)) = Len(todo) - 1
      /\ \A j \in DOMAIN Tail(todo) : Tail(todo)[j] = todo[j + 1]
  BY <1>1 DEF G
<1>3. Ready(todo[1], {} \cup Before(todo, 1))
  BY <1>1, <1>2 DEF AllReady
<1>4. Before(todo, 1) = {}
  BY DEF Before
<1> QED BY <1>2, <1>3, <1>4 DEF Ready

\* A step puts goals in the place of the check it has made.
LEMMA ReadyStep ==
    ASSUME Working, NEW goals \in Seq(Goals), AllReady(goals, {}),
           \A c \in {"inline", "vector"} : G.check = c => Met(c, G.at, G.type, G.k)
    PROVE  goals \o Tail(todo) \in Seq(Goals) /\ AllReady(goals \o Tail(todo), {})
<1> DEFINE rest == Tail(todo)
           X == {goals[m] : m \in DOMAIN goals}
<1>1. /\ rest \in Seq(Goals) /\ Len(todo) \in Nat \ {0} /\ todo[1] = G /\ G \in Goals
      /\ Len(rest) = Len(todo) - 1
      /\ \A j \in DOMAIN rest : rest[j] = todo[j + 1]
  BY HeadReady
<1> HIDE DEF rest
<1>2. DOMAIN rest = 1..Len(rest) /\ Len(rest) \in Nat /\ DOMAIN todo = 1..Len(todo)
  BY <1>1 DEF Working
<1>3. ASSUME NEW j \in DOMAIN rest PROVE Ready(rest[j], X \cup Before(rest, j))
  <2>1. j + 1 \in DOMAIN todo /\ rest[j] = todo[j + 1]
    BY <1>1, <1>2
  <2>2. Ready(rest[j], Before(todo, j + 1))
    BY <2>1, ReadyMore DEF Working, AllReady
  <2>3. Before(todo, j + 1) \subseteq {G} \cup Before(rest, j)
    <3> SUFFICES ASSUME NEW m \in 1..((j + 1) - 1) PROVE todo[m] \in {G} \cup Before(rest, j)
      BY DEF Before
    <3>1. CASE m = 1
      BY <1>1, <3>1
    <3>2. CASE m # 1
      <4>1. m - 1 \in 1..(j - 1) /\ m - 1 \in DOMAIN rest /\ (m - 1) + 1 = m
        BY <1>2, <3>2
      <4>2. rest[m - 1] = todo[m]
        BY <1>1, <4>1
      <4> QED BY <4>1, <4>2 DEF Before
    <3> QED BY <3>1, <3>2
  <2>4. ASSUME NEW c \in {"inline", "vector"}, NEW i \in Nat, Needs(rest[j], c, i)
        PROVE  \/ Met(c, rest[j].at, rest[j].type, i)
               \/ Goal(c, rest[j].at, rest[j].type, i) \in Before(rest, j)
    <3> DEFINE g == Goal(c, rest[j].at, rest[j].type, i)
    <3>1. \/ Met(c, rest[j].at, rest[j].type, i)
          \/ g \in {G} \cup Before(rest, j)
      BY <2>2, <2>3, <2>4 DEF Ready
    <3>2. CASE g = G
      <4>1. /\ G.check = c /\ G.at = rest[j].at /\ G.type = rest[j].type /\ G.k = i
        BY <3>2 DEF Goal
      <4> QED BY <4>1
    <3> QED BY <3>1, <3>2
  <2>5. Sound(rest[j])
    BY <2>2 DEF Ready
  <2> QED BY <2>4, <2>5 DEF Ready
<1>4. AllReady(rest, {} \cup X)
  BY <1>3 DEF AllReady
<1> HIDE DEF X
<1>5. AllReady(rest, {} \cup {goals[m] : m \in DOMAIN goals})
  BY <1>4 DEF X
<1> QED BY <1>1, <1>5, ReadyConcat DEF rest

-----------------------------------------------------------------------------
(* What a step reads.                                                      *)

AllInside(R) == \A r \in R : Inside(r.at, r.size)

LEMMA InsideBoth ==
    ASSUME NEW R, NEW S, AllInside(R), AllInside(S)
    PROVE  AllInside(R \cup S)
BY DEF AllInside

\* What is known of a check of a field whose turn it is.
LEMMA FieldTurn ==
    ASSUME Working, G.check \in OfFields
    PROVE  /\ G.at \in Int /\ G.type \in DOMAIN Types /\ G.k \in DOMAIN Types[G.type]
           /\ G.k \in Nat \ {0} /\ Fld = Types[G.type][G.k] /\ Fld \in Fields
           /\ G.check \in Chain(Fld.kind) /\ TableSound(G.at) /\ G.at >= 0
           /\ G = Goal(G.check, G.at, G.type, G.k)
           /\ G.check # "inline" => InlineMet(G.at, G.type, G.k)
           /\ G.check \in Many => VectorMet(G.at, G.type, G.k) /\ Fld.size = 4
           /\ G.check \notin {"inline", "vector"} => Fld.kind = G.check
           /\ G.check # "inline" => InlineSize(Fld) = 4
           /\ G.check \in {"union", "unions"} =>
                 /\ InlineMet(G.at, G.type, G.k - 1)
                 /\ G.k - 1 \in DOMAIN Types[G.type] /\ G.k - 1 \in Nat \ {0}
                 /\ Types[G.type][G.k - 1].size = 1
           /\ G.check = "union"  => Types[G.type][G.k - 1].kind = "scalar"
           /\ G.check = "unions" => /\ Types[G.type][G.k - 1].kind = "vector"
                                    /\ VectorMet(G.at, G.type, G.k - 1)
<1>1. /\ G \in Goals /\ FieldGoal(G) /\ TableSound(G.at)
      /\ \A c \in {"inline", "vector"}, i \in Nat : Needs(G, c, i) => Met(c, G.at, G.type, i)
  BY HeadReady DEF Sound
<1>2. /\ G.type \in DOMAIN Types /\ G.k \in DOMAIN Types[G.type]
      /\ G.check \in Chain(Kind(G.type, G.k)) /\ G.with = Null
  BY <1>1 DEF FieldGoal
<1>3. /\ Types[G.type] \in Seq(Fields)
      /\ \A i \in DOMAIN Types[G.type] : FieldOK(G.type, i)
  BY <1>2 DEF Working, VerifierAssumption
<1>4. /\ G.k \in Nat \ {0} /\ Fld = Types[G.type][G.k] /\ Fld \in Fields
      /\ Fld.kind = Kind(G.type, G.k)
      /\ DOMAIN Types[G.type] \subseteq Nat \ {0}
  BY <1>2, <1>3 DEF Fld, Kind
<1>5. G.at \in Int /\ G.at >= 0
  BY <1>1, NumberTypes DEF Goals, TableSound, Inside
<1>6. G = Goal(G.check, G.at, G.type, G.k)
  BY <1>1, <1>2 DEF Goals, Goal
<1>7. /\ G.check \notin {"inline", "vector"} => Fld.kind = G.check
      /\ G.check = "vector" => Fld.kind \in Many \cup {"vector"}
  BY <1>2, <1>4 DEF Chain, Many, OfFields
<1>8. G.check # "inline" => InlineSize(Fld) = 4
  BY <1>7 DEF InlineSize, OfFields, Many
<1>9. /\ G.check # "inline" => InlineMet(G.at, G.type, G.k)
      /\ G.check \in Many => VectorMet(G.at, G.type, G.k)
  BY <1>1, <1>4 DEF Needs, Met
<1>10. G.check \in Many => Fld.size = 4
  BY <1>2, <1>3, <1>4, <1>7 DEF FieldOK, Many
<1>11. ASSUME G.check \in {"union", "unions"}
       PROVE  /\ G.k - 1 \in DOMAIN Types[G.type]
              /\ Types[G.type][G.k - 1].size = 1
              /\ G.check = "union"  => Types[G.type][G.k - 1].kind = "scalar"
              /\ G.check = "unions" => Types[G.type][G.k - 1].kind = "vector"
  BY <1>2, <1>3, <1>4, <1>7, <1>11 DEF FieldOK
<1>12. /\ G.check \in {"union", "unions"} => InlineMet(G.at, G.type, G.k - 1)
       /\ G.check = "unions" => VectorMet(G.at, G.type, G.k - 1)
  <2>1. ASSUME G.check \in {"union", "unions"} PROVE G.k - 1 \in Nat
    BY <1>4, <1>11, <2>1
  <2> QED BY <1>1, <2>1 DEF Needs, Met
<1> QED BY <1>1, <1>2, <1>4, <1>5, <1>6, <1>7, <1>8, <1>9, <1>10, <1>11, <1>12

\* ... and of a check of an element.
LEMMA LoopTurn ==
    ASSUME Working, G.check \in Loops
    PROVE  /\ G.at \in Int /\ G.with \in Int /\ G.k \in Nat \ {0}
           /\ VectorSound(G.at) /\ AllInside(LoopReads) /\ Referred \in Int
           /\ G.check = "eachUnion" /\ G.k <= U32(G.at) =>
                 /\ Inside(Element(G.with, G.k, 1), 1)
                 /\ ElementType \in 0..255
<1>1. G \in Goals /\ Sound(G) /\ Bytes8
  BY HeadReady DEF Working
<1>2. G.at \in Int /\ G.with \in Int /\ G.k \in Nat \ {0} /\ VectorSound(G.at)
  BY <1>1 DEF Goals, Sound, Loops
<1>3. U32(G.at) \in Nat
  BY <1>1, <1>2, NumberTypes
<1>4. Inside(G.at, 4)
  BY <1>2 DEF VectorSound
<1>5. AllInside(LoopReads)
  BY <1>1, <1>2, <1>4, ElementsInside DEF LoopReads, AllInside, Bytes
<1>6. Referred \in Int
  <2>1. Element(G.at, G.k, 4) \in Int
    BY <1>2 DEF Element
  <2> QED BY <1>1, <2>1, NumberTypes DEF Referred
<1>7. ASSUME G.check = "eachUnion", G.k <= U32(G.at)
      PROVE  Inside(Element(G.with, G.k, 1), 1) /\ ElementType \in 0..255
  <2>1. Inside(G.with, 4 + U32(G.at))
    BY <1>1, <1>7 DEF Sound
  <2>2. Element(G.with, G.k, 1) = G.with + 3 + G.k
    BY <1>2 DEF Element
  <2>3. Inside(G.with + 3 + G.k, 1)
    BY <1>1, <1>2, <1>3, <1>7, <2>1, Within
  <2>4. G.with + 3 + G.k \in Int
    BY <1>2
  <2> QED BY <1>1, <2>2, <2>3, <2>4, ByteType DEF ElementType
<1> QED BY <1>2, <1>5, <1>6, <1>7

LEMMA ReadsOfBuffer ==
    ASSUME Working, VerifyBuffer
    PROVE  AllInside(reads')
<1> DEFINE start == G.at
<1>1. start \in {0, 4} /\ Bytes8
  BY HeadReady DEF Turn, VerifyBuffer, Sound, Working
<1>2. End \in Nat
  BY <1>1, NumberTypes
<1>3. reads' \subseteq
        (IF start > 0 /\ Inside(0, 4) THEN {Bytes(0, 4)} ELSE {}) \cup
        (IF End - start >= 8 THEN {Bytes(start + 4, 4)} ELSE {}) \cup
        (IF Inside(start, 4) THEN {Bytes(start, 4)} ELSE {})
  BY DEF VerifyBuffer, CheckThat, Refuse, Proceed
<1>4. End - start >= 8 => Inside(start + 4, 4)
  BY <1>1, <1>2 DEF Inside
<1> HIDE DEF start
<1> QED BY <1>3, <1>4 DEF AllInside, Bytes

LEMMA ReadsOfTable ==
    ASSUME Working, VerifyTableStart
    PROVE  AllInside(reads')
<1>1. CASE ~Inside(G.at, 4)
  BY <1>1 DEF VerifyTableStart, Refuse, AllInside
<1>2. CASE Inside(G.at, 4)
  <2>1. reads' \subseteq {Bytes(G.at, 4)} \cup
          (IF Inside(VTable(G.at), 2) THEN {Bytes(VTable(G.at), 2)} ELSE {})
    BY <1>2 DEF VerifyTableStart, Refuse, Proceed
  <2> QED BY <1>2, <2>1 DEF AllInside, Bytes
<1> QED BY <1>1, <1>2

LEMMA ReadsOfChecks ==
    ASSUME NEW ok, NEW goals, NEW touched, CheckThat(ok, goals, touched)
    PROVE  reads' = touched
BY DEF CheckThat, Refuse, Proceed

LEMMA ReadsOfFields ==
    ASSUME Working,
           \/ VerifyField \/ VerifyTable \/ VerifyVector \/ VerifyString \/ VerifyUnion
           \/ OpenVector("strings", "eachString") \/ OpenVector("tables", "eachTable")
           \/ VerifyUnions
    PROVE  AllInside(reads')
<1> USE DEF Turn
<1>1. G.check \in OfFields
  BY DEF VerifyField, VerifyTable, VerifyVector, VerifyString, VerifyUnion, OpenVector,
         VerifyUnions, OfFields
<1>2. Bytes8
  BY DEF Working
<1>3. AllInside(OffsetReads(G.at, G.k))
  BY <1>1, <1>2, FieldTurn, OffsetsInside DEF AllInside
<1>4. G.check # "inline" => AllInside(PointerReads(G.at, G.k))
  BY <1>1, <1>2, FieldTurn, PointersInside DEF AllInside
<1>5. Pointer(G.at, G.k) \in Int
  BY <1>1, <1>2, FieldTurn, FieldTypes
<1>6. CASE VerifyField
  BY <1>3, <1>6, ReadsOfChecks DEF VerifyField
<1>7. CASE VerifyTable
  BY <1>4, <1>7, ReadsOfChecks DEF VerifyTable
<1>8. CASE VerifyVector
  <2>1. AllInside(LengthReads(Pointer(G.at, G.k)))
    BY DEF AllInside, LengthReads, Bytes
  <2>2. reads' = PointerReads(G.at, G.k) \cup LengthReads(Pointer(G.at, G.k))
    BY <1>8, ReadsOfChecks DEF VerifyVector
  <2> QED BY <1>4, <1>8, <2>1, <2>2, InsideBoth DEF VerifyVector
<1>9. CASE VerifyString
  <2>1. AllInside(StringReads(Pointer(G.at, G.k)))
    BY <1>2, <1>5, StringsInside DEF AllInside
  <2>2. reads' = PointerReads(G.at, G.k) \cup StringReads(Pointer(G.at, G.k))
    BY <1>9, ReadsOfChecks DEF VerifyString
  <2> QED BY <1>4, <1>9, <2>1, <2>2, InsideBoth DEF VerifyString
<1>10. CASE OpenVector("strings", "eachString") \/ OpenVector("tables", "eachTable")
  BY <1>4, <1>10, ReadsOfChecks DEF OpenVector
<1>11. CASE VerifyUnion
  <2>1. /\ InlineMet(G.at, G.type, G.k - 1) /\ G.k - 1 \in Nat \ {0}
        /\ InlineSize(Types[G.type][G.k - 1]) = 1
        /\ G.at \in Int /\ TableSound(G.at)
    BY <1>1, <1>11, FieldTurn DEF VerifyUnion, InlineSize
  <2>2. AllInside(ByteFieldReads(G.at, G.k - 1))
    BY <1>2, <2>1, TypesInside DEF AllInside
  <2>3. reads' = PointerReads(G.at, G.k) \cup ByteFieldReads(G.at, G.k - 1)
    BY <1>11, ReadsOfChecks DEF VerifyUnion
  <2> QED BY <1>4, <1>11, <2>2, <2>3, InsideBoth DEF VerifyUnion
<1>12. CASE VerifyUnions
  <2> DEFINE values == Pointer(G.at, G.k)
             types  == Pointer(G.at, G.k - 1)
             offsets == PointerReads(G.at, G.k) \cup PointerReads(G.at, G.k - 1)
  <2>1. /\ InlineMet(G.at, G.type, G.k - 1) /\ G.k - 1 \in Nat \ {0}
        /\ InlineSize(Types[G.type][G.k - 1]) = 4
        /\ G.at \in Int /\ TableSound(G.at)
        /\ VectorMet(G.at, G.type, G.k) /\ VectorMet(G.at, G.type, G.k - 1)
    BY <1>1, <1>12, FieldTurn DEF VerifyUnions, InlineSize, Many
  <2>2. AllInside(PointerReads(G.at, G.k - 1))
    BY <1>2, <2>1, PointersInside DEF AllInside
  <2>3. AllInside(offsets)
    BY <1>4, <1>12, <2>2, InsideBoth DEF VerifyUnions
  <2>4. CASE Null \in {values, types}
    BY <1>12, <2>3, <2>4 DEF VerifyUnions
  <2>5. CASE Null \notin {values, types}
    <3>1. Inside(values, 4) /\ Inside(types, 4)
      BY <2>1, <2>5 DEF VectorMet, VectorFits
    <3>2. reads' = offsets \cup {Bytes(values, 4), Bytes(types, 4)}
      BY <1>12, <2>5, ReadsOfChecks DEF VerifyUnions
    <3>3. AllInside({Bytes(values, 4), Bytes(types, 4)})
      BY <3>1 DEF AllInside, Bytes
    <3> QED BY <2>3, <3>2, <3>3, InsideBoth
  <2> QED BY <2>4, <2>5
<1> QED BY <1>6, <1>7, <1>8, <1>9, <1>10, <1>11, <1>12

LEMMA ReadsOfLoops ==
    ASSUME Working, VerifyEachString \/ VerifyEachTable \/ VerifyEachUnion
    PROVE  AllInside(reads')
<1> USE DEF Turn
<1>1. G.check \in Loops /\ Bytes8
  BY DEF VerifyEachString, VerifyEachTable, VerifyEachUnion, Loops, Working
<1>2. AllInside(LoopReads) /\ Referred \in Int
  BY <1>1, LoopTurn
<1>3. AllInside(StringReads(Referred))
  BY <1>1, <1>2, StringsInside DEF AllInside
<1>4. CASE VerifyEachString
  <2>1. reads' \in {LoopReads, LoopReads \cup StringReads(Referred)}
    BY <1>4, ReadsOfChecks DEF VerifyEachString
  <2> QED BY <1>2, <1>3, <2>1, InsideBoth
<1>5. CASE VerifyEachTable
  BY <1>2, <1>5, ReadsOfChecks DEF VerifyEachTable
<1>6. CASE VerifyEachUnion
  <2>1. CASE G.k > U32(G.at)
    <3>1. ~(G.k <= U32(G.at))
      BY <1>1, <2>1, LoopTurn, NumberTypes
    <3> QED BY <1>2, <1>6, <2>1, <3>1, ReadsOfChecks DEF VerifyEachUnion
  <2>2. CASE G.k <= U32(G.at)
    <3>1. ~(G.k > U32(G.at))
      BY <1>1, <2>2, LoopTurn, NumberTypes
    <3>2. reads' = LoopReads \cup {Bytes(Element(G.with, G.k, 1), 1)}
      BY <1>6, <3>1, ReadsOfChecks DEF VerifyEachUnion
    <3>3. AllInside({Bytes(Element(G.with, G.k, 1), 1)})
      BY <1>1, <1>6, <2>2, LoopTurn DEF AllInside, Bytes, VerifyEachUnion
    <3> QED BY <1>2, <3>2, <3>3, InsideBoth
  <2>3. G.k \in Nat /\ G.at \in Int
    BY <1>1, LoopTurn
  <2>4. U32(G.at) \in Nat
    BY <1>1, <2>3, NumberTypes
  <2> QED BY <2>1, <2>2, <2>3, <2>4
<1> QED BY <1>4, <1>5, <1>6

LEMMA StepReads ==
    ASSUME Working, VerifierNext
    PROVE  AllInside(reads')
<1>1. CASE VerifyFields \/ LeaveTable
  <2>1. reads' = {}
    BY <1>1, ReadsOfChecks DEF VerifyFields, LeaveTable, Proceed
  <2> QED BY <2>1 DEF AllInside
<1> QED BY <1>1, ReadsOfBuffer, ReadsOfTable, ReadsOfFields, ReadsOfLoops DEF VerifierNext

-----------------------------------------------------------------------------
(* What a step leaves on the stack is ready.                               *)

LEMMA ChecksOutcome ==
    ASSUME NEW ok, NEW goals, NEW touched, CheckThat(ok, goals, touched)
    PROVE  /\ UNCHANGED <<mem, intact, rootType, depth, tables>>
           /\ \/ ~ok /\ todo' = <<>> /\ verdict' = "refused"
              \/ /\ ok /\ todo' = goals \o Tail(todo)
                 /\ verdict' = IF todo' = <<>> THEN "accepted" ELSE "checking"
BY DEF CheckThat, Refuse, Proceed

LEMMA PlainGoal ==
    ASSUME NEW c \in Checks, NEW p \in Int, NEW T \in DOMAIN Types, NEW k \in Nat
    PROVE  /\ Goal(c, p, T, k) \in Goals
           /\ Goal(c, p, T, k).check = c /\ Goal(c, p, T, k).at = p
           /\ Goal(c, p, T, k).type = T /\ Goal(c, p, T, k).k = k
           /\ Goal(c, p, T, k).with = Null
BY DEF Goal, Goals, Null

\* A table, and an element of a vector, need no check of a field.
LEMMA StartReady ==
    ASSUME NEW p \in Int, NEW T \in DOMAIN Types, NEW X
    PROVE  /\ <<Goal("start", p, T, 0)>> \in Seq(Goals)
           /\ AllReady(<<Goal("start", p, T, 0)>>, X)
<1> DEFINE g == Goal("start", p, T, 0)
<1>1. g \in Goals /\ g.check = "start" /\ g.type = T
  BY PlainGoal DEF Checks
<1> HIDE DEF g
<1>2. Ready(g, X)
  BY <1>1 DEF Ready, Sound, Needs, OfFields, Loops, Many
<1> QED BY <1>1, <1>2, ReadyOne DEF g

LEMMA LoopReady ==
    ASSUME NEW g \in Goals, g.check \in Loops, VectorSound(g.at), g.k > 0,
           g.check = "eachTable" => g.type \in DOMAIN Types,
           g.check = "eachUnion" => Inside(g.with, 4 + U32(g.at)), NEW X
    PROVE  <<g>> \in Seq(Goals) /\ AllReady(<<g>>, X)
<1>1. Ready(g, X)
  BY DEF Ready, Sound, Needs, OfFields, Loops, Many
<1> QED BY <1>1, ReadyOne

LEMMA AgainReady ==
    ASSUME Working, G.check \in Loops, NEW X
    PROVE  <<Again>> \in Seq(Goals) /\ AllReady(<<Again>>, X)
<1>1. G \in Goals /\ Sound(G)
  BY HeadReady
<1>2. /\ Again \in Goals /\ Again.check = G.check /\ Again.at = G.at
      /\ Again.with = G.with /\ Again.type = G.type /\ Again.k = G.k + 1
  BY <1>1 DEF Again, Goals
<1> HIDE DEF Again
<1>3. Again.k > 0 /\ VectorSound(Again.at)
  BY <1>1, <1>2 DEF Sound, Goals
<1> QED BY <1>1, <1>2, <1>3, LoopReady DEF Sound

LEMMA MemberReady ==
    ASSUME Working, NEW type \in 0..255, NEW p \in Int, NEW X
    PROVE  MemberGoals(type, p) \in Seq(Goals) /\ AllReady(MemberGoals(type, p), X)
<1>1. CASE type \notin DOMAIN Members \/ p = Null
  BY <1>1, ReadyNone DEF MemberGoals
<1>2. CASE ~(type \notin DOMAIN Members \/ p = Null)
  <2>1. Members[type] \in DOMAIN Types
    BY <1>2 DEF Working, VerifierAssumption
  <2> QED BY <1>2, <2>1, StartReady DEF MemberGoals
<1> QED BY <1>1, <1>2

LEMMA ShortSequences ==
    ASSUME NEW a, NEW b, NEW c
    PROVE  /\ <<a>> \o <<b>> = <<a, b>>
           /\ <<a, b>> \o <<c>> = <<a, b, c>>
           /\ <<a>> \o <<b, c>> = <<a, b, c>>
<1> DEFINE S == {a, b, c}
<1>1. <<a>> \in Seq(S) /\ <<b>> \in Seq(S) /\ <<a, b>> \in Seq(S)
      /\ <<b, c>> \in Seq(S) /\ <<c>> \in Seq(S) /\ <<a, b, c>> \in Seq(S)
  OBVIOUS
<1>2. <<a>> \o <<b>> = <<a, b>>
  <2> DEFINE x == <<a>> \o <<b>>
             y == <<a, b>>
  <2>1. x \in Seq(S) /\ y \in Seq(S) /\ Len(x) = 2 /\ Len(y) = 2
    BY <1>1
  <2>2. x[1] = a /\ y[1] = a /\ x[2] = b /\ y[2] = b
    BY <1>1
  <2> HIDE DEF x, y, S
  <2>3. x = y
    BY <2>1, <2>2, SeqEqual
  <2> QED BY <2>3 DEF x, y
<1>3. <<a, b>> \o <<c>> = <<a, b, c>>
  <2> DEFINE x == <<a, b>> \o <<c>>
             y == <<a, b, c>>
  <2>1. x \in Seq(S) /\ y \in Seq(S) /\ Len(x) = 3 /\ Len(y) = 3
    BY <1>1
  <2>2. x[1] = a /\ y[1] = a /\ x[2] = b /\ y[2] = b /\ x[3] = c /\ y[3] = c
    BY <1>1
  <2> HIDE DEF x, y, S
  <2>3. x = y
    BY <2>1, <2>2, SeqEqual
  <2> QED BY <2>3 DEF x, y
<1>4. <<a>> \o <<b, c>> = <<a, b, c>>
  <2> DEFINE x == <<a>> \o <<b, c>>
             y == <<a, b, c>>
  <2>1. x \in Seq(S) /\ y \in Seq(S) /\ Len(x) = 3 /\ Len(y) = 3
    BY <1>1
  <2>2. x[1] = a /\ y[1] = a /\ x[2] = b /\ y[2] = b /\ x[3] = c /\ y[3] = c
    BY <1>1
  <2> HIDE DEF x, y, S
  <2>3. x = y
    BY <2>1, <2>2, SeqEqual
  <2> QED BY <2>3 DEF x, y
<1> QED BY <1>2, <1>3, <1>4

LEMMA ShortImages ==
    ASSUME NEW a, NEW b, NEW c
    PROVE  /\ {<<a>>[m] : m \in DOMAIN <<a>>} = {a}
           /\ {<<a, b>>[m] : m \in DOMAIN <<a, b>>} = {a, b}
           /\ {<<a, b, c>>[m] : m \in DOMAIN <<a, b, c>>} = {a, b, c}
<1>1. /\ DOMAIN <<a>> = {1} /\ DOMAIN <<a, b>> = {1, 2} /\ DOMAIN <<a, b, c>> = {1, 2, 3}
  OBVIOUS
<1>2. {<<a>>[m] : m \in {1}} = {a}
  OBVIOUS
<1>3. {<<a, b>>[m] : m \in {1, 2}} = {a, b}
  OBVIOUS
<1>4. {<<a, b, c>>[m] : m \in {1, 2, 3}} = {a, b, c}
  OBVIOUS
<1> QED BY <1>1, <1>2, <1>3, <1>4

\* The chain of a field, with what comes behind it.
LEMMA ChainReady ==
    ASSUME Working, VerifyFields
    PROVE  /\ FieldGoals(G.at, G.type, G.k) \o <<Again>> \in Seq(Goals)
           /\ AllReady(FieldGoals(G.at, G.type, G.k) \o <<Again>>, {})
           /\ FieldGoals(G.at, G.type, G.k) \in Seq(Goals) /\ Again \in Goals
           /\ {FieldGoals(G.at, G.type, G.k)[m] : m \in DOMAIN FieldGoals(G.at, G.type, G.k)}
                = {Goal(c, G.at, G.type, G.k) : c \in Chain(Kind(G.type, G.k))}
           /\ Again = Goal("fields", G.at, G.type, G.k + 1)
<1> DEFINE t == G.at
           T == G.type
           i == G.k
           kind == Kind(T, i)
           g(c) == Goal(c, t, T, i)
           All == {g(c) : c \in Chain(kind)}
<1>1. /\ G.check = "fields" /\ G \in Goals /\ TableSound(t) /\ G.with = Null
      /\ T \in DOMAIN Types /\ i \in DOMAIN Types[T]
      /\ \A c \in {"inline", "vector"}, n \in Nat : Needs(G, c, n) => Met(c, t, T, n)
  BY HeadReady DEF VerifyFields, Turn, Sound
<1>2. /\ Types[T] \in Seq(Fields) /\ FieldOK(T, i)
      /\ \A n \in DOMAIN Types[T] : FieldOK(T, n)
  BY <1>1 DEF Working, VerifierAssumption
<1>3. /\ t \in Int /\ i \in Nat \ {0} /\ i <= Len(Types[T]) /\ kind \in FieldKinds
      /\ Len(Types[T]) \in Nat /\ DOMAIN Types[T] = 1..Len(Types[T])
  <2>1. Types[T][i] \in Fields
    BY <1>1, <1>2
  <2> QED BY <1>1, <1>2, <2>1 DEF Goals, Fields, Kind
<1>4. Chain(kind) \subseteq OfFields
  BY <1>3 DEF Chain, FieldKinds, OfFields, Many
<1> HIDE DEF t, T, i, kind
<1>5. ASSUME NEW c \in Chain(kind)
      PROVE  /\ g(c) \in Goals /\ g(c).check = c /\ g(c).at = t /\ g(c).type = T
             /\ g(c).k = i /\ g(c).with = Null
  <2>1. c \in Checks
    BY <1>4 DEF Checks
  <2>2. t \in Int /\ T \in DOMAIN Types /\ i \in Nat
    BY <1>1, <1>3 DEF t, T, i
  <2> QED BY <2>1, <2>2 DEF Goal, Goals, Null
<1>6. ASSUME NEW c \in Chain(kind), NEW X,
             c # "inline" => g("inline") \in X, c \in Many => g("vector") \in X
      PROVE  <<g(c)>> \in Seq(Goals) /\ AllReady(<<g(c)>>, X)
  <2> HIDE DEF g
  <2>1. g(c) \in Goals /\ g(c).check = c /\ g(c).at = t /\ g(c).type = T /\ g(c).k = i
        /\ g(c).with = Null
    BY <1>5
  <2>2. Sound(g(c))
    BY <1>1, <1>3, <1>4, <2>1 DEF Sound, FieldGoal, OfFields, Loops, kind
  <2>3. ASSUME NEW d \in {"inline", "vector"}, NEW n \in Nat, Needs(g(c), d, n)
        PROVE  Met(d, t, T, n) \/ Goal(d, t, T, n) \in X
    <3>1. CASE n = i
      <4>1. \/ c # "inline" /\ d = "inline"
            \/ c \in Many /\ d = "vector"
        BY <1>4, <2>1, <2>3, <3>1, <1>3 DEF Needs, OfFields, Many
      <4> QED BY <1>6, <3>1, <4>1 DEF g
    <3>2. CASE n # i
      <4>1. /\ c \in {"union", "unions"} /\ n = i - 1
            /\ c = "union" => d = "inline"
        BY <1>4, <2>1, <2>3, <3>2 DEF Needs, OfFields
      <4>2. Kind(T, i) = c
        BY <4>1, <1>6 DEF Chain, kind, Many
      <4>3. /\ i - 1 \in DOMAIN Types[T]
            /\ c = "union"  => Kind(T, i - 1) = "scalar"
            /\ c = "unions" => Kind(T, i - 1) = "vector"
        BY <1>2, <4>1, <4>2 DEF FieldOK, Kind
      <4>4. d \in Chain(Kind(T, i - 1))
        BY <4>1, <4>3 DEF Chain
      <4>5. Needs(G, d, n)
        BY <1>1, <4>1, <4>3, <4>4 DEF Needs, T, i
      <4> QED BY <1>1, <4>5
    <3> QED BY <3>1, <3>2
  <2>4. Ready(g(c), X)
    BY <2>1, <2>2, <2>3 DEF Ready
  <2> QED BY <2>1, <2>4, ReadyOne
<1>7. /\ Again \in Goals /\ Again = Goal("fields", t, T, i + 1)
      /\ Again.check = "fields" /\ Again.at = t /\ Again.type = T /\ Again.k = i + 1
      /\ Again.with = Null
  <2>1. /\ Again \in Goals
        /\ Again.check = "fields" /\ Again.at = t /\ Again.type = T /\ Again.k = i + 1
        /\ Again.with = Null
    BY <1>1 DEF Again, Goals, t, T, i
  <2> HIDE DEF Again
  <2> QED BY <2>1 DEF Goals, Goal
<1>8. <<Again>> \in Seq(Goals) /\ AllReady(<<Again>>, All)
  <2> HIDE DEF Again, g
  <2>1. Sound(Again)
    BY <1>1, <1>3, <1>7 DEF Sound, OfFields, Loops
  <2>2. ASSUME NEW d \in {"inline", "vector"}, NEW n \in Nat, Needs(Again, d, n)
        PROVE  Goal(d, t, T, n) \in All
    <3>1. n = i /\ d \in Chain(kind)
      BY <1>3, <1>7, <2>2 DEF Needs, kind, OfFields, Many
    <3> QED BY <3>1 DEF g
  <2>3. Ready(Again, All)
    BY <1>7, <2>1, <2>2 DEF Ready
  <2> QED BY <1>7, <2>3, ReadyOne
<1> DEFINE F == FieldGoals(t, T, i)
<1>9. /\ F \in Seq(Goals) /\ AllReady(F, {})
      /\ {F[m] : m \in DOMAIN F} = All
  <2>1. CASE kind \in {"scalar", "struct"}
    <3>1. F = <<g("inline")>>
      <4>1. F = <<g("inline")>> \o <<>>
        BY <2>1 DEF FieldGoals, kind, Kind
      <4> QED BY <4>1
    <3>2. Chain(kind) = {"inline"}
      BY <2>1 DEF Chain, Many
    <3>3. {F[m] : m \in DOMAIN F} = All
      BY <3>1, <3>2
    <3> QED BY <1>6, <3>1, <3>2, <3>3 DEF Many
  <2>2. CASE kind \in Many
    <3>1. F = <<g("inline")>> \o <<g("vector"), g(kind)>>
      BY <2>2 DEF FieldGoals, kind, Kind, Many
    <3>2. Chain(kind) = {"inline", "vector", kind}
      BY <2>2 DEF Chain, Many
    <3> HIDE DEF g, F
    <3>3. /\ <<g("inline")>> \in Seq(Goals) /\ AllReady(<<g("inline")>>, {})
      BY <1>6, <3>2 DEF Many
    <3>4. /\ <<g("vector")>> \in Seq(Goals)
          /\ AllReady(<<g("vector")>>, {} \cup {<<g("inline")>>[m] : m \in DOMAIN <<g("inline")>>})
      BY <1>6, <3>2 DEF Many
    <3>5. /\ <<g("inline")>> \o <<g("vector")>> \in Seq(Goals)
          /\ AllReady(<<g("inline")>> \o <<g("vector")>>, {})
      BY <3>3, <3>4, ReadyConcat
    <3>6. <<g("inline")>> \o <<g("vector")>> = <<g("inline"), g("vector")>>
      BY ShortSequences
    <3> DEFINE two == <<g("inline"), g("vector")>>
    <3>7. {two[m] : m \in DOMAIN two} = {g("inline"), g("vector")}
      BY ShortImages
    <3>8. <<g(kind)>> \in Seq(Goals) /\ AllReady(<<g(kind)>>, {} \cup {two[m] : m \in DOMAIN two})
      BY <1>6, <3>2, <3>7
    <3>9. two \o <<g(kind)>> \in Seq(Goals) /\ AllReady(two \o <<g(kind)>>, {})
      <4> HIDE DEF two
      <4>1. two \in Seq(Goals) /\ AllReady(two, {})
        BY <3>5, <3>6 DEF two
      <4> QED BY <3>8, <4>1, ReadyConcat
    <3>10. F = <<g("inline"), g("vector"), g(kind)>> /\ two \o <<g(kind)>> = F
      <4>1. /\ <<g("inline")>> \o <<g("vector"), g(kind)>> = <<g("inline"), g("vector"), g(kind)>>
            /\ two \o <<g(kind)>> = <<g("inline"), g("vector"), g(kind)>>
        BY ShortSequences
      <4> QED BY <3>1, <4>1
    <3>11. {F[m] : m \in DOMAIN F} = {g("inline"), g("vector"), g(kind)}
      BY <3>10, ShortImages
    <3>12. All = {g("inline"), g("vector"), g(kind)}
      BY <3>2
    <3> QED BY <3>9, <3>10, <3>11, <3>12
  <2>3. CASE kind \notin {"scalar", "struct"} \cup Many
    <3>1. F = <<g("inline")>> \o <<g(kind)>>
      BY <2>3 DEF FieldGoals, kind, Kind, Many
    <3>2. Chain(kind) = {"inline", kind}
      BY <2>3 DEF Chain, Many
    <3> HIDE DEF g, F
    <3>3. /\ <<g("inline")>> \in Seq(Goals) /\ AllReady(<<g("inline")>>, {})
      BY <1>6, <3>2 DEF Many
    <3>4. /\ <<g(kind)>> \in Seq(Goals)
          /\ AllReady(<<g(kind)>>, {} \cup {<<g("inline")>>[m] : m \in DOMAIN <<g("inline")>>})
      BY <1>6, <2>3, <3>2
    <3>5. <<g("inline")>> \o <<g(kind)>> \in Seq(Goals)
          /\ AllReady(<<g("inline")>> \o <<g(kind)>>, {})
      BY <3>3, <3>4, ReadyConcat
    <3>6. F = <<g("inline"), g(kind)>>
      BY <3>1, ShortSequences
    <3>7. {F[m] : m \in DOMAIN F} = {g("inline"), g(kind)}
      BY <3>6, ShortImages
    <3>8. All = {g("inline"), g(kind)}
      BY <3>2
    <3> QED BY <3>1, <3>5, <3>7, <3>8
  <2> QED BY <2>1, <2>2, <2>3
<1>10. F \o <<Again>> \in Seq(Goals) /\ AllReady(F \o <<Again>>, {})
  <2> HIDE DEF F, All, g, Again
  <2>1. AllReady(<<Again>>, {} \cup {F[m] : m \in DOMAIN F})
    BY <1>8, <1>9
  <2> QED BY <1>8, <1>9, <2>1, ReadyConcat
<1> QED BY <1>7, <1>9, <1>10 DEF t, T, i, kind

\* The stacks a step may leave: nothing, or what is ready.
StackOK(s) == s \in Seq(Goals) /\ AllReady(s, {})

LEMMA ReadyAfterCheck ==
    ASSUME Working, NEW ok, NEW goals \in Seq(Goals), NEW touched,
           CheckThat(ok, goals, touched), ok => AllReady(goals, {}),
           \A c \in {"inline", "vector"} : ok /\ G.check = c => Met(c, G.at, G.type, G.k)
    PROVE  UNCHANGED <<mem, intact, rootType, depth, tables>> /\ StackOK(todo')
<1>1. CASE todo' = <<>>
  BY <1>1, ReadyNone, ChecksOutcome DEF StackOK
<1>2. CASE ok /\ todo' = goals \o Tail(todo)
  BY <1>2, ReadyStep, ChecksOutcome DEF StackOK
<1> QED BY <1>1, <1>2, ChecksOutcome

LEMMA StackAfterTables ==
    ASSUME Working, VerifyBuffer \/ VerifyTableStart \/ VerifyFields \/ LeaveTable
    PROVE  UNCHANGED <<mem, intact, rootType>> /\ StackOK(todo')
<1> USE DEF Turn
<1>1. G \in Goals /\ Sound(G) /\ Bytes8 /\ VerifierAssumption
  BY HeadReady DEF Working
<1>2. CASE VerifyBuffer
  <2>1. Indirect(G.at) \in Int
    BY <1>1, NumberTypes DEF Goals
  <2>2. rootType \in DOMAIN Types
    BY DEF Working
  <2>3. <<Goal("start", Indirect(G.at), rootType, 0)>> \in Seq(Goals)
        /\ AllReady(<<Goal("start", Indirect(G.at), rootType, 0)>>, {})
    BY <2>1, <2>2, StartReady
  <2>4. G.check \notin {"inline", "vector"}
    BY <1>2 DEF VerifyBuffer
  <2> QED BY <1>2, <2>3, <2>4, ReadyAfterCheck DEF VerifyBuffer
<1>3. CASE VerifyTableStart
  <2>1. CASE todo' = <<>>
    <3>1. UNCHANGED <<mem, intact, rootType>>
      BY <1>3 DEF VerifyTableStart, Refuse, Proceed
    <3> QED BY <2>1, <3>1, ReadyNone DEF StackOK
  <2>2. CASE todo' # <<>>
    <3> DEFINE g == Goal("fields", G.at, G.type, 1)
    <3>1. /\ Inside(G.at, 4) /\ VTableFits(G.at)
          /\ todo' = <<g>> \o Tail(todo) /\ UNCHANGED <<mem, intact, rootType>>
      BY <1>3, <2>2 DEF VerifyTableStart, Refuse, Proceed
    <3>2. G.at \in Int /\ G.type \in DOMAIN Types /\ G.check = "start"
      BY <1>1, <1>3 DEF VerifyTableStart, Goals, Sound
    <3>3. /\ g \in Goals /\ g.check = "fields" /\ g.at = G.at /\ g.type = G.type
          /\ g.k = 1 /\ g.with = Null
      BY <3>2, PlainGoal DEF Checks
    <3> HIDE DEF g
    <3>4. Types[G.type] \in Seq(Fields) /\ Len(Types[G.type]) \in Nat
      BY <1>1, <3>2 DEF VerifierAssumption
    <3>5. Sound(g)
      BY <3>1, <3>2, <3>3, <3>4 DEF Sound, TableSound, OfFields, Loops
    <3>6. \A c \in {"inline", "vector"}, i \in Nat : ~Needs(g, c, i)
      <4>1. DOMAIN Types[G.type] = 1..Len(Types[G.type])
        BY <3>4
      <4> QED BY <3>3, <4>1 DEF Needs, OfFields, Many
    <3>7. <<g>> \in Seq(Goals) /\ AllReady(<<g>>, {})
      BY <3>3, <3>5, <3>6, ReadyOne DEF Ready
    <3>8. StackOK(<<g>> \o Tail(todo))
      BY <3>2, <3>7, ReadyStep DEF StackOK
    <3> QED BY <3>1, <3>8
  <2> QED BY <2>1, <2>2
<1>4. CASE VerifyFields
  <2> DEFINE goals == FieldGoals(G.at, G.type, G.k) \o <<Again>>
  <2>1. goals \in Seq(Goals) /\ AllReady(goals, {})
    BY <1>4, ChainReady
  <2>2. CheckThat(TRUE, goals, {}) /\ G.check \notin {"inline", "vector"}
    BY <1>4 DEF VerifyFields
  <2> HIDE DEF goals
  <2> QED BY <2>1, <2>2, ReadyAfterCheck
<1>5. CASE LeaveTable
  <2>1. todo' = <<>> \o Tail(todo) /\ UNCHANGED <<mem, intact, rootType>> /\ G.check = "fields"
    BY <1>5 DEF LeaveTable, Proceed
  <2> QED BY <2>1, ReadyNone, ReadyStep DEF StackOK
<1> QED BY <1>2, <1>3, <1>4, <1>5

LEMMA StackAfterFields ==
    ASSUME Working,
           \/ VerifyField \/ VerifyTable \/ VerifyVector \/ VerifyString \/ VerifyUnion
           \/ OpenVector("strings", "eachString") \/ OpenVector("tables", "eachTable")
           \/ VerifyUnions
    PROVE  UNCHANGED <<mem, intact, rootType, depth, tables>> /\ StackOK(todo')
<1> USE DEF Turn
<1> DEFINE p == Pointer(G.at, G.k)
<1>1. G.check \in OfFields
  BY DEF VerifyField, VerifyTable, VerifyVector, VerifyString, VerifyUnion, OpenVector,
         VerifyUnions, OfFields
<1>2. Bytes8 /\ p \in Int /\ Fld \in Fields /\ Fld.of \in DOMAIN Types
  BY <1>1, FieldTurn, FieldTypes DEF Working, Fields
<1>3. CASE VerifyField
  <2> DEFINE off == FieldOffset(G.at, G.k)
             ok  == IF off = 0 THEN ~Fld.required ELSE Inside(G.at + off, InlineSize(Fld))
  <2>1. CheckThat(ok, <<>>, OffsetReads(G.at, G.k)) /\ G.check = "inline"
    BY <1>3 DEF VerifyField
  <2>2. ok => Met("inline", G.at, G.type, G.k)
    BY <1>1, FieldTurn DEF Met, InlineMet
  <2> HIDE DEF ok
  <2> QED BY <2>1, <2>2, ReadyNone, ReadyAfterCheck
<1>4. CASE VerifyTable
  <2> DEFINE goals == IF p = Null THEN <<>> ELSE <<Goal("start", p, Fld.of, 0)>>
  <2>1. goals \in Seq(Goals) /\ AllReady(goals, {})
    BY <1>2, ReadyNone, StartReady
  <2>2. CheckThat(TRUE, goals, PointerReads(G.at, G.k)) /\ G.check = "table"
    BY <1>4 DEF VerifyTable
  <2> HIDE DEF goals
  <2> QED BY <2>1, <2>2, ReadyAfterCheck
<1>5. CASE VerifyVector
  <2> DEFINE ok == p = Null \/ VectorFits(p, Fld.size)
  <2>1. CheckThat(ok, <<>>, PointerReads(G.at, G.k) \cup LengthReads(p)) /\ G.check = "vector"
    BY <1>5 DEF VerifyVector
  <2>2. ok => Met("vector", G.at, G.type, G.k)
    BY <1>1, FieldTurn DEF Met, VectorMet
  <2> HIDE DEF ok
  <2> QED BY <2>1, <2>2, ReadyNone, ReadyAfterCheck
<1>6. CASE VerifyString
  <2>1. /\ CheckThat(p = Null \/ StringFits(p), <<>>, PointerReads(G.at, G.k) \cup StringReads(p))
        /\ G.check = "string"
    BY <1>6 DEF VerifyString
  <2> QED BY <2>1, ReadyNone, ReadyAfterCheck
<1>7. ASSUME NEW kind, NEW loop, OpenVector(kind, loop),
             <<kind, loop>> \in {<<"strings", "eachString">>, <<"tables", "eachTable">>}
      PROVE  UNCHANGED <<mem, intact, rootType, depth, tables>> /\ StackOK(todo')
  <2> DEFINE g == Goal(loop, p, Fld.of, 1)
             goals == IF p = Null THEN <<>> ELSE <<g>>
  <2>1. G.check = kind /\ kind \in Many /\ loop \in {"eachString", "eachTable"}
    BY <1>7 DEF OpenVector, Many
  <2>2. /\ g \in Goals /\ g.check = loop /\ g.at = p /\ g.type = Fld.of
        /\ g.k = 1 /\ g.with = Null
    <3>1. loop \in Checks
      BY <2>1 DEF Checks, Loops
    <3> HIDE DEF p
    <3> QED BY <1>2, <3>1 DEF Goal, Goals, Null
  <2>3. p # Null => VectorSound(p)
    <3>1. VectorMet(G.at, G.type, G.k) /\ Fld = Types[G.type][G.k] /\ Fld.size = 4
      BY <1>1, <2>1, FieldTurn
    <3>2. p \in Int
      BY <1>2
    <3> QED BY <1>2, <3>1, <3>2, VectorsInside DEF VectorMet, VectorSound
  <2>4. goals \in Seq(Goals) /\ AllReady(goals, {})
    <3>1. CASE p = Null
      BY <3>1, ReadyNone
    <3>2. CASE p # Null
      <4> HIDE DEF g, p
      <4>1. <<g>> \in Seq(Goals) /\ AllReady(<<g>>, {})
        BY <1>2, <2>1, <2>2, <2>3, <3>2, LoopReady DEF Loops
      <4> QED BY <3>2, <4>1
    <3> QED BY <3>1, <3>2
  <2>5. CheckThat(TRUE, goals, PointerReads(G.at, G.k))
    BY <1>7 DEF OpenVector
  <2>6. G.check \notin {"inline", "vector"}
    BY <2>1 DEF Many
  <2> HIDE DEF goals
  <2> QED BY <2>4, <2>5, <2>6, ReadyAfterCheck
<1>8. CASE VerifyUnion
  <2> DEFINE type == ByteField(G.at, G.k - 1)
             goals == MemberGoals(type, p)
  <2>1. G.check = "union" /\ G.at \in Int /\ G.k - 1 \in Nat
    BY <1>1, <1>8, FieldTurn DEF VerifyUnion
  <2>2. type \in 0..255
    <3>1. FieldOffset(G.at, G.k - 1) \in Nat
      BY <1>2, <2>1, FieldTypes
    <3>2. G.at + FieldOffset(G.at, G.k - 1) \in Int
      BY <2>1, <3>1
    <3> QED BY <1>2, <3>2, ByteType DEF ByteField
  <2>3. goals \in Seq(Goals) /\ AllReady(goals, {})
    BY <1>2, <2>2, MemberReady
  <2>4. CheckThat(TypeKnown(type), goals,
                  PointerReads(G.at, G.k) \cup ByteFieldReads(G.at, G.k - 1))
    BY <1>8 DEF VerifyUnion
  <2> HIDE DEF goals, type
  <2> QED BY <2>1, <2>3, <2>4, ReadyAfterCheck
<1>9. CASE VerifyUnions
  <2> DEFINE types == Pointer(G.at, G.k - 1)
             g == [Goal("eachUnion", p, G.type, 1) EXCEPT !.with = types]
             offsets == PointerReads(G.at, G.k) \cup PointerReads(G.at, G.k - 1)
  <2>1. CASE Null \in {p, types}
    <3>1. todo' = <<>> /\ UNCHANGED <<mem, intact, rootType, depth, tables>>
      BY <1>9, <2>1 DEF VerifyUnions
    <3> QED BY <3>1, ReadyNone DEF StackOK
  <2>2. CASE Null \notin {p, types}
    <3>1. /\ G.check = "unions" /\ G.at \in Int /\ G.type \in DOMAIN Types
          /\ VectorMet(G.at, G.type, G.k) /\ VectorMet(G.at, G.type, G.k - 1)
          /\ Fld = Types[G.type][G.k] /\ Fld.size = 4
          /\ G.k - 1 \in Nat /\ Types[G.type][G.k - 1].size = 1
      BY <1>1, <1>9, FieldTurn DEF VerifyUnions, Many
    <3>2. types \in Int
      BY <1>2, <3>1, FieldTypes
    <3> HIDE DEF p, types
    <3>3. /\ g \in Goals /\ g.check = "eachUnion" /\ g.at = p /\ g.type = G.type
          /\ g.k = 1 /\ g.with = types
      BY <1>2, <3>1, <3>2 DEF Goal, Goals, Checks, Loops
    <3>4. VectorSound(p) /\ Inside(types, 4 + U32(types))
      <4>1. VectorFits(p, 4) /\ VectorFits(types, 1)
        BY <2>2, <3>1 DEF VectorMet, p, types
      <4>2. U32(types) \in Nat
        BY <1>2, <3>2, NumberTypes
      <4>3. VectorSound(p)
        BY <1>2, <4>1, VectorsInside DEF VectorSound
      <4>4. Inside(types, 4 + 1 * U32(types))
        BY <1>2, <3>2, <4>1, VectorsInside
      <4> QED BY <4>2, <4>3, <4>4
    <3>5. CheckThat(SameCount(p, types), <<g>>, offsets \cup {Bytes(p, 4), Bytes(types, 4)})
      BY <1>9, <2>2 DEF VerifyUnions, p, types
    <3> HIDE DEF g, offsets
    <3>6. SameCount(p, types) => <<g>> \in Seq(Goals) /\ AllReady(<<g>>, {})
      BY <3>1, <3>3, <3>4, LoopReady DEF SameCount, Loops
    <3>7. <<g>> \in Seq(Goals)
      BY <3>3
    <3> QED BY <3>1, <3>5, <3>6, <3>7, ReadyAfterCheck
  <2> QED BY <2>1, <2>2
<1> QED BY <1>3, <1>4, <1>5, <1>6, <1>7, <1>8, <1>9

LEMMA StackAfterLoops ==
    ASSUME Working, VerifyEachString \/ VerifyEachTable \/ VerifyEachUnion
    PROVE  UNCHANGED <<mem, intact, rootType, depth, tables>> /\ StackOK(todo')
<1> USE DEF Turn
<1>1. G.check \in Loops /\ G.check \notin {"inline", "vector"}
  BY DEF VerifyEachString, VerifyEachTable, VerifyEachUnion, Loops
<1>2. Referred \in Int /\ G.type \in DOMAIN Types \cup {G.type} /\ Sound(G)
  BY <1>1, LoopTurn, HeadReady
<1>3. ASSUME NEW ok, NEW goals \in Seq(Goals), NEW touched, CheckThat(ok, goals, touched),
             ok => AllReady(goals, {})
      PROVE  UNCHANGED <<mem, intact, rootType, depth, tables>> /\ StackOK(todo')
  BY <1>1, <1>3, ReadyAfterCheck
<1>4. ASSUME CheckThat(TRUE, <<>>, LoopReads)
      PROVE  UNCHANGED <<mem, intact, rootType, depth, tables>> /\ StackOK(todo')
  BY <1>3, <1>4, ReadyNone
<1>5. <<Again>> \in Seq(Goals) /\ \A X : AllReady(<<Again>>, X)
  BY <1>1, AgainReady
<1>6. CASE VerifyEachString
  <2>1. CASE CheckThat(StringFits(Referred), <<Again>>, LoopReads \cup StringReads(Referred))
    BY <1>3, <1>5, <2>1
  <2> QED BY <1>4, <1>6, <2>1 DEF VerifyEachString
<1>7. CASE VerifyEachTable
  <2> DEFINE start == <<Goal("start", Referred, G.type, 0)>>
             goals == <<Goal("start", Referred, G.type, 0), Again>>
  <2>1. G.type \in DOMAIN Types
    BY <1>2, <1>7 DEF Sound, VerifyEachTable
  <2>2. start \in Seq(Goals) /\ AllReady(start, {})
    BY <1>2, <2>1, StartReady
  <2>3. start \o <<Again>> = goals
    BY ShortSequences
  <2> HIDE DEF start
  <2>4. goals \in Seq(Goals) /\ AllReady(goals, {})
    BY <1>5, <2>2, <2>3, ReadyConcat
  <2>5. CASE CheckThat(TRUE, goals, LoopReads)
    BY <1>3, <2>4, <2>5
  <2> QED BY <1>4, <1>7, <2>5 DEF VerifyEachTable
<1>8. CASE VerifyEachUnion
  <2> DEFINE member == MemberGoals(ElementType, Referred)
  <2>1. CASE G.k > U32(G.at) /\ CheckThat(TRUE, <<>>, LoopReads)
    BY <1>4, <2>1
  <2>2. CASE G.k <= U32(G.at)
    <3>1. ElementType \in 0..255
      BY <1>1, <1>8, <2>2, LoopTurn DEF VerifyEachUnion
    <3>2. member \in Seq(Goals) /\ AllReady(member, {})
      BY <1>2, <3>1, MemberReady
    <3>3. ~(G.k > U32(G.at))
      <4>1. G.k \in Nat /\ U32(G.at) \in Nat
        BY <1>1, LoopTurn, NumberTypes DEF Working
      <4> QED BY <2>2, <4>1
    <3>4. CheckThat(TypeKnown(ElementType), member \o <<Again>>,
                    LoopReads \cup {Bytes(Element(G.with, G.k, 1), 1)})
      BY <1>8, <3>3 DEF VerifyEachUnion
    <3> HIDE DEF member
    <3>5. member \o <<Again>> \in Seq(Goals) /\ AllReady(member \o <<Again>>, {})
      BY <1>5, <3>2, ReadyConcat
    <3> QED BY <1>3, <3>4, <3>5
  <2> QED BY <1>8, <2>1, <2>2 DEF VerifyEachUnion
<1> QED BY <1>6, <1>7, <1>8

LEMMA StepStack ==
    ASSUME Working, VerifierNext
    PROVE  UNCHANGED <<mem, intact, rootType>> /\ StackOK(todo')
BY StackAfterTables, StackAfterFields, StackAfterLoops DEF VerifierNext

-----------------------------------------------------------------------------
(* How deep the verifier is.                                               *)

Entered(s) == {j \in DOMAIN s : s[j].check = "fields"}
Nesting(s) == Cardinality(Entered(s))

LEMMA NestingConcat ==
    ASSUME NEW a \in Seq(Goals), NEW b \in Seq(Goals)
    PROVE  /\ Nesting(a) \in Nat /\ Nesting(b) \in Nat
           /\ Nesting(a \o b) = Nesting(a) + Nesting(b)
<1> DEFINE n == Len(a)
           s == a \o b
           f == [j \in Entered(b) |-> n + j]
           Moved == {n + j : j \in Entered(b)}
<1>1. /\ n \in Nat /\ Len(b) \in Nat /\ DOMAIN a = 1..n /\ DOMAIN b = 1..Len(b)
      /\ DOMAIN s = 1..(n + Len(b))
      /\ \A j \in 1..n : s[j] = a[j]
      /\ \A j \in 1..Len(b) : s[n + j] = b[j]
  OBVIOUS
<1> HIDE DEF n, s
<1>2. /\ Entered(a) \subseteq 1..n /\ Entered(b) \subseteq 1..Len(b)
      /\ Entered(s) \subseteq 1..(n + Len(b))
  BY <1>1 DEF Entered
<1>3. \A m \in Nat : IsFiniteSet(1..m)
  BY FS_Interval
<1>4. /\ IsFiniteSet(Entered(a)) /\ IsFiniteSet(Entered(b))
  BY <1>1, <1>2, <1>3, FS_Subset
<1>5. f \in Bijection(Entered(b), Moved)
  <2>1. f \in Surjection(Entered(b), Moved)
    BY DEF Surjection
  <2>2. f \in Injection(Entered(b), Moved)
    <3>1. \A x, y \in Entered(b) : n + x = n + y => x = y
      BY <1>1, <1>2
    <3> QED BY <2>1, <3>1 DEF Surjection, Injection, IsInjective
  <2> QED BY <2>1, <2>2 DEF Bijection
<1>6. IsFiniteSet(Moved) /\ Cardinality(Moved) = Nesting(b)
  BY <1>4, <1>5, FS_Bijection DEF ExistsBijection, Nesting
<1>7. Entered(s) = Entered(a) \cup Moved
  <2>1. ASSUME NEW j \in Entered(s) PROVE j \in Entered(a) \cup Moved
    <3>1. j \in 1..(n + Len(b)) /\ s[j].check = "fields"
      BY <1>2 DEF Entered
    <3>2. CASE j <= n
      BY <1>1, <3>1, <3>2 DEF Entered
    <3>3. CASE j > n
      <4>1. j - n \in 1..Len(b) /\ j = n + (j - n)
        BY <1>1, <3>1, <3>3
      <4>2. j - n \in Entered(b)
        BY <1>1, <3>1, <4>1 DEF Entered
      <4> QED BY <4>1, <4>2
    <3> QED BY <1>1, <3>1, <3>2, <3>3
  <2>2. ASSUME NEW j \in Entered(a) PROVE j \in Entered(s)
    BY <1>1, <1>2 DEF Entered
  <2>3. ASSUME NEW j \in Entered(b) PROVE n + j \in Entered(s)
    <3>1. j \in 1..Len(b) /\ b[j].check = "fields"
      BY <1>2 DEF Entered
    <3>2. n + j \in DOMAIN s /\ s[n + j] = b[j]
      BY <1>1, <3>1
    <3> QED BY <3>1, <3>2 DEF Entered
  <2> QED BY <2>1, <2>2, <2>3
<1>8. Entered(a) \cap Moved = {}
  BY <1>1, <1>2
<1>9. Cardinality(Entered(a) \cup Moved) =
        Cardinality(Entered(a)) + Cardinality(Moved) - Cardinality(Entered(a) \cap Moved)
  BY <1>4, <1>6, FS_Union
<1>10. Cardinality(Entered(a) \cap Moved) = 0
  BY <1>8, FS_EmptySet
<1>11. Nesting(a) \in Nat /\ Nesting(b) \in Nat
  BY <1>4, FS_CardinalityType DEF Nesting
<1>12. Nesting(s) = Nesting(a) + Nesting(b)
  BY <1>6, <1>7, <1>9, <1>10, <1>11 DEF Nesting
<1> QED BY <1>11, <1>12 DEF s

LEMMA NestingNone ==
    ASSUME NEW s, \A j \in DOMAIN s : s[j].check # "fields"
    PROVE  Nesting(s) = 0
<1>1. Entered(s) = {}
  BY DEF Entered
<1> QED BY <1>1, FS_EmptySet DEF Nesting

LEMMA NestingOne ==
    ASSUME NEW g
    PROVE  Nesting(<<g>>) = IF g.check = "fields" THEN 1 ELSE 0
<1>1. DOMAIN <<g>> = {1} /\ <<g>>[1] = g
  OBVIOUS
<1>2. Entered(<<g>>) = IF g.check = "fields" THEN {1} ELSE {}
  BY <1>1 DEF Entered
<1> QED BY <1>2, FS_EmptySet, FS_Singleton DEF Nesting

\* A step changes the depth of the stack by what it puts there and takes away.
LEMMA NestingStep ==
    ASSUME Working, NEW goals \in Seq(Goals)
    PROVE  /\ Nesting(goals) \in Nat /\ Nesting(todo) \in Nat
           /\ G.check # "fields" =>
                 Nesting(goals \o Tail(todo)) = Nesting(goals) + Nesting(todo)
           /\ G.check = "fields" =>
                 Nesting(goals \o Tail(todo)) = Nesting(goals) + Nesting(todo) - 1
<1> DEFINE rest == Tail(todo)
<1>1. G \in Goals /\ rest \in Seq(Goals) /\ todo \in Seq(Goals) /\ todo # <<>>
  BY HeadReady DEF Working
<1>2. todo = <<G>> \o rest
  BY <1>1 DEF G
<1>3. <<G>> \in Seq(Goals)
  BY <1>1
<1> HIDE DEF rest
<1>4. /\ Nesting(todo) = Nesting(<<G>>) + Nesting(rest)
      /\ Nesting(<<G>>) \in Nat /\ Nesting(rest) \in Nat
  BY <1>1, <1>2, <1>3, NestingConcat
<1>5. /\ Nesting(goals \o rest) = Nesting(goals) + Nesting(rest)
      /\ Nesting(goals) \in Nat
  BY <1>1, NestingConcat
<1>6. Nesting(<<G>>) = IF G.check = "fields" THEN 1 ELSE 0
  BY NestingOne
<1> QED BY <1>4, <1>5, <1>6 DEF rest

\* The verdict agrees with the stack, the counters with both.
Counted ==
    /\ verdict \in {"checking", "accepted", "refused", "crashed"}
    /\ (verdict = "checking") = (todo # <<>>)
    /\ depth \in 0..(MaxDepth + 1) /\ tables \in 0..(MaxTables + 1)
    /\ verdict # "refused" => depth <= MaxDepth /\ tables <= MaxTables
    /\ verdict \in {"checking", "accepted"} => depth = Nesting(todo)

LEMMA CountedWhileWorking ==
    ASSUME Working, Counted
    PROVE  /\ verdict = "checking" /\ depth = Nesting(todo) /\ Nesting(todo) \in Nat
           /\ depth \in Nat /\ depth <= MaxDepth /\ tables \in Nat /\ tables <= MaxTables
           /\ MaxDepth \in Nat /\ MaxTables \in Nat
           /\ Nesting(todo') = Nesting(todo)'
<1>1. Nesting(todo) \in Nat
  BY ReadyNone, NestingStep
<1>2. Nesting(todo') = Nesting(todo)'
  BY DEF Nesting, Entered
<1> QED BY <1>1, <1>2 DEF Counted, Working, VerifierAssumption

LEMMA CountedAfterRefusal ==
    ASSUME Working, Counted, verdict' \in {"refused", "crashed"}, todo' = <<>>,
           \/ UNCHANGED <<depth, tables>>
           \/ verdict' = "refused" /\ depth' = depth + 1 /\ tables' = tables + 1
    PROVE  Counted'
BY CountedWhileWorking DEF Counted

LEMMA CountedAfterCheck ==
    ASSUME Working, Counted, NEW ok, NEW goals \in Seq(Goals), NEW touched,
           CheckThat(ok, goals, touched),
           Nesting(goals) = IF G.check = "fields" THEN 1 ELSE 0
    PROVE  Counted'
<1>1. CASE todo' = <<>> /\ verdict' = "refused"
  BY <1>1, ChecksOutcome, CountedAfterRefusal
<1>2. CASE /\ todo' = goals \o Tail(todo)
           /\ verdict' = IF todo' = <<>> THEN "accepted" ELSE "checking"
  <2>1. Nesting(todo') = Nesting(todo)
    BY <1>2, CountedWhileWorking, NestingStep
  <2>2. depth' = depth /\ tables' = tables
    BY ChecksOutcome
  <2> QED BY <1>2, <2>1, <2>2, CountedWhileWorking DEF Counted
<1> QED BY <1>1, <1>2, ChecksOutcome

LEMMA NestingShort ==
    ASSUME NEW g \in Goals, g.check # "fields"
    PROVE  /\ <<g>> \in Seq(Goals) /\ Nesting(<<g>>) = 0
           /\ <<>> \in Seq(Goals) /\ Nesting(<<>>) = 0
<1>1. Nesting(<<>>) = 0
  BY NestingNone
<1> QED BY <1>1, NestingOne

LEMMA CountedAfterTables ==
    ASSUME Working, Counted, VerifyBuffer \/ VerifyTableStart \/ VerifyFields \/ LeaveTable
    PROVE  Counted'
<1> USE DEF Turn
<1>1. G \in Goals /\ Sound(G) /\ Bytes8 /\ VerifierAssumption
  BY HeadReady DEF Working
<1>2. CASE VerifyBuffer
  <2> DEFINE g == Goal("start", Indirect(G.at), rootType, 0)
  <2>1. G.check = "buffer" /\ Indirect(G.at) \in Int /\ rootType \in DOMAIN Types
    BY <1>1, <1>2, NumberTypes DEF Goals, Working, VerifyBuffer
  <2>2. g \in Goals /\ g.check = "start"
    BY <2>1 DEF Goal, Goals, Null, Checks
  <2>3. \E ok, touched : CheckThat(ok, <<g>>, touched)
    BY <1>2 DEF VerifyBuffer
  <2> HIDE DEF g
  <2> QED BY <2>1, <2>2, <2>3, NestingShort, CountedAfterCheck
<1>3. CASE VerifyTableStart
  <2> DEFINE g == Goal("fields", G.at, G.type, 1)
  <2>1. CASE todo' = <<>> /\ verdict' = "refused"
    <3>1. \/ UNCHANGED <<depth, tables>>
          \/ depth' = depth + 1 /\ tables' = tables + 1
      BY <1>3 DEF VerifyTableStart
    <3> QED BY <2>1, <3>1, CountedAfterRefusal
  <2>2. CASE ~(todo' = <<>> /\ verdict' = "refused")
    <3>1. /\ depth' = depth + 1 /\ tables' = tables + 1 /\ WithinLimits
          /\ todo' = <<g>> \o Tail(todo) /\ G.check = "start"
          /\ verdict' = IF todo' = <<>> THEN "accepted" ELSE "checking"
      BY <1>3, <2>2 DEF VerifyTableStart, Refuse, Proceed
    <3>2. G.at \in Int /\ G.type \in DOMAIN Types
      BY <1>1, <3>1 DEF Goals, Sound
    <3>3. g \in Goals /\ g.check = "fields"
      BY <3>2, PlainGoal DEF Checks
    <3> DEFINE goals == <<g>>
    <3>4. goals \in Seq(Goals) /\ Nesting(goals) = 1
      <4> HIDE DEF g
      <4> QED BY <3>3, NestingOne
    <3>5. todo' = goals \o Tail(todo)
      BY <3>1
    <3> HIDE DEF goals
    <3>6. Nesting(todo') = Nesting(todo) + 1
      BY <3>1, <3>4, <3>5, NestingStep, CountedWhileWorking
    <3> QED BY <3>1, <3>6, CountedWhileWorking DEF Counted, WithinLimits
  <2> QED BY <2>1, <2>2
<1>4. CASE VerifyFields
  <2> DEFINE F == FieldGoals(G.at, G.type, G.k)
  <2>1. /\ F \in Seq(Goals) /\ Again \in Goals /\ F \o <<Again>> \in Seq(Goals)
        /\ {F[m] : m \in DOMAIN F} = {Goal(c, G.at, G.type, G.k) : c \in Chain(Kind(G.type, G.k))}
        /\ Again = Goal("fields", G.at, G.type, G.k + 1)
    BY <1>4, ChainReady
  <2>2. CheckThat(TRUE, F \o <<Again>>, {}) /\ G.check = "fields"
    BY <1>4 DEF VerifyFields
  <2>3. "fields" \notin Chain(Kind(G.type, G.k))
    <3>1. G.type \in DOMAIN Types /\ G.k \in DOMAIN Types[G.type]
      BY <1>1, <1>4 DEF VerifyFields, Sound
    <3>2. Types[G.type] \in Seq(Fields)
      BY <1>1, <3>1 DEF VerifierAssumption
    <3>3. Types[G.type][G.k] \in Fields
      BY <3>1, <3>2
    <3> QED BY <3>3 DEF Fields, FieldKinds, Kind, Chain
  <2> HIDE DEF F
  <2>4. Nesting(F) = 0
    <3>1. ASSUME NEW m \in DOMAIN F PROVE F[m].check # "fields"
      <4>1. PICK c \in Chain(Kind(G.type, G.k)) : F[m] = Goal(c, G.at, G.type, G.k)
        BY <2>1
      <4> QED BY <2>3, <4>1 DEF Goal
    <3> QED BY <3>1, NestingNone
  <2>5. <<Again>> \in Seq(Goals) /\ Nesting(<<Again>>) = 1
    <3>1. Again.check = "fields"
      BY <2>1 DEF Goal
    <3> QED BY <2>1, <3>1, NestingOne
  <2>6. Nesting(F \o <<Again>>) = 1
    <3> DEFINE last == <<Again>>
    <3>1. last \in Seq(Goals) /\ Nesting(last) = 1
      BY <2>5
    <3> HIDE DEF last
    <3>2. Nesting(F \o last) = 1
      BY <2>1, <2>4, <3>1, NestingConcat
    <3> QED BY <3>2 DEF last
  <2> QED BY <2>1, <2>2, <2>6, CountedAfterCheck
<1>5. CASE LeaveTable
  <2>1. /\ todo' = <<>> \o Tail(todo) /\ G.check = "fields"
        /\ verdict' = IF todo' = <<>> THEN "accepted" ELSE "checking"
        /\ depth' = depth - 1 /\ tables' = tables
    BY <1>5 DEF LeaveTable, Proceed
  <2>2. <<>> \in Seq(Goals) /\ Nesting(<<>>) = 0
    BY NestingNone
  <2>3. Nesting(todo') = Nesting(todo) - 1 /\ Nesting(todo') \in Nat
    <3>1. Tail(todo) \in Seq(Goals)
      BY HeadReady
    <3>2. <<>> \o Tail(todo) \in Seq(Goals)
      BY <3>1
    <3>3. Nesting(todo') \in Nat
      BY <2>1, <2>2, <3>2, NestingConcat
    <3>4. Nesting(<<>> \o Tail(todo)) = Nesting(<<>>) + Nesting(todo) - 1
      BY <2>1, <2>2, NestingStep
    <3> QED BY <2>1, <2>2, <3>3, <3>4, CountedWhileWorking
  <2> QED BY <2>1, <2>3, CountedWhileWorking DEF Counted
<1> QED BY <1>2, <1>3, <1>4, <1>5

LEMMA CountedAfterFields ==
    ASSUME Working, Counted,
           \/ VerifyField \/ VerifyTable \/ VerifyVector \/ VerifyString \/ VerifyUnion
           \/ OpenVector("strings", "eachString") \/ OpenVector("tables", "eachTable")
           \/ VerifyUnions
    PROVE  Counted'
<1> USE DEF Turn
<1> DEFINE p == Pointer(G.at, G.k)
<1>1. G.check \in OfFields /\ G.check # "fields"
  BY DEF VerifyField, VerifyTable, VerifyVector, VerifyString, VerifyUnion, OpenVector,
         VerifyUnions, OfFields
<1>2. /\ Bytes8 /\ VerifierAssumption /\ p \in Int /\ Fld.of \in DOMAIN Types
      /\ G.at \in Int /\ G.type \in DOMAIN Types
  BY <1>1, FieldTurn, FieldTypes DEF Working, Fields
<1>3. ASSUME NEW ok, NEW touched, CheckThat(ok, <<>>, touched)
      PROVE  Counted'
  <2>1. <<>> \in Seq(Goals) /\ Nesting(<<>>) = 0
    BY NestingNone
  <2> QED BY <1>1, <1>3, <2>1, CountedAfterCheck
<1>4. ASSUME NEW ok, NEW touched, NEW g \in Goals, g.check # "fields",
             CheckThat(ok, <<g>>, touched)
      PROVE  Counted'
  BY <1>1, <1>4, NestingShort, CountedAfterCheck
<1>5. ASSUME NEW q \in Int, NEW T \in DOMAIN Types
      PROVE  Goal("start", q, T, 0) \in Goals /\ Goal("start", q, T, 0).check # "fields"
  BY DEF Goal, Goals, Null, Checks
<1>6. CASE VerifyField \/ VerifyVector \/ VerifyString
  BY <1>3, <1>6 DEF VerifyField, VerifyVector, VerifyString
<1>7. CASE VerifyTable
  <2>1. \E touched : CheckThat(TRUE, IF p = Null THEN <<>> ELSE <<Goal("start", p, Fld.of, 0)>>, touched)
    BY <1>7 DEF VerifyTable
  <2> HIDE DEF p
  <2> QED BY <1>2, <1>3, <1>4, <1>5, <2>1
<1>8. CASE OpenVector("strings", "eachString") \/ OpenVector("tables", "eachTable")
  <2>1. PICK loop \in {"eachString", "eachTable"} :
           \E touched : CheckThat(TRUE, IF p = Null THEN <<>> ELSE <<Goal(loop, p, Fld.of, 1)>>, touched)
    BY <1>8 DEF OpenVector
  <2> HIDE DEF p
  <2> DEFINE g == Goal(loop, p, Fld.of, 1)
  <2>2. g \in Goals /\ g.check # "fields"
    BY <1>2 DEF Goal, Goals, Null, Checks, Loops
  <2> HIDE DEF g
  <2> QED BY <1>3, <1>4, <2>1, <2>2 DEF g
<1>9. CASE VerifyUnion
  <2> DEFINE type == ByteField(G.at, G.k - 1)
  <2>1. \E ok, touched : CheckThat(ok, MemberGoals(type, p), touched)
    BY <1>9 DEF VerifyUnion
  <2> HIDE DEF type, p
  <2>2. CASE type \notin DOMAIN Members \/ p = Null
    BY <1>3, <2>1, <2>2 DEF MemberGoals
  <2>3. CASE ~(type \notin DOMAIN Members \/ p = Null)
    <3>1. Members[type] \in DOMAIN Types
      BY <1>2, <2>3 DEF VerifierAssumption
    <3>2. MemberGoals(type, p) = <<Goal("start", p, Members[type], 0)>>
      BY <2>3 DEF MemberGoals
    <3> QED BY <1>2, <1>4, <1>5, <2>1, <3>1, <3>2
  <2> QED BY <2>2, <2>3
<1>10. CASE VerifyUnions
  <2> DEFINE types == Pointer(G.at, G.k - 1)
             g == [Goal("eachUnion", p, G.type, 1) EXCEPT !.with = types]
  <2>1. CASE todo' = <<>> /\ verdict' = "crashed" /\ UNCHANGED <<depth, tables>>
    BY <2>1, CountedAfterRefusal
  <2>2. CASE \E ok, touched : CheckThat(ok, <<g>>, touched)
    <3>1. types \in Int
      <4>1. G.check = "unions" /\ G.k - 1 \in Nat
        BY <1>1, <1>10, FieldTurn DEF VerifyUnions
      <4> QED BY <1>2, <4>1, FieldTypes
    <3> HIDE DEF p, types
    <3>2. g \in Goals /\ g.check # "fields"
      BY <1>2, <3>1 DEF Goal, Goals, Checks, Loops
    <3> HIDE DEF g
    <3> QED BY <1>4, <2>2, <3>2
  <2> QED BY <1>10, <2>1, <2>2 DEF VerifyUnions
<1> QED BY <1>6, <1>7, <1>8, <1>9, <1>10

LEMMA CountedAfterLoops ==
    ASSUME Working, Counted, VerifyEachString \/ VerifyEachTable \/ VerifyEachUnion
    PROVE  Counted'
<1> USE DEF Turn
<1>1. G.check \in Loops /\ G.check # "fields"
  BY DEF VerifyEachString, VerifyEachTable, VerifyEachUnion, Loops
<1>2. Referred \in Int /\ G \in Goals /\ Sound(G)
  BY <1>1, LoopTurn, HeadReady
<1>3. ASSUME NEW ok, NEW goals \in Seq(Goals), NEW touched, CheckThat(ok, goals, touched),
             Nesting(goals) = 0
      PROVE  Counted'
  BY <1>1, <1>3, CountedAfterCheck
<1>4. <<>> \in Seq(Goals) /\ Nesting(<<>>) = 0
  BY NestingNone
<1>5. <<Again>> \in Seq(Goals) /\ Nesting(<<Again>>) = 0
  <2>1. Again \in Goals /\ Again.check # "fields"
    BY <1>1, <1>2 DEF Again, Goals
  <2> HIDE DEF Again
  <2> QED BY <2>1, NestingShort
<1>6. ASSUME NEW goals \in Seq(Goals), Nesting(goals) = 0
      PROVE  goals \o <<Again>> \in Seq(Goals) /\ Nesting(goals \o <<Again>>) = 0
  <2> DEFINE last == <<Again>>
  <2>1. last \in Seq(Goals) /\ Nesting(last) = 0
    BY <1>5
  <2> HIDE DEF last
  <2>2. goals \o last \in Seq(Goals) /\ Nesting(goals \o last) = 0
    BY <1>6, <2>1, NestingConcat
  <2> QED BY <2>2 DEF last
<1>7. ASSUME NEW T \in DOMAIN Types
      PROVE  /\ <<Goal("start", Referred, T, 0)>> \in Seq(Goals)
             /\ Nesting(<<Goal("start", Referred, T, 0)>>) = 0
  <2> DEFINE g == Goal("start", Referred, T, 0)
  <2>1. g \in Goals /\ g.check = "start"
    BY <1>2, PlainGoal DEF Checks
  <2> HIDE DEF g
  <2>2. <<g>> \in Seq(Goals) /\ Nesting(<<g>>) = 0
    BY <2>1, NestingShort
  <2> QED BY <2>2 DEF g
<1>8. CASE VerifyEachString
  BY <1>3, <1>4, <1>5, <1>8 DEF VerifyEachString
<1>9. CASE VerifyEachTable
  <2> DEFINE start == <<Goal("start", Referred, G.type, 0)>>
             goals == <<Goal("start", Referred, G.type, 0), Again>>
  <2>1. start \in Seq(Goals) /\ Nesting(start) = 0
    BY <1>2, <1>7, <1>9 DEF Sound, VerifyEachTable
  <2>2. start \o <<Again>> = goals
    BY ShortSequences
  <2> HIDE DEF start
  <2>3. goals \in Seq(Goals) /\ Nesting(goals) = 0
    BY <1>6, <2>1, <2>2
  <2>4. \/ CheckThat(TRUE, <<>>, LoopReads)
        \/ CheckThat(TRUE, goals, LoopReads)
    BY <1>9 DEF VerifyEachTable
  <2> HIDE DEF goals
  <2> QED BY <1>3, <1>4, <2>3, <2>4
<1>10. CASE VerifyEachUnion
  <2> DEFINE member == MemberGoals(ElementType, Referred)
  <2>1. member \in Seq(Goals) /\ Nesting(member) = 0
    <3>1. CASE ElementType \notin DOMAIN Members \/ Referred = Null
      BY <1>4, <3>1 DEF MemberGoals
    <3>2. CASE ~(ElementType \notin DOMAIN Members \/ Referred = Null)
      <4>1. Members[ElementType] \in DOMAIN Types
        BY <3>2 DEF Working, VerifierAssumption
      <4> QED BY <1>7, <3>2, <4>1 DEF MemberGoals
    <3> QED BY <3>1, <3>2
  <2>2. \/ CheckThat(TRUE, <<>>, LoopReads)
        \/ \E ok, touched : CheckThat(ok, member \o <<Again>>, touched)
    BY <1>10 DEF VerifyEachUnion
  <2> HIDE DEF member
  <2>3. member \o <<Again>> \in Seq(Goals) /\ Nesting(member \o <<Again>>) = 0
    BY <1>6, <2>1
  <2> QED BY <1>3, <1>4, <2>2, <2>3
<1> QED BY <1>8, <1>9, <1>10

LEMMA StepCounted ==
    ASSUME Working, Counted, VerifierNext
    PROVE  Counted'
BY CountedAfterTables, CountedAfterFields, CountedAfterLoops DEF VerifierNext

-----------------------------------------------------------------------------
(* The steps keep the bytes, and with them all that is said about bytes.   *)

LEMMA SameNumbers ==
    ASSUME mem' = mem
    PROVE  /\ End' = End
           /\ \A p : Byte(p)' = Byte(p)
           /\ \A p : U16(p)' = U16(p)
           /\ \A p : U32(p)' = U32(p)
           /\ \A p : S32(p)' = S32(p)
           /\ \A p : SizeAt(p)' = SizeAt(p)
           /\ \A p, n : Inside(p, n)' = Inside(p, n)
<1>1. End' = End
  BY DEF End
<1>2. \A p : Byte(p)' = Byte(p)
  BY DEF Byte, End
<1>3. \A p : U16(p)' = U16(p)
  BY <1>2 DEF U16
<1>4. \A p : Low31(p)' = Low31(p)
  BY <1>2, <1>3 DEF Low31
<1>5. \A p : U32(p)' = U32(p)
  BY <1>2, <1>4 DEF U32
<1>6. \A p : S32(p)' = S32(p)
  BY <1>2, <1>4 DEF S32
<1>7. \A p, n : Inside(p, n)' = Inside(p, n)
  BY <1>1 DEF Inside
<1>8. \A p : SizeAt(p)' = SizeAt(p)
  BY <1>2, <1>4 DEF SizeAt
<1> QED BY <1>1, <1>2, <1>3, <1>5, <1>6, <1>7, <1>8

LEMMA SameTables ==
    ASSUME mem' = mem
    PROVE  /\ \A t : VTable(t)' = VTable(t) /\ VTSize(t)' = VTSize(t)
           /\ \A p : Indirect(p)' = Indirect(p)
           /\ \A t, i : /\ FieldOffset(t, i)' = FieldOffset(t, i)
                        /\ Pointer(t, i)' = Pointer(t, i)
                        /\ ByteField(t, i)' = ByteField(t, i)
           /\ \A t : TableSound(t)' = TableSound(t)
           /\ \A v : VectorSound(v)' = VectorSound(v)
           /\ \A v, n : VectorFits(v, n)' = VectorFits(v, n)
           /\ \A s : StringFits(s)' = StringFits(s)
<1>1. \A t : VTable(t)' = VTable(t)
  BY SameNumbers DEF VTable
<1>2. \A t : VTSize(t)' = VTSize(t)
  BY <1>1, SameNumbers DEF VTSize
<1>3. \A p : Indirect(p)' = Indirect(p)
  BY SameNumbers DEF Indirect
<1>4. \A t, i : FieldOffset(t, i)' = FieldOffset(t, i)
  BY <1>1, <1>2, SameNumbers DEF FieldOffset
<1>5. \A t, i : Pointer(t, i)' = Pointer(t, i)
  BY <1>3, <1>4 DEF Pointer
<1>6. \A t, i : ByteField(t, i)' = ByteField(t, i)
  BY <1>4, SameNumbers DEF ByteField
<1>7. \A t : TableSound(t)' = TableSound(t)
  BY <1>1, <1>2, SameNumbers DEF TableSound, VTableFits
<1>8. \A v : VectorSound(v)' = VectorSound(v)
  BY SameNumbers DEF VectorSound
<1>9. \A v, n : VectorFits(v, n)' = VectorFits(v, n)
  BY SameNumbers DEF VectorFits, ByteSize
<1>10. \A s : StringFits(s)' = StringFits(s)
  BY <1>9, SameNumbers DEF StringFits, Behind, ByteSize
<1> QED BY <1>1, <1>2, <1>3, <1>4, <1>5, <1>6, <1>7, <1>8, <1>9, <1>10

LEMMA SameMet ==
    ASSUME mem' = mem
    PROVE  \A c, t, T, i : Met(c, t, T, i)' = Met(c, t, T, i)
<1>1. \A t, T, i : InlineMet(t, T, i)' = InlineMet(t, T, i)
  BY SameTables, SameNumbers DEF InlineMet
<1>2. \A t, T, i : VectorMet(t, T, i)' = VectorMet(t, T, i)
  BY SameTables DEF VectorMet
<1> QED BY <1>1, <1>2 DEF Met

LEMMA SameStack ==
    ASSUME mem' = mem, StackOK(todo')
    PROVE  StackOK(todo)'
<1>1. \A g : Sound(g)' = Sound(g)
  BY SameTables, SameNumbers DEF Sound, FieldGoal
<1>2. \A g, X : Ready(g, X)' = Ready(g, X)
  BY <1>1, SameMet DEF Ready, Needs
<1>3. \A j \in DOMAIN todo' : Ready(todo'[j], {} \cup Before(todo', j))
  BY DEF StackOK, AllReady
<1>4. \A j : Before(todo, j)' = Before(todo', j)
  BY DEF Before
<1> QED BY <1>2, <1>3, <1>4 DEF StackOK, AllReady, Before

-----------------------------------------------------------------------------
(* The verifier at any time.                                               *)

IInv ==
    /\ Bytes8 /\ intact \in BOOLEAN /\ rootType \in DOMAIN Types
    /\ StackOK(todo) /\ Counted
    /\ AllInside(reads)

LEMMA InitReady ==
    ASSUME VerifierAssumption, VerifierInit
    PROVE  IInv /\ Len(todo) = 1 /\ todo[1].check = "buffer"
<1>1. PICK b \in Buffers, cut \in Cuts,
           hits \in {{}} \cup {{f[k] : k \in 1..Hits} : f \in [1..Hits -> Damages]} :
           /\ mem = Damaged(b.bytes, hits, cut)
           /\ intact = (mem = b.bytes) /\ rootType = b.root
           /\ \E asked \in {<<>>, b.ident} :
                 todo = <<Goal("buffer", IF b.prefixed THEN 4 ELSE 0, asked, 0)>>
  BY DEF VerifierInit
<1>2. hits \subseteq Damages
  <2>1. CASE hits = {}
    BY <2>1
  <2>2. CASE hits # {}
    <3>1. PICK f \in [1..Hits -> Damages] : hits = {f[k] : k \in 1..Hits}
      BY <2>2
    <3> QED BY <3>1
  <2> QED BY <2>1, <2>2
<1>3. mem \in Seq(0..255)
  <2> DEFINE n == Len(b.bytes) - cut
  <2>1. b.bytes \in Seq(0..255) /\ cut \in Nat
    BY DEF VerifierAssumption
  <2>2. n \in Int /\ n <= Len(b.bytes)
    BY <2>1
  <2>3. ASSUME NEW p \in 1..n
        PROVE  (IF \E h \in hits : h.at = p
                THEN (CHOOSE h \in hits : h.at = p).byte ELSE b.bytes[p]) \in 0..255
    <3>1. CASE \E h \in hits : h.at = p
      <4>1. (CHOOSE h \in hits : h.at = p) \in Damages
        BY <1>2, <3>1
      <4> QED BY <3>1, <4>1 DEF VerifierAssumption
    <3>2. CASE ~\E h \in hits : h.at = p
      <4>1. p \in 1..Len(b.bytes)
        BY <2>1, <2>2
      <4>2. b.bytes[p] \in 0..255
        BY <2>1, <4>1, ElementOfSeq
      <4> QED BY <3>2, <4>2
    <3> QED BY <3>1, <3>2
  <2>4. \E m \in Nat : 1..n = 1..m
    <3>1. CASE n >= 0
      BY <2>2, <3>1
    <3>2. CASE n < 0
      <4>1. 1..n = 1..0
        BY <2>2, <3>2
      <4> QED BY <4>1
    <3> QED BY <2>2, <3>1, <3>2
  <2>5. mem \in [1..n -> 0..255]
    <3>1. mem = [p \in 1..n |-> IF \E h \in hits : h.at = p
                                THEN (CHOOSE h \in hits : h.at = p).byte ELSE b.bytes[p]]
      BY <1>1 DEF Damaged
    <3> HIDE DEF n
    <3> QED BY <2>3, <3>1
  <2> HIDE DEF n
  <2>6. PICK m \in Nat : 1..n = 1..m
    BY <2>4
  <2>7. mem \in [1..m -> 0..255]
    BY <2>5, <2>6
  <2> QED BY <2>7, SeqDef
<1>4. Bytes8 /\ intact \in BOOLEAN /\ rootType \in DOMAIN Types
  BY <1>1, <1>3 DEF Bytes8, VerifierAssumption
<1>5. PICK asked \in {<<>>, b.ident} :
         todo = <<Goal("buffer", IF b.prefixed THEN 4 ELSE 0, asked, 0)>>
  BY <1>1
<1> DEFINE g == Goal("buffer", IF b.prefixed THEN 4 ELSE 0, asked, 0)
<1>6. g \in Goals /\ g.check = "buffer" /\ g.at \in {0, 4}
  BY <1>5 DEF Goal, Goals, Null, Checks
<1> HIDE DEF g
<1>7. Ready(g, {})
  BY <1>6 DEF Ready, Sound, Needs, OfFields, Loops, Many
<1>8. StackOK(<<g>>) /\ todo = <<g>>
  BY <1>5, <1>6, <1>7, ReadyOne DEF StackOK, g
<1>9. Nesting(<<g>>) = 0
  BY <1>6, NestingOne
<1>10. Counted /\ AllInside(reads)
  <2>1. /\ depth = 0 /\ tables = 0 /\ verdict = "checking" /\ reads = {}
        /\ MaxDepth \in Nat /\ MaxTables \in Nat
    BY DEF VerifierInit, VerifierAssumption
  <2>2. todo # <<>>
    BY <1>8
  <2> QED BY <1>8, <1>9, <2>1, <2>2 DEF Counted, AllInside
<1>11. Len(todo) = 1 /\ todo[1] = g
  BY <1>8
<1> QED BY <1>4, <1>6, <1>8, <1>10, <1>11 DEF IInv

\* A step is made while there is work.
LEMMA StepWorks ==
    ASSUME VerifierAssumption, IInv, VerifierNext
    PROVE  Working
<1>1. verdict = "checking"
  BY DEF VerifierNext, VerifyBuffer, VerifyTableStart, VerifyFields, LeaveTable, VerifyField,
         VerifyTable, VerifyVector, VerifyString, OpenVector, VerifyEachString,
         VerifyEachTable, VerifyUnion, VerifyUnions, VerifyEachUnion, Turn
<1> QED BY <1>1 DEF IInv, Counted, Working, StackOK

LEMMA StepKeepsReady ==
    ASSUME VerifierAssumption, IInv, [VerifierNext]_verifierVars
    PROVE  IInv'
<1>1. CASE VerifierNext
  <2>1. Working
    BY <1>1, StepWorks
  <2>2. UNCHANGED <<mem, intact, rootType>> /\ StackOK(todo') /\ AllInside(reads')
    BY <1>1, <2>1, StepStack, StepReads
  <2>3. StackOK(todo)'
    BY <2>2, SameStack
  <2>4. AllInside(reads)'
    BY <2>2, SameNumbers DEF AllInside
  <2>5. Counted'
    BY <1>1, <2>1, StepCounted DEF IInv
  <2> QED BY <2>2, <2>3, <2>4, <2>5 DEF IInv, Bytes8
<1>2. CASE UNCHANGED verifierVars
  <2>1. UNCHANGED <<mem, intact, rootType, todo, depth, tables, verdict, reads>>
    BY <1>2 DEF verifierVars
  <2>2. StackOK(todo)'
    BY <2>1, SameStack DEF IInv
  <2>3. AllInside(reads)'
    BY <2>1, SameNumbers DEF IInv, AllInside
  <2>4. Counted'
    BY <2>1 DEF IInv, Counted, Nesting, Entered
  <2> QED BY <2>1, <2>2, <2>3, <2>4 DEF IInv, Bytes8
<1> QED BY <1>1, <1>2

\* The verifier's state is what VerifierTypeOK says: verdict and stack agree, and the
\* counters are within their limits but for the table that exceeds them.
THEOREM VerifierTypes ==
    ASSUME VerifierAssumption
    PROVE  VerifierSpec => []VerifierTypeOK
<1>1. VerifierInit => IInv
  BY InitReady
<1>2. IInv /\ [VerifierNext]_verifierVars => IInv'
  BY StepKeepsReady
<1>3. IInv => VerifierTypeOK
  BY DEF IInv, Counted, VerifierTypeOK, Bytes8
<1> QED BY <1>1, <1>2, <1>3, PTL DEF VerifierSpec

\* No check reads a byte that no earlier check has found in the buffer.
THEOREM VerifierReadsInside ==
    ASSUME VerifierAssumption
    PROVE  VerifierSpec => []ReadsInside
<1>1. VerifierInit => IInv
  BY InitReady
<1>2. IInv /\ [VerifierNext]_verifierVars => IInv'
  BY StepKeepsReady
<1>3. IInv => ReadsInside
  BY DEF IInv, AllInside, ReadsInside
<1> QED BY <1>1, <1>2, <1>3, PTL DEF VerifierSpec

-----------------------------------------------------------------------------
(* What a reader asks of the tables entered, `seen`, and of those to be    *)
(* entered: it has been checked, or a check that is `waiting` will see to  *)
(* it.                                                                     *)

Waiting(s) == {s[j] : j \in DOMAIN s}

Known(seen, waiting) ==
    seen \cup {<<g.at, g.type>> : g \in {g \in waiting : g.check = "start"}}

\* The loop over the elements of a vector, from the element k on.
Loop(t, T, i, k) ==
    IF Kind(T, i) = "strings" THEN Goal("eachString", Pointer(t, i), Types[T][i].of, k)
    ELSE IF Kind(T, i) = "tables" THEN Goal("eachTable", Pointer(t, i), Types[T][i].of, k)
    ELSE [Goal("eachUnion", Pointer(t, i), T, k) EXCEPT !.with = Pointer(t, i - 1)]

MemberKnown(type, p, known) ==
    TypeKnown(type) /\ (type # 0 => <<p, Members[type]>> \in known)

ElementDone(t, T, i, n, known) ==
    LET target == Indirect(Element(Pointer(t, i), n, 4))
    IN  /\ Kind(T, i) = "strings" => StringFits(target)
        /\ Kind(T, i) = "tables"  => <<target, Types[T][i].of>> \in known
        /\ Kind(T, i) = "unions"  =>
              MemberKnown(Byte(Element(Pointer(t, i - 1), n, 1)), target, known)

Opened(t, T, i) ==
    /\ Pointer(t, i) # Null
    /\ Kind(T, i) = "unions" =>
          Pointer(t, i - 1) # Null /\ SameCount(Pointer(t, i), Pointer(t, i - 1))

LoopDone(t, T, i, n, known) ==
    Opened(t, T, i) /\ \A m \in 1..n : ElementDone(t, T, i, m, known)

Done(c, t, T, i, known) ==
    LET p    == Pointer(t, i)
        type == ByteField(t, i - 1)
    IN  /\ Met(c, t, T, i)
        /\ c = "string" => p = Null \/ StringFits(p)
        /\ c = "table"  => p = Null \/ <<p, Types[T][i].of>> \in known
        /\ c = "union"  => TypeKnown(type) /\ (p = Null \/ MemberKnown(type, p, known))
        /\ c \in Many   => (p = Null /\ c # "unions") \/ LoopDone(t, T, i, U32(p), known)

Settled(c, t, T, i, waiting, known) ==
    \/ Done(c, t, T, i, known)
    \/ Goal(c, t, T, i) \in waiting
    \/ c \in Many /\ \E n \in Nat : Loop(t, T, i, n + 1) \in waiting
                                    /\ LoopDone(t, T, i, n, known)

FieldCovered(t, T, i, waiting, known) ==
    \/ \A c \in Chain(Kind(T, i)) : Settled(c, t, T, i, waiting, known)
    \/ \E k \in 1..i : Goal("fields", t, T, k) \in waiting

TableCovered(t, T, waiting, known) ==
    /\ TableSound(t)
    /\ \A i \in DOMAIN Types[T] : FieldCovered(t, T, i, waiting, known)

Covered(seen, waiting) ==
    /\ seen \subseteq AnyTable
    /\ \A x \in seen : TableCovered(x[1], x[2], waiting, Known(seen, waiting))
    /\ \/ \E g \in waiting : g.check = "buffer"
       \/ \E start \in {0, 4} :
             Inside(start, 4) /\ <<Indirect(start), rootType>> \in Known(seen, waiting)

-----------------------------------------------------------------------------
(* What is covered stays so.                                               *)

LEMMA WaitingConcat ==
    ASSUME NEW S, NEW a \in Seq(S), NEW b \in Seq(S)
    PROVE  Waiting(a \o b) = Waiting(a) \cup Waiting(b)
<1> DEFINE n == Len(a)
           s == a \o b
<1>1. /\ n \in Nat /\ Len(b) \in Nat /\ DOMAIN a = 1..n /\ DOMAIN b = 1..Len(b)
      /\ DOMAIN s = 1..(n + Len(b))
      /\ \A j \in 1..n : s[j] = a[j]
      /\ \A j \in 1..Len(b) : s[n + j] = b[j]
  OBVIOUS
<1> HIDE DEF n, s
<1>2. ASSUME NEW j \in DOMAIN s PROVE s[j] \in Waiting(a) \cup Waiting(b)
  <2>1. CASE j <= n
    BY <1>1, <2>1 DEF Waiting
  <2>2. CASE j > n
    <3>1. j - n \in 1..Len(b) /\ j = n + (j - n)
      BY <1>1, <2>2
    <3>2. s[j] = b[j - n]
      BY <1>1, <3>1
    <3> QED BY <1>1, <3>1, <3>2 DEF Waiting
  <2> QED BY <1>1, <2>1, <2>2
<1>3. ASSUME NEW j \in DOMAIN a PROVE a[j] \in Waiting(s)
  <2>1. j \in DOMAIN s /\ s[j] = a[j]
    BY <1>1
  <2> QED BY <2>1 DEF Waiting
<1>4. ASSUME NEW j \in DOMAIN b PROVE b[j] \in Waiting(s)
  <2>1. n + j \in DOMAIN s /\ s[n + j] = b[j]
    BY <1>1
  <2> QED BY <2>1 DEF Waiting
<1> QED BY <1>2, <1>3, <1>4 DEF Waiting, s

LEMMA WaitingStep ==
    ASSUME Working, NEW goals \in Seq(Goals)
    PROVE  /\ Waiting(todo) = {G} \cup Waiting(Tail(todo))
           /\ Waiting(goals \o Tail(todo)) = Waiting(goals) \cup Waiting(Tail(todo))
<1> DEFINE rest == Tail(todo)
           first == <<G>>
<1>1. G \in Goals /\ rest \in Seq(Goals) /\ todo \in Seq(Goals) /\ todo # <<>>
  BY HeadReady DEF Working
<1>2. todo = first \o rest /\ first \in Seq(Goals)
  BY <1>1 DEF G
<1>3. Waiting(first) = {G}
  BY DEF Waiting
<1> HIDE DEF rest, first
<1>4. /\ Waiting(first \o rest) = Waiting(first) \cup Waiting(rest)
      /\ Waiting(goals \o rest) = Waiting(goals) \cup Waiting(rest)
  BY <1>1, <1>2, WaitingConcat
<1> QED BY <1>2, <1>3, <1>4 DEF rest

LEMMA DoneStays ==
    ASSUME NEW known, NEW more, known \subseteq more, NEW c, NEW t, NEW T, NEW i
    PROVE  /\ Done(c, t, T, i, known) => Done(c, t, T, i, more)
           /\ \A n : LoopDone(t, T, i, n, known) => LoopDone(t, T, i, n, more)
<1>1. \A type, p : MemberKnown(type, p, known) => MemberKnown(type, p, more)
  BY DEF MemberKnown
<1>2. \A n : ElementDone(t, T, i, n, known) => ElementDone(t, T, i, n, more)
  BY <1>1 DEF ElementDone
<1>3. \A n : LoopDone(t, T, i, n, known) => LoopDone(t, T, i, n, more)
  BY <1>2 DEF LoopDone
<1> QED BY <1>1, <1>3 DEF Done

\* A step that replaces the check g by those in `fresh` keeps a field covered if
\* the fresh ones and what is done make up for g.
MadeUp(g, waiting, known) ==
    /\ \A t, T, i : \A c \in OfFields :
          g = Goal(c, t, T, i) => Settled(c, t, T, i, waiting, known)
    /\ \A t, T, i : \A n \in Nat :
          Kind(T, i) \in Many /\ g = Loop(t, T, i, n + 1) /\ LoopDone(t, T, i, n, known)
             => Settled(Kind(T, i), t, T, i, waiting, known)
    /\ \A t, T : \A i \in DOMAIN Types[T] : \A k \in 1..i :
          g = Goal("fields", t, T, k) => FieldCovered(t, T, i, waiting, known)

LEMMA FieldStaysCovered ==
    ASSUME VerifierAssumption, NEW g, NEW rest, NEW fresh, NEW known, NEW more, known \subseteq more,
           MadeUp(g, fresh \cup rest, more),
           NEW t, NEW T \in DOMAIN Types, NEW i \in DOMAIN Types[T],
           FieldCovered(t, T, i, {g} \cup rest, known)
    PROVE  FieldCovered(t, T, i, fresh \cup rest, more)
<1>1. Types[T] \in Seq(Fields)
  BY DEF VerifierAssumption
<1>2. Kind(T, i) \in FieldKinds
  <2>1. Types[T][i] \in Fields
    BY <1>1
  <2> QED BY <2>1 DEF Kind, Fields
<1>3. CASE \E k \in 1..i : Goal("fields", t, T, k) \in {g} \cup rest
  <2>1. PICK k \in 1..i : Goal("fields", t, T, k) \in {g} \cup rest
    BY <1>3
  <2>2. CASE Goal("fields", t, T, k) = g
    BY <2>2 DEF MadeUp
  <2>3. CASE Goal("fields", t, T, k) \in rest
    BY <2>3 DEF FieldCovered
  <2> QED BY <2>1, <2>2, <2>3
<1>4. CASE \A c \in Chain(Kind(T, i)) : Settled(c, t, T, i, {g} \cup rest, known)
  <2> SUFFICES ASSUME NEW c \in Chain(Kind(T, i))
               PROVE  Settled(c, t, T, i, fresh \cup rest, more)
    BY DEF FieldCovered
  <2>1. c \in OfFields /\ (c \in Many => c = Kind(T, i))
    BY <1>2 DEF Chain, FieldKinds, OfFields, Many
  <2>2. Settled(c, t, T, i, {g} \cup rest, known)
    BY <1>4
  <2>3. CASE Done(c, t, T, i, known)
    BY <2>3, DoneStays DEF Settled
  <2>4. CASE Goal(c, t, T, i) \in {g} \cup rest
    <3>1. CASE Goal(c, t, T, i) = g
      BY <2>1, <3>1 DEF MadeUp
    <3>2. CASE Goal(c, t, T, i) \in rest
      BY <3>2 DEF Settled
    <3> QED BY <2>4, <3>1, <3>2
  <2>5. CASE c \in Many /\ \E n \in Nat : /\ Loop(t, T, i, n + 1) \in {g} \cup rest
                                          /\ LoopDone(t, T, i, n, known)
    <3>1. PICK n \in Nat : Loop(t, T, i, n + 1) \in {g} \cup rest /\ LoopDone(t, T, i, n, known)
      BY <2>5
    <3>2. LoopDone(t, T, i, n, more)
      BY <3>1, DoneStays
    <3>3. CASE Loop(t, T, i, n + 1) = g
      BY <2>1, <2>5, <3>2, <3>3 DEF MadeUp
    <3>4. CASE Loop(t, T, i, n + 1) \in rest
      BY <2>5, <3>2, <3>4 DEF Settled
    <3> QED BY <3>1, <3>3, <3>4
  <2> QED BY <2>2, <2>3, <2>4, <2>5 DEF Settled
<1> QED BY <1>3, <1>4 DEF FieldCovered

\* The parts of a loop.
LEMMA LoopParts ==
    ASSUME NEW t, NEW T, NEW i, NEW n \in Nat, Kind(T, i) \in Many, NEW g,
           g = Loop(t, T, i, n + 1)
    PROVE  /\ g.at = Pointer(t, i) /\ g.k = n + 1 /\ g.check \in Loops
           /\ [g EXCEPT !.k = @ + 1] = Loop(t, T, i, (n + 1) + 1)
           /\ g.check = "eachString" <=> Kind(T, i) = "strings"
           /\ g.check = "eachTable" <=> Kind(T, i) = "tables"
           /\ g.check = "eachUnion" <=> Kind(T, i) = "unions"
           /\ Kind(T, i) = "tables" => g.type = Types[T][i].of
           /\ Kind(T, i) = "unions" => g.with = Pointer(t, i - 1)
BY DEF Loop, Goal, Loops, Many

LEMMA FieldMadeUp ==
    ASSUME G.check \in OfFields, NEW waiting, NEW known,
           Settled(G.check, G.at, G.type, G.k, waiting, known)
    PROVE  MadeUp(G, waiting, known)
<1>1. ASSUME NEW t, NEW T, NEW i, NEW c \in OfFields, G = Goal(c, t, T, i)
      PROVE  Settled(c, t, T, i, waiting, known)
  <2>1. G.check = c /\ G.at = t /\ G.type = T /\ G.k = i
    BY <1>1 DEF Goal
  <2> QED BY <2>1
<1>2. ASSUME NEW t, NEW T, NEW i, NEW n \in Nat, Kind(T, i) \in Many, G = Loop(t, T, i, n + 1)
      PROVE  FALSE
  <2>1. G.check \in Loops
    BY <1>2, LoopParts
  <2> QED BY <2>1 DEF Loops, OfFields
<1>3. ASSUME NEW t, NEW T, NEW k, G = Goal("fields", t, T, k)
      PROVE  FALSE
  <2>1. G.check = "fields"
    BY <1>3 DEF Goal
  <2> QED BY <2>1 DEF OfFields
<1> QED BY <1>1, <1>2, <1>3 DEF MadeUp

LEMMA LoopMadeUp ==
    ASSUME Working, G.check \in Loops, NEW waiting, NEW known,
           \/ ~(G.k <= U32(G.at))
           \/ /\ Again \in waiting
              /\ G.check = "eachString" => StringFits(Referred)
              /\ G.check = "eachTable"  => <<Referred, G.type>> \in known
              /\ G.check = "eachUnion"  => MemberKnown(ElementType, Referred, known)
    PROVE  MadeUp(G, waiting, known)
<1>1. ASSUME NEW t, NEW T, NEW i, NEW n \in Nat, Kind(T, i) \in Many,
             G = Loop(t, T, i, n + 1), LoopDone(t, T, i, n, known)
      PROVE  Settled(Kind(T, i), t, T, i, waiting, known)
  <2> DEFINE p == Pointer(t, i)
  <2>1. /\ G.at = p /\ G.k = n + 1
        /\ Again = Loop(t, T, i, (n + 1) + 1)
        /\ G.check = "eachString" <=> Kind(T, i) = "strings"
        /\ G.check = "eachTable" <=> Kind(T, i) = "tables"
        /\ G.check = "eachUnion" <=> Kind(T, i) = "unions"
        /\ Kind(T, i) = "tables" => G.type = Types[T][i].of
        /\ Kind(T, i) = "unions" => G.with = Pointer(t, i - 1)
    <3> HIDE DEF G
    <3> QED BY <1>1, LoopParts DEF Again
  <2>2. p \in Int /\ U32(p) \in Nat
    BY <2>1, LoopTurn, NumberTypes DEF Working
  <2> HIDE DEF p
  <2>3. CASE ~(G.k <= U32(G.at))
    <3>1. U32(p) <= n
      BY <2>1, <2>2, <2>3
    <3>2. LoopDone(t, T, i, U32(p), known)
      BY <1>1, <2>2, <3>1 DEF LoopDone
    <3>3. Done(Kind(T, i), t, T, i, known)
      BY <1>1, <3>2 DEF Done, Met, Many, p
    <3> QED BY <3>3 DEF Settled
  <2>4. CASE /\ Again \in waiting
             /\ G.check = "eachString" => StringFits(Referred)
             /\ G.check = "eachTable"  => <<Referred, G.type>> \in known
             /\ G.check = "eachUnion"  => MemberKnown(ElementType, Referred, known)
    <3>1. Referred = Indirect(Element(p, n + 1, 4))
      BY <2>1 DEF Referred
    <3>2. ElementDone(t, T, i, n + 1, known)
      BY <2>1, <2>4, <3>1 DEF ElementDone, ElementType, p
    <3>3. LoopDone(t, T, i, n + 1, known)
      <4>1. 1..(n + 1) = 1..n \cup {n + 1}
        OBVIOUS
      <4> QED BY <1>1, <3>2, <4>1 DEF LoopDone
    <3>4. n + 1 \in Nat /\ Loop(t, T, i, (n + 1) + 1) \in waiting
      BY <2>1, <2>4
    <3> QED BY <1>1, <3>3, <3>4 DEF Settled
  <2> QED BY <2>3, <2>4
<1>2. ASSUME NEW t, NEW T, NEW i, NEW c \in OfFields, G = Goal(c, t, T, i)
      PROVE  FALSE
  <2>1. G.check = c
    BY <1>2 DEF Goal
  <2> QED BY <1>2, <2>1 DEF Loops, OfFields
<1>3. ASSUME NEW t, NEW T, NEW k, G = Goal("fields", t, T, k)
      PROVE  FALSE
  <2>1. G.check = "fields"
    BY <1>3 DEF Goal
  <2> QED BY <2>1 DEF Loops
<1> QED BY <1>1, <1>2, <1>3 DEF MadeUp

LEMMA KnownGrows ==
    ASSUME NEW seen, NEW more, NEW g, NEW rest, NEW fresh, seen \subseteq more,
           g.check = "start" => <<g.at, g.type>> \in more
    PROVE  Known(seen, {g} \cup rest) \subseteq Known(more, fresh \cup rest)
BY DEF Known

\* A step that makes up for the check it has made leaves what was covered covered.
LEMMA CoveredStep ==
    ASSUME Working, NEW goals \in Seq(Goals), NEW seen, NEW entered,
           Covered(seen, Waiting(todo)), G.check # "buffer",
           G.check = "start" => <<G.at, G.type>> \in entered,
           entered \subseteq AnyTable,
           LET waiting == Waiting(goals \o Tail(todo))
               known   == Known(seen \cup entered, waiting)
           IN  /\ MadeUp(G, waiting, known)
               /\ \A x \in entered : TableCovered(x[1], x[2], waiting, known)
    PROVE  Covered(seen \cup entered, Waiting(goals \o Tail(todo)))
<1> DEFINE waiting == Waiting(goals \o Tail(todo))
           rest    == Waiting(Tail(todo))
           fresh   == Waiting(goals)
           known   == Known(seen \cup entered, waiting)
           before  == Known(seen, Waiting(todo))
<1>1. Waiting(todo) = {G} \cup rest /\ waiting = fresh \cup rest
  BY WaitingStep
<1>2. MadeUp(G, waiting, known) /\ \A x \in entered : TableCovered(x[1], x[2], waiting, known)
  OBVIOUS
<1> HIDE DEF waiting, rest, fresh
<1>3. before \subseteq known
  BY <1>1, KnownGrows
<1> HIDE DEF known, before
<1>4. ASSUME NEW x \in seen PROVE TableCovered(x[1], x[2], waiting, known)
  <2>1. TableCovered(x[1], x[2], Waiting(todo), before) /\ x[2] \in DOMAIN Types
    BY DEF Covered, AnyTable, before
  <2>2. ASSUME NEW i \in DOMAIN Types[x[2]] PROVE FieldCovered(x[1], x[2], i, waiting, known)
    <3>1. FieldCovered(x[1], x[2], i, {G} \cup rest, before)
      BY <1>1, <2>1 DEF TableCovered
    <3>2. MadeUp(G, fresh \cup rest, known) /\ VerifierAssumption
      BY <1>1, <1>2 DEF Working
    <3> DEFINE t == x[1]
               T == x[2]
    <3>3. T \in DOMAIN Types /\ i \in DOMAIN Types[T] /\ FieldCovered(t, T, i, {G} \cup rest, before)
      BY <2>1, <3>1
    <3> HIDE DEF t, T
    <3>4. FieldCovered(t, T, i, fresh \cup rest, known)
      BY <1>3, <3>2, <3>3, FieldStaysCovered
    <3> QED BY <1>1, <3>4 DEF t, T
  <2> QED BY <2>1, <2>2 DEF TableCovered
<1>5. \/ \E g \in waiting : g.check = "buffer"
      \/ \E start \in {0, 4} : Inside(start, 4) /\ <<Indirect(start), rootType>> \in known
  <2>1. CASE \E g \in Waiting(todo) : g.check = "buffer"
    BY <1>1, <2>1
  <2>2. CASE \E start \in {0, 4} : Inside(start, 4) /\ <<Indirect(start), rootType>> \in before
    BY <1>3, <2>2
  <2> QED BY <2>1, <2>2 DEF Covered, before
<1>6. seen \cup entered \subseteq AnyTable
  BY DEF Covered
<1>7. \A x \in seen \cup entered : TableCovered(x[1], x[2], waiting, known)
  BY <1>2, <1>4
<1>8. Covered(seen \cup entered, waiting)
  BY <1>5, <1>6, <1>7 DEF Covered, known
<1> QED BY <1>8 DEF waiting

LEMMA WaitingShort ==
    ASSUME NEW a, NEW b
    PROVE  /\ Waiting(<<>>) = {} /\ Waiting(<<a>>) = {a} /\ Waiting(<<a, b>>) = {a, b}
BY ShortImages DEF Waiting

LEMMA StartKnown ==
    ASSUME NEW seen, NEW waiting, NEW p, NEW T, Goal("start", p, T, 0) \in waiting
    PROVE  <<p, T>> \in Known(seen, waiting)
<1> DEFINE g == Goal("start", p, T, 0)
<1>1. g.check = "start" /\ g.at = p /\ g.type = T
  BY DEF Goal
<1> HIDE DEF g
<1>2. g \in waiting
  BY DEF g
<1>3. <<g.at, g.type>> \in Known(seen, waiting)
  BY <1>1, <1>2 DEF Known
<1> QED BY <1>1, <1>3

LEMMA CoveredAfterCheck ==
    ASSUME Working, NEW seen, Covered(seen, Waiting(todo)), NEW ok, NEW goals \in Seq(Goals),
           NEW touched, CheckThat(ok, goals, touched), verdict' # "refused",
           G.check \notin {"start", "buffer"},
           ASSUME ok, NEW waiting, Waiting(goals) \subseteq waiting
           PROVE  MadeUp(G, waiting, Known(seen, waiting))
    PROVE  Covered(seen, Waiting(todo'))
<1> DEFINE waiting == Waiting(goals \o Tail(todo))
<1>1. ok /\ todo' = goals \o Tail(todo)
  BY ChecksOutcome
<1>2. Waiting(goals) \subseteq waiting
  BY WaitingStep
<1>3. MadeUp(G, waiting, Known(seen, waiting))
  <2> HIDE DEF waiting
  <2> QED BY <1>1, <1>2
<1>4. Covered(seen \cup {}, waiting)
  <2>1. seen \cup {} = seen
    OBVIOUS
  <2> QED BY <1>3, <2>1, CoveredStep
<1>5. seen \cup {} = seen
  OBVIOUS
<1> QED BY <1>1, <1>4, <1>5

LEMMA CoveredAfterField ==
    ASSUME Working, NEW seen, Covered(seen, Waiting(todo)), NEW ok, NEW goals \in Seq(Goals),
           NEW touched, CheckThat(ok, goals, touched), verdict' # "refused",
           G.check \in OfFields,
           ASSUME ok, NEW waiting, Waiting(goals) \subseteq waiting
           PROVE  Settled(G.check, G.at, G.type, G.k, waiting, Known(seen, waiting))
    PROVE  Covered(seen, Waiting(todo'))
<1>1. G.check \notin {"start", "buffer"}
  BY DEF OfFields
<1>2. ASSUME ok, NEW waiting, Waiting(goals) \subseteq waiting
      PROVE  MadeUp(G, waiting, Known(seen, waiting))
  BY <1>2, FieldMadeUp
<1> QED BY <1>1, <1>2, CoveredAfterCheck

LEMMA CoveredAfterFields ==
    ASSUME Working, NEW seen, Covered(seen, Waiting(todo)),
           verdict' \in {"checking", "accepted"},
           \/ VerifyField \/ VerifyTable \/ VerifyVector \/ VerifyString \/ VerifyUnion
           \/ OpenVector("strings", "eachString") \/ OpenVector("tables", "eachTable")
           \/ VerifyUnions
    PROVE  Covered(seen, Waiting(todo'))
<1> USE DEF Turn
<1> DEFINE t == G.at
           T == G.type
           i == G.k
           p == Pointer(t, i)
           f == Types[T][i]
<1>1. G.check \in OfFields /\ verdict' # "refused"
  BY DEF VerifyField, VerifyTable, VerifyVector, VerifyString, VerifyUnion, OpenVector,
         VerifyUnions, OfFields
<1>2. /\ Bytes8 /\ VerifierAssumption /\ p \in Int /\ Fld.of \in DOMAIN Types
      /\ t \in Int /\ t >= 0 /\ T \in DOMAIN Types /\ Fld = f /\ i \in Nat
      /\ G.check \notin {"inline", "vector"} => Kind(T, i) = G.check
  BY <1>1, FieldTurn, FieldTypes DEF Working, Fields, Kind
<1>3. <<>> \in Seq(Goals)
  OBVIOUS
<1>4. CASE VerifyField
  <2> DEFINE off == FieldOffset(t, i)
             ok  == IF off = 0 THEN ~Fld.required ELSE Inside(t + off, InlineSize(Fld))
  <2>1. CheckThat(ok, <<>>, OffsetReads(t, i)) /\ G.check = "inline"
    BY <1>4 DEF VerifyField
  <2>2. ok => Met("inline", t, T, i)
    BY <1>2 DEF Met, InlineMet
  <2> HIDE DEF ok
  <2>3. ASSUME ok, NEW waiting PROVE Settled("inline", t, T, i, waiting, Known(seen, waiting))
    BY <2>2, <2>3 DEF Settled, Done, Many
  <2> QED BY <1>1, <1>3, <2>1, <2>3, CoveredAfterField
<1>5. CASE VerifyVector
  <2> DEFINE ok == p = Null \/ VectorFits(p, Fld.size)
  <2>1. CheckThat(ok, <<>>, PointerReads(t, i) \cup LengthReads(p)) /\ G.check = "vector"
    BY <1>5 DEF VerifyVector
  <2>2. ok => Met("vector", t, T, i)
    BY <1>2 DEF Met, VectorMet
  <2> HIDE DEF ok
  <2>3. ASSUME ok, NEW waiting PROVE Settled("vector", t, T, i, waiting, Known(seen, waiting))
    BY <2>2, <2>3 DEF Settled, Done, Many
  <2> QED BY <1>1, <1>3, <2>1, <2>3, CoveredAfterField
<1>6. CASE VerifyString
  <2> DEFINE ok == p = Null \/ StringFits(p)
  <2>1. CheckThat(ok, <<>>, PointerReads(t, i) \cup StringReads(p)) /\ G.check = "string"
    BY <1>6 DEF VerifyString
  <2>2. ASSUME ok, NEW waiting PROVE Settled("string", t, T, i, waiting, Known(seen, waiting))
    BY <2>2 DEF Settled, Done, Met, Many
  <2> HIDE DEF ok
  <2> QED BY <1>1, <1>3, <2>1, <2>2, CoveredAfterField
<1>7. CASE VerifyTable
  <2> DEFINE g == Goal("start", p, Fld.of, 0)
             goals == IF p = Null THEN <<>> ELSE <<g>>
  <2>1. CheckThat(TRUE, goals, PointerReads(t, i)) /\ G.check = "table"
    BY <1>7 DEF VerifyTable
  <2>2. goals \in Seq(Goals)
    BY <1>2, <1>3, StartReady
  <2>3. ASSUME NEW waiting, Waiting(goals) \subseteq waiting
        PROVE  Settled("table", t, T, i, waiting, Known(seen, waiting))
    <3>1. CASE p = Null
      BY <3>1 DEF Settled, Done, Met, Many
    <3>2. CASE p # Null
      <4>1. Waiting(<<g>>) = {g}
        <5> HIDE DEF g
        <5> QED BY WaitingShort
      <4>2. g \in waiting
        <5> HIDE DEF g, p
        <5> QED BY <2>3, <3>2, <4>1
      <4>3. <<p, f.of>> \in Known(seen, waiting)
        BY <1>2, <4>2, StartKnown
      <4> QED BY <4>3 DEF Settled, Done, Met, Many
    <3> QED BY <3>1, <3>2
  <2> HIDE DEF goals
  <2> QED BY <1>1, <2>1, <2>2, <2>3, CoveredAfterField
<1>8. ASSUME NEW kind, NEW loop, OpenVector(kind, loop),
             <<kind, loop>> \in {<<"strings", "eachString">>, <<"tables", "eachTable">>}
      PROVE  Covered(seen, Waiting(todo'))
  <2> DEFINE g == Goal(loop, p, Fld.of, 1)
             goals == IF p = Null THEN <<>> ELSE <<g>>
  <2>1. /\ CheckThat(TRUE, goals, PointerReads(t, i))
        /\ G.check = kind /\ kind \in Many /\ kind # "unions" /\ loop \in Checks
    BY <1>8 DEF OpenVector, Many, Checks, Loops
  <2>2. goals \in Seq(Goals)
    <3>1. g \in Goals
      <4> HIDE DEF p
      <4> QED BY <1>2, <2>1 DEF Goal, Goals, Null
    <3> HIDE DEF g
    <3> QED BY <3>1
  <2>3. ASSUME NEW waiting, Waiting(goals) \subseteq waiting
        PROVE  Settled(kind, t, T, i, waiting, Known(seen, waiting))
    <3>1. CASE p = Null
      BY <2>1, <3>1 DEF Settled, Done, Met, Many
    <3>2. CASE p # Null
      <4>1. Waiting(<<g>>) = {g}
        <5> HIDE DEF g
        <5> QED BY WaitingShort
      <4>2. g \in waiting
        <5> HIDE DEF g, p
        <5> QED BY <2>3, <3>2, <4>1
      <4>3. Kind(T, i) = kind
        BY <1>2, <2>1 DEF Many
      <4>4. Loop(t, T, i, 0 + 1) = g
        BY <1>2, <1>8, <4>3 DEF Loop
      <4>5. LoopDone(t, T, i, 0, Known(seen, waiting))
        <5>1. Opened(t, T, i)
          BY <2>1, <3>2, <4>3 DEF Opened
        <5> QED BY <5>1 DEF LoopDone
      <4> HIDE DEF g, p
      <4> QED BY <2>1, <4>2, <4>4, <4>5 DEF Settled
    <3> QED BY <3>1, <3>2
  <2> HIDE DEF goals
  <2> QED BY <1>1, <2>1, <2>2, <2>3, CoveredAfterField
<1>9. CASE VerifyUnion
  <2> DEFINE type == ByteField(t, i - 1)
             goals == MemberGoals(type, p)
  <2>1. /\ CheckThat(TypeKnown(type), goals, PointerReads(t, i) \cup ByteFieldReads(t, i - 1))
        /\ G.check = "union" /\ i - 1 \in Nat
    BY <1>1, <1>9, FieldTurn DEF VerifyUnion
  <2>2. type \in 0..255
    <3>1. FieldOffset(t, i - 1) \in Nat
      BY <1>2, <2>1, FieldTypes
    <3>2. t + FieldOffset(t, i - 1) \in Int
      BY <1>2, <3>1
    <3> QED BY <1>2, <3>2, ByteType DEF ByteField
  <2>3. goals \in Seq(Goals)
    BY <1>2, <2>2, MemberReady
  <2>4. ASSUME TypeKnown(type), NEW waiting, Waiting(goals) \subseteq waiting
        PROVE  Settled("union", t, T, i, waiting, Known(seen, waiting))
    <3>1. ASSUME p # Null, type # 0
          PROVE  <<p, Members[type]>> \in Known(seen, waiting)
      <4> DEFINE g == Goal("start", p, Members[type], 0)
      <4>1. goals = <<g>>
        BY <2>4, <3>1 DEF MemberGoals, TypeKnown
      <4>2. Waiting(<<g>>) = {g}
        <5> HIDE DEF g
        <5> QED BY WaitingShort
      <4>3. g \in waiting
        BY <2>4, <4>1, <4>2
      <4> QED BY <4>3, StartKnown
    <3> QED BY <2>4, <3>1 DEF Settled, Done, Met, MemberKnown, Many
  <2> HIDE DEF goals, type
  <2> QED BY <1>1, <2>1, <2>3, <2>4, CoveredAfterField
<1>10. CASE VerifyUnions
  <2> DEFINE types == Pointer(t, i - 1)
             g == [Goal("eachUnion", p, T, 1) EXCEPT !.with = types]
             offsets == PointerReads(t, i) \cup PointerReads(t, i - 1)
  <2>1. CASE Null \in {p, types}
    BY <1>10, <2>1 DEF VerifyUnions
  <2>2. CASE Null \notin {p, types}
    <3>1. /\ CheckThat(SameCount(p, types), <<g>>, offsets \cup {Bytes(p, 4), Bytes(types, 4)})
          /\ G.check = "unions" /\ i - 1 \in Nat
      BY <1>1, <1>10, <2>2, FieldTurn DEF VerifyUnions
    <3>2. types \in Int
      BY <1>2, <3>1, FieldTypes
    <3>3. <<g>> \in Seq(Goals)
      <4>1. g \in Goals
        <5> HIDE DEF p, types
        <5> QED BY <1>2, <3>2 DEF Goal, Goals, Checks, Loops
      <4> HIDE DEF g
      <4> QED BY <4>1
    <3>4. ASSUME SameCount(p, types), NEW waiting, Waiting(<<g>>) \subseteq waiting
          PROVE  Settled("unions", t, T, i, waiting, Known(seen, waiting))
      <4>1. Waiting(<<g>>) = {g}
        <5> HIDE DEF g
        <5> QED BY WaitingShort
      <4>2. g \in waiting
        BY <3>4, <4>1
      <4>3. Kind(T, i) = "unions"
        BY <1>2, <3>1
      <4>4. Loop(t, T, i, 0 + 1) = g
        BY <4>3 DEF Loop
      <4>5. LoopDone(t, T, i, 0, Known(seen, waiting))
        <5>1. Opened(t, T, i)
          BY <2>2, <3>4, <4>3 DEF Opened
        <5> QED BY <5>1 DEF LoopDone
      <4> HIDE DEF g, p, types
      <4> QED BY <4>2, <4>4, <4>5 DEF Settled, Many
    <3> HIDE DEF g
    <3> QED BY <1>1, <3>1, <3>3, <3>4, CoveredAfterField
  <2> QED BY <2>1, <2>2
<1> QED BY <1>4, <1>5, <1>6, <1>7, <1>8, <1>9, <1>10

LEMMA CoveredAfterLoops ==
    ASSUME Working, NEW seen, Covered(seen, Waiting(todo)),
           verdict' \in {"checking", "accepted"},
           VerifyEachString \/ VerifyEachTable \/ VerifyEachUnion
    PROVE  Covered(seen, Waiting(todo'))
<1> USE DEF Turn
<1>1. G.check \in Loops /\ G.check \notin {"start", "buffer"} /\ verdict' # "refused"
  BY DEF VerifyEachString, VerifyEachTable, VerifyEachUnion, Loops
<1>2. /\ Referred \in Int /\ G \in Goals /\ Sound(G) /\ Bytes8 /\ VerifierAssumption
      /\ G.k \in Nat \ {0} /\ U32(G.at) \in Nat /\ G.at \in Int /\ VectorSound(G.at)
  BY <1>1, LoopTurn, HeadReady, NumberTypes DEF Working
<1>3. <<Again>> \in Seq(Goals)
  BY <1>1, AgainReady
<1>4. Waiting(<<Again>>) = {Again}
  <2> HIDE DEF Again
  <2> QED BY WaitingShort
<1>5. ASSUME G.k > U32(G.at), NEW touched, CheckThat(TRUE, <<>>, touched)
      PROVE  Covered(seen, Waiting(todo'))
  <2>1. ~(G.k <= U32(G.at))
    BY <1>2, <1>5
  <2>2. ASSUME NEW waiting PROVE MadeUp(G, waiting, Known(seen, waiting))
    BY <1>1, <2>1, LoopMadeUp
  <2>3. <<>> \in Seq(Goals)
    OBVIOUS
  <2> QED BY <1>1, <1>5, <2>2, <2>3, CoveredAfterCheck
<1>6. CASE VerifyEachString
  <2>1. CASE CheckThat(StringFits(Referred), <<Again>>, LoopReads \cup StringReads(Referred))
    <3>1. ASSUME StringFits(Referred), NEW waiting, Waiting(<<Again>>) \subseteq waiting
          PROVE  MadeUp(G, waiting, Known(seen, waiting))
      <4>1. Again \in waiting /\ G.check = "eachString"
        BY <1>4, <1>6, <3>1 DEF VerifyEachString
      <4> QED BY <1>1, <3>1, <4>1, LoopMadeUp
    <3> HIDE DEF Again
    <3> QED BY <1>1, <1>3, <2>1, <3>1, CoveredAfterCheck
  <2> QED BY <1>5, <1>6, <2>1 DEF VerifyEachString
<1>7. CASE VerifyEachTable
  <2> DEFINE g == Goal("start", Referred, G.type, 0)
             start == <<g>>
             goals == <<g, Again>>
  <2>1. G.type \in DOMAIN Types /\ G.check = "eachTable"
    BY <1>2, <1>7 DEF Sound, VerifyEachTable
  <2>2. start \in Seq(Goals)
    BY <1>2, <2>1, StartReady
  <2>3. goals \in Seq(Goals)
    <3>1. start \o <<Again>> = goals
      BY ShortSequences
    <3> HIDE DEF start, goals, g, Again
    <3> QED BY <1>3, <2>2, <3>1
  <2>4. Waiting(goals) = {g, Again}
    <3> HIDE DEF g, Again
    <3> QED BY WaitingShort
  <2>5. ASSUME NEW waiting, Waiting(goals) \subseteq waiting
        PROVE  MadeUp(G, waiting, Known(seen, waiting))
    <3>1. Again \in waiting /\ g \in waiting
      BY <2>4, <2>5
    <3>2. <<Referred, G.type>> \in Known(seen, waiting)
      BY <3>1, StartKnown
    <3> QED BY <1>1, <2>1, <3>1, <3>2, LoopMadeUp
  <2>6. \/ G.k > U32(G.at) /\ CheckThat(TRUE, <<>>, LoopReads)
        \/ CheckThat(TRUE, goals, LoopReads)
    BY <1>7 DEF VerifyEachTable
  <2> HIDE DEF goals
  <2> QED BY <1>1, <1>5, <2>3, <2>5, <2>6, CoveredAfterCheck
<1>8. CASE VerifyEachUnion
  <2> DEFINE member == MemberGoals(ElementType, Referred)
             goals == member \o <<Again>>
             touched == LoopReads \cup {Bytes(Element(G.with, G.k, 1), 1)}
  <2>1. CASE G.k > U32(G.at) /\ CheckThat(TRUE, <<>>, LoopReads)
    BY <1>5, <2>1
  <2>2. CASE G.k <= U32(G.at) /\ CheckThat(TypeKnown(ElementType), goals, touched)
    <3>1. ElementType \in 0..255 /\ G.check = "eachUnion"
      BY <1>1, <1>8, <2>2, LoopTurn DEF VerifyEachUnion
    <3>2. member \in Seq(Goals)
      BY <1>2, <3>1, MemberReady
    <3>3. goals \in Seq(Goals) /\ Waiting(goals) = Waiting(member) \cup {Again}
      <4> DEFINE last == <<Again>>
      <4>1. last \in Seq(Goals) /\ Waiting(last) = {Again}
        BY <1>3, <1>4
      <4> HIDE DEF last, member
      <4>2. member \o last \in Seq(Goals) /\ Waiting(member \o last) = Waiting(member) \cup Waiting(last)
        BY <3>2, <4>1, WaitingConcat
      <4> QED BY <4>1, <4>2 DEF last
    <3>4. Referred # Null
      <4>1. /\ Inside(Element(G.at, G.k, 4), 4) /\ Element(G.at, G.k, 4) \in Int
        BY <1>2, <2>2, ElementsInside
      <4>2. Element(G.at, G.k, 4) >= 0
        BY <4>1 DEF Inside
      <4>3. Referred >= 0
        BY <1>2, <4>1, <4>2, NumberTypes DEF Referred
      <4> HIDE DEF Referred
      <4> QED BY <4>3 DEF Null
    <3>5. ASSUME TypeKnown(ElementType), NEW waiting, Waiting(goals) \subseteq waiting
          PROVE  MadeUp(G, waiting, Known(seen, waiting))
      <4>1. Again \in waiting
        BY <3>3, <3>5
      <4>2. ASSUME ElementType # 0
            PROVE  <<Referred, Members[ElementType]>> \in Known(seen, waiting)
        <5> DEFINE g == Goal("start", Referred, Members[ElementType], 0)
        <5>1. member = <<g>>
          BY <3>4, <3>5, <4>2 DEF MemberGoals, TypeKnown
        <5>2. Waiting(<<g>>) = {g}
          <6> HIDE DEF g
          <6> QED BY WaitingShort
        <5>3. g \in waiting
          BY <3>3, <3>5, <5>1, <5>2
        <5> QED BY <5>3, StartKnown
      <4>3. MemberKnown(ElementType, Referred, Known(seen, waiting))
        BY <3>5, <4>2 DEF MemberKnown
      <4> QED BY <1>1, <3>1, <4>1, <4>3, LoopMadeUp
    <3> HIDE DEF goals
    <3> QED BY <1>1, <2>2, <3>3, <3>5, CoveredAfterCheck
  <2>3. \/ G.k > U32(G.at) /\ CheckThat(TRUE, <<>>, LoopReads)
        \/ G.k <= U32(G.at) /\ CheckThat(TypeKnown(ElementType), goals, touched)
    BY <1>8 DEF VerifyEachUnion
  <2> QED BY <2>1, <2>2, <2>3
<1> QED BY <1>6, <1>7, <1>8

\* The root is among the tables to be entered.
LEMMA CoveredAfterBuffer ==
    ASSUME Working, verdict' \in {"checking", "accepted"}, VerifyBuffer
    PROVE  Covered({}, Waiting(todo'))
<1> DEFINE g == Goal("start", Indirect(G.at), rootType, 0)
<1>1. /\ G \in Goals /\ Sound(G) /\ Bytes8 /\ VerifierAssumption
      /\ G.check = "buffer"
  BY HeadReady DEF VerifyBuffer, Turn, Working
<1>2. PICK ok, touched : CheckThat(ok /\ Inside(G.at, 4), <<g>>, touched)
  BY DEF VerifyBuffer
<1>3. Inside(G.at, 4) /\ todo' = <<g>> \o Tail(todo)
  BY <1>2, ChecksOutcome
<1>4. <<g>> \in Seq(Goals)
  <2>1. Indirect(G.at) \in Int /\ rootType \in DOMAIN Types
    BY <1>1, NumberTypes DEF Goals, Working
  <2> QED BY <2>1, StartReady
<1>5. g \in Waiting(todo')
  <2>1. Waiting(<<g>>) = {g}
    <3> HIDE DEF g
    <3> QED BY WaitingShort
  <2> QED BY <1>3, <1>4, <2>1, WaitingStep
<1>6. <<Indirect(G.at), rootType>> \in Known({}, Waiting(todo'))
  BY <1>5, StartKnown
<1>7. G.at \in {0, 4}
  BY <1>1 DEF Sound
<1> QED BY <1>3, <1>6, <1>7 DEF Covered

LEMMA CoveredAfterStart ==
    ASSUME Working, NEW seen, Covered(seen, Waiting(todo)),
           verdict' \in {"checking", "accepted"}, VerifyTableStart
    PROVE  \E more : Covered(more, Waiting(todo'))
<1> DEFINE g == Goal("fields", G.at, G.type, 1)
           goals == <<g>>
           waiting == Waiting(goals \o Tail(todo))
           entered == {<<G.at, G.type>>}
           known == Known(seen \cup entered, waiting)
<1>1. /\ G \in Goals /\ Sound(G) /\ Bytes8 /\ VerifierAssumption
      /\ G.check = "start"
  BY HeadReady DEF VerifyTableStart, Turn, Working
<1>2. /\ Inside(G.at, 4) /\ VTableFits(G.at) /\ todo' = goals \o Tail(todo)
  BY DEF VerifyTableStart, Refuse, Proceed
<1>3. G.at \in Int /\ G.type \in DOMAIN Types
  BY <1>1 DEF Goals, Sound
<1>4. goals \in Seq(Goals)
  <2>1. g \in Goals
    BY <1>3 DEF Goal, Goals, Null, Checks
  <2> HIDE DEF g
  <2> QED BY <2>1
<1>5. g \in waiting
  <2>1. Waiting(goals) = {g}
    <3> HIDE DEF g
    <3> QED BY WaitingShort
  <2> QED BY <1>4, <2>1, WaitingStep
<1>6. TableCovered(G.at, G.type, waiting, known)
  <2>1. ASSUME NEW i \in DOMAIN Types[G.type]
        PROVE  FieldCovered(G.at, G.type, i, waiting, known)
    <3>1. Types[G.type] \in Seq(Fields)
      BY <1>1, <1>3 DEF VerifierAssumption
    <3>2. 1 \in 1..i
      BY <3>1
    <3> QED BY <1>5, <3>2 DEF FieldCovered
  <2> QED BY <1>2, <2>1 DEF TableCovered, TableSound
<1>7. MadeUp(G, waiting, known)
  <2>1. ASSUME NEW t, NEW T, NEW i, NEW c \in OfFields, G = Goal(c, t, T, i) PROVE FALSE
    <3>1. G.check = c
      BY <2>1 DEF Goal
    <3> QED BY <1>1, <3>1 DEF OfFields
  <2>2. ASSUME NEW t, NEW T, NEW i, NEW n \in Nat, Kind(T, i) \in Many, G = Loop(t, T, i, n + 1)
        PROVE  FALSE
    <3>1. G.check \in Loops
      BY <2>2, LoopParts
    <3> QED BY <1>1, <3>1 DEF Loops
  <2>3. ASSUME NEW t, NEW T, NEW k, G = Goal("fields", t, T, k) PROVE FALSE
    <3>1. G.check = "fields"
      BY <2>3 DEF Goal
    <3> QED BY <1>1, <3>1
  <2> QED BY <2>1, <2>2, <2>3 DEF MadeUp
<1>8. \A x \in entered : TableCovered(x[1], x[2], waiting, known)
  <2> HIDE DEF waiting, known
  <2>1. ASSUME NEW x \in entered PROVE x[1] = G.at /\ x[2] = G.type
    OBVIOUS
  <2> QED BY <1>6, <2>1
<1>9. entered \subseteq AnyTable /\ <<G.at, G.type>> \in entered
  BY <1>3 DEF AnyTable
<1> HIDE DEF entered, goals
<1>10. Covered(seen \cup entered, waiting)
  BY <1>1, <1>4, <1>7, <1>8, <1>9, CoveredStep
<1> QED BY <1>2, <1>10

LEMMA CoveredAfterNext ==
    ASSUME Working, NEW seen, Covered(seen, Waiting(todo)),
           verdict' \in {"checking", "accepted"}, VerifyFields \/ LeaveTable
    PROVE  Covered(seen, Waiting(todo'))
<1> USE DEF Turn
<1>1. /\ G \in Goals /\ Sound(G) /\ Bytes8 /\ VerifierAssumption /\ G.check = "fields"
  BY HeadReady DEF VerifyFields, LeaveTable, Working
<1>2. /\ G.type \in DOMAIN Types /\ G.k \in 1..(Len(Types[G.type]) + 1) /\ G.k \in Nat
      /\ DOMAIN Types[G.type] = 1..Len(Types[G.type]) /\ Len(Types[G.type]) \in Nat
  <2>1. G.type \in DOMAIN Types /\ G.k \in 1..(Len(Types[G.type]) + 1) /\ G.k \in Nat
    BY <1>1 DEF Sound, Goals
  <2>2. Types[G.type] \in Seq(Fields)
    BY <1>1, <2>1 DEF VerifierAssumption
  <2> QED BY <2>1, <2>2
<1>3. ASSUME NEW waiting, NEW known,
             \A i \in DOMAIN Types[G.type] :
                G.k \in 1..i => FieldCovered(G.at, G.type, i, waiting, known)
      PROVE  MadeUp(G, waiting, known)
  <2>1. ASSUME NEW t, NEW T, NEW i, NEW c \in OfFields, G = Goal(c, t, T, i) PROVE FALSE
    <3>1. G.check = c
      BY <2>1 DEF Goal
    <3> QED BY <1>1, <3>1 DEF OfFields
  <2>2. ASSUME NEW t, NEW T, NEW i, NEW n \in Nat, Kind(T, i) \in Many, G = Loop(t, T, i, n + 1)
        PROVE  FALSE
    <3>1. G.check \in Loops
      BY <2>2, LoopParts
    <3> QED BY <1>1, <3>1 DEF Loops
  <2>3. ASSUME NEW t, NEW T, NEW i \in DOMAIN Types[T], NEW k \in 1..i, G = Goal("fields", t, T, k)
        PROVE  FieldCovered(t, T, i, waiting, known)
    <3>1. G.at = t /\ G.type = T /\ G.k = k
      BY <2>3 DEF Goal
    <3> QED BY <1>3, <2>3, <3>1
  <2> QED BY <2>1, <2>2, <2>3 DEF MadeUp
<1>4. CASE VerifyFields
  <2> DEFINE F == FieldGoals(G.at, G.type, G.k)
             goals == F \o <<Again>>
  <2>1. /\ F \in Seq(Goals) /\ Again \in Goals /\ goals \in Seq(Goals)
        /\ Waiting(F) = {Goal(c, G.at, G.type, G.k) : c \in Chain(Kind(G.type, G.k))}
        /\ Again = Goal("fields", G.at, G.type, G.k + 1)
    BY <1>4, ChainReady DEF Waiting
  <2>2. CheckThat(TRUE, goals, {}) /\ verdict' # "refused"
    BY <1>4 DEF VerifyFields
  <2>3. Waiting(goals) = Waiting(F) \cup {Again}
    <3> DEFINE last == <<Again>>
    <3>1. last \in Seq(Goals) /\ Waiting(last) = {Again}
      <4>1. Again \in Goals
        BY <2>1
      <4> HIDE DEF Again
      <4>2. Waiting(<<Again>>) = {Again}
        BY WaitingShort
      <4>3. <<Again>> \in Seq(Goals)
        BY <4>1
      <4> QED BY <4>2, <4>3
    <3> HIDE DEF last, F
    <3>2. Waiting(F \o last) = Waiting(F) \cup Waiting(last)
      BY <2>1, <3>1, WaitingConcat
    <3> QED BY <3>1, <3>2 DEF last
  <2>4. ASSUME NEW waiting, Waiting(goals) \subseteq waiting
        PROVE  MadeUp(G, waiting, Known(seen, waiting))
    <3> SUFFICES ASSUME NEW i \in DOMAIN Types[G.type], G.k \in 1..i
                 PROVE  FieldCovered(G.at, G.type, i, waiting, Known(seen, waiting))
      BY <1>3
    <3>1. CASE i = G.k
      <4>1. ASSUME NEW c \in Chain(Kind(G.type, i))
            PROVE  Settled(c, G.at, G.type, i, waiting, Known(seen, waiting))
        <5>1. Goal(c, G.at, G.type, i) \in waiting
          BY <2>1, <2>3, <2>4, <3>1
        <5> QED BY <5>1 DEF Settled
      <4> QED BY <4>1 DEF FieldCovered
    <3>2. CASE i # G.k
      <4>1. G.k + 1 \in 1..i
        BY <1>2, <3>2
      <4>2. Goal("fields", G.at, G.type, G.k + 1) \in waiting
        BY <2>1, <2>3, <2>4
      <4> QED BY <4>1, <4>2 DEF FieldCovered
    <3> QED BY <3>1, <3>2
  <2> HIDE DEF goals
  <2> QED BY <1>1, <2>1, <2>2, <2>4, CoveredAfterCheck
<1>5. CASE LeaveTable
  <2> DEFINE goals == <<>>
             waiting == Waiting(goals \o Tail(todo))
  <2>1. todo' = goals \o Tail(todo) /\ G.k \notin DOMAIN Types[G.type]
    BY <1>5 DEF LeaveTable, Proceed
  <2>2. goals \in Seq(Goals)
    OBVIOUS
  <2>3. MadeUp(G, waiting, Known(seen, waiting))
    <3> HIDE DEF waiting
    <3>1. ASSUME NEW i \in DOMAIN Types[G.type], G.k \in 1..i PROVE FALSE
      BY <1>2, <2>1, <3>1
    <3> QED BY <1>3, <3>1
  <2>4. seen \cup {} = seen
    OBVIOUS
  <2> HIDE DEF goals
  <2>5. Covered(seen \cup {}, waiting)
    BY <1>1, <2>2, <2>3, <2>4, CoveredStep
  <2> QED BY <2>1, <2>4, <2>5
<1> QED BY <1>4, <1>5

LEMMA StepCovered ==
    ASSUME Working, VerifierNext, verdict' \in {"checking", "accepted"},
           NEW seen, Covered(seen, Waiting(todo))
    PROVE  \E more : Covered(more, Waiting(todo'))
BY CoveredAfterBuffer, CoveredAfterStart, CoveredAfterNext, CoveredAfterFields, CoveredAfterLoops
   DEF VerifierNext

LEMMA SameCovered ==
    ASSUME UNCHANGED <<mem, rootType>>, NEW seen, Covered(seen, Waiting(todo'))
    PROVE  Covered(seen, Waiting(todo))'
<1>1. \A t, T, i, k : Loop(t, T, i, k)' = Loop(t, T, i, k)
  BY SameTables DEF Loop
<1>2. \A t, T, i, n, known : ElementDone(t, T, i, n, known)' = ElementDone(t, T, i, n, known)
  BY SameTables, SameNumbers DEF ElementDone
<1>3. \A t, T, i : Opened(t, T, i)' = Opened(t, T, i)
  BY SameTables, SameNumbers DEF Opened, SameCount
<1>4. \A t, T, i, n, known : LoopDone(t, T, i, n, known)' = LoopDone(t, T, i, n, known)
  BY <1>2, <1>3 DEF LoopDone
<1>5. \A c, t, T, i, known : Done(c, t, T, i, known)' = Done(c, t, T, i, known)
  BY <1>4, SameMet, SameTables, SameNumbers DEF Done
<1>6. \A c, t, T, i, waiting, known :
         Settled(c, t, T, i, waiting, known)' = Settled(c, t, T, i, waiting, known)
  BY <1>1, <1>4, <1>5 DEF Settled
<1>7. \A t, T, i, waiting, known :
         FieldCovered(t, T, i, waiting, known)' = FieldCovered(t, T, i, waiting, known)
  BY <1>6 DEF FieldCovered
<1>8. \A t, T, waiting, known :
         TableCovered(t, T, waiting, known)' = TableCovered(t, T, waiting, known)
  BY <1>7, SameTables DEF TableCovered
<1>9. \A waiting : Covered(seen, waiting)' = Covered(seen, waiting)
  BY <1>8, SameTables, SameNumbers DEF Covered
<1> QED BY <1>9 DEF Waiting

-----------------------------------------------------------------------------
(* What a reader makes of an accepted buffer.                              *)

LEMMA CoveredReadable ==
    ASSUME VerifierAssumption, Bytes8, NEW seen, Covered(seen, {}), NEW x \in seen
    PROVE  AccessorsInside(x[1], x[2], seen)
<1> DEFINE t == x[1]
           T == x[2]
<1>1. /\ t \in Int /\ T \in DOMAIN Types /\ seen \subseteq AnyTable
      /\ \A y \in seen : TableCovered(y[1], y[2], {}, Known(seen, {}))
  BY DEF Covered, AnyTable
<1>2. Known(seen, {}) = seen
  BY DEF Known
<1>3. ASSUME NEW y \in seen PROVE TableSound(y[1]) /\ Inside(y[1], 4)
  BY <1>1 DEF TableCovered, TableSound
<1>4. /\ Types[T] \in Seq(Fields) /\ \A i \in DOMAIN Types[T] : FieldOK(T, i)
  BY <1>1 DEF VerifierAssumption
<1>5. ASSUME NEW i \in DOMAIN Types[T], NEW c \in Chain(Kind(T, i))
      PROVE  Done(c, t, T, i, seen)
  BY <1>1, <1>2 DEF TableCovered, FieldCovered, Settled
<1>6. /\ TableSound(t) /\ Inside(t, 4) /\ Inside(VTable(t), 2) /\ t >= 0
  <2>1. t >= 0
    BY <1>1, <1>3, NumberTypes DEF Inside
  <2> QED BY <1>3, <2>1 DEF TableSound, VTableFits
<1> HIDE DEF t, T
<1>7. ASSUME NEW i \in DOMAIN Types[T] PROVE FieldReadable(t, T, i, seen)
  <2> DEFINE f    == Types[T][i]
             at   == t + FieldOffset(t, i)
             p    == Indirect(at)
             vec  == Inside(p, 4) /\ Inside(p, 4 + f.size * U32(p))
             Tab(q, of) == Inside(q, 4) /\ <<q, of>> \in seen
             E(k) == Indirect(Element(p, k, 4))
             type == ByteField(t, i - 1)
             TypeOf(k) == Byte(Element(Pointer(t, i - 1), k, 1))
  <2>1. /\ i \in Nat \ {0} /\ f \in Fields /\ f.kind = Kind(T, i) /\ f.kind \in FieldKinds
        /\ FieldOK(T, i)
    <3>1. i \in Nat \ {0} /\ f \in Fields
      BY <1>4
    <3> QED BY <1>4, <3>1 DEF Fields, Kind
  <2>2. ASSUME NEW q, NEW of, <<q, of>> \in seen PROVE Tab(q, of)
    BY <1>3, <2>2
  <2>3. "inline" \in Chain(f.kind) /\ InlineMet(t, T, i)
    <3>1. "inline" \in Chain(f.kind)
      BY DEF Chain
    <3> QED BY <1>5, <2>1, <3>1 DEF Done, Met
  <2>4. \A r \in OffsetReads(t, i) : Inside(r.at, r.size)
    BY <1>1, <1>6, <2>1, OffsetsInside DEF t
  <2>5. FieldOffset(t, i) = 0 => ~f.required
    BY <2>3 DEF InlineMet
  <2>6. ASSUME FieldOffset(t, i) # 0
        PROVE  /\ Inside(at, InlineSize(f))
               /\ Pointer(t, i) = p /\ p \in Int /\ p # Null
    <3>1. /\ FieldOffset(t, i) \in Nat /\ Pointer(t, i) = p /\ Pointer(t, i) \in Int
          /\ Pointer(t, i) >= 0
      BY <1>1, <1>6, <2>1, <2>6, FieldTypes DEF t
    <3>2. p # Null
      <4> HIDE DEF p
      <4> QED BY <3>1 DEF Null
    <3> QED BY <2>3, <2>6, <3>1, <3>2 DEF InlineMet
  <2>7. ASSUME FieldOffset(t, i) # 0, f.kind \in Many \cup {"vector"}
        PROVE  vec
    <3>1. "vector" \in Chain(f.kind)
      BY <2>7 DEF Chain, Many
    <3>2. VectorFits(p, f.size)
      BY <1>5, <2>1, <2>6, <2>7, <3>1 DEF Done, Met, VectorMet
    <3>3. f.size \in {1, 2, 4, 8, 12}
      BY <2>1 DEF Fields
    <3> QED BY <1>1, <2>6, <2>7, <3>2, <3>3, VectorsInside
  <2>8. ASSUME FieldOffset(t, i) # 0, f.kind \in Many
        PROVE  /\ Opened(t, T, i)
               /\ \A k \in 1..U32(p) : ElementDone(t, T, i, k, seen)
    <3>1. f.kind \in Chain(f.kind)
      BY <2>8 DEF Chain, Many
    <3>2. Done(f.kind, t, T, i, seen)
      BY <1>5, <2>1, <3>1
    <3>3. LoopDone(t, T, i, U32(p), seen)
      BY <2>6, <2>8, <3>2 DEF Done
    <3> QED BY <3>3 DEF LoopDone
  <2>9. ASSUME FieldOffset(t, i) # 0, f.kind \in {"string", "table", "union"}
        PROVE  Done(f.kind, t, T, i, seen)
    <3>1. f.kind \in Chain(f.kind)
      BY <2>9 DEF Chain, Many
    <3> QED BY <1>5, <2>1, <3>1
  <2>10. ASSUME NEW k \in Nat PROVE Element(p, k, 4) \in Int /\ E(k) \in Int
    <3>1. at \in Int
      <4>1. FieldOffset(t, i) \in Nat /\ t \in Int
        BY <1>1, <2>1, FieldTypes DEF t
      <4> QED BY <4>1
    <3>2. p \in Int
      BY <3>1, NumberTypes
    <3>3. Element(p, k, 4) \in Int
      <4> HIDE DEF p
      <4> QED BY <3>2 DEF Element
    <3> QED BY <3>3, NumberTypes
  <2> HIDE DEF p, vec, Tab
  <2>11. ASSUME FieldOffset(t, i) # 0, f.kind = "string" PROVE StringInside(p)
    BY <2>6, <2>9, <2>11, StringsInside DEF Done
  <2>12. ASSUME FieldOffset(t, i) # 0, f.kind = "table" PROVE Tab(p, f.of)
    <3>1. <<p, f.of>> \in seen
      BY <2>6, <2>9, <2>12 DEF Done
    <3> QED BY <2>2, <3>1
  <2>13. ASSUME FieldOffset(t, i) # 0, f.kind = "strings", NEW k \in 1..U32(p)
         PROVE  StringInside(E(k))
    <3>1. StringFits(E(k))
      BY <2>1, <2>6, <2>8, <2>13 DEF Many, ElementDone
    <3>2. k \in Nat
      OBVIOUS
    <3> QED BY <2>10, <3>1, <3>2, StringsInside
  <2>14. ASSUME FieldOffset(t, i) # 0, f.kind = "tables", NEW k \in 1..U32(p)
         PROVE  Tab(E(k), f.of)
    <3>1. <<E(k), f.of>> \in seen
      BY <2>1, <2>6, <2>8, <2>14 DEF Many, ElementDone
    <3> HIDE DEF E
    <3> QED BY <2>2, <3>1
  <2>15. ASSUME FieldOffset(t, i) # 0, f.kind = "union", type # 0
         PROVE  type \in DOMAIN Members /\ Tab(p, Members[type])
    <3>1. TypeKnown(type) /\ MemberKnown(type, p, seen)
      BY <2>6, <2>9, <2>15 DEF Done
    <3> HIDE DEF type
    <3>2. type \in DOMAIN Members /\ <<p, Members[type]>> \in seen
      BY <2>15, <3>1 DEF TypeKnown, MemberKnown
    <3> QED BY <2>2, <3>2
  <2>16. ASSUME FieldOffset(t, i) # 0, f.kind = "unions"
         PROVE  /\ Inside(Pointer(t, i - 1), 4 + U32(p))
                /\ U32(p) = U32(Pointer(t, i - 1))
                /\ \A k \in 1..U32(p) : TypeOf(k) # 0 =>
                      TypeOf(k) \in DOMAIN Members /\ Tab(E(k), Members[TypeOf(k)])
    <3>1. /\ i - 1 \in DOMAIN Types[T] /\ Kind(T, i - 1) = "vector"
          /\ Types[T][i - 1].size = 1
      BY <2>1, <2>16 DEF FieldOK, Kind
    <3>2. "vector" \in Chain(Kind(T, i - 1))
      BY <3>1 DEF Chain
    <3>3. VectorMet(t, T, i - 1)
      BY <1>5, <3>1, <3>2 DEF Done, Met
    <3>4. Pointer(t, i - 1) # Null /\ SameCount(p, Pointer(t, i - 1))
      BY <2>1, <2>6, <2>8, <2>16 DEF Many, Opened
    <3>5. Inside(Pointer(t, i - 1), 4 + U32(Pointer(t, i - 1)))
      <4>1. VectorFits(Pointer(t, i - 1), 1)
        BY <3>1, <3>3, <3>4 DEF VectorMet
      <4>2. Pointer(t, i - 1) \in Int
        <5>1. i - 1 \in Nat
          BY <2>1
        <5> QED BY <1>1, <5>1, FieldTypes DEF t
      <4>3. U32(Pointer(t, i - 1)) \in Nat
        BY <4>2, NumberTypes
      <4>4. Inside(Pointer(t, i - 1), 4 + 1 * U32(Pointer(t, i - 1)))
        BY <1>1, <4>1, <4>2, VectorsInside
      <4> QED BY <4>3, <4>4
    <3>6. ASSUME NEW k \in 1..U32(p), TypeOf(k) # 0
          PROVE  TypeOf(k) \in DOMAIN Members /\ Tab(E(k), Members[TypeOf(k)])
      <4>1. MemberKnown(TypeOf(k), E(k), seen)
        BY <2>1, <2>6, <2>8, <2>16 DEF Many, ElementDone
      <4> HIDE DEF TypeOf, E
      <4>2. TypeOf(k) \in DOMAIN Members /\ <<E(k), Members[TypeOf(k)]>> \in seen
        BY <3>6, <4>1 DEF TypeKnown, MemberKnown
      <4> QED BY <2>2, <4>2
    <3> QED BY <3>4, <3>5, <3>6 DEF SameCount
  <2>17. ASSUME FieldOffset(t, i) # 0
         PROVE  CASE f.kind \in {"scalar", "struct"} -> TRUE
                  [] f.kind = "string"  -> StringInside(p)
                  [] f.kind = "table"   -> Tab(p, f.of)
                  [] f.kind = "vector"  -> vec
                  [] f.kind = "strings" -> vec /\ \A k \in 1..U32(p) : StringInside(E(k))
                  [] f.kind = "tables"  -> vec /\ \A k \in 1..U32(p) : Tab(E(k), f.of)
                  [] f.kind = "union"   ->
                         type # 0 => type \in DOMAIN Members /\ Tab(p, Members[type])
                  [] f.kind = "unions"  ->
                         /\ vec
                         /\ Inside(Pointer(t, i - 1), 4 + U32(p))
                         /\ U32(p) = U32(Pointer(t, i - 1))
                         /\ \A k \in 1..U32(p) : TypeOf(k) # 0 =>
                               TypeOf(k) \in DOMAIN Members /\ Tab(E(k), Members[TypeOf(k)])
    <3> HIDE DEF f, E, type, TypeOf
    <3>1. f.kind \in FieldKinds
      BY <2>1
    <3>2. f.kind \in Many \cup {"vector"} => vec
      BY <2>7, <2>17
    <3>3. f.kind = "strings" => \A k \in 1..U32(p) : StringInside(E(k))
      BY <2>13, <2>17
    <3>4. f.kind = "tables" => \A k \in 1..U32(p) : Tab(E(k), f.of)
      BY <2>14, <2>17
    <3> QED BY <2>11, <2>12, <2>15, <2>16, <2>17, <3>1, <3>2, <3>3, <3>4 DEF FieldKinds, Many
  <2> QED BY <2>4, <2>5, <2>6, <2>17 DEF FieldReadable, p, vec, Tab
<1> QED BY <1>6, <1>7 DEF AccessorsInside, t, T

\* Where nothing that fails comes first, nothing fails.
LEMMA NoneFails ==
    ASSUME NEW S \in SUBSET Nat, 0 \notin S, \A n \in Nat : n \notin S => n + 1 \notin S
    PROVE  S = {}
<1> SUFFICES ASSUME S # {} PROVE FALSE
  OBVIOUS
<1> DEFINE R == OpToRel(<, Nat)
<1>1. IsWellFoundedOn(R, Nat)
  BY NatLessThanWellFounded
<1> HIDE DEF R
<1>2. PICK n \in S : \A m \in S : <<m, n>> \notin R
  BY <1>1, WFMin
<1>3. \A m \in S : ~(m < n)
  BY <1>2 DEF R, OpToRel
<1>4. n - 1 \in Nat
  OBVIOUS
<1>5. n - 1 \notin S
  BY <1>3, <1>4
<1>6. (n - 1) + 1 = n
  BY <1>4
<1> QED BY <1>4, <1>5, <1>6

Look(good) == {table \in AnyTable : AccessorsInside(table[1], table[2], good)}

\* The first levels of Readable.
Levels(n, g) ==
    /\ g \in [0..n -> SUBSET AnyTable]
    /\ g[0] = Look(AnyTable)
    /\ \A d \in 0..(n - 1) : g[d + 1] = Look(g[d])

LEMMA LevelsExist ==
    ASSUME NEW n \in Nat
    PROVE  \E g : Levels(n, g)
<1> DEFINE S == {m \in Nat : ~\E g : Levels(m, g)}
<1>1. 0 \notin S
  <2> DEFINE g == [d \in 0..0 |-> Look(AnyTable)]
  <2>1. Levels(0, g)
    BY DEF Levels, Look
  <2> QED BY <2>1
<1>2. ASSUME NEW m \in Nat, m \notin S PROVE m + 1 \notin S
  <2>1. PICK g : Levels(m, g)
    BY <1>2
  <2> DEFINE h == [d \in 0..(m + 1) |-> IF d = m + 1 THEN Look(g[m]) ELSE g[d]]
  <2>2. h \in [0..(m + 1) -> SUBSET AnyTable]
    BY <2>1 DEF Levels, Look
  <2>3. h[0] = Look(AnyTable)
    BY <2>1 DEF Levels
  <2>4. ASSUME NEW d \in 0..m PROVE h[d + 1] = Look(h[d])
    <3>1. CASE d = m
      BY <3>1
    <3>2. CASE d # m
      <4>1. d \in 0..(m - 1) /\ d + 1 \in 0..m
        BY <3>2
      <4>2. h[d + 1] = g[d + 1] /\ h[d] = g[d]
        BY <4>1
      <4> QED BY <2>1, <4>1, <4>2 DEF Levels
    <3> QED BY <3>1, <3>2
  <2> HIDE DEF h
  <2>5. Levels(m + 1, h)
    BY <2>2, <2>3, <2>4 DEF Levels
  <2> QED BY <2>5
<1>3. S \in SUBSET Nat
  OBVIOUS
<1> HIDE DEF S
<1>4. S = {}
  BY <1>1, <1>2, <1>3, NoneFails
<1> QED BY <1>4 DEF S

LEMMA LevelsAgree ==
    ASSUME NEW n \in Nat, NEW m \in Nat, NEW g, NEW h, Levels(n, g), Levels(m, h)
    PROVE  \A d \in Nat : d <= n /\ d <= m => g[d] = h[d]
<1> DEFINE S == {d \in Nat : d <= n /\ d <= m /\ g[d] # h[d]}
<1>1. 0 \notin S
  BY DEF Levels
<1>2. ASSUME NEW d \in Nat, d \notin S PROVE d + 1 \notin S
  <2> SUFFICES ASSUME d + 1 <= n, d + 1 <= m PROVE g[d + 1] = h[d + 1]
    OBVIOUS
  <2>1. d \in 0..(n - 1) /\ d \in 0..(m - 1) /\ g[d] = h[d]
    BY <1>2
  <2> QED BY <2>1 DEF Levels
<1>3. S \in SUBSET Nat
  OBVIOUS
<1> HIDE DEF S
<1>4. S = {}
  BY <1>1, <1>2, <1>3, NoneFails
<1> QED BY <1>4 DEF S

LEMMA ReadableLevels ==
    /\ Readable[0] = Look(AnyTable)
    /\ \A d \in Nat : Readable[d + 1] = Look(Readable[d])
<1> DEFINE L(n) == CHOOSE g : Levels(n, g)
           f == [n \in Nat |-> L(n)[n]]
           Is(g) == g = [d \in Nat |-> {table \in AnyTable :
                            AccessorsInside(table[1], table[2],
                                            IF d = 0 THEN AnyTable ELSE g[d - 1])}]
<1>1. \A n \in Nat : Levels(n, L(n))
  BY LevelsExist
<1> HIDE DEF L
<1>2. f[0] = Look(AnyTable)
  BY <1>1 DEF Levels
<1>3. ASSUME NEW d \in Nat PROVE f[d + 1] = Look(f[d])
  <2>1. Levels(d, L(d)) /\ Levels(d + 1, L(d + 1)) /\ d + 1 \in Nat
    BY <1>1
  <2>2. L(d + 1)[d] = L(d)[d]
    BY <2>1, LevelsAgree
  <2>3. L(d + 1)[d + 1] = Look(L(d + 1)[d])
    BY <2>1 DEF Levels
  <2> QED BY <2>1, <2>2, <2>3
<1>4. Is(f)
  <2>1. DOMAIN f = Nat /\ f = [d \in Nat |-> f[d]]
    OBVIOUS
  <2>2. ASSUME NEW d \in Nat
        PROVE  f[d] = {table \in AnyTable :
                          AccessorsInside(table[1], table[2],
                                          IF d = 0 THEN AnyTable ELSE f[d - 1])}
    <3>1. CASE d = 0
      BY <1>2, <3>1 DEF Look
    <3>2. CASE d # 0
      <4>1. d - 1 \in Nat /\ (d - 1) + 1 = d
        BY <3>2
      <4>2. f[d] = Look(f[d - 1])
        BY <1>3, <4>1
      <4> HIDE DEF f
      <4> QED BY <3>2, <4>2 DEF Look
    <3> QED BY <3>1, <3>2
  <2> HIDE DEF f
  <2> QED BY <2>1, <2>2
<1>5. Is(Readable)
  <2>1. Readable = CHOOSE g : Is(g)
    BY DEF Readable
  <2> HIDE DEF Is, f
  <2> QED BY <1>4, <2>1
<1>6. \A d \in Nat : Readable[d] = {table \in AnyTable :
                          AccessorsInside(table[1], table[2],
                                          IF d = 0 THEN AnyTable ELSE Readable[d - 1])}
  BY <1>5
<1>7. Readable[0] = Look(AnyTable)
  BY <1>6 DEF Look
<1>8. ASSUME NEW d \in Nat PROVE Readable[d + 1] = Look(Readable[d])
  <2>1. d + 1 \in Nat /\ d + 1 # 0 /\ (d + 1) - 1 = d
    OBVIOUS
  <2> QED BY <1>6, <2>1 DEF Look
<1> QED BY <1>7, <1>8

LEMMA MoreReadable ==
    ASSUME VerifierAssumption, NEW good, NEW more, good \subseteq more,
           NEW t, NEW T \in DOMAIN Types, AccessorsInside(t, T, good)
    PROVE  AccessorsInside(t, T, more)
<1>1. ASSUME NEW i \in DOMAIN Types[T], FieldReadable(t, T, i, good)
      PROVE  FieldReadable(t, T, i, more)
  <2> DEFINE kind == Types[T][i].kind
  <2>1. CASE kind \in {"scalar", "struct", "string", "vector", "strings"}
    BY <1>1, <2>1 DEF FieldReadable
  <2>2. CASE kind = "table"
    BY <1>1, <2>2 DEF FieldReadable
  <2>3. CASE kind = "tables"
    BY <1>1, <2>3 DEF FieldReadable
  <2>4. CASE kind = "union"
    BY <1>1, <2>4 DEF FieldReadable
  <2>5. CASE kind = "unions"
    BY <1>1, <2>5 DEF FieldReadable
  <2>6. kind \in FieldKinds
    <3>1. Types[T] \in Seq(Fields)
      BY DEF VerifierAssumption
    <3>2. Types[T][i] \in Fields
      BY <3>1
    <3> QED BY <3>2 DEF Fields
  <2> HIDE DEF kind
  <2> QED BY <2>1, <2>2, <2>3, <2>4, <2>5, <2>6 DEF FieldKinds
<1> QED BY <1>1 DEF AccessorsInside

\* Tables that lead to each other only can be read to any depth.
LEMMA ReadableToAnyDepth ==
    ASSUME VerifierAssumption, NEW seen, seen \subseteq AnyTable,
           \A x \in seen : AccessorsInside(x[1], x[2], seen)
    PROVE  \A d \in Nat : seen \subseteq Readable[d]
<1> DEFINE S == {d \in Nat : ~(seen \subseteq Readable[d])}
<1>1. ASSUME NEW good, seen \subseteq good PROVE seen \subseteq Look(good)
  <2> SUFFICES ASSUME NEW x \in seen PROVE x \in Look(good)
    OBVIOUS
  <2>1. x \in AnyTable /\ x[2] \in DOMAIN Types
    BY DEF AnyTable
  <2>2. AccessorsInside(x[1], x[2], good)
    BY <1>1, <2>1, MoreReadable
  <2> QED BY <2>1, <2>2 DEF Look
<1>2. 0 \notin S
  BY <1>1, ReadableLevels
<1>3. ASSUME NEW d \in Nat, d \notin S PROVE d + 1 \notin S
  BY <1>1, <1>3, ReadableLevels
<1>4. S \in SUBSET Nat
  OBVIOUS
<1> HIDE DEF S
<1>5. S = {}
  BY <1>2, <1>3, <1>4, NoneFails
<1> QED BY <1>5 DEF S

-----------------------------------------------------------------------------
(* What the verifier promises.                                             *)

CoverInv == verdict \in {"checking", "accepted"} => \E seen : Covered(seen, Waiting(todo))

LEMMA InitCovered ==
    ASSUME VerifierAssumption, VerifierInit
    PROVE  CoverInv
<1>1. StackOK(todo) /\ Len(todo) = 1 /\ todo[1].check = "buffer"
  BY InitReady DEF IInv
<1>2. todo[1] \in Waiting(todo)
  BY <1>1 DEF StackOK, Waiting
<1>3. Covered({}, Waiting(todo))
  BY <1>1, <1>2 DEF Covered
<1> QED BY <1>3 DEF CoverInv

LEMMA StepKeepsCovered ==
    ASSUME VerifierAssumption, IInv, CoverInv, [VerifierNext]_verifierVars
    PROVE  CoverInv'
<1>1. CASE VerifierNext
  <2>1. Working
    BY <1>1, StepWorks
  <2>2. UNCHANGED <<mem, rootType>>
    BY <1>1, <2>1, StepStack
  <2>3. verdict = "checking"
    BY <2>1 DEF IInv, CountedWhileWorking, Counted, Working
  <2>4. ASSUME verdict' \in {"checking", "accepted"}
        PROVE  (\E seen : Covered(seen, Waiting(todo)))'
    <3>1. PICK seen : Covered(seen, Waiting(todo))
      BY <2>3 DEF CoverInv
    <3>2. PICK more : Covered(more, Waiting(todo'))
      BY <1>1, <2>1, <2>4, <3>1, StepCovered
    <3>3. Covered(more, Waiting(todo))'
      BY <2>2, <3>2, SameCovered
    <3> QED BY <3>3
  <2> QED BY <2>4 DEF CoverInv
<1>2. CASE UNCHANGED verifierVars
  <2>1. UNCHANGED <<mem, rootType>> /\ todo' = todo /\ verdict' = verdict
    BY <1>2 DEF verifierVars
  <2>2. ASSUME NEW seen, Covered(seen, Waiting(todo)) PROVE Covered(seen, Waiting(todo))'
    BY <2>1, <2>2, SameCovered
  <2> QED BY <2>1, <2>2 DEF CoverInv
<1> QED BY <1>1, <1>2

LEMMA CoveredMeansReadable ==
    ASSUME VerifierAssumption, IInv, CoverInv
    PROVE  AcceptedReadable
<1> SUFFICES ASSUME verdict = "accepted"
             PROVE  \E start \in {0, 4} :
                       Inside(start, 4) /\ <<Indirect(start), rootType>> \in Readable[MaxDepth]
  BY DEF AcceptedReadable
<1>1. PICK seen : Covered(seen, Waiting(todo))
  BY DEF CoverInv
<1>2. Waiting(todo) = {}
  <2>1. todo = <<>>
    BY DEF IInv, Counted
  <2> QED BY <2>1, WaitingShort
<1>3. Covered(seen, {}) /\ Bytes8
  BY <1>1, <1>2 DEF IInv
<1>4. seen \subseteq AnyTable /\ \A x \in seen : AccessorsInside(x[1], x[2], seen)
  BY <1>3, CoveredReadable DEF Covered
<1>5. seen \subseteq Readable[MaxDepth]
  BY <1>4, ReadableToAnyDepth DEF VerifierAssumption
<1>6. PICK start \in {0, 4} : Inside(start, 4) /\ <<Indirect(start), rootType>> \in seen
  BY <1>3 DEF Covered, Known
<1> QED BY <1>5, <1>6

\* What the verifier accepts can be read: from the root down to any table its
\* references lead to, every accessor stays inside the buffer; the verifier
\* itself does, and its count of the depth is true.
THEOREM VerifierIsSound ==
    ASSUME VerifierAssumption
    PROVE  VerifierSpec => []VerifierSound
<1>1. VerifierInit => IInv /\ CoverInv
  BY InitReady, InitCovered
<1>2. (IInv /\ CoverInv) /\ [VerifierNext]_verifierVars => (IInv /\ CoverInv)'
  BY StepKeepsReady, StepKeepsCovered
<1>3. IInv /\ CoverInv => VerifierSound
  <2>1. IInv => ReadsInside
    BY DEF IInv, AllInside, ReadsInside
  <2>2. IInv => DepthIsNesting
    BY DEF IInv, Counted, DepthIsNesting, Nesting, Entered
  <2> QED BY <2>1, <2>2, CoveredMeansReadable DEF VerifierSound
<1> QED BY <1>1, <1>2, <1>3, PTL DEF VerifierSpec

=============================================================================
