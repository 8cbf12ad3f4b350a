------------------------- MODULE SortedVectorProofs -------------------------
(***************************************************************************)
(* The binary search of SortedVector is right in a vector of any length,   *)
(* for keys and orders of any kind: what it needs of them is Partitioned.  *)
(* Bytes and numbers have an order that gives it, so that a lookup is right *)
(* between runtimes that agree on it.                                      *)
(***************************************************************************)
EXTENDS SortedVector, FiniteSetTheorems, SequenceTheorems, TLAPS

\* Half of a span that is not empty is less than the span.
LEMMA MiddleInside ==
    ASSUME TypeOK, span # 0
    PROVE  Middle \in Nat /\ Middle < span
BY DEF TypeOK, Middle

\* A step that leaves the vector alone leaves the order in it alone.
LEMMA OrderKept ==
    ASSUME UNCHANGED <<setting, tables, vector, sought>>
    PROVE  /\ Partitioned' <=> Partitioned
           /\ \A i : Has(i)' <=> Has(i)
BY DEF Partitioned, Has, AtOrAbove, AtOrBelow, ReadAt

-----------------------------------------------------------------------------
(* Types, and the part searched lies inside of the vector: the table found *)
(* is one of the tables because of that.                                   *)

Inside == TypeOK /\ ProbesInside

LEMMA InsideInit == Init => Inside
BY SortedAssumption DEF Init, Inside, TypeOK, ProbesInside, Phases

LEMMA InsideStep == Inside /\ [Next]_vars => Inside'
<1> SUFFICES ASSUME Inside, [Next]_vars PROVE Inside'
  OBVIOUS
<1> USE SortedAssumption DEF Inside, ProbesInside, Phases
<1>1. ASSUME NEW k \in KeysOf(setting), NEW near \in BOOLEAN, NEW o \in Offsets, AddTable(k, near, o) PROVE Inside'
  <2>1. Table(k, near, o) \in [key : KeysOf(setting), kept : BOOLEAN, near : BOOLEAN, offset : Offsets]
    BY SortedAssumption DEF Table, TypeOK
  <2>2. /\ tables' \in Seq([key : KeysOf(setting), kept : BOOLEAN, near : BOOLEAN, offset : Offsets])
        /\ Len(tables') = Len(tables) + 1
    BY <1>1, <2>1 DEF AddTable, TypeOK
  <2>3. vector' \in Seq(1..Len(tables'))
    BY <1>1, <2>2 DEF AddTable, TypeOK
  <2> QED BY <1>1, <2>2, <2>3 DEF AddTable, TypeOK
<1>2. ASSUME CreateSorted PROVE Inside'
  <2>1. vector' \in [DOMAIN tables -> DOMAIN tables]
    BY <1>2 DEF CreateSorted, Sortings
  <2>2. vector' \in Seq(1..Len(tables))
    BY <2>1 DEF TypeOK
  <2> QED BY <1>2, <2>2 DEF CreateSorted, TypeOK
<1>3. ASSUME NEW k \in KeysOf(setting), Lookup(k) PROVE Inside'
  BY <1>3 DEF Lookup, TypeOK
<1>4. CASE ProbeAbove
  BY <1>4, MiddleInside DEF ProbeAbove, Lower, TypeOK
<1>5. CASE ProbeBelow
  <2>1. Middle \in Nat /\ Middle < span /\ span \in Nat /\ start \in Nat
    BY <1>5, MiddleInside DEF ProbeBelow, TypeOK
  <2>2. /\ start' \in Nat /\ span' \in Nat
        /\ start' + span' = start + span
    BY <1>5, <2>1 DEF ProbeBelow, Upper
  <2> QED BY <1>5, <2>2 DEF ProbeBelow, TypeOK
<1>6. CASE Found
  <2>1. start + Middle + 1 \in 1..Len(vector)
    BY <1>6, MiddleInside DEF Found, TypeOK
  <2>2. vector[start + Middle + 1] \in 1..Len(tables)
    BY <2>1 DEF TypeOK
  <2> QED BY <1>6, <2>2 DEF Found, TypeOK
<1>7. CASE Missing
  BY <1>7 DEF Missing, TypeOK
<1>8. CASE UNCHANGED vars
  BY <1>8 DEF vars, TypeOK
<1> QED
  BY <1>1, <1>2, <1>3, <1>4, <1>5, <1>6, <1>7, <1>8 DEF Next, Search

LEMMA InsideAlways == Spec => []Inside
BY InsideInit, InsideStep, PTL DEF Spec

\* Types hold, whatever the order of the keys.
THEOREM SortedTypeOK == Spec => []TypeOK
<1>1. Inside => TypeOK
  BY DEF Inside
<1> QED BY <1>1, InsideAlways, PTL

\* No lookup reads outside of the vector, whatever the order of the keys.
THEOREM SortedProbesInside == Spec => []ProbesInside
<1>1. Inside => ProbesInside
  BY DEF Inside
<1> QED BY <1>1, InsideAlways, PTL

-----------------------------------------------------------------------------
(* A search drops only tables that do not have the key.                    *)

\* What is read at the middle tells on which side of it the key must be.
LEMMA NotFromMiddle ==
    ASSUME Inside, phase = "searching", span # 0, Partitioned,
           ~AtOrBelow(start + Middle),
           NEW i \in start..(start + span - 1), Has(i)
    PROVE  i \in start..(start + Middle - 1)
<1>1. Middle \in Nat /\ Middle < span
  BY MiddleInside DEF Inside
<1>2. /\ i \in 0..(Len(vector) - 1)
      /\ start + Middle \in 0..(Len(vector) - 1)
  BY <1>1 DEF Inside, TypeOK, ProbesInside
<1>3. i # start + Middle
  BY DEF Has
<1>4. ~(start + Middle < i)
  BY <1>2 DEF Partitioned, Has
<1> QED BY <1>1, <1>2, <1>3, <1>4 DEF Inside, TypeOK

LEMMA NotToMiddle ==
    ASSUME Inside, phase = "searching", span # 0, Partitioned,
           ~AtOrAbove(start + Middle),
           NEW i \in start..(start + span - 1), Has(i)
    PROVE  i \in (start + Middle + 1)..(start + span - 1)
<1>1. Middle \in Nat /\ Middle < span
  BY MiddleInside DEF Inside
<1>2. /\ i \in 0..(Len(vector) - 1)
      /\ start + Middle \in 0..(Len(vector) - 1)
  BY <1>1 DEF Inside, TypeOK, ProbesInside
<1>3. i # start + Middle
  BY DEF Has
<1>4. ~(i < start + Middle)
  BY <1>2 DEF Partitioned, Has
<1> QED BY <1>1, <1>2, <1>3, <1>4 DEF Inside, TypeOK

Kept == WindowHoldsKey /\ MissingIsAbsent

LEMMA KeptInit == Init => Kept
BY DEF Init, Kept, WindowHoldsKey, MissingIsAbsent

LEMMA KeptStep == Inside /\ Kept /\ [Next]_vars => Kept'
<1> SUFFICES ASSUME Inside, Kept, [Next]_vars PROVE Kept'
  OBVIOUS
<1> USE DEF Kept
<1>1. ASSUME NEW k \in KeysOf(setting), NEW near \in BOOLEAN, NEW o \in Offsets, AddTable(k, near, o) PROVE Kept'
  BY <1>1 DEF AddTable, WindowHoldsKey, MissingIsAbsent
<1>2. CASE CreateSorted
  BY <1>2 DEF CreateSorted, WindowHoldsKey, MissingIsAbsent
<1>3. ASSUME NEW k \in KeysOf(setting), Lookup(k) PROVE Kept'
  <2>1. /\ phase' = "searching" /\ vector' = vector
        /\ start' = 0 /\ start' + span' - 1 = Len(vector) - 1
    BY <1>3 DEF Lookup, Inside, TypeOK
  <2> QED BY <2>1 DEF WindowHoldsKey, MissingIsAbsent
<1>4. CASE ProbeAbove
  <2>1. ~AtOrBelow(start + Middle)
    BY <1>4 DEF ProbeAbove, AtOrBelow
  <2>2. /\ Partitioned' <=> Partitioned
        /\ \A i : Has(i)' <=> Has(i)
    BY <1>4, OrderKept DEF ProbeAbove
  <2>3. /\ phase = "searching" /\ phase' = "searching" /\ span # 0
        /\ vector' = vector /\ start' = start /\ span' = Middle
    BY <1>4 DEF ProbeAbove, Lower
  <2>4. ASSUME Partitioned, NEW i \in 0..(Len(vector) - 1), Has(i)
        PROVE  \E j \in start'..(start' + span' - 1) : Has(j)'
    <3>1. PICK j \in start..(start + span - 1) : Has(j)
      BY <2>3, <2>4 DEF WindowHoldsKey
    <3>2. j \in start..(start + Middle - 1)
      BY <2>1, <2>3, <2>4, <3>1, NotFromMiddle
    <3> QED BY <2>2, <2>3, <3>1, <3>2
  <2> QED BY <2>2, <2>3, <2>4 DEF WindowHoldsKey, MissingIsAbsent
<1>5. CASE ProbeBelow
  <2>1. ~AtOrAbove(start + Middle)
    BY <1>5 DEF ProbeBelow, AtOrAbove
  <2>2. /\ Partitioned' <=> Partitioned
        /\ \A i : Has(i)' <=> Has(i)
    BY <1>5, OrderKept DEF ProbeBelow
  <2>3. /\ phase = "searching" /\ phase' = "searching" /\ span # 0
        /\ vector' = vector
        /\ start' = start + Middle + 1 /\ span' = span - (Middle + 1)
    BY <1>5 DEF ProbeBelow, Upper
  <2>4. ASSUME Partitioned, NEW i \in 0..(Len(vector) - 1), Has(i)
        PROVE  \E j \in start'..(start' + span' - 1) : Has(j)'
    <3>1. PICK j \in start..(start + span - 1) : Has(j)
      BY <2>3, <2>4 DEF WindowHoldsKey
    <3>2. j \in (start + Middle + 1)..(start + span - 1)
      BY <2>1, <2>3, <2>4, <3>1, NotToMiddle
    <3>3. start' + span' - 1 = start + span - 1
      <4>1. start \in Nat /\ span \in Nat /\ TypeOK
        BY DEF Inside, TypeOK
      <4>2. Middle \in Nat
        BY <2>3, <4>1, MiddleInside
      <4>3. \A m \in Nat : (start + m + 1) + (span - (m + 1)) - 1 = start + span - 1
        BY <4>1
      <4> QED BY <2>3, <4>2, <4>3
    <3> QED BY <2>2, <2>3, <3>1, <3>2, <3>3
  <2> QED BY <2>2, <2>3, <2>4 DEF WindowHoldsKey, MissingIsAbsent
<1>6. CASE Found
  BY <1>6 DEF Found, WindowHoldsKey, MissingIsAbsent
<1>7. CASE Missing
  <2>1. /\ Partitioned' <=> Partitioned
        /\ \A i : Has(i)' <=> Has(i)
    BY <1>7, OrderKept DEF Missing
  <2>2. /\ phase = "searching" /\ phase' = "missing" /\ span = 0
        /\ vector' = vector
    BY <1>7 DEF Missing
  <2>3. Partitioned => \A i \in 0..(Len(vector) - 1) : ~Has(i)
    BY <2>2 DEF WindowHoldsKey, Inside, TypeOK
  <2> QED BY <2>1, <2>2, <2>3 DEF WindowHoldsKey, MissingIsAbsent
<1>8. CASE UNCHANGED vars
  <2>1. /\ Partitioned' <=> Partitioned
        /\ \A i : Has(i)' <=> Has(i)
    BY <1>8, OrderKept DEF vars
  <2> QED BY <1>8, <2>1 DEF vars, WindowHoldsKey, MissingIsAbsent
<1> QED
  BY <1>1, <1>2, <1>3, <1>4, <1>5, <1>6, <1>7, <1>8 DEF Next, Search

LEMMA KeptAlways == Spec => []Kept
BY InsideAlways, KeptInit, KeptStep, PTL DEF Spec

\* In a vector that is sorted for the reader, the part still searched holds
\* the key sought if any table has it.
THEOREM SortedWindowHoldsKey == Spec => []WindowHoldsKey
<1>1. Kept => WindowHoldsKey
  BY DEF Kept
<1> QED BY <1>1, KeptAlways, PTL

\* In a vector that is sorted for the reader, a lookup that finds no table is
\* right: there is none.
THEOREM SortedMissingIsAbsent == Spec => []MissingIsAbsent
<1>1. Kept => MissingIsAbsent
  BY DEF Kept
<1> QED BY <1>1, KeptAlways, PTL

-----------------------------------------------------------------------------
(* The order of keys is total.  The first byte in which two strings differ *)
(* is a least number.                                                      *)

LEMMA LeastOf ==
    ASSUME NEW T \in SUBSET Nat, T # {}
    PROVE  \E x \in T : \A y \in T : x <= y
<1> DEFINE R == OpToRel(<, Nat)
<1>1. IsWellFoundedOn(R, Nat)
  BY NatLessThanWellFounded
<1> HIDE DEF R
<1>2. PICK x \in T : \A y \in T : <<y, x>> \notin R
  BY <1>1, WFMin
<1>3. \A y \in T : y \in Nat /\ x \in Nat
  OBVIOUS
<1>4. \A y \in T : ~(y < x)
  BY <1>2, <1>3 DEF R, OpToRel
<1> QED BY <1>2, <1>3, <1>4

LEMMA BytesIrreflexive ==
    ASSUME NEW a \in Seq(Int)
    PROVE  ~BytesBefore(a, a)
BY DEF BytesBefore, FirstDiffers, SameUpTo

LEMMA BytesTotal ==
    ASSUME NEW a \in Seq(Int), NEW b \in Seq(Int), a # b
    PROVE  BytesBefore(a, b) \/ BytesBefore(b, a)
<1> DEFINE T == {i \in DOMAIN a \cap DOMAIN b : a[i] # b[i]}
<1>1. T \subseteq Nat /\ DOMAIN a = 1..Len(a) /\ DOMAIN b = 1..Len(b)
  OBVIOUS
<1>2. CASE T = {}
  <2>1. \A i \in DOMAIN a \cap DOMAIN b : a[i] = b[i]
    BY <1>2
  <2>2. Len(a) # Len(b)
    <3>1. SUFFICES ASSUME Len(a) = Len(b) PROVE FALSE
      OBVIOUS
    <3>2. ASSUME NEW i \in 1..Len(a) PROVE a[i] = b[i]
      <4>1. i \in DOMAIN a \cap DOMAIN b
        BY <1>1, <3>1
      <4> QED BY <2>1, <4>1
    <3> QED BY <3>1, <3>2, SeqEqual
  <2>3. Len(a) \in Nat /\ Len(b) \in Nat
    OBVIOUS
  <2>4. ASSUME Len(a) < Len(b) PROVE SameUpTo(a, b, Len(a))
    <3>1. \A j \in 1..Len(a) : j \in DOMAIN a \cap DOMAIN b
      BY <1>1, <2>3, <2>4
    <3> QED BY <2>1, <3>1 DEF SameUpTo
  <2>5. ASSUME Len(b) < Len(a) PROVE SameUpTo(b, a, Len(b))
    <3>1. \A j \in 1..Len(b) : j \in DOMAIN a \cap DOMAIN b
      BY <1>1, <2>3, <2>5
    <3> QED BY <2>1, <3>1 DEF SameUpTo
  <2> QED BY <2>2, <2>3, <2>4, <2>5 DEF BytesBefore
<1>3. CASE T # {}
  <2>1. PICK i \in T : \A j \in T : i <= j
    BY <1>1, <1>3, LeastOf
  <2>2. i \in DOMAIN a \cap DOMAIN b /\ a[i] # b[i] /\ a[i] \in Int /\ b[i] \in Int
    OBVIOUS
  <2>3. \A j \in 1..(i - 1) : a[j] = b[j]
    <3> TAKE j \in 1..(i - 1)
    <3>1. j \in DOMAIN a \cap DOMAIN b /\ ~(i <= j)
      BY <1>1, <2>2
    <3> QED BY <2>1, <3>1
  <2>4. a[i] < b[i] \/ b[i] < a[i]
    BY <2>2
  <2> HIDE DEF T
  <2> QED BY <2>2, <2>3, <2>4 DEF BytesBefore, FirstDiffers, SameUpTo
<1> QED BY <1>2, <1>3

LEMMA BytesTransitive ==
    ASSUME NEW a \in Seq(Int), NEW b \in Seq(Int), NEW c \in Seq(Int),
           BytesBefore(a, b), BytesBefore(b, c)
    PROVE  BytesBefore(a, c)
<1>0. /\ DOMAIN a = 1..Len(a) /\ DOMAIN b = 1..Len(b) /\ DOMAIN c = 1..Len(c)
      /\ Len(a) \in Nat /\ Len(b) \in Nat /\ Len(c) \in Nat
      /\ \A i \in DOMAIN a : a[i] \in Int
      /\ \A i \in DOMAIN b : b[i] \in Int
      /\ \A i \in DOMAIN c : c[i] \in Int
  OBVIOUS
<1> USE DEF SameUpTo
<1>1. CASE FirstDiffers(a, b) /\ FirstDiffers(b, c)
  <2>1. PICK i \in DOMAIN a \cap DOMAIN b : SameUpTo(a, b, i - 1) /\ a[i] < b[i]
    BY <1>1 DEF FirstDiffers
  <2>2. PICK j \in DOMAIN b \cap DOMAIN c : SameUpTo(b, c, j - 1) /\ b[j] < c[j]
    BY <1>1 DEF FirstDiffers
  <2>3. CASE i < j
    <3>0. i \in Nat /\ j \in Nat /\ 1 <= i
      BY <1>0
    <3>1. i \in 1..(j - 1) /\ \A k \in 1..(i - 1) : k \in 1..(j - 1)
      BY ONLY <2>3, <3>0
    <3>2. SameUpTo(a, c, i - 1) /\ b[i] = c[i]
      BY <2>1, <2>2, <3>1
    <3>3. i \in DOMAIN a \cap DOMAIN c /\ a[i] < c[i]
      BY <1>0, <2>1, <3>1, <3>2
    <3> QED BY <3>2, <3>3 DEF BytesBefore, FirstDiffers
  <2>4. CASE j < i
    <3>0. i \in Nat /\ j \in Nat /\ 1 <= j
      BY <1>0
    <3>1. j \in 1..(i - 1) /\ \A k \in 1..(j - 1) : k \in 1..(i - 1)
      BY ONLY <2>4, <3>0
    <3>2. SameUpTo(a, c, j - 1) /\ a[j] = b[j]
      BY <2>1, <2>2, <3>1
    <3>3. j \in DOMAIN a \cap DOMAIN c /\ a[j] < c[j]
      BY <1>0, <2>2, <3>1, <3>2
    <3> QED BY <3>2, <3>3 DEF BytesBefore, FirstDiffers
  <2>5. CASE i = j
    <3>1. i \in DOMAIN a \cap DOMAIN c /\ SameUpTo(a, c, i - 1) /\ a[i] < c[i]
      BY <1>0, <2>1, <2>2, <2>5
    <3> QED BY <3>1 DEF BytesBefore, FirstDiffers
  <2> QED BY <2>3, <2>4, <2>5
<1>2. CASE FirstDiffers(a, b) /\ Len(b) < Len(c) /\ SameUpTo(b, c, Len(b))
  <2>1. PICK i \in DOMAIN a \cap DOMAIN b : SameUpTo(a, b, i - 1) /\ a[i] < b[i]
    BY <1>2 DEF FirstDiffers
  <2>2. i \in DOMAIN a \cap DOMAIN c /\ SameUpTo(a, c, i - 1) /\ a[i] < c[i]
    BY <1>0, <1>2, <2>1
  <2> QED BY <2>2 DEF BytesBefore, FirstDiffers
<1>3. CASE Len(a) < Len(b) /\ SameUpTo(a, b, Len(a)) /\ FirstDiffers(b, c)
  <2>1. PICK j \in DOMAIN b \cap DOMAIN c : SameUpTo(b, c, j - 1) /\ b[j] < c[j]
    BY <1>3 DEF FirstDiffers
  <2>2. CASE j <= Len(a)
    <3>1. j \in DOMAIN a \cap DOMAIN c /\ SameUpTo(a, c, j - 1) /\ a[j] < c[j]
      BY <1>0, <1>3, <2>1, <2>2
    <3> QED BY <3>1 DEF BytesBefore, FirstDiffers
  <2>3. CASE j > Len(a)
    <3>1. Len(a) < Len(c) /\ \A k \in 1..Len(a) : k \in 1..(j - 1)
      BY <1>0, <2>3
    <3>2. SameUpTo(a, c, Len(a))
      BY <1>3, <2>1, <3>1
    <3> QED BY <3>1, <3>2 DEF BytesBefore
  <2> QED BY <1>0, <2>1, <2>2, <2>3
<1>4. CASE /\ Len(a) < Len(b) /\ SameUpTo(a, b, Len(a))
           /\ Len(b) < Len(c) /\ SameUpTo(b, c, Len(b))
  <2>1. Len(a) < Len(c) /\ SameUpTo(a, c, Len(a))
    BY <1>0, <1>4
  <2> QED BY <2>1 DEF BytesBefore
<1> QED BY <1>1, <1>2, <1>3, <1>4 DEF BytesBefore

\* A runtime compares bytes that stand for the key: all of them when C++ meets
\* no zero byte.
LEMMA ByteOfInjective ==
    ASSUME NEW r, NEW x \in 0..255
    PROVE  /\ ByteOf(r, x) \in Int
           /\ \A y \in 0..255 : ByteOf(r, x) = ByteOf(r, y) => x = y
BY DEF ByteOf

LEMMA BytesTyped ==
    ASSUME NEW r, NEW a \in Seq(0..255)
    PROVE  Bytes(r, a) \in Seq(Int)
<1>1. TextLen(r, a) \in Nat /\ TextLen(r, a) <= Len(a)
  <2>1. ASSUME \E i \in DOMAIN a : a[i] = 0
        PROVE  \E i \in DOMAIN a : a[i] = 0 /\ \A j \in 1..(i - 1) : a[j] # 0
    <3> DEFINE T == {i \in DOMAIN a : a[i] = 0}
    <3>1. PICK i \in T : \A j \in T : i <= j
      <4>1. T \in SUBSET Nat /\ T # {}
        BY <2>1
      <4> QED BY <4>1, LeastOf
    <3>2. \A j \in 1..(i - 1) : a[j] # 0
      <4> TAKE j \in 1..(i - 1)
      <4>1. j \in DOMAIN a /\ ~(i <= j)
        OBVIOUS
      <4> QED BY <3>1, <4>1
    <3> QED BY <3>2
  <2> QED BY <2>1 DEF TextLen
<1>2. ASSUME NEW i \in 1..TextLen(r, a)
      PROVE  ByteOf(r, a[i]) \in Int
  <2>1. i \in 1..Len(a)
    BY <1>1
  <2>2. a[i] \in 0..255
    BY <2>1, ElementOfSeq
  <2> QED BY <2>2, ByteOfInjective
<1> QED BY <1>1, <1>2 DEF Bytes

LEMMA BytesInjective ==
    ASSUME NEW r, NEW a \in Seq(0..255), NEW b \in Seq(0..255),
           r = "cpp" => /\ \A i \in DOMAIN a : a[i] # 0
                        /\ \A i \in DOMAIN b : b[i] # 0,
           Bytes(r, a) = Bytes(r, b)
    PROVE  a = b
<1>1. TextLen(r, a) = Len(a) /\ TextLen(r, b) = Len(b)
  BY DEF TextLen
<1> DEFINE sa == Bytes(r, a)
           sb == Bytes(r, b)
<1>2. DOMAIN sa = 1..Len(a) /\ DOMAIN sb = 1..Len(b)
  BY <1>1 DEF Bytes
<1>3. Len(a) = Len(b)
  <2>1. 1..Len(a) = 1..Len(b)
    BY <1>2
  <2> QED BY <2>1
<1>4. \A i \in 1..Len(a) : a[i] = b[i]
  <2> TAKE i \in 1..Len(a)
  <2>1. sa[i] = sb[i]
    OBVIOUS
  <2>2. sa[i] = ByteOf(r, a[i]) /\ sb[i] = ByteOf(r, b[i])
    BY <1>1, <1>3 DEF Bytes
  <2>3. a[i] \in 0..255 /\ b[i] \in 0..255
    <3>1. i \in 1..Len(b)
      BY <1>3
    <3> QED BY <3>1, ElementOfSeq
  <2> QED BY <2>1, <2>2, <2>3, ByteOfInjective
<1> QED BY <1>3, <1>4, SeqEqual


\* What the reader compares by is a total order of the keys.
LEMMA KeysTotal ==
    ASSUME KeysTyped, SettingsAgree, NEW s \in Settings
    PROVE  /\ \A a \in KeysOf(s) : ~Before(s, s.reader, a, a)
           /\ \A a, b \in KeysOf(s) : a = b \/ Before(s, s.reader, a, b) \/ Before(s, s.reader, b, a)
           /\ \A a, b, c \in KeysOf(s) :
                  Before(s, s.reader, a, b) /\ Before(s, s.reader, b, c) => Before(s, s.reader, a, c)
<1> DEFINE r == s.reader
<1>1. CASE s.strings
  <2> DEFINE B(k) == Bytes(r, k)
  <2>1. \A k \in KeysOf(s) : k \in Seq(0..255)
    BY <1>1 DEF KeysTyped, KeysOf
  <2>2. \A k \in KeysOf(s) : B(k) \in Seq(Int)
    BY <2>1, BytesTyped
  <2>3. \A a, b \in KeysOf(s) : Before(s, r, a, b) <=> BytesBefore(B(a), B(b))
    BY <1>1 DEF Before
  <2>4. ASSUME NEW a \in KeysOf(s), NEW b \in KeysOf(s), a # b PROVE B(a) # B(b)
    <3>1. r = "cpp" => /\ \A i \in DOMAIN a : a[i] # 0
                       /\ \A i \in DOMAIN b : b[i] # 0
      BY <1>1 DEF SettingsAgree, KeysOf
    <3> QED BY <2>1, <2>4, <3>1, BytesInjective
  <2> HIDE DEF r, B
  <2>5. \A a \in KeysOf(s) : ~Before(s, r, a, a)
    BY <2>2, <2>3, BytesIrreflexive
  <2>6. \A a, b \in KeysOf(s) : a = b \/ Before(s, r, a, b) \/ Before(s, r, b, a)
    BY <2>2, <2>3, <2>4, BytesTotal
  <2>7. \A a, b, c \in KeysOf(s) : Before(s, r, a, b) /\ Before(s, r, b, c) => Before(s, r, a, c)
    BY <2>2, <2>3, BytesTransitive
  <2> QED BY <2>5, <2>6, <2>7 DEF r
<1>2. CASE ~s.strings
  <2>1. \A k \in KeysOf(s) : k \in Int
    BY <1>2 DEF KeysTyped, KeysOf
  <2>2. \A a, b \in KeysOf(s) : Before(s, r, a, b) <=> a < b
    BY <1>2 DEF Before
  <2> HIDE DEF r
  <2>3. /\ \A a \in KeysOf(s) : ~Before(s, r, a, a)
        /\ \A a, b \in KeysOf(s) : a = b \/ Before(s, r, a, b) \/ Before(s, r, b, a)
        /\ \A a, b, c \in KeysOf(s) : Before(s, r, a, b) /\ Before(s, r, b, c) => Before(s, r, a, c)
    BY <2>1, <2>2
  <2> QED BY <2>3 DEF r
<1> QED BY <1>1, <1>2

-----------------------------------------------------------------------------
(* A lookup is right.  The tables are read as they were written, and the   *)
(* vector is all of them, in an order the reader has too.                  *)

KeysFound ==
    \A i \in DOMAIN tables :
        /\ KeyRead(setting.writer, tables[i]) = tables[i].key
        /\ KeyRead(setting.reader, tables[i]) = tables[i].key

Arranged ==
    phase # "building" =>
        /\ Len(vector) = Len(tables)
        /\ \A i \in DOMAIN tables : \E j \in DOMAIN vector : vector[j] = i
        /\ \A i, j \in DOMAIN vector : i < j =>
               ~Before(setting, setting.reader, tables[vector[j]].key, tables[vector[i]].key)

Answered == phase = "found" => answer \in DOMAIN tables /\ tables[answer].key = sought

Stored == KeysFound /\ Arranged /\ Answered

LEMMA KeyTyped ==
    ASSUME TypeOK, NEW i \in DOMAIN tables
    PROVE  tables[i].key \in KeysOf(setting)
<1> DEFINE T == [key : KeysOf(setting), kept : BOOLEAN, near : BOOLEAN, offset : Offsets]
<1>1. tables \in Seq(T)
  BY DEF TypeOK
<1> HIDE DEF T
<1>2. tables[i] \in T
  BY <1>1
<1> QED BY <1>2 DEF T

\* A table is added with its key where both look for it.
LEMMA TableFound ==
    ASSUME SettingsAgree, TypeOK, NEW k \in KeysOf(setting), NEW near \in BOOLEAN, NEW o,
           near \/ setting.long
    PROVE  /\ Table(k, near, o).key = k
           /\ KeyRead(setting.writer, Table(k, near, o)) = k
           /\ KeyRead(setting.reader, Table(k, near, o)) = k
<1>1. ReadsKeys(setting.writer, setting) /\ ReadsKeys(setting.reader, setting)
  BY DEF SettingsAgree, TypeOK
<1> QED BY <1>1 DEF ReadsKeys, Table, KeyRead

\* A sorting is all the tables: it gives no table twice.
LEMMA SortingCovers ==
    ASSUME NEW n \in Nat, NEW s \in [1..n -> 1..n],
           \A i, j \in 1..n : i # j => s[i] # s[j]
    PROVE  \A i \in 1..n : \E j \in 1..n : s[j] = i
<1>1. s \in Injection(1..n, 1..n)
  BY DEF Injection, IsInjective
<1>2. IsFiniteSet(1..n)
  BY FS_Interval
<1>3. s \in Surjection(1..n, 1..n)
  BY <1>1, <1>2, FS_Injection
<1> QED BY <1>3 DEF Surjection

LEMMA SortingArranged ==
    ASSUME KeysTyped, SettingsAgree, TypeOK, KeysFound, CreateSorted
    PROVE  Arranged'
<1>1. PICK s \in Sortings(setting.writer, tables) : vector' = s
  BY DEF CreateSorted
<1>2. /\ Len(tables) \in Nat /\ DOMAIN tables = 1..Len(tables)
      /\ setting \in Settings
      /\ \A i \in DOMAIN tables : tables[i].key \in KeysOf(setting)
  BY KeyTyped DEF TypeOK
<1>3. /\ s \in [1..Len(tables) -> 1..Len(tables)]
      /\ \A i, j \in 1..Len(tables) : i # j => s[i] # s[j]
      /\ \A i, j \in 1..Len(tables) : i < j =>
             \/ GoesFirst(setting.writer, tables[s[i]], tables[s[j]])
             \/ ~GoesFirst(setting.writer, tables[s[j]], tables[s[i]])
  BY <1>2 DEF Sortings
<1>4. Len(s) = Len(tables) /\ DOMAIN s = 1..Len(tables)
  BY <1>2, <1>3
<1>5. \A i \in 1..Len(tables) : \E j \in 1..Len(tables) : s[j] = i
  BY <1>2, <1>3, SortingCovers
<1>6. ASSUME NEW i \in 1..Len(tables), NEW j \in 1..Len(tables), i < j
      PROVE  ~Before(setting, setting.reader, tables[s[j]].key, tables[s[i]].key)
  <2> DEFINE a == tables[s[i]].key
             b == tables[s[j]].key
             w == setting.writer
  <2>1. s[i] \in DOMAIN tables /\ s[j] \in DOMAIN tables
    BY <1>2, <1>3
  <2>2. /\ a \in KeysOf(setting) /\ b \in KeysOf(setting)
        /\ KeyRead(w, tables[s[i]]) = a
        /\ KeyRead(w, tables[s[j]]) = b
    BY <1>2, <2>1 DEF KeysFound
  <2>3. /\ \A x, y \in KeysOf(setting) : Before(setting, w, x, y) <=> Before(setting, setting.reader, x, y)
        /\ setting.strings \/ w # "swift"
    BY <1>2 DEF SettingsAgree
  <2>4. \/ GoesFirst(w, tables[s[i]], tables[s[j]])
        \/ ~GoesFirst(w, tables[s[j]], tables[s[i]])
    BY <1>3, <1>6
  <2>5. ~(Before(setting, setting.reader, a, b) /\ Before(setting, setting.reader, b, a))
    BY <1>2, <2>2, KeysTotal
  <2> HIDE DEF a, b, w
  <2>6. ~Before(setting, setting.reader, b, a)
    BY <2>2, <2>3, <2>4, <2>5 DEF GoesFirst
  <2> QED BY <2>6 DEF a, b
<1>7. tables' = tables /\ setting' = setting
  BY DEF CreateSorted
<1> QED BY <1>1, <1>2, <1>4, <1>5, <1>6, <1>7 DEF Arranged

\* The order of the vector is what a search needs.
LEMMA ArrangedPartitioned ==
    ASSUME KeysTyped, SettingsAgree, TypeOK, KeysFound, Arranged, phase # "building"
    PROVE  Partitioned
<1> DEFINE key(i) == tables[vector[i + 1]].key
           r == setting.reader
<1>1. \A i \in 0..(Len(vector) - 1) :
          i + 1 \in DOMAIN vector /\ vector[i + 1] \in DOMAIN tables
  BY DEF TypeOK
<1>2. \A i \in 0..(Len(vector) - 1) : key(i) \in KeysOf(setting) /\ ReadAt(i) = key(i)
  BY <1>1, KeyTyped DEF ReadAt, KeysFound
<1>3. setting \in Settings /\ sought \in KeysOf(setting)
  BY DEF TypeOK
<1>4. \A i, j \in 0..(Len(vector) - 1) : i < j => ~Before(setting, r, key(j), key(i))
  <2> TAKE i, j \in 0..(Len(vector) - 1)
  <2> HAVE i < j
  <2>1. i + 1 \in DOMAIN vector /\ j + 1 \in DOMAIN vector /\ i + 1 < j + 1
    BY <1>1
  <2> QED BY <2>1 DEF Arranged
<1>5. /\ \A a, b \in KeysOf(setting) : a = b \/ Before(setting, r, a, b) \/ Before(setting, r, b, a)
      /\ \A a, b, c \in KeysOf(setting) : Before(setting, r, a, b) /\ Before(setting, r, b, c) => Before(setting, r, a, c)
  BY <1>3, KeysTotal
<1> HIDE DEF key, r
<1>6. \A i, j \in 0..(Len(vector) - 1) :
          i < j => /\ ~Before(setting, r, key(i), sought) => ~Before(setting, r, key(j), sought)
                   /\ ~Before(setting, r, sought, key(j)) => ~Before(setting, r, sought, key(i))
  BY <1>2, <1>3, <1>4, <1>5
<1> QED BY <1>2, <1>6 DEF Partitioned, AtOrAbove, AtOrBelow, r

LEMMA StoredInit == Init => Stored
BY DEF Init, Stored, KeysFound, Arranged, Answered

LEMMA StoredStep ==
    ASSUME KeysTyped, SettingsAgree, Inside, Stored, [Next]_vars
    PROVE  Stored'
<1> USE DEF Stored, Inside
<1>1. ASSUME NEW k \in KeysOf(setting), NEW near \in BOOLEAN, NEW o \in Offsets, AddTable(k, near, o) PROVE Stored'
  <2> DEFINE t == Table(k, near, o)
  <2>1. /\ tables' = Append(tables, t) /\ setting' = setting
        /\ phase = "building" /\ phase' = "building"
    BY <1>1 DEF AddTable
  <2>2. t.key = k /\ KeyRead(setting.writer, t) = k /\ KeyRead(setting.reader, t) = k
    BY <1>1, TableFound DEF AddTable
  <2>3. \A i \in DOMAIN tables' : (i \in DOMAIN tables /\ tables'[i] = tables[i]) \/ tables'[i] = t
    BY <2>1 DEF TypeOK
  <2> HIDE DEF t
  <2>4. KeysFound'
    BY <2>1, <2>2, <2>3 DEF KeysFound, KeyRead
  <2> QED BY <2>1, <2>4 DEF Arranged, Answered
<1>2. CASE CreateSorted
  <2>1. Arranged'
    BY <1>2, SortingArranged
  <2> QED BY <1>2, <2>1 DEF CreateSorted, KeysFound, KeyRead, Answered
<1>3. ASSUME NEW k \in KeysOf(setting), Lookup(k) PROVE Stored'
  BY <1>3 DEF Lookup, KeysFound, KeyRead, Arranged, Answered
<1>4. CASE ProbeAbove
  BY <1>4 DEF ProbeAbove, KeysFound, KeyRead, Arranged, Answered
<1>5. CASE ProbeBelow
  BY <1>5 DEF ProbeBelow, KeysFound, KeyRead, Arranged, Answered
<1>6. CASE Found
  <2> DEFINE i == start + Middle
  <2>1. i \in Nat /\ i + 1 \in 1..Len(vector)
    <3>1. phase = "searching" /\ span # 0
      BY <1>6 DEF Found
    <3>2. Middle \in Nat /\ Middle < span
      BY <3>1, MiddleInside
    <3>3. start \in Nat /\ span \in Nat /\ Len(vector) \in Nat
      BY DEF TypeOK
    <3>4. start + span <= Len(vector)
      BY <3>1 DEF ProbesInside
    <3> QED BY <3>2, <3>3, <3>4
  <2>2. vector[i + 1] \in DOMAIN tables
    BY <2>1 DEF TypeOK
  <2>3. ReadAt(i) = tables[vector[i + 1]].key /\ tables[vector[i + 1]].key \in KeysOf(setting)
    BY <2>2, KeyTyped DEF KeysFound, ReadAt
  <2>4. ~Before(setting, setting.reader, sought, ReadAt(i)) /\ ~Before(setting, setting.reader, ReadAt(i), sought)
    BY <1>6 DEF Found
  <2>5. tables[vector[i + 1]].key = sought
    BY <2>3, <2>4, KeysTotal DEF TypeOK
  <2>6. /\ answer' = vector[i + 1]
        /\ UNCHANGED <<setting, tables, vector, sought>>
        /\ phase # "building"
    BY <1>6 DEF Found
  <2> HIDE DEF i
  <2> QED BY <2>2, <2>5, <2>6 DEF KeysFound, KeyRead, Arranged, Answered
<1>7. CASE Missing
  BY <1>7 DEF Missing, KeysFound, KeyRead, Arranged, Answered
<1>8. CASE UNCHANGED vars
  BY <1>8 DEF vars, KeysFound, KeyRead, Arranged, Answered
<1> QED
  BY <1>1, <1>2, <1>3, <1>4, <1>5, <1>6, <1>7, <1>8 DEF Next, Search

\* What one runtime sorts is sorted for another that orders its keys alike.
THEOREM SortedSortedForSearch ==
    ASSUME KeysTyped, SettingsAgree
    PROVE  Spec => []SortedForSearch
<1>1. Init => Stored
  BY StoredInit
<1>2. Inside /\ Stored /\ [Next]_vars => Stored'
  BY StoredStep
<1>3. Inside /\ Stored => SortedForSearch
  BY ArrangedPartitioned DEF Inside, Stored, SortedForSearch
<1> QED BY <1>1, <1>2, <1>3, InsideAlways, PTL DEF Spec

\* Between two runtimes that find keys and order them alike, a search never
\* drops the part of the vector in which the key is.
THEOREM SortedKeyStaysInWindow ==
    ASSUME KeysTyped, SettingsAgree
    PROVE  Spec => []KeyStaysInWindow
BY SortedSortedForSearch, SortedWindowHoldsKey, PTL DEF KeyStaysInWindow

LEMMA StoredRight ==
    ASSUME KeysTyped, SettingsAgree, Inside, Kept, Stored
    PROVE  LookupRight
<1>1. phase = "found" => tables[answer].key = sought
  BY DEF Stored, Answered
<1>2. ASSUME phase = "missing", NEW i \in DOMAIN tables
      PROVE  tables[i].key # sought
  <2>1. Partitioned
    BY <1>2, ArrangedPartitioned DEF Inside, Stored
  <2>2. PICK j \in DOMAIN vector : vector[j] = i
    BY <1>2 DEF Stored, Arranged
  <2>3. j - 1 \in 0..(Len(vector) - 1) /\ (j - 1) + 1 = j
    BY DEF Inside, TypeOK
  <2>4. ReadAt(j - 1) = tables[i].key
    BY <2>2, <2>3 DEF ReadAt, Stored, KeysFound
  <2>5. ~Has(j - 1)
    BY <1>2, <2>1, <2>3 DEF Kept, MissingIsAbsent
  <2>6. \A a \in KeysOf(setting) : ~Before(setting, setting.reader, a, a)
    BY KeysTotal DEF Inside, TypeOK
  <2> QED BY <2>4, <2>5, <2>6 DEF Has, AtOrAbove, AtOrBelow, Inside, TypeOK
<1> QED BY <1>1, <1>2 DEF LookupRight

\* A lookup answers a table that has the key sought, and none only when no
\* table has it, between any two runtimes that find keys and order them alike.
THEOREM SortedLookupRight ==
    ASSUME KeysTyped, SettingsAgree
    PROVE  Spec => []LookupRight
<1>1. Init => Stored
  BY StoredInit
<1>2. Inside /\ Stored /\ [Next]_vars => Stored'
  BY StoredStep
<1>3. Inside /\ Kept /\ Stored => LookupRight
  BY StoredRight
<1> QED BY <1>1, <1>2, <1>3, InsideAlways, KeptAlways, PTL DEF Spec

=============================================================================
