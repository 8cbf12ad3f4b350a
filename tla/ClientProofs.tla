--------------------------- MODULE ClientProofs ---------------------------
(***************************************************************************)
(* Theorems about Builder, for every capacity, argument and order of the   *)
(* calls, failing ones included; and about GeneratedClient, for every      *)
(* schema, capacity and argument that fits the format.                     *)
(***************************************************************************)
EXTENDS GeneratedClient, ArenaProofs, SequenceTheorems

-----------------------------------------------------------------------------
(* The builder.                                                            *)

\* The inductive invariant: the types, and the three facts about the buffer
\* that need each other (an offset leads back because items do not move, items
\* stay apart because they lie behind head, head is where offset() says).
IInv == TypeOK /\ CellsApart /\ OffsetsLeadBack

\* The buffer a call starts from is sound, whatever the last call ended with.
LEMMA IInvGood ==
    ASSUME IInv
    PROVE  Good(arena) /\ Good(Fresh) /\ Off(Fresh) = Off(arena) /\ Off(arena) \in Nat
<1>1. Good(arena)
  BY DEF IInv, TypeOK, CellsApart, OffsetsLeadBack, Good
<1>2. Continues(arena, Throw(arena, "ok"))
  BY <1>1, ThrowContinues DEF Outcomes
<1>3. Fresh = Throw(arena, "ok")
  BY DEF Fresh, Throw
<1>4. Off(Fresh) = Off(arena)
  BY <1>1 DEF Fresh, Off, Good, ArenaTypeOK
<1>5. Off(arena) \in Nat
  BY <1>1 DEF Off, Good, ArenaTypeOK
<1> QED BY <1>1, <1>2, <1>3, <1>4, <1>5 DEF Continues

\* No scalar is empty.
LEMMA WidthsPositive ==
    ASSUME NEW t \in ScalarTypes
    PROVE  WidthOf[t] \in Nat \ {0}
BY BuilderAssumption DEF WidthOf

\* No alignment is zero.
LEMMA AlignmentsPositive == Alignments \subseteq Nat \ {0}
BY BuilderAssumption DEF PowersOfTwo

\* A new buffer is sound, with nothing in it.
LEMMA EmptyGood ==
    ASSUME NEW c \in Nat
    PROVE  Good(EmptyArena(c)) /\ Off(EmptyArena(c)) = 0
BY DEF EmptyArena, Good, ArenaTypeOK, Apart, LeadBack, Off, Outcomes

\* What a put of a scalar writes is an item that refers to nothing.
LEMMA ScalarItem ==
    ASSUME NEW t \in ScalarTypes, NEW v \in Values
    PROVE  /\ Scalar(WidthOf[t], v) \in Item
           /\ Scalar(WidthOf[t], v).size > 0
           /\ Scalar(WidthOf[t], v).kind = "scalar"
           /\ \A r : LeadsBackFrom(Scalar(WidthOf[t], v), r)
<1> DEFINE w == WidthOf[t]
<1>1. w \in Nat \ {0} /\ v \in Int
  BY WidthsPositive, BuilderAssumption
<1> HIDE DEF w
<1>2. /\ Scalar(w, v) \in Item /\ Scalar(w, v).size > 0
      /\ Scalar(w, v).kind = "scalar"
  BY <1>1 DEF Scalar, MkCell, Item, CellKinds
<1>3. \A r : LeadsBackFrom(Scalar(w, v), r)
  BY <1>2 DEF LeadsBackFrom
<1> QED BY <1>2, <1>3 DEF w

-----------------------------------------------------------------------------
(* The buffers of the composite operations.                                *)

\* startVector only makes room.
LEMMA StartVectorContinues ==
    ASSUME NEW a, Good(a), NEW elemSize \in Nat, NEW n \in Nat,
           NEW alignment \in Nat \ {0}
    PROVE  Continues(a, StartVectorArena(a, elemSize, n, alignment))
<1> DEFINE add == elemSize * n
           b   == Prepare(a, 4, add)
<1>1. add \in Nat
  OBVIOUS
<1> HIDE DEF add
<1>2. Continues(a, b)
  BY <1>1, PrepareContinues
<1>3. Continues(b, Prepare(b, alignment, add))
  BY <1>1, <1>2, PrepareContinues DEF Continues
<1>4. StartVectorArena(a, elemSize, n, alignment) = Prepare(b, alignment, add)
  BY DEF StartVectorArena, add
<1> QED BY <1>2, <1>3, <1>4, ContinuesTrans

\* The length in front of a vector.
LEMMA LengthContinues ==
    ASSUME NEW a, NEW b, Good(a), Continues(a, b), NEW n \in Nat
    PROVE  Continues(a, Push(b, LengthCell(n)))
<1>1. LengthCell(n) \in Item /\ \A r : LeadsBackFrom(LengthCell(n), r)
  BY DEF LengthCell, MkCell, Item, CellKinds, LeadsBackFrom
<1>2. Continues(b, Push(b, LengthCell(n)))
  BY <1>1, PushContinues DEF Continues
<1> QED BY <1>2, ContinuesTrans

\* A string or a byte vector: prepare, then an item without offsets.
LEMMA PreparedPushContinues ==
    ASSUME NEW a, Good(a), NEW size \in Nat \ {0}, NEW additional \in Nat,
           NEW c \in Item, c.kind # "uoffset"
    PROVE  Continues(a, Push(Prepare(a, size, additional), c))
<1> DEFINE b == Prepare(a, size, additional)
<1>1. Continues(a, b)
  BY PrepareContinues
<1>2. \A r : LeadsBackFrom(c, r)
  BY DEF LeadsBackFrom
<1> HIDE DEF b
<1>3. Continues(b, Push(b, c))
  BY <1>1, <1>2, PushContinues DEF Continues
<1>4. Continues(a, Push(b, c))
  BY <1>1, <1>3, ContinuesTrans
<1> QED BY <1>4 DEF b

\* The last of a set of indices, or 0 if there is none.
LEMMA LastOfLast ==
    ASSUME NEW n \in Nat, NEW S, S \subseteq 1..n
    PROVE  LastOf(S) \in 0..n /\ \A k \in (LastOf(S) + 1)..n : k \notin S
<1> DEFINE T == S \cup {0}
           G == {n - k : k \in T}
<1>1. T \subseteq 0..n /\ 0 \in T
  OBVIOUS
<1> HIDE DEF T
<1>2. G \subseteq Nat /\ G # {}
  <2>1. ASSUME NEW k \in T PROVE n - k \in Nat
    <3>1. k \in 0..n
      BY <1>1
    <3> QED BY ONLY <3>1, n \in Nat
  <2>2. \A h \in G : \E k \in T : h = n - k
    OBVIOUS
  <2>3. n - 0 \in G
    BY <1>1
  <2> HIDE DEF G
  <2> QED BY <2>1, <2>2, <2>3
<1>3. PICK g \in G : \A h \in G : g <= h
  <2> HIDE DEF G
  <2> QED BY <1>2, LeastNatural
<1>4. PICK m \in T : g = n - m
  OBVIOUS
<1>5. ASSUME NEW k \in T PROVE k <= m
  <2>1. n - k \in G
    OBVIOUS
  <2> HIDE DEF G
  <2>2. n - m <= n - k
    BY <1>3, <1>4, <2>1
  <2>3. k \in 0..n /\ m \in 0..n
    BY <1>1
  <2> QED BY <2>2, <2>3
<1>6. \E x \in T : \A k \in S : k <= x
  BY <1>5 DEF T
<1>7. LastOf(S) \in T /\ \A k \in S : k <= LastOf(S)
  BY <1>6 DEF LastOf, T
<1>8. LastOf(S) \in 0..n
  BY <1>1, <1>7
<1>9. ASSUME NEW k \in (LastOf(S) + 1)..n, k \in S PROVE FALSE
  BY <1>7, <1>8, <1>9
<1> QED BY <1>8, <1>9

\* Each distance of a run of reachable offsets leads to bytes before it.
LEMMA DistancesLeadBack ==
    ASSUME NEW n \in Nat, NEW targets \in [1..n -> Nat], NEW off \in Nat,
           NEW m \in 0..n,
           \A k \in (m + 1)..n : k \notin Unreachable(targets, off)
    PROVE  LET dist == Distances(targets, off, m) IN
           /\ dist \in Seq(Int) /\ Len(dist) = n - m
           /\ \A k \in DOMAIN dist : dist[k] \in 4 .. (off + 4 * (n - m) - 4 * (k - 1))
<1> DEFINE D(k) == off + 4 * (n - (k + m)) - targets[k + m] + 4
<1>1. Len(targets) = n /\ DOMAIN targets = 1..n
  OBVIOUS
<1>2. \A k \in 1..(n - m) :
        /\ k + m \in (m + 1)..n
        /\ targets[k + m] \in Nat /\ targets[k + m] <= off + 4 * (n - (k + m))
  <2> SUFFICES ASSUME NEW k \in 1..(n - m)
               PROVE  /\ k + m \in (m + 1)..n
                      /\ targets[k + m] \in Nat
                      /\ targets[k + m] <= off + 4 * (n - (k + m))
    OBVIOUS
  <2>1. k + m \in (m + 1)..n /\ k + m \in 1..n
    OBVIOUS
  <2>2. targets[k + m] \in Nat
    BY <2>1
  <2>3. ~(targets[k + m] > off + 4 * (n - (k + m)))
    BY <1>1, <2>1 DEF Unreachable
  <2> QED BY <2>1, <2>2, <2>3
<1>3. \A k \in 1..(n - m) : D(k) \in Int /\ D(k) \in 4 .. (off + 4 * (n - m) - 4 * (k - 1))
  BY <1>2
<1>4. Distances(targets, off, m) = [k \in 1..(n - m) |-> D(k)]
  BY <1>1 DEF Distances
<1> DEFINE dist == [k \in 1..(n - m) |-> D(k)]
<1>5. n - m \in Nat
  OBVIOUS
<1>6. \A k \in 1..(n - m) : dist[k] = D(k)
  OBVIOUS
<1>7. dist \in Seq(Int) /\ Len(dist) = n - m /\ DOMAIN dist = 1..(n - m)
  <2> HIDE DEF D
  <2> QED BY <1>3, <1>5
<1> HIDE DEF D, dist
<1>8. \A k \in DOMAIN dist : dist[k] \in 4 .. (off + 4 * (n - m) - 4 * (k - 1))
  BY <1>3, <1>6, <1>7
<1> QED BY <1>4, <1>7, <1>8 DEF dist

\* A vector of tables: the elements behind the last unreachable one are
\* written, and each of them leads back from where it stands.
LEMMA OffsetsContinue ==
    ASSUME NEW a, Good(a), NEW n \in Nat, NEW targets \in [1..n -> Nat]
    PROVE  Continues(a, OffsetsArena(a, targets))
<1> DEFINE b    == StartVectorArena(a, 4, n, 4)
           bad  == Unreachable(targets, Off(b))
           m    == LastOf(bad)
           dist == Distances(targets, Off(b), m)
           item == MkCell(4 * Len(dist), 4, "uoffset", dist)
           d    == Push(b, item)
<1>1. Len(targets) = n /\ DOMAIN targets = 1..n
  OBVIOUS
<1>2. OffsetsArena(a, targets) =
        IF Failed(d) \/ bad = {} THEN d ELSE Throw(d, "UnreachableOffset")
  BY <1>1 DEF OffsetsArena
<1>3. Continues(a, b)
  BY StartVectorContinues
<1>4. Good(b) /\ Off(b) \in Nat
  BY <1>3 DEF Continues, Good, ArenaTypeOK, Off
<1>5. m \in 0..n /\ \A k \in (m + 1)..n : k \notin bad
  <2>1. bad \subseteq 1..n
    BY <1>1 DEF Unreachable
  <2> HIDE DEF bad
  <2> QED BY <2>1, LastOfLast
<1> HIDE DEF b, m
<1>6. /\ dist \in Seq(Int) /\ Len(dist) = n - m
      /\ \A k \in DOMAIN dist :
            dist[k] \in 4 .. (Off(b) + 4 * (n - m) - 4 * (k - 1))
  BY <1>4, <1>5, DistancesLeadBack
<1> HIDE DEF bad, dist
<1>7. item \in Item /\ LeadsBackFrom(item, Off(b) + item.size)
  <2>1. /\ item \in Item /\ item.size = 4 * (n - m) /\ item.val = dist
    BY <1>5, <1>6 DEF MkCell, Item, CellKinds
  <2> HIDE DEF item
  <2>2. Off(b) + item.size \in Nat
    BY <1>4, <1>5, <2>1
  <2>3. DOMAIN item.val = 1..(n - m) /\ n - m \in Nat
    BY <1>5, <1>6, <2>1
  <2>4. ASSUME NEW k \in 1..(n - m)
        PROVE  item.val[k] \in 4 .. ((Off(b) + item.size) - 4 * (k - 1))
    <3>1. k \in DOMAIN dist /\ item.val[k] = dist[k]
      BY <2>1, <2>3
    <3>2. dist[k] \in 4 .. (Off(b) + 4 * (n - m) - 4 * (k - 1))
      BY <1>6, <3>1
    <3>3. (Off(b) + item.size) - 4 * (k - 1) = Off(b) + 4 * (n - m) - 4 * (k - 1)
      BY <1>4, <1>5, <2>1
    <3> QED BY <3>1, <3>2, <3>3
  <2>5. LeadsBackFrom(item, Off(b) + item.size)
    BY <2>2, <2>3, <2>4 DEF LeadsBackFrom
  <2> QED BY <2>1, <2>5
<1> HIDE DEF item, d
<1>8. Continues(b, d)
  BY <1>4, <1>7, PushContinues DEF d
<1>9. Continues(d, Throw(d, "UnreachableOffset"))
  BY <1>8, ThrowContinues DEF Continues, Outcomes
<1>10. Continues(a, d)
  BY <1>3, <1>8, ContinuesTrans
<1> QED BY <1>2, <1>9, <1>10, ContinuesTrans

-----------------------------------------------------------------------------
(* The end of an object.                                                   *)

\* The shorts endObject writes, with and without the two in front, are numbers.
LEMMA ShortsAreInts ==
    ASSUME IInv, NEW object \in Nat
    PROVE  /\ VtableFields(object) \in Seq(Int)
           /\ VtableShorts(object) \in Seq(Int) /\ VtableShorts(object) # <<>>
<1> DEFINE two  == <<(2 * (Len(vtable) + 2)) % VOffsetRange,
                     (object - objectEnd) % VOffsetRange>>
           rest == VtableFields(object)
<1>1. VOffsetRange \in Nat \ {0} /\ objectEnd \in Nat /\ vtable \in Seq(Nat)
  BY BuilderAssumption DEF IInv, TypeOK
<1>2. two \in Seq(Int) /\ Len(two) = 2
  <2>1. (2 * (Len(vtable) + 2)) % VOffsetRange \in Int
    BY <1>1
  <2>2. (object - objectEnd) % VOffsetRange \in Int
    BY <1>1
  <2> QED BY <2>1, <2>2
<1>3. rest \in Seq(Int)
  <2>1. \A i \in 1..Len(vtable) :
          (IF vtable[i] = 0 THEN 0 ELSE (object - vtable[i]) % VOffsetRange) \in Int
    BY <1>1
  <2>2. Len(vtable) \in Nat
    BY <1>1
  <2> QED BY <2>1, <2>2 DEF VtableFields
<1>4. VtableShorts(object) = two \o rest
  BY DEF VtableShorts
<1> HIDE DEF two, rest
<1>5. two \o rest \in Seq(Int) /\ Len(two \o rest) = 2 + Len(rest)
  <2>1. two \in Seq(Int) /\ rest \in Seq(Int)
    BY <1>2, <1>3
  <2>2. two \o rest \in Seq(Int)
    BY <2>1, ConcatProperties, Zenon
  <2>3. Len(two \o rest) = Len(two) + Len(rest)
    BY <2>1, ConcatProperties, Zenon
  <2> QED BY <1>2, <2>2, <2>3
<1>6. Len(rest) \in Nat
  BY <1>3
<1>7. Len(two \o rest) # 0
  BY <1>5, <1>6
<1>8. two \o rest # <<>>
  BY <1>7
<1> QED BY <1>3, <1>4, <1>5, <1>8 DEF rest

\* Writing the vtable of an object disturbs nothing; when it has been written
\* it is the item in front of everything else.
LEMMA PutVtableContinues ==
    ASSUME IInv, NEW STATE a, Good(a), NEW object \in Nat
    PROVE  /\ Continues(a, PutVtable(a, object))
           /\ LET b == PutVtable(a, object) IN
              ~Failed(b) => Off(b) \in DOMAIN b.cells /\ b.cells[Off(b)].kind = "vtable"
<1> DEFINE long  == PutShorts(a, VtableShorts(object))
           short == PutShorts(a, VtableFields(object))
<1>1. Continues(a, long) /\ Continues(a, short)
  BY ShortsAreInts, PutShortsContinues
<1>2. ~Failed(long) => Off(long) \in DOMAIN long.cells /\ long.cells[Off(long)].kind = "vtable"
  BY ShortsAreInts, PutSomeShortsContinues
<1>3. PutVtable(a, object) \in {long, short, Throw(short, "trap")}
  BY DEF PutVtable
<1>4. objectEnd \in Nat /\ (object >= objectEnd => PutVtable(a, object) = long)
  BY DEF PutVtable, IInv, TypeOK
<1>5. ~(object >= objectEnd) => Failed(PutVtable(a, object))
  <2>1. ASSUME NEW x PROVE Failed(Throw(x, "trap")) \/ x \notin {short}
    BY <1>1 DEF Failed, Throw, Continues, Good, ArenaTypeOK
  <2>2. Failed(Throw(short, "trap"))
    BY <2>1
  <2> QED BY <2>2 DEF PutVtable
<1> HIDE DEF long, short
<1>6. Continues(a, Throw(short, "trap"))
  BY <1>1, ThrowContinues, ContinuesTrans DEF Continues, Outcomes
<1> QED BY <1>1, <1>2, <1>3, <1>4, <1>5, <1>6

\* The patch goes to the table offset of this object and nowhere else,
\* however much the buffer has grown since it was placed.
LEMMA PatchContinues ==
    ASSUME NEW a, NEW p, NEW b, Good(a), Continues(a, p), Continues(p, b),
           Off(p) >= Off(a) + 4, Off(p) \in DOMAIN p.cells,
           p.cells[Off(p)].size = 4, NEW target \in Int
    PROVE  LET d == PatchSOffset(b, Off(p), target) IN
           /\ Continues(a, d)
           /\ ~Failed(d) =>
                 /\ ~Failed(b) /\ Off(d) = Off(b)
                 /\ \A s \in DOMAIN b.cells :
                       s # Off(p) => s \in DOMAIN d.cells /\ d.cells[s] = b.cells[s]
<1> DEFINE r  == Off(p)
           c  == MkCell(4, 4, "soffset", <<target - r>>)
           at == b.count - r
           d  == [b EXCEPT !.cells = Overwritten(@, r, c)]
<1>1. Continues(a, b) /\ Good(b)
  BY ContinuesTrans DEF Continues
<1>2. r \in Nat /\ r >= 4 /\ r > Off(a) /\ r <= Off(b) /\ b.count \in Nat
  BY <1>1 DEF Continues, Good, ArenaTypeOK, Off
<1>3. r \in DOMAIN b.cells /\ b.cells[r].size = 4
  BY DEF Continues, Keeps
<1>4. PatchSOffset(b, r, target) = Write(b, at, c)
  BY DEF PatchSOffset
<1> HIDE DEF r
<1>5. c \in Item /\ c.size = 4 /\ LeadsBackFrom(c, r)
  <2>1. c \in Item /\ c.size = 4 /\ c.kind = "soffset"
    BY <1>2 DEF Item, MkCell, CellKinds
  <2> HIDE DEF c
  <2> QED BY <2>1 DEF LeadsBackFrom
<1> HIDE DEF c
<1>6. CASE Failed(b)
  BY <1>1, <1>4, <1>6 DEF Write, r
<1>7. CASE ~Failed(b)
  <2>1. ~(at + c.size > b.count) /\ b.count - at = r
    BY <1>2, <1>5
  <2>2. Write(b, at, c) = d
    BY <1>7, <2>1 DEF Write
  <2>3. \A s \in DOMAIN b.cells : s = r \/ ~Overlap(r, c.size, s, b.cells[s].size)
    BY <1>1, <1>3, <1>5 DEF Good, Apart
  <2>4. /\ Good(d)
        /\ \A s \in DOMAIN b.cells :
              s # r => s \in DOMAIN d.cells /\ d.cells[s] = b.cells[s]
    BY <1>1, <1>2, <1>5, <2>3, OverwrittenGood
  <2>5. d.count = b.count /\ d.head = b.head
    BY <1>1 DEF Good, ArenaTypeOK
  <2> HIDE DEF d
  <2>6. \A s \in DOMAIN a.cells : s # r
    BY <1>2 DEF Good, Apart, ArenaTypeOK, Off
  <2>7. Keeps(a, d)
    BY <1>1, <2>4, <2>6 DEF Continues, Keeps
  <2>8. Off(a) <= Off(d) /\ Off(d) = Off(b)
    BY <1>1, <2>5 DEF Continues, Off
  <2> QED BY <1>4, <1>7, <2>2, <2>4, <2>7, <2>8 DEF Continues, r
<1> QED BY <1>6, <1>7

\* writeVirtualTable continues the buffer, with a vtable of its own or a shared
\* one, and wherever it fails.
LEMMA WriteVirtualTableContinues ==
    ASSUME IInv, NEW flag, WriteVirtualTableThen(flag)
    PROVE  Continues(Fresh, arena')
<1> DEFINE placed   == PutSOffset(Fresh, 0)
           object   == Off(placed)
           badRange == /\ ~Failed(placed)
                       /\ \E k \in Examined(placed) : VtableBytes(placed, vtables[k]) < 3
           shared   == {vtables[k] : k \in Equal(placed)} \ {0}
           shorts   == PutVtable(placed, object)
           existing == CHOOSE r \in shared : TRUE
           written  == IF shared = {}
                       THEN PatchSOffset(shorts, object, Off(shorts))
                       ELSE PatchSOffset(placed, object, existing)
<1>1. arena' = written \/ (badRange /\ arena' = Throw(placed, "trap"))
  BY DEF WriteVirtualTableThen
<1>2. /\ Good(Fresh) /\ Continues(Fresh, placed) /\ Good(placed)
      /\ object \in Nat
      /\ ~Failed(placed) => /\ object >= Off(Fresh) + 4
                            /\ object \in DOMAIN placed.cells
                            /\ placed.cells[object].size = 4
  BY IInvGood, PutSOffsetContinues DEF Continues, Good, ArenaTypeOK, Off
<1> HIDE DEF placed
<1>3. Continues(placed, shorts)
  BY <1>2, PutVtableContinues
<1>4. Continues(placed, placed)
  BY <1>2, ContinuesSelf
<1>5. Off(shorts) \in Int
  BY <1>3 DEF Continues, Good, ArenaTypeOK, Off
<1>6. shared # {} => existing \in Int
  <2>1. shared \subseteq Nat
    BY DEF IInv, TypeOK, Equal, Examined
  <2> HIDE DEF shared
  <2>2. ASSUME shared # {} PROVE existing \in shared
    <3>1. \E r \in shared : TRUE
      BY <2>2
    <3> QED BY <3>1
  <2> HIDE DEF existing
  <2>3. \A x \in shared : x \in Int
    BY <2>1
  <2> QED BY <2>2, <2>3
<1> HIDE DEF shared, existing, shorts
<1>7. Continues(Fresh, written)
  <2>1. CASE ~Failed(placed)
    <3>1. Continues(Fresh, PatchSOffset(shorts, object, Off(shorts)))
      BY <1>2, <1>3, <1>5, <2>1, PatchContinues
    <3>2. shared # {} => Continues(Fresh, PatchSOffset(placed, object, existing))
      BY <1>2, <1>4, <1>6, <2>1, PatchContinues
    <3> QED BY <3>1, <3>2
  <2>2. CASE Failed(placed)
    <3>1. shorts = placed
      BY <2>2 DEF PutShorts, PutRun, PutVtable, shorts
    <3>2. PatchSOffset(placed, object, Off(shorts)) = placed
      BY <2>2 DEF PatchSOffset, Write
    <3>3. PatchSOffset(placed, object, existing) = placed
      BY <2>2 DEF PatchSOffset, Write
    <3>4. written = placed
      BY <3>1, <3>2, <3>3
    <3> QED BY <1>2, <3>4
  <2> QED BY <2>1, <2>2
<1>8. Continues(Fresh, Throw(placed, "trap"))
  BY <1>2, ThrowContinues, ContinuesTrans DEF Outcomes
<1> QED BY <1>1, <1>7, <1>8

\* endObject registers a vtable only once all of it has been written, and
\* the patch of the table offset behind it leaves it as it is.
LEMMA WriteVirtualTableRegisters ==
    ASSUME IInv, NEW flag, WriteVirtualTableThen(flag)
    PROVE  /\ vtable' = vtable \/ vtable' = <<>>
           /\ \/ vtables' = vtables
              \/ /\ vtables' = Append(vtables, Off(arena'))
                 /\ Off(arena') \in DOMAIN arena'.cells
                 /\ arena'.cells[Off(arena')].kind = "vtable"
<1> DEFINE placed   == PutSOffset(Fresh, 0)
           object   == Off(placed)
           shared   == {vtables[k] : k \in Equal(placed)} \ {0}
           shorts   == PutVtable(placed, object)
           written  == PatchSOffset(shorts, object, Off(shorts))
<1>1. vtable' = vtable \/ vtable' = <<>>
  BY DEF WriteVirtualTableThen
<1>2. \/ vtables' = vtables
      \/ /\ vtables' = Append(vtables, Off(written))
         /\ arena' = written /\ ~Failed(written)
  BY DEF WriteVirtualTableThen
<1>3. /\ Good(Fresh) /\ Continues(Fresh, placed) /\ Good(placed)
      /\ object \in Nat
      /\ ~Failed(placed) => /\ object >= Off(Fresh) + 4
                            /\ object \in DOMAIN placed.cells
                            /\ placed.cells[object].size = 4
                            /\ placed.cells[object].kind = "soffset"
  BY IInvGood, PutSOffsetContinues DEF Continues, Good, ArenaTypeOK, Off
<1> HIDE DEF placed
<1>4. /\ Continues(placed, shorts)
      /\ ~Failed(shorts) => /\ Off(shorts) \in DOMAIN shorts.cells
                            /\ shorts.cells[Off(shorts)].kind = "vtable"
  BY <1>3, PutVtableContinues
<1>5. ~Failed(shorts) => ~Failed(placed)
  BY DEF PutVtable, PutShorts, PutRun, shorts
<1>6. Off(shorts) \in Int
  BY <1>4 DEF Continues, Good, ArenaTypeOK, Off
<1> HIDE DEF shorts
<1>7. CASE Failed(shorts)
  <2>1. written = shorts
    BY <1>7 DEF PatchSOffset, Write
  <2> QED BY <1>1, <1>2, <1>7, <2>1
<1>8. CASE ~Failed(shorts)
  <2>1. ~Failed(written) =>
          /\ Off(written) = Off(shorts)
          /\ \A s \in DOMAIN shorts.cells :
                s # object => s \in DOMAIN written.cells /\ written.cells[s] = shorts.cells[s]
    BY <1>3, <1>4, <1>5, <1>6, <1>8, PatchContinues
  <2>2. Off(shorts) # object
    BY <1>3, <1>4, <1>5, <1>8 DEF Continues, Keeps
  <2> HIDE DEF written
  <2> QED BY <1>1, <1>2, <1>4, <1>8, <2>1, <2>2
<1> QED BY <1>7, <1>8

\* finish, from whatever buffer the identifier has left.
LEMMA FinishContinues ==
    ASSUME NEW a, Good(a), Continues(Fresh, a), Good(Fresh), NEW root \in Nat,
           FinishArena(a, root)
    PROVE  Continues(Fresh, arena')
<1> DEFINE b == Prepare(a, a.minalign, 4)
<1>1. a.minalign \in Nat \ {0}
  BY DEF Good, ArenaTypeOK
<1>2. Continues(a, b)
  BY <1>1, PrepareContinues
<1>3. arena' = PutUOffset(b, root)
  BY DEF FinishArena
<1> HIDE DEF b
<1>4. Continues(b, PutUOffset(b, root))
  BY <1>2, PutUOffsetContinues DEF Continues
<1> QED BY <1>2, <1>3, <1>4, ContinuesTrans

-----------------------------------------------------------------------------
(* Every call continues the buffer it finds, except reset.                 *)

\* A call that is refused leaves the buffer alone.
LEMMA RefuseContinues ==
    ASSUME IInv, NEW e \in Outcomes, Refuse(e)
    PROVE  Continues(Fresh, arena')
BY IInvGood, ThrowContinues DEF Refuse, OnlyArena

\* Forgetting the last outcome does, too.
LEMMA FreshContinues ==
    ASSUME IInv
    PROVE  Good(Fresh) /\ Continues(Fresh, Fresh)
BY IInvGood, ContinuesSelf

\* Recording a field adds nothing to what has been written.
LEMMA RecordFieldContinues ==
    ASSUME IInv, NEW index, NEW STATE b, Continues(Fresh, b), RecordField(index, b)
    PROVE  Continues(Fresh, arena')
<1>1. arena' = b \/ arena' = Throw(b, "trap")
  BY DEF RecordField
<1>2. Continues(b, Throw(b, "trap"))
  BY ThrowContinues DEF Continues, Outcomes
<1>3. Continues(Fresh, Throw(b, "trap"))
  BY <1>2, FreshContinues, ContinuesTrans
<1> QED BY <1>1, <1>3

\* Writing a scalar, prepared for or not, continues the buffer, also where the
\* value is one that traps.
LEMMA PushScalarContinues ==
    ASSUME IInv, NEW t \in ScalarTypes, NEW v \in Values
    PROVE  Continues(Fresh, PushScalar(Fresh, t, v)) /\ Continues(Fresh, ScalarPut(t, v))
<1>1. ASSUME NEW a, Good(a) PROVE Continues(a, PushScalar(a, t, v))
  <2>1. Continues(a, Push(a, Scalar(WidthOf[t], v)))
    BY <1>1, ScalarItem, PushContinues
  <2>2. Continues(a, Throw(a, "trap"))
    BY <1>1, ThrowContinues DEF Outcomes
  <2> QED BY <2>1, <2>2 DEF PushScalar
<1> DEFINE b == Prepare(Fresh, WidthOf[t], 0)
<1>2. Continues(Fresh, b)
  BY FreshContinues, WidthsPositive, PrepareContinues
<1>3. Good(b)
  BY <1>2 DEF Continues
<1>4. ScalarPut(t, v) = PushScalar(b, t, v)
  BY DEF ScalarPut
<1> HIDE DEF b
<1>5. Continues(Fresh, PushScalar(b, t, v))
  BY <1>1, <1>2, <1>3, FreshContinues, ContinuesTrans
<1> QED BY <1>1, <1>4, <1>5, FreshContinues

\* Scalars, offsets, structs, prepare and paddingZero.
LEMMA PutCallsContinue ==
    ASSUME IInv, PutCalls
    PROVE  Continues(Fresh, arena')
<1> USE FreshContinues
<1>t. {"trap", "InvalidConstructionOrder", "InlineDataOutsideObject"} \subseteq Outcomes
  BY DEF Outcomes
<1>1. ASSUME NEW t \in ScalarTypes, NEW v \in Values, PutScalar(t, v)
      PROVE  Continues(Fresh, arena')
  BY <1>1, PushScalarContinues DEF PutScalar, OnlyArena
<1>2. ASSUME NEW t \in ScalarTypes, NEW v \in Values, PutScalarWithoutPrepare(t, v)
      PROVE  Continues(Fresh, arena')
  BY <1>2, PushScalarContinues DEF PutScalarWithoutPrepare, OnlyArena
<1>3. ASSUME NEW t \in ScalarTypes, NEW v \in Values, NEW i, NEW d,
             PutScalarField(i, t, v, d)
      PROVE  Continues(Fresh, arena')
  BY <1>3, PushScalarContinues, RecordFieldContinues DEF PutScalarField, OnlyArena
<1>4. ASSUME NEW o \in Targets
      PROVE  /\ o \in Nat /\ o \in Int
             /\ Continues(Fresh, PutUOffset(Fresh, o))
             /\ Continues(Fresh, PutSOffset(Fresh, o))
  BY BuilderAssumption, PutUOffsetContinues, PutSOffsetContinues
<1>5. ASSUME NEW o \in Targets, PutUnsignedTableOffset(o)
      PROVE  Continues(Fresh, arena')
  BY <1>4, <1>5 DEF PutUnsignedTableOffset, OnlyArena
<1>6. ASSUME NEW o \in Targets, OnlyArena(PutSOffset(Fresh, o))
      PROVE  Continues(Fresh, arena')
  BY <1>4, <1>6 DEF OnlyArena
<1>7. ASSUME NEW o \in Targets, NEW i, NEW d, PutOffset(i, o, d)
      PROVE  Continues(Fresh, arena')
  BY <1>4, <1>7, RecordFieldContinues DEF PutOffset, OnlyArena
<1>8. ASSUME NEW o \in Targets, NEW i, NEW d, PutStruct(i, o, d)
      PROVE  Continues(Fresh, arena')
  BY <1>8, <1>t, RefuseContinues, RecordFieldContinues
     DEF PutStruct, OnlyArena, AssertNestedFails
<1>9. ASSUME NEW n \in Alignments, NEW m \in Lengths, OnlyArena(Prepare(Fresh, n, m))
      PROVE  Continues(Fresh, arena')
  BY <1>9, AlignmentsPositive, BuilderAssumption, PrepareContinues DEF OnlyArena
<1>10. ASSUME NEW n \in Lengths, OnlyArena(PaddingZero(Fresh, n))
       PROVE  Continues(Fresh, arena')
  BY <1>10, BuilderAssumption, PaddingZeroContinues DEF OnlyArena
<1> QED BY <1>1, <1>2, <1>3, <1>5, <1>6, <1>7, <1>8, <1>9, <1>10 DEF PutCalls

\* Vectors and strings.
LEMMA VectorCallsContinue ==
    ASSUME IInv, VectorCalls
    PROVE  Continues(Fresh, arena')
<1> USE FreshContinues
<1>t. "InvalidConstructionOrder" \in Outcomes
  BY DEF Outcomes
<1>n. Lengths \subseteq Nat /\ Targets \subseteq Nat
  BY BuilderAssumption
<1>1. ASSUME NEW n \in Lengths, EndVector(n)
      PROVE  Continues(Fresh, arena')
  BY <1>1, <1>t, <1>n, RefuseContinues, LengthContinues
     DEF EndVector, AssertNestedFails, FinishVector
<1>2. ASSUME NEW n \in Lengths, CreateString(n)
      PROVE  Continues(Fresh, arena')
  <2>1. MkCell(n + 1, 1, "string", <<>>) \in Item
    BY <1>n DEF MkCell, Item, CellKinds
  <2>2. MkCell(n + 1, 1, "string", <<>>).kind # "uoffset"
    BY DEF MkCell
  <2>3. Continues(Fresh, Push(Prepare(Fresh, 4, n + 1), MkCell(n + 1, 1, "string", <<>>)))
    BY <1>n, <2>1, <2>2, PreparedPushContinues
  <2> QED BY <1>2, <1>t, <1>n, <2>3, RefuseContinues, LengthContinues
          DEF CreateString, AssertNotNestedFails, FinishVector
<1>3. ASSUME NEW n \in Lengths, CreateByteVector(n)
      PROVE  Continues(Fresh, arena')
  <2>1. MkCell(n, 1, "bytes", <<>>) \in Item
    BY <1>n DEF MkCell, Item, CellKinds
  <2>2. MkCell(n, 1, "bytes", <<>>).kind # "uoffset"
    BY DEF MkCell
  <2>3. Continues(Fresh, Push(Prepare(Fresh, 4, n + 1), MkCell(n, 1, "bytes", <<>>)))
    BY <1>n, <2>1, <2>2, PreparedPushContinues
  <2> QED BY <1>3, <1>t, <1>n, <2>3, RefuseContinues, LengthContinues
          DEF CreateByteVector, AssertNotNestedFails, FinishVector
<1>4. ASSUME NEW n \in Lengths, NEW t \in ScalarTypes, NEW al \in Alignments,
             StartVector(WidthOf[t], n, al)
      PROVE  Continues(Fresh, arena')
  <2>1. Continues(Fresh, StartVectorArena(Fresh, WidthOf[t], n, al))
    BY <1>n, WidthsPositive, AlignmentsPositive, StartVectorContinues
  <2> QED BY <1>4, <1>t, <2>1, RefuseContinues DEF StartVector, AssertNotNestedFails
<1>5. ASSUME NEW n \in Lengths, NEW s \in [1..n -> Targets], CreateVectorOfTables(s)
      PROVE  Continues(Fresh, arena')
  <2>1. s \in [1..n -> Nat] /\ Len(s) \in Nat /\ n \in Nat
    <3>1. n \in Nat
      BY <1>n
    <3>2. s \in [1..n -> Nat]
      BY <1>n
    <3>3. Len(s) = n
      BY <3>1, <3>2
    <3> QED BY <3>1, <3>2, <3>3
  <2>2. Continues(Fresh, OffsetsArena(Fresh, s))
    BY <2>1, OffsetsContinue
  <2> QED BY <1>5, <1>t, <2>1, <2>2, RefuseContinues, LengthContinues
          DEF CreateVectorOfTables, AssertNotNestedFails, FinishVector
<1> QED BY <1>1, <1>2, <1>3, <1>4, <1>5 DEF VectorCalls

\* Objects.
LEMMA ObjectCallsContinue ==
    ASSUME IInv, ObjectCalls
    PROVE  Continues(Fresh, arena')
<1>t. {"InvalidConstructionOrder", "trap"} \subseteq Outcomes
  BY DEF Outcomes
<1>1. ASSUME NEW n \in FieldCounts, StartObject(n)
      PROVE  Continues(Fresh, arena')
  <2>1. Continues(Fresh, [Fresh EXCEPT !.minalign = 1])
    BY FreshContinues DEF Continues, Good, ArenaTypeOK, Apart, LeadBack, Keeps, Off
  <2> QED BY <1>1, <1>t, <2>1, RefuseContinues DEF StartObject, AssertNotNestedFails
<1>2. ASSUME EndObject
      PROVE  Continues(Fresh, arena')
  BY <1>2, <1>t, RefuseContinues, WriteVirtualTableContinues
     DEF EndObject, AssertNestedFails
<1>3. ASSUME WriteVirtualTable
      PROVE  Continues(Fresh, arena')
  BY <1>3, WriteVirtualTableContinues DEF WriteVirtualTable
<1> QED BY <1>1, <1>2, <1>3 DEF ObjectCalls

\* finish, getData, forceDefault; reset starts with an empty buffer.
LEMMA BuilderCallsContinueOrReset ==
    ASSUME IInv, BuilderCalls
    PROVE  Reset \/ Continues(Fresh, arena')
<1> USE FreshContinues
<1>t. {"InvalidConstructionOrder", "BuilderHasnotFinishYet", "InvalidFileIdentifier"}
        \subseteq Outcomes
  BY DEF Outcomes
<1>2. ASSUME NEW b \in BOOLEAN, ForceDefault(b)
      PROVE  Continues(Fresh, arena')
  BY <1>2 DEF ForceDefault
<1>3. ASSUME GetData
      PROVE  Continues(Fresh, arena')
  BY <1>3, <1>t, RefuseContinues DEF GetData, OnlyArena
<1>4. ASSUME NEW o \in Targets, Finish(o)
      PROVE  Continues(Fresh, arena')
  <2>1. o \in Nat
    BY BuilderAssumption
  <2>2. ASSUME FinishArena(Fresh, o) PROVE Continues(Fresh, arena')
    BY <2>1, <2>2, FinishContinues
  <2> QED BY <1>4, <1>t, <2>2, RefuseContinues DEF Finish, AssertNotNestedFails
<1>5. ASSUME NEW o \in Targets, NEW id \in Identifiers, FinishWithIdentifier(o, id)
      PROVE  Continues(Fresh, arena')
  <2> DEFINE b == Prepare(Fresh, Fresh.minalign, 8)
             item == MkCell(id.bytes, 1, "ident", <<>>)
             c == PutRun(b, 1, item)
  <2>1. o \in Nat /\ id.bytes \in Nat \ {0}
    BY BuilderAssumption
  <2>2. Fresh.minalign \in Nat \ {0}
    BY DEF Good, ArenaTypeOK
  <2>3. Continues(Fresh, b)
    BY <2>2, PrepareContinues
  <2>4. item \in Item /\ item.kind = "ident" /\ item.size >= 1
    BY <2>1 DEF MkCell, Item, CellKinds
  <2>5. FinishWithIdentifier(o, id) =>
          \/ arena' = b
          \/ arena' = Throw(b, "InvalidFileIdentifier")
          \/ arena' = c
          \/ arena' = Throw(c, "InvalidConstructionOrder")
          \/ FinishArena(c, o)
    BY DEF FinishWithIdentifier, OnlyArena
  <2> HIDE DEF b, item
  <2>6. Continues(b, c)
    BY <2>3, <2>4, PutSomeRunContinues DEF Continues
  <2> HIDE DEF c
  <2>7. Continues(Fresh, c) /\ Good(c) /\ Good(b)
    BY <2>3, <2>6, ContinuesTrans DEF Continues
  <2>8. /\ Continues(Fresh, Throw(b, "InvalidFileIdentifier"))
        /\ Continues(Fresh, Throw(c, "InvalidConstructionOrder"))
    BY <1>t, <2>3, <2>7, ThrowContinues, ContinuesTrans
  <2>9. ASSUME FinishArena(c, o) PROVE Continues(Fresh, arena')
    BY <2>1, <2>7, <2>9, FinishContinues
  <2> QED BY <1>5, <2>3, <2>5, <2>7, <2>8, <2>9
<1> QED BY <1>2, <1>3, <1>4, <1>5 DEF BuilderCalls

\* Every step continues the buffer, or empties it.
LEMMA NextContinues ==
    ASSUME IInv, Next
    PROVE  arena' = EmptyArena(0) \/ Continues(Fresh, arena')
BY PutCallsContinue, VectorCallsContinue, ObjectCallsContinue,
   BuilderCallsContinueOrReset DEF Next, Reset

-----------------------------------------------------------------------------
(* The other variables keep their types.                                   *)

RestTypeOK ==
    /\ vtable \in Seq(Nat) /\ vtables \in Seq(Nat)
    /\ objectEnd \in Nat
    /\ nested \in BOOLEAN /\ finished \in BOOLEAN /\ forceDefaults \in BOOLEAN

\* The vtable of no object.
LEMMA EmptyType == <<>> \in Seq(Nat)
OBVIOUS

\* The vtable of an object without fields set.
LEMMA ZerosType ==
    ASSUME NEW n \in Nat
    PROVE  Zeros(n) \in Seq(Nat)
BY DEF Zeros

\* Recording a field keeps the types of everything but the buffer ...
LEMMA RecordFieldTypes ==
    ASSUME IInv, NEW index, NEW STATE b, Continues(Fresh, b), RecordField(index, b)
    PROVE  RestTypeOK'
<1>1. Off(b) \in Nat
  BY DEF Continues, Good, ArenaTypeOK, Off
<1>2. index \in DOMAIN vtable => [vtable EXCEPT ![index] = Off(b)] \in Seq(Nat)
  BY <1>1 DEF IInv, TypeOK
<1> QED BY <1>2 DEF RecordField, RestTypeOK, IInv, TypeOK

\* ... so does the end of an object ...
LEMMA WriteVirtualTableTypes ==
    ASSUME IInv, NEW flag \in BOOLEAN, WriteVirtualTableThen(flag)
    PROVE  RestTypeOK'
<1>1. vtable' \in {vtable, <<>>} /\ nested' \in {nested, flag}
  BY DEF WriteVirtualTableThen
<1>2. vtables' \in {vtables, Append(vtables, Off(arena'))}
  BY DEF WriteVirtualTableThen
<1>3. Off(arena') \in Nat
  BY WriteVirtualTableContinues DEF Continues, Good, ArenaTypeOK, Off
<1>4. vtables' \in Seq(Nat)
  BY <1>2, <1>3 DEF IInv, TypeOK
<1>5. UNCHANGED <<objectEnd, finished, forceDefaults>>
  BY DEF WriteVirtualTableThen
<1>6. vtable' \in Seq(Nat)
  BY <1>1, EmptyType, Zenon DEF IInv, TypeOK
<1>7. nested' \in BOOLEAN
  BY <1>1, Zenon DEF IInv, TypeOK
<1>8. objectEnd' \in Nat /\ finished' \in BOOLEAN /\ forceDefaults' \in BOOLEAN
  BY <1>5, Zenon DEF IInv, TypeOK
<1> QED BY <1>4, <1>6, <1>7, <1>8 DEF RestTypeOK

\* ... and so do the calls that put ...
LEMMA PutCallsTypes ==
    ASSUME IInv, PutCalls
    PROVE  RestTypeOK'
<1>0. RestTypeOK
  BY DEF RestTypeOK, IInv, TypeOK
<1>1. ASSUME NEW STATE b, OnlyArena(b) PROVE RestTypeOK'
  BY <1>0, <1>1 DEF OnlyArena, RestTypeOK
<1>2. ASSUME NEW e, Refuse(e) PROVE RestTypeOK'
  BY <1>0, <1>2 DEF Refuse, OnlyArena, RestTypeOK
<1>3. ASSUME NEW t \in ScalarTypes, NEW v \in Values, NEW i, NEW d,
             PutScalarField(i, t, v, d)
      PROVE  RestTypeOK'
  <2>1. Continues(Fresh, ScalarPut(t, v))
    BY PushScalarContinues
  <2> QED BY <1>1, <1>2, <1>3, <2>1, RecordFieldTypes DEF PutScalarField
<1>4. ASSUME NEW o \in Targets, NEW i, NEW d, PutOffset(i, o, d)
      PROVE  RestTypeOK'
  <2>1. Continues(Fresh, PutUOffset(Fresh, o))
    BY BuilderAssumption, FreshContinues, PutUOffsetContinues
  <2> QED BY <1>1, <1>4, <2>1, RecordFieldTypes DEF PutOffset
<1>5. ASSUME NEW o \in Targets, NEW i, NEW d, PutStruct(i, o, d)
      PROVE  RestTypeOK'
  BY <1>1, <1>2, <1>5, FreshContinues, RecordFieldTypes DEF PutStruct, AssertNestedFails
<1> QED BY <1>1, <1>2, <1>3, <1>4, <1>5
        DEF PutCalls, PutScalar, PutScalarWithoutPrepare, PutUnsignedTableOffset

\* ... and all the others.
LEMMA OtherCallsTypes ==
    ASSUME IInv, VectorCalls \/ ObjectCalls \/ BuilderCalls
    PROVE  RestTypeOK'
<1>0. RestTypeOK
  BY DEF RestTypeOK, IInv, TypeOK
<1>1. ASSUME NEW STATE b, OnlyArena(b) PROVE RestTypeOK'
  BY <1>0, <1>1 DEF OnlyArena, RestTypeOK
<1>2. ASSUME NEW e, Refuse(e) PROVE RestTypeOK'
  BY <1>0, <1>2 DEF Refuse, OnlyArena, RestTypeOK
<1>3. ASSUME NEW STATE b, NEW n, FinishVector(b, n) PROVE RestTypeOK'
  BY <1>0, <1>3 DEF FinishVector, RestTypeOK, Failed
<1>4. ASSUME NEW STATE b, NEW o, FinishArena(b, o) PROVE RestTypeOK'
  BY <1>0, <1>4 DEF FinishArena, RestTypeOK, Failed
<1>5. ASSUME VectorCalls PROVE RestTypeOK'
  BY <1>0, <1>2, <1>3, <1>5
     DEF VectorCalls, EndVector, CreateString, CreateByteVector, StartVector,
         CreateVectorOfTables, AssertNestedFails, AssertNotNestedFails, RestTypeOK
<1>6. ASSUME NEW n \in FieldCounts, StartObject(n) PROVE RestTypeOK'
  <2>1. n \in Nat
    BY BuilderAssumption
  <2>2. n > 0 => Zeros(n) \in Seq(Nat) /\ Zeros(n - 1) \in Seq(Nat)
    BY <2>1, ZerosType
  <2>3. Off(arena) \in Nat
    BY IInvGood
  <2> QED BY <1>0, <1>2, <1>6, <2>2, <2>3 DEF StartObject, AssertNotNestedFails, RestTypeOK
<1>7. ASSUME EndObject PROVE RestTypeOK'
  BY <1>2, <1>7, WriteVirtualTableTypes DEF EndObject, AssertNestedFails
<1>8. ASSUME WriteVirtualTable PROVE RestTypeOK'
  BY <1>0, <1>8, WriteVirtualTableTypes DEF WriteVirtualTable, RestTypeOK
<1>9. ASSUME BuilderCalls PROVE RestTypeOK'
  <2>1. ASSUME Reset PROVE RestTypeOK'
    <3>1. vtable' \in Seq(Nat) /\ vtables' \in Seq(Nat)
      BY <2>1 DEF Reset
    <3>2. nested' \in BOOLEAN /\ finished' \in BOOLEAN
      BY <2>1 DEF Reset
    <3>3. objectEnd' \in Nat /\ forceDefaults' \in BOOLEAN
      BY <1>0, <2>1, Zenon DEF Reset, RestTypeOK
    <3> QED BY <3>1, <3>2, <3>3 DEF RestTypeOK
  <2>2. ASSUME NEW b \in BOOLEAN, ForceDefault(b) PROVE RestTypeOK'
    BY <1>0, <2>2 DEF ForceDefault, RestTypeOK
  <2> QED BY <1>1, <1>2, <1>4, <1>9, <2>1, <2>2
          DEF BuilderCalls, GetData, Finish, FinishWithIdentifier, AssertNotNestedFails
<1> QED BY <1>5, <1>6, <1>7, <1>8, <1>9 DEF ObjectCalls

-----------------------------------------------------------------------------
(* The theorems.                                                           *)

\* A new builder satisfies the invariant ...
LEMMA InitIInv == Init => IInv
<1>1. ASSUME Init PROVE (\E c \in Nat : arena = EmptyArena(c)) /\ RestTypeOK
  <2>1. \E c \in Nat : arena = EmptyArena(c)
    BY <1>1, BuilderAssumption DEF Init, InitWithCapacity, InitWithData
  <2>2. vtables \in Seq(Nat)
    <3>1. vtables = <<>> \/ vtables = Zeros(16)
      BY <1>1 DEF Init, InitWithCapacity, InitWithData
    <3>2. Zeros(16) \in Seq(Nat)
      BY ZerosType
    <3> QED BY <3>1, <3>2, EmptyType, Zenon
  <2>3. InitBuilder
    BY <1>1 DEF Init, InitWithCapacity, InitWithData
  <2>4. RestTypeOK
    <3>1. vtable \in Seq(Nat)
      BY <2>3, EmptyType, Zenon DEF InitBuilder
    <3>2. /\ objectEnd \in Nat
          /\ nested \in BOOLEAN /\ finished \in BOOLEAN /\ forceDefaults \in BOOLEAN
      BY <2>3 DEF InitBuilder
    <3> QED BY <2>2, <3>1, <3>2, Zenon DEF RestTypeOK
  <2> QED BY <2>1, <2>4
<1> QED BY <1>1, EmptyGood DEF IInv, TypeOK, CellsApart, OffsetsLeadBack, Good, RestTypeOK

\* ... and every step keeps it.
LEMMA NextIInv == IInv /\ [Next]_vars => IInv'
<1> SUFFICES ASSUME IInv, [Next]_vars PROVE IInv'
  OBVIOUS
<1>1. CASE Next
  <2>1. Good(arena')
    BY <1>1, NextContinues, EmptyGood DEF Continues
  <2>2. RestTypeOK'
    BY <1>1, PutCallsTypes, OtherCallsTypes DEF Next
  <2> QED BY <2>1, <2>2 DEF IInv, TypeOK, CellsApart, OffsetsLeadBack, Good, RestTypeOK
<1>2. CASE UNCHANGED vars
  BY <1>2 DEF vars, IInv, TypeOK, CellsApart, OffsetsLeadBack
<1> QED BY <1>1, <1>2

\* The state of a builder has its types after any sequence of calls: head is
\* an index into data or its end, never beyond it.
THEOREM BuilderTypeOK == Spec => []TypeOK
BY InitIInv, NextIInv, PTL DEF Spec, IInv

\* Two items written by a builder never share a byte and all of them lie
\* between head and the end of data, whatever the calls, the alignments and
\* the number of times the buffer has grown.
THEOREM BuilderCellsApart == Spec => []CellsApart
BY InitIInv, NextIInv, PTL DEF Spec, IInv

\* Every table offset leads to older bytes of the same buffer: following
\* offsets terminates and stays inside the data.
THEOREM BuilderOffsetsLeadBack == Spec => []OffsetsLeadBack
BY InitIInv, NextIInv, PTL DEF Spec, IInv

\* No call changes, moves or clears an item an earlier call has written,
\* except a reset, which leaves an empty buffer.
THEOREM BuilderWrittenStays == Spec => WrittenStays
<1>1. ASSUME IInv, [Next]_vars
      PROVE  [arena' # EmptyArena(0) => Keeps(arena, arena')]_vars
  <2>1. CASE Next
    <3>1. Fresh.cells = arena.cells
      BY IInvGood DEF Fresh, Good, ArenaTypeOK
    <3>2. Continues(Fresh, arena') => Keeps(arena, arena')
      BY <3>1 DEF Continues, Keeps
    <3> QED BY <1>1, <2>1, <3>2, NextContinues
  <2>2. CASE UNCHANGED vars
    BY <2>2
  <2> QED BY <1>1, <2>1, <2>2
<1> QED BY <1>1, InitIInv, NextIInv, PTL DEF Spec, WrittenStays

-----------------------------------------------------------------------------
(* The builder's bookkeeping.                                              *)

Fields ==
    /\ vtable # <<>> => objectEnd <= Off(arena)
    /\ \A i \in DOMAIN vtable : vtable[i] = 0 \/ vtable[i] \in objectEnd..Off(arena)
Registered ==
    \A k \in DOMAIN vtables :
        vtables[k] = 0 \/ ( /\ vtables[k] \in DOMAIN arena.cells
                            /\ arena.cells[vtables[k]].kind = "vtable" )

\* A call that continues the buffer leaves true what was recorded before.
LEMMA FieldsKept ==
    ASSUME IInv, Fields, Continues(Fresh, arena'), UNCHANGED <<vtable, objectEnd>>
    PROVE  Fields'
<1>1. Off(arena) <= Off(arena') /\ Off(arena) \in Nat /\ Off(arena') \in Nat
  BY IInvGood DEF Continues, Good, ArenaTypeOK, Off
<1>2. objectEnd \in Nat /\ \A i \in DOMAIN vtable : vtable[i] \in Nat
  BY DEF IInv, TypeOK
<1> QED BY <1>1, <1>2 DEF Fields

\* What is registered stays complete as long as the buffer is continued.
LEMMA RegisteredKept ==
    ASSUME IInv, Registered, Continues(Fresh, arena')
    PROVE  \A k \in DOMAIN vtables :
              vtables[k] = 0 \/ ( /\ vtables[k] \in DOMAIN arena'.cells
                                  /\ arena'.cells[vtables[k]].kind = "vtable" )
<1>1. Fresh.cells = arena.cells
  BY IInvGood DEF Fresh, Good, ArenaTypeOK
<1> QED BY <1>1 DEF Registered, Continues, Keeps

\* Only four things happen to the two lists; an object ends where it is started.
LEMMA NextLists ==
    ASSUME IInv, Next
    PROVE  /\ \/ UNCHANGED <<vtable, objectEnd>>
              \/ vtable' = <<>>
              \/ \E i \in DOMAIN vtable : /\ vtable' = [vtable EXCEPT ![i] = Off(arena')]
                                          /\ objectEnd' = objectEnd
              \/ \E n \in Nat : vtable' = Zeros(n) /\ objectEnd' = Off(arena')
           /\ \/ vtables' = vtables
              \/ vtables' = <<>>
              \/ /\ vtables' = Append(vtables, Off(arena'))
                 /\ Off(arena') \in DOMAIN arena'.cells
                 /\ arena'.cells[Off(arena')].kind = "vtable"
<1> DEFINE Goal == /\ \/ UNCHANGED <<vtable, objectEnd>>
                      \/ vtable' = <<>>
                      \/ \E i \in DOMAIN vtable : /\ vtable' = [vtable EXCEPT ![i] = Off(arena')]
                                                  /\ objectEnd' = objectEnd
                      \/ \E n \in Nat : vtable' = Zeros(n) /\ objectEnd' = Off(arena')
                   /\ \/ vtables' = vtables
                      \/ vtables' = <<>>
                      \/ /\ vtables' = Append(vtables, Off(arena'))
                         /\ Off(arena') \in DOMAIN arena'.cells
                         /\ arena'.cells[Off(arena')].kind = "vtable"
<1>1. ASSUME UNCHANGED <<vtable, objectEnd, vtables>> PROVE Goal
  BY <1>1
<1>2. ASSUME vtables' = vtables, NEW n \in Nat, vtable' = Zeros(n), objectEnd' = Off(arena')
      PROVE  Goal
  BY <1>2
<1>3. ASSUME NEW flag, WriteVirtualTableThen(flag) PROVE Goal
  <2>1. objectEnd' = objectEnd
    BY <1>3 DEF WriteVirtualTableThen
  <2> QED BY <1>3, <2>1, WriteVirtualTableRegisters
<1>4. ASSUME NEW i, NEW STATE b, RecordField(i, b) PROVE Goal
  <2>1. CASE vtable' = vtable
    BY <1>4, <2>1 DEF RecordField
  <2>2. CASE vtable' # vtable
    <3>1. /\ i \in DOMAIN vtable /\ arena' = b
          /\ vtable' = [vtable EXCEPT ![i] = Off(b)] /\ UNCHANGED <<objectEnd, vtables>>
      BY <1>4, <2>2 DEF RecordField
    <3> QED BY <3>1
  <2> QED BY <2>1, <2>2
<1>5. ASSUME vtable' = <<>>, vtables' = <<>> PROVE Goal
  BY <1>5
<1> HIDE DEF Goal
<1>6. ASSUME PutCalls PROVE Goal
  BY <1>1, <1>4, <1>6
     DEF PutCalls, PutScalar, PutScalarWithoutPrepare, PutScalarField, PutOffset,
         PutStruct, PutUnsignedTableOffset, AssertNestedFails, Refuse, OnlyArena
<1>7. ASSUME VectorCalls PROVE Goal
  BY <1>1, <1>7
     DEF VectorCalls, EndVector, CreateString, CreateByteVector, StartVector, FinishVector,
         CreateVectorOfTables, AssertNestedFails, AssertNotNestedFails, Refuse, OnlyArena
<1>8. ASSUME ObjectCalls PROVE Goal
  <2>1. ASSUME NEW n \in FieldCounts, StartObject(n) PROVE Goal
    <3>1. n \in Nat
      BY BuilderAssumption
    <3>2. \/ UNCHANGED <<vtable, objectEnd, vtables>>
          \/ vtables' = vtables /\ vtable' = Zeros(n) /\ objectEnd' = Off(arena')
          \/ n > 0 /\ vtables' = vtables /\ vtable' = Zeros(n - 1) /\ objectEnd' = Off(arena')
      <4>1. arena' = [Fresh EXCEPT !.minalign = 1] => Off(arena') = Off(arena)
        BY IInvGood DEF Fresh, Good, ArenaTypeOK, Off
      <4> QED BY <2>1, <4>1 DEF StartObject, AssertNotNestedFails, Refuse, OnlyArena
    <3>3. ASSUME n > 0, vtables' = vtables, vtable' = Zeros(n - 1), objectEnd' = Off(arena')
          PROVE  Goal
      <4>1. n - 1 \in Nat
        BY <3>1, <3>3
      <4> QED BY <1>2, <3>3, <4>1
    <3>4. ASSUME vtables' = vtables, vtable' = Zeros(n), objectEnd' = Off(arena') PROVE Goal
      BY <1>2, <3>1, <3>4
    <3> QED BY <1>1, <3>2, <3>3, <3>4, Zenon
  <2> QED BY <1>1, <1>3, <1>8, <2>1
          DEF ObjectCalls, EndObject, WriteVirtualTable, AssertNestedFails, Refuse, OnlyArena
<1>9. ASSUME BuilderCalls PROVE Goal
  BY <1>1, <1>5, <1>9
     DEF BuilderCalls, Reset, ForceDefault, GetData, Finish, FinishWithIdentifier,
         FinishArena, AssertNotNestedFails, Refuse, OnlyArena
<1> QED BY <1>6, <1>7, <1>8, <1>9 DEF Next, Goal

\* The second invariant is inductive relative to the first.
LEMMA NextBookkeeping ==
    ASSUME IInv, BookkeepingLeadsBack, [Next]_vars
    PROVE  BookkeepingLeadsBack'
<1>1. Fields /\ Registered
  BY DEF BookkeepingLeadsBack, Fields, Registered
<1>2. CASE UNCHANGED vars
  BY <1>2 DEF vars, BookkeepingLeadsBack
<1>3. CASE Next /\ Continues(Fresh, arena')
  <2>1. Off(arena') \in Nat
    BY <1>3 DEF Continues, Good, ArenaTypeOK, Off
  <2>2. Fields'
    <3>1. CASE UNCHANGED <<vtable, objectEnd>>
      BY <1>1, <1>3, <3>1, FieldsKept
    <3>2. CASE vtable' = <<>>
      BY <3>2 DEF Fields
    <3>3. ASSUME NEW i \in DOMAIN vtable, vtable' = [vtable EXCEPT ![i] = Off(arena')],
                 objectEnd' = objectEnd
          PROVE  Fields'
      <4>1. Off(arena) <= Off(arena') /\ Off(arena) \in Nat
        BY <1>3, IInvGood DEF Continues
      <4>2. vtable \in Seq(Nat) /\ objectEnd \in Nat /\ vtable # <<>>
        BY DEF IInv, TypeOK
      <4>3. objectEnd <= Off(arena')
        BY <1>1, <2>1, <4>1, <4>2 DEF Fields
      <4>4. \A j \in DOMAIN vtable : vtable[j] = 0 \/ vtable[j] \in objectEnd..Off(arena')
        BY <1>1, <2>1, <4>1, <4>2 DEF Fields
      <4>5. Off(arena') \in objectEnd..Off(arena')
        BY <2>1, <4>2, <4>3
      <4> QED BY <3>3, <4>2, <4>3, <4>4, <4>5 DEF Fields
    <3>4. ASSUME NEW n \in Nat, vtable' = Zeros(n), objectEnd' = Off(arena') PROVE Fields'
      BY <2>1, <3>4 DEF Fields, Zeros
    <3> QED BY <1>3, <3>1, <3>2, <3>3, <3>4, NextLists
  <2>3. Registered'
    <3>1. CASE vtables' = vtables
      BY <1>1, <1>3, <3>1, RegisteredKept DEF Registered
    <3>2. CASE vtables' = <<>>
      BY <3>2 DEF Registered
    <3>3. CASE /\ vtables' = Append(vtables, Off(arena'))
               /\ Off(arena') \in DOMAIN arena'.cells
               /\ arena'.cells[Off(arena')].kind = "vtable"
      <4>1. vtables \in Seq(Nat)
        BY DEF IInv, TypeOK
      <4>2. \A k \in DOMAIN vtables' :
              \/ k \in DOMAIN vtables /\ vtables'[k] = vtables[k]
              \/ vtables'[k] = Off(arena')
        BY <2>1, <3>3, <4>1
      <4> QED BY <1>1, <1>3, <3>3, <4>2, RegisteredKept DEF Registered
    <3> QED BY <1>3, <3>1, <3>2, <3>3, NextLists
  <2> QED BY <2>2, <2>3 DEF BookkeepingLeadsBack, Fields, Registered
<1>4. CASE Next /\ arena' = EmptyArena(0) /\ ~Continues(Fresh, arena')
  <2>1. vtable' = <<>> /\ vtables' = <<>>
    BY <1>4, PutCallsContinue, VectorCallsContinue, ObjectCallsContinue,
       BuilderCallsContinueOrReset DEF Next, Reset
  <2> QED BY <2>1 DEF BookkeepingLeadsBack
<1> QED BY <1>2, <1>3, <1>4, NextContinues

\* A registered vtable is complete and a recorded field was written since its
\* object was started, whatever calls have failed or closed what they had not
\* opened: what endObject computes from them is never negative and never leads
\* to half a vtable.
THEOREM BuilderBookkeepingLeadsBack == Spec => []BookkeepingLeadsBack
<1>1. Init => BookkeepingLeadsBack
  BY DEF Init, InitBuilder, InitWithCapacity, InitWithData, BookkeepingLeadsBack, Zeros
<1> QED BY <1>1, InitIInv, NextIInv, NextBookkeeping, PTL DEF Spec

-----------------------------------------------------------------------------
(* Calls that fail.                                                        *)

\* What a failing call may not do, whatever it has changed in the buffer.
CommitsNothing ==
    Failed(arena') => /\ vtables' = vtables /\ finished' = finished
                      /\ nested => nested'

\* Every call that throws keeps the promise of FailedCallsCommitNothing.
LEMMA NextCommitsNothing ==
    ASSUME IInv, Next
    PROVE  CommitsNothing
<1>0. nested \in BOOLEAN /\ finished \in BOOLEAN
  BY DEF IInv, TypeOK
<1>1. ASSUME UNCHANGED <<vtables, nested, finished>> PROVE CommitsNothing
  BY <1>1 DEF CommitsNothing
<1>2. ASSUME NEW STATE b, NEW n, FinishVector(b, n) PROVE CommitsNothing
  BY <1>0, <1>2 DEF FinishVector, CommitsNothing
<1>3. ASSUME NEW STATE b, NEW o, FinishArena(b, o) PROVE CommitsNothing
  <2>1. finished' = (finished \/ ~Failed(arena')) /\ vtables' = vtables /\ nested' = nested
    BY <1>3 DEF FinishArena
  <2> QED BY <1>0, <2>1, Zenon DEF CommitsNothing
<1>4. ASSUME NEW flag, WriteVirtualTableThen(flag) PROVE CommitsNothing
  <2>1. CASE UNCHANGED <<vtables, nested>>
    <3>1. finished' = finished
      BY <1>4 DEF WriteVirtualTableThen
    <3> QED BY <1>1, <2>1, <3>1
  <2>2. CASE ~UNCHANGED <<vtables, nested>>
    <3>1. ~Failed(arena')
      BY <1>4, <2>2, Zenon DEF WriteVirtualTableThen
    <3> QED BY <3>1 DEF CommitsNothing
  <2> QED BY <2>1, <2>2
<1>5. ASSUME arena' = EmptyArena(0) \/ nested' PROVE
        vtables' = vtables /\ finished' = finished => CommitsNothing
  BY <1>5 DEF CommitsNothing, EmptyArena, Failed
<1>6. ASSUME PutCalls PROVE CommitsNothing
  BY <1>1, <1>6
     DEF PutCalls, PutScalar, PutScalarWithoutPrepare, PutScalarField, PutOffset,
         PutStruct, PutUnsignedTableOffset, RecordField, AssertNestedFails, Refuse, OnlyArena
<1>7. ASSUME VectorCalls PROVE CommitsNothing
  BY <1>1, <1>2, <1>5, <1>7
     DEF VectorCalls, EndVector, CreateString, CreateByteVector, StartVector,
         CreateVectorOfTables, AssertNestedFails, AssertNotNestedFails, Refuse, OnlyArena
<1>8. ASSUME ObjectCalls PROVE CommitsNothing
  BY <1>1, <1>4, <1>5, <1>8
     DEF ObjectCalls, StartObject, EndObject, WriteVirtualTable, AssertNestedFails,
         AssertNotNestedFails, Refuse, OnlyArena
<1>9. ASSUME Reset PROVE CommitsNothing
  BY <1>9 DEF Reset, EmptyArena, Failed, CommitsNothing
<1>10. ASSUME BuilderCalls PROVE CommitsNothing
  BY <1>1, <1>3, <1>9, <1>10
     DEF BuilderCalls, ForceDefault, GetData, Finish, FinishWithIdentifier,
         AssertNotNestedFails, Refuse, OnlyArena
<1> HIDE DEF CommitsNothing
<1> QED BY <1>6, <1>7, <1>8, <1>10 DEF Next

\* A call that throws, at whatever step, registers no vtable, does not mark
\* the buffer finished and does not close the vector or object it was in.
THEOREM BuilderFailedCallsCommitNothing == Spec => FailedCallsCommitNothing
<1>1. ASSUME IInv, [Next]_vars
      PROVE  [arena'.thrown # "ok" => /\ vtables' = vtables /\ finished' = finished
                                      /\ nested => nested']_vars
  BY <1>1, NextCommitsNothing DEF CommitsNothing, Failed
<1> QED BY <1>1, InitIInv, NextIInv, PTL DEF Spec, FailedCallsCommitNothing

-----------------------------------------------------------------------------
(* What a call of the client does to the buffer.                           *)

Ordinary == {"ok", "capacity"}

\* A buffer that has met no error but the one of a buffer that cannot grow.
Fine(a) == Good(a) /\ a.thrown \in Ordinary /\ a.minalign \in PowersOfTwo

\* endVector of a byte vector is the one call that writes at an odd place.
Even(r, c) == ByteVectors \/ r % c.align = 0

\* b is a with items of some kinds in front of it, each of them aligned.
Grows(a, b, kinds) ==
    /\ Continues(a, b) /\ Fine(b) /\ b.minalign >= a.minalign
    /\ \A s \in DOMAIN b.cells \ DOMAIN a.cells :
          /\ b.cells[s].kind \in kinds
          /\ s - b.cells[s].size >= Off(a)
          /\ Even(s, b.cells[s])

\* Offsets, and the places and sizes of items, are numbers within the buffer.
LEMMA OffTyped ==
    ASSUME NEW a, Good(a)
    PROVE  /\ Off(a) \in Nat /\ a.minalign \in Nat \ {0} /\ a.head \in Nat
           /\ \A s \in DOMAIN a.cells :
                 /\ s \in Nat /\ s <= Off(a) /\ a.cells[s] \in Cell
                 /\ a.cells[s].size \in Nat \ {0} /\ a.cells[s].size <= s
<1>1. \A s \in DOMAIN a.cells : a.cells[s] \in Cell
  BY DEF Good, ArenaTypeOK
<1>2. \A c \in Cell : c.size \in Nat \ {0}
  BY DEF Cell
<1> QED BY <1>1, <1>2 DEF Good, ArenaTypeOK, Apart, Off

\* Growing is reflexive ...
LEMMA GrowsSelf ==
    ASSUME NEW a, Fine(a), NEW kinds
    PROVE  Grows(a, a, kinds)
<1>1. Continues(a, a) /\ a.minalign \in Nat
  BY ContinuesSelf, OffTyped DEF Fine
<1> QED BY <1>1 DEF Grows, Fine

\* ... and transitive.
LEMMA GrowsTrans ==
    ASSUME NEW a, NEW b, NEW c, NEW k, NEW m, Fine(a), Grows(a, b, k), Grows(b, c, m)
    PROVE  Grows(a, c, k \cup m)
<1>1. Continues(a, c)
  BY ContinuesTrans DEF Grows, Fine
<1>2. /\ a.minalign \in Nat /\ b.minalign \in Nat /\ c.minalign \in Nat
      /\ Off(a) \in Nat /\ Off(b) \in Nat /\ Off(a) <= Off(b)
  BY OffTyped DEF Grows, Fine, Continues
<1>3. ASSUME NEW s \in DOMAIN c.cells \ DOMAIN a.cells
      PROVE  /\ c.cells[s].kind \in k \cup m
             /\ s - c.cells[s].size >= Off(a)
             /\ Even(s, c.cells[s])
  <2>1. CASE s \in DOMAIN b.cells
    <3>1. c.cells[s] = b.cells[s]
      BY <2>1 DEF Grows, Continues, Keeps
    <3> QED BY <2>1, <3>1 DEF Grows
  <2>2. CASE s \notin DOMAIN b.cells
    <3>1. /\ c.cells[s].kind \in m
          /\ s - c.cells[s].size >= Off(b)
          /\ Even(s, c.cells[s])
      BY <2>2 DEF Grows
    <3>2. s \in Nat /\ c.cells[s].size \in Nat
      BY OffTyped DEF Grows, Fine
    <3> QED BY <1>2, <3>1, <3>2
  <2> QED BY <2>1, <2>2
<1> QED BY <1>1, <1>2, <1>3 DEF Grows

\* What a step of fewer kinds adds is of more kinds.
LEMMA GrowsMore ==
    ASSUME NEW a, NEW b, NEW k, NEW m, Grows(a, b, k), k \subseteq m
    PROVE  Grows(a, b, m)
BY DEF Grows

-----------------------------------------------------------------------------
(* Alignment.                                                              *)

\* prepare's padding is less than the alignment, and makes it.
LEMMA PadAligns ==
    ASSUME NEW n \in Int, NEW size \in PowersOfTwo
    PROVE  /\ PadFor(n, size) \in 0..(size - 1)
           /\ (n + PadFor(n, size)) % size = 0
           /\ n % size = 0 => PadFor(n, size) = 0
<1>1. CASE size = 1
  BY <1>1 DEF PadFor
<1>2. CASE size = 2
  BY <1>2 DEF PadFor
<1>3. CASE size = 4
  BY <1>3 DEF PadFor
<1>4. CASE size = 8
  BY <1>4 DEF PadFor
<1>5. CASE size = 16
  BY <1>5 DEF PadFor
<1>6. CASE size = 32
  BY <1>6 DEF PadFor
<1> QED BY <1>1, <1>2, <1>3, <1>4, <1>5, <1>6 DEF PowersOfTwo

\* Of two powers of two the larger is a multiple of the smaller.
LEMMA AlignedFor ==
    ASSUME NEW n \in Int, NEW size \in PowersOfTwo, NEW less \in PowersOfTwo,
           less <= size, n % size = 0
    PROVE  n % less = 0
<1> USE DEF PowersOfTwo
<1>1. CASE size = 1
  BY <1>1
<1>2. CASE size = 2
  BY <1>2
<1>3. CASE size = 4
  BY <1>3
<1>4. CASE size = 8
  BY <1>4
<1>5. CASE size = 16
  BY <1>5
<1>6. CASE size = 32
  BY <1>6
<1> QED BY <1>1, <1>2, <1>3, <1>4, <1>5, <1>6

\* The greater of two alignments is an alignment.
LEMMA LargerPower ==
    ASSUME NEW x \in PowersOfTwo, NEW y \in PowersOfTwo
    PROVE  Larger(x, y) \in PowersOfTwo /\ Larger(x, y) >= x /\ Larger(x, y) >= y
BY DEF Larger, PowersOfTwo

-----------------------------------------------------------------------------
(* The operators of the buffer, exactly.                                   *)

\* prepare writes nothing; a buffer that cannot grow is left as it is.
LEMMA PrepareGrows ==
    ASSUME NEW a, Fine(a), ~Failed(a), NEW size \in PowersOfTwo, NEW additional \in Nat
    PROVE  LET b == Prepare(a, size, additional) IN
           /\ Grows(a, b, {})
           /\ b.cells = a.cells /\ b.minalign >= size
           /\ Failed(b) => b.thrown = "capacity" /\ Off(b) = Off(a)
           /\ ~Failed(b) => /\ b.thrown = "ok"
                            /\ b.head > size + additional
                            /\ b.head >= a.head - PadFor(Off(a) + additional, size)
                            /\ Off(b) = Off(a) + PadFor(Off(a) + additional, size)
                            /\ (Off(b) + additional) % size = 0
<1> DEFINE pad  == PadFor(Off(a) + additional, size)
           need == pad + size + additional
           g    == Grown(a.count, Off(a) + need)
           p    == [a EXCEPT !.minalign = Larger(@, size),
                             !.count = g, !.head = g - Off(a)]
           b    == Prepare(a, size, additional)
<1>1. size \in Nat \ {0}
  BY DEF PowersOfTwo
<1>2. /\ Continues(a, b)
      /\ ~Failed(b) => /\ b.head > size + additional
                       /\ b.cells = a.cells
                       /\ Off(b) = Off(a) + pad
  BY <1>1, PrepareContinues DEF Fine
<1>3. Off(a) \in Nat /\ a.minalign \in PowersOfTwo
  BY OffTyped DEF Fine
<1>4. pad \in Nat /\ pad < size /\ (Off(a) + additional + pad) % size = 0
  <2>1. Off(a) + additional \in Int /\ size \in Nat
    BY <1>1, <1>3
  <2> QED BY <2>1, PadAligns
<1>5. a.thrown = "ok"
  BY DEF Failed
<1>6. g \in Nat
  BY <1>1, <1>3, <1>4, GrownEnough DEF Fine, Good, ArenaTypeOK
<1> HIDE DEF pad, need, g
<1>7. /\ p.count = g /\ p.head = g - Off(a) /\ p.cells = a.cells
      /\ p.thrown = "ok" /\ Off(p) = Off(a) /\ p.minalign = Larger(a.minalign, size)
  BY <1>3, <1>5, <1>6 DEF Fine, Good, ArenaTypeOK, Off
<1> HIDE DEF p
<1>8. Larger(a.minalign, size) \in PowersOfTwo /\ Larger(a.minalign, size) >= size
      /\ Larger(a.minalign, size) >= a.minalign
  BY <1>3, LargerPower
<1>9. b = PaddingZero(p, pad) \/ b = Throw(p, "capacity")
  BY DEF Prepare, Failed, pad, need, g, p
<1>10. ArenaTypeOK(p)
  <2>1. g >= a.count /\ a.count \in Nat /\ a.head \in Nat /\ a.head <= a.count
    BY <1>3, <1>4, <1>1, GrownEnough DEF Fine, Good, ArenaTypeOK, g, need
  <2>2. g - Off(a) \in Nat /\ g - Off(a) <= g
    BY <1>3, <1>6, <2>1 DEF Off
  <2>3. Larger(a.minalign, size) \in Nat \ {0}
    BY <1>8 DEF PowersOfTwo
  <2> QED BY <1>6, <1>7, <2>2, <2>3 DEF Fine, Good, ArenaTypeOK, p
<1>11. CASE b = Throw(p, "capacity")
  <2>1. /\ b.thrown = "capacity" /\ b.cells = p.cells /\ b.minalign = p.minalign
        /\ Off(b) = Off(p)
    BY <1>10, <1>11 DEF Throw, Off, ArenaTypeOK
  <2> HIDE DEF b
  <2>2. Failed(b)
    BY <2>1 DEF Failed
  <2>3. Fine(b)
    BY <1>2, <1>7, <1>8, <2>1 DEF Fine, Continues, Ordinary
  <2>4. DOMAIN b.cells \ DOMAIN a.cells = {}
    BY <1>7, <2>1
  <2>5. Grows(a, b, {})
    BY <1>2, <1>7, <1>8, <2>1, <2>3, <2>4 DEF Grows
  <2> QED BY <1>7, <1>8, <2>1, <2>2, <2>5 DEF b
<1>12. CASE b = PaddingZero(p, pad)
  <2>1. /\ b.thrown \in {"ok", "trap"} /\ b.minalign = p.minalign
        /\ b.thrown = "trap" => pad > p.head
        /\ pad > p.head => b = Throw(p, "trap")
    BY <1>7, <1>10, <1>12 DEF PaddingZero, Throw, Failed, ArenaTypeOK
  <2>2. b.thrown = "ok"
    <3>1. p.head > need => pad <= p.head
      BY <1>1, <1>3, <1>4, <1>6, <1>7 DEF need
    <3>2. p.head > need \/ b = Throw(p, "capacity")
      BY DEF Prepare, Failed, pad, need, g, p
    <3>3. b = Throw(p, "capacity") => b.thrown = "capacity"
      BY <1>10 DEF Throw, ArenaTypeOK
    <3>4. p.head \in Int /\ pad \in Int
      BY <1>3, <1>4, <1>6, <1>7
    <3> QED BY <2>1, <3>1, <3>2, <3>3, <3>4
  <2> HIDE DEF b
  <2>3. ~Failed(b)
    BY <2>2 DEF Failed
  <2>4. Fine(b)
    BY <1>2, <1>7, <1>8, <2>1, <2>2 DEF Fine, Continues, Ordinary
  <2>5. DOMAIN b.cells \ DOMAIN a.cells = {}
    BY <1>2, <2>3
  <2>6. Grows(a, b, {})
    BY <1>2, <1>7, <1>8, <2>1, <2>4, <2>5 DEF Grows
  <2>7. (Off(b) + additional) % size = 0
    <3>1. Off(b) + additional = Off(a) + additional + pad
      BY <1>2, <1>3, <1>4, <2>3
    <3> QED BY <1>4, <3>1
  <2>8. b.head >= a.head - pad
    <3>1. g >= a.count
      BY <1>1, <1>3, <1>4, GrownEnough DEF Fine, Good, ArenaTypeOK, g, need
    <3>2. b.count >= b.head /\ b.count \in Nat /\ b.head \in Nat
      BY <2>4 DEF Fine, Good, ArenaTypeOK
    <3>3. b.count = g
      <4>1. PaddingZero(p, pad).count = p.count
        BY <1>10 DEF PaddingZero, Throw, ArenaTypeOK
      <4> QED BY <1>7, <1>12, <4>1 DEF b
    <3>4. a.count \in Nat /\ a.head \in Nat
      BY DEF Fine, Good, ArenaTypeOK
    <3>5. b.count - b.head = (a.count - a.head) + pad
      BY <1>2, <2>3 DEF Off
    <3> QED BY <1>4, <1>6, <3>1, <3>2, <3>3, <3>4, <3>5
  <2> QED BY <1>2, <1>7, <1>8, <2>1, <2>2, <2>3, <2>6, <2>7, <2>8 DEF b, pad
<1> QED BY <1>9, <1>11, <1>12

\* ... and the alignment it is asked for counts, also when it fails.
LEMMA PrepareMinalign ==
    ASSUME NEW a, Fine(a), ~Failed(a), NEW size, NEW additional
    PROVE  Prepare(a, size, additional).minalign = Larger(a.minalign, size)
<1> DEFINE pad  == PadFor(Off(a) + additional, size)
           need == pad + size + additional
           g    == Grown(a.count, Off(a) + need)
           q    == [a EXCEPT !.minalign = Larger(@, size),
                             !.count = g, !.head = g - Off(a)]
           p    == Prepare(a, size, additional)
<1>1. p = PaddingZero(q, pad) \/ p = Throw(q, "capacity")
  BY DEF Prepare, Failed
<1>2. q.minalign = Larger(a.minalign, size)
  BY DEF Fine, Good, ArenaTypeOK
<1>3. PaddingZero(q, pad).minalign = q.minalign /\ Throw(q, "capacity").minalign = q.minalign
  BY DEF PaddingZero, Throw, Fine, Good, ArenaTypeOK
<1> QED BY <1>1, <1>2, <1>3

\* Exactly one item in front: what every write is.
OneMore(a, b, c) ==
    /\ DOMAIN b.cells = DOMAIN a.cells \cup {Off(b)}
    /\ b.cells[Off(b)] = c
    /\ Off(b) - c.size >= Off(a) /\ Off(b) > Off(a)

\* A write for which there is room.
LEMMA PushGrows ==
    ASSUME NEW a, Fine(a), ~Failed(a), NEW c \in Item, c.size > 0, c.size <= a.head,
           LeadsBackFrom(c, Off(a) + c.size), Even(Off(a) + c.size, c)
    PROVE  LET b == Push(a, c) IN
           /\ Grows(a, b, {c.kind})
           /\ b.thrown = "ok" /\ b.minalign = a.minalign
           /\ b.head = a.head - c.size /\ Off(b) = Off(a) + c.size
           /\ OneMore(a, b, c)
<1> DEFINE r == Off(a) + c.size
           p == [a EXCEPT !.head = @ - c.size]
           d == [p EXCEPT !.cells = Overwritten(@, r, c)]
           b == Push(a, c)
<1>1. /\ c.size \in Nat /\ c.size > 0 /\ a.head \in Nat /\ a.count \in Nat
      /\ a.head <= a.count /\ Off(a) \in Nat /\ Off(a) = a.count - a.head
      /\ a.thrown = "ok" /\ a.minalign \in PowersOfTwo /\ r \in Nat
  BY OffTyped DEF Fine, Good, ArenaTypeOK, Item, Off, Failed
<1>2. a = [count |-> a.count, head |-> a.head, minalign |-> a.minalign,
           cells |-> a.cells, thrown |-> a.thrown]
  BY DEF Fine, Good, ArenaTypeOK
<1>3. /\ p.count = a.count /\ p.head = a.head - c.size /\ p.cells = a.cells
      /\ p.thrown = a.thrown /\ p.minalign = a.minalign
  BY <1>2
<1>4. b = d
  <2>1. b = Write(p, a.head - c.size, c)
    BY <1>1 DEF Push
  <2>2. p.count - (a.head - c.size) = r /\ ~((a.head - c.size) + c.size > p.count)
    BY <1>1, <1>3
  <2>3. ~Failed(p)
    BY <1>3 DEF Failed
  <2> HIDE DEF p, r, b
  <2> QED BY <2>1, <2>2, <2>3 DEF Write
<1>5. /\ d.count = p.count /\ d.head = p.head /\ d.thrown = p.thrown
      /\ d.minalign = p.minalign /\ d.cells = Overwritten(p.cells, r, c)
  BY <1>2
<1> HIDE DEF p, d
<1>6. /\ b.thrown = "ok" /\ b.minalign = a.minalign
      /\ b.head = a.head - c.size /\ b.count = a.count
      /\ b.cells = Overwritten(a.cells, r, c)
  BY <1>1, <1>3, <1>4, <1>5
<1> HIDE DEF b
<1>7. Off(b) = r /\ ~Failed(b)
  BY <1>1, <1>6 DEF Off, Failed
<1>8. Continues(a, b) /\ r \in DOMAIN b.cells /\ b.cells[r] = c
  BY <1>1, <1>7, PushContinues DEF Fine, b
<1>9. DOMAIN b.cells = DOMAIN a.cells \cup {r}
  <2>1. DOMAIN b.cells \subseteq DOMAIN a.cells \cup {r}
    BY <1>6 DEF Overwritten
  <2> QED BY <1>8, <2>1 DEF Continues, Keeps
<1>10. r - c.size = Off(a) /\ r > Off(a) /\ Even(r, c)
  BY <1>1
<1> HIDE DEF r
<1>11. Fine(b)
  BY <1>1, <1>6, <1>8 DEF Fine, Continues, Ordinary
<1>12. \A s \in DOMAIN b.cells \ DOMAIN a.cells : s = r
  BY <1>9
<1>13. a.minalign \in Nat
  BY OffTyped DEF Fine
<1>14. Grows(a, b, {c.kind})
  <2>1. b.minalign >= a.minalign
    BY <1>6, <1>13
  <2>2. \A s \in DOMAIN b.cells \ DOMAIN a.cells :
            /\ b.cells[s].kind \in {c.kind}
            /\ s - b.cells[s].size >= Off(a)
            /\ Even(s, b.cells[s])
    <3> TAKE s \in DOMAIN b.cells \ DOMAIN a.cells
    <3>1. s = r /\ b.cells[s] = c
      BY <1>8, <1>12
    <3>2. r - c.size >= Off(a)
      BY <1>1, <1>10
    <3> QED BY <1>10, <3>1, <3>2
  <2> QED BY <1>8, <1>11, <2>1, <2>2 DEF Grows
<1>15. Off(b) - c.size >= Off(a)
  BY <1>7, <1>10, <1>1
<1> QED BY <1>6, <1>7, <1>8, <1>9, <1>10, <1>14, <1>15 DEF OneMore, b, r

\* A call that fails before it has written anything.
Stuck(a, b) == b.thrown = "capacity" /\ b.cells = a.cells

\* prepare, then an item of at most what has been prepared for.
LEMMA PlacedGrows ==
    ASSUME NEW a, Fine(a), ~Failed(a), NEW size \in PowersOfTwo, NEW additional \in Nat,
           NEW c \in Item, c.size > 0, c.size <= size + additional,
           LET r == Off(a) + PadFor(Off(a) + additional, size) + c.size
           IN  LeadsBackFrom(c, r) /\ Even(r, c)
    PROVE  LET p == Prepare(a, size, additional)
               b == Push(p, c)
           IN  /\ Grows(a, b, {c.kind}) /\ b.minalign >= size
               /\ Failed(b) => Stuck(a, b)
               /\ ~Failed(b) => /\ OneMore(a, b, c)
                                /\ b.minalign = p.minalign
                                /\ b.head > size + additional - c.size
                                /\ Off(b) = Off(a) + PadFor(Off(a) + additional, size) + c.size
                                /\ Off(b) < Off(a) + c.size + size
                                /\ (Off(b) - c.size + additional) % size = 0
<1> DEFINE p == Prepare(a, size, additional)
           b == Push(p, c)
<1>1. /\ Grows(a, p, {})
      /\ p.cells = a.cells /\ p.minalign >= size
      /\ Failed(p) => p.thrown = "capacity" /\ Off(p) = Off(a)
      /\ ~Failed(p) => /\ p.thrown = "ok"
                       /\ p.head > size + additional
                       /\ Off(p) = Off(a) + PadFor(Off(a) + additional, size)
                       /\ (Off(p) + additional) % size = 0
  BY PrepareGrows
<1> HIDE DEF p
<1>2. CASE Failed(p)
  <2>1. b = p
    BY <1>2 DEF Push
  <2>2. Grows(a, b, {c.kind})
    BY <1>1, <2>1, GrowsMore
  <2> QED BY <1>1, <1>2, <2>1, <2>2 DEF Stuck, p
<1>3. CASE ~Failed(p)
  <2>1. /\ c.size \in Nat /\ size \in Nat /\ p.head \in Nat
        /\ Off(p) \in Nat /\ Off(a) \in Nat /\ Fine(p)
    BY <1>1, OffTyped DEF Grows, Fine, Item, PowersOfTwo
  <2>2. c.size <= p.head
    BY <1>1, <1>3, <2>1
  <2>3. LeadsBackFrom(c, Off(p) + c.size) /\ Even(Off(p) + c.size, c)
    BY <1>1, <1>3
  <2>4. /\ Grows(p, b, {c.kind})
        /\ b.thrown = "ok" /\ b.minalign = p.minalign
        /\ b.head = p.head - c.size /\ Off(b) = Off(p) + c.size
        /\ OneMore(p, b, c)
    BY <1>3, <2>1, <2>2, <2>3, PushGrows
  <2> HIDE DEF b
  <2>5. Grows(a, b, {} \cup {c.kind})
    BY <1>1, <2>4, GrowsTrans
  <2>6. {} \cup {c.kind} = {c.kind}
    OBVIOUS
  <2>7. ~Failed(b)
    BY <2>4 DEF Failed
  <2>8. OneMore(a, b, c)
    <3>1. Off(a) <= Off(p)
      BY <1>1 DEF Grows, Continues
    <3> QED BY <1>1, <2>1, <2>4, <3>1 DEF OneMore
  <2>9. Off(b) - c.size + additional = Off(p) + additional
    BY <2>1, <2>4
  <2>10. b.head > size + additional - c.size
    BY <1>1, <1>3, <2>1, <2>4
  <2>11. Off(b) < Off(a) + c.size + size
    <3>1. Off(a) + additional \in Int
      BY <2>1
    <3>2. PadFor(Off(a) + additional, size) \in 0..(size - 1)
      BY <3>1, PadAligns
    <3> QED BY <1>1, <1>3, <2>1, <2>4, <3>2
  <2> QED BY <1>1, <1>3, <2>4, <2>5, <2>6, <2>7, <2>8, <2>9, <2>10, <2>11 DEF b, p
<1> QED BY <1>2, <1>3

\* An offset padded to four and four bytes more.
LEMMA FourUp ==
    ASSUME NEW n \in Nat, NEW k \in 0..3, (n + k) % 4 = 0
    PROVE  n + k + 4 \in Nat /\ n + k + 4 >= 4 /\ (n + k + 4) % 4 = 0 /\ n + k = (n + k + 4) - 4
OBVIOUS

\* The offset of something that has been written.
LEMMA PutUOffsetGrows ==
    ASSUME NEW a, Fine(a), ~Failed(a), NEW target \in 0..Off(a)
    PROVE  LET b == PutUOffset(a, target)
               r == Off(a) + PadFor(Off(a), 4) + 4
           IN  /\ Grows(a, b, {"uoffset"}) /\ b.minalign >= 4
               /\ Failed(b) => Stuck(a, b)
               /\ ~Failed(b) => /\ Off(b) = r
                                /\ OneMore(a, b, MkCell(4, 4, "uoffset", <<r - target>>))
<1> DEFINE p == Prepare(a, 4, 0)
           r == Off(a) + PadFor(Off(a), 4) + 4
           c == MkCell(4, 4, "uoffset", <<r - target>>)
           b == PutUOffset(a, target)
<1>1. Off(a) \in Nat /\ PadFor(Off(a), 4) \in 0..3 /\ (Off(a) + PadFor(Off(a), 4)) % 4 = 0
  BY OffTyped, PadAligns DEF Fine, PowersOfTwo
<1>2. Off(a) + 0 = Off(a)
  BY <1>1
<1>3. /\ r \in Nat /\ r % 4 = 0 /\ Off(a) + PadFor(Off(a), 4) = r - 4
      /\ r - target \in 4..r /\ target \in Nat /\ target <= r - 4
  <2>1. r \in Nat /\ r % 4 = 0 /\ Off(a) + PadFor(Off(a), 4) = r - 4
    BY <1>1, FourUp
  <2>2. Off(a) <= Off(a) + PadFor(Off(a), 4) /\ target \in Nat /\ target <= Off(a)
    BY <1>1
  <2> HIDE DEF r
  <2>3. target <= r - 4
    BY <1>1, <2>1, <2>2
  <2>4. r - target \in 4..r
    BY <2>1, <2>2, <2>3
  <2> QED BY <2>1, <2>2, <2>3, <2>4
<1>4. ~Failed(p) => Off(p) = r - 4 /\ ~(target > Off(p)) /\ Off(p) - target + 4 = r - target
  <2>1. ~Failed(p) => Off(p) = Off(a) + PadFor(Off(a), 4)
    BY <1>2, PrepareGrows DEF PowersOfTwo
  <2>2. ~Failed(p) => Off(p) = r - 4
    BY <1>3, <2>1
  <2> HIDE DEF p, r
  <2> QED BY <1>3, <2>2
<1>5. b = Push(p, c)
  <2>1. CASE Failed(p)
    BY <2>1 DEF PutUOffset, Push
  <2>2. CASE ~Failed(p)
    BY <1>4, <2>2 DEF PutUOffset
  <2> QED BY <2>1, <2>2
<1> HIDE DEF r
<1>6. /\ c \in Item /\ c.size = 4 /\ c.align = 4 /\ c.kind = "uoffset"
      /\ DOMAIN c.val = {1} /\ c.val[1] = r - target
  BY <1>3 DEF Item, MkCell, CellKinds
<1> HIDE DEF c, b, p
<1>7. LeadsBackFrom(c, r) /\ Even(r, c)
  <2>1. c.val[1] \in 4..(r - 4 * (1 - 1))
    BY <1>3, <1>6
  <2> QED BY <1>3, <1>6, <2>1 DEF LeadsBackFrom, Even
<1>8. r = Off(a) + PadFor(Off(a) + 0, 4) + c.size
  BY <1>2, <1>6 DEF r
<1>9. /\ Grows(a, b, {c.kind}) /\ b.minalign >= 4
      /\ Failed(b) => Stuck(a, b)
      /\ ~Failed(b) => OneMore(a, b, c) /\ Off(b) = r
  <2>1. 4 \in PowersOfTwo /\ 0 \in Nat /\ c.size > 0 /\ c.size <= 4 + 0
    BY <1>6 DEF PowersOfTwo
  <2> QED BY <1>5, <1>6, <1>7, <1>8, <2>1, PlacedGrows DEF p
<1> QED BY <1>6, <1>9 DEF b, c, r

\* The soffset endObject places.
LEMMA PutSOffsetGrows ==
    ASSUME NEW a, Fine(a), ~Failed(a)
    PROVE  LET b == PutSOffset(a, 0)
               r == Off(a) + PadFor(Off(a), 4) + 4
           IN  /\ Grows(a, b, {"soffset"}) /\ b.minalign >= 4
               /\ Failed(b) => Stuck(a, b)
               /\ ~Failed(b) => /\ Off(b) = r /\ r % 4 = 0
                                /\ OneMore(a, b, MkCell(4, 4, "soffset", <<r>>))
<1> DEFINE p == Prepare(a, 4, 0)
           r == Off(a) + PadFor(Off(a), 4) + 4
           c == MkCell(4, 4, "soffset", <<r>>)
           b == PutSOffset(a, 0)
<1>1. Off(a) \in Nat /\ PadFor(Off(a), 4) \in 0..3 /\ (Off(a) + PadFor(Off(a), 4)) % 4 = 0
  BY OffTyped, PadAligns DEF Fine, PowersOfTwo
<1>2. Off(a) + 0 = Off(a)
  BY <1>1
<1>3. r \in Nat /\ r >= 4 /\ r % 4 = 0 /\ Off(a) + PadFor(Off(a), 4) = r - 4
  BY <1>1, FourUp
<1>4. ~Failed(p) => Off(p) = r - 4 /\ ~(0 > Off(p)) /\ Off(p) - 0 + 4 = r
  <2>1. ~Failed(p) => Off(p) = Off(a) + PadFor(Off(a), 4)
    BY <1>2, PrepareGrows DEF PowersOfTwo
  <2>2. ~Failed(p) => Off(p) = r - 4
    BY <1>3, <2>1
  <2> HIDE DEF p, r
  <2> QED BY <1>3, <2>2
<1>5. b = Push(p, c)
  <2>1. CASE Failed(p)
    BY <2>1 DEF PutSOffset, Push
  <2>2. CASE ~Failed(p)
    BY <1>4, <2>2 DEF PutSOffset
  <2> QED BY <2>1, <2>2
<1> HIDE DEF r
<1>6. c \in Item /\ c.size = 4 /\ c.align = 4 /\ c.kind = "soffset"
  BY <1>3 DEF Item, MkCell, CellKinds
<1> HIDE DEF c, b, p
<1>7. LeadsBackFrom(c, r) /\ Even(r, c)
  BY <1>3, <1>6 DEF LeadsBackFrom, Even
<1>8. r = Off(a) + PadFor(Off(a) + 0, 4) + c.size
  BY <1>2, <1>6 DEF r
<1>9. /\ Grows(a, b, {c.kind}) /\ b.minalign >= 4
      /\ Failed(b) => Stuck(a, b)
      /\ ~Failed(b) => OneMore(a, b, c) /\ Off(b) = r
  <2>1. 4 \in PowersOfTwo /\ 0 \in Nat /\ c.size > 0 /\ c.size <= 4 + 0
    BY <1>6 DEF PowersOfTwo
  <2> QED BY <1>5, <1>6, <1>7, <1>8, <2>1, PlacedGrows DEF p
<1> QED BY <1>3, <1>6, <1>9 DEF b, c, r

\* An item put in pieces where no padding is due: all of it, or the pieces for
\* which there is room.
LEMMA PutRunGrows ==
    ASSUME NEW a, Fine(a), ~Failed(a), NEW unit \in {1, 2}, NEW c \in Item,
           c.kind # "uoffset", c.size >= unit, c.size % unit = 0, c.align = unit,
           Off(a) % unit = 0
    PROVE  LET b == PutRun(a, unit, c) IN
           /\ Failed(b) => b.thrown = "capacity" /\ Grows(a, b, {"partial"})
           /\ ~Failed(b) => /\ Grows(a, b, {c.kind})
                            /\ OneMore(a, b, c) /\ Off(b) = Off(a) + c.size
                            /\ b.minalign = Larger(a.minalign, unit)
<1> DEFINE p    == Prepare(a, unit, c.size - unit)
           m    == Larger(p.head - 1, 0) \div unit
           wide == Throw(p, "ok")
           part == MkCell(unit * m, unit, "partial", <<>>)
           b    == PutRun(a, unit, c)
<1>1. c.size \in Nat /\ c.size > 0 /\ c.size - unit \in Nat /\ unit \in PowersOfTwo
  BY DEF Item, PowersOfTwo
<1>2. Off(a) \in Nat /\ (Off(a) + c.size) % unit = 0 /\ (Off(a) + (c.size - unit)) % unit = 0
  <2>1. Off(a) \in Nat
    BY OffTyped DEF Fine
  <2>2. CASE unit = 1
    BY <1>1, <2>1, <2>2
  <2>3. CASE unit = 2
    BY <1>1, <2>1, <2>3
  <2> QED BY <2>1, <2>2, <2>3
<1>3. PadFor(Off(a) + (c.size - unit), unit) = 0
  <2>1. Off(a) + (c.size - unit) \in Int
    BY <1>1, <1>2
  <2> QED BY <1>1, <1>2, <2>1, PadAligns
<1>4. /\ Grows(a, p, {}) /\ p.cells = a.cells /\ p.minalign >= unit
      /\ Failed(p) => p.thrown = "capacity" /\ Off(p) = Off(a)
      /\ ~Failed(p) => /\ p.thrown = "ok" /\ p.head > unit + (c.size - unit)
                       /\ Off(p) = Off(a) + 0
  BY <1>1, <1>3, PrepareGrows
<1>5. p.minalign = Larger(a.minalign, unit)
  BY PrepareMinalign
<1> HIDE DEF p
<1>6. Good(p) /\ Fine(p) /\ p.head \in Nat
  BY <1>4, OffTyped DEF Grows, Fine
<1>7. CASE ~Failed(p)
  <2>1. b = Push(p, c)
    BY <1>1, <1>7 DEF PutRun, p
  <2>2. c.size <= p.head /\ Off(p) = Off(a) /\ LeadsBackFrom(c, Off(p) + c.size)
    <3>1. unit + (c.size - unit) = c.size /\ Off(a) + 0 = Off(a)
      BY <1>1, <1>2
    <3>2. c.size <= p.head /\ Off(p) = Off(a)
      BY <1>1, <1>4, <1>6, <1>7, <3>1
    <3> QED BY <3>2 DEF LeadsBackFrom
  <2>3. Even(Off(p) + c.size, c)
    BY <1>2, <2>2 DEF Even
  <2>4. /\ Grows(p, b, {c.kind}) /\ b.thrown = "ok" /\ b.minalign = p.minalign
        /\ Off(b) = Off(p) + c.size /\ OneMore(p, b, c)
    BY <1>1, <1>6, <1>7, <2>1, <2>2, <2>3, PushGrows
  <2> HIDE DEF b
  <2>5. Grows(a, b, {} \cup {c.kind})
    BY <1>4, <2>4, GrowsTrans
  <2>6. {} \cup {c.kind} = {c.kind} /\ ~Failed(b)
    BY <2>4 DEF Failed
  <2>7. OneMore(a, b, c)
    BY <1>4, <2>2, <2>4 DEF OneMore
  <2> QED BY <1>5, <2>2, <2>4, <2>5, <2>6, <2>7 DEF b
<1>8. CASE Failed(p)
  <2>1. b = Throw(Push(wide, part), p.thrown)
    BY <1>1, <1>8 DEF PutRun, p
  <2>2. /\ wide.thrown = "ok" /\ wide.minalign = p.minalign /\ wide.cells = p.cells
        /\ Off(wide) = Off(p) /\ wide.head = p.head
    BY <1>6 DEF Throw, Off, Good, ArenaTypeOK
  <2>3. Continues(p, wide)
    BY <1>6, ThrowContinues DEF Outcomes
  <2> HIDE DEF wide
  <2>4. Fine(wide) /\ ~Failed(wide)
    BY <1>6, <2>2, <2>3 DEF Fine, Continues, Ordinary, Failed
  <2>5. p.minalign \in Nat
    BY <1>6, OffTyped
  <2>6. Grows(p, wide, {})
    BY <2>2, <2>3, <2>4, <2>5 DEF Grows
  <2>7. /\ unit * m \in Nat /\ (unit * m > 0 => unit * m <= p.head)
        /\ (Off(a) + unit * m) % unit = 0
    <3>1. Larger(p.head - 1, 0) \in Nat /\ (Larger(p.head - 1, 0) > 0 => Larger(p.head - 1, 0) <= p.head)
      BY <1>6 DEF Larger
    <3>2. \A k \in Nat : /\ 1 * (k \div 1) = k
                         /\ 2 * (k \div 2) \in Nat /\ 2 * (k \div 2) <= k
                         /\ \A n \in Nat : n % 2 = 0 => (n + 2 * (k \div 2)) % 2 = 0
      OBVIOUS
    <3>3. CASE unit = 1
      BY <1>2, <1>6, <3>1, <3>2, <3>3
    <3>4. CASE unit = 2
      <4>1. /\ 2 * m \in Nat /\ 2 * m <= Larger(p.head - 1, 0)
            /\ (Off(a) + 2 * m) % 2 = 0
        BY <1>2, <3>1, <3>2, <3>4
      <4> HIDE DEF m
      <4> QED BY <1>6, <3>1, <3>4, <4>1
    <3> QED BY <3>3, <3>4
  <2> HIDE DEF m
  <2>8. /\ part \in Item /\ part.size = unit * m /\ part.kind = "partial" /\ part.align = unit
        /\ \A r : LeadsBackFrom(part, r)
    <3>1. part \in Item /\ part.size = unit * m /\ part.kind = "partial" /\ part.align = unit
      BY <1>1, <2>7 DEF Item, MkCell, CellKinds, PowersOfTwo
    <3> HIDE DEF part
    <3> QED BY <3>1 DEF LeadsBackFrom
  <2> HIDE DEF part
  <2>9. Grows(wide, Push(wide, part), {"partial"})
    <3>1. CASE part.size = 0
      BY <2>4, <3>1, GrowsSelf DEF Push
    <3>2. CASE part.size > 0
      <4>1. Even(Off(wide) + part.size, part)
        BY <1>4, <1>8, <2>2, <2>7, <2>8 DEF Even
      <4> QED BY <2>2, <2>4, <2>7, <2>8, <3>2, <4>1, PushGrows
    <3> QED BY <2>7, <2>8, <3>1, <3>2
  <2> DEFINE d == Push(wide, part)
  <2>10. Grows(a, d, {"partial"})
    <3>1. Grows(p, d, {} \cup {"partial"})
      BY <1>6, <2>6, <2>9, GrowsTrans
    <3>2. Grows(a, d, {} \cup ({} \cup {"partial"}))
      BY <1>4, <3>1, GrowsTrans
    <3>3. {} \cup ({} \cup {"partial"}) = {"partial"}
      OBVIOUS
    <3> QED BY <3>2, <3>3
  <2> HIDE DEF d
  <2>11. b = Throw(d, "capacity")
    BY <1>4, <1>8, <2>1 DEF d
  <2>12. /\ b.thrown = "capacity" /\ b.minalign = d.minalign /\ b.cells = d.cells
         /\ Off(b) = Off(d) /\ Continues(d, b)
    <3>1. Good(d)
      BY <2>10 DEF Grows, Fine
    <3>2. Continues(d, b)
      BY <2>11, <3>1, ThrowContinues DEF Outcomes
    <3> QED BY <2>11, <3>1, <3>2 DEF Throw, Off, Good, ArenaTypeOK
  <2> HIDE DEF b
  <2>13. Continues(a, b)
    BY <2>10, <2>12, ContinuesTrans DEF Grows, Fine
  <2>14. Fine(b)
    BY <2>10, <2>12 DEF Grows, Fine, Continues, Ordinary
  <2>15. Grows(a, b, {"partial"})
    BY <2>10, <2>12, <2>13, <2>14 DEF Grows
  <2>16. Failed(b)
    BY <2>12 DEF Failed
  <2> QED BY <2>12, <2>15, <2>16 DEF b
<1> QED BY <1>7, <1>8

-----------------------------------------------------------------------------
(* Strings and vectors.                                                    *)

\* startVector makes room for the elements and the length, and aligns both.
LEMMA StartVectorGrows ==
    ASSUME NEW a, Fine(a), ~Failed(a), NEW elemSize \in Nat, NEW n \in Nat,
           NEW alignment \in PowersOfTwo
    PROVE  LET b     == StartVectorArena(a, elemSize, n, alignment)
               total == elemSize * n
           IN  /\ Grows(a, b, {}) /\ b.cells = a.cells /\ b.minalign >= 4
               /\ Failed(b) => Stuck(a, b)
               /\ ~Failed(b) => /\ b.head > 4 + total
                                /\ (Off(b) + total) % 4 = 0
                                /\ (Off(b) + total) % alignment = 0
<1> DEFINE total == elemSize * n
           p == Prepare(a, 4, total)
           b == Prepare(p, alignment, total)
<1>1. total \in Nat /\ 4 \in PowersOfTwo /\ 4 \in Nat /\ alignment \in Nat
  BY DEF PowersOfTwo
<1> HIDE DEF total
<1>2. StartVectorArena(a, elemSize, n, alignment) = b
  BY DEF StartVectorArena, total
<1>3. /\ Grows(a, p, {}) /\ p.cells = a.cells /\ p.minalign >= 4
      /\ Failed(p) => p.thrown = "capacity" /\ Off(p) = Off(a)
      /\ ~Failed(p) => p.head > 4 + total /\ (Off(p) + total) % 4 = 0
  BY <1>1, PrepareGrows
<1> HIDE DEF p
<1>4. Fine(p) /\ Off(p) \in Nat /\ p.head \in Nat /\ p.minalign \in Nat
  BY <1>3, OffTyped DEF Grows, Fine
<1>5. CASE Failed(p)
  <2>1. b = p
    BY <1>5 DEF Prepare
  <2> QED BY <1>2, <1>3, <1>5, <2>1 DEF Stuck, total
<1>6. CASE ~Failed(p)
  <2> DEFINE pad == PadFor(Off(p) + total, alignment)
  <2>1. /\ Grows(p, b, {}) /\ b.cells = p.cells /\ b.minalign >= alignment
        /\ Failed(b) => b.thrown = "capacity" /\ Off(b) = Off(p)
        /\ ~Failed(b) => /\ b.head > alignment + total
                         /\ b.head >= p.head - pad
                         /\ Off(b) = Off(p) + pad
                         /\ (Off(b) + total) % alignment = 0
    BY <1>1, <1>4, <1>6, PrepareGrows
  <2>2. /\ Off(p) + total \in Int /\ pad \in Nat
        /\ (Off(p) + total) % alignment = 0 => pad = 0
    <3>1. Off(p) + total \in Int
      BY <1>1, <1>4
    <3>2. /\ pad \in 0..(alignment - 1)
          /\ (Off(p) + total) % alignment = 0 => pad = 0
      BY <3>1, PadAligns
    <3> HIDE DEF pad
    <3> QED BY <1>1, <3>1, <3>2
  <2> HIDE DEF b, pad
  <2>3. Grows(a, b, {} \cup {})
    BY <1>3, <2>1, GrowsTrans
  <2>4. {} \cup {} = {}
    OBVIOUS
  <2>5. b.minalign >= 4 /\ Off(b) \in Nat /\ b.head \in Nat
    <3>1. b.minalign \in Nat /\ b.minalign >= p.minalign /\ Off(b) \in Nat /\ b.head \in Nat
      BY <2>1, OffTyped DEF Grows, Fine
    <3> QED BY <1>3, <1>4, <3>1
  <2>6. Failed(b) => Stuck(a, b)
    BY <1>3, <2>1 DEF Stuck
  <2>7. ASSUME ~Failed(b)
        PROVE  b.head > 4 + total /\ (Off(b) + total) % 4 = 0
    <3>1. CASE alignment >= 4
      <4>1. (Off(b) + total) % 4 = 0
        BY <1>1, <2>1, <2>5, <2>7, <3>1, AlignedFor
      <4> QED BY <1>1, <2>1, <2>5, <2>7, <3>1, <4>1
    <3>2. CASE alignment < 4
      <4>1. (Off(p) + total) % alignment = 0
        BY <1>1, <1>3, <1>4, <1>6, <3>2, AlignedFor
      <4>2. pad = 0
        BY <2>2, <4>1
      <4> QED BY <1>1, <1>3, <1>4, <1>6, <2>1, <2>5, <2>7, <4>2
    <3> QED BY <1>1, <3>1, <3>2
  <2> QED BY <1>2, <1>3, <2>1, <2>3, <2>4, <2>5, <2>6, <2>7 DEF b, total
<1> QED BY <1>5, <1>6

\* The elements, where there is room for them, and their number in front.
VectorOf(b, r, c, n) ==
    /\ b.cells[r] = LengthCell(n)
    /\ c.size > 0 => b.cells[r - 4] = c

\* startVector, the elements and endVector: a vector and its length, or an error.
LEMMA VectorGrows ==
    ASSUME NEW a, Fine(a), NEW p, Grows(a, p, {}), p.cells = a.cells, p.minalign >= 4,
           Failed(p) => Stuck(a, p),
           NEW c \in Item, NEW n \in Nat,
           ~Failed(p) => /\ p.head > 4 + c.size
                         /\ LeadsBackFrom(c, Off(p) + c.size)
                         /\ Even(Off(p) + c.size, c)
                         /\ Even(Off(p) + c.size + 4, LengthCell(n))
    PROVE  LET b == Push(Push(p, c), LengthCell(n)) IN
           /\ Grows(a, b, {c.kind, "length"}) /\ b.minalign >= 4
           /\ Failed(b) => Stuck(a, b)
           /\ ~Failed(b) =>
                 /\ DOMAIN b.cells = DOMAIN a.cells \cup {Off(b)}
                                     \cup (IF c.size > 0 THEN {Off(b) - 4} ELSE {})
                 /\ VectorOf(b, Off(b), c, n)
                 /\ Off(b) = Off(p) + c.size + 4
<1> DEFINE d == Push(p, c)
           l == LengthCell(n)
           b == Push(d, l)
<1>1. /\ Fine(p) /\ p.head \in Nat /\ Off(p) \in Nat /\ Off(a) \in Nat /\ Off(a) <= Off(p)
      /\ c.size \in Nat /\ p.minalign \in Nat
  BY OffTyped DEF Grows, Fine, Item, Continues
<1>2. l \in Item /\ l.size = 4 /\ l.kind = "length" /\ \A r : LeadsBackFrom(l, r)
  BY DEF LengthCell, MkCell, Item, CellKinds, LeadsBackFrom
<1>3. CASE Failed(p)
  <2>1. b = p
    BY <1>3 DEF Push
  <2>2. Grows(a, b, {c.kind, "length"})
    BY <2>1, GrowsMore
  <2> QED BY <1>3, <2>1, <2>2
<1>4. CASE ~Failed(p)
  <2>1. /\ Grows(p, d, {c.kind, "length"}) /\ d.thrown = "ok" /\ d.minalign = p.minalign
        /\ d.head > 4 /\ Off(d) = Off(p) + c.size
        /\ DOMAIN d.cells = DOMAIN p.cells \cup (IF c.size > 0 THEN {Off(d)} ELSE {})
        /\ c.size > 0 => d.cells[Off(d)] = c
    <3>1. CASE c.size = 0
      <4>1. d = p
        BY <3>1 DEF Push
      <4>2. p.thrown = "ok"
        BY <1>4 DEF Failed
      <4> QED BY <1>1, <1>4, <3>1, <4>1, <4>2, GrowsSelf
    <3>2. CASE c.size > 0
      <4>1. c.size <= p.head
        BY <1>1, <1>4
      <4>2. /\ Grows(p, d, {c.kind})
            /\ d.thrown = "ok" /\ d.minalign = p.minalign
            /\ d.head = p.head - c.size /\ Off(d) = Off(p) + c.size
            /\ OneMore(p, d, c)
        BY <1>1, <1>4, <3>2, <4>1, PushGrows
      <4> HIDE DEF d
      <4>3. Grows(p, d, {c.kind, "length"})
        BY <4>2, GrowsMore
      <4>4. d.head > 4
        BY <1>1, <1>4, <4>2
      <4> QED BY <3>2, <4>2, <4>3, <4>4 DEF OneMore
    <3> QED BY <1>1, <3>1, <3>2
  <2> HIDE DEF d, l
  <2>2. Fine(d) /\ ~Failed(d) /\ d.head \in Nat /\ Off(d) \in Nat
    BY <2>1, OffTyped DEF Grows, Fine, Failed
  <2>3. l.size > 0 /\ l.size <= d.head /\ Even(Off(d) + l.size, l)
    BY <1>2, <1>4, <2>1, <2>2 DEF l
  <2>4. /\ Grows(d, b, {l.kind}) /\ b.thrown = "ok" /\ b.minalign = d.minalign
        /\ Off(b) = Off(d) + l.size /\ OneMore(d, b, l)
    BY <1>2, <2>2, <2>3, PushGrows
  <2> HIDE DEF b
  <2>5. Grows(a, b, {c.kind, "length"})
    <3>1. Grows(d, b, {c.kind, "length"})
      BY <1>2, <2>4, GrowsMore
    <3>2. Grows(p, b, {c.kind, "length"} \cup {c.kind, "length"})
      BY <1>1, <2>1, <3>1, GrowsTrans
    <3>3. Grows(a, b, {} \cup ({c.kind, "length"} \cup {c.kind, "length"}))
      BY <3>2, GrowsTrans
    <3>4. {} \cup ({c.kind, "length"} \cup {c.kind, "length"}) = {c.kind, "length"}
      OBVIOUS
    <3> QED BY <3>3, <3>4
  <2>6. ~Failed(b)
    BY <2>4 DEF Failed
  <2>7. Off(d) = Off(b) - 4
    BY <1>2, <2>2, <2>4
  <2>8. DOMAIN b.cells = DOMAIN a.cells \cup {Off(b)}
                         \cup (IF c.size > 0 THEN {Off(b) - 4} ELSE {})
    BY <2>1, <2>4, <2>7 DEF OneMore
  <2>9. c.size > 0 => b.cells[Off(b) - 4] = c
    BY <2>1, <2>4, <2>7 DEF OneMore, Grows, Continues, Keeps
  <2>10. b.cells[Off(b)] = LengthCell(n)
    BY <2>4 DEF OneMore, l
  <2>11. Off(b) = Off(p) + c.size + 4
    BY <1>1, <1>2, <2>1, <2>4
  <2> QED BY <2>1, <2>4, <2>5, <2>6, <2>8, <2>9, <2>10, <2>11 DEF VectorOf, b, d, l
<1> QED BY <1>3, <1>4

-----------------------------------------------------------------------------
(* The state between two calls.                                            *)

\* A vtable that has all its shorts: the first is its size.
VtableComplete(c) == c.kind = "vtable" /\ c.val # <<>> /\ c.val[1] % 2 = 0 /\ c.val[1] >= 4

VtablesComplete ==
    \A k \in DOMAIN vtables :
        vtables[k] \in DOMAIN arena.cells /\ VtableComplete(arena.cells[vtables[k]])

\* The builder is where the client has brought it.
InStep ==
    /\ open \in Tables \cup {<<>>}
    /\ finished => ~Failed(arena) /\ open = <<>>
    /\ ~Failed(arena) => /\ nested = (open # <<>>)
                         /\ Len(vtable) = Len(open)
                         /\ nested => objectEnd <= Off(arena)

CInv == IInv /\ arena.thrown \in Ordinary /\ arena.minalign \in PowersOfTwo /\ InStep /\ VtablesComplete

\* A call starts from a buffer without an error.
Ready == CInv /\ ~Failed(arena) /\ ~finished

\* What a call may count on when it starts.
LEMMA ReadyFine ==
    ASSUME Ready
    PROVE  /\ Fresh = arena /\ Fine(Fresh) /\ ~Failed(Fresh) /\ Fine(arena)
           /\ Off(arena) \in Nat /\ nested = (open # <<>>) /\ Len(vtable) = Len(open)
<1>1. Good(arena)
  BY IInvGood DEF Ready, CInv
<1>2. Fresh = arena
  BY <1>1 DEF Ready, Fresh, Failed, Good, ArenaTypeOK
<1>3. Fine(arena)
  BY <1>1 DEF Ready, CInv, Fine
<1> QED BY <1>2, <1>3, OffTyped DEF Ready, CInv, InStep, Fine

-----------------------------------------------------------------------------
(* What the calls that build a string or a vector do.                      *)

ItemBuilt(c, n) ==
    /\ Grows(arena, arena', {c.kind, "length"}) /\ arena'.minalign >= 4
    /\ Failed(arena') => Stuck(arena, arena')
    /\ ~Failed(arena') =>
          /\ DOMAIN arena'.cells = DOMAIN arena.cells \cup {Off(arena')}
                                   \cup (IF c.size > 0 THEN {Off(arena') - 4} ELSE {})
          /\ VectorOf(arena', Off(arena'), c, n)
          /\ Off(arena') >= Off(arena) + c.size + 4
    /\ nested' = Failed(arena')
    /\ UNCHANGED <<vtable, objectEnd, vtables, finished, forceDefaults, open>>

\* FinishVector, of the elements in c.
LEMMA VectorBuilt ==
    ASSUME Ready, NEW p, Grows(arena, p, {}), p.cells = arena.cells, p.minalign >= 4,
           Failed(p) => Stuck(arena, p),
           NEW c \in Item, NEW n \in Nat,
           ~Failed(p) => /\ p.head > 4 + c.size
                         /\ LeadsBackFrom(c, Off(p) + c.size)
                         /\ Even(Off(p) + c.size, c)
                         /\ Even(Off(p) + c.size + 4, LengthCell(n)),
           FinishVector(Push(p, c), n), UNCHANGED open
    PROVE  ItemBuilt(c, n) /\ (~Failed(arena') => Off(arena') = Off(p) + c.size + 4)
<1> DEFINE b == Push(Push(p, c), LengthCell(n))
<1>1. Fine(arena)
  BY ReadyFine
<1>2. /\ Grows(arena, b, {c.kind, "length"}) /\ b.minalign >= 4
      /\ Failed(b) => Stuck(arena, b)
      /\ ~Failed(b) =>
            /\ DOMAIN b.cells = DOMAIN arena.cells \cup {Off(b)}
                                \cup (IF c.size > 0 THEN {Off(b) - 4} ELSE {})
            /\ VectorOf(b, Off(b), c, n)
            /\ Off(b) = Off(p) + c.size + 4
  BY <1>1, VectorGrows
<1>3. /\ arena' = b /\ nested' = Failed(b)
      /\ UNCHANGED <<vtable, objectEnd, vtables, finished, forceDefaults>>
  BY DEF FinishVector
<1> HIDE DEF b
<1>4. Off(p) + c.size + 4 >= Off(arena) + c.size + 4
  <2>1. Off(p) >= Off(arena) /\ Off(p) \in Nat /\ Off(arena) \in Nat /\ c.size \in Nat
    BY <1>1, OffTyped DEF Grows, Continues, Fine, Item
  <2> QED BY <2>1
<1> QED BY <1>2, <1>3, <1>4 DEF ItemBuilt

\* A string, and a byte vector, whose length is where its bytes leave it.
LEMMA BytesBuilt ==
    ASSUME Ready, NEW n \in Nat, NEW k \in {"string", "bytes"}, k = "bytes" => ByteVectors,
           NEW m \in {n, n + 1}, k = "string" => m = n + 1,
           FinishVector(Push(Prepare(Fresh, 4, n + 1), MkCell(m, 1, k, <<>>)), n),
           UNCHANGED open
    PROVE  ItemBuilt(MkCell(m, 1, k, <<>>), n)
<1> DEFINE p == Prepare(arena, 4, n + 1)
           c == MkCell(m, 1, k, <<>>)
<1>1. Fresh = arena /\ Fine(arena) /\ ~Failed(arena)
  BY ReadyFine
<1>2. /\ Grows(arena, p, {}) /\ p.cells = arena.cells /\ p.minalign >= 4
      /\ Failed(p) => p.thrown = "capacity"
      /\ ~Failed(p) => p.head > 4 + (n + 1) /\ (Off(p) + (n + 1)) % 4 = 0
  BY <1>1, PrepareGrows DEF PowersOfTwo
<1>3. FinishVector(Push(p, c), n)
  BY <1>1
<1> HIDE DEF p
<1>4. c \in Item /\ c.size = m /\ c.kind = k /\ c.align = 1 /\ m \in Nat /\ m <= n + 1
  BY DEF Item, MkCell, CellKinds
<1> HIDE DEF c
<1>5. Off(p) \in Nat /\ p.head \in Nat
  BY <1>2, OffTyped DEF Grows, Fine
<1>6. ASSUME ~Failed(p)
      PROVE  /\ p.head > 4 + c.size
             /\ LeadsBackFrom(c, Off(p) + c.size)
             /\ Even(Off(p) + c.size, c)
             /\ Even(Off(p) + c.size + 4, LengthCell(n))
  <2>1. p.head > 4 + c.size
    BY <1>2, <1>4, <1>5, <1>6
  <2>2. LeadsBackFrom(c, Off(p) + c.size) /\ Even(Off(p) + c.size, c)
    BY <1>4, <1>5 DEF LeadsBackFrom, Even
  <2>3. Even(Off(p) + c.size + 4, LengthCell(n))
    <3>1. CASE k = "bytes"
      BY <3>1 DEF Even
    <3>2. CASE k = "string"
      <4>1. (Off(p) + c.size + 4) % 4 = 0
        BY <1>2, <1>4, <1>5, <1>6, <3>2
      <4> QED BY <4>1 DEF Even, LengthCell, MkCell
    <3> QED BY <3>1, <3>2
  <2> QED BY <2>1, <2>2, <2>3
<1>7. Failed(p) => Stuck(arena, p)
  BY <1>2 DEF Stuck
<1> QED BY <1>2, <1>3, <1>4, <1>6, <1>7, VectorBuilt DEF c

\* createXVectory, and a vector of structs: all the elements are one item.
LEMMA ElementsBuilt ==
    ASSUME Ready, NEW size \in Nat \ {0}, NEW align \in PowersOfTwo,
           NEW kind \in {"scalar", "struct"}, NEW elements \in Seq(Int),
           ElementsThenLength(size, align, kind, elements),
           UNCHANGED open
    PROVE  ItemBuilt(MkCell(size * Len(elements), align, kind, elements), Len(elements))
<1> DEFINE n == Len(elements)
           p == StartVectorArena(arena, size, n, align)
           c == MkCell(size * n, align, kind, elements)
<1>1. Fresh = arena /\ Fine(arena) /\ ~Failed(arena) /\ n \in Nat /\ size * n \in Nat
      /\ align \in Nat \ {0}
  BY ReadyFine DEF PowersOfTwo
<1>2. /\ Grows(arena, p, {}) /\ p.cells = arena.cells /\ p.minalign >= 4
      /\ Failed(p) => Stuck(arena, p)
      /\ ~Failed(p) => /\ p.head > 4 + size * n
                       /\ (Off(p) + size * n) % 4 = 0
                       /\ (Off(p) + size * n) % align = 0
  BY <1>1, StartVectorGrows
<1>3. FinishVector(Push(p, c), n)
  BY <1>1 DEF ElementsThenLength
<1> HIDE DEF p
<1>4. c \in Item /\ c.size = size * n /\ c.kind = kind /\ c.align = align
  BY <1>1 DEF Item, MkCell, CellKinds
<1>5. Off(p) \in Nat
  BY <1>2, OffTyped DEF Grows, Fine
<1> HIDE DEF c
<1>6. ASSUME ~Failed(p)
      PROVE  /\ p.head > 4 + c.size
             /\ LeadsBackFrom(c, Off(p) + c.size)
             /\ Even(Off(p) + c.size, c)
             /\ Even(Off(p) + c.size + 4, LengthCell(n))
  <2>1. p.head > 4 + c.size
    BY <1>2, <1>4, <1>6
  <2>2. LeadsBackFrom(c, Off(p) + c.size) /\ Even(Off(p) + c.size, c)
    BY <1>2, <1>4, <1>6 DEF LeadsBackFrom, Even
  <2>3. c.size \in Nat /\ (Off(p) + c.size) % 4 = 0
    BY <1>1, <1>2, <1>4, <1>6
  <2>4. (Off(p) + c.size + 4) % 4 = 0
    BY <1>5, <2>3
  <2>5. Even(Off(p) + c.size + 4, LengthCell(n))
    BY <2>4 DEF Even, LengthCell, MkCell
  <2> QED BY <2>1, <2>2, <2>5
<1> HIDE DEF n
<1> QED BY <1>1, <1>2, <1>3, <1>4, <1>6, VectorBuilt DEF c, n

\* The elements createVectorOfTables writes.
OffsetsCell(a, targets) ==
    LET n == Len(targets)
    IN  MkCell(4 * n, 4, "uoffset",
               Distances(targets, Off(StartVectorArena(a, 4, n, 4)), 0))

\* Offsets to what is already in the buffer lead backwards.
LEMMA DistancesLead ==
    ASSUME NEW c, NEW r, \A k \in DOMAIN c.val : c.val[k] \in 4 .. (r - 4 * (k - 1))
    PROVE  LeadsBackFrom(c, r)
BY DEF LeadsBackFrom

\* createXVector of strings, and createVectorOfTables: every target has been
\* written, so that no offset is refused.
LEMMA OffsetsBuilt ==
    ASSUME Ready, NEW n \in Nat, NEW targets \in [1..n -> 0..Off(arena)],
           FinishVector(OffsetsArena(Fresh, targets), Len(targets)),
           UNCHANGED open
    PROVE  /\ ItemBuilt(OffsetsCell(arena, targets), n)
           /\ OffsetsCell(arena, targets) \in Item
           /\ OffsetsCell(arena, targets).kind = "uoffset"
           /\ OffsetsCell(arena, targets).size = 4 * n
           /\ ~Failed(arena') => Off(arena') = Off(StartVectorArena(arena, 4, n, 4)) + 4 * n + 4
<1> DEFINE p == StartVectorArena(arena, 4, n, 4)
           c == OffsetsCell(arena, targets)
           dist == Distances(targets, Off(p), 0)
<1>1. Fresh = arena /\ Fine(arena) /\ ~Failed(arena) /\ Len(targets) = n /\ 4 * n \in Nat
      /\ Off(arena) \in Nat /\ DOMAIN targets = 1..n
  BY ReadyFine
<1>2. /\ Grows(arena, p, {}) /\ p.cells = arena.cells /\ p.minalign >= 4
      /\ Failed(p) => Stuck(arena, p)
      /\ ~Failed(p) => /\ p.head > 4 + 4 * n
                       /\ (Off(p) + 4 * n) % 4 = 0
  <2>1. 4 \in Nat /\ 4 \in PowersOfTwo
    BY DEF PowersOfTwo
  <2> HIDE DEF p
  <2>2. /\ Grows(arena, p, {}) /\ p.cells = arena.cells /\ p.minalign >= 4
        /\ Failed(p) => Stuck(arena, p)
        /\ ~Failed(p) => p.head > 4 + 4 * n /\ (Off(p) + 4 * n) % 4 = 0
    BY <1>1, <2>1, StartVectorGrows DEF p
  <2> QED BY <2>2
<1>3. Off(p) \in Nat /\ Off(arena) <= Off(p)
  BY <1>2, OffTyped DEF Grows, Fine, Continues
<1>4. Unreachable(targets, Off(p)) = {}
  <2>1. ASSUME NEW k \in 1..n PROVE ~(targets[k] > Off(p) + 4 * (n - k))
    <3>1. targets[k] \in Nat /\ targets[k] <= Off(arena)
      BY <1>1
    <3> HIDE DEF p
    <3> QED BY <1>1, <1>3, <3>1
  <2> QED BY <1>1, <2>1 DEF Unreachable
<1>5. LastOf({}) = 0
  BY DEF LastOf
<1>6. OffsetsArena(arena, targets) = Push(p, MkCell(4 * Len(dist), 4, "uoffset", dist))
  BY <1>1, <1>4, <1>5 DEF OffsetsArena
<1>7. /\ dist \in Seq(Int) /\ Len(dist) = n
      /\ \A k \in DOMAIN dist : dist[k] \in 4 .. (Off(p) + 4 * n - 4 * (k - 1))
  <2>1. targets \in [1..n -> Nat] /\ 0 \in 0..n /\ n - 0 = n
    BY <1>1
  <2> HIDE DEF p
  <2>2. \A k \in (0 + 1)..n : k \notin Unreachable(targets, Off(p))
    BY <1>4
  <2>3. /\ dist \in Seq(Int) /\ Len(dist) = n - 0
        /\ \A k \in DOMAIN dist : dist[k] \in 4 .. (Off(p) + 4 * (n - 0) - 4 * (k - 1))
    BY <1>3, <2>1, <2>2, DistancesLeadBack
  <2> QED BY <2>1, <2>3
<1> HIDE DEF dist
<1>8. c = MkCell(4 * Len(dist), 4, "uoffset", dist)
  BY <1>1, <1>7 DEF OffsetsCell, dist
<1>9. FinishVector(Push(p, c), n)
  BY <1>1, <1>6, <1>8
<1> HIDE DEF p, c
<1>10. c \in Item /\ c.size = 4 * n /\ c.kind = "uoffset" /\ c.align = 4 /\ c.val = dist
  BY <1>1, <1>7, <1>8 DEF Item, MkCell, CellKinds
<1>11. ASSUME ~Failed(p)
      PROVE  /\ p.head > 4 + c.size
             /\ LeadsBackFrom(c, Off(p) + c.size)
             /\ Even(Off(p) + c.size, c)
             /\ Even(Off(p) + c.size + 4, LengthCell(n))
  <2>1. p.head > 4 + c.size
    BY <1>2, <1>10, <1>11
  <2>2. Even(Off(p) + c.size, c)
    BY <1>2, <1>10, <1>11 DEF Even
  <2>3. LeadsBackFrom(c, Off(p) + c.size)
    <3> DEFINE r == Off(p) + c.size
    <3>3. r = Off(p) + 4 * n
      BY <1>10
    <3> HIDE DEF r
    <3>4. \A k \in DOMAIN dist : dist[k] \in 4 .. (r - 4 * (k - 1))
      BY <1>1, <1>3, <1>7, <3>3
    <3>1. \A k \in DOMAIN c.val : c.val[k] \in 4 .. (r - 4 * (k - 1))
      BY <1>10, <3>4
    <3>2. LeadsBackFrom(c, r)
      BY <3>1, DistancesLead
    <3> QED BY <3>2 DEF r
  <2>4. (Off(p) + c.size + 4) % 4 = 0
    BY <1>1, <1>2, <1>3, <1>10, <1>11
  <2>5. Even(Off(p) + c.size + 4, LengthCell(n))
    BY <2>4 DEF Even, LengthCell, MkCell
  <2> QED BY <2>1, <2>2, <2>3, <2>5
<1>12. ItemBuilt(c, n) /\ (~Failed(arena') => Off(arena') = Off(p) + c.size + 4)
  BY <1>2, <1>9, <1>10, <1>11, VectorBuilt
<1> QED BY <1>10, <1>12 DEF c, p

-----------------------------------------------------------------------------
(* What the other calls do.                                                *)

\* Nothing that matters to a reader or to a later call.
Same == UNCHANGED <<arena, vtable, objectEnd, vtables, nested, finished, open>>

Emptied ==
    /\ arena' = EmptyArena(0) /\ vtable' = <<>> /\ vtables' = <<>>
    /\ nested' = FALSE /\ finished' = FALSE /\ open' = <<>>
    /\ UNCHANGED objectEnd

ItemKinds == {"string", "bytes", "scalar", "struct", "uoffset"}

BuiltOf(c, n) ==
    /\ Ready /\ open = <<>>
    /\ c \in Item /\ n \in Nat /\ c.kind \in ItemKinds /\ ItemBuilt(c, n)
    /\ n # 0 => c.size > 0
Built == \E c \in Item, n \in Nat : BuiltOf(c, n)

Started ==
    /\ Ready /\ open = <<>>
    /\ \E T \in Tables : vtable' = Zeros(Len(T)) /\ open' = T /\ T # <<>>
    /\ nested' = TRUE /\ objectEnd' = Off(arena)
    /\ arena' = [arena EXCEPT !.minalign = 1]
    /\ UNCHANGED <<vtables, finished>>

\* A field of the table that is open, of the item that has been written for it.
AddedField(i, c) ==
    /\ Ready /\ open # <<>> /\ i \in DOMAIN vtable /\ c \in Item /\ vtable[i] = 0
    /\ Grows(arena, arena', ItemKinds)
    /\ \/ Stuck(arena, arena') /\ vtable' = vtable
       \/ /\ ~Failed(arena')
          /\ vtable' = [vtable EXCEPT ![i] = Off(arena')]
          /\ OneMore(arena, arena', c)
          /\ Off(arena') < Off(arena) + FieldSpan(open[i])
    /\ UNCHANGED <<objectEnd, vtables, nested, finished, open>>
Added == \E i \in DOMAIN vtable, c \in Item : AddedField(i, c)

\* The place of a table and of its vtable.
ObjectPlace == Off(arena) + PadFor(Off(arena), 4) + 4
VtablePlace == ObjectPlace + 2 * (Len(vtable) + 2)

Ended ==
    /\ Ready /\ open # <<>> /\ Off(arena) <= MaxOffset
    /\ Grows(arena, arena', {"soffset", "vtable", "partial"}) /\ arena'.minalign >= 4
    /\ UNCHANGED <<objectEnd, finished>>
    /\ \/ /\ Failed(arena')
          /\ \A s \in DOMAIN arena'.cells \ DOMAIN arena.cells :
                \/ arena'.cells[s].kind = "partial"
                \/ s = ObjectPlace /\ arena'.cells[s] = MkCell(4, 4, "soffset", <<ObjectPlace>>)
          /\ UNCHANGED <<vtable, vtables, nested, open>>
       \/ /\ ~Failed(arena')
          /\ Off(arena') = VtablePlace
          /\ DOMAIN arena'.cells = DOMAIN arena.cells \cup {ObjectPlace, VtablePlace}
          /\ arena'.cells[ObjectPlace] =
                MkCell(4, 4, "soffset", <<VtablePlace - ObjectPlace>>)
          /\ arena'.cells[VtablePlace] =
                MkCell(2 * (Len(vtable) + 2), 2, "vtable", VtableShorts(ObjectPlace))
          /\ vtables' = Append(vtables, VtablePlace)
          /\ vtable' = <<>> /\ nested' = FALSE /\ open' = <<>>

RootPlaced ==
    /\ Ready /\ open = <<>> /\ DOMAIN arena.cells # {}
    /\ Grows(arena, arena', {"uoffset", "ident", "partial"})
    /\ finished' = ~Failed(arena')
    /\ ~Failed(arena') =>
          /\ Off(arena') \in DOMAIN arena'.cells
          /\ arena'.cells[Off(arena')].kind = "uoffset"
          /\ arena.minalign >= 4 =>
                \A s \in DOMAIN arena'.cells \ DOMAIN arena.cells :
                   arena'.cells[s].kind = "ident" => s = Off(arena') - 4
    /\ UNCHANGED <<vtable, objectEnd, vtables, nested, open>>

\* Where a finished buffer starts is the way to its root.
LeadsTo(root) == ~Failed(arena') => arena'.cells[Off(arena')].val = <<Off(arena') - root>>

\* A field of a table in the buffer b, which is arena with the field in front.
LEMMA FieldAdded ==
    ASSUME Ready, open # <<>>, NEW i \in DOMAIN open, vtable[i] = 0, NEW c \in Item, c.kind \in ItemKinds,
           NEW STATE b, Grows(arena, b, {c.kind}), Failed(b) => Stuck(arena, b),
           ~Failed(b) => OneMore(arena, b, c) /\ Off(b) < Off(arena) + FieldSpan(open[i]),
           RecordField(i, b), UNCHANGED open
    PROVE  AddedField(i, c)
<1>1. i \in DOMAIN vtable
  <2>1. Len(vtable) = Len(open) /\ vtable \in Seq(Nat) /\ open \in Seq(FieldTypes)
    BY ReadyFine, ClientAssumption DEF Ready, CInv, IInv, TypeOK, InStep
  <2> QED BY <2>1
<1>2. Grows(arena, b, ItemKinds)
  BY GrowsMore
<1>3. CASE Failed(b)
  <2>1. arena' = b /\ vtable' = vtable /\ UNCHANGED <<objectEnd, vtables, nested, finished>>
    BY <1>3 DEF RecordField
  <2> QED BY <1>1, <1>2, <1>3, <2>1 DEF AddedField
<1>4. CASE ~Failed(b)
  <2>1. /\ arena' = b /\ vtable' = [vtable EXCEPT ![i] = Off(b)]
        /\ UNCHANGED <<objectEnd, vtables, nested, finished>>
    BY <1>1, <1>4 DEF RecordField
  <2>2. /\ ~Failed(arena') /\ OneMore(arena, arena', c)
        /\ Off(arena') < Off(arena) + FieldSpan(open[i])
        /\ vtable' = [vtable EXCEPT ![i] = Off(arena')]
        /\ Grows(arena, arena', ItemKinds)
    BY <1>2, <1>4, <2>1
  <2> QED BY <1>1, <2>1, <2>2 DEF AddedField
<1> QED BY <1>3, <1>4

\* What writes a scalar of the types of the schema.
LEMMA ScalarGrows ==
    ASSUME SchemaFits, NEW a, Fine(a), ~Failed(a), NEW t \in ScalarTypes, NEW v \in Values
    PROVE  LET b == PushScalar(Prepare(a, WidthOf[t], 0), t, v)
               c == Scalar(WidthOf[t], v)
           IN  /\ c \in Item /\ c.kind = "scalar" /\ Grows(a, b, {"scalar"})
               /\ Failed(b) => Stuck(a, b)
               /\ ~Failed(b) => OneMore(a, b, c) /\ Off(b) < Off(a) + FieldSpan(t)
<1> DEFINE w == WidthOf[t]
           c == Scalar(w, v)
           p == Prepare(a, w, 0)
           b == PushScalar(p, t, v)
           r == Off(a) + PadFor(Off(a) + 0, w) + c.size
<1>1. w \in PowersOfTwo
  BY BuilderAssumption DEF WidthOf, PowersOfTwo
<1>2. /\ c \in Item /\ c.size > 0 /\ c.kind = "scalar" /\ LeadsBackFrom(c, r)
      /\ c.size = w /\ c.align = w
  BY ScalarItem DEF Scalar, MkCell
<1>3. b = Push(p, c)
  <2>1. ~(t = "Byte" /\ v < 0)
    <3>1. t = "Byte" => v \in Nat
      BY DEF SchemaFits
    <3> QED BY <3>1
  <2> QED BY <2>1 DEF PushScalar
<1> HIDE DEF b, p
<1>4. Even(r, c)
  <2>1. /\ Off(a) + 0 \in Int /\ Off(a) \in Nat /\ w \in Nat \ {0}
        /\ PadFor(Off(a) + 0, w) \in Int
        /\ (Off(a) + 0 + PadFor(Off(a) + 0, w)) % w = 0
    <3>1. Off(a) \in Nat
      BY OffTyped DEF Fine
    <3>2. Off(a) + 0 \in Int
      BY <3>1
    <3> HIDE DEF w
    <3>3. PadFor(Off(a) + 0, w) \in 0..(w - 1) /\ (Off(a) + 0 + PadFor(Off(a) + 0, w)) % w = 0
      BY <1>1, <3>2, PadAligns
    <3>4. w \in Nat \ {0}
      BY <1>1 DEF PowersOfTwo
    <3> QED BY <3>1, <3>2, <3>3, <3>4
  <2> DEFINE m == Off(a) + PadFor(Off(a) + 0, w)
  <2>2. m \in Int /\ m % w = 0 /\ r = m + w
    BY <1>2, <2>1
  <2> HIDE DEF m, r, c, w
  <2>3. (m + w) % w = 0
    <3> USE <2>2
    <3>1. CASE w = 1 BY <3>1
    <3>2. CASE w = 2 BY <3>2
    <3>3. CASE w = 4 BY <3>3
    <3>4. CASE w = 8 BY <3>4
    <3>5. CASE w = 16 BY <3>5
    <3>6. CASE w = 32 BY <3>6
    <3> QED BY <1>1, <3>1, <3>2, <3>3, <3>4, <3>5, <3>6 DEF PowersOfTwo
  <2> QED BY <1>2, <2>2, <2>3 DEF Even
<1> HIDE DEF c, w
<1>5. c.size <= w + 0
  <2>1. w \in Nat
    BY <1>1 DEF PowersOfTwo
  <2> QED BY <1>2, <2>1
<1>6. /\ Grows(a, b, {c.kind})
      /\ Failed(b) => Stuck(a, b)
      /\ ~Failed(b) => OneMore(a, b, c) /\ Off(b) < Off(a) + c.size + w
  BY <1>1, <1>2, <1>3, <1>4, <1>5, PlacedGrows DEF p
<1>7. FieldSpan(t) = 2 * w
  <2>1. t \in DOMAIN WidthOf
    BY BuilderAssumption
  <2>2. t # "offset" /\ t \notin DOMAIN Structs
    BY <2>1, ClientAssumption DEF WidthOf
  <2> QED BY <2>2 DEF FieldSpan, w
<1>8. Off(a) + c.size + w = Off(a) + FieldSpan(t)
  BY <1>1, <1>2, <1>7, OffTyped DEF Fine, PowersOfTwo
<1> QED BY <1>2, <1>6, <1>8 DEF b, c, w, p

\* A struct, created where it is added.
LEMMA StructGrows ==
    ASSUME NEW a, Fine(a), ~Failed(a), NEW s \in DOMAIN Structs
    PROVE  LET b == CreateStruct(a, s)
               c == MkCell(Structs[s].bytes, Structs[s].align, "struct", <<0>>)
           IN  /\ c \in Item /\ c.kind = "struct" /\ Grows(a, b, {"struct"})
               /\ Failed(b) => Stuck(a, b)
               /\ ~Failed(b) => OneMore(a, b, c) /\ Off(b) < Off(a) + FieldSpan(s)
<1> DEFINE bytes == Structs[s].bytes
           align == Structs[s].align
           c == MkCell(bytes, align, "struct", <<0>>)
           p == Prepare(a, align, bytes)
           b == Push(p, c)
           r == Off(a) + PadFor(Off(a) + bytes, align) + c.size
<1>1. bytes \in Nat \ {0} /\ align \in PowersOfTwo /\ align \in Nat \ {0}
  BY ClientAssumption DEF PowersOfTwo
<1>2. CreateStruct(a, s) = b
  BY DEF CreateStruct
<1> HIDE DEF bytes, align
<1>3. c \in Item /\ c.size = bytes /\ c.align = align /\ c.kind = "struct"
  <2>1. <<0>> \in Seq(Int)
    OBVIOUS
  <2> QED BY <1>1, <2>1 DEF Item, MkCell, CellKinds
<1> HIDE DEF c, b, p
<1>4. LeadsBackFrom(c, r)
  BY <1>3 DEF LeadsBackFrom
<1>5. Even(r, c)
  <2>1. Off(a) \in Nat
    BY OffTyped DEF Fine
  <2>2. Off(a) + bytes \in Int
    BY <1>1, <2>1
  <2>3. PadFor(Off(a) + bytes, align) \in 0..(align - 1)
        /\ (Off(a) + bytes + PadFor(Off(a) + bytes, align)) % align = 0
    BY <1>1, <2>2, PadAligns
  <2>4. r = Off(a) + bytes + PadFor(Off(a) + bytes, align)
    BY <1>1, <1>3, <2>1, <2>3
  <2> QED BY <1>3, <2>3, <2>4 DEF Even
<1> HIDE DEF r
<1>6. c.size > 0 /\ c.size <= align + bytes
  BY <1>1, <1>3
<1>7. /\ Grows(a, b, {c.kind})
      /\ Failed(b) => Stuck(a, b)
      /\ ~Failed(b) => OneMore(a, b, c) /\ Off(b) < Off(a) + c.size + align
  BY <1>1, <1>3, <1>4, <1>5, <1>6, PlacedGrows DEF p, b, r
<1>8. Off(a) + c.size + align = Off(a) + FieldSpan(s)
  BY <1>1, <1>3, OffTyped DEF Fine, FieldSpan, bytes, align
<1> QED BY <1>2, <1>3, <1>7, <1>8 DEF c, bytes, align

\* A place a client refers to is one of something that has been written.
LEMMA PlaceWritten ==
    ASSUME Ready, NEW r \in Places(arena)
    PROVE  r \in DOMAIN arena.cells /\ r \in 0..Off(arena)
<1>1. r \in DOMAIN arena.cells
  BY DEF Places
<1> QED BY <1>1, ReadyFine, OffTyped DEF Fine

\* The calls of a generated client are the steps above: addX of a scalar ...
LEMMA AddScalarStep ==
    ASSUME SchemaFits, Ready, NEW i \in DOMAIN open, NEW t \in ScalarTypes, NEW v \in Values,
           AddScalar(i, t, v)
    PROVE  (Same /\ v = Default) \/ AddedField(i, Scalar(WidthOf[t], v))
<1> DEFINE b == PushScalar(Prepare(arena, WidthOf[t], 0), t, v)
           c == Scalar(WidthOf[t], v)
<1>1. Fresh = arena /\ Fine(arena) /\ ~Failed(arena)
  BY ReadyFine
<1>2. vtable[i] = 0 /\ open[i] = t /\ PutScalarField(i, t, v, Default) /\ UNCHANGED open
  BY DEF AddScalar, Adding
<1>3. open # <<>>
  OBVIOUS
<1>4. CASE v = Default /\ OnlyArena(Fresh)
  BY <1>1, <1>2, <1>4 DEF OnlyArena, Same
<1>5. CASE RecordField(i, ScalarPut(t, v))
  <2>1. RecordField(i, b)
    BY <1>1, <1>5 DEF ScalarPut
  <2>2. /\ c \in Item /\ c.kind = "scalar" /\ Grows(arena, b, {"scalar"})
        /\ Failed(b) => Stuck(arena, b)
        /\ ~Failed(b) => OneMore(arena, b, c) /\ Off(b) < Off(arena) + FieldSpan(open[i])
    BY <1>1, <1>2, ScalarGrows
  <2> HIDE DEF b, c
  <2>3. AddedField(i, c)
    BY <1>2, <1>3, <2>1, <2>2, FieldAdded DEF ItemKinds
  <2> QED BY <2>3 DEF c
<1> QED BY <1>2, <1>4, <1>5 DEF PutScalarField

\* ... addX of a reference ...
LEMMA AddOffsetStep ==
    ASSUME Ready, NEW i \in DOMAIN open, NEW target \in Places(arena), AddOffset(i, target)
    PROVE  LET r == Off(arena) + PadFor(Off(arena), 4) + 4
           IN  /\ AddedField(i, MkCell(4, 4, "uoffset", <<r - target>>))
               /\ ~Failed(arena') => Off(arena') = r
<1> DEFINE b == PutUOffset(arena, target)
           r == Off(arena) + PadFor(Off(arena), 4) + 4
           c == MkCell(4, 4, "uoffset", <<r - target>>)
<1>1. Fresh = arena /\ Fine(arena) /\ ~Failed(arena)
  BY ReadyFine
<1>2. vtable[i] = 0 /\ open[i] = "offset" /\ PutOffset(i, target, 0) /\ UNCHANGED open
  BY DEF AddOffset, Adding
<1>3. open # <<>>
  OBVIOUS
<1>4. target # 0
  BY PlaceWritten, OffTyped, <1>1 DEF Fine
<1>5. RecordField(i, PutUOffset(Fresh, target))
  BY <1>2, <1>4 DEF PutOffset
<1>6. AddedField(i, c) /\ (~Failed(arena') => Off(arena') = r)
  <2>1. RecordField(i, b)
    BY <1>1, <1>5
  <2>2. target \in 0..Off(arena)
    BY PlaceWritten
  <2>3. /\ Grows(arena, b, {"uoffset"})
        /\ Failed(b) => Stuck(arena, b)
        /\ ~Failed(b) => /\ OneMore(arena, b, c) /\ Off(b) = r
                         /\ Off(b) < Off(arena) + FieldSpan(open[i])
    <3>1. FieldSpan(open[i]) = 8
      BY <1>2, ClientAssumption DEF FieldSpan
    <3>2. r < Off(arena) + 8
      <4>1. Off(arena) \in Nat /\ PadFor(Off(arena), 4) \in 0..3
        BY <1>1, OffTyped, PadAligns DEF Fine, PowersOfTwo
      <4> QED BY <4>1
    <3> QED BY <1>1, <2>2, <3>1, <3>2, PutUOffsetGrows
  <2>4. c \in Item /\ c.kind = "uoffset"
    <3>1. r - target \in Int
      <4>1. Off(arena) \in Nat /\ PadFor(Off(arena), 4) \in 0..3
        BY <1>1, OffTyped, PadAligns DEF Fine, PowersOfTwo
      <4> QED BY <2>2, <4>1
    <3> HIDE DEF r
    <3> QED BY <3>1 DEF Item, MkCell, CellKinds
  <2> HIDE DEF b, c, r
  <2>5. AddedField(i, c)
    BY <1>2, <1>3, <2>1, <2>3, <2>4, FieldAdded DEF ItemKinds
  <2>6. ~Failed(b) => i \in DOMAIN vtable
    BY <2>5 DEF AddedField
  <2>7. arena' = b
    BY <2>1, <2>6 DEF RecordField
  <2> QED BY <2>3, <2>5, <2>7
<1> QED BY <1>6

\* ... addX of a struct, created on the spot ...
LEMMA AddStructStep ==
    ASSUME Ready, NEW i \in DOMAIN open, NEW s \in DOMAIN Structs, AddStruct(i, s)
    PROVE  AddedField(i, MkCell(Structs[s].bytes, Structs[s].align, "struct", <<0>>))
<1> DEFINE b == CreateStruct(arena, s)
           c == MkCell(Structs[s].bytes, Structs[s].align, "struct", <<0>>)
<1>1. Fresh = arena /\ Fine(arena) /\ ~Failed(arena)
  BY ReadyFine
<1>2. vtable[i] = 0 /\ open[i] = s /\ RecordField(i, b) /\ UNCHANGED open
  BY <1>1 DEF AddStruct, Adding
<1>3. open # <<>>
  OBVIOUS
<1>4. /\ c \in Item /\ c.kind = "struct" /\ Grows(arena, b, {"struct"})
      /\ Failed(b) => Stuck(arena, b)
      /\ ~Failed(b) => OneMore(arena, b, c) /\ Off(b) < Off(arena) + FieldSpan(open[i])
  BY <1>1, <1>2, StructGrows
<1> HIDE DEF b, c
<1>5. AddedField(i, c)
  BY <1>2, <1>3, <1>4, FieldAdded DEF ItemKinds
<1> QED BY <1>5 DEF c

\* ... startX, which allocates the vtable ...
LEMMA StartTableStep ==
    ASSUME SchemaFits, Ready, NEW T \in Tables, StartTable(T)
    PROVE  Started
<1>1. Fresh = arena /\ ~Failed(arena) /\ nested = FALSE /\ vtable = <<>> /\ open = <<>>
  <2>1. open = <<>> /\ Len(vtable) = 0 /\ vtable \in Seq(Nat) /\ nested = FALSE
    BY ReadyFine DEF StartTable, Ready, CInv, IInv, TypeOK
  <2>2. vtable = <<>>
    BY <2>1
  <2> QED BY <2>1, <2>2, ReadyFine
<1>2. T # <<>> /\ Len(T) \in Nat /\ Len(T) > 0
  <2>1. T # <<>> /\ T \in Seq(FieldTypes)
    BY ClientAssumption DEF SchemaFits
  <2> QED BY <2>1
<1>3. /\ vtable' = Zeros(Len(T)) /\ nested' = TRUE /\ objectEnd' = Off(arena)
      /\ arena' = [arena EXCEPT !.minalign = 1]
      /\ UNCHANGED <<vtables, finished>>
  BY <1>1, <1>2 DEF StartTable, StartObject, AssertNotNestedFails
<1>4. open' = T
  BY <1>3 DEF StartTable
<1> QED BY <1>1, <1>2, <1>3, <1>4 DEF Started

\* What the guard of NewItem says of the state.
LEMMA ItemReady ==
    ASSUME Ready, open = <<>>
    PROVE  nested = FALSE /\ ~AssertNotNestedFails
BY ReadyFine DEF Ready, AssertNotNestedFails

\* ... createString and createByteVector ...
LEMMA NewStringStep ==
    ASSUME Ready, NEW n \in Lengths, NewString(n)
    PROVE  BuiltOf(MkCell(n + 1, 1, "string", <<>>), n)
<1> DEFINE c == MkCell(n + 1, 1, "string", <<>>)
<1>1. open = <<>> /\ UNCHANGED open /\ n \in Nat /\ n + 1 \in Nat
  BY BuilderAssumption DEF NewString, NewItem
<1>2. FinishVector(Push(Prepare(Fresh, 4, n + 1), c), n)
  BY <1>1, ItemReady DEF NewString, NewItem, CreateString
<1>3. ItemBuilt(c, n)
  BY <1>1, <1>2, BytesBuilt
<1>4. c \in Item /\ c.kind \in ItemKinds /\ c.size = n + 1
  BY <1>1 DEF Item, MkCell, CellKinds, ItemKinds
<1> HIDE DEF c
<1>5. BuiltOf(c, n)
  BY <1>1, <1>3, <1>4 DEF BuiltOf
<1> QED BY <1>5 DEF c

LEMMA NewByteVectorStep ==
    ASSUME Ready, NEW n \in Lengths, NewByteVector(n)
    PROVE  BuiltOf(MkCell(n, 1, "bytes", <<>>), n)
<1> DEFINE c == MkCell(n, 1, "bytes", <<>>)
<1>1. open = <<>> /\ UNCHANGED open /\ n \in Nat /\ n + 1 \in Nat
  BY BuilderAssumption DEF NewByteVector, NewItem
<1>2. FinishVector(Push(Prepare(Fresh, 4, n + 1), c), n) /\ ByteVectors
  BY <1>1, ItemReady DEF NewByteVector, NewItem, CreateByteVector
<1>3. ItemBuilt(c, n)
  BY <1>1, <1>2, BytesBuilt
<1>4. c \in Item /\ c.kind \in ItemKinds /\ c.size = n
  BY <1>1 DEF Item, MkCell, CellKinds, ItemKinds
<1> HIDE DEF c
<1>5. BuiltOf(c, n)
  BY <1>1, <1>3, <1>4 DEF BuiltOf
<1> QED BY <1>5 DEF c

\* The elements of a vector, all at once.
LEMMA ElementsStep ==
    ASSUME Ready, open = <<>>, NEW size \in Nat \ {0}, NEW align \in PowersOfTwo,
           NEW kind \in {"scalar", "struct"}, NEW elements \in Seq(Int),
           ElementsThenLength(size, align, kind, elements), UNCHANGED open
    PROVE  BuiltOf(MkCell(size * Len(elements), align, kind, elements), Len(elements))
<1> DEFINE n == Len(elements)
           c == MkCell(size * n, align, kind, elements)
<1>1. n \in Nat /\ size * n \in Nat /\ align \in Nat \ {0} /\ (n # 0 => size * n > 0)
  BY DEF PowersOfTwo
<1>2. ItemBuilt(c, n)
  BY ElementsBuilt
<1> HIDE DEF n
<1>3. c \in Item /\ c.kind \in ItemKinds /\ c.size = size * n
  BY <1>1 DEF Item, MkCell, CellKinds, ItemKinds
<1> HIDE DEF c
<1>4. BuiltOf(c, n)
  BY <1>1, <1>2, <1>3 DEF BuiltOf
<1> QED BY <1>4 DEF c, n

\* ... createXVector of scalars ...
LEMMA NewScalarVectorStep ==
    ASSUME Ready, NEW n \in Lengths, NEW t \in VectorTypes, NEW elements \in [1..n -> Values],
           NewScalarVector(t, elements)
    PROVE  /\ BuiltOf(MkCell(WidthOf[t] * Len(elements), WidthOf[t], "scalar", elements),
                      Len(elements))
           /\ elements \in Seq(Int) /\ WidthOf[t] \in Nat \ {0}
<1>1. WidthOf[t] \in Nat \ {0} /\ WidthOf[t] \in PowersOfTwo
  BY ClientAssumption DEF WidthOf, PowersOfTwo
<1>2. elements \in Seq(Int)
  <2>1. n \in Nat /\ Values \subseteq Int
    BY BuilderAssumption
  <2>2. elements \in [1..n -> Int]
    BY <2>1
  <2> QED BY <2>1, <2>2, SeqDef
<1>3. ElementsThenLength(WidthOf[t], WidthOf[t], "scalar", elements)
      /\ UNCHANGED open /\ open = <<>>
  BY DEF NewScalarVector, NewItem
<1> QED BY <1>1, <1>2, <1>3, ElementsStep

\* ... of structs ...
LEMMA NewStructVectorStep ==
    ASSUME Ready, NEW n \in Lengths, NEW s \in DOMAIN Structs, NewStructVector(s, n)
    PROVE  /\ BuiltOf(MkCell(Structs[s].bytes * n, Structs[s].align, "struct", Zeros(n)), n)
           /\ Zeros(n) \in Seq(Int)
<1>1. Structs[s].bytes \in Nat \ {0} /\ Structs[s].align \in PowersOfTwo
  BY ClientAssumption
<1>2. Zeros(n) \in Seq(Int)
  <2>1. n \in Nat
    BY BuilderAssumption
  <2>2. Zeros(n) \in [1..n -> Int]
    BY DEF Zeros
  <2> QED BY <2>1, <2>2, SeqDef
<1>3. ElementsThenLength(Structs[s].bytes, Structs[s].align, "struct", Zeros(n))
      /\ UNCHANGED open /\ open = <<>>
  BY DEF NewStructVector, NewItem
<1>4. Len(Zeros(n)) = n
  BY BuilderAssumption DEF Zeros
<1>5. BuiltOf(MkCell(Structs[s].bytes * Len(Zeros(n)), Structs[s].align, "struct", Zeros(n)),
              Len(Zeros(n)))
  BY <1>1, <1>2, <1>3, ElementsStep
<1> QED BY <1>2, <1>4, <1>5

\* ... and of strings, vectors or tables.
LEMMA NewOffsetVectorStep ==
    ASSUME Ready, NEW n \in Lengths, NEW targets \in [1..n -> Places(arena)],
           NewOffsetVector(targets)
    PROVE  /\ BuiltOf(OffsetsCell(arena, targets), n)
           /\ ~Failed(arena') => Off(arena') = Off(StartVectorArena(arena, 4, n, 4)) + 4 * n + 4
<1> DEFINE c == OffsetsCell(arena, targets)
<1>1. n \in Nat /\ open = <<>> /\ UNCHANGED open
  BY BuilderAssumption DEF NewOffsetVector, NewItem
<1>2. targets \in [1..n -> 0..Off(arena)]
  BY PlaceWritten
<1>3. FinishVector(OffsetsArena(Fresh, targets), Len(targets))
  BY <1>1, ItemReady DEF NewOffsetVector, NewItem, CreateVectorOfTables
<1>4. ItemBuilt(c, n)
  BY <1>1, <1>2, <1>3, OffsetsBuilt
<1>5. /\ c \in Item /\ c.kind \in ItemKinds /\ c.size = 4 * n
      /\ ~Failed(arena') => Off(arena') = Off(StartVectorArena(arena, 4, n, 4)) + 4 * n + 4
  BY <1>1, <1>2, <1>3, OffsetsBuilt DEF ItemKinds
<1> HIDE DEF c
<1>6. BuiltOf(c, n)
  BY <1>1, <1>4, <1>5 DEF BuiltOf
<1> QED BY <1>5, <1>6 DEF c

-----------------------------------------------------------------------------
(* finish.                                                                 *)

\* The offset of the root, prepared for with everything before it aligned.
LEMMA RootOffsetGrows ==
    ASSUME NEW a, Fine(a), ~Failed(a), NEW root \in 0..Off(a)
    PROVE  LET b == PutUOffset(Prepare(a, a.minalign, 4), root)
           IN  /\ Grows(a, b, {"uoffset"})
               /\ Failed(b) => Stuck(a, b)
               /\ ~Failed(b) =>
                     /\ DOMAIN b.cells = DOMAIN a.cells \cup {Off(b)}
                     /\ b.cells[Off(b)].kind = "uoffset"
                     /\ b.cells[Off(b)].val = <<Off(b) - root>>
                     /\ Off(a) % 4 = 0 /\ (Off(a) + 4) % a.minalign = 0 => Off(b) = Off(a) + 4
<1> DEFINE p == Prepare(a, a.minalign, 4)
           b == PutUOffset(p, root)
           pad == PadFor(Off(a) + 4, a.minalign)
<1>1. a.minalign \in PowersOfTwo /\ Off(a) \in Nat
  BY OffTyped DEF Fine
<1>2. /\ Grows(a, p, {}) /\ p.cells = a.cells
      /\ Failed(p) => p.thrown = "capacity"
      /\ ~Failed(p) => Off(p) = Off(a) + pad
  BY <1>1, PrepareGrows
<1>3. (Off(a) + 4) % a.minalign = 0 => pad = 0
  BY <1>1, PadAligns
<1> HIDE DEF p, pad
<1>4. CASE Failed(p)
  <2>1. b = p
    BY <1>4 DEF PutUOffset, Prepare
  <2>2. Grows(a, b, {"uoffset"})
    BY <1>2, <2>1, GrowsMore
  <2> HIDE DEF b
  <2> QED BY <1>2, <1>4, <2>1, <2>2 DEF Stuck, b, p
<1>5. CASE ~Failed(p)
  <2>1. Fine(p) /\ Off(p) \in Nat /\ Off(a) <= Off(p)
    BY <1>2, OffTyped DEF Grows, Fine, Continues
  <2>2. root \in 0..Off(p)
    BY <1>1, <2>1
  <2> DEFINE r == Off(p) + PadFor(Off(p), 4) + 4
             c == MkCell(4, 4, "uoffset", <<r - root>>)
  <2>3. /\ Grows(p, b, {"uoffset"})
        /\ Failed(b) => Stuck(p, b)
        /\ ~Failed(b) => Off(b) = r /\ OneMore(p, b, c)
    BY <1>5, <2>1, <2>2, PutUOffsetGrows
  <2>4. c.kind = "uoffset" /\ c.val = <<r - root>>
    BY DEF MkCell
  <2>5. Off(p) % 4 = 0 => r = Off(p) + 4
    <3>1. Off(p) % 4 = 0 => PadFor(Off(p), 4) = 0
      BY <2>1, PadAligns DEF PowersOfTwo
    <3> QED BY <2>1, <3>1
  <2> HIDE DEF b, r, c
  <2>6. Grows(a, b, {"uoffset"})
    <3>1. Grows(a, b, {} \cup {"uoffset"})
      BY <1>2, <2>3, GrowsTrans
    <3>2. {} \cup {"uoffset"} = {"uoffset"}
      OBVIOUS
    <3> QED BY <3>1, <3>2
  <2>7. Failed(b) => Stuck(a, b)
    BY <1>2, <2>3 DEF Stuck
  <2>8. ASSUME ~Failed(b)
        PROVE  /\ DOMAIN b.cells = DOMAIN a.cells \cup {Off(b)}
               /\ b.cells[Off(b)].kind = "uoffset"
               /\ b.cells[Off(b)].val = <<Off(b) - root>>
    BY <1>2, <2>3, <2>4, <2>8 DEF OneMore
  <2>9. ASSUME ~Failed(b), Off(a) % 4 = 0, (Off(a) + 4) % a.minalign = 0
        PROVE  Off(b) = Off(a) + 4
    <3>1. Off(p) = Off(a)
      BY <1>1, <1>2, <1>3, <1>5, <2>9
    <3> QED BY <2>3, <2>5, <2>9, <3>1
  <2> QED BY <2>6, <2>7, <2>8, <2>9 DEF b, p
<1> QED BY <1>4, <1>5

\* A root that is a place stays one of what has been written.
LEMMA FinishStep ==
    ASSUME Ready, open = <<>>, DOMAIN arena.cells # {}, NEW root \in 0..Off(arena),
           Finish(root), UNCHANGED open
    PROVE  RootPlaced /\ LeadsTo(root)
<1> DEFINE b == PutUOffset(Prepare(arena, arena.minalign, 4), root)
<1>1. Fresh = arena /\ Fine(arena) /\ ~Failed(arena)
  BY ReadyFine
<1>2. FinishArena(arena, root)
  BY <1>1, ItemReady DEF Finish, AssertNotNestedFails
<1>3. /\ arena' = b /\ finished' = (finished \/ ~Failed(b))
      /\ UNCHANGED <<vtable, objectEnd, vtables, nested, forceDefaults>>
  BY <1>2 DEF FinishArena
<1>4. /\ Grows(arena, b, {"uoffset"})
      /\ ~Failed(b) => /\ DOMAIN b.cells = DOMAIN arena.cells \cup {Off(b)}
                       /\ b.cells[Off(b)].kind = "uoffset"
                       /\ b.cells[Off(b)].val = <<Off(b) - root>>
  BY <1>1, RootOffsetGrows
<1> HIDE DEF b
<1>5. finished = FALSE
  BY DEF Ready, CInv, IInv, TypeOK
<1>6. Grows(arena, b, {"uoffset", "ident", "partial"})
  BY <1>4, GrowsMore
<1> QED BY <1>3, <1>4, <1>5, <1>6 DEF RootPlaced, LeadsTo

\* The identifier is where a reader looks for it: right behind the root's offset.
LEMMA FinishWithIdentifierStep ==
    ASSUME SchemaFits, Ready, open = <<>>, DOMAIN arena.cells # {},
           NEW root \in 0..Off(arena), NEW id \in Identifiers,
           FinishWithIdentifier(root, id), UNCHANGED open
    PROVE  RootPlaced /\ LeadsTo(root)
<1> DEFINE m == arena.minalign
           p == Prepare(arena, m, 8)
           i == MkCell(id.bytes, 1, "ident", <<>>)
           c == PutRun(p, 1, i)
           b == PutUOffset(Prepare(c, c.minalign, 4), root)
           kinds == {"uoffset", "ident", "partial"}
<1>1. /\ Fresh = arena /\ Fine(arena) /\ ~Failed(arena) /\ nested = FALSE
      /\ Off(arena) \in Nat /\ m \in PowersOfTwo /\ finished = FALSE
  BY ReadyFine, ItemReady DEF Fine, Ready, CInv, IInv, TypeOK
<1>2. /\ i \in Item /\ i.size = 4 /\ i.align = 1 /\ i.kind = "ident" /\ id.chars = 4
  BY DEF SchemaFits, MkCell, Item, CellKinds
<1>3. /\ Grows(arena, p, {}) /\ p.cells = arena.cells /\ p.minalign = Larger(m, m)
      /\ Failed(p) => p.thrown = "capacity"
      /\ ~Failed(p) => (Off(p) + 8) % m = 0
  BY <1>1, PrepareGrows, PrepareMinalign
<1>4. \/ Failed(p) /\ OnlyArena(p)
      \/ /\ ~Failed(p)
         /\ \/ Failed(c) /\ OnlyArena(c)
            \/ ~Failed(c) /\ FinishArena(c, root)
  BY <1>1, <1>2 DEF FinishWithIdentifier
<1> HIDE DEF p, i
<1>5. CASE Failed(p) /\ OnlyArena(p)
  <2>1. Grows(arena, arena', kinds)
    BY <1>3, <1>5, GrowsMore DEF OnlyArena
  <2>2. Failed(arena') /\ UNCHANGED <<vtable, objectEnd, vtables, nested, finished>>
    BY <1>5 DEF OnlyArena
  <2> QED BY <1>1, <2>1, <2>2 DEF RootPlaced, LeadsTo
<1>6. CASE ~Failed(p) /\ ( \/ Failed(c) /\ OnlyArena(c)
                           \/ ~Failed(c) /\ FinishArena(c, root) )
  <2>1. Fine(p) /\ Off(p) \in Nat /\ Off(arena) <= Off(p)
    BY <1>3, OffTyped DEF Grows, Fine, Continues
  <2>2. Off(p) % 1 = 0 /\ i.size % 1 = 0 /\ 1 \in {1, 2} /\ i.size >= 1
    BY <1>2, <2>1
  <2>3. /\ Failed(c) => c.thrown = "capacity" /\ Grows(p, c, {"partial"})
        /\ ~Failed(c) => /\ Grows(p, c, {"ident"})
                         /\ OneMore(p, c, i) /\ Off(c) = Off(p) + 4
                         /\ c.minalign = Larger(p.minalign, 1)
    BY <1>2, <1>6, <2>1, <2>2, PutRunGrows
  <2> HIDE DEF c
  <2>4. CASE Failed(c) /\ OnlyArena(c)
    <3>1. Grows(arena, c, {} \cup {"partial"})
      BY <1>1, <1>3, <2>3, <2>4, GrowsTrans
    <3>2. Grows(arena, c, kinds)
      BY <3>1, GrowsMore
    <3>3. arena' = c /\ Failed(arena') /\ UNCHANGED <<vtable, objectEnd, vtables, nested, finished>>
      BY <2>4 DEF OnlyArena
    <3> QED BY <1>1, <3>2, <3>3 DEF RootPlaced, LeadsTo
  <2>5. CASE ~Failed(c) /\ FinishArena(c, root)
    <3>1. Grows(arena, c, {} \cup {"ident"})
      BY <1>1, <1>3, <2>3, <2>5, GrowsTrans
    <3>2. Fine(c) /\ Off(c) \in Nat /\ Off(p) <= Off(c)
      BY <3>1, <2>3, <2>5, OffTyped DEF Grows, Fine, Continues
    <3>3. root \in 0..Off(c)
      BY <1>1, <2>1, <3>2
    <3>4. /\ Grows(c, b, {"uoffset"})
          /\ ~Failed(b) =>
                /\ DOMAIN b.cells = DOMAIN c.cells \cup {Off(b)}
                /\ b.cells[Off(b)].kind = "uoffset"
                /\ b.cells[Off(b)].val = <<Off(b) - root>>
                /\ Off(c) % 4 = 0 /\ (Off(c) + 4) % c.minalign = 0 => Off(b) = Off(c) + 4
      BY <2>5, <3>2, <3>3, RootOffsetGrows
    <3> HIDE DEF b
    <3>5. Grows(arena, b, kinds)
      <4>1. Grows(arena, b, ({} \cup {"ident"}) \cup {"uoffset"})
        BY <1>1, <3>1, <3>4, GrowsTrans
      <4> QED BY <4>1, GrowsMore
    <3>6. /\ arena' = b /\ finished' = ~Failed(b)
          /\ UNCHANGED <<vtable, objectEnd, vtables, nested>>
      BY <1>1, <2>5 DEF FinishArena, b
    <3>7. ASSUME ~Failed(b), m >= 4 PROVE Off(b) = Off(c) + 4
      <4>1. c.minalign = m
        BY <1>1, <1>3, <2>3, <2>5, <3>7 DEF Larger, PowersOfTwo
      <4>2. Off(c) + 4 = Off(p) + 8 /\ (Off(c) + 4) % m = 0
        BY <1>3, <1>6, <2>1, <2>3, <2>5
      <4>3. (Off(c) + 4) % 4 = 0
        <5>1. Off(c) + 4 \in Int /\ 4 \in PowersOfTwo
          BY <3>2 DEF PowersOfTwo
        <5> HIDE DEF m
        <5> QED BY <1>1, <3>7, <4>2, <5>1, AlignedFor
      <4>4. Off(c) % 4 = 0
        BY <3>2, <4>3
      <4> QED BY <3>4, <3>7, <4>1, <4>2, <4>4
    <3>8. ASSUME ~Failed(b), m >= 4,
                 NEW s \in DOMAIN b.cells \ DOMAIN arena.cells, b.cells[s].kind = "ident"
          PROVE  s = Off(b) - 4
      <4>1. s \in DOMAIN c.cells
        BY <3>4, <3>8
      <4>2. s = Off(c)
        BY <1>3, <2>3, <2>5, <3>8, <4>1 DEF OneMore
      <4> QED BY <3>2, <3>7, <3>8, <4>2
    <3>9. ~Failed(b) => /\ Off(b) \in DOMAIN b.cells /\ b.cells[Off(b)].kind = "uoffset"
                        /\ b.cells[Off(b)].val = <<Off(b) - root>>
      BY <3>4
    <3> HIDE DEF kinds
    <3> QED BY <1>1, <3>5, <3>6, <3>8, <3>9 DEF RootPlaced, LeadsTo, kinds
  <2> QED BY <1>6, <2>4, <2>5
<1> QED BY <1>4, <1>5, <1>6

-----------------------------------------------------------------------------
(* endObject.                                                              *)

\* The patch replaces the soffset and nothing else.
LEMMA PatchExact ==
    ASSUME NEW b, Good(b), ~Failed(b), NEW r \in DOMAIN b.cells, b.cells[r].size = 4,
           NEW target \in Int
    PROVE  LET d == PatchSOffset(b, r, target) IN
           /\ Good(d) /\ d.thrown = b.thrown /\ Off(d) = Off(b) /\ d.minalign = b.minalign
           /\ DOMAIN d.cells = DOMAIN b.cells
           /\ d.cells[r] = MkCell(4, 4, "soffset", <<target - r>>)
           /\ \A s \in DOMAIN b.cells : s # r => d.cells[s] = b.cells[s]
<1> DEFINE c  == MkCell(4, 4, "soffset", <<target - r>>)
           at == b.count - r
           d  == [b EXCEPT !.cells = Overwritten(@, r, c)]
<1>1. r \in Nat /\ r >= 4 /\ r <= Off(b) /\ b.count \in Nat /\ b.head \in Nat
  BY DEF Good, ArenaTypeOK, Apart, Off
<1>2. PatchSOffset(b, r, target) = Write(b, at, c)
  BY DEF PatchSOffset
<1>3. c \in Item /\ c.size = 4 /\ LeadsBackFrom(c, r)
  <2>1. c \in Item /\ c.size = 4 /\ c.kind = "soffset"
    BY <1>1 DEF Item, MkCell, CellKinds
  <2> HIDE DEF c
  <2> QED BY <2>1 DEF LeadsBackFrom
<1> HIDE DEF c
<1>4. ~(at + c.size > b.count) /\ b.count - at = r
  BY <1>1, <1>3
<1>5. Write(b, at, c) = d
  BY <1>4 DEF Write
<1>6. \A s \in DOMAIN b.cells : s = r \/ ~Overlap(r, c.size, s, b.cells[s].size)
  BY <1>3 DEF Good, Apart
<1>7. /\ Good(d)
      /\ \A s \in DOMAIN b.cells :
            s # r => s \in DOMAIN d.cells /\ d.cells[s] = b.cells[s]
      /\ r \in DOMAIN d.cells /\ d.cells[r] = c
  BY <1>1, <1>3, <1>6, OverwrittenGood
<1>8. /\ d.count = b.count /\ d.head = b.head /\ d.thrown = b.thrown
      /\ d.minalign = b.minalign /\ d.cells = Overwritten(b.cells, r, c)
  BY DEF Good, ArenaTypeOK
<1> HIDE DEF d
<1>9. DOMAIN d.cells = DOMAIN b.cells
  BY <1>7, <1>8 DEF Overwritten
<1>10. Off(d) = Off(b)
  BY <1>8 DEF Off
<1> QED BY <1>2, <1>5, <1>7, <1>8, <1>9, <1>10 DEF c

\* A vtable has two shorts more than the table has fields.
LEMMA ShortsExact ==
    ASSUME IInv, NEW object \in Nat
    PROVE  /\ VtableShorts(object) \in Seq(Int)
           /\ Len(vtable) \in Nat
           /\ Len(VtableShorts(object)) = Len(vtable) + 2
           /\ VtableShorts(object)[1] = (2 * (Len(vtable) + 2)) % VOffsetRange
           /\ VtableShorts(object)[2] = (object - objectEnd) % VOffsetRange
           /\ \A i \in DOMAIN vtable :
                 VtableShorts(object)[i + 2] =
                    IF vtable[i] = 0 THEN 0 ELSE (object - vtable[i]) % VOffsetRange
<1> DEFINE n    == Len(vtable)
           x    == (2 * (n + 2)) % VOffsetRange
           y    == (object - objectEnd) % VOffsetRange
           rest == VtableFields(object)
<1>1. VtableShorts(object) \in Seq(Int) /\ rest \in Seq(Int)
  BY ShortsAreInts
<1>2. n \in Nat /\ DOMAIN vtable = 1..n
  BY DEF IInv, TypeOK
<1>3. DOMAIN rest = 1..n
  BY DEF VtableFields
<1>4. \A i \in DOMAIN vtable :
         rest[i] = IF vtable[i] = 0 THEN 0 ELSE (object - vtable[i]) % VOffsetRange
  BY <1>2 DEF VtableFields
<1>5. VtableShorts(object) = <<x, y>> \o rest
  BY DEF VtableShorts
<1>6. x \in Int /\ y \in Int
  BY <1>2, BuilderAssumption DEF IInv, TypeOK
<1> HIDE DEF rest, x, y
<1>7. Len(rest) = n
  <2>1. Len(rest) \in Nat /\ DOMAIN rest = 1..Len(rest)
    BY <1>1
  <2> HIDE DEF n
  <2> QED BY <1>2, <1>3, <2>1
<1>8. <<x, y>> \in Seq(Int) /\ Len(<<x, y>>) = 2
  BY <1>6
<1> DEFINE z == <<x, y>> \o rest
<1>9. /\ Len(z) = n + 2 /\ z[1] = x /\ z[2] = y
      /\ \A i \in 1..n : z[i + 2] = rest[i]
  <2> HIDE DEF n
  <2> QED BY <1>1, <1>2, <1>6, <1>7, <1>8
<1> HIDE DEF z
<1> QED BY <1>1, <1>2, <1>4, <1>5, <1>9 DEF x, y, z

\* No registered vtable is too short to be read, and none equals the new one:
\* the comparison takes a byte too many.
LEMMA NoneShared ==
    ASSUME Ready, NEW STATE a, Keeps(arena, a)
    PROVE  /\ ~ \E k \in Examined(a) : VtableBytes(a, vtables[k]) < 3
           /\ Equal(a) = {}
<1>1. ASSUME NEW k \in 1..Len(vtables)
      PROVE  /\ VtableBytes(a, vtables[k]) \in Int
             /\ VtableBytes(a, vtables[k]) % 2 = 0 /\ VtableBytes(a, vtables[k]) >= 4
  <2> DEFINE c == arena.cells[vtables[k]]
  <2>1. vtables \in Seq(Nat) /\ k \in DOMAIN vtables
    BY DEF Ready, CInv, IInv, TypeOK
  <2>2. vtables[k] \in DOMAIN arena.cells /\ VtableComplete(c)
    BY <2>1 DEF Ready, CInv, VtablesComplete
  <2>3. vtables[k] \in DOMAIN a.cells /\ a.cells[vtables[k]] = c
    BY <2>2 DEF Keeps
  <2>4. c.val \in Seq(Int)
    <3>1. c \in Cell
      BY <2>2, OffTyped, ReadyFine DEF Fine
    <3> QED BY <3>1 DEF Cell
  <2> HIDE DEF c
  <2>5. c.val # <<>> /\ c.val[1] % 2 = 0 /\ c.val[1] >= 4 /\ c.val[1] \in Int
    <3>1. 1 \in 1..Len(c.val)
      BY <2>2, <2>4 DEF VtableComplete
    <3> QED BY <2>2, <2>4, <3>1, ElementOfSeq DEF VtableComplete
  <2> QED BY <2>3, <2>5 DEF VtableBytes
<1>2. Examined(a) \subseteq 1..Len(vtables)
  BY DEF Examined
<1>3. ~ \E k \in Examined(a) : VtableBytes(a, vtables[k]) < 3
  BY <1>1, <1>2
<1>4. Len(vtable) \in Nat
  BY DEF Ready, CInv, IInv, TypeOK
<1>5. \A bytes \in Int : bytes % 2 = 0 => ~VtableEqual(vtable, bytes)
  <2>1. \A n \in Nat, bytes \in Int : bytes % 2 = 0 => 2 * n # bytes - 3
    OBVIOUS
  <2> QED BY <1>4, <2>1 DEF VtableEqual
<1>6. Equal(a) = {}
  BY <1>1, <1>2, <1>5 DEF Equal
<1> QED BY <1>3, <1>6

\* The table and its vtable are two new items, or the buffer could not grow.
LEMMA EndTableStep ==
    ASSUME SchemaFits, Ready, EndTable
    PROVE  Ended /\ (~Failed(arena') => Off(PutSOffset(Fresh, 0)) = ObjectPlace)
<1> DEFINE n      == Len(vtable)
           placed == PutSOffset(arena, 0)
           object == Off(placed)
           shorts == PutVtable(placed, object)
           d      == PatchSOffset(shorts, object, Off(shorts))
           r      == ObjectPlace
           v      == VtablePlace
           c      == MkCell(2 * Len(VtableShorts(r)), 2, "vtable", VtableShorts(r))
           kinds  == {"soffset", "vtable", "partial"}
<1>1. /\ Fresh = arena /\ Fine(arena) /\ ~Failed(arena) /\ nested /\ open # <<>>
      /\ Off(arena) \in Nat /\ objectEnd \in Nat /\ objectEnd <= Off(arena) /\ IInv
      /\ Off(arena) <= MaxOffset
  <2>1. open # <<>> /\ nested /\ objectEnd <= Off(arena) /\ IInv /\ Off(arena) <= MaxOffset
    BY ReadyFine DEF EndTable, Going, Running, Ready, CInv, InStep
  <2> QED BY <2>1, ReadyFine DEF IInv, TypeOK, Ready
<1>2. /\ Grows(arena, placed, {"soffset"}) /\ placed.minalign >= 4
      /\ Failed(placed) => Stuck(arena, placed)
      /\ ~Failed(placed) => /\ Off(placed) = r /\ r % 4 = 0
                            /\ OneMore(arena, placed, MkCell(4, 4, "soffset", <<r>>))
  BY <1>1, PutSOffsetGrows DEF ObjectPlace
<1> HIDE DEF placed
<1>3. Fine(placed) /\ object \in Nat /\ object >= objectEnd /\ Keeps(arena, placed)
  BY <1>1, <1>2, OffTyped DEF Grows, Fine, Continues
<1>4. Equal(placed) = {} /\ ~ \E k \in Examined(placed) : VtableBytes(placed, vtables[k]) < 3
  BY <1>3, NoneShared
<1>5. /\ arena' = d /\ UNCHANGED <<objectEnd, finished, forceDefaults>>
      /\ Failed(d) => UNCHANGED <<vtable, vtables, nested>>
      /\ ~Failed(d) => vtables' = Append(vtables, Off(d)) /\ vtable' = <<>> /\ nested' = FALSE
  <2>1. {vtables[k] : k \in Equal(placed)} \ {0} = {}
    BY <1>4
  <2>2. WriteVirtualTableThen(FALSE)
    BY <1>1 DEF EndTable, EndObject, AssertNestedFails
  <2> QED BY <1>1, <1>4, <2>1, <2>2 DEF WriteVirtualTableThen, placed
<1>6. shorts = PutShorts(placed, VtableShorts(object))
  BY <1>3 DEF PutVtable
<1>7. open' = IF nested' THEN open ELSE <<>>
  BY DEF EndTable
<1>8. Continues(arena, d)
  <2>1. WriteVirtualTableThen(FALSE)
    BY <1>1 DEF EndTable, EndObject, AssertNestedFails
  <2> QED BY <1>1, <1>5, <2>1, WriteVirtualTableContinues
<1>9. Off(placed) >= Off(arena)
  BY <1>2 DEF Grows, Continues
<1>10. ASSUME Failed(placed) PROVE Ended /\ Failed(arena')
  <2>1. shorts = placed
    BY <1>6, <1>10 DEF PutShorts, PutRun
  <2>2. d = placed
    BY <1>10, <2>1 DEF PatchSOffset, Write
  <2>3. Grows(arena, d, kinds) /\ d.minalign >= 4 /\ Failed(d) /\ d.cells = arena.cells
    BY <1>2, <1>10, <2>2, GrowsMore DEF Stuck
  <2> HIDE DEF d
  <2> QED BY <1>1, <1>5, <1>7, <2>3 DEF Ended
<1>11. ASSUME ~Failed(placed) PROVE Ended
  <2>1. /\ object = r /\ r \in Nat /\ r >= 4 /\ r - 4 >= Off(arena) /\ r % 4 = 0 /\ r % 2 = 0
        /\ DOMAIN placed.cells = DOMAIN arena.cells \cup {r}
        /\ placed.cells[r] = MkCell(4, 4, "soffset", <<r>>)
    <3>1. /\ object = r /\ r \in Nat /\ r % 4 = 0
          /\ DOMAIN placed.cells = DOMAIN arena.cells \cup {r}
          /\ placed.cells[r] = MkCell(4, 4, "soffset", <<r>>)
          /\ r - MkCell(4, 4, "soffset", <<r>>).size >= Off(arena)
      BY <1>2, <1>3, <1>11 DEF OneMore
    <3> HIDE DEF r
    <3>2. MkCell(4, 4, "soffset", <<r>>).size = 4
      BY DEF MkCell
    <3> QED BY <1>1, <3>1, <3>2
  <2>2. /\ VtableShorts(r) \in Seq(Int) /\ n \in Nat /\ Len(VtableShorts(r)) = n + 2
    BY <1>1, <2>1, ShortsExact
  <2>3. shorts = PutRun(placed, 2, c)
    BY <1>6, <2>1 DEF PutShorts
  <2>4. c = MkCell(2 * (n + 2), 2, "vtable", VtableShorts(r)) /\ v = r + 2 * (n + 2)
    BY <2>2 DEF VtablePlace
  <2> HIDE DEF r, v, shorts, d, object
  <2>5. /\ c \in Item /\ c.size = 2 * (n + 2) /\ c.align = 2 /\ c.kind = "vtable"
    BY <2>2, <2>4 DEF Item, MkCell, CellKinds
  <2> HIDE DEF c, n
  <2>6. c.size >= 2 /\ c.size % 2 = 0 /\ c.size > 0
    BY <2>2, <2>5
  <2>7. /\ Failed(shorts) => shorts.thrown = "capacity" /\ Grows(placed, shorts, {"partial"})
        /\ ~Failed(shorts) => /\ Grows(placed, shorts, {c.kind})
                              /\ OneMore(placed, shorts, c) /\ Off(shorts) = Off(placed) + c.size
    BY <1>3, <1>11, <2>1, <2>3, <2>5, <2>6, PutRunGrows DEF object
  <2>8. CASE Failed(shorts)
    <3>1. d = shorts
      BY <2>8 DEF PatchSOffset, Write, d
    <3>2. Grows(arena, d, {"soffset"} \cup {"partial"})
      BY <1>1, <1>2, <2>7, <2>8, <3>1, GrowsTrans
    <3>3. Grows(arena, d, kinds)
      BY <3>2, GrowsMore
    <3>4. d.minalign >= 4
      <4>1. d.minalign >= placed.minalign /\ d.minalign \in Nat /\ placed.minalign \in Nat
        BY <1>3, <2>7, <2>8, <3>1, OffTyped DEF Grows, Fine
      <4> QED BY <1>2, <4>1
    <3>5. ASSUME NEW s \in DOMAIN d.cells \ DOMAIN arena.cells
          PROVE  \/ d.cells[s].kind = "partial"
                 \/ s = r /\ d.cells[s] = MkCell(4, 4, "soffset", <<r>>)
      <4>1. CASE s \in DOMAIN placed.cells
        <5>1. s = r /\ d.cells[s] = placed.cells[s]
          BY <2>1, <2>7, <2>8, <3>1, <4>1 DEF Grows, Continues, Keeps
        <5> QED BY <2>1, <5>1
      <4>2. CASE s \notin DOMAIN placed.cells
        BY <2>7, <2>8, <3>1, <4>2 DEF Grows
      <4> QED BY <4>1, <4>2
    <3> QED BY <1>1, <1>5, <1>7, <2>8, <3>1, <3>3, <3>4, <3>5 DEF Ended, r
  <2>9. CASE ~Failed(shorts)
    <3>1. /\ Off(shorts) = v /\ DOMAIN shorts.cells = DOMAIN arena.cells \cup {r, v}
          /\ shorts.cells[v] = c /\ shorts.cells[r] = MkCell(4, 4, "soffset", <<r>>)
          /\ v \in Nat /\ v > r
      <4>1. Off(shorts) = v
        BY <2>1, <2>4, <2>5, <2>7, <2>9 DEF object
      <4>2. DOMAIN shorts.cells = DOMAIN arena.cells \cup {r, v} /\ shorts.cells[v] = c
        BY <2>1, <2>7, <2>9, <4>1 DEF OneMore
      <4>3. shorts.cells[r] = placed.cells[r]
        BY <2>1, <2>7, <2>9 DEF Grows, Continues, Keeps
      <4>4. v \in Nat /\ v > r
        BY <2>1, <2>2, <2>4
      <4> QED BY <2>1, <4>1, <4>2, <4>3, <4>4
    <3>2. Fine(shorts) /\ shorts.minalign >= 4
      <4>1. Fine(shorts) /\ shorts.minalign >= placed.minalign
        BY <2>7, <2>9 DEF Grows
      <4>2. shorts.minalign \in Nat /\ placed.minalign \in Nat
        BY <1>3, <4>1, OffTyped DEF Fine
      <4> QED BY <1>2, <4>1, <4>2
    <3>3. shorts.cells[r].size = 4
      BY <3>1 DEF MkCell
    <3>4. d = PatchSOffset(shorts, r, v)
      BY <2>1, <3>1 DEF d
    <3>5. /\ Good(d) /\ d.thrown = shorts.thrown /\ Off(d) = v /\ d.minalign = shorts.minalign
          /\ DOMAIN d.cells = DOMAIN arena.cells \cup {r, v}
          /\ d.cells[r] = MkCell(4, 4, "soffset", <<v - r>>)
          /\ d.cells[v] = c
      <4>1. Good(shorts) /\ r \in DOMAIN shorts.cells /\ v \in Int
        BY <3>1, <3>2 DEF Fine
      <4>2. /\ Good(d) /\ d.thrown = shorts.thrown /\ Off(d) = Off(shorts)
            /\ d.minalign = shorts.minalign
            /\ DOMAIN d.cells = DOMAIN shorts.cells
            /\ d.cells[r] = MkCell(4, 4, "soffset", <<v - r>>)
            /\ \A s \in DOMAIN shorts.cells : s # r => d.cells[s] = shorts.cells[s]
        BY <2>9, <3>3, <3>4, <4>1, PatchExact
      <4>3. v # r
        BY <2>1, <3>1
      <4> QED BY <3>1, <4>2, <4>3
    <3>6. Fine(d) /\ ~Failed(d)
      BY <2>9, <3>2, <3>5 DEF Fine, Failed
    <3>7. Grows(arena, d, kinds)
      <4>1. d.minalign >= arena.minalign
        <5>1. placed.minalign >= arena.minalign /\ shorts.minalign >= placed.minalign
          BY <1>2, <2>7, <2>9 DEF Grows
        <5>2. arena.minalign \in Nat /\ placed.minalign \in Nat /\ shorts.minalign \in Nat
          BY <1>1, <1>3, <3>2, OffTyped DEF Fine
        <5> QED BY <3>5, <5>1, <5>2
      <4>2. ASSUME NEW s \in DOMAIN d.cells \ DOMAIN arena.cells
            PROVE  /\ d.cells[s].kind \in kinds
                   /\ s - d.cells[s].size >= Off(arena)
                   /\ Even(s, d.cells[s])
        <5>1. CASE s = r
          <6>1. d.cells[s].kind = "soffset" /\ d.cells[s].size = 4 /\ d.cells[s].align = 4
            BY <3>5, <5>1 DEF MkCell
          <6> QED BY <2>1, <5>1, <6>1 DEF Even
        <5>2. CASE s = v
          <6>1. v % 2 = 0 /\ v - c.size = r
            <7>1. r \in Nat /\ r % 4 = 0 /\ n \in Nat
              BY <2>1, <2>2
            <7>2. v = r + 2 * (n + 2) /\ c.size = 2 * (n + 2)
              BY <2>4, <2>5
            <7> QED BY ONLY <7>1, <7>2
          <6> QED BY <1>1, <2>1, <2>5, <3>5, <5>2, <6>1 DEF Even
        <5> QED BY <3>5, <5>1, <5>2
      <4> QED BY <1>8, <3>6, <4>1, <4>2 DEF Grows
    <3>8. d.minalign >= 4
      BY <3>2, <3>5
    <3> QED BY <1>1, <1>5, <1>7, <2>4, <3>5, <3>6, <3>7, <3>8 DEF Ended, r, v, n
  <2> QED BY <2>8, <2>9
<1>12. ~Failed(placed) => Off(PutSOffset(Fresh, 0)) = ObjectPlace
  BY <1>1, <1>2 DEF placed
<1> QED BY <1>10, <1>11, <1>12

-----------------------------------------------------------------------------
(* The invariant.                                                          *)

\* What is built or added is something.
LEMMA BuiltIs ==
    ASSUME NEW c, NEW n, BuiltOf(c, n)
    PROVE  Built
BY DEF Built, BuiltOf

LEMMA AddedIs ==
    ASSUME NEW i, NEW c, AddedField(i, c)
    PROVE  Added
BY DEF Added, AddedField

\* A step of the client is one of these.
LEMMA ClientSteps ==
    ASSUME SchemaFits, CInv, [ClientNext]_clientVars
    PROVE  Same \/ Emptied \/ Built \/ Started \/ Added \/ Ended \/ RootPlaced
<1>1. Going => Ready
  BY DEF Going, Ready
<1>2. CASE UNCHANGED clientVars
  BY <1>2 DEF clientVars, vars, Same
<1>3. ASSUME NEW n \in Lengths, NewString(n) \/ NewByteVector(n) PROVE Built
  <2>1. Ready
    BY <1>1, <1>3 DEF NewString, NewByteVector, NewItem
  <2> QED BY <1>3, <2>1, NewStringStep, NewByteVectorStep, BuiltIs
<1>4. ASSUME NEW n \in Lengths, NEW t \in VectorTypes, NEW elements \in [1..n -> Values],
             NewScalarVector(t, elements)
      PROVE  Built
  <2>1. Ready
    BY <1>1, <1>4 DEF NewScalarVector, NewItem
  <2> QED BY <1>4, <2>1, NewScalarVectorStep, BuiltIs
<1>5. ASSUME NEW n \in Lengths, NEW s \in DOMAIN Structs, NewStructVector(s, n) PROVE Built
  <2>1. Ready
    BY <1>1, <1>5 DEF NewStructVector, NewItem
  <2> QED BY <1>5, <2>1, NewStructVectorStep, BuiltIs
<1>6. ASSUME NEW n \in Lengths, NEW targets \in [1..n -> Places(arena)], NewOffsetVector(targets)
      PROVE  Built
  <2>1. Ready
    BY <1>1, <1>6 DEF NewOffsetVector, NewItem
  <2> QED BY <1>6, <2>1, NewOffsetVectorStep, BuiltIs
<1>7. ASSUME NEW T \in Tables, StartTable(T) PROVE Started
  <2>1. Ready
    BY <1>1, <1>7 DEF StartTable
  <2> QED BY <1>7, <2>1, StartTableStep
<1>8. ASSUME NEW i \in DOMAIN open, NEW t \in ScalarTypes, NEW v \in Values, AddScalar(i, t, v)
      PROVE  Same \/ Added
  <2>1. Ready
    BY <1>1, <1>8 DEF AddScalar, Adding
  <2> QED BY <1>8, <2>1, AddScalarStep, AddedIs
<1>9. ASSUME NEW i \in DOMAIN open, NEW target \in Places(arena), AddOffset(i, target)
      PROVE  Same \/ Added
  <2>1. Ready
    BY <1>1, <1>9 DEF AddOffset, Adding
  <2> QED BY <1>9, <2>1, AddOffsetStep, AddedIs
<1>10. ASSUME NEW i \in DOMAIN open, NEW s \in DOMAIN Structs, AddStruct(i, s)
       PROVE  Added
  <2>1. Ready
    BY <1>1, <1>10 DEF AddStruct, Adding
  <2> QED BY <1>10, <2>1, AddStructStep, AddedIs
<1>11. CASE EndTable
  <2>1. Ready
    BY <1>1, <1>11 DEF EndTable
  <2> QED BY <1>11, <2>1, EndTableStep
<1>12. ASSUME NEW root \in Roots(arena), FinishBuffer(root) PROVE RootPlaced
  <2>1. Ready /\ open = <<>> /\ UNCHANGED open
    BY <1>1, <1>12 DEF FinishBuffer
  <2>2. root \in 0..Off(arena) /\ DOMAIN arena.cells # {}
    BY <2>1, PlaceWritten DEF Roots
  <2>3. Finish(root) \/ \E id \in Identifiers : FinishWithIdentifier(root, id)
    BY <1>12 DEF FinishBuffer
  <2> QED BY <2>1, <2>2, <2>3, FinishStep, FinishWithIdentifierStep
<1>13. CASE ClientGetData
  <2>1. finished /\ GetData /\ UNCHANGED open
    BY <1>13 DEF ClientGetData
  <2>2. Fresh = arena
    <3>1. ~Failed(arena) /\ Good(arena)
      BY <2>1, IInvGood DEF CInv, InStep
    <3> QED BY <3>1 DEF Fresh, Failed, Good, ArenaTypeOK
  <2> QED BY <2>1, <2>2 DEF GetData, OnlyArena, Same
<1>14. ASSUME NEW b \in BOOLEAN, ClientForceDefault(b) PROVE Same
  <2>1. Ready /\ ForceDefault(b) /\ UNCHANGED open
    BY <1>1, <1>14 DEF ClientForceDefault
  <2> QED BY <2>1, ReadyFine DEF ForceDefault, Same
<1>15. CASE ClientReset
  BY <1>15 DEF ClientReset, Reset, Emptied
<1>16. ClientNext \/ UNCHANGED clientVars
  OBVIOUS
<1> QED BY <1>2, <1>3, <1>4, <1>5, <1>6, <1>7, <1>8, <1>9, <1>10, <1>11, <1>12,
           <1>13, <1>14, <1>15, <1>16 DEF ClientNext

\* What is registered is read again by the next endObject.
LEMMA VtablesKept ==
    ASSUME VtablesComplete, Keeps(arena, arena'), UNCHANGED vtables
    PROVE  VtablesComplete'
BY DEF VtablesComplete, Keeps

\* A buffer that is fine has the type of one.
LEMMA FineType ==
    ASSUME Fine(arena'), RestTypeOK'
    PROVE  IInv' /\ arena'.thrown \in Ordinary /\ arena'.minalign \in PowersOfTwo
BY DEF Fine, RestTypeOK, Good, IInv, TypeOK, CellsApart, OffsetsLeadBack

\* The invariant holds of a new builder.
LEMMA ClientInitCInv == ClientInit => CInv
<1> SUFFICES ASSUME ClientInit PROVE CInv
  OBVIOUS
<1>1. IInv
  BY InitIInv DEF ClientInit, Init
<1>2. PICK c \in Capacities : arena = EmptyArena(c)
  BY DEF ClientInit, InitWithCapacity
<1>3. arena.thrown = "ok" /\ arena.minalign = 1
  BY <1>2 DEF EmptyArena
<1>4. vtables = <<>> /\ vtable = <<>> /\ open = <<>> /\ nested = FALSE /\ finished = FALSE
  BY DEF ClientInit, InitWithCapacity, InitBuilder
<1>5. InStep
  BY <1>4 DEF InStep
<1>6. VtablesComplete
  <2>1. DOMAIN vtables = {}
    BY <1>4
  <2> QED BY <2>1 DEF VtablesComplete
<1> QED BY <1>1, <1>3, <1>5, <1>6 DEF CInv, Ordinary, PowersOfTwo

\* forceDefaults is only ever set by the call that is named so.
LEMMA ForcedType ==
    ASSUME CInv, [ClientNext]_clientVars
    PROVE  forceDefaults' \in BOOLEAN
<1>1. forceDefaults \in BOOLEAN
  BY DEF CInv, IInv, TypeOK
<1> DEFINE forced == UNCHANGED forceDefaults
<1>2. ASSUME NEW e, Refuse(e) PROVE forced
  BY <1>2 DEF Refuse, OnlyArena
<1>3. ASSUME NEW STATE a, NEW n, FinishVector(a, n) PROVE forced
  BY <1>3 DEF FinishVector
<1>4. ASSUME NEW i, NEW STATE a, RecordField(i, a) PROVE forced
  BY <1>4 DEF RecordField
<1>5. ASSUME NEW STATE a, NEW root, FinishArena(a, root) PROVE forced
  BY <1>5 DEF FinishArena
<1>6. ASSUME NEW STATE a, OnlyArena(a) PROVE forced
  BY <1>6 DEF OnlyArena
<1>7. AssertNotNestedFails => forced
  BY <1>2 DEF AssertNotNestedFails
<1>8. AssertNestedFails => forced
  BY <1>2 DEF AssertNestedFails
<1>9. CASE UNCHANGED clientVars
  BY <1>1, <1>9 DEF clientVars, vars
<1>10. ASSUME NEW n \in Lengths, NewString(n) \/ NewByteVector(n) PROVE forced
  BY <1>3, <1>7, <1>10 DEF NewString, NewByteVector, NewItem, CreateString, CreateByteVector
<1>11. ASSUME NEW t, NEW elements, NewScalarVector(t, elements) PROVE forced
  BY <1>3, <1>11 DEF NewScalarVector, NewItem, ElementsThenLength
<1>12. ASSUME NEW s, NEW n, NewStructVector(s, n) PROVE forced
  BY <1>3, <1>12 DEF NewStructVector, NewItem, ElementsThenLength
<1>13. ASSUME NEW targets, NewOffsetVector(targets) PROVE forced
  BY <1>3, <1>7, <1>13 DEF NewOffsetVector, NewItem, CreateVectorOfTables
<1>14. ASSUME NEW T, StartTable(T) PROVE forced
  BY <1>2, <1>7, <1>14 DEF StartTable, StartObject
<1>15. ASSUME NEW i, NEW t, NEW v, AddScalar(i, t, v) PROVE forced
  BY <1>4, <1>6, <1>15 DEF AddScalar, PutScalarField
<1>16. ASSUME NEW i, NEW target, AddOffset(i, target) PROVE forced
  BY <1>4, <1>6, <1>16 DEF AddOffset, PutOffset
<1>17. ASSUME NEW i, NEW s, AddStruct(i, s) PROVE forced
  BY <1>4, <1>17 DEF AddStruct
<1>18. EndTable => forced
  BY <1>8 DEF EndTable, EndObject, WriteVirtualTableThen
<1>19. ASSUME NEW root, FinishBuffer(root) PROVE forced
  BY <1>5, <1>6, <1>7, <1>19 DEF FinishBuffer, Finish, FinishWithIdentifier
<1>20. ClientGetData => forced
  BY <1>2, <1>6 DEF ClientGetData, GetData
<1>21. ASSUME NEW b \in BOOLEAN, ClientForceDefault(b) PROVE forceDefaults' \in BOOLEAN
  BY <1>21 DEF ClientForceDefault, ForceDefault
<1>22. ClientReset => forced
  BY DEF ClientReset, Reset
<1>23. ClientNext \/ UNCHANGED clientVars
  OBVIOUS
<1> QED BY <1>1, <1>9, <1>10, <1>11, <1>12, <1>13, <1>14, <1>15, <1>16, <1>17, <1>18,
           <1>19, <1>20, <1>21, <1>22, <1>23 DEF ClientNext

\* Every step keeps the invariant: it is inductive.
LEMMA ClientNextCInv ==
    ASSUME SchemaFits, CInv, [ClientNext]_clientVars
    PROVE  CInv'
<1>1. /\ vtable \in Seq(Nat) /\ vtables \in Seq(Nat) /\ objectEnd \in Nat
      /\ nested \in BOOLEAN /\ finished \in BOOLEAN /\ forceDefaults' \in BOOLEAN
      /\ IInv /\ InStep /\ VtablesComplete
  BY ForcedType DEF CInv, IInv, TypeOK
<1>2. CASE Same
  <2>1. TypeOK' /\ CellsApart' /\ OffsetsLeadBack'
    BY <1>1, <1>2 DEF Same, IInv, TypeOK, CellsApart, OffsetsLeadBack
  <2>2. InStep' /\ VtablesComplete'
    BY <1>1, <1>2 DEF Same, InStep, VtablesComplete
  <2> QED BY <1>2, <2>1, <2>2 DEF Same, CInv, IInv
<1>3. CASE Emptied
  <2>1. Good(arena') /\ arena'.thrown = "ok" /\ arena'.minalign = 1
    BY <1>3, EmptyGood DEF Emptied, EmptyArena
  <2>2. Fine(arena')
    BY <2>1 DEF Fine, Ordinary, PowersOfTwo
  <2>3. RestTypeOK'
    BY <1>1, <1>3, EmptyType DEF Emptied, RestTypeOK
  <2>4. InStep'
    BY <1>3 DEF Emptied, InStep
  <2>5. VtablesComplete'
    <3>1. DOMAIN vtables' = {}
      BY <1>3 DEF Emptied
    <3> QED BY <3>1 DEF VtablesComplete
  <2> QED BY <2>2, <2>3, <2>4, <2>5, FineType DEF CInv
<1>4. CASE Built
  <2>1. PICK c \in Item, n \in Nat : ItemBuilt(c, n)
    BY <1>4 DEF Built, BuiltOf
  <2>2. /\ Fine(arena') /\ Keeps(arena, arena') /\ Off(arena) <= Off(arena')
        /\ nested' = Failed(arena')
        /\ UNCHANGED <<vtable, objectEnd, vtables, finished, open>>
    BY <2>1 DEF ItemBuilt, Grows, Continues
  <2>3. RestTypeOK'
    BY <1>1, <2>2 DEF RestTypeOK, Failed
  <2>4. InStep'
    <3>1. open = <<>> /\ finished = FALSE
      BY <1>1, <1>4 DEF Built, BuiltOf, Ready
    <3>2. ~Failed(arena') => nested' = FALSE
      BY <2>2
    <3>3. open' = <<>> /\ finished' = FALSE /\ vtable' = vtable /\ Len(vtable) = Len(open)
      BY <1>4, <2>2, <3>1, ReadyFine DEF Built, BuiltOf
    <3>4. ~Failed(arena') => nested' = (open' # <<>>)
      BY <3>2, <3>3
    <3>5. ~Failed(arena') => Len(vtable') = Len(open')
      BY <3>1, <3>3
    <3> QED BY <3>2, <3>3, <3>4, <3>5 DEF InStep
  <2>5. VtablesComplete'
    BY <1>1, <2>2, VtablesKept
  <2> QED BY <2>2, <2>3, <2>4, <2>5, FineType DEF CInv
<1>5. CASE Started
  <2>1. Fine(arena) /\ ~Failed(arena) /\ finished = FALSE
    BY <1>1, <1>5, ReadyFine DEF Started, Ready
  <2>2. PICK T \in Tables : vtable' = Zeros(Len(T)) /\ open' = T /\ T # <<>>
    BY <1>5 DEF Started
  <2>3. T \in Seq(FieldTypes) /\ Len(T) \in Nat
    BY ClientAssumption
  <2>4. /\ arena'.cells = arena.cells /\ arena'.thrown = arena.thrown
        /\ arena'.minalign = 1 /\ Off(arena') = Off(arena)
        /\ arena' = [arena EXCEPT !.minalign = 1]
    BY <1>5, <2>1 DEF Started, Fine, Good, ArenaTypeOK, Off
  <2>5. Good(arena')
    <3>1. ArenaTypeOK(arena')
      BY <2>1, <2>4 DEF Fine, Good, ArenaTypeOK
    <3> QED BY <2>1, <2>4, <3>1 DEF Fine, Good, Apart, LeadBack
  <2>6. Fine(arena')
    BY <2>1, <2>4, <2>5 DEF Fine, PowersOfTwo
  <2>7. RestTypeOK'
    <3>1. Off(arena) \in Nat
      BY <1>1, IInvGood
    <3> QED BY <1>1, <1>5, <2>2, <2>3, <3>1, ZerosType DEF Started, RestTypeOK
  <2>8. InStep'
    <3>1. Len(vtable') = Len(open')
      BY <2>2, <2>3 DEF Zeros
    <3>2. Off(arena) \in Nat
      BY <1>1, IInvGood
    <3>3. nested' = TRUE /\ open' # <<>> /\ open' \in Tables
      BY <1>5, <2>2 DEF Started
    <3>4. nested' = (open' # <<>>)
      BY <3>3
    <3>5. finished' = FALSE /\ objectEnd' <= Off(arena')
      BY <1>5, <2>1, <2>4, <3>2 DEF Started
    <3> QED BY <3>1, <3>3, <3>4, <3>5 DEF InStep
  <2>9. VtablesComplete'
    BY <1>1, <1>5, <2>4 DEF Started, VtablesComplete
  <2> QED BY <2>6, <2>7, <2>8, <2>9, FineType DEF CInv
<1>6. CASE Added
  <2>1. /\ Fine(arena') /\ Keeps(arena, arena') /\ Off(arena) <= Off(arena')
        /\ UNCHANGED <<objectEnd, vtables, nested, finished, open>>
        /\ finished = FALSE
    BY <1>1, <1>6 DEF Added, AddedField, Grows, Continues, Ready
  <2>2. vtable' \in Seq(Nat) /\ Len(vtable') = Len(vtable)
    <3>1. Off(arena') \in Nat
      BY <2>1, OffTyped DEF Fine
    <3>2. \/ vtable' = vtable
          \/ \E i \in DOMAIN vtable : vtable' = [vtable EXCEPT ![i] = Off(arena')]
      BY <1>6 DEF Added, AddedField
    <3>3. ASSUME NEW i \in DOMAIN vtable, vtable' = [vtable EXCEPT ![i] = Off(arena')]
          PROVE  vtable' \in Seq(Nat) /\ Len(vtable') = Len(vtable)
      BY <1>1, <3>1, <3>3, ExceptSeq
    <3> QED BY <1>1, <3>2, <3>3
  <2>3. RestTypeOK'
    BY <1>1, <2>1, <2>2 DEF RestTypeOK
  <2>4. InStep'
    <3>1. ~Failed(arena) /\ Off(arena) \in Nat /\ Off(arena') \in Nat
      BY <1>6, <2>1, ReadyFine, OffTyped DEF Added, AddedField, Ready, Fine
    <3> QED BY <1>1, <2>1, <2>2, <3>1 DEF InStep
  <2>5. VtablesComplete'
    BY <1>1, <2>1, VtablesKept
  <2> QED BY <2>1, <2>3, <2>4, <2>5, FineType DEF CInv
<1>7. CASE Ended
  <2>1. /\ Fine(arena') /\ Keeps(arena, arena') /\ Off(arena) <= Off(arena')
        /\ UNCHANGED <<objectEnd, finished>> /\ finished = FALSE /\ Ready
    BY <1>1, <1>7 DEF Ended, Grows, Continues, Ready
  <2>2. CASE Failed(arena')
    <3>1. UNCHANGED <<vtable, vtables, nested, open>>
      BY <1>7, <2>2 DEF Ended
    <3>2. RestTypeOK'
      BY <1>1, <2>1, <3>1 DEF RestTypeOK
    <3>3. InStep'
      BY <1>1, <2>1, <2>2, <3>1 DEF InStep
    <3>4. VtablesComplete'
      BY <1>1, <2>1, <3>1, VtablesKept
    <3> QED BY <2>1, <3>2, <3>3, <3>4, FineType DEF CInv
  <2>3. CASE ~Failed(arena')
    <3> DEFINE n == Len(vtable)
               c == MkCell(2 * (n + 2), 2, "vtable", VtableShorts(ObjectPlace))
    <3>1. /\ VtablePlace \in DOMAIN arena'.cells
          /\ arena'.cells[VtablePlace] = c
          /\ vtables' = Append(vtables, VtablePlace)
          /\ vtable' = <<>> /\ nested' = FALSE /\ open' = <<>>
      BY <1>7, <2>3 DEF Ended
    <3>2. ObjectPlace \in Nat /\ VtablePlace \in Nat
      <4>1. Off(arena) \in Nat /\ PadFor(Off(arena), 4) \in 0..3
        BY <2>1, ReadyFine, PadAligns DEF PowersOfTwo
      <4>2. ObjectPlace \in Nat
        BY <4>1 DEF ObjectPlace
      <4> QED BY <1>1, <4>2 DEF VtablePlace
    <3>3. VtableComplete(c)
      <4>1. /\ VtableShorts(ObjectPlace) \in Seq(Int) /\ n \in Nat
            /\ Len(VtableShorts(ObjectPlace)) = n + 2
            /\ VtableShorts(ObjectPlace)[1] = (2 * (n + 2)) % VOffsetRange
        BY <1>1, <3>2, ShortsExact
      <4>2. 2 * (n + 2) < VOffsetRange
        <5>1. open \in Tables /\ n = Len(open)
          BY <1>7, <2>1, ReadyFine DEF Ended, Ready, CInv, InStep
        <5> QED BY <5>1 DEF SchemaFits
      <4>3. (2 * (n + 2)) % VOffsetRange = 2 * (n + 2)
        <5>1. VOffsetRange \in Nat \ {0}
          BY BuilderAssumption
        <5> HIDE DEF n
        <5> QED BY <4>1, <4>2, <5>1
      <4>4. c.kind = "vtable" /\ c.val = VtableShorts(ObjectPlace)
        BY DEF MkCell
      <4> HIDE DEF c, n
      <4> QED BY <4>1, <4>3, <4>4 DEF VtableComplete
    <3>4. RestTypeOK'
      <4>1. vtables' \in Seq(Nat)
        BY <1>1, <3>1, <3>2
      <4>2. vtable' \in Seq(Nat) /\ nested' \in BOOLEAN
        BY <3>1, EmptyType
      <4>3. objectEnd' \in Nat /\ finished' \in BOOLEAN
        BY <1>1, <2>1
      <4> QED BY <1>1, <4>1, <4>2, <4>3 DEF RestTypeOK
    <3>5. InStep'
      BY <2>1, <3>1 DEF InStep
    <3>6. VtablesComplete'
      <4> SUFFICES ASSUME NEW k \in DOMAIN vtables'
                   PROVE  /\ vtables'[k] \in DOMAIN arena'.cells
                          /\ VtableComplete(arena'.cells[vtables'[k]])
        BY DEF VtablesComplete
      <4>1. CASE k \in DOMAIN vtables
        <5>1. vtables'[k] = vtables[k]
          BY <1>1, <3>1, <3>2, <4>1
        <5> QED BY <1>1, <2>1, <4>1, <5>1 DEF VtablesComplete, Keeps
      <4>2. CASE k \notin DOMAIN vtables
        <5>1. vtables'[k] = VtablePlace
          BY <1>1, <3>1, <3>2, <4>2
        <5> HIDE DEF c
        <5> QED BY <3>1, <3>3, <5>1
      <4> QED BY <4>1, <4>2
    <3> QED BY <2>1, <3>4, <3>5, <3>6, FineType DEF CInv
  <2> QED BY <2>2, <2>3
<1>8. CASE RootPlaced
  <2>1. /\ Fine(arena') /\ Keeps(arena, arena') /\ Off(arena) <= Off(arena')
        /\ UNCHANGED <<vtable, objectEnd, vtables, nested, open>>
        /\ finished' = ~Failed(arena') /\ Ready /\ open = <<>>
    BY <1>8 DEF RootPlaced, Grows, Continues
  <2>2. RestTypeOK'
    BY <1>1, <2>1 DEF RestTypeOK, Failed
  <2>3. InStep'
    BY <1>1, <2>1, ItemReady DEF InStep, Ready
  <2>4. VtablesComplete'
    BY <1>1, <2>1, VtablesKept
  <2> QED BY <2>1, <2>2, <2>3, <2>4, FineType DEF CInv
<1> QED BY <1>2, <1>3, <1>4, <1>5, <1>6, <1>7, <1>8, ClientSteps

-----------------------------------------------------------------------------
(* The theorems.                                                           *)

\* A client that keeps to the order of the generated code meets no error but
\* the one of a buffer that cannot grow: whatever the schema, the values, the
\* capacities and the calls before, a reset included.
THEOREM ClientOnlyCapacityFails ==
    ASSUME SchemaFits
    PROVE  ClientSpec => []OnlyCapacityFails
<1>1. CInv /\ [ClientNext]_clientVars => CInv'
  BY ClientNextCInv
<1>2. CInv => OnlyCapacityFails
  BY DEF CInv, OnlyCapacityFails, Ordinary
<1> QED BY <1>1, <1>2, ClientInitCInv, PTL DEF ClientSpec

\* What a call adds is aligned unless it is a byte vector's.
LEMMA AlignedKept ==
    ASSUME ByteVectors = FALSE, ItemsAligned, NEW kinds, Grows(arena, arena', kinds)
    PROVE  ItemsAligned'
<1> SUFFICES ASSUME NEW r \in DOMAIN arena'.cells PROVE r % arena'.cells[r].align = 0
  BY DEF ItemsAligned
<1>1. CASE r \in DOMAIN arena.cells
  BY <1>1 DEF ItemsAligned, Grows, Continues, Keeps
<1>2. CASE r \notin DOMAIN arena.cells
  BY <1>2 DEF Grows, Even
<1> QED BY <1>1, <1>2

\* Every item the generated code writes starts at a multiple of its alignment,
\* counted from the end of the buffer, as long as no byte vector is written:
\* createByteVector leaves its length wherever its bytes end.
THEOREM ClientItemsAligned ==
    ASSUME SchemaFits, ByteVectors = FALSE
    PROVE  ClientSpec => []ItemsAligned
<1>1. ClientInit => ItemsAligned
  <2> SUFFICES ASSUME ClientInit PROVE ItemsAligned
    OBVIOUS
  <2>1. PICK c \in Capacities : arena = EmptyArena(c)
    BY DEF ClientInit, InitWithCapacity
  <2>2. DOMAIN arena.cells = {}
    BY <2>1 DEF EmptyArena
  <2> QED BY <2>2 DEF ItemsAligned
<1>2. CInv /\ [ClientNext]_clientVars => CInv'
  BY ClientNextCInv
<1>3. ASSUME CInv, ItemsAligned, [ClientNext]_clientVars PROVE ItemsAligned'
  <2>1. CASE Same
    BY <1>3, <2>1 DEF Same, ItemsAligned
  <2>2. CASE Emptied
    <3>1. DOMAIN arena'.cells = {}
      BY <2>2 DEF Emptied, EmptyArena
    <3> QED BY <3>1 DEF ItemsAligned
  <2>3. CASE Built
    BY <1>3, <2>3, AlignedKept DEF Built, BuiltOf, ItemBuilt
  <2>4. CASE Started
    <3>1. arena'.cells = arena.cells
      BY <2>4, ReadyFine DEF Started, Fine, Good, ArenaTypeOK
    <3> QED BY <1>3, <3>1 DEF ItemsAligned
  <2>5. CASE Added
    BY <1>3, <2>5, AlignedKept DEF Added, AddedField
  <2>6. CASE Ended
    BY <1>3, <2>6, AlignedKept DEF Ended
  <2>7. CASE RootPlaced
    BY <1>3, <2>7, AlignedKept DEF RootPlaced
  <2> QED BY <1>3, <2>1, <2>2, <2>3, <2>4, <2>5, <2>6, <2>7, ClientSteps
<1>4. CInv /\ ItemsAligned /\ [ClientNext]_clientVars => ItemsAligned'
  BY <1>3
<1> QED BY <1>1, <1>2, <1>4, ClientInitCInv, PTL DEF ClientSpec

\* Before finish there is no identifier, and what has been written has made the
\* buffer count for at least the alignment of an offset.
NoIdentifier ==
    ~finished /\ ~Failed(arena) => \A r \in DOMAIN arena.cells : arena.cells[r].kind # "ident"
OffsetAligned ==
    ~Failed(arena) /\ open = <<>> /\ DOMAIN arena.cells # {} => arena.minalign >= 4

FInv == FinishedStartsWithRoot /\ NoIdentifier /\ OffsetAligned

\* Only finish writes a file identifier.
LEMMA NoIdentifierKept ==
    ASSUME Ready, NoIdentifier, NEW kinds, Grows(arena, arena', kinds), "ident" \notin kinds
    PROVE  NoIdentifier'
<1> SUFFICES ASSUME NEW r \in DOMAIN arena'.cells PROVE arena'.cells[r].kind # "ident"
  BY DEF NoIdentifier
<1>1. CASE r \in DOMAIN arena.cells
  BY <1>1 DEF NoIdentifier, Ready, Grows, Continues, Keeps
<1>2. CASE r \notin DOMAIN arena.cells
  BY <1>2 DEF Grows
<1> QED BY <1>1, <1>2

\* Every call keeps what a finished buffer starts with.
LEMMA ClientNextFInv ==
    ASSUME SchemaFits, CInv, FInv, [ClientNext]_clientVars
    PROVE  FInv'
<1>1. CASE Same
  BY <1>1 DEF Same, FInv, FinishedStartsWithRoot, NoIdentifier, OffsetAligned
<1>2. CASE Emptied
  <2>1. DOMAIN arena'.cells = {} /\ finished' = FALSE
    BY <1>2 DEF Emptied, EmptyArena
  <2> QED BY <2>1 DEF FInv, FinishedStartsWithRoot, NoIdentifier, OffsetAligned
<1>3. CASE Built
  <2>1. PICK c \in Item, n \in Nat : c.kind \in ItemKinds /\ ItemBuilt(c, n)
    BY <1>3 DEF Built, BuiltOf
  <2>2. Grows(arena, arena', {c.kind, "length"}) /\ arena'.minalign >= 4 /\ finished' = finished
    BY <2>1 DEF ItemBuilt
  <2>3. "ident" \notin {c.kind, "length"}
    BY <2>1 DEF ItemKinds
  <2>4. ~finished' /\ NoIdentifier'
    BY <1>3, <2>2, <2>3, NoIdentifierKept DEF Built, BuiltOf, Ready, FInv
  <2> QED BY <2>2, <2>4 DEF FInv, FinishedStartsWithRoot, OffsetAligned
<1>4. CASE Started
  <2>1. arena'.cells = arena.cells /\ open' # <<>> /\ ~finished' /\ ~finished /\ ~Failed(arena)
    BY <1>4, ReadyFine DEF Started, Ready, Fine, Good, ArenaTypeOK
  <2> QED BY <2>1 DEF FInv, FinishedStartsWithRoot, NoIdentifier, OffsetAligned
<1>5. CASE Added
  <2>1. "ident" \notin ItemKinds
    BY DEF ItemKinds
  <2>2. ~finished' /\ open' # <<>> /\ NoIdentifier'
    BY <1>5, <2>1, NoIdentifierKept DEF Added, AddedField, Ready, FInv
  <2> QED BY <2>2 DEF FInv, FinishedStartsWithRoot, OffsetAligned
<1>6. CASE Ended
  <2>1. ~finished' /\ NoIdentifier' /\ arena'.minalign >= 4
    BY <1>6, NoIdentifierKept DEF Ended, Ready, FInv
  <2> QED BY <2>1 DEF FInv, FinishedStartsWithRoot, OffsetAligned
<1>7. CASE RootPlaced
  <2>1. /\ Ready /\ ~finished /\ ~Failed(arena) /\ arena.minalign >= 4
        /\ \A r \in DOMAIN arena.cells : arena.cells[r].kind # "ident"
    BY <1>7 DEF RootPlaced, Ready, FInv, OffsetAligned, NoIdentifier
  <2>2. arena'.minalign >= 4
    <3>1. arena'.minalign >= arena.minalign /\ arena'.minalign \in Nat /\ arena.minalign \in Nat
      BY <1>7, <2>1, ReadyFine, OffTyped DEF RootPlaced, Grows, Fine
    <3> QED BY <2>1, <3>1
  <2>3. CASE Failed(arena')
    <3>1. ~finished'
      BY <1>7, <2>3 DEF RootPlaced
    <3> QED BY <2>2, <2>3, <3>1 DEF FInv, FinishedStartsWithRoot, NoIdentifier, OffsetAligned
  <2>4. CASE ~Failed(arena')
    <3>1. /\ finished' /\ Off(arena') \in DOMAIN arena'.cells
          /\ arena'.cells[Off(arena')].kind = "uoffset"
      BY <1>7, <2>4 DEF RootPlaced
    <3>2. ASSUME NEW r \in DOMAIN arena'.cells, arena'.cells[r].kind = "ident"
          PROVE  r = Off(arena') - 4
      <4>1. r \notin DOMAIN arena.cells
        BY <1>7, <2>1, <3>2 DEF RootPlaced, Grows, Continues, Keeps
      <4> QED BY <1>7, <2>1, <2>4, <3>2, <4>1 DEF RootPlaced
    <3> QED BY <2>2, <3>1, <3>2 DEF FInv, FinishedStartsWithRoot, NoIdentifier, OffsetAligned
  <2> QED BY <2>3, <2>4
<1> QED BY <1>1, <1>2, <1>3, <1>4, <1>5, <1>6, <1>7, ClientSteps

\* A finished buffer starts with the offset of its root, and the identifier is
\* right behind it, whatever has been written before and in which order: the
\* padding for the largest alignment used is in front of both.
THEOREM ClientFinishedStartsWithRoot ==
    ASSUME SchemaFits
    PROVE  ClientSpec => []FinishedStartsWithRoot
<1>1. ClientInit => FInv
  <2> SUFFICES ASSUME ClientInit PROVE FInv
    OBVIOUS
  <2>1. PICK c \in Capacities : arena = EmptyArena(c)
    BY DEF ClientInit, InitWithCapacity
  <2>2. DOMAIN arena.cells = {} /\ ~finished
    BY <2>1 DEF EmptyArena, ClientInit, InitWithCapacity, InitBuilder
  <2> QED BY <2>2 DEF FInv, FinishedStartsWithRoot, NoIdentifier, OffsetAligned
<1>2. CInv /\ [ClientNext]_clientVars => CInv'
  BY ClientNextCInv
<1>3. CInv /\ FInv /\ [ClientNext]_clientVars => FInv'
  BY ClientNextFInv
<1>4. FInv => FinishedStartsWithRoot
  BY DEF FInv
<1> QED BY <1>1, <1>2, <1>3, <1>4, ClientInitCInv, PTL DEF ClientSpec

-----------------------------------------------------------------------------
(* Tables.                                                                 *)

TableRight(a, r) ==
    LET vt     == a.cells[VtableOf(a, r)]
        size   == vt.val[2]
        fields == {r - Entries(a, r)[i] : i \in Present(Entries(a, r))}
    IN  /\ vt.val[1] = vt.size /\ VtableOf(a, r) - vt.size = r
        /\ Cardinality(fields) = Cardinality(Present(Entries(a, r)))
        /\ {s \in DOMAIN a.cells : s \in (r - size + 1)..r} = fields \cup {r}
        /\ \A s \in fields : s - a.cells[s].size >= r - size

\* Between two calls every soffset is that of a finished table.
AllTables == \A r \in DOMAIN arena.cells : arena.cells[r].kind = "soffset" => r \in Roots(arena)

\* What has been written since an object was started is its fields, each where
\* the builder has noted it.
Draft ==
    LET fields == {vtable[i] : i \in Present(vtable)} IN
    /\ fields = {s \in DOMAIN arena.cells : s > objectEnd}
    /\ \A s \in fields : s - arena.cells[s].size >= objectEnd
    /\ \A i, j \in Present(vtable) : vtable[i] = vtable[j] => i = j

\* ... and takes no more bytes than so many fields of the table can take.
Narrow ==
    \E span \in 0..VOffsetRange :
        /\ SpanFits(open, span)
        /\ Off(arena) - objectEnd <= Cardinality(Present(vtable)) * span

TInv ==
    /\ TablesWellFormed
    /\ ~Failed(arena) => AllTables
    /\ ~Failed(arena) /\ open # <<>> => Draft /\ Narrow

\* A table needs its soffset and its vtable.
LEMMA RootsTables ==
    ASSUME NEW a
    PROVE  Roots(a) = {r \in DOMAIN a.cells : IsTable(a, r)}
BY DEF Roots, Places

\* A table is what the cells say, whatever else the builder notes.
LEMMA TableSame ==
    ASSUME NEW a, NEW b, b.cells = a.cells, NEW r, TableRight(a, r)
    PROVE  TableRight(b, r)
<1>1. VtableOf(b, r) = VtableOf(a, r)
  BY DEF VtableOf
<1>2. Entries(b, r) = Entries(a, r)
  BY <1>1 DEF Entries
<1> DEFINE w == VtableOf(a, r)
           e == Entries(a, r)
           c == a.cells
<1> HIDE DEF w, e, c
<1>3. /\ c[w].val[1] = c[w].size /\ w - c[w].size = r
      /\ Cardinality({r - e[i] : i \in Present(e)}) = Cardinality(Present(e))
      /\ {s \in DOMAIN c : s \in (r - c[w].val[2] + 1)..r}
           = {r - e[i] : i \in Present(e)} \cup {r}
      /\ \A s \in {r - e[i] : i \in Present(e)} : s - c[s].size >= r - c[w].val[2]
  BY DEF TableRight, w, e, c
<1>4. VtableOf(b, r) = w /\ Entries(b, r) = e /\ b.cells = c
  BY <1>1, <1>2 DEF w, e, c
<1> QED BY <1>3, <1>4 DEF TableRight

\* Nothing that is written in front of a table changes it ...
LEMMA TableKept ==
    ASSUME NEW a, NEW b, Fine(a), NEW kinds, Grows(a, b, kinds), NEW r \in Roots(a),
           TableRight(a, r)
    PROVE  r \in Roots(b) /\ TableRight(b, r)
<1>1. Keeps(a, b) /\ Fine(b)
  BY DEF Grows, Continues
<1> DEFINE w    == VtableOf(a, r)
           vt   == a.cells[w]
           size == vt.val[2]
           e    == Entries(a, r)
           fields == {r - e[i] : i \in Present(e)}
<1>2. r \in DOMAIN a.cells /\ w \in DOMAIN a.cells /\ IsTable(a, r)
  BY RootsTables DEF IsTable
<1>3. /\ r \in DOMAIN b.cells /\ b.cells[r] = a.cells[r]
      /\ w \in DOMAIN b.cells /\ b.cells[w] = vt
  BY <1>1, <1>2 DEF Keeps
<1>4. VtableOf(b, r) = w
  BY <1>3 DEF VtableOf
<1>5. Entries(b, r) = e
  BY <1>3, <1>4 DEF Entries
<1>6. r \in Roots(b)
  BY <1>2, <1>3, <1>4, RootsTables DEF IsTable
<1>7. /\ vt.val[1] = vt.size /\ w - vt.size = r
      /\ Cardinality(fields) = Cardinality(Present(e))
      /\ {s \in DOMAIN a.cells : s \in (r - size + 1)..r} = fields \cup {r}
      /\ \A s \in fields : s - a.cells[s].size >= r - size
  BY DEF TableRight
<1> HIDE DEF w, e, fields, size
<1>8. {s \in DOMAIN b.cells : s \in (r - size + 1)..r}
        = {s \in DOMAIN a.cells : s \in (r - size + 1)..r}
  <2>1. r <= Off(a) /\ r \in Nat /\ Off(a) \in Nat
    BY <1>2, OffTyped DEF Fine
  <2>2. ASSUME NEW s \in DOMAIN b.cells \ DOMAIN a.cells PROVE s > r
    <3>1. s - b.cells[s].size >= Off(a) /\ s \in Nat /\ b.cells[s].size \in Nat \ {0}
      BY <1>1, OffTyped DEF Grows, Fine
    <3> QED BY <2>1, <3>1
  <2>3. ASSUME NEW s \in DOMAIN b.cells, s \in (r - size + 1)..r PROVE s \in DOMAIN a.cells
    <3>1. ~(s > r)
      BY <2>1, <2>3
    <3> QED BY <2>2, <3>1
  <2>4. DOMAIN a.cells \subseteq DOMAIN b.cells
    BY <1>1 DEF Keeps
  <2> QED BY <2>3, <2>4
<1>9. \A s \in fields : s - b.cells[s].size >= r - size
  <2>1. fields \subseteq DOMAIN a.cells
    BY <1>7
  <2> QED BY <1>1, <1>7, <2>1 DEF Keeps
<1>10. vt = b.cells[VtableOf(b, r)] /\ size = vt.val[2]
  BY <1>3, <1>4 DEF size
<1>11. fields = {r - Entries(b, r)[i] : i \in Present(Entries(b, r))}
  BY <1>5 DEF fields
<1> HIDE DEF vt
<1> QED BY <1>4, <1>5, <1>6, <1>7, <1>8, <1>9, <1>10, <1>11 DEF TableRight

\* ... and a table both halves of which are old is old.
LEMMA RootOld ==
    ASSUME NEW a, NEW b, Keeps(a, b), NEW r \in Roots(b),
           r \in DOMAIN a.cells, VtableOf(b, r) \in DOMAIN a.cells
    PROVE  r \in Roots(a)
<1>1. b.cells[r] = a.cells[r] /\ b.cells[VtableOf(b, r)] = a.cells[VtableOf(b, r)]
  BY DEF Keeps
<1>2. VtableOf(b, r) = VtableOf(a, r)
  BY <1>1 DEF VtableOf
<1>3. IsTable(b, r)
  BY RootsTables
<1> QED BY <1>1, <1>2, <1>3, RootsTables DEF IsTable

\* What is neither half of a table makes no table.
LEMMA TablesKept ==
    ASSUME Ready, TablesWellFormed, AllTables, NEW kinds, Grows(arena, arena', kinds),
           "soffset" \notin kinds, "vtable" \notin kinds
    PROVE  TablesWellFormed' /\ AllTables'
<1>1. Fine(arena) /\ Keeps(arena, arena')
  BY ReadyFine DEF Grows, Continues
<1>2. ASSUME NEW r \in DOMAIN arena'.cells,
             arena'.cells[r].kind = "soffset" \/ arena'.cells[r].kind = "vtable"
      PROVE  r \in DOMAIN arena.cells /\ arena.cells[r] = arena'.cells[r]
  <2>1. r \in DOMAIN arena.cells
    BY <1>2 DEF Grows
  <2> QED BY <1>1, <2>1 DEF Keeps
<1>3. ASSUME NEW r \in Roots(arena) PROVE r \in Roots(arena') /\ TableRight(arena', r)
  <2>1. TableRight(arena, r)
    BY DEF TablesWellFormed, TableRight
  <2> QED BY <1>1, <2>1, TableKept
<1>4. Roots(arena') \subseteq Roots(arena)
  <2> SUFFICES ASSUME NEW r \in Roots(arena') PROVE r \in Roots(arena)
    OBVIOUS
  <2>1. r \in DOMAIN arena'.cells /\ IsTable(arena', r)
    BY RootsTables
  <2>2. r \in DOMAIN arena.cells /\ VtableOf(arena', r) \in DOMAIN arena.cells
    BY <1>2, <2>1 DEF IsTable
  <2> QED BY <1>1, <2>2, RootOld
<1>5. TablesWellFormed'
  <2>1. \A r \in Roots(arena') : TableRight(arena', r)
    BY <1>3, <1>4
  <2> QED BY <2>1 DEF TablesWellFormed, TableRight
<1>6. AllTables'
  <2> SUFFICES ASSUME NEW r \in DOMAIN arena'.cells, arena'.cells[r].kind = "soffset"
               PROVE  r \in Roots(arena')
    BY DEF AllTables
  <2> QED BY <1>2, <1>3 DEF AllTables
<1> QED BY <1>5, <1>6

\* As many offsets as fields: no two fields are at the same place.
LEMMA AsManyAsFields ==
    ASSUME NEW S, IsFiniteSet(S), NEW f, \A i, j \in S : f[i] = f[j] => i = j
    PROVE  Cardinality({f[i] : i \in S}) = Cardinality(S)
<1> DEFINE T == {f[i] : i \in S}
           g == [i \in S |-> f[i]]
<1>1. g \in [S -> T]
  OBVIOUS
<1>2. \A i, j \in S : g[i] = g[j] => i = j
  OBVIOUS
<1>3. \A t \in T : \E i \in S : g[i] = t
  OBVIOUS
<1>4. g \in Bijection(S, T)
  BY <1>1, <1>2, <1>3 DEF Bijection, Injection, Surjection, IsInjective
<1>5. ExistsBijection(S, T)
  BY <1>4 DEF ExistsBijection
<1> HIDE DEF T, g
<1> QED BY <1>5, FS_Bijection DEF T

\* k of n equal parts are no more than all of them.
LEMMA MoreTimes ==
    ASSUME NEW k \in Nat, NEW n \in Nat, NEW m \in Nat, k <= n
    PROVE  k * m <= n * m
<1>1. n - k \in Nat
  OBVIOUS
<1>2. (n - k) * m \in Nat
  BY <1>1
<1>3. (n - k) * m = n * m - k * m
  OBVIOUS
<1>4. n * m \in Int /\ k * m \in Int
  OBVIOUS
<1> QED BY <1>2, <1>3, <1>4

\* The entries of a vtable are the offsets of its fields.
LEMMA EntriesExact ==
    ASSUME SchemaFits, TablesFit, CInv, Draft, Narrow, Ended, ~Failed(arena')
    PROVE  LET c == arena'.cells[VtablePlace]
               n == Len(vtable)
               e == Entries(arena', ObjectPlace)
           IN  /\ n \in Nat /\ DOMAIN vtable = 1..n
               /\ VtableOf(arena', ObjectPlace) = VtablePlace
               /\ c.val[1] = 2 * (n + 2) /\ c.size = 2 * (n + 2) /\ c.kind = "vtable"
               /\ c.val[2] = ObjectPlace - objectEnd
               /\ DOMAIN e = 1..n
               /\ \A i \in 1..n : e[i] = IF vtable[i] = 0 THEN 0 ELSE ObjectPlace - vtable[i]
               /\ \A i \in 1..n : e[i] # 0 <=> vtable[i] # 0
<1> DEFINE n   == Len(vtable)
           r   == ObjectPlace
           v   == VtablePlace
           val == VtableShorts(r)
           e   == Entries(arena', r)
<1>1. /\ IInv /\ Fine(arena) /\ Off(arena) \in Nat /\ objectEnd \in Nat /\ open # <<>>
      /\ open \in Tables /\ n = Len(open) /\ objectEnd <= Off(arena) /\ Off(arena) <= MaxOffset
  <2>1. IInv /\ Fine(arena) /\ Off(arena) \in Nat /\ open # <<>> /\ nested = (open # <<>>)
        /\ n = Len(open) /\ ~Failed(arena) /\ Off(arena) <= MaxOffset
    BY ReadyFine DEF Ended, Ready, CInv
  <2>2. open \in Tables /\ (nested => objectEnd <= Off(arena)) /\ objectEnd \in Nat
    BY <2>1 DEF CInv, InStep, IInv, TypeOK
  <2>3. nested
    BY <2>1
  <2> QED BY <2>1, <2>2, <2>3
<1>2. r \in Nat /\ r >= Off(arena) + 4 /\ r <= Off(arena) + 7
  <2>1. PadFor(Off(arena), 4) \in 0..3
    BY <1>1, PadAligns DEF PowersOfTwo
  <2> QED BY <1>1, <2>1 DEF ObjectPlace
<1>3. VOffsetRange \in Nat \ {0} /\ r - objectEnd < VOffsetRange
  <2>1. PICK span \in 0..VOffsetRange :
           SpanFits(open, span) /\ Off(arena) - objectEnd <= Cardinality(Present(vtable)) * span
    BY DEF Narrow
  <2>2. IsFiniteSet(Present(vtable)) /\ Cardinality(Present(vtable)) <= n
    <3>1. n \in Nat /\ Present(vtable) \subseteq 1..n
      BY <1>1 DEF IInv, TypeOK, Present
    <3> HIDE DEF n
    <3>2. IsFiniteSet(1..n) /\ Cardinality(1..n) = n
      BY <3>1, FS_Interval
    <3> QED BY <3>1, <3>2, FS_Subset
  <2>3. Cardinality(Present(vtable)) \in Nat /\ n \in Nat /\ span \in Nat /\ VOffsetRange \in Nat \ {0}
    BY <1>1, <2>2, FS_CardinalityType, BuilderAssumption DEF IInv, TypeOK
  <2> DEFINE k == Cardinality(Present(vtable))
  <2>4. k \in Nat /\ k <= n
    BY <2>2, <2>3
  <2>5. Off(arena) - objectEnd <= k * span
    BY <2>1
  <2>6. n * span + 8 <= VOffsetRange
    BY <1>1, <2>1 DEF SpanFits
  <2> HIDE DEF k, r, n
  <2>7. k * span <= n * span
    BY <2>3, <2>4, MoreTimes
  <2>8. k * span \in Nat /\ n * span \in Nat
    BY <2>3, <2>4
  <2> QED BY <1>1, <1>2, <2>3, <2>5, <2>6, <2>7, <2>8
<1>4. /\ val \in Seq(Int) /\ n \in Nat /\ Len(val) = n + 2
      /\ val[1] = (2 * (n + 2)) % VOffsetRange
      /\ val[2] = (r - objectEnd) % VOffsetRange
      /\ \A i \in DOMAIN vtable :
            val[i + 2] = IF vtable[i] = 0 THEN 0 ELSE (r - vtable[i]) % VOffsetRange
  BY <1>1, <1>2, ShortsExact
<1>5. 2 * (n + 2) < VOffsetRange
  BY <1>1 DEF SchemaFits
<1>6. vtable \in Seq(Nat) /\ DOMAIN vtable = 1..n
  BY <1>1 DEF IInv, TypeOK
<1>7. \A x \in Nat : x < VOffsetRange => x % VOffsetRange = x
  BY <1>3
<1>8. /\ arena'.cells[r] = MkCell(4, 4, "soffset", <<v - r>>)
      /\ arena'.cells[v] = MkCell(2 * (n + 2), 2, "vtable", val)
  BY DEF Ended
<1>9. v \in Nat /\ v = r + 2 * (n + 2)
  BY <1>2, <1>4 DEF VtablePlace
<1> HIDE DEF r, v, val, n
<1>10. VtableOf(arena', r) = v
  <2>1. arena'.cells[r].val[1] = v - r
    BY <1>8 DEF MkCell
  <2> QED BY <1>2, <1>9, <2>1 DEF VtableOf
<1>11. /\ arena'.cells[v].val = val /\ arena'.cells[v].size = 2 * (n + 2)
       /\ arena'.cells[v].kind = "vtable"
  BY <1>8 DEF MkCell
<1>12. val[1] = 2 * (n + 2)
  BY <1>4, <1>5, <1>7
<1>13. val[2] = r - objectEnd
  <2>1. r - objectEnd \in Nat /\ r - objectEnd < VOffsetRange
    BY <1>1, <1>2, <1>3
  <2> QED BY <1>4, <1>7, <2>1
<1>14. ASSUME NEW i \in 1..n
       PROVE  /\ val[i + 2] = IF vtable[i] = 0 THEN 0 ELSE r - vtable[i]
              /\ val[i + 2] # 0 <=> vtable[i] # 0
  <2>1. CASE vtable[i] = 0
    BY <1>4, <1>6, <2>1
  <2>2. CASE vtable[i] # 0
    <3>1. vtable[i] \in DOMAIN arena.cells
      BY <1>6, <2>2 DEF Draft, Present
    <3>2. vtable[i] \in Nat /\ vtable[i] <= Off(arena) /\ vtable[i] > objectEnd
      BY <1>1, <1>6, <2>2, <3>1, OffTyped DEF Fine, Draft, Present
    <3>3. r - vtable[i] \in Nat /\ r - vtable[i] < VOffsetRange /\ r - vtable[i] # 0
      <4>1. Off(arena) \in Nat /\ objectEnd \in Nat
        BY <1>1
      <4> QED BY <1>2, <1>3, <3>2, <4>1
    <3> QED BY <1>4, <1>6, <1>7, <2>2, <3>3
  <2> QED BY <2>1, <2>2
<1>15. DOMAIN e = 1..n /\ \A i \in 1..n : e[i] = val[i + 2]
  <2>1. (2 * (n + 2)) \div 2 = n + 2
    BY <1>4
  <2>2. e = SubSeq(val, 3, n + 2)
    BY <1>10, <1>11, <1>12, <2>1 DEF Entries
  <2> DEFINE k == n + 2
  <2>3. \A i \in 3..k : val[i] \in Int
    <3>1. \A i \in 3..k : i \in 1..Len(val)
      BY <1>4
    <3> QED BY <1>4, <3>1, ElementOfSeq
  <2>4. k \in Int /\ k - 3 + 1 = n /\ (3 <= k \/ n = 0)
    BY <1>4
  <2> HIDE DEF k
  <2>8. /\ Len(SubSeq(val, 3, k)) = IF 3 <= k THEN k - 3 + 1 ELSE 0
        /\ SubSeq(val, 3, k) \in Seq(Int)
        /\ \A i \in 1 .. (k - 3 + 1) : SubSeq(val, 3, k)[i] = val[3 + i - 1]
    BY <2>3, <2>4, SubSeqProperties
  <2>9. e = SubSeq(val, 3, k)
    BY <2>2 DEF k
  <2> HIDE DEF e
  <2>5. Len(e) = n
    BY <1>4, <2>4, <2>8, <2>9
  <2>6. DOMAIN e = 1..n
    BY <2>5, <2>8, <2>9
  <2>7. \A i \in 1..n : e[i] = val[i + 2]
    <3> TAKE i \in 1..n
    <3>1. i \in 1 .. (k - 3 + 1) /\ 3 + i - 1 = i + 2
      BY <2>4
    <3> QED BY <2>8, <2>9, <3>1
  <2> QED BY <2>6, <2>7
<1> HIDE DEF e
<1> QED BY <1>4, <1>6, <1>10, <1>11, <1>12, <1>13, <1>14, <1>15 DEF n, r, v, e

\* The table endObject has just finished is one, with the fields of the draft.
LEMMA NewTableRight ==
    ASSUME SchemaFits, TablesFit, CInv, Draft, Narrow, Ended, ~Failed(arena')
    PROVE  ObjectPlace \in Roots(arena') /\ TableRight(arena', ObjectPlace)
<1> DEFINE n  == Len(vtable)
           r  == ObjectPlace
           v  == VtablePlace
           c  == arena'.cells[v]
           e  == Entries(arena', r)
           P  == Present(vtable)
           fields == {vtable[i] : i \in P}
<1>1. /\ n \in Nat /\ DOMAIN vtable = 1..n
      /\ VtableOf(arena', r) = v
      /\ c.val[1] = 2 * (n + 2) /\ c.size = 2 * (n + 2) /\ c.kind = "vtable"
      /\ c.val[2] = r - objectEnd
      /\ DOMAIN e = 1..n
      /\ \A i \in 1..n : e[i] = IF vtable[i] = 0 THEN 0 ELSE r - vtable[i]
      /\ \A i \in 1..n : e[i] # 0 <=> vtable[i] # 0
  BY EntriesExact
<1>2. /\ DOMAIN arena'.cells = DOMAIN arena.cells \cup {r, v}
      /\ arena'.cells[r] = MkCell(4, 4, "soffset", <<v - r>>)
      /\ Keeps(arena, arena')
  BY DEF Ended, Grows, Continues
<1>3. /\ Fine(arena) /\ Off(arena) \in Nat /\ objectEnd \in Nat /\ objectEnd <= Off(arena)
  <2>1. Fine(arena) /\ Off(arena) \in Nat /\ nested = (open # <<>>) /\ open # <<>>
        /\ ~Failed(arena)
    BY ReadyFine DEF Ended, Ready
  <2>2. nested
    BY <2>1
  <2> QED BY <2>1, <2>2 DEF CInv, InStep, IInv, TypeOK
<1>4. r \in Nat /\ r >= Off(arena) + 4 /\ v \in Nat /\ v = r + 2 * (n + 2) /\ v > r
  <2>1. PadFor(Off(arena), 4) \in 0..3
    BY <1>3, PadAligns DEF PowersOfTwo
  <2>2. r \in Nat /\ r >= Off(arena) + 4
    BY <1>3, <2>1 DEF ObjectPlace
  <2>3. v = r + 2 * (n + 2)
    BY DEF VtablePlace
  <2> HIDE DEF r, v, n
  <2> QED BY <1>1, <2>2, <2>3
<1>5. /\ fields = {s \in DOMAIN arena.cells : s > objectEnd}
      /\ \A s \in fields : s - arena.cells[s].size >= objectEnd
      /\ \A i, j \in P : vtable[i] = vtable[j] => i = j
  BY DEF Draft
<1>6. Present(e) = P
  BY <1>1 DEF Present
<1>7. P \subseteq 1..n /\ \A i \in P : vtable[i] # 0
  BY <1>1 DEF Present
<1>8. \A s \in DOMAIN arena.cells : s \in Nat /\ s <= Off(arena)
  BY <1>3, OffTyped DEF Fine
<1> HIDE DEF r, v, c, e, n, P, fields
<1>9. {r - e[i] : i \in Present(e)} = fields
  <2>1. \A i \in P : vtable[i] \in Nat
    BY <1>5, <1>8 DEF fields
  <2>2. \A i \in P : r - e[i] = vtable[i]
    BY <1>1, <1>4, <1>7, <2>1
  <2> QED BY <1>6, <2>2 DEF fields
<1>10. Cardinality(fields) = Cardinality(Present(e))
  <2>1. IsFiniteSet(P)
    <3>1. IsFiniteSet(1..n)
      BY <1>1, FS_Interval
    <3> QED BY <1>7, <3>1, FS_Subset
  <2>2. Cardinality({vtable[i] : i \in P}) = Cardinality(P)
    BY <1>5, <2>1, AsManyAsFields
  <2> QED BY <1>6, <2>2 DEF fields
<1>11. {s \in DOMAIN arena'.cells : s \in (r - c.val[2] + 1)..r} = fields \cup {r}
  <2>1. r - c.val[2] + 1 = objectEnd + 1
    BY <1>1, <1>3, <1>4
  <2>2. ASSUME NEW s \in DOMAIN arena.cells
        PROVE  s \in (objectEnd + 1)..r <=> s \in fields
    <3>1. s \in Nat /\ s <= r
      BY <1>3, <1>4, <1>8
    <3> QED BY <1>3, <1>4, <1>5, <3>1
  <2>3. r \in (objectEnd + 1)..r /\ v \notin (objectEnd + 1)..r
    BY <1>3, <1>4
  <2>4. fields \subseteq DOMAIN arena.cells
    BY <1>5
  <2>5. v \notin fields \cup {r}
    BY <1>3, <1>4, <1>8, <2>4
  <2> QED BY <1>2, <2>1, <2>2, <2>3, <2>4, <2>5
<1>12. \A s \in fields : s - arena'.cells[s].size >= r - c.val[2]
  <2>1. r - c.val[2] = objectEnd
    BY <1>1, <1>3, <1>4
  <2>2. \A s \in fields : arena'.cells[s] = arena.cells[s]
    BY <1>2, <1>5 DEF Keeps
  <2> QED BY <1>5, <2>1, <2>2
<1>13. v - c.size = r
  BY <1>1, <1>4
<1>14. r \in Roots(arena')
  <2>1. arena'.cells[r].kind = "soffset"
    BY <1>2 DEF MkCell
  <2>2. r \in DOMAIN arena'.cells /\ v \in DOMAIN arena'.cells
    BY <1>2
  <2> QED BY <1>1, <2>1, <2>2, RootsTables DEF IsTable, c
<1>15. TableRight(arena', r)
  <2>1. c = arena'.cells[VtableOf(arena', r)]
    BY <1>1 DEF c
  <2>2. e = Entries(arena', r)
    BY DEF e
  <2> HIDE DEF c, e
  <2>3. c.val[1] = c.size /\ VtableOf(arena', r) = v
    BY <1>1
  <2> QED BY <1>9, <1>10, <1>11, <1>12, <1>13, <2>1, <2>2, <2>3 DEF TableRight
<1> QED BY <1>14, <1>15 DEF r

\* A table that endObject gives up is no table.
LEMMA GivenUpIsNone ==
    ASSUME Ended, Failed(arena')
    PROVE  Roots(arena') \subseteq Roots(arena)
<1>1. Fine(arena) /\ Off(arena) \in Nat /\ Keeps(arena, arena')
  BY ReadyFine DEF Ended, Grows, Continues
<1>2. ObjectPlace \in Nat /\ ObjectPlace > Off(arena)
  <2>1. PadFor(Off(arena), 4) \in 0..3
    BY <1>1, PadAligns DEF PowersOfTwo
  <2> QED BY <1>1, <2>1 DEF ObjectPlace
<1>3. \A s \in DOMAIN arena.cells : s \in Nat /\ s <= Off(arena)
  BY <1>1, OffTyped DEF Fine
<1>4. \A s \in DOMAIN arena'.cells \ DOMAIN arena.cells :
         \/ arena'.cells[s].kind = "partial"
         \/ s = ObjectPlace /\ arena'.cells[s] = MkCell(4, 4, "soffset", <<ObjectPlace>>)
  BY DEF Ended
<1> SUFFICES ASSUME NEW r \in Roots(arena') PROVE r \in Roots(arena)
  OBVIOUS
<1> DEFINE w == VtableOf(arena', r)
<1>5. /\ r \in DOMAIN arena'.cells /\ arena'.cells[r].kind = "soffset"
      /\ w \in DOMAIN arena'.cells /\ arena'.cells[w].kind = "vtable"
  BY RootsTables DEF IsTable
<1>6. w \in DOMAIN arena.cells
  <2>1. MkCell(4, 4, "soffset", <<ObjectPlace>>).kind = "soffset"
    BY DEF MkCell
  <2> QED BY <1>4, <1>5, <2>1
<1>7. r \in DOMAIN arena.cells
  <2> SUFFICES ASSUME r \notin DOMAIN arena.cells PROVE FALSE
    OBVIOUS
  <2>1. r = ObjectPlace /\ arena'.cells[r].val[1] = ObjectPlace
    BY <1>4, <1>5 DEF MkCell
  <2>2. w = ObjectPlace + ObjectPlace
    BY <2>1 DEF VtableOf
  <2> HIDE DEF w
  <2> QED BY <1>1, <1>2, <1>3, <1>6, <2>2
<1> QED BY <1>1, <1>6, <1>7, RootOld

\* endObject adds one table; when it fails, none.
LEMMA EndedTables ==
    ASSUME SchemaFits, TablesFit, CInv, TInv, Ended
    PROVE  TablesWellFormed' /\ (~Failed(arena') => AllTables')
<1>1. /\ Ready /\ Fine(arena) /\ Off(arena) \in Nat /\ open # <<>> /\ ~Failed(arena)
      /\ Keeps(arena, arena') /\ AllTables /\ Draft /\ Narrow /\ TablesWellFormed
  BY ReadyFine DEF Ended, Ready, TInv, Grows, Continues
<1>3. ASSUME NEW r \in Roots(arena) PROVE r \in Roots(arena') /\ TableRight(arena', r)
  <2>1. TableRight(arena, r) /\ Grows(arena, arena', {"soffset", "vtable", "partial"})
    BY <1>1 DEF TablesWellFormed, TableRight, Ended
  <2> QED BY <1>1, <2>1, TableKept
<1>5. CASE Failed(arena')
  <2>1. \A r \in Roots(arena') : TableRight(arena', r)
    BY <1>3, <1>5, GivenUpIsNone
  <2> QED BY <1>5, <2>1 DEF TablesWellFormed, TableRight
<1>6. CASE ~Failed(arena')
  <2>1. /\ DOMAIN arena'.cells = DOMAIN arena.cells \cup {ObjectPlace, VtablePlace}
        /\ arena'.cells[VtablePlace].kind = "vtable"
    BY <1>6 DEF Ended, MkCell
  <2>2. ObjectPlace \in Roots(arena') /\ TableRight(arena', ObjectPlace)
    BY <1>1, <1>6, NewTableRight
  <2>3. ASSUME NEW r \in DOMAIN arena'.cells, arena'.cells[r].kind = "soffset"
        PROVE  r \in Roots(arena') /\ TableRight(arena', r)
    <3>1. CASE r \in DOMAIN arena.cells
      <4>1. r \in Roots(arena)
        BY <1>1, <2>3, <3>1 DEF AllTables, Keeps
      <4> QED BY <1>3, <4>1
    <3>2. CASE r \notin DOMAIN arena.cells
      BY <2>1, <2>2, <2>3, <3>2
    <3> QED BY <3>1, <3>2
  <2>4. \A r \in Roots(arena') : TableRight(arena', r)
    BY <2>3, RootsTables DEF IsTable
  <2>5. AllTables'
    BY <2>3 DEF AllTables
  <2> QED BY <2>4, <2>5 DEF TablesWellFormed, TableRight
<1> QED BY <1>5, <1>6

\* Between startObject and endObject the draft is what has been added.
LEMMA DraftKept ==
    ASSUME SchemaFits, CInv, TInv, Started \/ Added, ~Failed(arena')
    PROVE  Draft'
<1>1. /\ Ready /\ Fine(arena) /\ Off(arena) \in Nat /\ ~Failed(arena)
      /\ vtable \in Seq(Nat) /\ objectEnd \in Nat
  BY ReadyFine DEF Started, Added, AddedField, Ready, CInv, IInv, TypeOK
<1>2. \A s \in DOMAIN arena.cells :
         s \in Nat /\ s <= Off(arena) /\ arena.cells[s].size \in Nat \ {0}
  BY <1>1, OffTyped DEF Fine
<1>3. CASE Started
  <2>1. arena'.cells = arena.cells /\ objectEnd' = Off(arena)
    BY <1>1, <1>3 DEF Started, Fine, Good, ArenaTypeOK
  <2>2. PICK T \in Tables : vtable' = Zeros(Len(T))
    BY <1>3 DEF Started
  <2>3. Present(vtable') = {}
    BY <2>2 DEF Present, Zeros
  <2>4. {s \in DOMAIN arena'.cells : s > objectEnd'} = {}
    BY <1>1, <1>2, <2>1
  <2> QED BY <2>3, <2>4 DEF Draft
<1>4. CASE Added
  <2>1. /\ objectEnd' = objectEnd /\ Keeps(arena, arena') /\ Draft
        /\ nested = (open # <<>>) /\ open # <<>>
    BY <1>1, <1>4, ReadyFine DEF Added, AddedField, Grows, Continues, TInv
  <2>2. objectEnd <= Off(arena)
    <3>1. nested
      BY <2>1
    <3> QED BY <1>1, <3>1 DEF CInv, InStep
  <2>3. PICK i \in DOMAIN vtable, c \in Item :
           /\ vtable[i] = 0 /\ vtable' = [vtable EXCEPT ![i] = Off(arena')]
           /\ OneMore(arena, arena', c)
    BY <1>4 DEF Added, AddedField, Stuck, Failed
  <2> DEFINE b == arena'
             w == vtable'
             p == Off(b)
             old == {vtable[j] : j \in Present(vtable)}
             new == {w[j] : j \in Present(w)}
  <2>4. /\ DOMAIN b.cells = DOMAIN arena.cells \cup {p} /\ b.cells[p] = c
        /\ p - c.size >= Off(arena) /\ p > Off(arena) /\ p \in Nat /\ c.size \in Nat
    <3>1. Fine(b)
      BY <1>4 DEF Added, AddedField, Grows
    <3> QED BY <2>3, <3>1, OffTyped DEF OneMore, Fine, Item
  <2>5. DOMAIN w = DOMAIN vtable /\ w[i] = p /\ \A j \in DOMAIN vtable : j # i => w[j] = vtable[j]
    BY <1>1, <2>3
  <2> HIDE DEF w, p, b
  <2>6. Present(w) = Present(vtable) \cup {i} /\ i \notin Present(vtable)
    <3>1. p # 0
      BY <1>1, <2>4
    <3> QED BY <2>3, <2>5, <3>1 DEF Present
  <2>7. \A j \in Present(vtable) : w[j] = vtable[j]
    BY <2>5, <2>6 DEF Present
  <2>8. new = old \cup {p}
    BY <2>5, <2>6, <2>7
  <2>9. /\ old = {s \in DOMAIN arena.cells : s > objectEnd}
        /\ \A s \in old : s - arena.cells[s].size >= objectEnd
        /\ \A j, k \in Present(vtable) : vtable[j] = vtable[k] => j = k
    BY <2>1 DEF Draft
  <2> HIDE DEF old, new
  <2>10. new = {s \in DOMAIN b.cells : s > objectEnd}
    BY <1>1, <2>2, <2>4, <2>8, <2>9
  <2>11. \A s \in new : s - b.cells[s].size >= objectEnd
    <3>1. ASSUME NEW s \in old PROVE s - b.cells[s].size >= objectEnd
      BY <2>1, <2>9, <3>1 DEF Keeps, b
    <3>2. p - b.cells[p].size >= objectEnd
      BY <1>1, <2>2, <2>4
    <3> QED BY <2>8, <3>1, <3>2
  <2>12. \A j, k \in Present(w) : w[j] = w[k] => j = k
    <3>1. \A j \in Present(vtable) : w[j] # p
      <4>1. \A j \in Present(vtable) : vtable[j] \in old
        BY DEF old
      <4>2. \A s \in old : s # p
        BY <1>1, <1>2, <2>4, <2>9
      <4> QED BY <2>7, <4>1, <4>2
    <3> QED BY <2>5, <2>6, <2>7, <2>9, <3>1
  <2> QED BY <2>1, <2>10, <2>11, <2>12 DEF Draft, new, w, b
<1> QED BY <1>3, <1>4

\* ... and no wider than the fields added so far allow.
LEMMA NarrowKept ==
    ASSUME SchemaFits, TablesFit, CInv, TInv, Started \/ Added, ~Failed(arena')
    PROVE  Narrow'
<1>1. /\ Ready /\ Fine(arena) /\ Off(arena) \in Nat /\ ~Failed(arena)
      /\ vtable \in Seq(Nat) /\ objectEnd \in Nat
  BY ReadyFine DEF Started, Added, AddedField, Ready, CInv, IInv, TypeOK
<1>2. CASE Started
  <2>1. Off(arena') = Off(arena) /\ objectEnd' = Off(arena)
    BY <1>1, <1>2 DEF Started, Fine, Good, ArenaTypeOK, Off
  <2>2. PICK T \in Tables : vtable' = Zeros(Len(T)) /\ open' = T
    BY <1>2 DEF Started
  <2>3. PICK span \in 0..VOffsetRange : SpanFits(T, span)
    BY DEF TablesFit
  <2>4. Present(vtable') = {}
    BY <2>2 DEF Present, Zeros
  <2>5. Cardinality(Present(vtable')) = 0
    BY <2>4, FS_EmptySet
  <2>6. Off(arena') - objectEnd' = 0 /\ 0 * span = 0
    BY <1>1, <2>1, BuilderAssumption
  <2> QED BY <2>2, <2>3, <2>5, <2>6 DEF Narrow
<1>3. CASE Added
  <2>1. /\ objectEnd' = objectEnd /\ open' = open /\ Narrow
        /\ Off(arena') \in Nat /\ Len(vtable) = Len(open) /\ open \in Seq(FieldTypes)
    <3>1. Fine(arena') /\ open # <<>> /\ Narrow
      BY <1>1, <1>3 DEF Added, AddedField, Grows, TInv
    <3>2. open \in Tables
      BY <3>1 DEF CInv, InStep
    <3> QED BY <1>1, <1>3, <3>1, <3>2, OffTyped, ReadyFine, ClientAssumption DEF Added, AddedField, Fine
  <2>2. PICK i \in DOMAIN vtable :
           /\ vtable[i] = 0 /\ vtable' = [vtable EXCEPT ![i] = Off(arena')]
           /\ Off(arena') > Off(arena) /\ Off(arena') < Off(arena) + FieldSpan(open[i])
    BY <1>3 DEF Added, AddedField, Stuck, Failed, OneMore
  <2>3. PICK span \in 0..VOffsetRange :
           /\ SpanFits(open, span)
           /\ Off(arena) - objectEnd <= Cardinality(Present(vtable)) * span
    BY <2>1 DEF Narrow
  <2>4. i \in DOMAIN open
    BY <1>1, <2>1, <2>2
  <2>5. Present(vtable') = Present(vtable) \cup {i} /\ i \notin Present(vtable)
    <3>1. Off(arena') # 0
      BY <1>1, <2>1, <2>2
    <3> QED BY <1>1, <2>2, <3>1 DEF Present
  <2>6. IsFiniteSet(Present(vtable))
    <3>1. Len(vtable) \in Nat /\ Present(vtable) \subseteq 1..Len(vtable)
      BY <1>1 DEF Present
    <3>2. IsFiniteSet(1..Len(vtable))
      BY <3>1, FS_Interval
    <3> QED BY <3>1, <3>2, FS_Subset
  <2> DEFINE k == Cardinality(Present(vtable))
             d == FieldSpan(open[i])
  <2>7. k \in Nat /\ Cardinality(Present(vtable')) = k + 1
    BY <2>5, <2>6, FS_CardinalityType, FS_AddElement
  <2>8. d <= span /\ span \in Nat /\ d \in Int
    <3>1. span \in Nat /\ d <= span
      BY <2>3, <2>4, BuilderAssumption DEF SpanFits
    <3>2. open[i] \in FieldTypes
      BY <2>1, <2>4
    <3>3. d \in Int
      <4>1. CASE open[i] \in DOMAIN Structs
        BY <4>1, ClientAssumption DEF FieldSpan, PowersOfTwo
      <4>2. CASE open[i] \notin DOMAIN Structs
        <5>1. open[i] \in DOMAIN WidthOf \cup {"offset"}
          BY <3>2, <4>2, BuilderAssumption DEF FieldTypes
        <5>2. \A t \in DOMAIN WidthOf : WidthOf[t] \in Int
          BY DEF WidthOf
        <5> QED BY <4>2, <5>1, <5>2 DEF FieldSpan
      <4> QED BY <4>1, <4>2
    <3> QED BY <3>1, <3>3
  <2>9. Off(arena) - objectEnd <= k * span /\ Off(arena') < Off(arena) + d
    BY <2>2, <2>3
  <2> HIDE DEF k, d
  <2>10. (k + 1) * span = k * span + span /\ k * span \in Int
    BY <2>7, <2>8
  <2>11. Off(arena') - objectEnd <= (k + 1) * span
    BY <1>1, <2>1, <2>8, <2>9, <2>10
  <2> QED BY <2>1, <2>3, <2>7, <2>11 DEF Narrow
<1> QED BY <1>2, <1>3

\* Every call keeps the tables right.
LEMMA ClientNextTInv ==
    ASSUME SchemaFits, TablesFit, CInv, TInv, [ClientNext]_clientVars
    PROVE  TInv'
<1>1. CASE Same
  <2>1. TablesWellFormed'
    <3>1. TablesWellFormed /\ arena' = arena
      BY <1>1 DEF Same, TInv
    <3>2. \A r \in Roots(arena) : TableRight(arena, r)
      BY <3>1 DEF TablesWellFormed, TableRight
    <3>3. \A r \in Roots(arena') : TableRight(arena', r)
      BY <3>1, <3>2
    <3> QED BY <3>3 DEF TablesWellFormed, TableRight
  <2>2. ~Failed(arena') => AllTables'
    BY <1>1 DEF Same, TInv, AllTables
  <2>3. ~Failed(arena') /\ open' # <<>> => Draft' /\ Narrow'
    BY <1>1 DEF Same, TInv, Draft, Narrow
  <2> QED BY <2>1, <2>2, <2>3 DEF TInv
<1>2. CASE Emptied
  <2>1. DOMAIN arena'.cells = {} /\ open' = <<>>
    BY <1>2 DEF Emptied, EmptyArena
  <2>2. Roots(arena') = {}
    BY <2>1, RootsTables
  <2> QED BY <2>1, <2>2 DEF TInv, TablesWellFormed, AllTables
<1>3. CASE Built
  <2>1. PICK c \in Item, n \in Nat : c.kind \in ItemKinds /\ ItemBuilt(c, n)
    BY <1>3 DEF Built, BuiltOf
  <2>2. Grows(arena, arena', {c.kind, "length"}) /\ Ready /\ open' = <<>>
    BY <1>3, <2>1 DEF Built, BuiltOf, ItemBuilt
  <2>3. "soffset" \notin {c.kind, "length"} /\ "vtable" \notin {c.kind, "length"}
    BY <2>1 DEF ItemKinds
  <2>4. TablesWellFormed /\ AllTables
    BY <2>2 DEF TInv, Ready
  <2> QED BY <2>2, <2>3, <2>4, TablesKept DEF TInv
<1>4. CASE Started
  <2>1. arena'.cells = arena.cells /\ Ready /\ ~Failed(arena)
    BY <1>4, ReadyFine DEF Started, Fine, Good, ArenaTypeOK
  <2>2. TablesWellFormed /\ AllTables
    BY <2>1 DEF TInv
  <2>3. Roots(arena') = Roots(arena) /\ \A r \in Roots(arena) : TableRight(arena', r)
    <3>1. \A r : IsTable(arena', r) <=> IsTable(arena, r)
      BY <2>1 DEF IsTable, VtableOf
    <3>2. Roots(arena') = Roots(arena)
      BY <2>1, <3>1, RootsTables
    <3>3. \A r \in Roots(arena) : TableRight(arena, r)
      BY <2>2 DEF TablesWellFormed, TableRight
    <3> QED BY <2>1, <3>2, <3>3, TableSame
  <2>4. TablesWellFormed'
    BY <2>3 DEF TablesWellFormed, TableRight
  <2>5. AllTables'
    BY <2>1, <2>2, <2>3 DEF AllTables
  <2>6. ~Failed(arena') => Draft' /\ Narrow'
    BY <1>4, DraftKept, NarrowKept
  <2> QED BY <2>4, <2>5, <2>6 DEF TInv
<1>5. CASE Added
  <2>1. Grows(arena, arena', ItemKinds) /\ Ready /\ TablesWellFormed /\ AllTables
    BY <1>5 DEF Added, AddedField, Ready, TInv
  <2>2. "soffset" \notin ItemKinds /\ "vtable" \notin ItemKinds
    BY DEF ItemKinds
  <2>3. ~Failed(arena') => Draft' /\ Narrow'
    BY <1>5, DraftKept, NarrowKept
  <2> QED BY <2>1, <2>2, <2>3, TablesKept DEF TInv
<1>6. CASE Ended
  <2>1. ~Failed(arena') => open' = <<>>
    BY <1>6 DEF Ended
  <2> QED BY <1>6, <2>1, EndedTables DEF TInv
<1>7. CASE RootPlaced
  <2>1. /\ Grows(arena, arena', {"uoffset", "ident", "partial"}) /\ open' = <<>>
        /\ Ready /\ TablesWellFormed /\ AllTables
    BY <1>7 DEF RootPlaced, Ready, TInv
  <2> QED BY <2>1, TablesKept DEF TInv
<1> QED BY <1>1, <1>2, <1>3, <1>4, <1>5, <1>6, <1>7, ClientSteps

\* Whatever has been built before and however the fields were ordered, a
\* finished table has its vtable right in front of it in the buffer, the vtable
\* names each of its fields once, and the size it states takes in the table, all
\* its fields and nothing that belongs to another item.
THEOREM ClientTablesWellFormed ==
    ASSUME SchemaFits, TablesFit
    PROVE  ClientSpec => []TablesWellFormed
<1>1. ClientInit => TInv
  <2> SUFFICES ASSUME ClientInit PROVE TInv
    OBVIOUS
  <2>1. PICK c \in Capacities : arena = EmptyArena(c)
    BY DEF ClientInit, InitWithCapacity
  <2>2. DOMAIN arena.cells = {} /\ open = <<>>
    BY <2>1 DEF EmptyArena, ClientInit
  <2>3. Roots(arena) = {}
    BY <2>2, RootsTables
  <2> QED BY <2>2, <2>3 DEF TInv, TablesWellFormed, AllTables
<1>2. CInv /\ [ClientNext]_clientVars => CInv'
  BY ClientNextCInv
<1>3. CInv /\ TInv /\ [ClientNext]_clientVars => TInv'
  BY ClientNextTInv
<1>4. TInv => TablesWellFormed
  BY DEF TInv
<1> QED BY <1>1, <1>2, <1>3, <1>4, ClientInitCInv, PTL DEF ClientSpec

-----------------------------------------------------------------------------
(* What a reader decodes does not change when something is put in front.   *)

ItemAt(a, r) == IF IsTable(a, r) THEN ReadTable(a, r) ELSE ReadVector(a, r)

\* What a reader follows from r is there.
Sound(a, r) ==
    /\ IsTable(a, r) => TableRight(a, r)
    /\ a.cells[r].kind = "length" /\ a.cells[r].val[1] # 0 => r - 4 \in DOMAIN a.cells

\* A cell is read as before: what it refers to is told from its own place.
LEMMA ReadKept ==
    ASSUME NEW a, NEW b, Keeps(a, b), NEW r \in DOMAIN a.cells
    PROVE  ReadAt(b, r) = ReadAt(a, r)
<1>1. b.cells[r] = a.cells[r]
  BY DEF Keeps
<1>2. \A k : Target(b, r, k) = Target(a, r, k)
  BY <1>1 DEF Target
<1>3. [k \in DOMAIN b.cells[r].val |-> Target(b, r, k)]
        = [k \in DOMAIN a.cells[r].val |-> Target(a, r, k)]
  BY <1>1, <1>2
<1> QED BY <1>1, <1>3 DEF ReadAt

\* So are the fields of a table, of which only the defaults are left out.
LEMMA FieldValuesKept ==
    ASSUME NEW a, NEW b, Keeps(a, b), NEW q,
           \A j \in DOMAIN q : q[j] \in DOMAIN a.cells
    PROVE  ReadFields(b, q) = ReadFields(a, q)
<1>1. \A j \in DOMAIN q : ReadAt(b, q[j]) = ReadAt(a, q[j])
  BY ReadKept
<1> DEFINE stored(c) == {j \in DOMAIN q : ~IsDefault(ReadAt(c, q[j]))}
<1>2. stored(b) = stored(a)
  BY <1>1
<1>3. /\ ReadFields(a, q) = [j \in stored(a) |-> ReadAt(a, q[j])]
      /\ ReadFields(b, q) = [j \in stored(b) |-> ReadAt(b, q[j])]
  BY DEF ReadFields
<1>4. \A j \in stored(a) : ReadAt(b, q[j]) = ReadAt(a, q[j])
  BY <1>1
<1> HIDE DEF stored
<1>5. [j \in stored(b) |-> ReadAt(b, q[j])] = [j \in stored(a) |-> ReadAt(a, q[j])]
  BY <1>2, <1>4
<1> QED BY <1>3, <1>5

\* One field more.
LEMMA FieldRead ==
    ASSUME NEW a, NEW b, Keeps(a, b), NEW p, NEW q, NEW i, i \notin DOMAIN p,
           DOMAIN q = DOMAIN p \cup {i},
           \A j \in DOMAIN p : q[j] = p[j] /\ p[j] \in DOMAIN a.cells
    PROVE  ReadFields(b, q) =
              IF IsDefault(ReadAt(b, q[i])) THEN ReadFields(a, p)
              ELSE Store!Extended(ReadFields(a, p), i, ReadAt(b, q[i]))
<1> DEFINE stored(c, f) == {j \in DOMAIN f : ~IsDefault(ReadAt(c, f[j]))}
<1>1. \A j \in DOMAIN p : ReadAt(b, q[j]) = ReadAt(a, p[j])
  BY ReadKept
<1>2. i \notin stored(a, p)
  OBVIOUS
<1>3. CASE IsDefault(ReadAt(b, q[i]))
  <2>1. stored(b, q) = stored(a, p)
    BY <1>1, <1>3
  <2>2. \A j \in stored(a, p) : ReadAt(b, q[j]) = ReadAt(a, p[j])
    BY <1>1
  <2>3. [j \in stored(b, q) |-> ReadAt(b, q[j])] = [j \in stored(a, p) |-> ReadAt(a, p[j])]
    BY <2>1, <2>2
  <2> QED BY <1>3, <2>3 DEF ReadFields
<1>4. CASE ~IsDefault(ReadAt(b, q[i]))
  <2>1. stored(b, q) = stored(a, p) \cup {i}
    BY <1>1, <1>4
  <2>2. \A j \in stored(a, p) : ReadAt(b, q[j]) = ReadAt(a, p[j])
    BY <1>1
  <2> DEFINE f == [j \in stored(a, p) |-> ReadAt(a, p[j])]
  <2>3. DOMAIN f = stored(a, p) /\ \A j \in stored(a, p) : f[j] = ReadAt(a, p[j])
    OBVIOUS
  <2>4. f = ReadFields(a, p)
    BY DEF ReadFields
  <2> HIDE DEF f
  <2>5. Store!Extended(f, i, ReadAt(b, q[i])) =
           [z \in stored(a, p) \cup {i} |-> IF z = i THEN ReadAt(b, q[i]) ELSE f[z]]
    BY <2>3 DEF Store!Extended
  <2>6. ReadFields(b, q) = [j \in stored(b, q) |-> ReadAt(b, q[j])]
    BY DEF ReadFields
  <2> HIDE DEF stored
  <2>7. [j \in stored(b, q) |-> ReadAt(b, q[j])] =
           [z \in stored(a, p) \cup {i} |-> IF z = i THEN ReadAt(b, q[i]) ELSE f[z]]
    BY <1>2, <2>1, <2>2, <2>3
  <2> QED BY <1>4, <2>4, <2>5, <2>6, <2>7
<1> QED BY <1>3, <1>4

\* An item is an item still, and is read as before.
LEMMA ItemKept ==
    ASSUME NEW a, NEW b, Keeps(a, b), NEW r \in Places(a), Sound(a, r)
    PROVE  r \in Places(b) /\ ItemAt(b, r) = ItemAt(a, r)
<1>1. r \in DOMAIN a.cells /\ r \in DOMAIN b.cells /\ b.cells[r] = a.cells[r]
  BY DEF Places, Keeps
<1>2. VtableOf(b, r) = VtableOf(a, r)
  BY <1>1 DEF VtableOf
<1>3. CASE IsTable(a, r)
  <2> DEFINE w == VtableOf(a, r)
             e == Entries(a, r)
             q == [i \in Present(e) |-> r - e[i]]
  <2>1. w \in DOMAIN a.cells /\ w \in DOMAIN b.cells /\ b.cells[w] = a.cells[w]
    BY <1>3 DEF IsTable, Keeps
  <2>2. IsTable(b, r)
    BY <1>1, <1>2, <1>3, <2>1 DEF IsTable
  <2>3. Entries(b, r) = e
    BY <1>2, <2>1 DEF Entries
  <2>4. {r - e[i] : i \in Present(e)} \subseteq DOMAIN a.cells
    BY <1>3 DEF Sound, TableRight
  <2> HIDE DEF e
  <2>5. \A i \in DOMAIN q : q[i] \in DOMAIN a.cells
    BY <2>4
  <2> HIDE DEF q
  <2>6. ReadFields(b, q) = ReadFields(a, q)
    BY <2>5, FieldValuesKept
  <2>7. ReadTable(b, r) = [kind |-> "table", fields |-> ReadFields(b, q)]
    BY <2>3 DEF ReadTable, q
  <2>8. ReadTable(a, r) = [kind |-> "table", fields |-> ReadFields(a, q)]
    BY DEF ReadTable, q, e
  <2> QED BY <1>1, <1>3, <2>2, <2>6, <2>7, <2>8 DEF Places, ItemAt
<1>4. CASE ~IsTable(a, r)
  <2>1. a.cells[r].kind = "length"
    BY <1>4 DEF Places
  <2>2. ~IsTable(b, r)
    BY <1>1, <2>1 DEF IsTable
  <2>3. ReadVector(b, r) = ReadVector(a, r)
    BY <1>1, <2>1, ReadKept DEF ReadVector, Sound
  <2> QED BY <1>1, <1>4, <2>1, <2>2, <2>3 DEF Places, ItemAt
<1> QED BY <1>3, <1>4

\* When nothing new can be referred to, the items are the same ...
LEMMA ItemsSame ==
    ASSUME NEW a, NEW b, Keeps(a, b), \A r \in Places(a) : Sound(a, r),
           Places(b) \subseteq Places(a)
    PROVE  Items(b) = Items(a)
<1>1. \A r \in Places(a) : r \in Places(b) /\ ItemAt(b, r) = ItemAt(a, r)
  BY ItemKept
<1>2. Places(b) = Places(a)
  BY <1>1
<1>3. [r \in Places(b) |-> ItemAt(b, r)] = [r \in Places(a) |-> ItemAt(a, r)]
  BY <1>1, <1>2
<1> QED BY <1>3 DEF Items, ItemAt

\* ... and when one thing more can, there is one more.
LEMMA ItemsMore ==
    ASSUME NEW a, NEW b, Keeps(a, b), \A r \in Places(a) : Sound(a, r),
           NEW s \in Places(b), s \notin Places(a), Places(b) \subseteq Places(a) \cup {s}
    PROVE  Items(b) = Store!Extended(Items(a), s, ItemAt(b, s))
<1>1. \A r \in Places(a) : r \in Places(b) /\ ItemAt(b, r) = ItemAt(a, r)
  BY ItemKept
<1>2. Places(b) = Places(a) \cup {s}
  BY <1>1
<1> DEFINE f == [r \in Places(a) |-> ItemAt(a, r)]
<1>3. f = Items(a)
  BY DEF Items, ItemAt
<1>4. DOMAIN f = Places(a) /\ \A r \in Places(a) : f[r] = ItemAt(a, r)
  OBVIOUS
<1> HIDE DEF f
<1>5. Items(b) = [r \in Places(b) |-> ItemAt(b, r)]
  BY DEF Items, ItemAt
<1>6. [r \in Places(b) |-> ItemAt(b, r)] =
         [z \in Places(a) \cup {s} |-> IF z = s THEN ItemAt(b, s) ELSE f[z]]
  BY <1>1, <1>2, <1>4
<1>7. Store!Extended(f, s, ItemAt(b, s)) =
         [z \in Places(a) \cup {s} |-> IF z = s THEN ItemAt(b, s) ELSE f[z]]
  BY <1>4 DEF Store!Extended
<1> QED BY <1>3, <1>5, <1>6, <1>7

-----------------------------------------------------------------------------
(* Every call of the client is one of the store.                           *)

\* A vector that is not empty is behind its length.
LengthsLead ==
    \A r \in DOMAIN arena.cells :
        arena.cells[r].kind = "length" /\ arena.cells[r].val[1] # 0 =>
            r - 4 \in DOMAIN arena.cells

\* What is invariant while the client drives the store.
SInv == CInv /\ TInv /\ LengthsLead

\* Every item can be read: the invariants of the client say so.
LEMMA AllSound ==
    ASSUME SInv
    PROVE  \A r \in Places(arena) : Sound(arena, r)
<1> SUFFICES ASSUME NEW r \in Places(arena) PROVE Sound(arena, r)
  OBVIOUS
<1>1. r \in DOMAIN arena.cells
  BY DEF Places
<1>2. IsTable(arena, r) => TableRight(arena, r)
  <2>1. IsTable(arena, r) => r \in Roots(arena)
    BY DEF Roots
  <2>2. TablesWellFormed
    BY DEF SInv, TInv
  <2> QED BY <2>1, <2>2 DEF TablesWellFormed, TableRight
<1> QED BY <1>1, <1>2 DEF Sound, SInv, LengthsLead

\* Of what is written, only a length and a finished table can be referred to.
LEMMA NothingBuilt ==
    ASSUME SInv, Ready, Keeps(arena, arena'),
           \A s \in DOMAIN arena'.cells \ DOMAIN arena.cells :
              /\ arena'.cells[s].kind # "length"
              /\ arena'.cells[s].kind = "soffset" => s \notin Roots(arena')
    PROVE  Items(arena') = Items(arena)
<1>1. Places(arena') \subseteq Places(arena)
  <2> SUFFICES ASSUME NEW r \in Places(arena') PROVE r \in Places(arena)
    OBVIOUS
  <2>1. r \in DOMAIN arena'.cells /\ (arena'.cells[r].kind = "length" \/ IsTable(arena', r))
    BY DEF Places
  <2>2. IsTable(arena', r) => arena'.cells[r].kind = "soffset" /\ r \in Roots(arena')
    BY DEF IsTable, Roots
  <2>3. r \in DOMAIN arena.cells /\ arena.cells[r] = arena'.cells[r]
    BY <2>1, <2>2 DEF Keeps
  <2>4. arena.cells[r].kind = "soffset" => r \in Roots(arena)
    BY <2>3 DEF SInv, TInv, Ready, AllTables
  <2> QED BY <2>1, <2>2, <2>3, <2>4 DEF Places, Roots
<1>2. \A r \in Places(arena) : Sound(arena, r)
  BY AllSound
<1> QED BY <1>1, <1>2, ItemsSame

\* The fields of the table that is open are there.
LEMMA DraftThere ==
    ASSUME SInv, Ready, open # <<>>
    PROVE  \A i \in Present(vtable) : vtable[i] \in DOMAIN arena.cells
<1>1. Draft
  BY DEF SInv, TInv, Ready
<1> QED BY <1>1 DEF Draft

\* The table that is open is read as before.
LEMMA DraftStays ==
    ASSUME SInv, Ready, Keeps(arena, arena'), UNCHANGED <<vtable, open>>
    PROVE  DraftRead' = DraftRead
<1> DEFINE q == [i \in Present(vtable) |-> vtable[i]]
<1>1. CASE open = <<>>
  BY <1>1 DEF DraftRead
<1>2. CASE open # <<>>
  <2>1. \A i \in DOMAIN q : q[i] \in DOMAIN arena.cells
    BY <1>2, DraftThere
  <2>2. Present(vtable') = Present(vtable) /\ [i \in Present(vtable') |-> vtable'[i]] = q
    OBVIOUS
  <2> HIDE DEF q
  <2>3. ReadFields(arena', q) = ReadFields(arena, q)
    BY <2>1, FieldValuesKept
  <2>4. DraftRead = [open |-> TRUE, fields |-> ReadFields(arena, q)]
    BY <1>2 DEF DraftRead, q
  <2>5. DraftRead' = [open |-> TRUE, fields |-> ReadFields(arena', q)]
    BY <1>2, <2>2 DEF DraftRead
  <2> QED BY <2>3, <2>4, <2>5
<1> QED BY <1>1, <1>2

\* The calls the store knows.
StoreContents == [kind : CellKinds, size : Nat \ {0}, val : Seq(Int)]

\* What a call is told to return is a call of the store.
LEMMA IsCall ==
    ASSUME NEW op, NEW arg \in StoreContents \cup {Nothing}, NEW at \in Nat
    PROVE  Called(op, arg, at) \in Store!Calls(op)
<1>1. at \in (Nat \ {0}) \cup {0}
  OBVIOUS
<1> QED BY <1>1 DEF Called, Store!Calls, StoreContents, Store!Nothing, Nothing, Content

\* A call that fails leaves no item, no field and no root behind.
LEMMA StoreFails ==
    ASSUME SInv, Built \/ Added \/ Ended \/ RootPlaced, Failed(arena'),
           call' = Called("failed", Nothing, 0)
    PROVE  Store!Fail
<1>1. call' \in Store!Calls("failed")
  BY IsCall
<1>2. Ready /\ Keeps(arena, arena') /\ UNCHANGED <<vtable, open>> /\ ~finished /\ ~finished'
  <2>1. CASE Built
    BY <2>1 DEF Built, BuiltOf, ItemBuilt, Grows, Continues, Ready
  <2>2. CASE Added
    BY <2>2 DEF Added, AddedField, Grows, Continues, Ready
  <2>3. CASE Ended
    BY <2>3 DEF Ended, Grows, Continues, Ready
  <2>4. CASE RootPlaced
    BY <2>4 DEF RootPlaced, Grows, Continues, Ready
  <2> QED BY <2>1, <2>2, <2>3, <2>4
<1>3. ASSUME NEW s \in DOMAIN arena'.cells \ DOMAIN arena.cells
      PROVE  /\ arena'.cells[s].kind # "length"
             /\ arena'.cells[s].kind = "soffset" => s \notin Roots(arena')
  <2>1. CASE Built \/ Added
    BY <2>1, <1>3 DEF Built, BuiltOf, ItemBuilt, Added, AddedField, Stuck
  <2>2. CASE Ended
    <3>1. Roots(arena') \subseteq Roots(arena)
      BY <2>2, GivenUpIsNone
    <3>2. s \notin Roots(arena')
      BY <1>3, <3>1 DEF Roots, Places
    <3>3. arena'.cells[s].kind \in {"soffset", "vtable", "partial"}
      BY <1>3, <2>2 DEF Ended, Grows
    <3> QED BY <3>2, <3>3
  <2>3. CASE RootPlaced
    <3>1. arena'.cells[s].kind \in {"uoffset", "ident", "partial"}
      BY <1>3, <2>3 DEF RootPlaced, Grows
    <3> QED BY <3>1
  <2> QED BY <2>1, <2>2, <2>3
<1>4. Items(arena') = Items(arena)
  BY <1>2, <1>3, NothingBuilt
<1>5. DraftRead' = DraftRead
  BY <1>2, DraftStays
<1>6. RootRead' = RootRead
  BY <1>2 DEF RootRead
<1> QED BY <1>1, <1>4, <1>5, <1>6 DEF Store!Fail

\* A string or a vector is a new item, read as what it was made of.
LEMMA StoreBuilds ==
    ASSUME SInv, NEW c, NEW n, BuiltOf(c, n), ~Failed(arena'),
           NEW arg \in StoreContents \cup {Nothing},
           call' = Called("build", arg, Off(arena')),
           n = 0 => arg = Nothing,
           n # 0 => arg = ReadAt(arena', Off(arena') - 4),
           Store!RefsOf(arg) \subseteq Places(arena)
    PROVE  Store!Build
<1> DEFINE b == arena'
           r == Off(arena')
<1>1. /\ Ready /\ open = <<>> /\ Keeps(arena, b) /\ Fine(arena) /\ Fine(b)
      /\ UNCHANGED <<vtable, open>> /\ ~finished /\ ~finished' /\ n \in Nat
      /\ DOMAIN b.cells = DOMAIN arena.cells \cup {r} \cup (IF c.size > 0 THEN {r - 4} ELSE {})
      /\ VectorOf(b, r, c, n) /\ c.kind \in ItemKinds
  BY ReadyFine DEF BuiltOf, ItemBuilt, Grows, Continues, Ready
<1>2. r \in Nat /\ Off(arena) \in Nat
  BY <1>1, OffTyped DEF Fine
<1>3. b.cells[r] = MkCell(4, 4, "length", <<n>>) /\ (c.size > 0 => b.cells[r - 4] = c)
  BY <1>1 DEF VectorOf, LengthCell
<1>4. r > Off(arena) /\ r > 0 /\ r \notin DOMAIN arena.cells
  <2>1. r >= Off(arena) + c.size + 4 /\ c.size \in Nat
    BY DEF BuiltOf, ItemBuilt, Item
  <2>2. r > Off(arena) /\ r > 0
    BY <1>2, <2>1
  <2> HIDE DEF r
  <2>3. \A s \in DOMAIN arena.cells : s <= Off(arena) /\ s \in Nat
    BY <1>1, OffTyped DEF Fine
  <2> QED BY <1>2, <2>2, <2>3
<1>5. Ready /\ SInv /\ AllTables
  BY <1>1 DEF SInv, TInv, Ready
<1> HIDE DEF r, b
<1>6. r \in Places(b) /\ r \notin Places(arena) /\ ~IsTable(b, r)
  BY <1>1, <1>3, <1>4 DEF Places, IsTable, MkCell
<1>7. Places(b) \subseteq Places(arena) \cup {r}
  <2> SUFFICES ASSUME NEW s \in Places(b), s # r PROVE s \in Places(arena)
    OBVIOUS
  <2>1. s \in DOMAIN b.cells /\ (b.cells[s].kind = "length" \/ b.cells[s].kind = "soffset")
    BY DEF Places, IsTable
  <2>2. s \in DOMAIN arena.cells
    <3>1. CASE s = r - 4 /\ c.size > 0
      <4>1. b.cells[s].kind \in ItemKinds
        BY <1>1, <1>3, <3>1
      <4> QED BY <2>1, <4>1 DEF ItemKinds
    <3>2. CASE ~(s = r - 4 /\ c.size > 0)
      BY <1>1, <2>1, <3>2
    <3> QED BY <3>1, <3>2
  <2>3. arena.cells[s] = b.cells[s]
    BY <1>1, <2>2 DEF Keeps
  <2>4. b.cells[s].kind = "soffset" => s \in Roots(arena)
    BY <1>5, <2>2, <2>3 DEF AllTables
  <2> QED BY <2>1, <2>2, <2>3, <2>4 DEF Places, Roots
<1>8. ItemAt(b, r) = arg
  <2>1. b.cells[r].val[1] = n
    BY <1>3 DEF MkCell
  <2>2. ReadVector(b, r) = arg
    BY <2>1 DEF ReadVector, b, r
  <2> QED BY <1>6, <2>2 DEF ItemAt
<1>9. Items(b) = Store!Extended(Items(arena), r, arg)
  <2>1. \A s \in Places(arena) : Sound(arena, s)
    BY AllSound
  <2>2. Items(b) = Store!Extended(Items(arena), r, ItemAt(b, r))
    BY <1>1, <1>6, <1>7, <2>1, ItemsMore
  <2> QED BY <1>8, <2>2
<1>10. DraftRead' = DraftRead /\ DraftRead.open = FALSE
  <2>1. DraftRead' = DraftRead
    BY <1>1, DraftStays DEF b
  <2> QED BY <1>1, <2>1 DEF DraftRead
<1>11. RootRead' = 0 /\ RootRead = 0
  BY <1>1 DEF RootRead
<1>12. /\ call' \in Store!Calls("build") /\ call'.at = r /\ call'.arg = arg
  <2>1. call' = Called("build", arg, r)
    BY DEF r
  <2>2. call'.at = r /\ call'.arg = arg
    BY <2>1 DEF Called
  <2> QED BY <1>2, <2>1, <2>2, IsCall
<1>13. DOMAIN Items(arena) = Places(arena)
  BY DEF Items
<1>14. r \in (Nat \ {0}) \ DOMAIN Items(arena)
  BY <1>2, <1>4, <1>6, <1>13
<1>15. Items(arena') = Store!Extended(Items(arena), r, arg)
  BY <1>9 DEF b
<1> QED BY <1>10, <1>11, <1>12, <1>13, <1>14, <1>15 DEF Store!Build

\* A table that is started has no fields.
LEMMA StoreBegins ==
    ASSUME SInv, Started, call' = Called("begin", Nothing, 0)
    PROVE  Store!Begin
<1>1. /\ Ready /\ open = <<>> /\ arena'.cells = arena.cells /\ ~finished /\ ~finished'
      /\ open' # <<>>
  BY ReadyFine DEF Started, Ready, Fine, Good, ArenaTypeOK
<1>2. PICK T \in Tables : vtable' = Zeros(Len(T))
  BY DEF Started
<1>3. call' \in Store!Calls("begin")
  BY IsCall
<1>4. Items(arena') = Items(arena)
  <2>1. Keeps(arena, arena')
    BY <1>1 DEF Keeps
  <2> QED BY <1>1, <2>1, NothingBuilt
<1>5. DraftRead.open = FALSE
  BY <1>1 DEF DraftRead
<1>6. DraftRead' = Store!Draft(Store!NoFields)
  <2>1. Present(vtable') = {}
    BY <1>2 DEF Present, Zeros
  <2> DEFINE q == [i \in Present(vtable') |-> vtable'[i]]
             stored == {j \in DOMAIN q : ~IsDefault(ReadAt(arena', q[j]))}
  <2>2. DOMAIN q = {}
    BY <2>1
  <2>3. DraftRead' = [open |-> TRUE, fields |-> ReadFields(arena', q)]
    BY <1>1 DEF DraftRead
  <2> HIDE DEF q
  <2>4. stored = {}
    BY <2>2
  <2>5. ReadFields(arena', q) = [i \in stored |-> ReadAt(arena', q[i])]
    BY DEF ReadFields
  <2> HIDE DEF stored
  <2>6. [i \in stored |-> ReadAt(arena', q[i])] = Store!NoFields
    BY <2>4 DEF Store!NoFields
  <2> QED BY <2>3, <2>5, <2>6 DEF Store!Draft
<1>7. RootRead' = 0 /\ RootRead = 0
  BY <1>1 DEF RootRead
<1> QED BY <1>3, <1>4, <1>5, <1>6, <1>7 DEF Store!Begin

\* A field is read as what was stored for it.
LEMMA StoreSets ==
    ASSUME SInv, NEW i, NEW c, AddedField(i, c), ~Failed(arena'),
           NEW arg \in StoreContents, call' = Called("set", arg, i),
           arg = ReadAt(arena', Off(arena')),
           Store!RefsOf(arg) \subseteq Places(arena)
    PROVE  Store!Set
<1> DEFINE b == arena'
           p == [j \in Present(vtable) |-> vtable[j]]
           q == [j \in Present(vtable') |-> vtable'[j]]
<1>1. /\ Ready /\ open # <<>> /\ open' = open /\ Keeps(arena, b) /\ Fine(arena) /\ Fine(b)
      /\ ~finished /\ ~finished' /\ i \in DOMAIN vtable /\ vtable[i] = 0
      /\ vtable' = [vtable EXCEPT ![i] = Off(b)] /\ OneMore(arena, b, c)
  BY ReadyFine DEF AddedField, Grows, Continues, Ready, Stuck, Failed
<1>2. vtable \in Seq(Nat) /\ Off(b) \in Nat /\ Off(arena) \in Nat /\ i \in Nat \ {0}
  BY <1>1, OffTyped DEF Ready, CInv, IInv, TypeOK, Fine
<1>3. Off(b) # 0
  BY <1>1, <1>2 DEF OneMore
<1>4. /\ Present(vtable') = Present(vtable) \cup {i} /\ i \notin Present(vtable)
      /\ \A j \in Present(vtable) : vtable'[j] = vtable[j]
      /\ vtable'[i] = Off(b)
  BY <1>1, <1>2, <1>3 DEF Present
<1>5. \A j \in Present(vtable) : vtable[j] \in DOMAIN arena.cells
  BY <1>1, DraftThere
<1>6. /\ DOMAIN p = Present(vtable) /\ DOMAIN q = DOMAIN p \cup {i} /\ i \notin DOMAIN p
      /\ \A j \in DOMAIN p : q[j] = p[j] /\ p[j] \in DOMAIN arena.cells
      /\ q[i] = Off(b)
  BY <1>4, <1>5
<1>7. /\ DraftRead = [open |-> TRUE, fields |-> ReadFields(arena, p)]
      /\ DraftRead' = [open |-> TRUE, fields |-> ReadFields(b, q)]
  BY <1>1 DEF DraftRead
<1> HIDE DEF p, q, b
<1>8. ReadFields(b, q) =
         IF IsDefault(ReadAt(b, q[i])) THEN ReadFields(arena, p)
         ELSE Store!Extended(ReadFields(arena, p), i, ReadAt(b, q[i]))
  BY <1>1, <1>6, FieldRead
<1>9. ReadAt(b, q[i]) = arg
  BY <1>6 DEF b
<1>10. i \notin DOMAIN ReadFields(arena, p)
  <2>1. DOMAIN ReadFields(arena, p) \subseteq DOMAIN p
    BY DEF ReadFields
  <2> QED BY <1>6, <2>1
<1>11. Items(arena') = Items(arena)
  <2>1. ASSUME NEW s \in DOMAIN arena'.cells \ DOMAIN arena.cells
        PROVE  arena'.cells[s].kind # "length" /\ arena'.cells[s].kind # "soffset"
    BY DEF AddedField, Grows, ItemKinds
  <2> QED BY <1>1, <2>1, NothingBuilt DEF b
<1>12. call' \in Store!Calls("set") /\ call'.at = i /\ call'.arg = arg
  <2>1. call'.at = i /\ call'.arg = arg
    BY DEF Called
  <2> QED BY <1>2, <2>1, IsCall
<1>13. RootRead' = 0 /\ RootRead = 0
  BY <1>1 DEF RootRead
<1>14. DOMAIN Items(arena) = Places(arena)
  BY DEF Items
<1>15. DraftRead' = Store!Draft(IF IsDefault(arg) THEN DraftRead.fields
                                ELSE Store!Extended(DraftRead.fields, i, arg))
  BY <1>7, <1>8, <1>9 DEF Store!Draft
<1>16. i \in (Nat \ {0}) \ DOMAIN DraftRead.fields /\ DraftRead.open
  BY <1>2, <1>7, <1>10
<1> QED BY <1>11, <1>12, <1>13, <1>14, <1>15, <1>16 DEF Store!Set

\* A default need not be stored.
LEMMA StoreSkips ==
    ASSUME SInv, Ready, Same, NEW i \in DOMAIN vtable, open # <<>>, vtable[i] = 0,
           NEW w \in Nat \ {0}, call' = Called("set", Content("scalar", w, <<Default>>), i)
    PROVE  Store!Set
<1> DEFINE arg == Content("scalar", w, <<Default>>)
           p == [j \in Present(vtable) |-> vtable[j]]
<1>1. arg \in StoreContents
  BY DEF Content, StoreContents, CellKinds, Default
<1>2. Store!RefsOf(arg) = {} /\ IsDefault(arg)
  BY DEF Content, Store!RefsOf, IsDefault
<1>3. vtable \in Seq(Nat) /\ i \in Nat \ {0} /\ i \notin Present(vtable)
  BY DEF Ready, CInv, IInv, TypeOK, Present
<1>4. UNCHANGED <<Items(arena), DraftRead, RootRead>>
  BY DEF Same, DraftRead, RootRead
<1>5. DraftRead = [open |-> TRUE, fields |-> ReadFields(arena, p)]
  BY DEF DraftRead
<1>6. i \notin DOMAIN ReadFields(arena, p)
  BY <1>3 DEF ReadFields
<1> HIDE DEF arg, p
<1>7. call' \in Store!Calls("set") /\ call'.at = i /\ call'.arg = arg
  <2>1. call' = Called("set", arg, i)
    BY DEF arg
  <2>2. call'.at = i /\ call'.arg = arg
    BY <2>1 DEF Called
  <2> QED BY <1>1, <1>3, <2>1, <2>2, IsCall
<1> QED BY <1>2, <1>3, <1>4, <1>5, <1>6, <1>7 DEF Store!Set, Store!Draft

\* reset leaves nothing.
LEMMA StoreClears ==
    ASSUME Emptied, call' = Called("new", Nothing, 0)
    PROVE  Store!Clear
<1>1. Items(arena') = [i \in {} |-> Nothing]
  <2>1. DOMAIN arena'.cells = {}
    BY DEF Emptied, EmptyArena
  <2>2. Places(arena') = {}
    BY <2>1 DEF Places
  <2> QED BY <2>2 DEF Items
<1>2. call' \in Store!Calls("new")
  BY IsCall
<1>3. Items(arena') = Store!NoFields
  BY <1>1 DEF Store!NoFields, Store!Nothing, Nothing, Content
<1>4. DraftRead' = Store!NoDraft /\ RootRead' = 0
  BY DEF Emptied, DraftRead, RootRead, Store!NoDraft
<1> QED BY <1>2, <1>3, <1>4 DEF Store!Clear

\* A table that is finished has the fields of the draft.
LEMMA StoreCommits ==
    ASSUME SchemaFits, TablesFit, SInv, Ended, ~Failed(arena'),
           call' = Called("commit", Nothing, ObjectPlace)
    PROVE  Store!Commit
<1> DEFINE b == arena'
           r == ObjectPlace
           e == Entries(b, r)
           p == [i \in Present(vtable) |-> vtable[i]]
           q == [i \in Present(e) |-> r - e[i]]
<1>1. /\ Ready /\ open # <<>> /\ open' = <<>> /\ Keeps(arena, b) /\ Fine(arena)
      /\ ~finished /\ ~finished' /\ Off(arena) \in Nat
      /\ DOMAIN b.cells = DOMAIN arena.cells \cup {r, VtablePlace}
      /\ b.cells[VtablePlace].kind = "vtable" /\ AllTables /\ Draft /\ Narrow /\ CInv
  BY ReadyFine DEF Ended, Grows, Continues, Ready, SInv, TInv, MkCell
<1>2. r \in Nat /\ r > Off(arena)
  <2>1. PadFor(Off(arena), 4) \in 0..3
    BY <1>1, PadAligns DEF PowersOfTwo
  <2> QED BY <1>1, <2>1 DEF ObjectPlace
<1>3. r \notin DOMAIN arena.cells
  <2> HIDE DEF r
  <2>1. \A s \in DOMAIN arena.cells : s <= Off(arena) /\ s \in Nat
    BY <1>1, OffTyped DEF Fine
  <2> QED BY <1>1, <1>2, <2>1
<1>4. /\ DOMAIN vtable = 1..Len(vtable) /\ DOMAIN e = 1..Len(vtable)
      /\ \A i \in DOMAIN vtable : e[i] = IF vtable[i] = 0 THEN 0 ELSE r - vtable[i]
      /\ \A i \in DOMAIN vtable : e[i] # 0 <=> vtable[i] # 0
  BY <1>1, EntriesExact
<1>5. r \in Roots(b)
  BY <1>1, NewTableRight
<1>6. vtable \in Seq(Nat)
  BY <1>1 DEF CInv, IInv, TypeOK
<1> HIDE DEF b, r, e
<1>7. Present(e) = Present(vtable)
  BY <1>4 DEF Present
<1>8. q = p
  <2>1. ASSUME NEW i \in Present(vtable) PROVE r - e[i] = vtable[i]
    <3>1. i \in DOMAIN vtable /\ vtable[i] # 0 /\ vtable[i] \in Nat
      BY <1>6 DEF Present
    <3> QED BY <1>2, <1>4, <3>1
  <2> QED BY <1>7, <2>1
<1>9. ReadTable(b, r) = [kind |-> "table", fields |-> ReadFields(b, q)]
  BY DEF ReadTable, e
<1>10. DraftRead = [open |-> TRUE, fields |-> ReadFields(arena, p)]
  BY <1>1 DEF DraftRead
<1>11. ReadFields(b, p) = ReadFields(arena, p)
  <2>1. \A j \in DOMAIN p : p[j] \in DOMAIN arena.cells
    BY <1>1, DraftThere
  <2> HIDE DEF p
  <2> QED BY <1>1, <2>1, FieldValuesKept
<1> HIDE DEF p, q
<1>12. ItemAt(b, r) = Store!Table(DraftRead.fields)
  <2>1. IsTable(b, r)
    BY <1>5 DEF Roots
  <2>2. DraftRead.fields = ReadFields(arena, p)
    BY <1>10
  <2> QED BY <1>8, <1>9, <1>11, <2>1, <2>2 DEF ItemAt, Store!Table
<1>13. Places(b) \subseteq Places(arena) \cup {r} /\ r \in Places(b) /\ r \notin Places(arena)
  <2>1. ASSUME NEW s \in Places(b), s # r PROVE s \in Places(arena)
    <3>1. s \in DOMAIN b.cells /\ (b.cells[s].kind = "length" \/ b.cells[s].kind = "soffset")
      BY DEF Places, IsTable
    <3>2. s \in DOMAIN arena.cells /\ arena.cells[s] = b.cells[s]
      BY <1>1, <2>1, <3>1 DEF Keeps
    <3>3. b.cells[s].kind = "soffset" => s \in Roots(arena)
      BY <1>1, <3>2 DEF AllTables
    <3> QED BY <3>1, <3>2, <3>3 DEF Places, Roots
  <2> QED BY <1>3, <1>5, <2>1 DEF Places, Roots
<1>14. Items(arena') = Store!Extended(Items(arena), r, Store!Table(DraftRead.fields))
  <2>1. \A s \in Places(arena) : Sound(arena, s)
    BY AllSound
  <2>2. Items(b) = Store!Extended(Items(arena), r, ItemAt(b, r))
    BY <1>1, <1>13, <2>1, ItemsMore
  <2> QED BY <1>12, <2>2 DEF b
<1>15. DraftRead' = Store!NoDraft /\ DraftRead.open
  BY <1>1, <1>10 DEF DraftRead, Store!NoDraft
<1>16. RootRead' = RootRead
  BY <1>1 DEF RootRead
<1>17. call' \in Store!Calls("commit") /\ call'.at = r
  <2>1. call'.at = r
    BY DEF Called, r
  <2> QED BY <1>2, <2>1, IsCall DEF r
<1>18. r \in (Nat \ {0}) \ DOMAIN Items(arena)
  <2>1. r # 0
    BY <1>1, <1>2
  <2> QED BY <1>2, <1>13, <2>1 DEF Items
<1> QED BY <1>14, <1>15, <1>16, <1>17, <1>18 DEF Store!Commit

\* A finished buffer leads to its root.
LEMMA StoreFinishes ==
    ASSUME SInv, RootPlaced, ~Failed(arena'), NEW root \in Roots(arena), LeadsTo(root),
           call' = Called("finish", Nothing, root)
    PROVE  Store!Finish
<1>1. /\ Ready /\ open = <<>> /\ Keeps(arena, arena') /\ Fine(arena) /\ Fine(arena')
      /\ ~finished /\ finished' /\ UNCHANGED <<vtable, open>>
  BY ReadyFine DEF RootPlaced, Grows, Continues, Ready
<1>2. Off(arena') \in Nat
  BY <1>1, OffTyped DEF Fine
<1>3. root \in Places(arena) /\ root \in Nat /\ IsTable(arena, root)
  <2>1. root \in Places(arena) /\ IsTable(arena, root)
    BY DEF Roots
  <2> QED BY <1>1, <2>1, PlaceWritten
<1>4. Items(arena') = Items(arena)
  <2>1. ASSUME NEW s \in DOMAIN arena'.cells \ DOMAIN arena.cells
        PROVE  arena'.cells[s].kind # "length" /\ arena'.cells[s].kind # "soffset"
    BY DEF RootPlaced, Grows
  <2> QED BY <1>1, <2>1, NothingBuilt
<1>5. DraftRead' = DraftRead /\ DraftRead.open = FALSE
  <2>1. DraftRead' = DraftRead
    BY <1>1, DraftStays
  <2> QED BY <1>1, <2>1 DEF DraftRead
<1>6. RootRead = 0 /\ RootRead' = root
  <2>1. arena'.cells[Off(arena')].val = <<Off(arena') - root>>
    BY DEF LeadsTo
  <2>2. RootRead' = Off(arena') - 4 * (1 - 1) - (Off(arena') - root)
    BY <1>1, <2>1 DEF RootRead, Target
  <2> QED BY <1>1, <1>2, <1>3, <2>2 DEF RootRead
<1>7. call' \in Store!Calls("finish") /\ call'.at = root
  <2>1. call'.at = root
    BY DEF Called
  <2> QED BY <1>3, <2>1, IsCall
<1>8. root \in DOMAIN Items(arena) /\ Items(arena)[root].kind = "table"
  <2>1. DOMAIN Items(arena) = Places(arena) /\ Items(arena)[root] = ReadTable(arena, root)
    BY <1>3 DEF Items
  <2> QED BY <1>3, <2>1 DEF ReadTable
<1> QED BY <1>4, <1>5, <1>6, <1>7, <1>8 DEF Store!Finish

\* An item that is no run of offsets is read as it was written.
LEMMA PlainRead ==
    ASSUME NEW a, Good(a), NEW r \in DOMAIN a.cells, a.cells[r].kind # "uoffset"
    PROVE  LET c == a.cells[r] IN
           /\ ReadAt(a, r) = Content(c.kind, c.size, c.val)
           /\ ReadAt(a, r) \in StoreContents /\ Store!RefsOf(ReadAt(a, r)) = {}
<1> DEFINE c == a.cells[r]
<1>1. c \in Cell
  BY OffTyped
<1>2. c.kind \in CellKinds /\ c.size \in Nat \ {0} /\ c.val \in Seq(Int)
  BY <1>1 DEF Cell
<1>3. ReadAt(a, r) = Content(c.kind, c.size, c.val)
  BY DEF ReadAt
<1> QED BY <1>2, <1>3 DEF StoreContents, Content, Store!RefsOf

\* What the client is told of a string or vector is what has been built.
LEMMA StoreItem ==
    ASSUME SInv, NEW c, NEW n, BuiltOf(c, n), NEW said, Returns("build", said, Off(arena')),
           n = 0 => said = Nothing,
           ~Failed(arena') /\ n # 0 => /\ said \in StoreContents
                                       /\ said = ReadAt(arena', Off(arena') - 4)
                                       /\ Store!RefsOf(said) \subseteq Places(arena)
    PROVE  Store!Fail \/ Store!Build
<1>1. CASE Failed(arena')
  BY <1>1, BuiltIs, StoreFails DEF Returns
<1>2. CASE ~Failed(arena')
  <2>1. call' = Called("build", said, Off(arena'))
    BY <1>2 DEF Returns
  <2>2. said \in StoreContents \cup {Nothing} /\ Store!RefsOf(said) \subseteq Places(arena)
    BY <1>2 DEF Nothing, Content, Store!RefsOf
  <2>3. n # 0 => said = ReadAt(arena', Off(arena') - 4)
    BY <1>2
  <2> QED BY <1>2, <2>1, <2>2, <2>3, StoreBuilds
<1> QED BY <1>1, <1>2

\* The elements of what has been built are right behind the length.
LEMMA ElementsThere ==
    ASSUME NEW c, NEW n, BuiltOf(c, n), ~Failed(arena'), n # 0
    PROVE  /\ Good(arena') /\ Off(arena') - 4 \in DOMAIN arena'.cells
           /\ arena'.cells[Off(arena') - 4] = c
<1>1. c.size > 0
  BY DEF BuiltOf
<1> QED BY <1>1 DEF BuiltOf, ItemBuilt, VectorOf, Grows, Fine

\* A string and a vector of scalars or structs ...
LEMMA StorePlain ==
    ASSUME SInv, NEW c, NEW n, BuiltOf(c, n), c.kind # "uoffset",
           Returns("build", IF n = 0 THEN Nothing ELSE Content(c.kind, c.size, c.val),
                   Off(arena'))
    PROVE  Store!Fail \/ Store!Build
<1> DEFINE arg == Content(c.kind, c.size, c.val)
<1>1. ASSUME ~Failed(arena'), n # 0
      PROVE  /\ arg \in StoreContents /\ arg = ReadAt(arena', Off(arena') - 4)
             /\ Store!RefsOf(arg) \subseteq Places(arena)
  BY <1>1, ElementsThere, PlainRead
<1> DEFINE said == IF n = 0 THEN Nothing ELSE arg
<1>2. n = 0 => said = Nothing
  OBVIOUS
<1>3. Returns("build", said, Off(arena'))
  OBVIOUS
<1>4. ~Failed(arena') /\ n # 0 => /\ said \in StoreContents
                                 /\ said = ReadAt(arena', Off(arena') - 4)
                                 /\ Store!RefsOf(said) \subseteq Places(arena)
  BY <1>1
<1> HIDE DEF said
<1> QED BY <1>2, <1>3, <1>4, StoreItem

\* The targets of a vector of offsets are read as those it was given.
LEMMA StoreOffsets ==
    ASSUME SInv, Ready, NEW n \in Lengths, NEW targets \in [1..n -> Places(arena)],
           NewOffsetVector(targets)
    PROVE  Store!Fail \/ Store!Build
<1> DEFINE c   == OffsetsCell(arena, targets)
           p   == Off(StartVectorArena(arena, 4, n, 4))
           arg == Content("uoffset", 4 * n, targets)
           r   == Off(arena') - 4
<1>1. n \in Nat /\ Len(targets) = n /\ DOMAIN targets = 1..n /\ targets \in Seq(Nat)
  <2>1. n \in Nat
    BY BuilderAssumption
  <2>2. targets \in [1..n -> Nat]
    BY PlaceWritten, ReadyFine
  <2> QED BY <2>1, <2>2
<1>2. BuiltOf(c, n) /\ (~Failed(arena') => Off(arena') = p + 4 * n + 4)
  BY NewOffsetVectorStep
<1>3. Returns("build", IF n = 0 THEN Nothing ELSE arg, Off(arena'))
  BY <1>1 DEF NewOffsetVector, NewItem
<1>4. c = MkCell(4 * n, 4, "uoffset", Distances(targets, p, 0))
  BY <1>1 DEF OffsetsCell
<1>5. ASSUME ~Failed(arena'), n # 0
      PROVE  /\ arg \in StoreContents /\ arg = ReadAt(arena', Off(arena') - 4)
             /\ Store!RefsOf(arg) \subseteq Places(arena)
  <2>1. arena'.cells[r] = c /\ r \in DOMAIN arena'.cells /\ Good(arena') /\ Off(arena') \in Nat
    BY <1>2, <1>5, ElementsThere, OffTyped
  <2>2. r = p + 4 * n /\ p \in Int
    <3>1. Off(arena') = p + 4 * n + 4
      BY <1>2, <1>5
    <3>2. Grows(arena, StartVectorArena(arena, 4, n, 4), {})
      BY <1>1, ReadyFine, StartVectorGrows DEF PowersOfTwo
    <3>3. p \in Int
      BY <3>2, OffTyped DEF Grows, Fine
    <3> HIDE DEF p
    <3> QED BY <1>1, <3>1, <3>3
  <2> HIDE DEF p, r
  <2> DEFINE dist == Distances(targets, p, 0)
  <2>3. DOMAIN dist = 1..n /\ \A k \in 1..n : dist[k] = p + 4 * (n - k) - targets[k] + 4
    BY <1>1 DEF Distances
  <2>4. c.val = dist /\ c.kind = "uoffset" /\ c.size = 4 * n
    BY <1>4 DEF MkCell
  <2> HIDE DEF dist, c
  <2>5. ASSUME NEW k \in 1..n PROVE Target(arena', r, k) = targets[k]
    <3>1. Target(arena', r, k) = r - 4 * (k - 1) - arena'.cells[r].val[k]
      BY DEF Target
    <3>2. arena'.cells[r].val[k] = p + 4 * (n - k) - targets[k] + 4
      BY <2>1, <2>3, <2>4
    <3>3. targets[k] \in Nat /\ k \in Nat
      BY <1>1
    <3> DEFINE d == arena'.cells[r].val[k]
               t == targets[k]
               u == Target(arena', r, k)
    <3> HIDE DEF d, t, u
    <3>4. u = r - 4 * (k - 1) - d /\ d = p + 4 * (n - k) - t + 4 /\ t \in Nat /\ k \in Nat
      BY <3>1, <3>2, <3>3 DEF d, t, u
    <3>5. u = t
      BY <1>1, <2>2, <3>4
    <3> QED BY <3>5 DEF t, u
  <2>6. [k \in DOMAIN c.val |-> Target(arena', r, k)] = targets
    BY <1>1, <2>3, <2>4, <2>5
  <2>7. ReadAt(arena', r) = Content("uoffset", 4 * n, targets)
    BY <2>1, <2>4, <2>6 DEF ReadAt
  <2>8. 4 * n \in Nat \ {0} /\ targets \in Seq(Int)
    BY <1>1, <1>5
  <2>9. arg \in StoreContents
    BY <2>8 DEF StoreContents, Content, CellKinds
  <2>10. Store!RefsOf(arg) = {targets[k] : k \in 1..n}
    BY <1>1 DEF Store!RefsOf, Content
  <2>11. {targets[k] : k \in 1..n} \subseteq Places(arena)
    OBVIOUS
  <2> QED BY <2>7, <2>9, <2>10, <2>11 DEF r
<1> HIDE DEF c, arg, r, p
<1> DEFINE said == IF n = 0 THEN Nothing ELSE arg
<1>6. n = 0 => said = Nothing
  OBVIOUS
<1>7. Returns("build", said, Off(arena'))
  BY <1>3
<1>8. ~Failed(arena') /\ n # 0 => /\ said \in StoreContents
                                 /\ said = ReadAt(arena', Off(arena') - 4)
                                 /\ Store!RefsOf(said) \subseteq Places(arena)
  BY <1>5
<1> HIDE DEF said
<1> QED BY <1>2, <1>6, <1>7, <1>8, StoreItem

\* What the client is told of a field is what is stored for it.
LEMMA StoreField ==
    ASSUME SInv, NEW i, NEW c, AddedField(i, c), c.kind # "uoffset",
           Returns("set", Content(c.kind, c.size, c.val), i)
    PROVE  Store!Fail \/ Store!Set
<1>1. CASE Failed(arena')
  BY <1>1, AddedIs, StoreFails DEF Returns
<1>2. CASE ~Failed(arena')
  <2> DEFINE arg == Content(c.kind, c.size, c.val)
  <2>1. /\ Good(arena') /\ Off(arena') \in DOMAIN arena'.cells
        /\ arena'.cells[Off(arena')] = c
    BY <1>2 DEF AddedField, Grows, Fine, OneMore, Stuck, Failed
  <2>2. /\ arg = ReadAt(arena', Off(arena')) /\ arg \in StoreContents
        /\ Store!RefsOf(arg) = {}
    BY <2>1, PlainRead
  <2>3. call' = Called("set", arg, i)
    BY <1>2 DEF Returns
  <2> HIDE DEF arg
  <2> QED BY <1>2, <2>2, <2>3, StoreSets
<1> QED BY <1>1, <1>2

\* ... and a reference leads to what it was given.
LEMMA StoreReference ==
    ASSUME SInv, Ready, NEW i \in DOMAIN open, NEW target \in Places(arena), AddOffset(i, target)
    PROVE  Store!Fail \/ Store!Set
<1> DEFINE r   == Off(arena) + PadFor(Off(arena), 4) + 4
           c   == MkCell(4, 4, "uoffset", <<r - target>>)
           arg == Content("uoffset", 4, <<target>>)
<1>1. AddedField(i, c) /\ (~Failed(arena') => Off(arena') = r)
  BY AddOffsetStep
<1>2. Returns("set", arg, i)
  BY DEF AddOffset
<1>3. r \in Int /\ target \in Nat
  <2>1. Off(arena) \in Nat /\ PadFor(Off(arena), 4) \in 0..3
    BY ReadyFine, PadAligns DEF PowersOfTwo
  <2> QED BY <2>1, PlaceWritten
<1> HIDE DEF r
<1>4. CASE Failed(arena')
  BY <1>1, <1>2, <1>4, AddedIs, StoreFails DEF Returns
<1>5. CASE ~Failed(arena')
  <2>1. arena'.cells[r] = c
    BY <1>1, <1>5 DEF AddedField, OneMore, Stuck, Failed
  <2>2. Target(arena', r, 1) = target
    <3>1. arena'.cells[r].val[1] = r - target
      BY <2>1 DEF MkCell
    <3> QED BY <1>3, <3>1 DEF Target
  <2>3. ReadAt(arena', r) = arg
    <3>1. c.val = <<r - target>> /\ c.kind = "uoffset" /\ c.size = 4
      BY DEF MkCell
    <3>2. [k \in DOMAIN <<r - target>> |-> Target(arena', r, k)] = <<target>>
      BY <2>2
    <3> QED BY <2>1, <3>1, <3>2 DEF ReadAt
  <2>4. arg \in StoreContents
    BY <1>3 DEF StoreContents, Content, CellKinds
  <2>5. Store!RefsOf(arg) = {target}
    BY DEF Content, Store!RefsOf
  <2>6. call' = Called("set", arg, i) /\ arg = ReadAt(arena', Off(arena'))
    BY <1>1, <1>2, <1>5, <2>3 DEF Returns
  <2> HIDE DEF arg, c
  <2> QED BY <1>1, <1>5, <2>4, <2>5, <2>6, StoreSets
<1> QED BY <1>4, <1>5

\* What is put in front of the buffer leaves the vectors in it alone, and a new
\* length is put right in front of its elements.
LEMMA LeadKept ==
    ASSUME LengthsLead, Keeps(arena, arena'),
           \A s \in DOMAIN arena'.cells \ DOMAIN arena.cells :
              arena'.cells[s].kind = "length" /\ arena'.cells[s].val[1] # 0 =>
                 s - 4 \in DOMAIN arena'.cells
    PROVE  LengthsLead'
<1> SUFFICES ASSUME NEW s \in DOMAIN arena'.cells,
                    arena'.cells[s].kind = "length", arena'.cells[s].val[1] # 0
             PROVE  s - 4 \in DOMAIN arena'.cells
  BY DEF LengthsLead
<1>1. CASE s \in DOMAIN arena.cells
  BY <1>1 DEF LengthsLead, Keeps
<1>2. CASE s \notin DOMAIN arena.cells
  BY <1>2
<1> QED BY <1>1, <1>2

\* No call separates a length from its elements.
LEMMA LengthsLeadKept ==
    ASSUME SchemaFits, CInv, LengthsLead, [ClientNext]_clientVars
    PROVE  LengthsLead'
<1>1. CASE Same
  BY <1>1 DEF Same, LengthsLead
<1>2. CASE Emptied
  <2>1. DOMAIN arena'.cells = {}
    BY <1>2 DEF Emptied, EmptyArena
  <2> QED BY <2>1 DEF LengthsLead
<1>3. CASE Built
  <2>1. PICK c \in Item, n \in Nat : BuiltOf(c, n)
    BY <1>3 DEF Built
  <2>2. Keeps(arena, arena') /\ Good(arena')
    BY <2>1 DEF BuiltOf, ItemBuilt, Grows, Continues
  <2>3. Off(arena') \in Nat
    BY <2>2, OffTyped
  <2> DEFINE r == Off(arena')
  <2>4. CASE Failed(arena')
    <3>1. arena'.cells = arena.cells
      BY <2>1, <2>4 DEF BuiltOf, ItemBuilt, Stuck
    <3> QED BY <2>2, <3>1, LeadKept
  <2>5. CASE ~Failed(arena')
    <3>1. /\ DOMAIN arena'.cells = DOMAIN arena.cells \cup {r}
                                       \cup (IF c.size > 0 THEN {r - 4} ELSE {})
          /\ arena'.cells[r] = LengthCell(n)
          /\ c.size > 0 => arena'.cells[r - 4] = c
          /\ n # 0 => c.size > 0
          /\ c.kind \in ItemKinds
      BY <2>1, <2>5 DEF BuiltOf, ItemBuilt, VectorOf
    <3> HIDE DEF r
    <3>2. LengthCell(n).val[1] = n
      BY DEF LengthCell, MkCell
    <3>3. ASSUME NEW s \in DOMAIN arena'.cells \ DOMAIN arena.cells,
                 arena'.cells[s].kind = "length", arena'.cells[s].val[1] # 0
          PROVE  s - 4 \in DOMAIN arena'.cells
      <4>1. s = r \/ (c.size > 0 /\ s = r - 4)
        BY <3>1
      <4>2. c.size > 0 /\ s = r - 4 => arena'.cells[s].kind # "length"
        BY <3>1 DEF ItemKinds
      <4>3. s = r
        BY <3>3, <4>1, <4>2
      <4> QED BY <3>1, <3>2, <3>3, <4>3
    <3> QED BY <2>2, <3>3, LeadKept
  <2> QED BY <2>4, <2>5
<1>4. CASE Started
  <2>1. arena'.cells = arena.cells
    BY <1>4, ReadyFine DEF Started, Fine, Good, ArenaTypeOK
  <2> QED BY <2>1 DEF LengthsLead
<1>5. CASE Added
  <2>1. PICK i \in DOMAIN vtable, c \in Item : AddedField(i, c)
    BY <1>5 DEF Added
  <2>2. Grows(arena, arena', ItemKinds)
    BY <2>1 DEF AddedField
  <2> QED BY <2>2, LeadKept DEF Grows, Continues, ItemKinds
<1>6. CASE Ended
  BY <1>6, LeadKept DEF Ended, Grows, Continues
<1>7. CASE RootPlaced
  BY <1>7, LeadKept DEF RootPlaced, Grows, Continues
<1> QED BY <1>1, <1>2, <1>3, <1>4, <1>5, <1>6, <1>7, ClientSteps

\* A new builder is an empty store.
LEMMA StoreStart == ClientInit => Store!Init
<1> SUFFICES ASSUME ClientInit PROVE Store!Init
  OBVIOUS
<1>1. PICK c \in Capacities : arena = EmptyArena(c)
  BY DEF ClientInit, InitWithCapacity
<1>2. open = <<>> /\ call = Called("new", Nothing, 0) /\ finished = FALSE
  BY DEF ClientInit, InitWithCapacity, InitBuilder
<1>3. DOMAIN arena.cells = {}
  BY <1>1 DEF EmptyArena
<1>4. Places(arena) = {}
  BY <1>3 DEF Places
<1>5. Items(arena) = Store!NoFields
  BY <1>4 DEF Items, Store!NoFields, Store!Nothing, Nothing, Content
<1>6. call \in Store!Calls("new")
  BY <1>2, IsCall
<1> QED BY <1>2, <1>5, <1>6 DEF Store!Init, DraftRead, RootRead, Store!NoDraft

\* Every step of the client is one of the store, or leaves the store alone.
LEMMA StoreSteps ==
    ASSUME SchemaFits, TablesFit, SInv, [ClientNext]_clientVars
    PROVE  [Store!Next]_<<call, Items(arena), DraftRead, RootRead>>
<1> DEFINE still == UNCHANGED <<call, Items(arena), DraftRead, RootRead>>
           done  == Store!Next \/ still
<1> SUFFICES done
  OBVIOUS
<1>1. Going => Ready
  BY DEF Going, Ready, SInv
<1>2. /\ Store!Fail \/ Store!Build => Store!Next
      /\ Store!Fail \/ Store!Set => Store!Next
      /\ Store!Fail \/ Store!Commit => Store!Next
      /\ Store!Fail \/ Store!Finish => Store!Next
      /\ Store!Begin => Store!Next
      /\ Store!Clear => Store!Next
  BY DEF Store!Next
<1>3. Same /\ UNCHANGED call => still
  BY DEF Same, DraftRead, RootRead
<1>4. CASE UNCHANGED clientVars
  BY <1>3, <1>4 DEF clientVars, vars, Same
<1>5. ASSUME NEW n \in Lengths, NewString(n) PROVE Store!Next
  <2> DEFINE c == MkCell(n + 1, 1, "string", <<>>)
  <2>1. Ready /\ Returns("build", IF n = 0 THEN Nothing ELSE Content("string", n + 1, <<>>),
                         Off(arena'))
    BY <1>1, <1>5 DEF NewString, NewItem
  <2>2. BuiltOf(c, n)
    BY <1>5, <2>1, NewStringStep
  <2>3. c.kind = "string" /\ c.size = n + 1 /\ c.val = <<>>
    BY DEF MkCell
  <2>4. Returns("build", IF n = 0 THEN Nothing ELSE Content(c.kind, c.size, c.val), Off(arena'))
    BY <2>1, <2>3
  <2> HIDE DEF c
  <2> QED BY <1>2, <2>2, <2>3, <2>4, StorePlain
<1>6. ASSUME NEW n \in Lengths, NewByteVector(n) PROVE Store!Next
  <2> DEFINE c == MkCell(n, 1, "bytes", <<>>)
  <2>1. Ready /\ Returns("build", IF n = 0 THEN Nothing ELSE Content("bytes", n, <<>>),
                         Off(arena'))
    BY <1>1, <1>6 DEF NewByteVector, NewItem
  <2>2. BuiltOf(c, n)
    BY <1>6, <2>1, NewByteVectorStep
  <2>3. c.kind = "bytes" /\ c.size = n /\ c.val = <<>>
    BY DEF MkCell
  <2>4. Returns("build", IF n = 0 THEN Nothing ELSE Content(c.kind, c.size, c.val), Off(arena'))
    BY <2>1, <2>3
  <2> HIDE DEF c
  <2> QED BY <1>2, <2>2, <2>3, <2>4, StorePlain
<1>7. ASSUME NEW n \in Lengths, NEW t \in VectorTypes, NEW elements \in [1..n -> Values],
             NewScalarVector(t, elements)
      PROVE  Store!Next
  <2> DEFINE m == Len(elements)
             c == MkCell(WidthOf[t] * m, WidthOf[t], "scalar", elements)
  <2>1. /\ Ready
        /\ Returns("build", IF m = 0 THEN Nothing
                            ELSE Content("scalar", WidthOf[t] * m, elements), Off(arena'))
    BY <1>1, <1>7 DEF NewScalarVector, NewItem
  <2>2. BuiltOf(c, m)
    BY <1>7, <2>1, NewScalarVectorStep
  <2> HIDE DEF m
  <2>3. c.kind = "scalar" /\ c.size = WidthOf[t] * m /\ c.val = elements
    BY DEF MkCell
  <2>4. Returns("build", IF m = 0 THEN Nothing ELSE Content(c.kind, c.size, c.val), Off(arena'))
    BY <2>1, <2>3
  <2> HIDE DEF c
  <2> QED BY <1>2, <2>2, <2>3, <2>4, StorePlain
<1>8. ASSUME NEW n \in Lengths, NEW s \in DOMAIN Structs, NewStructVector(s, n)
      PROVE  Store!Next
  <2> DEFINE c == MkCell(Structs[s].bytes * n, Structs[s].align, "struct", Zeros(n))
  <2>1. /\ Ready
        /\ Returns("build", IF n = 0 THEN Nothing
                            ELSE Content("struct", Structs[s].bytes * n, Zeros(n)), Off(arena'))
    BY <1>1, <1>8 DEF NewStructVector, NewItem
  <2>2. BuiltOf(c, n)
    BY <1>8, <2>1, NewStructVectorStep
  <2>3. c.kind = "struct" /\ c.size = Structs[s].bytes * n /\ c.val = Zeros(n)
    BY DEF MkCell
  <2>4. Returns("build", IF n = 0 THEN Nothing ELSE Content(c.kind, c.size, c.val), Off(arena'))
    BY <2>1, <2>3
  <2> HIDE DEF c
  <2> QED BY <1>2, <2>2, <2>3, <2>4, StorePlain
<1>9. ASSUME NEW n \in Lengths, NEW targets \in [1..n -> Places(arena)],
             NewOffsetVector(targets)
      PROVE  Store!Next
  <2>1. Ready
    BY <1>1, <1>9 DEF NewOffsetVector, NewItem
  <2> QED BY <1>2, <1>9, <2>1, StoreOffsets
<1>10. ASSUME NEW T \in Tables, StartTable(T) PROVE Store!Next
  <2>1. Ready /\ Returns("begin", Nothing, 0)
    BY <1>1, <1>10 DEF StartTable
  <2>2. Started
    BY <1>10, <2>1, StartTableStep
  <2>3. ~Failed(arena')
    BY <2>2, ReadyFine DEF Started, Ready, Fine, Good, ArenaTypeOK, Failed
  <2>4. call' = Called("begin", Nothing, 0)
    BY <2>1, <2>3 DEF Returns
  <2> QED BY <1>2, <2>2, <2>4, StoreBegins
<1>11. ASSUME NEW i \in DOMAIN open, NEW t \in ScalarTypes, NEW v \in Values,
              AddScalar(i, t, v)
       PROVE  Store!Next
  <2>1. /\ Ready /\ open # <<>> /\ vtable[i] = 0
        /\ Returns("set", Content("scalar", WidthOf[t], <<v>>), i)
    BY <1>1, <1>11 DEF AddScalar, Adding
  <2>2. (Same /\ v = Default) \/ AddedField(i, Scalar(WidthOf[t], v))
    BY <1>11, <2>1, AddScalarStep
  <2>3. CASE Same /\ v = Default
    <3>1. WidthOf[t] \in Nat \ {0}
      BY BuilderAssumption DEF WidthOf
    <3>2. i \in DOMAIN vtable
      <4>1. Len(vtable) = Len(open) /\ vtable \in Seq(Nat) /\ open \in Seq(FieldTypes)
        BY <2>1, ReadyFine, ClientAssumption DEF Ready, CInv, IInv, TypeOK, InStep
      <4> QED BY <4>1
    <3>3. call' = Called("set", Content("scalar", WidthOf[t], <<Default>>), i)
      BY <2>1, <2>3 DEF Returns, Same, Ready, Failed
    <3> QED BY <1>2, <2>1, <2>3, <3>1, <3>2, <3>3, StoreSkips
  <2>4. CASE AddedField(i, Scalar(WidthOf[t], v))
    <3> DEFINE c == Scalar(WidthOf[t], v)
    <3>1. c.kind = "scalar" /\ c.size = WidthOf[t] /\ c.val = <<v>>
      BY DEF Scalar, MkCell
    <3>2. Returns("set", Content(c.kind, c.size, c.val), i) /\ AddedField(i, c)
      BY <2>1, <2>4, <3>1
    <3> HIDE DEF c
    <3> QED BY <1>2, <3>1, <3>2, StoreField
  <2> QED BY <2>2, <2>3, <2>4
<1>12. ASSUME NEW i \in DOMAIN open, NEW target \in Places(arena), AddOffset(i, target)
       PROVE  Store!Next
  <2>1. Ready
    BY <1>1, <1>12 DEF AddOffset, Adding
  <2> QED BY <1>2, <1>12, <2>1, StoreReference
<1>13. ASSUME NEW i \in DOMAIN open, NEW s \in DOMAIN Structs, AddStruct(i, s)
       PROVE  Store!Next
  <2> DEFINE c == MkCell(Structs[s].bytes, Structs[s].align, "struct", <<0>>)
  <2>1. Ready /\ Returns("set", Content("struct", Structs[s].bytes, <<0>>), i)
    BY <1>1, <1>13 DEF AddStruct, Adding
  <2>2. AddedField(i, c)
    BY <1>13, <2>1, AddStructStep
  <2>3. c.kind = "struct" /\ c.size = Structs[s].bytes /\ c.val = <<0>>
    BY DEF MkCell
  <2>4. Returns("set", Content(c.kind, c.size, c.val), i)
    BY <2>1, <2>3
  <2> HIDE DEF c
  <2> QED BY <1>2, <2>2, <2>3, <2>4, StoreField
<1>14. CASE EndTable
  <2> DEFINE at == Off(PutSOffset(Fresh, 0))
  <2>1. Ready /\ Returns("commit", Nothing, at)
    BY <1>1, <1>14 DEF EndTable
  <2>2. Ended /\ (~Failed(arena') => at = ObjectPlace)
    BY <1>14, <2>1, EndTableStep
  <2> HIDE DEF at
  <2>3. CASE Failed(arena')
    BY <1>2, <2>1, <2>2, <2>3, StoreFails DEF Returns
  <2>4. CASE ~Failed(arena')
    <3>1. call' = Called("commit", Nothing, ObjectPlace)
      BY <2>1, <2>2, <2>4 DEF Returns
    <3> QED BY <1>2, <2>2, <2>4, <3>1, StoreCommits
  <2> QED BY <2>3, <2>4
<1>15. ASSUME NEW root \in Roots(arena), FinishBuffer(root) PROVE Store!Next
  <2>1. Ready /\ open = <<>> /\ UNCHANGED open /\ Returns("finish", Nothing, root)
    BY <1>1, <1>15 DEF FinishBuffer
  <2>2. root \in 0..Off(arena) /\ DOMAIN arena.cells # {}
    BY <2>1, PlaceWritten DEF Roots
  <2>3. Finish(root) \/ \E id \in Identifiers : FinishWithIdentifier(root, id)
    BY <1>15 DEF FinishBuffer
  <2>4. RootPlaced /\ LeadsTo(root)
    BY <2>1, <2>2, <2>3, FinishStep, FinishWithIdentifierStep
  <2>5. CASE Failed(arena')
    BY <1>2, <2>1, <2>4, <2>5, StoreFails DEF Returns
  <2>6. CASE ~Failed(arena')
    <3>1. call' = Called("finish", Nothing, root)
      BY <2>1, <2>6 DEF Returns
    <3> QED BY <1>2, <2>4, <2>6, <3>1, StoreFinishes
  <2> QED BY <2>5, <2>6
<1>16. CASE ClientGetData
  <2>1. finished /\ GetData /\ UNCHANGED open /\ UNCHANGED call
    BY <1>16 DEF ClientGetData
  <2>2. Fresh = arena
    <3>1. ~Failed(arena) /\ Good(arena)
      BY <2>1, IInvGood DEF SInv, CInv, InStep
    <3> QED BY <3>1 DEF Fresh, Failed, Good, ArenaTypeOK
  <2> QED BY <1>3, <2>1, <2>2 DEF GetData, OnlyArena, Same
<1>17. ASSUME NEW b \in BOOLEAN, ClientForceDefault(b) PROVE still
  <2>1. Ready /\ ForceDefault(b) /\ UNCHANGED open /\ UNCHANGED call
    BY <1>1, <1>17 DEF ClientForceDefault
  <2> QED BY <1>3, <2>1, ReadyFine DEF ForceDefault, Same
<1>18. CASE ClientReset
  <2>1. Emptied /\ call' = Called("new", Nothing, 0)
    BY <1>18 DEF ClientReset, Reset, Emptied
  <2> QED BY <1>2, <2>1, StoreClears
<1>19. ClientNext \/ UNCHANGED clientVars
  OBVIOUS
<1> HIDE DEF still
<1> QED BY <1>4, <1>5, <1>6, <1>7, <1>8, <1>9, <1>10, <1>11, <1>12, <1>13, <1>14,
           <1>15, <1>16, <1>17, <1>18, <1>19 DEF ClientNext

\* The Builder is what FlatStore promises: whatever is built, added, finished,
\* refused or reset, what a reader decodes from the bytes is what the client has
\* asked for, an item built once reads the same for as long as the buffer lives
\* (createString, createVector, putScalarField, endObject and finish in
\* FlatBufferBuilder.swift, driven as the generated code drives them).
THEOREM ClientImplementsFlatStore ==
    ASSUME SchemaFits, TablesFit
    PROVE  ClientSpec => ImplementsFlatStore
<1>1. ClientInit => TInv /\ LengthsLead
  <2> SUFFICES ASSUME ClientInit PROVE TInv /\ LengthsLead
    OBVIOUS
  <2>1. PICK c \in Capacities : arena = EmptyArena(c)
    BY DEF ClientInit, InitWithCapacity
  <2>2. DOMAIN arena.cells = {} /\ open = <<>>
    BY <2>1 DEF EmptyArena, ClientInit
  <2>3. Roots(arena) = {}
    BY <2>2, RootsTables
  <2> QED BY <2>2, <2>3 DEF TInv, TablesWellFormed, AllTables, LengthsLead
<1>2. ClientInit => SInv
  BY <1>1, ClientInitCInv DEF SInv
<1>3. SInv /\ [ClientNext]_clientVars => SInv'
  BY ClientNextCInv, ClientNextTInv, LengthsLeadKept DEF SInv
<1>4. SInv /\ [ClientNext]_clientVars
         => [Store!Next]_<<call, Items(arena), DraftRead, RootRead>>
  BY StoreSteps
<1> QED BY <1>2, <1>3, <1>4, StoreStart, PTL DEF ClientSpec, ImplementsFlatStore, Store!Spec

=============================================================================
