---------------------------- MODULE ArenaProofs ----------------------------
(***************************************************************************)
(* What the buffer operators of Arena return and preserve, for buffers and *)
(* arguments of any size.                                                  *)
(***************************************************************************)
EXTENDS Arena, TLAPS, FiniteSetTheorems

\* The invariant of the buffer, and one buffer continuing another.
Good(a) == ArenaTypeOK(a) /\ Apart(a) /\ LeadBack(a)

Continues(a, b) == Good(b) /\ Keeps(a, b) /\ Off(a) <= Off(b)

-----------------------------------------------------------------------------
(* Growth.                                                                 *)

\* A set of naturals that is not empty has a least element: of the finite
\* intervals below its members one contains no other.
LEMMA LeastNatural ==
    ASSUME NEW G, G \subseteq Nat, G # {}
    PROVE  \E g \in G : \A h \in G : g <= h
<1> DEFINE F == {0 .. (g - 1) : g \in G}
<1>1. F \subseteq FiniteSubsetsOf(Nat)
  <2>1. SUFFICES ASSUME NEW g \in G PROVE 0 .. (g - 1) \in FiniteSubsetsOf(Nat)
    OBVIOUS
  <2>2. IsFiniteSet(0 .. (g - 1))
    BY FS_Interval
  <2>3. 0 .. (g - 1) \subseteq Nat
    OBVIOUS
  <2> QED BY <2>2, <2>3 DEF FiniteSubsetsOf
<1>2. F # {}
  OBVIOUS
<1>3. IsWellFoundedOn(StrictSubsetOrdering(Nat), FiniteSubsetsOf(Nat))
  BY FS_StrictSubsetOrderingWellFounded
<1> HIDE DEF F
<1>4. PICK X \in F : \A Y \in F : <<Y, X>> \notin StrictSubsetOrdering(Nat)
  BY <1>1, <1>2, <1>3, WFMin
<1> USE DEF F
<1>5. PICK g \in G : X = 0 .. (g - 1)
  OBVIOUS
<1>6. ASSUME NEW h \in G, h < g PROVE FALSE
  <2>1. /\ 0 .. (h - 1) \subseteq 0 .. (g - 1)
        /\ h \in 0 .. (g - 1) /\ h \notin 0 .. (h - 1)
    BY <1>6
  <2>2. 0 .. (h - 1) # 0 .. (g - 1)
    BY <2>1
  <2>3. <<0 .. (h - 1), X>> \in StrictSubsetOrdering(Nat)
    BY <2>1, <2>2, <1>5 DEF StrictSubsetOrdering
  <2> QED BY <2>3, <1>4
<1> QED BY <1>6

\* The doubling loop of prepare stops, and where it says it does.
LEMMA GrownEnough ==
    ASSUME NEW c \in Nat, NEW top \in Int
    PROVE  /\ Grown(c, top) \in Nat /\ Grown(c, top) >= c
           /\ Enough(Grown(c, top), top)
<1> DEFINE Big == {g \in Ladder(c) : Enough(g, top)}
<1>1. Ladder(c) \subseteq Nat /\ \A g \in Ladder(c) : g >= c
  BY GrowAssumption DEF Ladder, Larger
<1>2. Big # {}
  <2>1. PICK d \in Doublings : d >= GrowLimit
    BY GrowAssumption
  <2>2. d * Larger(c, 1) \in Ladder(c) /\ d * Larger(c, 1) >= d
    BY GrowAssumption DEF Ladder, Larger
  <2>3. d * Larger(c, 1) >= GrowLimit
    BY <2>1, <2>2, <1>1, GrowAssumption
  <2> QED BY <2>2, <2>3 DEF Enough
<1>3. Big \subseteq Nat
  BY <1>1
<1>4. PICK g \in Big : \A h \in Big : g <= h
  BY <1>2, <1>3, LeastNatural
<1>5. \E x \in Ladder(c) : /\ Enough(x, top)
                           /\ \A h \in Ladder(c) : h < x => ~Enough(h, top)
  BY <1>1, <1>4
<1>6. Grown(c, top) \in Ladder(c) /\ Enough(Grown(c, top), top)
  BY <1>5 DEF Grown
<1> QED BY <1>1, <1>6

\* The padding is less than the alignment it is for.
LEMMA PadRange ==
    ASSUME NEW n \in Int, NEW size \in Nat \ {0}
    PROVE  PadFor(n, size) \in 0 .. (size - 1)
BY DEF PadFor

-----------------------------------------------------------------------------
(* The operators.                                                          *)

\* A sound buffer continues itself ...
LEMMA ContinuesSelf ==
    ASSUME NEW a, Good(a)
    PROVE  Continues(a, a)
BY DEF Continues, Good, ArenaTypeOK, Keeps, Off

\* ... and steps that continue it add up.
LEMMA ContinuesTrans ==
    ASSUME NEW a, NEW b, NEW c, Good(a), Continues(a, b), Continues(b, c)
    PROVE  Continues(a, c)
BY DEF Continues, Good, ArenaTypeOK, Keeps, Off

\* Throwing keeps the buffer as it is.
LEMMA ThrowContinues ==
    ASSUME NEW a, Good(a), NEW e \in Outcomes
    PROVE  Continues(a, Throw(a, e))
BY DEF Continues, Good, ArenaTypeOK, Apart, LeadBack, Keeps, Off, Throw

\* Clearing the front of data never reaches a written item, even though it
\* is not where the padding is.
LEMMA PaddingZeroContinues ==
    ASSUME NEW a, Good(a), NEW n \in Nat
    PROVE  /\ Continues(a, PaddingZero(a, n))
           /\ ~Failed(a) /\ n <= a.head => PaddingZero(a, n) = [a EXCEPT !.head = @ - n]
<1>1. CASE Failed(a)
  BY <1>1, ContinuesSelf DEF PaddingZero
<1>2. CASE ~Failed(a) /\ n > a.head
  BY <1>2, ThrowContinues DEF PaddingZero, Outcomes, Good, ArenaTypeOK
<1>3. CASE ~Failed(a) /\ n <= a.head
  <2>1. {s \in DOMAIN a.cells : a.count - s >= n} = DOMAIN a.cells
    BY <1>3 DEF Good, ArenaTypeOK, Apart, Off
  <2>2. PaddingZero(a, n) = [a EXCEPT !.head = @ - n]
    <3>1. FrontCleared(a, n) = a.cells
      BY <2>1 DEF FrontCleared, Good, ArenaTypeOK
    <3>2. ~(n > a.head)
      BY <1>3 DEF Good, ArenaTypeOK
    <3>3. PaddingZero(a, n) = [a EXCEPT !.head = @ - n, !.cells = a.cells]
      BY <1>3, <3>1, <3>2 DEF PaddingZero
    <3> QED BY <3>3 DEF Good, ArenaTypeOK
  <2>3. Continues(a, [a EXCEPT !.head = @ - n])
    BY <1>3 DEF Continues, Good, ArenaTypeOK, Apart, LeadBack, Keeps, Off
  <2> QED BY <2>2, <2>3
<1> QED BY <1>1, <1>2, <1>3 DEF Good, ArenaTypeOK

\* prepare keeps what is written and leaves more room than was asked for, or
\* says that it cannot.
LEMMA PrepareContinues ==
    ASSUME NEW a, Good(a), NEW size \in Nat \ {0}, NEW additional \in Nat
    PROVE  LET b == Prepare(a, size, additional) IN
           /\ Continues(a, b)
           /\ ~Failed(b) => /\ ~Failed(a)
                            /\ b.head > size + additional
                            /\ b.cells = a.cells
                            /\ Off(b) = Off(a) + PadFor(Off(a) + additional, size)
<1> DEFINE pad  == PadFor(Off(a) + additional, size)
           need == pad + size + additional
           g    == Grown(a.count, Off(a) + need)
           b    == [a EXCEPT !.minalign = Larger(@, size),
                             !.count = g, !.head = g - Off(a)]
<1>1. CASE Failed(a)
  BY <1>1, ContinuesSelf DEF Prepare
<1>2. CASE ~Failed(a)
  <2>1. pad \in Nat /\ need \in Nat /\ need >= pad
    <3>1. Off(a) + additional \in Int
      BY DEF Good, ArenaTypeOK, Off
    <3> HIDE DEF need
    <3>2. pad \in 0 .. (size - 1)
      BY <3>1, PadRange
    <3> HIDE DEF pad
    <3>3. pad \in Nat
      BY <3>2
    <3> QED BY <3>3 DEF need
  <2>2. g \in Nat /\ g >= a.count
    BY <2>1, GrownEnough DEF Good, ArenaTypeOK, Off
  <2> HIDE DEF pad, need, g
  <2>3. /\ b.count = g /\ b.head = g - Off(a) /\ b.cells = a.cells
        /\ b.thrown = a.thrown /\ Off(b) = Off(a)
        /\ b.minalign = Larger(a.minalign, size)
    BY <2>2 DEF Good, ArenaTypeOK, Off
  <2>4. Larger(a.minalign, size) \in Nat \ {0}
    BY DEF Larger, Good, ArenaTypeOK
  <2> HIDE DEF b
  <2>5. Good(b)
    <3>1. Off(a) \in Nat /\ g - Off(a) \in Nat /\ g - Off(a) <= g
      BY <2>2 DEF Good, ArenaTypeOK, Off
    <3>2. ArenaTypeOK(b)
      BY <2>2, <2>3, <2>4, <3>1 DEF Good, ArenaTypeOK, b
    <3>3. Apart(b)
      BY <2>3 DEF Good, Apart
    <3>4. LeadBack(b)
      BY <2>3 DEF Good, LeadBack
    <3> QED BY <3>2, <3>3, <3>4 DEF Good
  <2>6. Continues(a, b)
    BY <2>3, <2>5 DEF Continues, Keeps, Good, ArenaTypeOK, Off
  <2>7. CASE b.head > need
    <3>1. Prepare(a, size, additional) = PaddingZero(b, pad)
      BY <1>2, <2>7 DEF Prepare, b, g, need, pad
    <3>2. pad <= b.head
      BY <2>1, <2>5, <2>7 DEF Good, ArenaTypeOK
    <3>3. /\ Continues(b, PaddingZero(b, pad))
          /\ PaddingZero(b, pad) = [b EXCEPT !.head = @ - pad]
      BY <1>2, <2>1, <2>3, <2>5, <3>2, PaddingZeroContinues DEF Failed
    <3>4. Continues(a, PaddingZero(b, pad))
      BY <2>6, <3>3, ContinuesTrans
    <3>5. /\ PaddingZero(b, pad).head = b.head - pad
          /\ PaddingZero(b, pad).cells = b.cells
          /\ PaddingZero(b, pad).count = b.count
      BY <2>5, <3>3 DEF Good, ArenaTypeOK
    <3>6. b.head - pad > size + additional
      BY <2>1, <2>5, <2>7 DEF need, Good, ArenaTypeOK
    <3>7. Off(PaddingZero(b, pad)) = Off(a) + pad
      BY <2>1, <2>3, <2>5, <3>5 DEF Off, Good, ArenaTypeOK
    <3> QED BY <1>2, <2>3, <3>1, <3>4, <3>5, <3>6, <3>7 DEF pad
  <2>8. CASE ~(b.head > need)
    <3>1. Prepare(a, size, additional) = Throw(b, "capacity")
      BY <1>2, <2>8 DEF Prepare, b, g, need, pad
    <3>2. Continues(b, Throw(b, "capacity"))
      BY <2>5, ThrowContinues DEF Outcomes
    <3>3. Failed(Throw(b, "capacity"))
      BY <2>5 DEF Failed, Throw, Good, ArenaTypeOK
    <3> QED BY <2>6, <3>1, <3>2, <3>3, ContinuesTrans
  <2> QED BY <2>7, <2>8
<1> QED BY <1>1, <1>2

\* What may be written: an item, or nothing; a table offset in it that starts
\* at rear offset r leads back.
Item == [size : Nat, align : Nat \ {0}, kind : CellKinds, val : Seq(Int)]

LeadsBackFrom(c, r) ==
    c.kind = "uoffset" => \A k \in DOMAIN c.val : c.val[k] \in 4..(r - 4 * (k - 1))

\* Writing over no item but the one at the very same place keeps the others.
LEMMA OverwrittenGood ==
    ASSUME NEW a, Good(a), NEW c \in Item, c.size > 0, NEW r \in Nat,
           c.size <= r, r <= Off(a), LeadsBackFrom(c, r),
           \A s \in DOMAIN a.cells : s = r \/ ~Overlap(r, c.size, s, a.cells[s].size)
    PROVE  LET b == [a EXCEPT !.cells = Overwritten(@, r, c)] IN
           /\ Good(b)
           /\ \A s \in DOMAIN a.cells :
                 s # r => s \in DOMAIN b.cells /\ b.cells[s] = a.cells[s]
           /\ r \in DOMAIN b.cells /\ b.cells[r] = c
<1> DEFINE new == Overwritten(a.cells, r, c)
           b   == [a EXCEPT !.cells = new]
<1>1. DOMAIN new \subseteq DOMAIN a.cells \cup {r}
  BY DEF Overwritten
<1>2. r \in DOMAIN new /\ new[r] = c
  BY DEF Overwritten
<1>3. \A s \in DOMAIN a.cells : s # r => s \in DOMAIN new /\ new[s] = a.cells[s]
  BY DEF Overwritten
<1>4. c \in Cell
  BY DEF Item, Cell
<1>5. new \in [DOMAIN new -> Cell]
  <2>1. new = [s \in DOMAIN new |-> new[s]]
    BY DEF Overwritten
  <2>2. \A s \in DOMAIN new : new[s] \in Cell
    BY <1>1, <1>2, <1>3, <1>4 DEF Good, ArenaTypeOK
  <2> QED BY <2>1, <2>2
<1> HIDE DEF new
<1>6. /\ b.count = a.count /\ b.head = a.head /\ b.cells = new
      /\ b.minalign = a.minalign /\ b.thrown = a.thrown /\ Off(b) = Off(a)
  BY DEF Good, ArenaTypeOK, Off
<1>7. ArenaTypeOK(b)
  BY <1>1, <1>5, <1>6 DEF Good, ArenaTypeOK
<1>8. Apart(b)
  <2> SUFFICES ASSUME NEW s \in DOMAIN new
               PROVE  /\ new[s].size <= s /\ s <= Off(a)
                      /\ \A t \in DOMAIN new :
                            s # t => ~Overlap(s, new[s].size, t, new[t].size)
    BY <1>6 DEF Apart
  <2>1. new[s].size <= s /\ s <= Off(a)
    BY <1>1, <1>2, <1>3 DEF Good, Apart
  <2>2. ASSUME NEW t \in DOMAIN new, s # t
        PROVE  ~Overlap(s, new[s].size, t, new[t].size)
    <3>1. CASE s = r
      BY <1>1, <1>2, <1>3, <2>2, <3>1
    <3>2. CASE t = r
      <4>1. s \in DOMAIN a.cells /\ new[s] = a.cells[s]
        BY <1>1, <1>3, <2>2, <3>2
      <4>2. ~Overlap(r, c.size, s, a.cells[s].size)
        BY <4>1, <2>2, <3>2
      <4> QED BY <1>2, <3>2, <4>1, <4>2 DEF Overlap
    <3>3. CASE s # r /\ t # r
      BY <1>1, <1>3, <2>2, <3>3 DEF Good, Apart
    <3> QED BY <3>1, <3>2, <3>3
  <2> QED BY <2>1, <2>2
<1>9. LeadBack(b)
  BY <1>1, <1>2, <1>3, <1>6 DEF Good, LeadBack, LeadsBackFrom
<1> HIDE DEF b
<1>10. b = [a EXCEPT !.cells = Overwritten(@, r, c)]
  BY DEF b, new
<1> QED BY <1>2, <1>3, <1>6, <1>7, <1>8, <1>9, <1>10 DEF Good

\* Writing at a lowered head appends: nothing is covered.
LEMMA PushContinues ==
    ASSUME NEW a, Good(a), NEW c \in Item, LeadsBackFrom(c, Off(a) + c.size)
    PROVE  /\ Continues(a, Push(a, c))
           /\ ~Failed(Push(a, c)) => /\ ~Failed(a)
                                     /\ Off(Push(a, c)) = Off(a) + c.size
           /\ ~Failed(Push(a, c)) /\ c.size > 0 =>
                 /\ Off(a) + c.size \in DOMAIN Push(a, c).cells
                 /\ Push(a, c).cells[Off(a) + c.size] = c
<1>1. CASE Failed(a) \/ c.size = 0
  <2>1. Push(a, c) = a
    BY <1>1 DEF Push
  <2> QED BY <1>1, <2>1, ContinuesSelf DEF Good, ArenaTypeOK, Off, Item
<1>2. CASE ~Failed(a) /\ c.size # 0 /\ c.size > a.head
  <2>1. Push(a, c) = Throw(a, "trap")
    BY <1>2 DEF Push
  <2>2. Failed(Throw(a, "trap"))
    BY DEF Failed, Throw, Good, ArenaTypeOK
  <2> QED BY <2>1, <2>2, ThrowContinues DEF Outcomes
<1>3. CASE ~Failed(a) /\ c.size # 0 /\ ~(c.size > a.head)
  <2> DEFINE b == [a EXCEPT !.head = @ - c.size]
             at == a.head - c.size
             r == Off(a) + c.size
             d == [b EXCEPT !.cells = Overwritten(@, r, c)]
  <2>1. c.size \in Nat /\ c.size > 0 /\ at \in Nat /\ c.size <= a.head
    BY <1>3 DEF Good, ArenaTypeOK, Item
  <2>2. /\ b.count = a.count /\ b.head = at /\ b.cells = a.cells
        /\ b.minalign = a.minalign /\ b.thrown = a.thrown /\ Off(b) = r
        /\ ~Failed(b) /\ r \in Nat /\ c.size <= r
    BY <1>3, <2>1 DEF Good, ArenaTypeOK, Off, Failed
  <2>3. Good(b)
    BY <2>1, <2>2 DEF Good, ArenaTypeOK, Apart, LeadBack, Off
  <2> HIDE DEF b
  <2>4. Push(a, c) = Write(b, at, c)
    BY <1>3 DEF Push, b
  <2>5. ~(at + c.size > b.count) /\ b.count - at = r
    BY <2>1, <2>2 DEF Good, ArenaTypeOK, Off
  <2>6. Write(b, at, c) = d
    BY <2>2, <2>5 DEF Write
  <2>7. \A s \in DOMAIN b.cells : ~Overlap(r, c.size, s, b.cells[s].size)
    BY <2>1, <2>2 DEF Good, ArenaTypeOK, Apart, Off, Overlap
  <2>8. r <= Off(b) /\ LeadsBackFrom(c, r)
    BY <2>2
  <2> HIDE DEF r, at
  <2>9. /\ Good(d) /\ r \in DOMAIN d.cells /\ d.cells[r] = c
        /\ \A s \in DOMAIN b.cells : s # r => s \in DOMAIN d.cells /\ d.cells[s] = b.cells[s]
    BY <2>1, <2>2, <2>3, <2>7, <2>8, OverwrittenGood
  <2>10. d.count = b.count /\ d.head = b.head /\ d.thrown = b.thrown
    BY <2>3 DEF Good, ArenaTypeOK
  <2> HIDE DEF d
  <2>11. Off(d) = r
    BY <2>2, <2>10 DEF Off
  <2>12. r \notin DOMAIN a.cells
    BY <2>1, <2>2 DEF Good, ArenaTypeOK, Apart, Off, r
  <2>13. Continues(a, d)
    BY <2>1, <2>2, <2>9, <2>11, <2>12 DEF Continues, Keeps, Good, ArenaTypeOK, Off, r
  <2> QED BY <1>3, <2>4, <2>6, <2>9, <2>11, <2>13 DEF r
<1> QED BY <1>1, <1>2, <1>3

\* A table offset, for any target a client passes.
LEMMA PutUOffsetContinues ==
    ASSUME NEW a, Good(a), NEW target \in Nat
    PROVE  Continues(a, PutUOffset(a, target))
<1> DEFINE b == Prepare(a, 4, 0)
           item == MkCell(4, 4, "uoffset", <<Off(b) - target + 4>>)
<1>1. Continues(a, b)
  BY PrepareContinues
<1>2. Good(b) /\ Off(b) \in Nat
  BY <1>1 DEF Continues, Good, ArenaTypeOK, Off
<1>3. CASE Failed(b)
  BY <1>1, <1>3 DEF PutUOffset
<1>4. CASE ~Failed(b) /\ target > Off(b)
  <2>1. PutUOffset(a, target) = Throw(b, "UnreachableOffset")
    BY <1>4 DEF PutUOffset
  <2>2. Continues(b, Throw(b, "UnreachableOffset"))
    BY <1>2, ThrowContinues DEF Outcomes
  <2> QED BY <1>1, <2>1, <2>2, ContinuesTrans
<1>5. CASE ~Failed(b) /\ ~(target > Off(b))
  <2>1. PutUOffset(a, target) = Push(b, item)
    BY <1>5 DEF PutUOffset
  <2> HIDE DEF b
  <2>2. item \in Item /\ item.size = 4 /\ item.kind = "uoffset" /\ item.val = <<Off(b) - target + 4>>
    BY <1>2 DEF Item, MkCell, CellKinds
  <2> HIDE DEF item
  <2>3. LeadsBackFrom(item, Off(b) + item.size)
    <3>1. DOMAIN item.val = {1} /\ item.val[1] = Off(b) - target + 4
      BY <2>2
    <3>2. \A k \in DOMAIN item.val : item.val[k] \in 4 .. (Off(b) + item.size - 4 * (k - 1))
      BY <1>2, <1>5, <2>2, <3>1
    <3> QED BY <1>2, <2>2, <3>1, <3>2 DEF LeadsBackFrom
  <2>4. Continues(b, Push(b, item))
    BY <1>2, <2>2, <2>3, PushContinues
  <2> QED BY <1>1, <2>1, <2>4, ContinuesTrans
<1> QED BY <1>3, <1>4, <1>5

\* A signed table offset, for any target: where it succeeds it is the last item.
LEMMA PutSOffsetContinues ==
    ASSUME NEW a, Good(a), NEW target \in Int
    PROVE  LET b == PutSOffset(a, target) IN
           /\ Continues(a, b)
           /\ ~Failed(b) => /\ Off(b) >= Off(a) + 4
                            /\ Off(b) \in DOMAIN b.cells
                            /\ b.cells[Off(b)].size = 4
                            /\ b.cells[Off(b)].kind = "soffset"
<1> DEFINE b == Prepare(a, 4, 0)
           c == MkCell(4, 4, "soffset", <<Off(b) - target + 4>>)
<1>1. Continues(a, b)
  BY PrepareContinues
<1>2. Good(b) /\ Off(b) \in Nat /\ Off(b) >= Off(a) /\ Off(a) \in Nat
  BY <1>1 DEF Continues, Good, ArenaTypeOK, Off
<1>3. CASE Failed(b)
  BY <1>1, <1>3 DEF PutSOffset
<1>4. CASE ~Failed(b) /\ target < 0
  <2>1. PutSOffset(a, target) = Throw(b, "trap")
    BY <1>4 DEF PutSOffset
  <2>2. Continues(b, Throw(b, "trap")) /\ Failed(Throw(b, "trap"))
    BY <1>2, ThrowContinues DEF Outcomes, Failed, Throw, Good, ArenaTypeOK
  <2> QED BY <1>1, <2>1, <2>2, ContinuesTrans
<1>5. CASE ~Failed(b) /\ ~(target < 0) /\ target > Off(b)
  <2>1. PutSOffset(a, target) = Throw(b, "UnreachableOffset")
    BY <1>5 DEF PutSOffset
  <2>2. /\ Continues(b, Throw(b, "UnreachableOffset"))
        /\ Failed(Throw(b, "UnreachableOffset"))
    BY <1>2, ThrowContinues DEF Outcomes, Failed, Throw, Good, ArenaTypeOK
  <2> QED BY <1>1, <2>1, <2>2, ContinuesTrans
<1>6. CASE ~Failed(b) /\ ~(target < 0) /\ ~(target > Off(b))
  <2>1. PutSOffset(a, target) = Push(b, c)
    BY <1>6 DEF PutSOffset
  <2> HIDE DEF b
  <2>2. c \in Item /\ c.size = 4 /\ c.kind = "soffset"
    BY <1>2 DEF Item, MkCell, CellKinds
  <2>3. LeadsBackFrom(c, Off(b) + c.size)
    BY <2>2 DEF LeadsBackFrom
  <2> HIDE DEF c
  <2>4. /\ Continues(b, Push(b, c))
        /\ ~Failed(Push(b, c)) => /\ Off(Push(b, c)) = Off(b) + 4
                                  /\ Off(b) + 4 \in DOMAIN Push(b, c).cells
                                  /\ Push(b, c).cells[Off(b) + 4] = c
    BY <1>2, <2>2, <2>3, PushContinues
  <2>5. Continues(a, Push(b, c))
    BY <1>1, <2>4, ContinuesTrans
  <2> QED BY <1>2, <2>1, <2>2, <2>4, <2>5
<1> QED BY <1>3, <1>4, <1>5, <1>6

\* An item put in pieces: all of it, or the pieces that still fit.  All of it is
\* one item in front of everything else.
LEMMA PutSomeRunContinues ==
    ASSUME NEW a, Good(a), NEW unit \in {1, 2}, NEW c \in Item, c.kind # "uoffset",
           c.size >= unit
    PROVE  LET p == PutRun(a, unit, c) IN
           /\ Continues(a, p)
           /\ ~Failed(p) => Off(p) \in DOMAIN p.cells /\ p.cells[Off(p)] = c
<1> DEFINE b    == Prepare(a, unit, c.size - unit)
           m    == Larger(b.head - 1, 0) \div unit
           open == Throw(b, "ok")
           part == MkCell(unit * m, unit, "partial", <<>>)
<1>1. c.size \in Nat /\ c.size # 0 /\ c.size > 0 /\ c.size - unit \in Nat
      /\ unit \in Nat \ {0}
  BY DEF Item
<1>2. Continues(a, b)
  BY <1>1, PrepareContinues
<1>3. Good(b) /\ b.head \in Nat /\ b.thrown \in Outcomes
  BY <1>2 DEF Continues, Good, ArenaTypeOK
<1>4. LeadsBackFrom(c, Off(b) + c.size)
  BY DEF LeadsBackFrom
<1>5. part \in Item /\ LeadsBackFrom(part, Off(open) + part.size)
  <2>1. Larger(b.head - 1, 0) \in Nat
    BY <1>3 DEF Larger
  <2>2. unit * m \in Nat
    <3> DEFINE k == Larger(b.head - 1, 0)
    <3> HIDE DEF k
    <3>1. CASE unit = 1
      BY <2>1, <3>1 DEF k
    <3>2. CASE unit = 2
      BY <2>1, <3>2 DEF k
    <3> QED BY <3>1, <3>2
  <2> HIDE DEF m
  <2> QED BY <1>1, <2>2 DEF Item, MkCell, CellKinds, LeadsBackFrom
<1> HIDE DEF b, m, part, open
<1>6. CASE Failed(a)
  BY <1>6, ContinuesSelf DEF PutRun
<1>7. CASE ~Failed(a) /\ Failed(b)
  <2>1. PutRun(a, unit, c) = Throw(Push(open, part), b.thrown)
    BY <1>1, <1>7 DEF PutRun, b, m, part, open
  <2>2. Continues(b, open)
    BY <1>3, ThrowContinues DEF Outcomes, open
  <2>3. Continues(open, Push(open, part))
    BY <1>5, <2>2, PushContinues DEF Continues
  <2>4. Continues(Push(open, part), Throw(Push(open, part), b.thrown))
    BY <1>3, <2>3, ThrowContinues DEF Continues
  <2>5. Continues(b, Throw(Push(open, part), b.thrown))
    BY <1>3, <2>2, <2>3, <2>4, ContinuesTrans DEF Continues
  <2>6. Failed(Throw(Push(open, part), b.thrown))
    BY <1>7, <2>3 DEF Failed, Throw, Continues, Good, ArenaTypeOK
  <2> QED BY <1>2, <2>1, <2>5, <2>6, ContinuesTrans
<1>8. CASE ~Failed(a) /\ ~Failed(b)
  <2>1. PutRun(a, unit, c) = Push(b, c)
    BY <1>1, <1>8 DEF PutRun, b
  <2>2. /\ Continues(b, Push(b, c))
        /\ ~Failed(Push(b, c)) =>
              /\ Off(Push(b, c)) \in DOMAIN Push(b, c).cells
              /\ Push(b, c).cells[Off(Push(b, c))] = c
    BY <1>1, <1>3, <1>4, PushContinues
  <2> QED BY <1>2, <2>1, <2>2, ContinuesTrans
<1> QED BY <1>6, <1>7, <1>8

\* The shorts of a vtable.
LEMMA PutSomeShortsContinues ==
    ASSUME NEW a, Good(a), NEW shorts \in Seq(Int), shorts # <<>>
    PROVE  LET p == PutShorts(a, shorts) IN
           /\ Continues(a, p)
           /\ ~Failed(p) => Off(p) \in DOMAIN p.cells /\ p.cells[Off(p)].kind = "vtable"
<1> DEFINE c == MkCell(2 * Len(shorts), 2, "vtable", shorts)
<1>1. Len(shorts) \in Nat /\ Len(shorts) >= 1
  OBVIOUS
<1>2. c \in Item /\ c.kind = "vtable" /\ c.size >= 2
  BY <1>1 DEF Item, MkCell, CellKinds
<1>3. PutShorts(a, shorts) = PutRun(a, 2, c)
  BY DEF PutShorts
<1> HIDE DEF c
<1> QED BY <1>2, <1>3, PutSomeRunContinues

\* A run may have no pieces: an object without fields has only the two shorts in
\* front.
LEMMA PutShortsContinues ==
    ASSUME NEW a, Good(a), NEW shorts \in Seq(Int)
    PROVE  Continues(a, PutShorts(a, shorts))
<1>1. CASE shorts = <<>>
  <2>1. PutShorts(a, shorts) = a
    BY <1>1 DEF PutShorts, PutRun, MkCell
  <2> QED BY <2>1, ContinuesSelf
<1>2. CASE shorts # <<>>
  BY <1>2, PutSomeShortsContinues
<1> QED BY <1>1, <1>2

=============================================================================
