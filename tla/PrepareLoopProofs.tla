-------------------------- MODULE PrepareLoopProofs --------------------------
(***************************************************************************)
(* The loop of prepare is the step Arena!Prepare takes, for every limit,   *)
(* capacity and size: it passes through the sizes of Ladder one by one and *)
(* stops at the first that is Enough.                                      *)
(***************************************************************************)
EXTENDS PrepareLoop, ArenaProofs

-----------------------------------------------------------------------------
(* The sizes data passes through.                                          *)

\* A multiple of a larger number is larger.
LEMMA TimesMonotone ==
    ASSUME NEW d \in Nat, NEW e \in Nat, NEW m \in Nat \ {0}
    PROVE  /\ d <= e => d * m <= e * m
           /\ e * m < d * m => e < d
           /\ d <= d * m
OBVIOUS

\* Doubling a size below the limit leads to the next size of the ladder.
LEMMA NextRung ==
    ASSUME NEW c \in Nat, NEW g \in Ladder(c), g < GrowLimit
    PROVE  /\ g + GrowSize(g) \in Ladder(c)
           /\ g + GrowSize(g) > g
           /\ \A h \in Ladder(c) : h < g + GrowSize(g) => h <= g
<1>1. Doublings \subseteq Nat \ {0} /\ 1 \in Doublings /\ GrowLimit \in Nat \ {0}
  BY GrowAssumption
<1> DEFINE m == Larger(c, 1)
<1>2. m \in Nat \ {0} /\ c <= m
  BY DEF Larger
<1>3. CASE g = 0
  <2>1. c = 0
    <3>1. ASSUME NEW d \in Doublings, g = d * m PROVE FALSE
      BY <1>1, <1>2, <1>3, <3>1, TimesMonotone
    <3> QED BY <1>3, <3>1 DEF Ladder
  <2>2. m = 1
    BY <2>1 DEF Larger
  <2>3. Ladder(c) = {0} \cup Doublings
    <3>1. \A d \in Doublings : d * Larger(c, 1) = d
      BY <1>1, <2>2
    <3>2. {d * Larger(c, 1) : d \in Doublings} = Doublings
      BY <3>1
    <3> QED BY <2>1, <3>2 DEF Ladder
  <2>4. g + GrowSize(g) = 1
    BY <1>3 DEF GrowSize
  <2>5. \A h \in {0} \cup Doublings : h < 1 => h <= g
    BY <1>1, <1>3
  <2> QED BY <1>1, <1>3, <2>3, <2>4, <2>5
<1>4. CASE g # 0
  <2> HIDE DEF m
  <2>1. PICK d \in Doublings : g = d * m
    <3>1. CASE g = c
      <4>1. c = 1 * m
        BY <1>4, <3>1, <1>2 DEF m, Larger
      <4> QED BY <1>1, <3>1, <4>1
    <3> QED BY <3>1 DEF Ladder, m
  <2>2. d \in Nat /\ d <= g /\ g \in Nat
    BY <1>1, <1>2, <2>1, TimesMonotone
  <2>3. d < GrowLimit
    BY <1>1, <2>2
  <2>4. 2 * d \in Doublings
    BY <2>3, DoublingsAssumption
  <2>5. g + GrowSize(g) = 2 * g /\ 2 * g = (2 * d) * m
    BY <1>2, <1>4, <2>1, <2>2 DEF GrowSize
  <2>6. (2 * d) * m \in Ladder(c)
    BY <2>4 DEF Ladder, m
  <2>7. 2 * g > g
    BY <1>4, <2>2
  <2>8. c <= g
    <3>1. 1 * m <= d * m
      BY <1>1, <1>2, <2>2, TimesMonotone
    <3> QED BY <1>2, <2>1, <3>1, <2>2
  <2>9. ASSUME NEW e \in Doublings, e * m < 2 * g PROVE e * m <= g
    <3>1. e \in Nat /\ 2 * d \in Nat
      BY <1>1, <2>2
    <3>2. e < 2 * d
      BY <1>2, <2>5, <2>9, <3>1, TimesMonotone
    <3>3. ~(d < e)
      BY <2>2, <3>1, <3>2, DoublingsAssumption
    <3>4. e <= d
      BY <2>2, <3>1, <3>3
    <3> QED BY <1>2, <2>1, <2>2, <3>1, <3>4, TimesMonotone
  <2>10. \A h \in Ladder(c) : h < 2 * g => h <= g
    BY <2>8, <2>9 DEF Ladder, m
  <2> QED BY <2>5, <2>6, <2>7, <2>10
<1> QED BY <1>3, <1>4

\* The size the loop stops at is the first of the ladder that is enough.
LEMMA GrownIsFirst ==
    ASSUME NEW c \in Nat, NEW top \in Int, NEW g \in Ladder(c), Enough(g, top),
           \A h \in Ladder(c) : h < g => ~Enough(h, top)
    PROVE  Grown(c, top) = g
<1>1. Ladder(c) \subseteq Nat
  BY GrowAssumption DEF Ladder, Larger
<1> DEFINE First(x) == Enough(x, top) /\ \A h \in Ladder(c) : h < x => ~Enough(h, top)
<1>2. First(g)
  OBVIOUS
<1>3. \A x \in Ladder(c) : First(x) => x = g
  BY <1>1, <1>2
<1> QED BY <1>2, <1>3 DEF Grown

\* What data.count & 0xC0000000 tells of a count that UOffsetT holds.
LEMMA LimitTest ==
    ASSUME NEW count \in Nat, count < 4 * GrowLimit
    PROVE  AtLimit(count) <=> count >= GrowLimit
<1>1. GrowLimit \in Nat \ {0}
  BY GrowAssumption
<1> DEFINE q == count \div GrowLimit
<1>2. q \in Nat /\ GrowLimit * q <= count /\ count < GrowLimit * q + GrowLimit
  BY <1>1
<1> HIDE DEF q
<1>3. q < 4
  BY <1>1, <1>2
<1>4. q # 0 <=> count >= GrowLimit
  BY <1>1, <1>2
<1>5. q % 4 = q
  BY <1>2, <1>3
<1> QED BY <1>4, <1>5 DEF AtLimit, q

-----------------------------------------------------------------------------
(* The invariant: inside of the loop data has a size of the ladder that no *)
(* smaller one would have done for, and is otherwise what it was.          *)

Raised(a, size) == [Cleared(a) EXCEPT !.minalign = Larger(@, size)]

Moved(a, count) == [a EXCEPT !.count = count, !.head = count - Off(a)]

OnTheWay ==
    /\ ~Failed(arena)
    /\ pad = PadFor(Off(entered) + call.additional, call.size)
    /\ need = pad + call.size + call.additional
    /\ arena = Moved(Raised(entered, call.size), arena.count)
    /\ arena.count \in Ladder(entered.count)
    /\ \A h \in Ladder(entered.count) :
          h < arena.count => ~Enough(h, Off(entered) + need)

PrepareInv ==
    /\ PrepareTypeOK
    /\ Good(arena) /\ Good(entered)
    /\ RoomIsThere
    /\ pc = "caller" => entered = arena
    /\ pc = "loop"   => OnTheWay

\* A call of prepare raises minalign and forgets the last error, no more.
LEMMA RaisedFields ==
    ASSUME NEW a, Good(a), NEW size \in Nat \ {0}
    PROVE  LET r == Raised(a, size)
           IN  /\ r \in [count : Nat, head : Nat, minalign : Nat \ {0},
                         cells : {a.cells}, thrown : Outcomes]
               /\ r.count = a.count /\ r.head = a.head
               /\ r.cells = a.cells /\ r.thrown = "ok"
               /\ r.minalign = Larger(a.minalign, size)
<1>1. a \in [count : Nat, head : Nat, minalign : Nat \ {0},
             cells : {a.cells}, thrown : Outcomes]
  BY DEF Good, ArenaTypeOK
<1>2. Larger(a.minalign, size) \in Nat \ {0}
  BY <1>1 DEF Larger
<1>3. Raised(a, size) = [a EXCEPT !.thrown = "ok", !.minalign = Larger(a.minalign, size)]
  BY <1>1 DEF Raised, Cleared
<1> QED BY <1>1, <1>2, <1>3 DEF Outcomes

\* Data that has moved to a larger size is sound and holds what it held.
LEMMA CallSound ==
    ASSUME NEW a, Good(a), NEW size \in Nat \ {0}, NEW count \in Nat, count >= a.count
    PROVE  LET b == Moved(Raised(a, size), count)
           IN  /\ Good(b) /\ Keeps(a, b)
               /\ Off(b) = Off(a) /\ ~Failed(b) /\ b.count = count
               /\ b.head = count - Off(a) /\ b.cells = a.cells
<1> DEFINE b == Moved(Raised(a, size), count)
<1>1. /\ a \in [count : Nat, head : Nat, minalign : Nat \ {0},
                 cells : {a.cells}, thrown : Outcomes]
      /\ a.head <= a.count
  BY DEF Good, ArenaTypeOK
<1>3. /\ b \in [count : Nat, head : Nat, minalign : Nat \ {0},
                 cells : {a.cells}, thrown : Outcomes]
      /\ b.count = count /\ b.head = count - Off(a)
      /\ b.cells = a.cells /\ b.thrown = "ok"
  <2> DEFINE r == Raised(a, size)
  <2>1. /\ r \in [count : Nat, head : Nat, minalign : Nat \ {0},
                   cells : {a.cells}, thrown : Outcomes]
        /\ r.count = a.count /\ r.head = a.head
        /\ r.cells = a.cells /\ r.thrown = "ok"
    BY RaisedFields
  <2> HIDE DEF r
  <2>2. Off(r) = Off(a) /\ count - Off(a) \in Nat
    BY <1>1, <2>1 DEF Off
  <2>3. b = [r EXCEPT !.count = count, !.head = count - Off(r)]
    BY DEF Moved, r
  <2> QED BY <2>1, <2>2, <2>3
<1> HIDE DEF b
<1>4. Off(b) = Off(a)
  BY <1>1, <1>3 DEF Off
<1>5. Good(b)
  BY <1>1, <1>3, <1>4 DEF Good, ArenaTypeOK, Apart, LeadBack, Off
<1>6. Keeps(a, b)
  BY <1>3 DEF Keeps
<1> QED BY <1>3, <1>4, <1>5, <1>6 DEF Failed, b

LEMMA PrepareInit == Init => PrepareInv
<1> SUFFICES ASSUME Init PROVE PrepareInv
  OBVIOUS
<1>1. PICK capacity \in Capacities : arena = EmptyArena(capacity)
  BY DEF Init
<1>2. capacity \in Nat /\ capacity < 4 * GrowLimit
  BY PrepareAssumption, GrowAssumption
<1>3. Good(arena)
  BY <1>1, <1>2 DEF EmptyArena, Good, ArenaTypeOK, Apart, LeadBack, Off, Outcomes
<1>4. arena.count = capacity /\ arena.head = capacity
  BY <1>1 DEF EmptyArena
<1> QED BY <1>2, <1>3, <1>4 DEF Init, PrepareInv, PrepareTypeOK, RoomIsThere, Good

-----------------------------------------------------------------------------
(* The steps.                                                              *)

\* Calling prepare: the loop starts at the size data has.
LEMMA CallKeeps ==
    ASSUME PrepareInv, NEW size \in Sizes, NEW additional \in Additionals,
           Call(size, additional)
    PROVE  PrepareInv' /\ Keeps(arena, arena') /\ entered' = entered
<1>1. size \in Nat \ {0} /\ additional \in Nat
  BY PrepareAssumption
<1>2. /\ pc = "caller" /\ pc' = "loop" /\ entered = arena /\ entered' = arena
      /\ call' = [size |-> size, additional |-> additional]
      /\ pad' = PadFor(Off(arena) + additional, size)
      /\ need' = pad' + size + additional
      /\ room' = size + additional
      /\ arena' = Raised(arena, size)
  BY DEF Call, PrepareInv, NeedOf, Raised
<1>3. Good(arena) /\ arena.count \in Nat /\ arena.count < 4 * GrowLimit
  BY DEF PrepareInv, PrepareTypeOK, Good, ArenaTypeOK
<1>4. Raised(arena, size) = Moved(Raised(arena, size), arena.count)
  <2> DEFINE r == Raised(arena, size)
  <2>1. /\ r \in [count : Nat, head : Nat, minalign : Nat \ {0},
                   cells : {arena.cells}, thrown : Outcomes]
        /\ r.count = arena.count
    BY <1>1, <1>3, RaisedFields
  <2> HIDE DEF r
  <2>2. Off(r) = r.count - r.head
    BY DEF Off
  <2>3. r = [r EXCEPT !.count = r.count, !.head = r.count - (r.count - r.head)]
    <3>1. r.count - (r.count - r.head) = r.head
      BY <2>1
    <3>2. r = [r EXCEPT !.count = r.count, !.head = r.head]
      BY <2>1
    <3> QED BY <3>1, <3>2
  <2>4. Moved(r, r.count) = r
    BY <2>2, <2>3 DEF Moved
  <2> QED BY <2>1, <2>4 DEF r
<1>5. /\ Good(arena') /\ Keeps(arena, arena') /\ ~Failed(arena')
      /\ arena'.count = arena.count
  BY <1>1, <1>2, <1>3, <1>4, CallSound
<1>6. pad' \in 0 .. (size - 1)
  BY <1>1, <1>2, <1>3, PadRange DEF Good, ArenaTypeOK, Off
<1>7. pad' \in Nat /\ need' \in Nat /\ room' \in Nat /\ pad' + room' <= need'
  BY <1>1, <1>2, <1>6
<1>8. arena.count \in Ladder(arena.count) /\ Ladder(arena.count) \subseteq Nat
  BY <1>3, GrowAssumption DEF Ladder, Larger
<1>9. \A h \in Ladder(arena.count) : ~(h < arena.count)
  BY <1>3, GrowAssumption DEF Ladder, Larger
<1>10. OnTheWay'
  BY <1>2, <1>4, <1>5, <1>8, <1>9 DEF OnTheWay
<1>11. PrepareTypeOK'
  BY <1>1, <1>2, <1>3, <1>5, <1>7 DEF PrepareTypeOK, Good
<1> QED BY <1>2, <1>3, <1>5, <1>10, <1>11 DEF PrepareInv, RoomIsThere

\* Doubling: data moves to the next size of the ladder.
LEMMA DoubleKeeps ==
    ASSUME PrepareInv, Double
    PROVE  PrepareInv' /\ Keeps(arena, arena') /\ entered' = entered
<1>1. /\ pc = "loop" /\ pc' = "loop" /\ arena.head <= need
      /\ UNCHANGED <<call, pad, need, room, entered>>
      /\ arena' = Doubled(arena) /\ OnTheWay
      /\ Good(entered) /\ Good(arena)
  BY DEF Double, PrepareInv
<1>2. /\ call.size \in Nat \ {0} /\ need \in Nat
      /\ arena.count \in Nat /\ arena.count < 4 * GrowLimit
      /\ entered.count \in Nat /\ entered.head \in Nat /\ entered.head <= entered.count
  BY DEF PrepareInv, PrepareTypeOK, ArenaTypeOK
<1>3. arena.count < GrowLimit
  BY <1>2, LimitTest, GrowAssumption DEF Double
<1> DEFINE c == entered.count
           next == arena.count + GrowSize(arena.count)
           top == Off(entered) + need
<1>4. arena.count \in Ladder(c)
  BY <1>1 DEF OnTheWay
<1>5. /\ next \in Ladder(c) /\ next > arena.count
      /\ \A h \in Ladder(c) : h < next => h <= arena.count
  BY <1>2, <1>3, <1>4, NextRung
<1>6. next \in Nat /\ next < 4 * GrowLimit /\ Ladder(c) \subseteq Nat
      /\ \A h \in Ladder(c) : h >= c
  BY <1>2, <1>3, GrowAssumption DEF GrowSize, Ladder, Larger
<1>7. arena = Moved(Raised(entered, call.size), arena.count)
  BY <1>1 DEF OnTheWay
<1>8. arena.count >= c
  BY <1>4, <1>6
<1>9. arena.head = arena.count - Off(entered) /\ arena.cells = entered.cells
  BY <1>1, <1>2, <1>7, <1>8, CallSound
<1> HIDE DEF next
<1>10. arena' = Moved(Raised(entered, call.size), next)
  <2> DEFINE r == Raised(entered, call.size)
  <2>1. /\ r \in [count : Nat, head : Nat, minalign : Nat \ {0},
                   cells : {entered.cells}, thrown : Outcomes]
        /\ r.count = c /\ r.head = entered.head
    BY <1>1, <1>2, RaisedFields
  <2> HIDE DEF r
  <2>2. Off(r) = Off(entered) /\ Off(entered) \in Nat
    BY <1>2, <2>1 DEF Off
  <2>3. arena = [r EXCEPT !.count = arena.count, !.head = arena.count - Off(r)]
    BY <1>7 DEF Moved, r
  <2>4. arena' = [arena EXCEPT !.count = next, !.head = arena.head + GrowSize(arena.count)]
    BY <1>1 DEF Doubled, next
  <2>5. arena.head + GrowSize(arena.count) = next - Off(r)
    BY <1>2, <1>6, <1>9, <2>2 DEF next, GrowSize
  <2>6. arena' = [r EXCEPT !.count = next, !.head = next - Off(r)]
    BY <2>1, <2>3, <2>4, <2>5
  <2> QED BY <2>6 DEF Moved, r
<1>11. /\ Good(arena') /\ Off(arena') = Off(entered) /\ ~Failed(arena')
       /\ arena'.count = next /\ arena'.cells = arena.cells
  <2> DEFINE b == Moved(Raised(entered, call.size), next)
  <2>1. next >= entered.count
    BY <1>2, <1>5, <1>6, <1>8
  <2>2. /\ Good(b) /\ Off(b) = Off(entered) /\ ~Failed(b)
        /\ b.count = next /\ b.cells = entered.cells
    BY <1>1, <1>2, <1>6, <2>1, CallSound
  <2> HIDE DEF b
  <2>3. arena' = b
    BY <1>10 DEF b
  <2> QED BY <1>9, <2>2, <2>3
<1>12. ~Enough(arena.count, top)
  <2>1. Off(entered) \in Nat
    BY <1>2 DEF Off
  <2> QED BY <1>1, <1>2, <1>3, <1>9, <2>1, GrowAssumption DEF Enough
<1>13. \A h \in Ladder(c) : h < next => ~Enough(h, top)
  <2> SUFFICES ASSUME NEW h \in Ladder(c), h < next PROVE ~Enough(h, top)
    OBVIOUS
  <2>1. h <= arena.count
    BY <1>5
  <2>2. CASE h = arena.count
    BY <1>12, <2>2
  <2>3. CASE h < arena.count
    BY <1>1, <2>3 DEF OnTheWay
  <2> QED BY <1>2, <1>6, <2>1, <2>2, <2>3
<1>14. OnTheWay'
  BY <1>1, <1>5, <1>10, <1>11, <1>13 DEF OnTheWay
<1>15. PrepareTypeOK'
  BY <1>1, <1>6, <1>11 DEF PrepareTypeOK, PrepareInv, Good
<1> QED BY <1>1, <1>11, <1>14, <1>15 DEF PrepareInv, RoomIsThere, Keeps

\* What Arena!Prepare makes of the arena the caller knew, in the terms of the
\* loop's variables, once the size data has is enough.
LEMMA PrepareMeansLoop ==
    ASSUME PrepareInv, pc = "loop", Enough(arena.count, Off(entered) + need)
    PROVE  Prepare(Cleared(entered), call.size, call.additional) =
              IF arena.head > need THEN PaddingZero(arena, pad)
              ELSE Throw(arena, "capacity")
<1>1. OnTheWay /\ Good(entered)
  BY DEF PrepareInv
<1>2. /\ call.size \in Nat \ {0} /\ call.additional \in Nat /\ need \in Nat
      /\ entered.count \in Nat /\ entered.head \in Nat /\ entered.head <= entered.count
  BY DEF PrepareInv, PrepareTypeOK, ArenaTypeOK
<1> DEFINE a == Cleared(entered)
<1>3. /\ a \in [count : Nat, head : Nat, minalign : Nat \ {0},
                 cells : {entered.cells}, thrown : Outcomes]
      /\ a.count = entered.count /\ a.head = entered.head /\ a.thrown = "ok"
      /\ a.cells = entered.cells
  BY <1>1 DEF Good, ArenaTypeOK, Cleared, Outcomes
<1>4. Raised(entered, call.size) = [a EXCEPT !.minalign = Larger(@, call.size)]
  BY DEF Raised
<1> HIDE DEF a
<1>5. Off(a) = Off(entered) /\ ~Failed(a) /\ Off(entered) \in Int
  BY <1>2, <1>3 DEF Off, Failed
<1>6. Grown(a.count, Off(a) + need) = arena.count
  <2>1. /\ arena.count \in Ladder(a.count)
        /\ \A h \in Ladder(a.count) : h < arena.count => ~Enough(h, Off(a) + need)
    BY <1>1, <1>3, <1>5 DEF OnTheWay
  <2>2. a.count \in Nat /\ Off(a) + need \in Int
    BY <1>2, <1>3, <1>5
  <2>3. Enough(arena.count, Off(a) + need)
    BY <1>5
  <2> QED BY <2>1, <2>2, <2>3, GrownIsFirst
<1>7. [a EXCEPT !.minalign = Larger(@, call.size),
                !.count = arena.count, !.head = arena.count - Off(a)] = arena
  <2>1. arena = [Raised(entered, call.size) EXCEPT
                    !.count = arena.count,
                    !.head = arena.count - Off(Raised(entered, call.size))]
    BY <1>1 DEF OnTheWay, Moved
  <2>2. Off(Raised(entered, call.size)) = Off(a)
    BY <1>3, <1>4 DEF Off
  <2> QED BY <1>3, <1>4, <2>1, <2>2
<1>8. /\ pad = PadFor(Off(a) + call.additional, call.size)
      /\ need = pad + call.size + call.additional
  BY <1>1, <1>5 DEF OnTheWay
<1>9. Prepare(a, call.size, call.additional) =
         IF arena.head > need THEN PaddingZero(arena, pad) ELSE Throw(arena, "capacity")
  BY <1>5, <1>6, <1>7, <1>8 DEF Prepare
<1> QED BY <1>9 DEF a

\* Giving up: the limit is a size of the ladder like any other, and enough.
LEMMA GiveUpKeeps ==
    ASSUME PrepareInv, GiveUp
    PROVE  PrepareInv' /\ Keeps(arena, arena') /\ PrepareStep
<1>1. /\ pc = "loop" /\ pc' = "caller" /\ ~(arena.head > need)
      /\ room' = 0 /\ UNCHANGED <<call, pad, need>>
      /\ arena' = Throw(arena, "capacity") /\ entered' = arena'
      /\ Good(arena) /\ Good(entered)
      /\ arena.count \in Nat /\ arena.count < 4 * GrowLimit
      /\ arena.head \in Nat /\ need \in Nat /\ pad \in Nat
  <2>1. /\ arena.head \in Nat /\ arena.count \in Nat /\ need \in Nat
    BY DEF PrepareInv, PrepareTypeOK, ArenaTypeOK
  <2> QED BY <2>1 DEF GiveUp, PrepareInv, PrepareTypeOK
<1>2. Enough(arena.count, Off(entered) + need)
  BY <1>1, LimitTest DEF GiveUp, Enough
<1>3. PrepareStep
  BY <1>1, <1>2, PrepareMeansLoop DEF PrepareStep
<1>4. Continues(arena, arena')
  BY <1>1, ThrowContinues DEF Outcomes
<1>5. arena'.count = arena.count /\ arena'.head = arena.head
  BY <1>1 DEF Throw, Good, ArenaTypeOK
<1>6. PrepareTypeOK'
  BY <1>1, <1>4, <1>5 DEF PrepareTypeOK, PrepareInv, Continues, Good
<1> QED BY <1>1, <1>3, <1>4, <1>5, <1>6 DEF PrepareInv, RoomIsThere, Continues

\* Returning: what is left in front of the padding is what was asked for.
LEMMA ReturnKeeps ==
    ASSUME PrepareInv, Return
    PROVE  PrepareInv' /\ Keeps(arena, arena') /\ PrepareStep
<1>1. /\ pc = "loop" /\ pc' = "caller" /\ arena.head > need
      /\ UNCHANGED <<call, pad, need, room>>
      /\ arena' = PaddingZero(arena, pad) /\ entered' = arena'
      /\ Good(arena) /\ Good(entered) /\ OnTheWay
      /\ pad \in Nat /\ need \in Nat /\ room \in Nat /\ pad + room <= need
  BY DEF Return, PrepareInv, PrepareTypeOK
<1>2. /\ arena.count \in Nat /\ arena.head \in Nat /\ arena.count < 4 * GrowLimit
      /\ entered.count \in Nat /\ entered.head \in Nat /\ entered.head <= entered.count
      /\ call.size \in Nat \ {0}
  BY DEF PrepareInv, PrepareTypeOK, ArenaTypeOK
<1>3. arena.head = arena.count - Off(entered)
  <2>1. arena.count >= entered.count
    BY <1>1, <1>2, GrowAssumption DEF OnTheWay, Ladder, Larger
  <2>2. arena = Moved(Raised(entered, call.size), arena.count)
    BY <1>1 DEF OnTheWay
  <2> QED BY <1>1, <1>2, <2>1, <2>2, CallSound
<1>4. Enough(arena.count, Off(entered) + need)
  BY <1>1, <1>2, <1>3 DEF Enough, Off
<1>5. PrepareStep
  BY <1>1, <1>4, PrepareMeansLoop DEF PrepareStep
<1>6. /\ Continues(arena, arena')
      /\ arena' = [arena EXCEPT !.head = @ - pad]
  BY <1>1, <1>2, PaddingZeroContinues DEF OnTheWay
<1>7. arena'.count = arena.count /\ arena'.head = arena.head - pad
  BY <1>6, <1>1 DEF Good, ArenaTypeOK
<1>8. room <= arena'.head
  BY <1>1, <1>2, <1>7
<1>9. PrepareTypeOK'
  BY <1>1, <1>2, <1>6, <1>7 DEF PrepareTypeOK, PrepareInv, Continues, Good
<1> QED BY <1>1, <1>5, <1>6, <1>8, <1>9 DEF PrepareInv, RoomIsThere, Continues

\* Putting what was prepared for.
LEMMA PutKeeps ==
    ASSUME PrepareInv, NEW size \in Sizes, Put(size)
    PROVE  PrepareInv' /\ Keeps(arena, arena') /\ PutStep
<1> DEFINE c == Scalar(size, 0)
<1>1. size \in Nat \ {0}
  BY PrepareAssumption
<1>2. /\ pc = "caller" /\ pc' = "caller" /\ size <= room
      /\ UNCHANGED <<call, pad, need>>
      /\ arena' = Push(arena, c) /\ entered' = arena' /\ entered = arena
      /\ room' = room - size
      /\ Good(arena) /\ room \in Nat /\ room <= arena.head
      /\ arena.count < 4 * GrowLimit /\ need \in Nat /\ pad \in Nat /\ pad + room <= need
  BY DEF Put, PrepareInv, PrepareTypeOK, RoomIsThere
<1>3. c \in Item /\ c.size = size /\ c.kind = "scalar"
  BY <1>1 DEF Scalar, MkCell, Item, CellKinds
<1> HIDE DEF c
<1>4. Continues(arena, arena')
  BY <1>2, <1>3, PushContinues DEF LeadsBackFrom
<1>5. arena'.count = arena.count /\ (arena' = arena \/ arena'.head = arena.head - size)
  <2>1. /\ arena \in [count : Nat, head : Nat, minalign : Nat \ {0},
                      cells : {arena.cells}, thrown : Outcomes]
        /\ arena.head <= arena.count
    BY <1>2 DEF Good, ArenaTypeOK
  <2> DEFINE low == [arena EXCEPT !.head = @ - size]
  <2>2. /\ low.count = arena.count /\ low.head = arena.head - size
        /\ low.thrown = arena.thrown
    BY <2>1
  <2>3. Push(arena, c) = arena \/ Push(arena, c) = Write(low, arena.head - size, c)
    BY <1>1, <1>2, <1>3, <2>1 DEF Push
  <2>4. Write(low, arena.head - size, c) \in
           {low, [low EXCEPT !.cells = Overwritten(@, low.count - (arena.head - size), c)]}
    <3>1. ~(arena.head - size + c.size > low.count)
      BY <1>1, <1>2, <1>3, <2>1, <2>2
    <3> QED BY <3>1 DEF Write
  <2> QED BY <1>2, <2>1, <2>2, <2>3, <2>4
<1>6. room' \in Nat /\ room' <= arena'.head /\ pad + room' <= need
  BY <1>1, <1>2, <1>5 DEF Good, ArenaTypeOK
<1>7. PrepareTypeOK'
  BY <1>2, <1>4, <1>5, <1>6 DEF PrepareTypeOK, PrepareInv, Continues, Good
<1>8. PutStep
  BY <1>2 DEF PutStep, c
<1> QED BY <1>2, <1>4, <1>6, <1>7, <1>8 DEF PrepareInv, RoomIsThere, Continues

-----------------------------------------------------------------------------
(* The theorems.                                                           *)

\* Every step keeps the invariant and the items, and is Prepare, a put, or
\* nothing the caller sees.
LEMMA PrepareStepKeeps ==
    ASSUME PrepareInv, [Next]_vars
    PROVE  /\ PrepareInv'
           /\ [Keeps(arena, arena')]_vars
           /\ [PrepareStep \/ PutStep]_entered
<1>1. CASE UNCHANGED vars
  <2>1. UNCHANGED <<arena, pc, call, pad, need, room, entered>>
    BY <1>1 DEF vars
  <2>2. PrepareInv'
    BY <2>1 DEF PrepareInv, PrepareTypeOK, RoomIsThere, OnTheWay
  <2> QED BY <1>1, <2>1, <2>2
<1>2. ASSUME NEW size \in Sizes, NEW additional \in Additionals, Call(size, additional)
      PROVE  PrepareInv' /\ Keeps(arena, arena') /\ entered' = entered
  BY <1>2, CallKeeps
<1>3. CASE Double
  BY <1>3, DoubleKeeps
<1>4. CASE GiveUp
  BY <1>4, GiveUpKeeps
<1>5. CASE Return
  BY <1>5, ReturnKeeps
<1>6. ASSUME NEW size \in Sizes, Put(size)
      PROVE  PrepareInv' /\ Keeps(arena, arena') /\ PutStep
  BY <1>6, PutKeeps
<1> QED BY <1>1, <1>2, <1>3, <1>4, <1>5, <1>6 DEF Next

LEMMA PrepareInvAlways == Spec => []PrepareInv
<1>1. PrepareInv /\ [Next]_vars => PrepareInv'
  BY PrepareStepKeeps
<1> QED BY PrepareInit, <1>1, PTL DEF Spec

\* Whatever is prepared for and put, head stays inside of data and data below
\* what UOffsetT can count.
THEOREM PrepareTypes == Spec => []PrepareTypeOK
<1>1. PrepareInv => PrepareTypeOK
  BY DEF PrepareInv
<1> QED BY <1>1, PrepareInvAlways, PTL

\* A prepare that returns leaves the room that was asked for until it is used.
THEOREM PrepareRoom == Spec => []RoomIsThere
<1>1. PrepareInv => RoomIsThere
  BY DEF PrepareInv
<1> QED BY <1>1, PrepareInvAlways, PTL

\* The doubling loop of prepare does, seen from its caller, what the operator
\* Prepare does that the models of the builder are made of.
THEOREM PrepareImplements == Spec => ImplementsPrepare
<1>1. PrepareInv /\ [Next]_vars => [PrepareStep \/ PutStep]_entered
  BY PrepareStepKeeps
<1> QED BY <1>1, PrepareInvAlways, PTL DEF Spec, ImplementsPrepare

\* No growth, padding or put changes or moves an item that is there.
THEOREM PrepareItemsKept == Spec => ItemsKept
<1>1. PrepareInv /\ [Next]_vars => [Keeps(arena, arena')]_vars
  BY PrepareStepKeeps
<1> QED BY <1>1, PrepareInvAlways, PTL DEF Spec, ItemsKept

=============================================================================
