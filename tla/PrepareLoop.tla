----------------------------- MODULE PrepareLoop -----------------------------
(***************************************************************************)
(* Builder.prepare (builder.swift) step by step: the padding is computed   *)
(* once, then data doubles at its front until there is room or the limit   *)
(* is met, then the padding is written.  Arena takes the loop for one step *)
(* that ends where Grown says; here it is a loop, so that it can be asked  *)
(* whether it ends, and whether it ends there.  In between, the caller     *)
(* puts what it has prepared for.                                          *)
(***************************************************************************)
EXTENDS Arena

CONSTANTS
    Capacities,  \* what a Builder is created with
    Sizes,       \* the sizes prepare is called with: powers of two
    Additionals  \* the additional bytes it is called with

\* UOffsetT(data.count) (builder.swift:544) is of 32 bits, four times GrowLimit.
ASSUME PrepareAssumption ==
    /\ Capacities \subseteq 0..(4 * GrowLimit - 1)
    /\ Sizes \subseteq Nat \ {0}
    /\ Additionals \subseteq Nat

\* Doublings are the powers of two: each but the last has the next, and there
\* is nothing in between.
ASSUME DoublingsAssumption ==
    \A d \in Doublings :
        /\ d < GrowLimit => 2 * d \in Doublings
        /\ \A e \in Doublings : d < e => 2 * d <= e

VARIABLES
    arena,    \* data, head and minalign
    pc,       \* "caller", or "loop" inside of prepare
    call,     \* size and additionalBytes
    pad,      \* alignSize
    need,     \* expectedSize
    room,     \* the bytes prepared for and not yet put
    entered   \* the arena as the caller knew it last

vars == <<arena, pc, call, pad, need, room, entered>>

Cleared(a) == [a EXCEPT !.thrown = "ok"]

Init ==
    /\ \E capacity \in Capacities : arena = EmptyArena(capacity)
    /\ pc = "caller" /\ call = [size |-> 1, additional |-> 0]
    /\ pad = 0 /\ need = 0 /\ room = 0
    /\ entered = arena

\* Mutant: the padding is not counted in what is needed.
NeedWithoutPad(a, size, additional) == size + additional

NeedOf(a, size, additional) == PadFor(Off(a) + additional, size) + size + additional

Call(size, additional) ==
    /\ pc = "caller"
    /\ arena' = [Cleared(arena) EXCEPT !.minalign = Larger(@, size)]
    /\ entered' = arena
    /\ call' = [size |-> size, additional |-> additional]
    /\ pad'  = PadFor(Off(arena) + additional, size)
    /\ need' = NeedOf(arena, size, additional)
    /\ room' = size + additional
    /\ pc' = "loop"

\* Mutant: only the upper of the two bits is tested.
AtUpperLimit(count) == (count \div (2 * GrowLimit)) % 2 # 0

\* data.count & 0xC0000000
AtLimit(count) == (count \div GrowLimit) % 4 # 0

\* Mutant: an empty buffer is doubled like any other.
GrowSizePlain(count) == count

GrowSize(count) == IF count = 0 THEN 1 ELSE count

Doubled(a) ==
    [a EXCEPT !.count = @ + GrowSize(a.count), !.head = @ + GrowSize(a.count)]

Double ==
    /\ pc = "loop"
    /\ arena.head <= need
    /\ ~AtLimit(arena.count)
    /\ arena' = Doubled(arena)
    /\ UNCHANGED <<pc, call, pad, need, room, entered>>

GiveUp ==
    /\ pc = "loop"
    /\ arena.head <= need
    /\ AtLimit(arena.count)
    /\ arena' = Throw(arena, "capacity")
    /\ pc' = "caller" /\ room' = 0
    /\ entered' = arena'
    /\ UNCHANGED <<call, pad, need>>

Return ==
    /\ pc = "loop"
    /\ arena.head > need
    /\ arena' = PaddingZero(arena, pad)
    /\ pc' = "caller"
    /\ entered' = arena'
    /\ UNCHANGED <<call, pad, need, room>>

\* The caller's put...WithoutPrepare.
Put(size) ==
    /\ pc = "caller"
    /\ size <= room
    /\ arena' = Push(arena, Scalar(size, 0))
    /\ room' = room - size
    /\ entered' = arena'
    /\ UNCHANGED <<pc, call, pad, need>>

Next ==
    \/ \E size \in Sizes, additional \in Additionals : Call(size, additional)
    \/ Double
    \/ GiveUp
    \/ Return
    \/ \E size \in Sizes : Put(size)

\* prepare runs on its caller's thread: once called it keeps running.
Fairness == WF_vars(Double \/ GiveUp \/ Return)

Spec == Init /\ [][Next]_vars /\ Fairness

-----------------------------------------------------------------------------
(* Properties.                                                             *)

\* The arena stays one: head inside of data, data below what UOffsetT holds.
PrepareTypeOK ==
    /\ pc \in {"caller", "loop"}
    /\ call \in [size : Nat \ {0}, additional : Nat]
    /\ pad \in Nat /\ need \in Nat /\ room \in Nat /\ pad + room <= need
    /\ ArenaTypeOK(arena) /\ arena.count < 4 * GrowLimit
    /\ ArenaTypeOK(entered)

\* What a call of prepare made room for is there until it is put, through
\* padding and growth (builder.swift:525, 540, and every put that follows).
RoomIsThere == pc = "caller" => room <= arena.head

\* What callers see of prepare is what Arena!Prepare says: the loop stops at
\* the first size that has room, or is the limit (builder.swift:528-539).
PrepareStep ==
    /\ pc = "loop"
    /\ entered' = Prepare(Cleared(entered), call.size, call.additional)
PutStep ==
    /\ pc = "caller"
    /\ \E size \in Sizes : entered' = Push(entered, Scalar(size, 0))
ImplementsPrepare == [][PrepareStep \/ PutStep]_entered

\* The bytes written stay what they are and where they are while data moves.
ItemsKept == [][Keeps(arena, arena')]_vars

\* prepare ends: doubling meets room or the limit, from an empty buffer too.
PrepareEnds == pc = "loop" ~> pc = "caller"

=============================================================================
