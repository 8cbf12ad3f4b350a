------------------------------- MODULE Arena -------------------------------
(***************************************************************************)
(* The byte buffer a Builder writes into: the `data`, `head` and           *)
(* `minalign` of builder.swift and the Data writers of writer.swift, as    *)
(* operators on one record.                                                *)
(*                                                                         *)
(* The buffer is written backwards and grows at its front, so a byte's     *)
(* index changes with every growth while its distance from the END of the  *)
(* buffer does not.  A written item is therefore addressed by the distance *)
(* of its first byte from the end: that is the value offset() has right    *)
(* after the item is written, and what every offset handed to a client is. *)
(* `cells` maps that rear offset to the item.  Bytes no cell covers are 0. *)
(***************************************************************************)
EXTENDS Integers, Sequences

CONSTANTS
    GrowLimit,  \* prepare gives up at this many bytes (2^30 in the code)
    Doublings   \* the powers of two up to GrowLimit

ASSUME GrowAssumption ==
    /\ GrowLimit \in Nat \ {0}
    /\ Doublings \subseteq Nat \ {0}
    /\ 1 \in Doublings
    /\ \E d \in Doublings : d >= GrowLimit

\* "uoffset" is a table offset or a run of them, "partial" a vtable or a file
\* identifier cut short.
CellKinds == {"scalar", "uoffset", "soffset", "vtable", "partial", "length",
              "string", "bytes", "struct", "ident"}

Cell == [size : Nat \ {0}, align : Nat \ {0}, kind : CellKinds, val : Seq(Int)]

\* What the last call did: returned, threw one of BuilderError / DataError /
\* the NSError of prepare, or ran into a Swift runtime trap (the process dies).
Outcomes == {"ok", "InvalidConstructionOrder", "BuilderHasnotFinishYet",
             "UnreachableOffset", "InlineDataOutsideObject",
             "InvalidFileIdentifier", "IndexOutOfBound", "capacity", "trap"}

EmptyArena(capacity) ==
    [count |-> capacity, head |-> capacity, minalign |-> 1,
     cells |-> [r \in {} |-> 0], thrown |-> "ok"]

Off(a)      == a.count - a.head           \* Builder.offset()
Failed(a)   == a.thrown # "ok"
Throw(a, e) == [a EXCEPT !.thrown = e]
Larger(x, y) == IF x > y THEN x ELSE y

-----------------------------------------------------------------------------
(* prepare: alignment, growth at the front, zero padding.                  *)

\* (~n + 1) & (size - 1) of a power of two: the bytes missing to a multiple.
PadFor(n, size) == (-n) % size

\* Sizes the doubling loop passes through, starting at c (0 counts as 1).
Ladder(c) == {c} \cup {d * Larger(c, 1) : d \in Doublings}

Enough(g, top) == g > top \/ g >= GrowLimit

\* The size at which the loop `while head <= expectedSize` stops.
Grown(c, top) ==
    CHOOSE g \in Ladder(c) :
        /\ Enough(g, top)
        /\ \A h \in Ladder(c) : h < g => ~Enough(h, top)

\* What is left once the first n bytes of the buffer are cleared.
FrontCleared(a, n) ==
    [r \in {s \in DOMAIN a.cells : a.count - s >= n} |-> a.cells[r]]

\* Mutant: head is unsigned, and the subtraction does not check it.
PaddingZeroUnchecked(a, n) ==
    IF Failed(a) THEN a
    ELSE [a EXCEPT !.head = @ - n, !.cells = FrontCleared(a, n)]

\* paddingZero moves head, but clears the bytes at the FRONT of the buffer.
PaddingZero(a, n) ==
    IF Failed(a) THEN a
    ELSE IF n > a.head THEN Throw(a, "trap")
    ELSE [a EXCEPT !.head = @ - n, !.cells = FrontCleared(a, n)]

Prepare(a, size, additional) ==
    LET pad  == PadFor(Off(a) + additional, size)
        need == pad + size + additional
        g    == Grown(a.count, Off(a) + need)
        b    == [a EXCEPT !.minalign = Larger(@, size),
                          !.count = g, !.head = g - Off(a)]
    IN  IF Failed(a) THEN a
        ELSE IF b.head > need THEN PaddingZero(b, pad)
        ELSE Throw(b, "capacity")

-----------------------------------------------------------------------------
(* Data.put...: write an item at an index, over whatever is there.         *)

Overlap(r, size, s, t) == s > r - size /\ r > s - t

\* The items once c is written at rear offset r: those it covers are gone.
Overwritten(cells, r, c) ==
    LET kept == {s \in DOMAIN cells : ~Overlap(r, c.size, s, cells[s].size)}
    IN  [s \in kept \cup {r} |-> IF s = r THEN c ELSE cells[s]]

Write(a, at, c) ==
    IF Failed(a) THEN a
    ELSE IF at + c.size > a.count THEN Throw(a, "IndexOutOfBound")
    ELSE [a EXCEPT !.cells = Overwritten(@, a.count - at, c)]

\* head -= size; data.put(at: head): the ...WithoutPrepare calls.  head is
\* unsigned, so going below zero traps.  Zero bytes leave no cell.
Push(a, c) ==
    IF Failed(a) \/ c.size = 0 THEN a
    ELSE IF c.size > a.head THEN Throw(a, "trap")
    ELSE Write([a EXCEPT !.head = @ - c.size], a.head - c.size, c)

MkCell(size, align, kind, val) ==
    [size |-> size, align |-> align, kind |-> kind, val |-> val]

Scalar(size, v)  == MkCell(size, size, "scalar", <<v>>)
LengthCell(n)    == MkCell(4, 4, "length", <<n>>)

-----------------------------------------------------------------------------
(* Table offsets.                                                          *)

\* Mutant: no range check.
PutUOffsetUnchecked(a, target) ==
    LET b == Prepare(a, 4, 0)
    IN  Push(b, MkCell(4, 4, "uoffset", <<Off(b) - target + 4>>))

\* putUnsignedTableOffset: the range check and the distance come after prepare.
PutUOffset(a, target) ==
    LET b == Prepare(a, 4, 0)
    IN  IF Failed(b) THEN b
        ELSE IF target > Off(b) THEN Throw(b, "UnreachableOffset")
        ELSE Push(b, MkCell(4, 4, "uoffset", <<Off(b) - target + 4>>))

\* putSignedTableOffset: UOffsetT(offset) traps on a negative offset.
PutSOffset(a, target) ==
    LET b == Prepare(a, 4, 0)
    IN  IF Failed(b) THEN b
        ELSE IF target < 0 THEN Throw(b, "trap")
        ELSE IF target > Off(b) THEN Throw(b, "UnreachableOffset")
        ELSE Push(b, MkCell(4, 4, "soffset", <<Off(b) - target + 4>>))

\* An item put in pieces of `unit` bytes, from the last, each with a prepare of
\* its own.  No padding can occur between them, and the last prepare asks for
\* most.  When the buffer cannot grow the pieces that still fit are written.
PutRun(a, unit, c) ==
    LET b == Prepare(a, unit, c.size - unit)
        m == Larger(b.head - 1, 0) \div unit
    IN  IF Failed(a) \/ c.size = 0 THEN a
        ELSE IF Failed(b)
             THEN Throw(Push(Throw(b, "ok"), MkCell(unit * m, unit, "partial", <<>>)), b.thrown)
        ELSE Push(b, c)

\* The shorts of a vtable; a table offset has been put before them.
PutShorts(a, shorts) == PutRun(a, 2, MkCell(2 * Len(shorts), 2, "vtable", shorts))

-----------------------------------------------------------------------------
(* What the operators above preserve, whatever the order they are used in. *)

ArenaTypeOK(a) ==
    /\ a \in [count : Nat, head : Nat, minalign : Nat \ {0},
             cells : {a.cells}, thrown : Outcomes]
    /\ DOMAIN a.cells \subseteq Nat
    /\ a.cells \in [DOMAIN a.cells -> Cell]
    /\ a.head <= a.count

Apart(a) ==
    \A r \in DOMAIN a.cells :
        /\ a.cells[r].size <= r /\ r <= Off(a)
        /\ \A s \in DOMAIN a.cells :
              r # s => ~Overlap(r, a.cells[r].size, s, a.cells[s].size)

\* The k-th offset of a run starts at rear offset r - 4 * (k - 1).
LeadBack(a) ==
    \A r \in DOMAIN a.cells :
        a.cells[r].kind = "uoffset" =>
            \A k \in DOMAIN a.cells[r].val :
                a.cells[r].val[k] \in 4..(r - 4 * (k - 1))

\* Every item of a is an item of b, unchanged and at the same place.
Keeps(a, b) ==
    \A r \in DOMAIN a.cells : r \in DOMAIN b.cells /\ b.cells[r] = a.cells[r]

=============================================================================
