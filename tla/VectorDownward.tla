--------------------------- MODULE VectorDownward ---------------------------
(***************************************************************************)
(* vector_downward of flatbuffers.h, with the alignment FlatBufferBuilder  *)
(* keeps next to it: operators on one record.                              *)
(*                                                                         *)
(* buf_ is written from its end and is copied to the end of a larger one   *)
(* when make_space finds no room, so an item keeps its distance from the   *)
(* end, which is what data_at takes: `cells` maps it to the item.  Bytes   *)
(* that no cell covers are padding.  A failed assert ends the process.     *)
(***************************************************************************)
EXTENDS Integers, Sequences

CONSTANT
    MaxBufferSize   \* FLATBUFFERS_MAX_BUFFER_SIZE, 2^31 - 1 in the code

BufferAssumption == MaxBufferSize \in Nat \ {0}

WordSize == 8       \* sizeof(largest_scalar_t)

CellKinds == {"scalar", "uoffset", "soffset", "vtable", "length", "string",
              "bytes", "struct", "ident", "prefix"}

Cell == [size : Nat \ {0}, align : Nat \ {0}, kind : CellKinds, val : Seq(Int)]

MkCell(size, align, kind, val) ==
    [size |-> size, align |-> align, kind |-> kind, val |-> val]

Greater(x, y) == IF x > y THEN x ELSE y
RoundUp(n)    == n + ((-n) % WordSize)

NoCells == [r \in {} |-> 0]

\* buf_ is null after release().
EmptyBuffer(initial) ==
    [reserved |-> RoundUp(initial), size |-> 0, cells |-> NoCells,
     minalign |-> 1, held |-> TRUE, aborted |-> FALSE]

Abort(b) == [b EXCEPT !.aborted = TRUE]

\* clear() allocates again after a release.
Cleared(b) == [b EXCEPT !.size = 0, !.cells = NoCells, !.minalign = 1, !.held = TRUE]

GrowthPolicy(n) == (n \div 2) - ((n \div 2) % WordSize)

Reallocated(reserved, len) == RoundUp(reserved + Greater(len, GrowthPolicy(reserved)))

MakeSpace(b, len) ==
    LET room == b.reserved - b.size
    IN  [b EXCEPT !.reserved = IF len > room THEN Reallocated(@, len) ELSE @,
                  !.size = @ + len,
                  !.aborted = @ \/ b.size + len >= MaxBufferSize]

Fill(b, n) == MakeSpace(b, n)

\* push, push_small and fill_big: an item in front of what is there.
Push(b, c) ==
    LET n == MakeSpace(b, c.size)
    IN  IF c.size = 0 THEN b
        ELSE [n EXCEPT !.cells = [r \in DOMAIN b.cells \cup {n.size} |->
                                    IF r = n.size THEN c ELSE b.cells[r]]]

\* pop: the first n bytes are gone, and with them the items that start there.
Pop(b, n) ==
    [b EXCEPT !.size = @ - n,
              !.cells = [r \in {s \in DOMAIN b.cells : s <= b.size - n} |-> b.cells[r]]]

PaddingBytes(size, alignment) == (-size) % alignment

Align(b, size) ==
    Fill([b EXCEPT !.minalign = Greater(@, size)], PaddingBytes(b.size, size))

\* What is written after the next `len` bytes is aligned; minalign_ is left alone.
PreAlign(b, len, alignment) == Fill(b, PaddingBytes(b.size + len, alignment))

PushElement(b, size, kind, v) ==
    Push(Align(b, size), MkCell(size, size, kind, <<v>>))

\* Mutant: the offset is taken before the buffer is aligned.
PushOffsetUnaligned(b, off) ==
    IF off \in 1..b.size THEN PushElement(b, 4, "uoffset", b.size - off + 4) ELSE Abort(b)

\* PushElement(Offset): ReferTo aligns, so that the size it subtracts from is
\* the one at which the offset is stored.
PushOffset(b, off) ==
    LET a == Align(b, 4)
    IN  IF off \in 1..a.size THEN PushElement(a, 4, "uoffset", a.size - off + 4)
        ELSE Abort(a)

\* The same for the elements of a vector, from the last: one run of offsets.
PushOffsets(b, offs) ==
    LET n == Len(offs)
        At(k) == b.size + 4 * (n - k + 1)
    IN  IF \E k \in 1..n : offs[k] \notin 1..(At(k) - 4) THEN Abort(b)
        ELSE Push([b EXCEPT !.minalign = Greater(@, IF n = 0 THEN 1 ELSE 4)],
                  MkCell(4 * n, 4, "uoffset", [k \in 1..n |-> At(k) - offs[k]]))

=============================================================================
