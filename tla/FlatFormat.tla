----------------------------- MODULE FlatFormat -----------------------------
(***************************************************************************)
(* Reading a buffer: what the cells a builder has written stand for, by    *)
(* the rules of Table and Vector in flatbuffers.h.  A reader takes types   *)
(* from the schema and follows offsets; the cell at the place an offset    *)
(* leads to tells what has been written there.                             *)
(*                                                                         *)
(* A place is a rear offset, the distance of an item's first byte from the *)
(* end of the buffer.  A buffer `a` is any record with a field `cells`     *)
(* that maps places to [size, align, kind, val] records.                   *)
(***************************************************************************)
EXTENDS Integers, Sequences

\* Every field of the schemas explored has the default 0.
Default == 0

Content(kind, size, val) == [kind |-> kind, size |-> size, val |-> val]
Nothing == Content("empty", 0, <<>>)

\* The offset found in element k of a run of offsets at r leads to ...
Target(a, r, k) == r - 4 * (k - 1) - a.cells[r].val[k]

ReadAt(a, r) ==
    LET c == a.cells[r]
    IN  Content(c.kind, c.size,
                IF c.kind = "uoffset" THEN [k \in DOMAIN c.val |-> Target(a, r, k)]
                ELSE c.val)

\* A length, and behind it the elements.
ReadVector(a, r) ==
    IF a.cells[r].val[1] = 0 THEN Nothing ELSE ReadAt(a, r - 4)

\* A table finds its vtable by its soffset and its fields by the vtable.
VtableOf(a, r) == r + a.cells[r].val[1]
IsTable(a, r) ==
    /\ a.cells[r].kind = "soffset"
    /\ VtableOf(a, r) \in DOMAIN a.cells
    /\ a.cells[VtableOf(a, r)].kind = "vtable"
Entries(a, r)  == SubSeq(a.cells[VtableOf(a, r)].val, 3,
                         a.cells[VtableOf(a, r)].val[1] \div 2)
Present(s)     == {i \in DOMAIN s : s[i] # 0}

\* Fields stored at `place`: reading a stored default and reading a field that
\* is not stored have the same result.
IsDefault(c) == c = Content("scalar", c.size, <<Default>>)
ReadFields(a, place) ==
    [i \in {j \in DOMAIN place : ~IsDefault(ReadAt(a, place[j]))} |->
        ReadAt(a, place[i])]

ReadTable(a, r) ==
    LET entries == Entries(a, r)
    IN  [kind |-> "table",
         fields |-> ReadFields(a, [i \in Present(entries) |-> r - entries[i]])]

\* The offsets that lead to something complete.
Places(a) == {r \in DOMAIN a.cells : a.cells[r].kind = "length" \/ IsTable(a, r)}
Roots(a)  == {r \in Places(a) : IsTable(a, r)}

Items(a) == [r \in Places(a) |->
                IF IsTable(a, r) THEN ReadTable(a, r) ELSE ReadVector(a, r)]

=============================================================================
