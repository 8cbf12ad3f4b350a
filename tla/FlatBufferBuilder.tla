-------------------------- MODULE FlatBufferBuilder --------------------------
(***************************************************************************)
(* FlatBufferBuilder of flatbuffers.h, called the way the code flatc       *)
(* generates for C++ calls it: anything is built in any order (an assert   *)
(* ends the process when a child is built inside its parent), while fields *)
(* are added only through the generated XBuilder, that is, to an open      *)
(* table, and a finished builder is released or cleared.                   *)
(***************************************************************************)
EXTENDS VectorDownward, FlatFormat, FiniteSets

CONSTANTS
    InitialSizes,   \* capacities a builder is made with
    Tables,         \* table types of the schema: sequences of FieldTypes
    ScalarTypes,    \* names of scalar types -> their size
    Structs,        \* names of struct types -> [bytes, align]
    Values,         \* scalar values written
    Texts,          \* strings, as sequences of characters; 0 is NUL
    Lengths,        \* lengths of vectors
    ForcedAligns,   \* alignments given to ForceVectorAlignment
    FlagChoices,    \* [force, dedup] settings a client makes
    AddTwice,       \* whether a client may add a field twice
    MaxSize,        \* nothing is built beyond this size (bound of the exploration)
    MaxItems        \* nor with more cells than this (the same)

\* "required" is a reference the schema says must be there.
RefTypes   == {"offset", "required"}
FieldTypes == DOMAIN ScalarTypes \cup DOMAIN Structs \cup RefTypes

\* What flatc lets a schema align to, up to FLATBUFFERS_MAX_ALIGNMENT.
Alignments == {1, 2, 4, 8, 16}

\* A struct without a field does not compile: STRUCT_END compares its size with
\* sizeof.
BuilderConstants ==
    /\ Tables \subseteq Seq(FieldTypes)
    /\ ScalarTypes \in [DOMAIN ScalarTypes -> {1, 2, 4, 8}]
    /\ \A s \in DOMAIN Structs :
          /\ Structs[s].align \in Alignments /\ Structs[s].bytes \in Nat \ {0}
          /\ Structs[s].bytes % Structs[s].align = 0
    /\ InitialSizes \subseteq Nat /\ Lengths \subseteq Nat
    /\ Values \subseteq Int /\ Texts \subseteq Seq(Int)
    /\ ForcedAligns \subseteq Nat \ {0}
    /\ FlagChoices \subseteq [force : BOOLEAN, dedup : BOOLEAN]

VARIABLES
    buf,            \* buf_ and minalign_
    offsetbuf,      \* FieldLocs of the table being built
    nested, finished,
    vtables,        \* vtables_
    forceDefaults, dedupVtables,
    stringPool,     \* offsets of the shared strings
    table,          \* the XBuilder in use, [fields, start]; NoTable: none
    call            \* the last call: operation, argument, offset returned

builderVars == <<buf, offsetbuf, nested, finished, vtables, forceDefaults,
                 dedupVtables, stringPool, table, call>>
flags    == <<forceDefaults, dedupVtables>>
tracking == <<offsetbuf, vtables, table>>

NoTable == [fields |-> <<>>, start |-> -1]

Called(op, arg, at) == [op |-> op, arg |-> arg, at |-> at]

\* The bounds, and the ends: an assert stops the process, a released buffer can
\* only be cleared.
Alive   == ~buf.aborted
Running == /\ Alive /\ buf.held
           /\ buf.size <= MaxSize /\ Cardinality(DOMAIN buf.cells) <= MaxItems
Building == Running /\ ~finished

\* A call leaves b behind, or its assert has failed.
Leaves(b, op, arg, at) ==
    /\ buf' = IF b.aborted THEN Abort(buf) ELSE b
    /\ call' = IF b.aborted THEN Called("failed", Nothing, 0) ELSE Called(op, arg, at)

AssertFails ==
    /\ buf' = Abort(buf)
    /\ call' = Called("failed", Nothing, 0)
    /\ UNCHANGED <<offsetbuf, nested, finished, vtables, flags, stringPool, table>>

-----------------------------------------------------------------------------
(* Strings and vectors.  `nested` is set by StartVector and cleared by     *)
(* EndVector, so after the call it is what it was before: false.           *)

StringArena(b, text) ==
    LET n == Len(text) + 1
        c == Push(PreAlign(b, n, 4), MkCell(n, 1, "string", text))
    IN  PushElement(c, 4, "length", Len(text))

TextContent(text) ==
    IF text = <<>> THEN Nothing ELSE Content("string", Len(text) + 1, text)

StartVector(b, len, elemsize) ==
    PreAlign(PreAlign(b, len * elemsize, 4), len * elemsize, elemsize)

EndVector(b, len) == PushElement(b, 4, "length", len)

NewVector(b, op, arg) ==
    /\ Building
    /\ \/ nested /\ AssertFails
       \/ /\ ~nested
          /\ Leaves(b, op, arg, b.size)
          /\ UNCHANGED <<nested, finished, flags, stringPool, tracking>>

CreateString(text) == NewVector(StringArena(buf, text), "build", TextContent(text))

\* CreateVector of scalars: pushing an element aligns to it.
CreateVector(t, elements) ==
    LET size == ScalarTypes[t]
        n    == Len(elements)
        b    == StartVector(buf, n, size)
        c    == IF n = 0 \/ size = 1 THEN b ELSE Align(b, size)
    IN  NewVector(EndVector(Push(c, MkCell(n * size, size, "scalar", elements)), n), "build",
                  IF n = 0 THEN Nothing ELSE Content("scalar", n * size, elements))

CreateVectorOfOffsets(offs) ==
    LET n == Len(offs)
    IN  NewVector(EndVector(PushOffsets(StartVector(buf, n, 4), offs), n), "build",
                  IF n = 0 THEN Nothing ELSE Content("uoffset", 4 * n, offs))

\* CreateVectorOfStructs and CreateUninitializedVector copy or reserve bytes:
\* nothing is pushed that would raise minalign_.
CreateVectorOfStructs(s, n) ==
    LET bytes == Structs[s].bytes * n
        align == Structs[s].align
        b     == StartVector(buf, bytes \div align, align)
        zeros == [k \in 1..n |-> 0]
    IN  NewVector(EndVector(Push(b, MkCell(bytes, align, "struct", zeros)), n), "build",
                  IF n = 0 THEN Nothing ELSE Content("struct", bytes, zeros))

\* ForceVectorAlignment right before CreateVector, for n bytes.
CreateForcedVector(n, alignment) ==
    LET b == StartVector(PreAlign(buf, n, alignment), n, 1)
        zeros == [k \in 1..n |-> 0]
    IN  NewVector(EndVector(Push(b, MkCell(n, alignment, "bytes", zeros)), n), "build",
                  IF n = 0 THEN Nothing ELSE Content("bytes", n, zeros))

\* strncmp of StringOffsetCompare: a NUL ends the comparison, so what it sees
\* of a string is the part before its first NUL.
CStr(text) ==
    LET nuls == {i \in DOMAIN text : text[i] = 0}
    IN  IF nuls = {} THEN text
        ELSE SubSeq(text, 1, (CHOOSE i \in nuls : \A j \in nuls : i <= j) - 1)

TextAt(b, off) == b.cells[off - 4].val

\* Mutant: the pool is searched by length.
PooledByLength(b, off) ==
    {o \in stringPool : Len(TextAt(b, o)) = Len(TextAt(b, off))}

Pooled(b, off) == {o \in stringPool : CStr(TextAt(b, o)) = CStr(TextAt(b, off))}

\* The string is written first, and taken back when the pool has it.
CreateSharedString(text) ==
    LET b == StringArena(buf, text)
    IN  /\ Building
        /\ \/ (nested \/ b.aborted) /\ AssertFails
           \/ /\ ~nested /\ ~b.aborted
              /\ \E known \in Pooled(b, b.size) :
                    Leaves(Pop(b, b.size - buf.size), "share", TextContent(text), known)
              /\ UNCHANGED <<nested, finished, flags, stringPool, tracking>>
           \/ /\ ~nested /\ ~b.aborted /\ Pooled(b, b.size) = {}
              /\ Leaves(b, "build", TextContent(text), b.size)
              /\ stringPool' = stringPool \cup {b.size}
              /\ UNCHANGED <<nested, finished, flags, tracking>>

-----------------------------------------------------------------------------
(* Tables.                                                                 *)

StartTable(T) ==
    /\ Building
    /\ \/ nested /\ AssertFails
       \/ /\ ~nested
          /\ nested' = TRUE
          /\ table' = [fields |-> T, start |-> buf.size]
          /\ call' = Called("begin", Nothing, 0)
          /\ UNCHANGED <<buf, offsetbuf, finished, vtables, flags, stringPool>>

Adding(i, types) ==
    /\ Building /\ table # NoTable
    /\ table.fields[i] \in types
    /\ AddTwice \/ \A k \in DOMAIN offsetbuf : offsetbuf[k].id # i

\* TrackField: where in the buffer a field is.
TrackField(i, b) == Append(offsetbuf, [id |-> i, off |-> b.size])

Field(i, b, content) ==
    /\ Leaves(b, "set", content, i)
    /\ offsetbuf' = IF b.aborted THEN offsetbuf ELSE TrackField(i, b)
    /\ UNCHANGED <<nested, finished, flags, vtables, table, stringPool>>

AddElement(i, t, v) ==
    LET content == Content("scalar", ScalarTypes[t], <<v>>)
    IN  /\ Adding(i, {t})
        /\ \/ /\ v = Default /\ ~forceDefaults
              /\ call' = Called("set", content, i)
              /\ UNCHANGED <<buf, offsetbuf, nested, finished, flags, vtables,
                             table, stringPool>>
           \/ /\ v # Default \/ forceDefaults
              /\ Field(i, PushElement(buf, ScalarTypes[t], "scalar", v), content)

AddOffset(i, off) ==
    Adding(i, RefTypes) /\ Field(i, PushOffset(buf, off), Content("uoffset", 4, <<off>>))

AddStruct(i, s) ==
    LET c == MkCell(Structs[s].bytes, Structs[s].align, "struct", <<0>>)
    IN  Adding(i, {s}) /\ Field(i, Push(Align(buf, c.align), c), Content("struct", c.size, <<0>>))

\* The vtable: its size, the table's, and for each field its distance from the
\* start of the table, 0 for one that has not been added.
VtableCell(tableAt, locs) ==
    LET n    == Len(table.fields)
        Positions(i) == {tableAt - locs[k].off : k \in {j \in DOMAIN locs : locs[j].id = i}}
    IN  MkCell(2 * n + 4, 2, "vtable",
               <<2 * n + 4, tableAt - table.start>> \o
               [i \in 1..n |-> IF Positions(i) = {} THEN 0
                               ELSE CHOOSE p \in Positions(i) : TRUE])

SameFieldTwice == \E j, k \in DOMAIN offsetbuf : j # k /\ offsetbuf[j].id = offsetbuf[k].id

\* Positions in vtables_ of the vtables with this content: the first is used.
Known(vt) == {k \in DOMAIN vtables : buf.cells[vtables[k]].val = vt.val}
FirstOf(S) == CHOOSE k \in S : \A j \in S : k <= j

PatchSOffset(b, tableAt, vtableAt) ==
    [b EXCEPT !.cells[tableAt].val = <<vtableAt - tableAt>>]

PopVtable(b, tableAt) == Pop(b, b.size - tableAt)

\* EndTable of a field set twice, or too large for 16 bits, fails its assert;
\* Required fails it for a required field without an entry.
EndTableFails(b, vt) ==
    \/ SameFieldTwice
    \/ vt.val[2] >= 65536
    \/ \E i \in DOMAIN table.fields : table.fields[i] = "required" /\ vt.val[i + 2] = 0

EndTable ==
    LET a  == PushElement(buf, 4, "soffset", 0)
        vt == VtableCell(a.size, offsetbuf)
        b  == Push(a, vt)
        reuse == dedupVtables /\ Known(vt) # {}
        use   == IF reuse THEN vtables[FirstOf(Known(vt))] ELSE b.size
    IN  /\ Building /\ table # NoTable
        /\ \/ (b.aborted \/ EndTableFails(b, vt)) /\ AssertFails
           \/ /\ ~b.aborted /\ ~EndTableFails(b, vt)
              /\ Leaves(PatchSOffset(IF reuse THEN PopVtable(b, a.size) ELSE b, a.size, use),
                        "commit", Nothing, a.size)
              /\ vtables' = IF reuse THEN vtables ELSE Append(vtables, use)
              /\ offsetbuf' = <<>> /\ nested' = FALSE /\ table' = NoTable
              /\ UNCHANGED <<finished, flags, stringPool>>

-----------------------------------------------------------------------------
(* The whole buffer.                                                       *)

IdentCell == MkCell(4, 1, "ident", <<>>)

FinishedArena(root, ident, prefixed) ==
    LET a == PreAlign(buf, 4 + (IF prefixed THEN 4 ELSE 0) + (IF ident THEN 4 ELSE 0),
                      buf.minalign)
        b == PushOffset(IF ident THEN Push(a, IdentCell) ELSE a, root)
    IN  IF prefixed THEN PushElement(b, 4, "prefix", b.size) ELSE b

\* Finish and FinishSizePrefixed, with and without a file identifier.
Finish(root, ident, prefixed) ==
    LET b == FinishedArena(root, ident, prefixed)
    IN  /\ Building
        /\ \/ nested /\ AssertFails
           \/ /\ ~nested
              /\ Leaves(b, "finish", Nothing, root)
              /\ finished' = ~b.aborted
              /\ UNCHANGED <<nested, flags, stringPool, tracking>>

\* GetBufferPointer, GetBufferMinAlignment and ReleaseBufferPointer assert that
\* the buffer is finished; only the last changes anything.
ReleaseBufferPointer ==
    /\ Alive /\ buf.held
    /\ \/ ~finished /\ AssertFails
       \/ /\ finished
          /\ buf' = [buf EXCEPT !.held = FALSE, !.cells = NoCells, !.size = 0]
          /\ call' = Called("new", Nothing, 0)
          /\ UNCHANGED <<nested, finished, flags, stringPool, tracking>>

Clear ==
    /\ Alive
    /\ buf' = Cleared(buf)
    /\ offsetbuf' = <<>> /\ vtables' = <<>> /\ stringPool' = {}
    /\ nested' = FALSE /\ finished' = FALSE
    /\ table' = NoTable
    /\ call' = Called("new", Nothing, 0)
    /\ UNCHANGED flags

\* ForceDefaults and DedupVtables.
SetFlags(force, dedup) ==
    /\ Building
    /\ forceDefaults' = force /\ dedupVtables' = dedup
    /\ UNCHANGED <<buf, nested, finished, stringPool, tracking, call>>

Init ==
    /\ \E n \in InitialSizes : buf = EmptyBuffer(n)
    /\ offsetbuf = <<>> /\ vtables = <<>> /\ stringPool = {}
    /\ nested = FALSE /\ finished = FALSE
    /\ forceDefaults = FALSE /\ dedupVtables = TRUE
    /\ table = NoTable
    /\ call = Called("new", Nothing, 0)

FieldCalls ==
    \E i \in DOMAIN table.fields :
        \/ \E t \in DOMAIN ScalarTypes, v \in Values : AddElement(i, t, v)
        \/ \E off \in Places(buf) : AddOffset(i, off)
        \/ \E s \in DOMAIN Structs : AddStruct(i, s)

VectorCalls ==
    \E n \in Lengths :
        \/ \E t \in DOMAIN ScalarTypes : \E es \in [1..n -> Values] : CreateVector(t, es)
        \/ \E offs \in [1..n -> Places(buf)] : CreateVectorOfOffsets(offs)
        \/ \E s \in DOMAIN Structs : CreateVectorOfStructs(s, n)
        \/ \E alignment \in ForcedAligns : CreateForcedVector(n, alignment)

Next ==
    \/ \E text \in Texts : CreateString(text) \/ CreateSharedString(text)
    \/ VectorCalls
    \/ \E T \in Tables : StartTable(T)
    \/ FieldCalls
    \/ EndTable
    \/ \E root \in Roots(buf), ident, prefixed \in BOOLEAN : Finish(root, ident, prefixed)
    \/ ReleaseBufferPointer
    \/ Clear
    \/ \E f \in FlagChoices : SetFlags(f.force, f.dedup)

Spec == Init /\ [][Next]_builderVars

-----------------------------------------------------------------------------
(* Properties.                                                             *)

\* The type invariant: nothing is written that buf_ has no room for, and a table
\* is open exactly while the builder says so.
TypeOK ==
    /\ \A r \in DOMAIN buf.cells : buf.cells[r] \in Cell /\ r \in 1..buf.size
    /\ buf.size <= buf.reserved /\ buf.reserved % WordSize = 0
    /\ buf.minalign \in Nat \ {0} /\ buf.held \in BOOLEAN /\ buf.aborted \in BOOLEAN
    /\ \A k \in DOMAIN offsetbuf : offsetbuf[k].id \in DOMAIN table.fields
    /\ nested = (table # NoTable)
    /\ finished \in BOOLEAN /\ flags \in BOOLEAN \X BOOLEAN
    /\ stringPool \subseteq Places(buf) \/ ~buf.held

\* vtables_ lists the vtables in the buffer, whatever has been popped; while
\* deduplication is on, no two of them have the same content.
VtablesShared ==
    LET known == {vtables[k] : k \in DOMAIN vtables}
        Same(j, k) == buf.cells[vtables[j]].val = buf.cells[vtables[k]].val
    IN  buf.held =>
            /\ known = {r \in DOMAIN buf.cells : buf.cells[r].kind = "vtable"}
            /\ (\A f \in FlagChoices : f.dedup) =>
                  \A j, k \in DOMAIN vtables : Same(j, k) => j = k

\* A pooled offset leads to a string, after growth, Clear and release too, and no
\* two of them to strings that compare equal.
PoolLeadsToStrings ==
    buf.held =>
        /\ \A o \in stringPool :
              /\ {o, o - 4} \subseteq DOMAIN buf.cells
              /\ buf.cells[o].kind = "length" /\ buf.cells[o - 4].kind = "string"
        /\ \A o, p \in stringPool : CStr(TextAt(buf, o)) = CStr(TextAt(buf, p)) => o = p

\* Each field of a finished table is where the vtable says, in the table and apart
\* from the others, whether the vtable is its own or one it shares.
FieldsInTable ==
    \A r \in Roots(buf) :
        LET entries == Entries(buf, r)
            size    == buf.cells[VtableOf(buf, r)].val[2]
        IN  \A i \in Present(entries) :
                /\ r - entries[i] \in DOMAIN buf.cells
                /\ entries[i] >= 4
                /\ entries[i] + buf.cells[r - entries[i]].size <= size
                /\ \A j \in Present(entries) : entries[i] = entries[j] => i = j

\* Everything is aligned once the buffer is copied to an aligned address, but
\* what CreateVectorOfStructs and ForceVectorAlignment align without minalign_.
InVector(r) == r + 4 \in DOMAIN buf.cells /\ buf.cells[r + 4].kind = "length"
Untracked(r) == buf.cells[r].kind \in {"struct", "bytes"} /\ InVector(r)
FinishedAligned ==
    finished /\ buf.held =>
        \A r \in DOMAIN buf.cells : ~Untracked(r) => (buf.size - r) % buf.cells[r].align = 0

\* The root a reader finds.
RootPlace == IF buf.cells[buf.size].kind = "prefix" THEN buf.size - 4 ELSE buf.size
RootRead  == IF finished /\ buf.held THEN Target(buf, RootPlace, 1) ELSE 0

\* A size prefix counts what follows it.
PrefixCounts ==
    \A r \in DOMAIN buf.cells :
        buf.cells[r].kind = "prefix" => buf.cells[r].val[1] = buf.size - 4 /\ r = buf.size

\* GetBufferStartFromRootPointer: words before the root and its vtable are tried
\* in turn, at most five of them.
MaxAlignment == 16

WordAt(r) ==
    IF r \in DOMAIN buf.cells /\ buf.cells[r].kind \in {"uoffset", "prefix"}
    THEN buf.cells[r].val[1] ELSE 0

\* Mutant: the last word is not tried.
BufferStartShort(root) ==
    LET from == Greater(root, VtableOf(buf, root))
        At(k) == from + ((-from) % 4) + 4 * k
        hits == {k \in 1..(MaxAlignment \div 4) : WordAt(At(k)) = At(k) - root}
    IN  IF hits = {} THEN 0 ELSE At(FirstOf(hits))

BufferStart(root) ==
    LET from == Greater(root, VtableOf(buf, root))
        At(k) == from + ((-from) % 4) + 4 * k
        hits == {k \in 1..(MaxAlignment \div 4 + 1) : WordAt(At(k)) = At(k) - root}
    IN  IF hits = {} THEN 0 ELSE At(FirstOf(hits))

\* The start of the buffer is found from its root when the root is what has been
\* built last: five words are enough for padding, identifier and root offset.
StartFoundFromRoot ==
    finished /\ buf.held /\ (\A r \in Places(buf) : r <= RootRead) =>
        BufferStart(RootRead) = RootPlace

\* FlatBufferBuilder's own view of what it builds: vtables are shared also when
\* one was popped again, fields lie in their tables, the pool leads to its
\* strings, and a finished buffer is aligned, counted and found from its root.
BuiltSound ==
    /\ VtablesShared /\ FieldsInTable /\ PoolLeadsToStrings
    /\ FinishedAligned /\ PrefixCounts /\ StartFoundFromRoot

\* The offset CreateSharedString returns leads to the string it was given.
SharesExactStrings ==
    [][call'.op = "share" =>
          TextContent(TextAt(buf', call'.at)) = call'.arg]_builderVars

\* A client that adds no field twice reads what it has written: another
\* implementation of the store of immutable items.
DraftRead ==
    IF table = NoTable THEN [open |-> FALSE]
    ELSE LET Loc(i) == CHOOSE k \in DOMAIN offsetbuf : offsetbuf[k].id = i
             ids    == {offsetbuf[k].id : k \in DOMAIN offsetbuf}
         IN  [open |-> TRUE, fields |-> ReadFields(buf, [i \in ids |-> offsetbuf[Loc(i)].off])]

Store ==
    INSTANCE FlatStore WITH
        Handles  <- Nat \ {0},
        Contents <- [kind : CellKinds, size : Nat \ {0}, val : Seq(Int)],
        Absent   <- IsDefault,
        items    <- Items(buf),
        draft    <- DraftRead,
        root     <- RootRead

ImplementsFlatStore == Store!Spec

=============================================================================
