------------------------------ MODULE Builder ------------------------------
(***************************************************************************)
(* The Builder class of builder.swift: one action per public operation,    *)
(* called in any order with any argument of small sets, every error path   *)
(* included.  A failing call is modelled by what it has changed before it  *)
(* throws.  GeneratedClient restricts the order of the calls to the one    *)
(* the generated code and the documentation use.                           *)
(***************************************************************************)
EXTENDS Arena, FiniteSets

CONSTANTS
    Capacities,   \* arguments of Builder(capacity:)
    MaxOffset,    \* bound: no call is explored once offset() is beyond it,
    MaxItems,     \* ... or more items than this are written
    FieldCounts,  \* arguments of startObject
    ScalarTypes,  \* which put methods are explored (see WidthOf)
    Values,       \* scalar values
    Lengths,      \* lengths of strings, byte vectors and vectors
    Targets,      \* offsets a client may pass where a table offset is due
    Alignments,   \* alignments passed to startVector and prepare
    Identifiers,  \* file identifiers: [chars |-> characters, bytes |-> UTF-8 bytes]
    VOffsetRange  \* 2^16: VOffsetT(truncatingBitPattern:) is modulo this

\* Bool and the unsigned types share the path of the type of their width, but
\* for putByte(Int8) and putUnsignedByte (see PushScalar).
WidthOf == [Byte |-> 1, UByte |-> 1, Short |-> 2, Int |-> 4, Long |-> 8]
PowersOfTwo == {1, 2, 4, 8, 16, 32}

ASSUME BuilderAssumption ==
    /\ Capacities \subseteq Nat
    /\ FieldCounts \subseteq Nat
    /\ ScalarTypes \subseteq DOMAIN WidthOf
    /\ Values \subseteq Int
    /\ Lengths \subseteq Nat
    /\ Targets \subseteq Nat
    /\ Alignments \subseteq PowersOfTwo
    /\ Identifiers \subseteq [chars : Nat, bytes : Nat \ {0}]
    /\ VOffsetRange \in Nat \ {0}
    /\ MaxOffset \in Nat /\ MaxItems \in Nat

VARIABLES
    arena,         \* data, head and minalign, and the outcome of the last call
    vtable,        \* offsets of the fields written in the open object (0: none)
    objectEnd,     \* offset() when the open object was started
    vtables,       \* offsets of the vtables written so far
    nested,        \* an object or a vector is open
    finished,
    forceDefaults

vars == <<arena, vtable, objectEnd, vtables, nested, finished, forceDefaults>>

-----------------------------------------------------------------------------
(* Shapes shared by the operations.                                        *)

Zeros(n) == [i \in 1..n |-> 0]

Running ==
    /\ arena.thrown # "trap"
    /\ Off(arena) <= MaxOffset
    /\ Cardinality(DOMAIN arena.cells) <= MaxItems

\* The arena a call starts from: the outcome of the previous call is gone.
Fresh == [arena EXCEPT !.thrown = "ok"]

\* A call that only touches the buffer.
OnlyArena(a) ==
    /\ arena' = a
    /\ UNCHANGED <<vtable, objectEnd, vtables, nested, finished, forceDefaults>>

\* A call that throws, or traps, before it has changed anything.
Refuse(e) == OnlyArena(Throw(Fresh, e))

AssertNotNestedFails == nested /\ Refuse("InvalidConstructionOrder")
AssertNestedFails    == ~nested /\ Refuse("InvalidConstructionOrder")

InitBuilder ==
    /\ vtable = <<>>
    /\ objectEnd = 0
    /\ nested = FALSE
    /\ finished = FALSE
    /\ forceDefaults = FALSE

InitWithCapacity ==
    /\ InitBuilder
    /\ \E c \in Capacities : arena = EmptyArena(c)
    /\ vtables = <<>>

\* Builder(data:) with an empty Data.  The list of vtables starts with sixteen
\* zeros.  (With any other Data head starts beyond the end of the emptied
\* buffer, and the first offset() traps.)
InitWithData ==
    /\ InitBuilder
    /\ arena = EmptyArena(0)
    /\ vtables = Zeros(16)

Init == InitWithCapacity \/ InitWithData

-----------------------------------------------------------------------------
(* State of the builder as a whole.                                        *)

\* Mutant: the list of vtables survives reset.
ResetKeepingVtables ==
    /\ arena' = EmptyArena(0)
    /\ vtable' = <<>>
    /\ nested' = FALSE
    /\ finished' = FALSE
    /\ UNCHANGED <<vtables, objectEnd, forceDefaults>>

\* removeAll leaves no byte with or without keepingCapacity; forceDefaults
\* and objectEnd are not touched.
Reset ==
    /\ arena' = EmptyArena(0)
    /\ vtable' = <<>>
    /\ vtables' = <<>>
    /\ nested' = FALSE
    /\ finished' = FALSE
    /\ UNCHANGED <<objectEnd, forceDefaults>>

ForceDefault(forced) ==
    /\ forceDefaults' = forced
    /\ arena' = Fresh
    /\ UNCHANGED <<vtable, objectEnd, vtables, nested, finished>>

GetData ==
    \/ finished /\ OnlyArena(Fresh)
    \/ ~finished /\ Refuse("BuilderHasnotFinishYet")

-----------------------------------------------------------------------------
(* Scalars.                                                                *)

\* put<Type>WithoutPrepare(with:).  Data.putByte(Int8) traps below zero, once
\* the index has been checked.
PushScalar(a, t, v) ==
    LET b == Push(a, Scalar(WidthOf[t], v))
    IN  IF t = "Byte" /\ v < 0 /\ ~Failed(b) THEN Throw(a, "trap") ELSE b

PutScalarWithoutPrepare(t, v) == OnlyArena(PushScalar(Fresh, t, v))

\* put<Type>(with:), an element of a vector or a member of a struct.
ScalarPut(t, v) == PushScalar(Prepare(Fresh, WidthOf[t], 0), t, v)
PutScalar(t, v) == OnlyArena(ScalarPut(t, v))

\* Mutant: the offset is taken before the field is written.
RecordFieldBefore(index, b) ==
    /\ arena' = IF ~Failed(b) /\ index \notin DOMAIN vtable THEN Throw(b, "trap") ELSE b
    /\ vtable' = IF ~Failed(b) /\ index \in DOMAIN vtable
                 THEN [vtable EXCEPT ![index] = Off(arena)] ELSE vtable
    /\ UNCHANGED <<objectEnd, vtables, nested, finished, forceDefaults>>

\* self.vtable[index] = self.offset() once b is written; indices start at 1.
RecordField(index, b) ==
    /\ \/ Failed(b) /\ arena' = b /\ vtable' = vtable
       \/ /\ ~Failed(b) /\ index \in DOMAIN vtable
          /\ arena' = b
          /\ vtable' = [vtable EXCEPT ![index] = Off(b)]
       \/ /\ ~Failed(b) /\ index \notin DOMAIN vtable
          /\ arena' = Throw(b, "trap") /\ vtable' = vtable
    /\ UNCHANGED <<objectEnd, vtables, nested, finished, forceDefaults>>

\* put<Type>(offset:with:byDefault:), a field of a table.
PutScalarField(index, t, v, default) ==
    \/ ~forceDefaults /\ v = default /\ OnlyArena(Fresh)
    \/ (forceDefaults \/ v # default) /\ RecordField(index, ScalarPut(t, v))

-----------------------------------------------------------------------------
(* Vectors and strings.                                                    *)

\* Mutant: only the length is prepared for, not the elements.
StartVectorForLength(a, elemSize, n, alignment) == Prepare(a, 4, elemSize * n)

StartVectorArena(a, elemSize, n, alignment) ==
    Prepare(Prepare(a, 4, elemSize * n), alignment, elemSize * n)

StartVector(elemSize, n, alignment) ==
    \/ AssertNotNestedFails
    \/ /\ ~nested
       /\ arena' = StartVectorArena(Fresh, elemSize, n, alignment)
       /\ nested' = TRUE
       /\ UNCHANGED <<vtable, objectEnd, vtables, finished, forceDefaults>>

\* endVector writes the length into the space startVector asked for.
FinishVector(a, n) ==
    LET b == Push(a, LengthCell(n))
    IN  /\ arena' = b
        /\ nested' = Failed(b)
        /\ UNCHANGED <<vtable, objectEnd, vtables, finished, forceDefaults>>

EndVector(n) ==
    \/ AssertNestedFails
    \/ nested /\ FinishVector(Fresh, n)

\* The table offsets are written from the last; the space for all of them is
\* reserved, so only an offset beyond offset() stops the loop, after the
\* elements behind it have been written.  Element k of n starts with offset()
\* at off + 4 * (n - k).
Unreachable(targets, off) ==
    {k \in DOMAIN targets : targets[k] > off + 4 * (Len(targets) - k)}

LastOf(S) == CHOOSE m \in S \cup {0} : \A k \in S : k <= m

Distances(targets, off, m) ==
    [k \in 1..(Len(targets) - m) |->
        off + 4 * (Len(targets) - (k + m)) - targets[k + m] + 4]

OffsetsArena(a, targets) ==
    LET b    == StartVectorArena(a, 4, Len(targets), 4)
        bad  == Unreachable(targets, Off(b))
        dist == Distances(targets, Off(b), LastOf(bad))
        c    == Push(b, MkCell(4 * Len(dist), 4, "uoffset", dist))
    IN  IF Failed(c) \/ bad = {} THEN c ELSE Throw(c, "UnreachableOffset")

CreateVectorOfTables(targets) ==
    \/ AssertNotNestedFails
    \/ ~nested /\ FinishVector(OffsetsArena(Fresh, targets), Len(targets))

\* The bytes and a terminating zero, then the length.
CreateString(n) ==
    \/ AssertNotNestedFails
    \/ ~nested /\ FinishVector(Push(Prepare(Fresh, 4, n + 1),
                                    MkCell(n + 1, 1, "string", <<>>)), n)

\* As createString, room for a terminator included, but none is written.
CreateByteVector(n) ==
    \/ AssertNotNestedFails
    \/ ~nested /\ FinishVector(Push(Prepare(Fresh, 4, n + 1),
                                    MkCell(n, 1, "bytes", <<>>)), n)

-----------------------------------------------------------------------------
(* Objects.                                                                *)

\* Mutant: where the object ends is not noted.
StartObjectWithoutEnd(n) ==
    \/ AssertNotNestedFails
    \/ ~nested /\ n = 0 /\ Refuse("trap")
    \/ /\ ~nested /\ n > 0
       /\ vtable' = IF Len(vtable) < n THEN Zeros(n) ELSE Zeros(n - 1)
       /\ nested' = TRUE
       /\ arena' = [Fresh EXCEPT !.minalign = 1]
       /\ UNCHANGED <<objectEnd, vtables, finished, forceDefaults>>

\* Mutant: a vtable that is there is cut but not cleared.
StartObjectUncleared(n) ==
    \/ AssertNotNestedFails
    \/ ~nested /\ n = 0 /\ Refuse("trap")
    \/ /\ ~nested /\ n > 0
       /\ vtable' = IF Len(vtable) < n THEN Zeros(n) ELSE SubSeq(vtable, 1, n - 1)
       /\ nested' = TRUE
       /\ objectEnd' = Off(arena)
       /\ arena' = [Fresh EXCEPT !.minalign = 1]
       /\ UNCHANGED <<vtables, finished, forceDefaults>>

\* A vtable that endObject has not consumed is cut to numberOfFields - 1
\* entries, so startObject(0) asks for a range starting at -1.
StartObject(n) ==
    \/ AssertNotNestedFails
    \/ ~nested /\ n = 0 /\ Refuse("trap")
    \/ /\ ~nested /\ n > 0
       /\ vtable' = IF Len(vtable) < n THEN Zeros(n) ELSE Zeros(n - 1)
       /\ nested' = TRUE
       /\ objectEnd' = Off(arena)
       /\ arena' = [Fresh EXCEPT !.minalign = 1]
       /\ UNCHANGED <<vtables, finished, forceDefaults>>

PutUnsignedTableOffset(target) == OnlyArena(PutUOffset(Fresh, target))

PutOffset(index, target, default) ==
    \/ ~forceDefaults /\ target = default /\ OnlyArena(Fresh)
    \/ /\ forceDefaults \/ target # default
       /\ RecordField(index, PutUOffset(Fresh, target))

\* A struct is stored inline: it must be the item written last.
PutStruct(index, target, default) ==
    \/ target = default /\ OnlyArena(Fresh)
    \/ target # default /\ AssertNestedFails
    \/ /\ target # default /\ nested
       /\ \/ target # Off(arena) /\ Refuse("InlineDataOutsideObject")
          \/ target = Off(arena) /\ RecordField(index, Fresh)

-----------------------------------------------------------------------------
(* writeVirtualTable: the end of an object.                                *)

\* getUsignedShort at the first short of the vtable at rear offset r; past
\* the end of the data it reads 0.
VtableBytes(a, r) ==
    IF r \in DOMAIN a.cells /\ a.cells[r].val # <<>> THEN a.cells[r].val[1] ELSE 0

\* vt2 is the subrange [start + 4, start + bytes + 1), one byte more than the
\* entries.  Contents are compared with the FRONT of data, which is unwritten
\* and reads 0: an entry matches only where the field is absent.
VtableEqual(vt, bytes) ==
    /\ 2 * Len(vt) = bytes - 3
    /\ \A i \in DOMAIN vt : vt[i] = 0

\* The shorts of the new vtable: its size, the size of the object, the fields.
VtableFields(objectOffset) ==
    [i \in 1..Len(vtable) |->
        IF vtable[i] = 0 THEN 0 ELSE (objectOffset - vtable[i]) % VOffsetRange]
VtableShorts(objectOffset) ==
    <<(2 * (Len(vtable) + 2)) % VOffsetRange,
      (objectOffset - objectEnd) % VOffsetRange>> \o VtableFields(objectOffset)

\* reset keeps objectEnd: when no object has been started since, the size of
\* the object underflows, once the fields have been written.
PutVtable(a, objectOffset) ==
    IF objectOffset >= objectEnd THEN PutShorts(a, VtableShorts(objectOffset))
    ELSE LET b == PutShorts(a, VtableFields(objectOffset))
         IN  IF Failed(b) THEN b ELSE Throw(b, "trap")

\* Mutant: the index is computed from the size data had before the call.
PatchSOffsetStale(a, objectOffset, target) ==
    Write(a, arena.count - objectOffset,
          MkCell(4, 4, "soffset", <<target - objectOffset>>))

\* Mutant: the index is that of the bytes behind the soffset.
PatchSOffsetBehind(a, objectOffset, target) ==
    Write(a, a.count - objectOffset + 4,
          MkCell(4, 4, "soffset", <<target - objectOffset>>))

\* The soffset at the start of the object, patched once the vtable is known;
\* its index is computed from the size data has then.
PatchSOffset(a, objectOffset, target) ==
    Write(a, a.count - objectOffset,
          MkCell(4, 4, "soffset", <<target - objectOffset>>))

\* The vtables the search looks at: from the newest down to the first equal.
Examined(a) ==
    {k \in 1..Len(vtables) :
        \A j \in (k + 1)..Len(vtables) :
            ~VtableEqual(vtable, VtableBytes(a, vtables[j]))}
Equal(a) == {k \in Examined(a) : VtableEqual(vtable, VtableBytes(a, vtables[k]))}

WriteVirtualTableThen(flag) ==
    LET placed   == PutSOffset(Fresh, 0)
        object   == Off(placed)
        badRange == /\ ~Failed(placed)
                    /\ \E k \in Examined(placed) : VtableBytes(placed, vtables[k]) < 3
        shared   == {vtables[k] : k \in Equal(placed)} \ {0}
        shorts   == PutVtable(placed, object)
        written  == IF shared = {}
                    THEN PatchSOffset(shorts, object, Off(shorts))
                    ELSE PatchSOffset(placed, object, CHOOSE r \in shared : TRUE)
    IN  /\ UNCHANGED <<objectEnd, finished, forceDefaults>>
        /\ \/ /\ ~badRange /\ Failed(written)
              /\ arena' = written
              /\ UNCHANGED <<vtable, vtables, nested>>
           \/ /\ badRange                       \* subdata of a negative range
              /\ arena' = Throw(placed, "trap")
              /\ UNCHANGED <<vtable, vtables, nested>>
           \/ /\ ~badRange /\ ~Failed(written)
              /\ arena' = written
              /\ vtables' = IF shared = {} THEN Append(vtables, Off(written))
                            ELSE vtables
              /\ vtable' = <<>>
              /\ nested' = flag

WriteVirtualTable == WriteVirtualTableThen(nested)

EndObject ==
    \/ AssertNestedFails
    \/ nested /\ WriteVirtualTableThen(FALSE)

-----------------------------------------------------------------------------
(* finish.                                                                 *)

\* Mutant: finished = true although the offset of the root was refused.
FinishArenaAnyway(a, root) ==
    /\ arena' = PutUOffset(Prepare(a, a.minalign, 4), root)
    /\ finished' = TRUE
    /\ UNCHANGED <<vtable, objectEnd, vtables, nested, forceDefaults>>

\* Mutant: the bytes of the root's offset are not counted.
FinishArenaTight(a, root) ==
    LET b == PutUOffset(Prepare(a, a.minalign, 0), root)
    IN  /\ arena' = b
        /\ finished' = (finished \/ ~Failed(b))
        /\ UNCHANGED <<vtable, objectEnd, vtables, nested, forceDefaults>>

FinishArena(a, root) ==
    LET b == PutUOffset(Prepare(a, a.minalign, 4), root)
    IN  /\ arena' = b
        /\ finished' = (finished \/ ~Failed(b))
        /\ UNCHANGED <<vtable, objectEnd, vtables, nested, forceDefaults>>

Finish(root) ==
    \/ AssertNotNestedFails
    \/ ~nested /\ FinishArena(Fresh, root)

\* The identifier is written before finish(by:) checks that nothing is open.
FinishWithIdentifier(root, id) ==
    LET b == Prepare(Fresh, Fresh.minalign, 8)
        c == PutRun(b, 1, MkCell(id.bytes, 1, "ident", <<>>))
    IN  \/ Failed(b) /\ OnlyArena(b)
        \/ ~Failed(b) /\ id.chars # 4 /\ OnlyArena(Throw(b, "InvalidFileIdentifier"))
        \/ /\ ~Failed(b) /\ id.chars = 4
           /\ \/ Failed(c) /\ OnlyArena(c)
              \/ ~Failed(c) /\ nested /\ OnlyArena(Throw(c, "InvalidConstructionOrder"))
              \/ ~Failed(c) /\ ~nested /\ FinishArena(c, root)

-----------------------------------------------------------------------------
(* The whole.                                                              *)

PutCalls ==
    \/ \E t \in ScalarTypes, v \in Values :
          \/ PutScalar(t, v)
          \/ PutScalarWithoutPrepare(t, v)
          \/ \E i \in 1..2, d \in Values : PutScalarField(i, t, v, d)
    \/ \E o \in Targets :
          \/ PutUnsignedTableOffset(o)
          \/ OnlyArena(PutSOffset(Fresh, o))
          \/ \E i \in 1..2, d \in Targets : PutOffset(i, o, d) \/ PutStruct(i, o, d)
    \/ \E n \in Alignments, m \in Lengths : OnlyArena(Prepare(Fresh, n, m))
    \/ \E n \in Lengths : OnlyArena(PaddingZero(Fresh, n))

VectorCalls ==
    \/ \E n \in Lengths :
          \/ EndVector(n) \/ CreateString(n) \/ CreateByteVector(n)
          \/ \E t \in ScalarTypes, al \in Alignments : StartVector(WidthOf[t], n, al)
          \/ \E s \in [1..n -> Targets] : CreateVectorOfTables(s)

ObjectCalls ==
    \/ \E n \in FieldCounts : StartObject(n)
    \/ EndObject
    \/ WriteVirtualTable

BuilderCalls ==
    \/ Reset
    \/ \E b \in BOOLEAN : ForceDefault(b)
    \/ GetData
    \/ \E o \in Targets : Finish(o)
    \/ \E o \in Targets, id \in Identifiers : FinishWithIdentifier(o, id)

Next == Running /\ (PutCalls \/ VectorCalls \/ ObjectCalls \/ BuilderCalls)

Spec == Init /\ [][Next]_vars

-----------------------------------------------------------------------------
(* Properties that hold for any client, whatever it calls in whatever      *)
(* order and however many of its calls fail.                               *)

\* The type invariant: head is an index of data, or its end.
TypeOK ==
    /\ ArenaTypeOK(arena)
    /\ vtable \in Seq(Nat) /\ vtables \in Seq(Nat)
    /\ objectEnd \in Nat
    /\ nested \in BOOLEAN /\ finished \in BOOLEAN /\ forceDefaults \in BOOLEAN

\* Written items lie between head and the end of data and never share a byte:
\* no write and no growth moves one item over another.
CellsApart == Apart(arena)

\* What a call has written, later calls leave alone until reset: growing,
\* padding at the front of data, and the patch endObject applies through an
\* index computed from data.count touch nothing that was complete before.
WrittenStays ==
    [][arena' # EmptyArena(0) => Keeps(arena, arena')]_vars

\* Every table offset in the buffer leads to bytes written before it, and not
\* past the end: whoever follows offsets terminates inside the data, even on
\* a buffer some calls of which have failed.
OffsetsLeadBack == LeadBack(arena)

\* The builder's own bookkeeping leads to what has been written: a recorded field
\* was written since its object was started, also where endVector has closed
\* the object before, and a registered vtable is one that is complete, so that
\* sharing it could never hand out half of a vtable.
BookkeepingLeadsBack ==
    /\ vtable # <<>> => objectEnd <= Off(arena)
    /\ \A i \in DOMAIN vtable : vtable[i] = 0 \/ vtable[i] \in objectEnd..Off(arena)
    /\ \A k \in DOMAIN vtables :
          \/ vtables[k] = 0
          \/ /\ vtables[k] \in DOMAIN arena.cells
             /\ arena.cells[vtables[k]].kind = "vtable"

\* A failed call leaves the builder able to say so: it never registers a
\* vtable, never marks the buffer finished and never closes what is open.
FailedCallsCommitNothing ==
    [][arena'.thrown # "ok" =>
        /\ vtables' = vtables /\ finished' = finished
        /\ nested => nested']_vars

=============================================================================
