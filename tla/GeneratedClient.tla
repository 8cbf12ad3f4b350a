-------------------------- MODULE GeneratedClient --------------------------
(***************************************************************************)
(* A client that drives the Builder the way the code flatc generates for   *)
(* Swift (idl_gen_swift.cpp) and the unit tests do: what a table refers to *)
(* is built before the table is started, fields are added between start    *)
(* and end, each at most once, structs are created where they are added,   *)
(* finishBuffer comes last, and after an error the builder is only reset.  *)
(*                                                                         *)
(* A function of the generated code is one action here, however many       *)
(* builder calls it makes: the first that throws ends it.                  *)
(***************************************************************************)
EXTENDS Builder, FlatFormat

CONSTANTS
    Tables,        \* table types of the schema: sequences of FieldTypes
    Structs,       \* name of a struct type -> [bytes |-> bytesize, align |-> minalign]
    VectorTypes,   \* element types of the scalar vectors of the schema; one of
                   \* Byte traps as AddScalar does and is left out
    ByteVectors    \* whether the client also calls createByteVector

\* A field is a scalar, a reference to a string, vector or table, or a struct.
FieldTypes == ScalarTypes \cup {"offset"} \cup DOMAIN Structs

ASSUME ClientAssumption ==
    /\ Tables \subseteq Seq(FieldTypes)
    /\ DOMAIN Structs \cap (DOMAIN WidthOf \cup {"offset"}) = {}
    /\ \A s \in DOMAIN Structs :
          /\ Structs[s] \in [bytes : Nat \ {0}, align : PowersOfTwo]
          /\ Structs[s].bytes % Structs[s].align = 0
    /\ VectorTypes \subseteq DOMAIN WidthOf \ {"Byte"}
    /\ ByteVectors \in BOOLEAN

VARIABLES
    open,   \* the type of the table being built; <<>>: there is none
    call    \* the last call: operation, argument, and the offset it returned

clientVars == <<vars, open, call>>

-----------------------------------------------------------------------------
(* What the bytes stand for (FlatFormat) is the mapping under which the    *)
(* client implements FlatStore.                                            *)

\* The table under construction is only known through the builder's vtable.
DraftRead ==
    IF open = <<>> THEN [open |-> FALSE]
    ELSE [open |-> TRUE,
          fields |-> ReadFields(arena, [i \in Present(vtable) |-> vtable[i]])]

\* getData starts at head, with the offset of the root.
RootRead == IF finished THEN Target(arena, Off(arena), 1) ELSE 0

-----------------------------------------------------------------------------
(* The calls.                                                              *)

Going == Running /\ ~Failed(arena) /\ ~finished

Called(op, arg, at) == [op |-> op, arg |-> arg, at |-> at]

\* What the client sees of the step: a returned offset or an error.
Returns(op, arg, at) ==
    call' = IF Failed(arena') THEN Called("failed", Nothing, 0)
            ELSE Called(op, arg, at)

\* Strings and vectors: the action builds one and leaves head at its length.
NewItem(Action, n, content) ==
    /\ Going /\ open = <<>>
    /\ Action
    /\ Returns("build", IF n = 0 THEN Nothing ELSE content, Off(arena'))
    /\ UNCHANGED open

NewString(n) == NewItem(CreateString(n), n, Content("string", n + 1, <<>>))

NewByteVector(n) ==
    ByteVectors /\ NewItem(CreateByteVector(n), n, Content("bytes", n, <<>>))

\* createXVectory: startVector, the elements from the last, endVector.  All of
\* them fit, aligned, where startVector has prepared: they are one cell.
ElementsThenLength(size, align, kind, elements) ==
    LET n == Len(elements)
    IN  FinishVector(Push(StartVectorArena(Fresh, size, n, align),
                          MkCell(size * n, align, kind, elements)), n)

NewScalarVector(t, elements) ==
    NewItem(ElementsThenLength(WidthOf[t], WidthOf[t], "scalar", elements),
            Len(elements),
            Content("scalar", WidthOf[t] * Len(elements), elements))

\* startXVector(withNumberOfElement:), a createX for each struct, endVector.
NewStructVector(s, n) ==
    NewItem(ElementsThenLength(Structs[s].bytes, Structs[s].align, "struct", Zeros(n)),
            n, Content("struct", Structs[s].bytes * n, Zeros(n)))

\* createXVector of strings, and createVectorOfTables.
NewOffsetVector(targets) ==
    NewItem(CreateVectorOfTables(targets), Len(targets),
            Content("uoffset", 4 * Len(targets), targets))

StartTable(T) ==
    /\ Going /\ open = <<>>
    /\ StartObject(Len(T))
    /\ open' = IF nested' THEN T ELSE <<>>
    /\ Returns("begin", Nothing, 0)

\* A field that is not there yet.
Adding(i, type) == Going /\ i \in DOMAIN open /\ open[i] = type /\ vtable[i] = 0

AddScalar(i, t, v) ==
    /\ Adding(i, t)
    /\ PutScalarField(i, t, v, Default)
    /\ Returns("set", Content("scalar", WidthOf[t], <<v>>), i)
    /\ UNCHANGED open

AddOffset(i, target) ==
    /\ Adding(i, "offset")
    /\ PutOffset(i, target, 0)
    /\ Returns("set", Content("uoffset", 4, <<target>>), i)
    /\ UNCHANGED open

\* createX writes the members of a struct from the last, at the places their
\* alignment in the struct asks for.
CreateStruct(a, s) ==
    Push(Prepare(a, Structs[s].align, Structs[s].bytes),
         MkCell(Structs[s].bytes, Structs[s].align, "struct", <<0>>))

\* addX(builder, xOffset: createX(builder, ...)): nothing is between the two.
AddStruct(i, s) ==
    /\ Adding(i, s)
    /\ RecordField(i, CreateStruct(Fresh, s))
    /\ Returns("set", Content("struct", Structs[s].bytes, <<0>>), i)
    /\ UNCHANGED open

EndTable ==
    /\ Going /\ open # <<>>
    /\ EndObject
    /\ open' = IF nested' THEN open ELSE <<>>
    /\ Returns("commit", Nothing, Off(PutSOffset(Fresh, 0)))

\* finishBuffer, of a schema with a file identifier and of one without.
FinishBuffer(root) ==
    /\ Going /\ open = <<>>
    /\ Finish(root) \/ \E id \in Identifiers : FinishWithIdentifier(root, id)
    /\ Returns("finish", Nothing, root)
    /\ UNCHANGED open

ClientGetData == Running /\ finished /\ GetData /\ UNCHANGED <<open, call>>

ClientForceDefault(b) == Going /\ ForceDefault(b) /\ UNCHANGED <<open, call>>

ClientReset ==
    /\ arena.thrown # "trap"
    /\ Reset
    /\ open' = <<>>
    /\ call' = Called("new", Nothing, 0)

ClientInit ==
    /\ InitWithCapacity
    /\ open = <<>>
    /\ call = Called("new", Nothing, 0)

ClientNext ==
    \/ \E n \in Lengths : NewString(n) \/ NewByteVector(n)
    \/ \E n \in Lengths, t \in VectorTypes :
          \E elements \in [1..n -> Values] : NewScalarVector(t, elements)
    \/ \E n \in Lengths, s \in DOMAIN Structs : NewStructVector(s, n)
    \/ \E n \in Lengths : \E targets \in [1..n -> Places(arena)] : NewOffsetVector(targets)
    \/ \E T \in Tables : StartTable(T)
    \/ \E i \in DOMAIN open, t \in ScalarTypes, v \in Values : AddScalar(i, t, v)
    \/ \E i \in DOMAIN open, target \in Places(arena) : AddOffset(i, target)
    \/ \E i \in DOMAIN open, s \in DOMAIN Structs : AddStruct(i, s)
    \/ EndTable
    \/ \E root \in Roots(arena) : FinishBuffer(root)
    \/ ClientGetData
    \/ \E b \in BOOLEAN : ClientForceDefault(b)
    \/ ClientReset

ClientSpec == ClientInit /\ [][ClientNext]_clientVars

-----------------------------------------------------------------------------
(* Properties.                                                             *)

\* What the proofs ask of a schema and its values: a table has a field and few
\* enough for the size of its vtable, an identifier is four characters of one
\* byte (flatc takes no other), and no byte is negative.
SchemaFits ==
    /\ \A T \in Tables : T # <<>> /\ 2 * (Len(T) + 2) < VOffsetRange
    /\ \A id \in Identifiers : id.chars = 4 /\ id.bytes = 4
    /\ "Byte" \in ScalarTypes => Values \subseteq Nat

\* The bytes a field takes in its table at most: its own and its padding.
FieldSpan(f) ==
    IF f \in DOMAIN Structs THEN Structs[f].bytes + Structs[f].align
    ELSE 2 * (IF f = "offset" THEN 4 ELSE WidthOf[f])

\* ... and of a table, that its fields and its soffset are counted in 16 bits,
\* as a struct's size is for the compiler and nothing is for the builder.
SpanFits(T, span) ==
    /\ \A i \in DOMAIN T : FieldSpan(T[i]) <= span
    /\ Len(T) * span + 8 <= VOffsetRange
TablesFit == \A T \in Tables : \E span \in 0..VOffsetRange : SpanFits(T, span)

\* A client that keeps to the order of the generated code meets no error but
\* the one of a buffer that cannot grow: no trap, no unreachable offset, no
\* call in the wrong order, whatever it has built and however it has reset.
OnlyCapacityFails == arena.thrown \in {"ok", "capacity"}

\* Every scalar, offset, length, struct and vtable starts at a multiple of its
\* alignment, counted from the end of the buffer.
ItemsAligned == \A r \in DOMAIN arena.cells : r % arena.cells[r].align = 0

\* The vtable of a finished table stands right before it and describes it: its
\* own size, for each field added the place of a cell of the table, and the
\* size of the table, which takes in the soffset, every field and nothing else.
TablesWellFormed ==
    \A r \in Roots(arena) :
        LET vt     == arena.cells[VtableOf(arena, r)]
            size   == vt.val[2]
            fields == {r - Entries(arena, r)[i] : i \in Present(Entries(arena, r))}
        IN  /\ vt.val[1] = vt.size /\ VtableOf(arena, r) - vt.size = r
            /\ Cardinality(fields) = Cardinality(Present(Entries(arena, r)))
            /\ {s \in DOMAIN arena.cells : s \in (r - size + 1)..r} = fields \cup {r}
            /\ \A s \in fields : s - arena.cells[s].size >= r - size

\* A finished buffer starts with the offset of its root, behind it without a
\* gap the identifier when there is one: readers look for it at byte 4.
FinishedStartsWithRoot ==
    finished =>
        /\ Off(arena) \in DOMAIN arena.cells
        /\ arena.cells[Off(arena)].kind = "uoffset"
        /\ \A r \in DOMAIN arena.cells :
              arena.cells[r].kind = "ident" => r = Off(arena) - 4

\* A finished buffer is a multiple of every alignment used in it: copied to an
\* aligned address, everything in it is aligned there.
FinishedAligned ==
    finished => \A r \in DOMAIN arena.cells : Off(arena) % arena.cells[r].align = 0

\* Tables whose vtables have the same values share one.
VtablesShared ==
    \A r, s \in DOMAIN arena.cells :
        /\ arena.cells[r].kind = "vtable" /\ arena.cells[s].kind = "vtable"
        /\ arena.cells[r].val = arena.cells[s].val
        => r = s

\* What a reader decodes is what the client has asked for, at every moment:
\* the builder implements a store of immutable items (FlatStore).
Store ==
    INSTANCE FlatStore WITH
        Handles  <- Nat \ {0},
        Contents <- [kind : CellKinds, size : Nat \ {0}, val : Seq(Int)],
        Absent   <- IsDefault,
        items    <- Items(arena),
        draft    <- DraftRead,
        root     <- RootRead

ImplementsFlatStore == Store!Spec

=============================================================================
