----------------------------- MODULE SwiftReader -----------------------------
(***************************************************************************)
(* The Swift runtime's view of a finished buffer: the Data getters of      *)
(* base.swift, the accessors of Struct and Table, and the accessors and    *)
(* setters idl_gen_swift.cpp generates for a table of                      *)
(*                                                                         *)
(*    hp:int; pos:Vec; list:[int]; points:[Vec]; kid:Kid; name:string;     *)
(*                                                                         *)
(* where Vec is a struct that starts with an int x and Kid a table of hp   *)
(* and mana, written by a program that did not know mana yet.  Every       *)
(* object keeps a Data value of its own, copied from the one it was        *)
(* obtained from.                                                          *)
(*                                                                         *)
(* The buffer is what a client of the builder gets (Image): bytes, root    *)
(* first.  Integers are those of ByteBase^2 and ByteBase^4 values.         *)
(***************************************************************************)
EXTENDS Integers, Sequences, SequencesExt

CONSTANTS
    Objects,     \* the objects a client holds
    Contents,    \* what the buffers hold, see Content
    Orders,      \* the items behind the root table, in the order of the buffer
    StructSize,  \* the bytes of a Vec
    Default,     \* the default of hp and mana
    Values,      \* what setters are called with
    ByteBase,    \* 256; smaller where a run needs tables beyond a VOffsetT
    IndexAbsent  \* whether clients set elements of a vector that is not there

ReaderAssumption ==
    /\ StructSize \in Nat /\ StructSize % 4 = 0 /\ StructSize > 0
    /\ ByteBase \in 2..256 /\ IndexAbsent \in BOOLEAN

\* A field that is not stored is the empty sequence, one that is, the sequence
\* of its value.
Fields  == {"hp", "pos", "list", "points", "kid", "name"}
Absent(c, f) == c[f] = <<>>
Value(c, f)  == c[f][1]

-----------------------------------------------------------------------------
(* The buffer.                                                             *)

LE(n, width) == [i \in 1..width |-> (n \div ByteBase ^ (i - 1)) % ByteBase]
Zeros(n)     == [i \in 1..n |-> 0]
Vec(x)       == LE(x, 4) \o Zeros(StructSize - 4)

\* The slots of a Kid are those of hp and mana.
Slot == [hp |-> 4, mana |-> 6, pos |-> 6, list |-> 8, points |-> 10, kid |-> 12, name |-> 14]

\* A vtable and the start of its table, which follows it.
TableStart(size, entries) ==
    LET vtable == LE(4 + 2 * Len(entries), 2) \o LE(size, 2)
                    \o FlattenSeq([i \in DOMAIN entries |-> LE(entries[i], 2)])
    IN  vtable \o LE(Len(vtable), 4)

KidBytes(hp) == Zeros(2) \o TableStart(8, <<4>>) \o LE(hp, 4)
KidStart     == 8

ItemBytes(c, f) ==
    CASE f = "list"   -> LE(Len(Value(c, f)), 4)
                           \o FlattenSeq([i \in DOMAIN Value(c, f) |-> LE(Value(c, f)[i], 4)])
      [] f = "points" -> LE(Len(Value(c, f)), 4)
                           \o FlattenSeq([i \in DOMAIN Value(c, f) |-> Vec(Value(c, f)[i])])
      [] f = "kid"    -> KidBytes(Value(c, f))
      [] f = "name"   -> LE(Len(Value(c, f)), 4) \o Value(c, f)
                           \o Zeros(4 - (Len(Value(c, f)) % 4))

\* The fields in the table, in the order they lie in it, and where.
Inline(c) == SelectSeq(<<"hp", "pos", "list", "points", "kid", "name">>,
                       LAMBDA f : ~Absent(c, f))

SizeIn(f) == IF f = "pos" THEN StructSize ELSE 4

InlineAt(c, f) ==
    LET before == SelectSeq(Inline(c), LAMBDA g : Slot[g] < Slot[f])
    IN  IF Absent(c, f) THEN 0
        ELSE 4 + FoldSeq(LAMBDA g, n : n + SizeIn(g), 0, before)

VtableAt == 4
TableAt  == VtableAt + 16

\* Where an item lies, and what refers to it.
ItemAt(c, order, f) ==
    LET k      == CHOOSE i \in DOMAIN order : order[i] = f
        inline == FoldSeq(LAMBDA g, n : n + SizeIn(g), 4, Inline(c))
    IN  FoldSeq(LAMBDA g, n : IF Absent(c, g) THEN n ELSE n + Len(ItemBytes(c, g)),
                TableAt + inline, SubSeq(order, 1, k - 1))

InlineBytes(c, order, f) ==
    LET target == ItemAt(c, order, f) + (IF f = "kid" THEN KidStart ELSE 0)
    IN  CASE f = "hp"  -> LE(Value(c, f), 4)
          [] f = "pos" -> Vec(Value(c, f))
          [] OTHER     -> LE(target - (TableAt + InlineAt(c, f)), 4)

Image(c, order) ==
    LET inline  == Inline(c)
        behind  == SelectSeq(order, LAMBDA f : ~Absent(c, f))
        entries == [i \in 1..6 |-> InlineAt(c, <<"hp", "pos", "list", "points", "kid", "name">>[i])]
        size    == FoldSeq(LAMBDA g, n : n + SizeIn(g), 4, inline)
    IN  LE(TableAt, 4) \o TableStart(size, entries)
          \o FlattenSeq([i \in DOMAIN inline |-> InlineBytes(c, order, inline[i])])
          \o FlattenSeq([i \in DOMAIN behind |-> ItemBytes(c, behind[i])])

-----------------------------------------------------------------------------
(* Getters of Data.                                                        *)

\* The bounds getInteger asks for: an integer that ends with the data is not
\* in it.  (One that starts in front of the data and ends in it would trap.)
InData(d, at, width) == at + width \in 1 .. Len(d) - 1

Signed(byte) == IF byte >= ByteBase \div 2 THEN byte - ByteBase ELSE byte
GetInteger(d, at, width) ==
    IF InData(d, at, width)
    THEN FoldSeq(LAMBDA i, n : n + d[at + i] * ByteBase ^ (i - 1),
                 Signed(d[at + width]) * ByteBase ^ (width - 1), [i \in 1..width - 1 |-> i])
    ELSE 0

\* Int16: vtable entries are written as UInt16 and read as this.
GetShort(d, at) == GetInteger(d, at, 2)
GetInt(d, at)   == GetInteger(d, at, 4)

\* ensureIndexOrRangeIsAvailable: a put that is not in the data is dropped by
\* the setters, which use `try?`.
PutInt(d, at, v) ==
    IF at + 3 >= Len(d) THEN d
    ELSE [i \in DOMAIN d |-> IF i \in (at + 1)..(at + 4) THEN LE(v, 4)[i - at] ELSE d[i]]

-----------------------------------------------------------------------------
(* Accessors of Struct and Table, of an object o.                          *)

\* Mutant: an entry is read though the vtable may be too short.
FieldOffsetUnchecked(o, slot) ==
    GetShort(o.data, o.at - GetInt(o.data, o.at) + slot)

\* __offset
FieldOffset(o, slot) ==
    LET vtable == o.at - GetInt(o.data, o.at)
    IN  IF slot < GetShort(o.data, vtable) THEN GetShort(o.data, vtable + slot) ELSE 0

Indirect(o, at)      == at + GetInt(o.data, at)
VectorLength(o, off) == GetInt(o.data, Indirect(o, off + o.at))
Vector(o, off)       == Indirect(o, off + o.at) + 4
String(o, at) ==
    LET start == Indirect(o, at)
    IN  SubSeq(o.data, start + 5, start + 4 + GetInt(o.data, start))

\* The generated getters.
Scalar(o, slot) ==
    LET off == FieldOffset(o, slot)
    IN  IF off # 0 THEN GetInt(o.data, off + o.at) ELSE Default
Hp(o)   == Scalar(o, Slot.hp)
Mana(o) == Scalar(o, Slot.mana)
X(o) == GetInt(o.data, o.at)
Count(o, f) ==
    LET off == FieldOffset(o, Slot[f]) IN IF off # 0 THEN VectorLength(o, off) ELSE 0
Element(o, i) ==
    LET off == FieldOffset(o, Slot.list)
    IN  IF off # 0 THEN GetInt(o.data, Vector(o, off) + i * 4) ELSE 0
Name(o) ==
    LET off == FieldOffset(o, Slot.name)
    IN  IF off # 0 THEN String(o, off + o.at) ELSE <<>>

\* Where the object of a nested table or struct is put, without a check that
\* the field is there, and that of an element of a vector of structs, four
\* bytes from the last whatever a struct's size.
PosAt(o)      == FieldOffset(o, Slot.pos) + o.at
KidAt(o)      == Indirect(o, FieldOffset(o, Slot.kid) + o.at)
PointAt(o, i) == Vector(o, FieldOffset(o, Slot.points)) + i * 4

-----------------------------------------------------------------------------
(* A client.  `content` is what an object's data stands for, `view` what   *)
(* the object is of: an accessor for a field that is not there gives one   *)
(* of nothing, which the client does not use.                              *)

VARIABLES
    file,  \* the data the client was given: what is in it and in which order
    objs   \* the objects: position, data, view and content

vars == <<file, objs>>

Fresh == [at |-> 0, data |-> <<>>, view |-> "fresh", content |-> [f \in Fields |-> <<>>], index |-> 0]

Init ==
    /\ file \in [content : Contents, order : Orders]
    /\ objs = [n \in Objects |-> Fresh]

GetRoot(n) ==
    LET data == Image(file.content, file.order)
    IN  /\ objs' = [objs EXCEPT ![n] = [at |-> GetInt(data, 0), data |-> data, view |-> "root",
                                        content |-> file.content, index |-> 0]]
        /\ UNCHANGED file

\* The object m is put at a place in the data of n: it takes a copy.
Assign(m, n, at, view, index) ==
    /\ objs' = [objs EXCEPT ![m] = [objs[n] EXCEPT !.at = at, !.view = view, !.index = index]]
    /\ UNCHANGED file

GetPos(n, m) ==
    /\ objs[n].view = "root"
    /\ Assign(m, n, PosAt(objs[n]), IF Absent(objs[n].content, "pos") THEN "nothing" ELSE "pos", 0)

GetKid(n, m) ==
    /\ objs[n].view = "root"
    /\ Assign(m, n, KidAt(objs[n]), IF Absent(objs[n].content, "kid") THEN "nothing" ELSE "kid", 0)

GetPoint(n, m, i) ==
    /\ objs[n].view = "root"
    /\ i < Count(objs[n], "points")
    /\ Assign(m, n, PointAt(objs[n], i), "point", i + 1)

\* Mutant: the setter of a field does not look whether it is there.
HpSetUnchecked(o, v) == PutInt(o.data, FieldOffset(o, Slot.hp) + o.at, v)

HpSet(o, v) ==
    IF FieldOffset(o, Slot.hp) = 0 THEN o.data
    ELSE PutInt(o.data, FieldOffset(o, Slot.hp) + o.at, v)

SetHp(n, v) ==
    LET o   == objs[n]
        new == CASE o.view = "kid" -> [o.content EXCEPT !.kid = <<v>>]
                 [] Absent(o.content, "hp") -> o.content
                 [] OTHER -> [o.content EXCEPT !.hp = <<v>>]
    IN  /\ o.view \in {"root", "kid"}
        /\ objs' = [objs EXCEPT ![n].data = HpSet(o, v), ![n].content = new]
        /\ UNCHANGED file

SetX(n, v) ==
    LET o   == objs[n]
        new == IF o.view = "pos" THEN [o.content EXCEPT !.pos = <<v>>]
               ELSE [o.content EXCEPT !.points = <<[o.content.points[1] EXCEPT ![o.index] = v]>>]
    IN  /\ o.view \in {"pos", "point"}
        /\ objs' = [objs EXCEPT ![n].data = PutInt(o.data, o.at, v), ![n].content = new]
        /\ UNCHANGED file

\* The setter of an element does not look whether the vector is there.
ElementSet(o, i, v) ==
    PutInt(o.data, Vector(o, FieldOffset(o, Slot.list)) + i * 4, v)

SetElement(n, i, v) ==
    LET o   == objs[n]
        new == IF Absent(o.content, "list") THEN o.content
               ELSE [o.content EXCEPT !.list = <<[o.content.list[1] EXCEPT ![i + 1] = v]>>]
    IN  /\ o.view = "root"
        /\ i < Count(o, "list") \/ (IndexAbsent /\ Count(o, "list") = 0 /\ i = 0)
        /\ objs' = [objs EXCEPT ![n].data = ElementSet(o, i, v), ![n].content = new]
        /\ UNCHANGED file

Next ==
    \E n \in Objects :
        \/ GetRoot(n)
        \/ \E m \in Objects : GetPos(n, m) \/ GetKid(n, m)
        \/ \E m \in Objects, i \in 0..1 : GetPoint(n, m, i)
        \/ \E v \in Values : SetHp(n, v) \/ SetX(n, v)
        \/ \E i \in 0..1, v \in Values : SetElement(n, i, v)

Spec == Init /\ [][Next]_vars

-----------------------------------------------------------------------------
(* Properties.                                                             *)

\* What is read of each object is what its data stands for, whatever else was
\* read and set before: the defaults of absent fields, counts and elements of
\* vectors, strings, nested tables and structs.
RootRight(o) ==
    LET c == o.content
    IN  /\ Hp(o) = IF Absent(c, "hp") THEN Default ELSE Value(c, "hp")
        /\ Count(o, "list") = IF Absent(c, "list") THEN 0 ELSE Len(Value(c, "list"))
        /\ ~Absent(c, "list") =>
              \A i \in DOMAIN Value(c, "list") : Element(o, i - 1) = Value(c, "list")[i]
        /\ Count(o, "points") = IF Absent(c, "points") THEN 0 ELSE Len(Value(c, "points"))
        /\ Name(o) = IF Absent(c, "name") THEN <<>> ELSE Value(c, "name")

ReadsRight ==
    \A n \in Objects :
        LET o == objs[n]
        IN  /\ o.view = "root"  => RootRight(o)
            /\ o.view = "kid"   => Hp(o) = Value(o.content, "kid") /\ Mana(o) = Default
            /\ o.view = "pos"   => X(o) = Value(o.content, "pos")
            /\ o.view = "point" => X(o) = Value(o.content, "points")[o.index]

\* A setter changes the bytes of what it sets and no others: an object's data
\* stays the buffer of what it stands for.
DataKept ==
    \A n \in Objects :
        objs[n].view # "fresh" => objs[n].data = Image(objs[n].content, file.order)

=============================================================================
