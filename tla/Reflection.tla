----------------------------- MODULE Reflection -----------------------------
(***************************************************************************)
(* reflection.h and reflection.cpp: a buffer changed, copied and verified  *)
(* by its schema, without generated code.                                  *)
(*                                                                         *)
(* The buffer is its bytes.  A string or a vector of another length moves  *)
(* what lies behind it, so ResizeContext first walks over every offset     *)
(* that leads across the place; the calls nested in each other and the     *)
(* rest of each loop are the stack `todo`.                                 *)
(***************************************************************************)
EXTENDS Integers, Sequences, FiniteSets, SequencesExt

CONSTANTS
    Objects,        \* the schema: name -> [struct, size, align, fields]
    Unions,         \* union -> its members, a function from codes to names
    Root,           \* the type of the root
    Buffers,        \* buffers as a builder makes them
    Strings,        \* what SetString is called with
    NewSizes,       \* the sizes vectors are given
    Numbers,        \* the values of scalars
    Additions,      \* buffers AddFlatBuffer adds: type of root -> bytes
    Pooling,        \* use_string_pooling
    Calls,          \* how many calls are explored
    MaxDepth, MaxTables

\* A field as reflection.fbs describes it; fields are in the order of their
\* names.  `element` and `index` mean something for some types only.
Scalars   == {"UType", "Byte", "UByte", "Short", "UShort", "Int", "Long"}
BaseTypes == Scalars \cup {"String", "Vector", "Obj", "Union"}

ReflectionAssumption ==
    /\ \A o \in DOMAIN Objects : \A k \in DOMAIN Objects[o].fields :
        /\ Objects[o].fields[k].type \in BaseTypes
        /\ Objects[o].fields[k].element \in BaseTypes
    /\ Root \in DOMAIN Objects
    /\ \A b \in Buffers : b \in Seq(0..255)
    /\ Calls \in Nat /\ MaxDepth \in Nat /\ MaxTables \in Nat

VARIABLES
    buf,            \* the vector of bytes the buffer lives in
    meant,          \* what it should say
    call,           \* the call in progress
    todo,           \* what ResizeContext has to visit, the next one first
    changed,        \* dag_check_
    calls

reflectionVars == <<buf, meant, call, todo, changed, calls>>

-----------------------------------------------------------------------------
(* Bytes.                                                                  *)

Byte(b, p) == IF p \in 0..(Len(b) - 1) THEN b[p + 1] ELSE 0
U16(b, p)  == Byte(b, p) + 256 * Byte(b, p + 1)
Top(b, p)  == IF Byte(b, p) < 128 THEN Byte(b, p) ELSE Byte(b, p) - 256
S16(b, p)  == Byte(b, p) + 256 * Top(b, p + 1)
S32(b, p)  == U16(b, p) + 65536 * (Byte(b, p + 2) + 256 * Top(b, p + 3))
Bytes(b, p, n) == [i \in 1..n |-> Byte(b, p + i - 1)]

LittleEndian(v, n) ==
    [i \in 1..n |-> CASE i <= 4 -> (v \div 256^(i - 1)) % 256
                      [] v < 0  -> 255
                      [] OTHER  -> 0]
Written(b, p, bytes) ==
    [i \in DOMAIN b |->
        IF i \in (p + 1)..(p + Len(bytes)) THEN bytes[i - p] ELSE b[i]]
Inserted(b, p, n) == SubSeq(b, 1, p) \o [i \in 1..n |-> 0] \o SubSeq(b, p + 1, Len(b))
Erased(b, p, n)   == SubSeq(b, 1, p) \o SubSeq(b, p + n + 1, Len(b))

TypeSize == [UType |-> 1, Byte |-> 1, UByte |-> 1, Short |-> 2, UShort |-> 2, Int |-> 4,
             Long |-> 8, String |-> 4, Vector |-> 4, Obj |-> 4, Union |-> 4]
IsStruct(type, index) == type = "Obj" /\ Objects[index].struct
TypeSizeInline(type, index) ==
    IF IsStruct(type, index) THEN Objects[index].size ELSE TypeSize[type]
AlignInline(type, index) ==
    IF IsStruct(type, index) THEN Objects[index].align ELSE TypeSize[type]

-----------------------------------------------------------------------------
(* Getters.                                                                *)

GetAnyRoot(b)     == S32(b, 0)
VTable(b, t)      == t - S32(b, t)
FieldOffset(b, t, slot) ==
    IF slot < U16(b, VTable(b, t)) THEN U16(b, VTable(b, t) + slot) ELSE 0
CheckField(b, t, slot) == FieldOffset(b, t, slot) # 0
GetAddressOf(b, t, f)  == t + FieldOffset(b, t, f.offset)
Indirect(b, p)    == p + S32(b, p)
GetPointer(b, t, f)    == Indirect(b, GetAddressOf(b, t, f))
Element(v, size, k)    == v + 4 + size * (k - 1)

GetAnyValueI(type, b, p) ==
    CASE type \in {"UType", "UByte"} -> Byte(b, p)
      [] type = "Byte"   -> Top(b, p)
      [] type = "Short"  -> S16(b, p)
      [] type = "UShort" -> U16(b, p)
      [] OTHER           -> S32(b, p)

\* The value of the field a union's type is in, and the table it selects.
TypeField(obj, f) ==
    CHOOSE g \in Range(Objects[obj].fields) : g.name = f.name \o "_type"
UnionCode(b, obj, t, f) ==
    IF CheckField(b, t, TypeField(obj, f).offset)
    THEN Byte(b, GetAddressOf(b, t, TypeField(obj, f))) ELSE 0
GetUnionType(b, obj, t, f) ==
    IF UnionCode(b, obj, t, f) \in DOMAIN Unions[f.index]
    THEN Unions[f.index][UnionCode(b, obj, t, f)] ELSE Root

\* What a field leads to is a table of this type.
TableType(b, obj, t, f) ==
    IF f.type = "Union" THEN GetUnionType(b, obj, t, f) ELSE f.index
LeadsToTable(f) == f.type = "Union" \/ (f.type = "Obj" /\ ~IsStruct("Obj", f.index))

-----------------------------------------------------------------------------
(* What a buffer says: the tree a reader sees.  `fits` tells whether       *)
(* everything in it is aligned.  `put` is what one place should say        *)
(* instead of what it says.                                                *)

Node(kind, num, kids, fits) ==
    [kind |-> kind, num |-> num, kids |-> kids, fits |-> fits]
Absent == Node("absent", <<>>, <<>>, TRUE)
Broken == Node("broken", <<>>, <<>>, FALSE)
NoPut  == [at |-> -1, node |-> Absent]
Levels == 5

ReadString(b, s, put) ==
    IF s = put.at THEN put.node
    ELSE IF S32(b, s) \notin 0..Len(b) THEN Broken
    ELSE Node("string", Bytes(b, s + 4, S32(b, s)), <<>>,
              s % 4 = 0 /\ Byte(b, s + 4 + S32(b, s)) = 0)

Inline(b, p, type, index) ==
    IF IsStruct(type, index)
    THEN Node("struct", Bytes(b, p, Objects[index].size), <<>>, p % Objects[index].align = 0)
    ELSE Node("scalar", <<GetAnyValueI(type, b, p)>>, <<>>, p % TypeSize[type] = 0)

RECURSIVE ReadTable(_, _, _, _, _)
ReadVector(b, v, obj, t, f, put, level) ==
    LET size == TypeSizeInline(f.element, f.index)
        Item(k) ==
            LET p == Element(v, size, k)
            IN  CASE f.element = "String" -> ReadString(b, Indirect(b, p), put)
                  [] f.element = "Obj" /\ ~IsStruct("Obj", f.index) ->
                        ReadTable(b, f.index, Indirect(b, p), put, level - 1)
                  [] f.element = "Union" ->
                        LET types == GetPointer(b, t, TypeField(obj, f))
                        IN  ReadTable(b, Unions[f.index][Byte(b, types + 3 + k)],
                                      Indirect(b, p), put, level - 1)
                  [] OTHER -> Inline(b, p, f.element, f.index)
    IN  IF v = put.at THEN put.node
        ELSE IF S32(b, v) \notin 0..Len(b) THEN Broken
        ELSE Node("vector", <<>>, [k \in 1..S32(b, v) |-> Item(k)],
                  v % 4 = 0 /\ (v + 4) % AlignInline(f.element, f.index) = 0)

ReadField(b, obj, t, f, put, level) ==
    LET p == GetAddressOf(b, t, f)
    IN  CASE ~CheckField(b, t, f.offset) -> Absent
          [] f.type = "String" -> ReadString(b, Indirect(b, p), put)
          [] f.type = "Vector" -> ReadVector(b, Indirect(b, p), obj, t, f, put, level)
          [] LeadsToTable(f)   ->
                IF p = put.at THEN put.node
                ELSE ReadTable(b, TableType(b, obj, t, f), Indirect(b, p), put, level - 1)
          [] OTHER -> IF p = put.at THEN put.node ELSE Inline(b, p, f.type, f.index)

ReadTable(b, obj, t, put, level) ==
    IF level = 0 \/ t \notin 0..Len(b) \/ VTable(b, t) \notin 0..Len(b) THEN Broken
    ELSE Node(obj, <<>>,
              [k \in DOMAIN Objects[obj].fields |->
                    ReadField(b, obj, t, Objects[obj].fields[k], put, level)],
              t % 4 = 0)

Said(b)        == ReadTable(b, Root, GetAnyRoot(b), NoPut, Levels)
SaidWith(b, at, node) ==
    ReadTable(b, Root, GetAnyRoot(b), [at |-> at, node |-> node], Levels)

\* The tables, and the places of one of them, that pointers of a program that
\* walks over the buffer may have.
RECURSIVE TablesBelow(_, _, _)
TablesBelow(b, obj, t) ==
    {[obj |-> obj, at |-> t]} \cup UNION {
        LET f == Objects[obj].fields[k]
        IN  IF ~CheckField(b, t, f.offset) THEN {}
            ELSE IF LeadsToTable(f) THEN TablesBelow(b, TableType(b, obj, t, f), GetPointer(b, t, f))
            ELSE IF f.type = "Vector" /\ f.element = "Obj" /\ ~IsStruct("Obj", f.index)
            THEN UNION {TablesBelow(b, f.index, Indirect(b, Element(GetPointer(b, t, f), 4, i))) :
                            i \in 1..S32(b, GetPointer(b, t, f))}
            ELSE {} : k \in DOMAIN Objects[obj].fields}
Everywhere(b) == TablesBelow(b, Root, GetAnyRoot(b))
Stored(b, t)  == {f \in Range(Objects[t.obj].fields) : CheckField(b, t.at, f.offset)}

-----------------------------------------------------------------------------
(* A call in progress.  start and delta are those of ResizeContext.        *)

Call(kind, at, start, delta, bytes) ==
    [kind |-> kind, at |-> at, start |-> start, delta |-> delta, bytes |-> bytes]
NoCall == Call("none", 0, 0, 0, <<>>)
Idle   == call = NoCall

Visit(what, obj, at, k) == [what |-> what, obj |-> obj, at |-> at, k |-> k]
V      == Head(todo)
Due(w) == call # NoCall /\ todo # <<>> /\ V.what = w

Crosses(first, second) == first <= call.start /\ second >= call.start

\* Straddle: the offset at `loc` of direction d, when it leads across.
Straddle(first, second, loc, d) ==
    IF Crosses(first, second)
    THEN /\ buf' = Written(buf, loc, LittleEndian(S32(buf, loc) + call.delta * d, 4))
         /\ changed' = changed \cup {loc}
    ELSE UNCHANGED <<buf, changed>>

\* Mutant: DagCheck finds nothing changed.
NeverSeen(loc) == FALSE

DagCheck(loc) == loc \in changed

\* Goes on with what is to be visited inside this one.
Continue(inner) == todo' = inner \o Tail(todo) /\ UNCHANGED <<meant, call, calls>>
Skip == Continue(<<>>) /\ UNCHANGED <<buf, changed>>

Fields(obj, t) ==
    [k \in DOMAIN Objects[obj].fields |-> Visit("field", obj, t, k)]
    \o <<Visit("vtable", obj, t, 0)>>

\* ResizeTable: all fields point forwards, so a table behind the place has
\* none that lead across it.
ResizeTable ==
    /\ Due("table")
    /\ \/ DagCheck(V.at) /\ Skip
       \/ /\ ~DagCheck(V.at) /\ call.start <= V.at
          /\ Straddle(VTable(buf, V.at), V.at, V.at, -1)
          /\ Continue(<<>>)
       \/ /\ ~DagCheck(V.at) /\ call.start > V.at
          /\ Continue(Fields(V.obj, V.at)) /\ UNCHANGED <<buf, changed>>

ResizeField ==
    /\ Due("field")
    /\ LET f   == Objects[V.obj].fields[V.k]
           loc == GetAddressOf(buf, V.at, f)
           ref == Indirect(buf, loc)
       IN  IF \/ f.type \in Scalars \/ IsStruct(f.type, f.index)
              \/ ~CheckField(buf, V.at, f.offset) \/ DagCheck(loc)
           THEN Skip
           ELSE /\ Straddle(loc, ref, loc, 1)
                /\ Continue(
                    CASE LeadsToTable(f) ->
                            <<Visit("table", TableType(buf, V.obj, V.at, f), ref, 0)>>
                      [] f.type = "Vector" /\ f.element \in {"Obj", "String"}
                            /\ ~IsStruct(f.element, f.index) ->
                            [i \in 1..S32(buf, ref) |->
                                Visit(f.element, f.index, Element(ref, 4, i), 0)]
                      [] OTHER -> <<>>)

\* An element of a vector of strings or of tables.
ResizeElement ==
    /\ Due("String") \/ Due("Obj")
    /\ LET dest == Indirect(buf, V.at)
       IN  IF DagCheck(V.at) THEN Skip
           ELSE /\ Straddle(V.at, dest, V.at, 1)
                /\ Continue(IF V.what = "String" THEN <<>>
                            ELSE <<Visit("table", V.obj, dest, 0)>>)

\* Last, as the fields are found by it.
ResizeVTable ==
    /\ Due("vtable")
    /\ Straddle(V.at, VTable(buf, V.at), V.at, -1)
    /\ Continue(<<>>)

-----------------------------------------------------------------------------
(* The calls.                                                              *)

\* A multiple of the largest alignment.
Rounded(delta) == 8 * ((delta + 7) \div 8)

\* ResizeContext up to its walk: c has its start and delta, b the old content
\* cleared.
ResizeContext(b, c) ==
    LET across == c.start \in 0..GetAnyRoot(b)
    IN  /\ call' = c
        /\ IF c.delta = 0 THEN buf' = b /\ changed' = {} /\ todo' = <<>>
           ELSE /\ buf' = IF across THEN Written(b, 0, LittleEndian(S32(b, 0) + c.delta, 4)) ELSE b
                /\ changed' = IF across THEN {0} ELSE {}
                /\ todo' = <<Visit("table", Root, GetAnyRoot(b), 0)>>

\* The bytes of a string with the zero at its end.
SetString(s, val) ==
    LET old == S32(buf, s)
    IN  /\ IF Len(val) # old
           THEN ResizeContext(Written(buf, s + 4, [i \in 1..old |-> 0]),
                              Call("string", s, s + 4, Rounded(Len(val) - old), val))
           ELSE /\ buf' = Written(buf, s + 4, Append(val, 0))
                /\ UNCHANGED <<call, changed, todo>>
        /\ meant' = SaidWith(buf, s, Node("string", val, <<>>, TRUE))

\* ResizeVector of scalars with ResizeAnyVector inside: the new elements have
\* the value val.
ResizeVector(v, type, newsize, val) ==
    LET old   == S32(buf, v)
        size  == TypeSize[type]
        start == v + 4 + size * old
        gone  == IF newsize < old THEN size * (old - newsize) ELSE 0
        one   == LittleEndian(val, size)
        more  == [i \in 1..(size * (newsize - old)) |-> one[((i - 1) % size) + 1]]
    IN  /\ newsize # old
        /\ ResizeContext(Written(buf, start - gone, [i \in 1..gone |-> 0]),
                         Call("vector", v, start, Rounded(size * (newsize - old)),
                              LittleEndian(newsize, 4) \o more))
        /\ meant' = SaidWith(buf, v,
                Node("vector", <<>>,
                     [k \in 1..newsize |->
                        IF k <= old THEN Inline(buf, Element(v, size, k), type, Root)
                        ELSE Node("scalar", <<val>>, <<>>, TRUE)],
                     (v + 4) % size = 0))

\* All offsets visited: the bytes behind the place move, and the call writes
\* the new length and content.
Splice ==
    /\ ~Idle /\ todo = <<>>
    /\ LET moved == IF call.delta > 0 THEN Inserted(buf, call.start, call.delta)
                    ELSE Erased(buf, call.start, -call.delta)
       IN  buf' = IF call.kind = "string"
                  THEN Written(Written(moved, call.at, LittleEndian(Len(call.bytes), 4)),
                               call.start, Append(call.bytes, 0))
                  ELSE Written(Written(moved, call.at, SubSeq(call.bytes, 1, 4)),
                               call.start, SubSeq(call.bytes, 5, Len(call.bytes)))
    /\ call' = NoCall
    /\ UNCHANGED <<meant, todo, changed, calls>>

\* Zeros up to the size of an offset behind a multiple of eight.
AdditionPadding(b) == (4 - Len(b)) % 8

\* AddFlatBuffer and SetFieldT: the new root takes the place of what the field
\* of table t leads to.
AddFlatBuffer(t, f, new) ==
    LET padded == buf \o [i \in 1..AdditionPadding(buf) |-> 0]
        added  == Len(padded) + S32(new, 0) - 4
        loc    == GetAddressOf(buf, t, f)
    IN  /\ buf' = Written(padded \o SubSeq(new, 5, Len(new)), loc, LittleEndian(added - loc, 4))
        /\ meant' = SaidWith(buf, loc, ReadTable(new, f.index, GetAnyRoot(new), NoPut, Levels))
        /\ UNCHANGED <<call, changed, todo>>

\* SetAnyFieldI: the value is cut to the field's width.
Cut(type, val) == GetAnyValueI(type, LittleEndian(val, TypeSize[type]), 0)
SetAnyFieldI(t, f, val) ==
    LET loc == GetAddressOf(buf, t, f)
    IN  /\ buf' = Written(buf, loc, LittleEndian(val, TypeSize[f.type]))
        /\ meant' = SaidWith(buf, loc, Node("scalar", <<Cut(f.type, val)>>, <<>>, TRUE))
        /\ UNCHANGED <<call, changed, todo>>

-----------------------------------------------------------------------------
(* CopyTable: what the builder it is given has made, in that order; a      *)
(* reference is the number of an item.                                     *)

Item(kind, num, refs, cells) ==
    [kind |-> kind, num |-> num, refs |-> refs, cells |-> cells]
Made(items, ref)      == [items |-> items, ref |-> ref]
Create(items, item)   == Made(Append(items, item), Len(items) + 1)

StringItem(b, s) == Item("string", Bytes(b, s + 4, S32(b, s)), <<>>, <<>>)
CopyString(items, b, s, pool) ==
    IF pool /\ StringItem(b, s) \in Range(items)
    THEN Made(items, CHOOSE i \in DOMAIN items : items[i] = StringItem(b, s))
    ELSE Create(items, StringItem(b, s))

\* Copies one after the other, each with what they made before.
Copies(items, places, One(_, _)) ==
    FoldLeft(LAMBDA m, p : LET c == One(m.items, p)
                           IN  [items |-> c.items, refs |-> Append(m.refs, c.ref)],
             [items |-> items, refs |-> <<>>], places)

RECURSIVE CopyTable(_, _, _, _, _)
CopyVector(items, b, f, v, pool) ==
    LET size   == TypeSizeInline(f.element, f.index)
        places == [k \in 1..S32(b, v) |-> Indirect(b, Element(v, 4, k))]
        m      == Copies(items, places,
                    LAMBDA its, p : IF f.element = "String" THEN CopyString(its, b, p, pool)
                                    ELSE CopyTable(its, b, f.index, p, FALSE))
    IN  IF f.element = "String" \/ (f.element = "Obj" /\ ~IsStruct("Obj", f.index))
        THEN Create(m.items, Item("vector", <<>>, m.refs, <<>>))
        ELSE Create(items, Item("elements", Bytes(b, v + 4, size * S32(b, v)), <<>>, <<>>))

\* Mutant: a union is copied as a table of the type it has in the root.
CopiedTypeOfRoot(b, obj, t, f) == Root

CopiedType(b, obj, t, f) == TableType(b, obj, t, f)

IsReference(f) == f.type \in {"String", "Vector"} \/ LeadsToTable(f)

\* First what the fields lead to, then the table with the rest inline.
CopyTable(items, b, obj, t, pool) ==
    LET fields == SelectSeq(Objects[obj].fields, LAMBDA f : CheckField(b, t, f.offset))
        Sub(its, f) ==
            CASE f.type = "String" -> CopyString(its, b, GetPointer(b, t, f), pool)
              [] f.type = "Vector" -> CopyVector(its, b, f, GetPointer(b, t, f), pool)
              [] OTHER -> CopyTable(its, b, CopiedType(b, obj, t, f), GetPointer(b, t, f), FALSE)
        m == Copies(items, SelectSeq(fields, IsReference), Sub)
    IN  Create(m.items,
            Item(obj, [k \in DOMAIN fields |-> fields[k].offset], m.refs,
                 [k \in DOMAIN fields |->
                    IF IsReference(fields[k])
                    THEN <<Len(SelectSeq(SubSeq(fields, 1, k), IsReference))>>
                    ELSE Bytes(b, GetAddressOf(b, t, fields[k]),
                               TypeSizeInline(fields[k].type, fields[k].index))]))

\* What the copy says: the k-th cell of a table is the field with the slot
\* num[k], or which of the references it is.
RECURSIVE SaidByCopy(_, _, _)
Cell(type, index, bytes) ==
    IF IsStruct(type, index) THEN Node("struct", bytes, <<>>, TRUE)
    ELSE Node("scalar", <<GetAnyValueI(type, bytes, 0)>>, <<>>, TRUE)

SaidByItem(items, f, ref, type) ==
    LET it   == items[ref]
        size == TypeSizeInline(f.element, f.index)
    IN  CASE f.type = "String" -> Node("string", it.num, <<>>, TRUE)
          [] LeadsToTable(f)   -> SaidByCopy(items, type, ref)
          [] it.kind = "elements" ->
                Node("vector", <<>>,
                     [k \in 1..(Len(it.num) \div size) |->
                        Cell(f.element, f.index, SubSeq(it.num, size * (k - 1) + 1, size * k))], TRUE)
          [] OTHER ->
                Node("vector", <<>>,
                     [k \in DOMAIN it.refs |->
                        IF f.element = "String"
                        THEN Node("string", items[it.refs[k]].num, <<>>, TRUE)
                        ELSE SaidByCopy(items, f.index, it.refs[k])], TRUE)

SaidByCopy(items, obj, ref) ==
    LET it == items[ref]
        CellOf(f) == it.cells[CHOOSE i \in DOMAIN it.num : it.num[i] = f.offset]
        Type(f)   == IF f.type = "Union" THEN Unions[f.index][CellOf(TypeField(obj, f))[1]]
                     ELSE f.index
    IN  IF it.kind # obj THEN Broken
        ELSE Node(obj, <<>>,
              [k \in DOMAIN Objects[obj].fields |->
                LET f == Objects[obj].fields[k]
                IN  CASE f.offset \notin Range(it.num) -> Absent
                      [] IsReference(f) -> SaidByItem(items, f, it.refs[CellOf(f)[1]], Type(f))
                      [] OTHER -> Cell(f.type, f.index, CellOf(f))], TRUE)

Copy == CopyTable(<<>>, buf, Root, GetAnyRoot(buf), Pooling)

-----------------------------------------------------------------------------
(* Verify: the state of the Verifier after a check.                        *)

Checked(ok, depth, tables) == [ok |-> ok, depth |-> depth, tables |-> tables]
And(v, ok)    == [v EXCEPT !.ok = v.ok /\ ok]
Within(b, p, n) == p >= 0 /\ n >= 0 /\ p <= Len(b) - n
VectorWithin(b, v, size) == Within(b, v, 4) /\ Within(b, v, 4 + size * S32(b, v))
StringWithin(b, s) == VectorWithin(b, s, 1) /\ Within(b, s, 5 + S32(b, s))
                      /\ Byte(b, s + 4 + S32(b, s)) = 0

\* VerifyTableStart and VerifyComplexity; no EndTable follows.
TableStart(v, b, t) ==
    And(Checked(v.ok, v.depth + 1, v.tables + 1),
        /\ Within(b, t, 4) /\ v.depth + 1 <= MaxDepth /\ v.tables + 1 <= MaxTables
        /\ Within(b, VTable(b, t), 2) /\ U16(b, VTable(b, t)) % 2 = 0
        /\ Within(b, VTable(b, t), U16(b, VTable(b, t))))

RECURSIVE VerifyObject(_, _, _, _)
VerifyVector(v, b, f, p) ==
    LET vec   == Indirect(b, p)
        elems == [k \in 1..S32(b, vec) |-> Indirect(b, Element(vec, 4, k))]
    IN  CASE ~VectorWithin(b, vec, TypeSizeInline(f.element, f.index)) -> And(v, FALSE)
          [] f.element = "String" -> And(v, \A k \in DOMAIN elems : StringWithin(b, elems[k]))
          [] f.element = "Obj" /\ ~IsStruct("Obj", f.index) ->
                FoldLeft(LAMBDA w, t : VerifyObject(w, b, f.index, t), v, elems)
          [] f.element = "Union" -> And(v, FALSE)
          [] OTHER -> v

\* A union's type is the position of its member among the values of the enum.
MemberAt(f, code) ==
    LET codes == SetToSortSeq(DOMAIN Unions[f.index] \cup {0}, <)
    IN  IF code < Len(codes) THEN codes[code + 1] ELSE 0

VerifyField(v, b, obj, t, f) ==
    LET p == GetAddressOf(b, t, f)
        member == MemberAt(f, UnionCode(b, obj, t, f))
    IN  CASE f.type = "Union" /\ UnionCode(b, obj, t, f) = 0 -> v
          [] ~CheckField(b, t, f.offset) ->
                And(v, ~(/\ f.required
                         /\ \/ f.type \in {"Obj", "Union"}
                            \/ f.type = "Vector" /\ IsStruct(f.element, f.index)))
          [] f.type = "Union" ->
                IF member = 0 THEN And(v, FALSE)
                ELSE VerifyObject(v, b, Unions[f.index][member], Indirect(b, p))
          [] f.type = "String" -> And(v, Within(b, p, 4) /\ StringWithin(b, Indirect(b, p)))
          [] f.type = "Vector" -> VerifyVector(And(v, Within(b, p, 4)), b, f, p)
          [] LeadsToTable(f)   -> VerifyObject(v, b, f.index, Indirect(b, p))
          [] OTHER -> And(v, Within(b, p, TypeSizeInline(f.type, f.index)))

VerifyObject(v, b, obj, t) ==
    LET start == TableStart(v, b, t)
    IN  IF ~start.ok THEN start
        ELSE FoldLeft(LAMBDA w, f : IF w.ok THEN VerifyField(w, b, obj, t, f) ELSE w,
                      start, Objects[obj].fields)

Verify(b) == VerifyObject(Checked(TRUE, 0, 0), b, Root, GetAnyRoot(b)).ok

-----------------------------------------------------------------------------

May == Idle /\ calls < Calls /\ calls' = calls + 1

\* The strings and vectors of scalars a program has pointers to.
StringPlaces ==
    UNION {
        {GetPointer(buf, t.at, f) : f \in {g \in Stored(buf, t) : g.type = "String"}}
        \cup UNION {
            {Indirect(buf, Element(GetPointer(buf, t.at, f), 4, k)) :
                k \in 1..S32(buf, GetPointer(buf, t.at, f))} :
            f \in {g \in Stored(buf, t) : g.type = "Vector" /\ g.element = "String"}} :
        t \in Everywhere(buf)}

CallSetString ==
    May /\ \E s \in StringPlaces, val \in Strings : SetString(s, val)

CallResizeVector ==
    /\ May
    /\ \E t \in Everywhere(buf) : \E f \in Stored(buf, t) :
        /\ f.type = "Vector" /\ f.element \in Scalars \ {"UType"}
        /\ \E n \in NewSizes, val \in Numbers :
            ResizeVector(GetPointer(buf, t.at, f), f.element, n, Cut(f.element, val))

CallAddFlatBuffer ==
    /\ May
    /\ \E t \in Everywhere(buf) : \E f \in Stored(buf, t) :
        /\ f.type = "Obj" /\ LeadsToTable(f) /\ f.index \in DOMAIN Additions
        /\ AddFlatBuffer(t.at, f, Additions[f.index])

CallSetAnyFieldI ==
    /\ May
    /\ \E t \in Everywhere(buf) : \E f \in Stored(buf, t) :
        /\ f.type \in Scalars \ {"UType"}
        /\ \E val \in Numbers : SetAnyFieldI(t.at, f, val)

Init ==
    /\ buf \in Buffers
    /\ meant = Said(buf)
    /\ call = NoCall /\ todo = <<>> /\ changed = {} /\ calls = 0

Next ==
    \/ CallSetString \/ CallResizeVector \/ CallAddFlatBuffer \/ CallSetAnyFieldI
    \/ ResizeTable \/ ResizeField \/ ResizeElement \/ ResizeVTable \/ Splice

Spec == Init /\ [][Next]_reflectionVars

-----------------------------------------------------------------------------
(* Properties.                                                             *)

\* After every call the buffer says what it said before, with the string, the
\* vector or the field the call is about changed, for everyone who shares it,
\* and all of it is aligned.
SaysWhatIsMeant == Idle => Said(buf) = meant

\* What a builder made and the calls have changed passes the verifier.
Accepted == Idle => Verify(buf)

\* A copy of the root says what the root says.
CopySaysTheSame ==
    Idle => LET c == Copy IN [SaidByCopy(c.items, Root, c.ref) EXCEPT !.fits = TRUE] = Said(buf)

\* A table whose fields are still to be visited has not had the way to its
\* vtable changed: each field is found where it was.
FieldsFoundWhereTheyWere ==
    \A i \in DOMAIN todo : todo[i].what \in {"field", "vtable"} => todo[i].at \notin changed

=============================================================================
