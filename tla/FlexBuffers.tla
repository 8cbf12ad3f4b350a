---------------------------- MODULE FlexBuffers ----------------------------
(***************************************************************************)
(* flexbuffers.h: Builder, and Reference and the vectors and maps it leads *)
(* to.  The buffer is written front to back; what has no parent yet is on  *)
(* stack_.  `meant` follows stack_ with what each value stands for, and    *)
(* `starts` are the results of StartVector and StartMap the client holds.  *)
(*                                                                         *)
(* A byte has BYTE values.  A bit width is given in bytes: 1, 2, 4 or 8.   *)
(* Of the 64-bit pattern of a number the model has the signed value.       *)
(***************************************************************************)
EXTENDS Integers, Sequences, FiniteSets, FiniteSetsExt, SequencesExt

CONSTANTS
    BYTE,
    Ints, Floats, Singles,      \* Singles are the Floats a float holds exactly
    Keys, Strings,              \* sequences of bytes
    Vectors,                    \* of ScalarVector: [elems, width, fixed]
    TypedOf, FixedOf,           \* element types of the client's typed vectors
    Values,                     \* the names of the value functions it calls
    Forced,                     \* widths for ForceMinimumBitWidth
    share_keys, share_strings,
    MaxCalls, MaxMutations      \* bounds

VARIABLES buf_, stack_, key_pool, string_pool, force_min_bit_width_, finished_,
          starts, meant, calls

flexVars == <<buf_, stack_, key_pool, string_pool, force_min_bit_width_, finished_,
              starts, meant, calls>>

-----------------------------------------------------------------------------
(* Types *)

TYPE_NULL == 0
TYPE_INT == 1
TYPE_UINT == 2
TYPE_FLOAT == 3
TYPE_KEY == 4
TYPE_STRING == 5
TYPE_INDIRECT_INT == 6
TYPE_INDIRECT_UINT == 7
TYPE_INDIRECT_FLOAT == 8
TYPE_MAP == 9
TYPE_VECTOR == 10
TYPE_VECTOR_INT == 11
TYPE_VECTOR_STRING == 15
TYPE_VECTOR_INT2 == 16
TYPE_VECTOR_INT3 == 19
TYPE_VECTOR_INT4 == 22
TYPE_VECTOR_FLOAT4 == 24
TYPE_BLOB == 25

IsInline(t) == t <= TYPE_FLOAT
IsTypedVector(t) == t \in TYPE_VECTOR_INT..TYPE_VECTOR_STRING
IsFixedTypedVector(t) == t \in TYPE_VECTOR_INT2..TYPE_VECTOR_FLOAT4
ToTypedVector(t, fixed_len) ==
    t - TYPE_INT + (CASE fixed_len = 0 -> TYPE_VECTOR_INT  [] fixed_len = 2 -> TYPE_VECTOR_INT2
                 [] fixed_len = 3 -> TYPE_VECTOR_INT3 [] fixed_len = 4 -> TYPE_VECTOR_INT4)
ToTypedVectorElementType(t) == t - TYPE_VECTOR_INT + TYPE_INT
ToFixedTypedVectorElementType(t) == ((t - TYPE_VECTOR_INT2) % 3) + TYPE_INT
FixedLength(t) == ((t - TYPE_VECTOR_INT2) \div 3) + 2

-----------------------------------------------------------------------------
(* Cells: <<n>> is a byte, <<width, type>> a packed type, <<f, w, k>> the   *)
(* k-th byte of a float of w bytes and Unset a byte of memory nobody wrote. *)

Widths == {1, 2, 4, 8}
Digit(n, k) == (n \div (BYTE ^ k)) % BYTE
Scalar(n, w) == [k \in 1..w |-> <<Digit(n, k - 1)>>]
FloatBytes(f, size, w) == [k \in 1..w |-> <<f, size, k>>]
PackedType(w, t) == <<w, t>>
Unset == <<0, 0, 0, 0>>

WidthU(n) == IF n < 0 THEN 8 ELSE CHOOSE w \in Widths :
               /\ w = 8 \/ n < BYTE ^ w
               /\ \A v \in Widths : v < w => n >= BYTE ^ v
WidthI(n) == WidthU(IF n >= 0 THEN 2 * n ELSE -(2 * n) - 1)
WidthF(f) == IF f \in Singles THEN 4 ELSE 8

PaddingBytes(size, w) == (-size) % w
Padding(size, w) == [k \in 1..PaddingBytes(size, w) |-> <<0>>]
Bytes(s) == [i \in DOMAIN s |-> <<s[i]>>]

-----------------------------------------------------------------------------
(* Builder: values and vectors *)

Value(n, type, width) == [n |-> n, type |-> type, width |-> width]

ElemWidth(v, size, elem_index) ==
    LET Offset(w) == size + PaddingBytes(size, w) + elem_index * w - v.n
        fit == {w \in Widths : WidthU(Offset(w)) = w}
    IN IF IsInline(v.type) THEN v.width ELSE Min(fit \cup {8})

StoredWidth(v, parent) == IF IsInline(v.type) THEN Max({v.width, parent}) ELSE v.width
StoredPackedType(v, parent) == PackedType(StoredWidth(v, parent), v.type)

WriteOffset(size, o, w) == Scalar(size - o, w)
WriteAny(size, v, w) ==
    CASE v.type \in {TYPE_NULL, TYPE_INT, TYPE_UINT} -> Scalar(v.n, w)
      [] v.type = TYPE_FLOAT -> FloatBytes(v.n, w, w)
      [] OTHER -> WriteOffset(size, v.n, w)

\* Write(1U << ...): four bytes are there to write.
WriteWidth(n, w) == [k \in 1..w |-> IF k <= 4 THEN <<Digit(n, k - 1)>> ELSE Unset]

\* CreateVector of the stack's elements elems, which are at from, from + step...;
\* keys has the vector of keys for a map.
CreateVector(buf, elems, from, step, typed, fixed, keys) ==
    LET len == Len(elems)
        prefix_elems == IF keys # <<>> THEN 3 ELSE 1
        bit_width == Max({force_min_bit_width_, WidthU(len)}
                         \cup {ElemWidth(keys[i], Len(buf), 0) : i \in DOMAIN keys}
                         \cup {ElemWidth(elems[i], Len(buf), from + (i - 1) * step + prefix_elems) :
                                 i \in DOMAIN elems})
        aligned == buf \o Padding(Len(buf), bit_width)
        prefixed == IF keys = <<>> THEN aligned
                    ELSE aligned \o WriteOffset(Len(aligned), keys[1].n, bit_width)
                                 \o WriteWidth(keys[1].width, bit_width)
        sized == IF fixed THEN prefixed ELSE prefixed \o Scalar(len, bit_width)
        vloc == Len(sized)
        Element(i) == WriteAny(vloc + (i - 1) * bit_width, elems[i], bit_width)
        data == FlattenSeq([i \in 1..len |-> Element(i)])
        types == IF typed THEN <<>> ELSE [i \in 1..len |-> StoredPackedType(elems[i], bit_width)]
        vector_type == IF len = 0 THEN TYPE_KEY ELSE elems[1].type
        type == IF keys # <<>> THEN TYPE_MAP
                ELSE IF typed THEN ToTypedVector(vector_type, IF fixed THEN len ELSE 0)
                ELSE TYPE_VECTOR
    IN [buf |-> sized \o data \o types, val |-> Value(vloc, type, bit_width)]

\* The C string at an offset.
CharsAt(buf, o) ==
    LET end == Min({i \in (o + 1)..Len(buf) : buf[i] = <<0>>}) IN SubSeq(buf, o + 1, end - 1)
Strcmp(a, b) ==
    LET upto == Min({Len(a), Len(b)})
        differ == {i \in 1..upto : a[i] # b[i]}
    IN IF differ # {} THEN a[Min(differ)][1] - b[Min(differ)][1] ELSE Len(a) - Len(b)

KeyOrder(buf, pairs) == SortSeq(pairs, LAMBDA a, b :
                           Strcmp(CharsAt(buf, a.key.n), CharsAt(buf, b.key.n)) < 0)
SortedPairs(buf, pairs) == KeyOrder(buf, pairs)

-----------------------------------------------------------------------------
(* What values stand for *)

Tree(kind, n, s, kids, keys) == [kind |-> kind, n |-> n, s |-> s, kids |-> kids, keys |-> keys]
NumberTree(kind, n) == Tree(kind, n, <<>>, <<>>, <<>>)
BytesTree(kind, s) == Tree(kind, 0, s, <<>>, <<>>)
ListTree(kind, kids) == Tree(kind, 0, <<>>, kids, <<>>)

-----------------------------------------------------------------------------
(* The client's calls *)

Building == ~finished_ /\ calls < MaxCalls
InMap == starts # <<>> /\ starts[Len(starts)].map
Own == IF starts = <<>> THEN Len(stack_) ELSE Len(stack_) - starts[Len(starts)].at
\* In a map values follow keys; outside of all there is one value.
WantsKey == InMap /\ Own % 2 = 0
WantsValue == IF starts = <<>> THEN stack_ = <<>> ELSE ~WantsKey

Called == calls' = calls + 1
Pushed(buf, v, tree) ==
    /\ buf_' = buf /\ stack_' = Append(stack_, v) /\ meant' = Append(meant, tree)
    /\ Called /\ UNCHANGED <<force_min_bit_width_, finished_, starts>>
PushedOnly(buf, v, tree) == Pushed(buf, v, tree) /\ UNCHANGED <<key_pool, string_pool>>

May(name) == Building /\ WantsValue /\ name \in Values

AddNull == May("Null") /\ PushedOnly(buf_, Value(0, TYPE_NULL, 1), NumberTree("null", 0))
AddInt == May("Int") /\ \E i \in Ints : PushedOnly(buf_, Value(i, TYPE_INT, WidthI(i)), NumberTree("int", i))
AddUInt == May("UInt") /\ \E u \in Ints :
          PushedOnly(buf_, Value(u, TYPE_UINT, WidthU(u)), NumberTree("uint", u))
AddFloat == May("Float") /\ \E f \in Floats :
           PushedOnly(buf_, Value(f, TYPE_FLOAT, WidthF(f)), NumberTree("float", f))

PushIndirect(bytes, w, type, tree) ==
    LET aligned == buf_ \o Padding(Len(buf_), w) IN
    PushedOnly(aligned \o bytes, Value(Len(aligned), type, w), tree)
IndirectInt == May("Indirect") /\ \E i \in Ints :
    PushIndirect(Scalar(i, WidthI(i)), WidthI(i), TYPE_INDIRECT_INT, NumberTree("int", i))
IndirectUInt == May("Indirect") /\ \E u \in Ints :
    PushIndirect(Scalar(u, WidthU(u)), WidthU(u), TYPE_INDIRECT_UINT, NumberTree("uint", u))
IndirectFloat == May("IndirectFloat") /\ \E f \in Floats \cap Singles :
    PushIndirect(FloatBytes(f, 4, 4), 4, TYPE_INDIRECT_FLOAT, NumberTree("float", f))
\* Write of a double writes its first bytes.
IndirectDouble == \E f \in Floats :
    /\ May(IF f \in Singles THEN "IndirectDouble" ELSE "IndirectFloat")
    /\ PushIndirect(FloatBytes(f, 8, WidthF(f)), WidthF(f), TYPE_INDIRECT_FLOAT, NumberTree("float", f))

SameKeys(written, sloc) == {o \in key_pool : CharsAt(written, o) = CharsAt(written, sloc)}
KeyAt(k) ==     \* the buffer, where the key is and the pool
    LET sloc == Len(buf_)
        written == buf_ \o Bytes(k) \o <<<<0>>>>
        same == SameKeys(written, sloc)
    IN IF share_keys /\ same # {} THEN [buf |-> buf_, at |-> CHOOSE o \in same : TRUE, pool |-> key_pool]
       ELSE [buf |-> written, at |-> sloc,
             pool |-> IF share_keys THEN key_pool \cup {sloc} ELSE key_pool]
Key(k) ==
    /\ Pushed(KeyAt(k).buf, Value(KeyAt(k).at, TYPE_KEY, 1), BytesTree("key", k))
    /\ key_pool' = KeyAt(k).pool /\ UNCHANGED string_pool
KeyCall == \E k \in Keys : /\ Building /\ (WantsKey \/ (WantsValue /\ "Key" \in Values))
                           /\ Key(k)

\* UInt with a key.
KeyedUInt ==
    /\ Building /\ WantsKey /\ "KeyedUInt" \in Values
    /\ \E k \in Keys, u \in Ints :
         /\ buf_' = KeyAt(k).buf
         /\ stack_' = stack_ \o <<Value(KeyAt(k).at, TYPE_KEY, 1), Value(u, TYPE_INT, WidthI(u))>>
         /\ meant' = meant \o <<BytesTree("key", k), NumberTree("uint", u)>>
         /\ key_pool' = KeyAt(k).pool
         /\ Called /\ UNCHANGED <<string_pool, force_min_bit_width_, finished_, starts>>

\* CreateBlob: the size, aligned, and the bytes.
SizedBytes(s, trailing) ==
    LET w == WidthU(Len(s)) IN
    buf_ \o Padding(Len(buf_), w) \o Scalar(Len(s), w) \o Bytes(s) \o trailing
SizedAt(s) == Len(buf_) + PaddingBytes(Len(buf_), WidthU(Len(s))) + WidthU(Len(s))
Blob == May("Blob") /\ \E s \in Strings :
    PushedOnly(SizedBytes(s, <<>>), Value(SizedAt(s), TYPE_BLOB, WidthU(Len(s))), BytesTree("blob", s))

\* The pool compares with strncmp.
String == May("String") /\ \E s \in Strings :
    LET written == SizedBytes(s, <<<<0>>>>)
        sloc == SizedAt(s)
        same == {o \in string_pool : CharsAt(written, o) = CharsAt(written, sloc)}
        shared == share_strings /\ same # {}
    IN /\ Pushed(IF shared THEN buf_ ELSE written,
                 Value(IF shared THEN CHOOSE o \in same : TRUE ELSE sloc, TYPE_STRING, WidthU(Len(s))),
                 BytesTree("string", s))
       /\ string_pool' = IF share_strings /\ ~shared THEN string_pool \cup {sloc} ELSE string_pool
       /\ UNCHANGED key_pool

\* ScalarVector: the numbers as they are in memory.
ScalarVector == May("ScalarVector") /\ \E v \in Vectors :
    LET sized == IF v.fixed THEN buf_ ELSE buf_ \o Scalar(Len(v.elems), v.width)
        data == FlattenSeq([i \in DOMAIN v.elems |-> Scalar(v.elems[i], v.width)])
    IN PushedOnly(sized \o data,
         Value(Len(sized), ToTypedVector(TYPE_INT, IF v.fixed THEN Len(v.elems) ELSE 0), v.width),
         ListTree(IF v.fixed THEN "fixed" ELSE "typed",
                  [i \in DOMAIN v.elems |-> NumberTree("int", v.elems[i])]))

Start(map) ==
    /\ starts' = Append(starts, [at |-> Len(stack_), map |-> map])
    /\ Called
    /\ UNCHANGED <<buf_, stack_, key_pool, string_pool, force_min_bit_width_, finished_, meant>>
StartVector == May("Vector") /\ Start(FALSE)
StartMap == May("Map") /\ Start(TRUE)

From == starts[Len(starts)].at
OwnValues == SubSeq(stack_, From + 1, Len(stack_))
OwnMeant == SubSeq(meant, From + 1, Len(meant))
Ended(built, tree) ==
    /\ buf_' = built.buf
    /\ stack_' = Append(SubSeq(stack_, 1, From), built.val)
    /\ meant' = Append(SubSeq(meant, 1, From), tree)
    /\ starts' = SubSeq(starts, 1, Len(starts) - 1)
    /\ Called /\ UNCHANGED <<key_pool, string_pool, force_min_bit_width_, finished_>>

MayBeTyped(of) == \A i \in DOMAIN OwnValues : /\ OwnValues[i].type = OwnValues[1].type
                                              /\ OwnValues[1].type \in of
EndVector ==
    /\ ~finished_ /\ starts # <<>> /\ ~InMap
    /\ \E typed, fixed \in BOOLEAN :
         /\ fixed => typed /\ Own \in 2..4 /\ MayBeTyped(FixedOf)
         /\ typed => MayBeTyped(TypedOf)
         /\ Ended(CreateVector(buf_, OwnValues, From, 1, typed, fixed, <<>>),
                  ListTree(IF fixed THEN "fixed" ELSE IF typed THEN "typed" ELSE "vector", OwnMeant))

EndMap ==
    /\ ~finished_ /\ InMap /\ WantsKey
    /\ LET len == Own \div 2
           Names == [i \in 1..len |-> OwnMeant[2 * i - 1].s]
           pairs == SortedPairs(buf_, [i \in 1..len |->
                      [key |-> OwnValues[2 * i - 1], val |-> OwnValues[2 * i]]])
           keys == CreateVector(buf_, [i \in 1..len |-> pairs[i].key], From, 2, TRUE, FALSE, <<>>)
           vec == CreateVector(keys.buf, [i \in 1..len |-> pairs[i].val], From + 1, 2, FALSE, FALSE,
                               <<keys.val>>)
       IN /\ \A i, j \in 1..len : i # j => Names[i] # Names[j]
          /\ Ended(vec, Tree("map", 0, <<>>, [i \in 1..len |-> OwnMeant[2 * i]], Names))

ForceMinimumBitWidth ==
    /\ Building /\ \E w \in Forced \ {force_min_bit_width_} : force_min_bit_width_' = w
    /\ Called /\ UNCHANGED <<buf_, stack_, key_pool, string_pool, finished_, starts, meant>>

Finish ==
    /\ ~finished_ /\ starts = <<>> /\ Len(stack_) = 1
    /\ LET w == ElemWidth(stack_[1], Len(buf_), 0)
           aligned == buf_ \o Padding(Len(buf_), w)
       IN buf_' = aligned \o WriteAny(Len(aligned), stack_[1], w)
                  \o <<StoredPackedType(stack_[1], 1), <<w>>>>
    /\ finished_' = TRUE /\ calls' = 0
    /\ UNCHANGED <<stack_, key_pool, string_pool, force_min_bit_width_, starts, meant>>

-----------------------------------------------------------------------------
(* Reading *)

At(p) == buf_[p + 1]
Pattern(p, w) ==
    LET Sum[k \in 0..w] == IF k = 0 THEN 0 ELSE Sum[k - 1] + At(p + k - 1)[1] * (BYTE ^ (k - 1)) IN
    IF w = 8 /\ At(p + 7)[1] >= BYTE \div 2
    THEN Sum[7] + (At(p + 7)[1] - BYTE) * (BYTE ^ 7) ELSE Sum[w]
ReadUInt64(p, w) == Pattern(p, w)
ReadInt64(p, w) ==
    IF w < 8 /\ At(p + w - 1)[1] >= BYTE \div 2 THEN Pattern(p, w) - BYTE ^ w ELSE Pattern(p, w)
\* A float, or 0 for bytes that are not one.
ReadDouble(p, w) == IF \A k \in 1..w : At(p + k - 1) = <<At(p)[1], w, k>> THEN At(p)[1] ELSE 0

Reference(p, parent_width, byte_width, type) ==
    [p |-> p, parent_width |-> parent_width, byte_width |-> byte_width, type |-> type]
NullReference == Reference(0, 1, 1, TYPE_NULL)
Unpacked(p, parent_width, packed) == Reference(p, parent_width, packed[1], packed[2])
GetRoot ==
    LET w == At(Len(buf_) - 1)[1] IN Unpacked(Len(buf_) - 2 - w, w, At(Len(buf_) - 2))

Indirect(r) == r.p - ReadUInt64(r.p, r.parent_width)
AsInt64(r) ==
    CASE r.type = TYPE_INT -> ReadInt64(r.p, r.parent_width)
      [] r.type = TYPE_INDIRECT_INT -> ReadInt64(Indirect(r), r.byte_width)
      [] r.type = TYPE_UINT -> ReadUInt64(r.p, r.parent_width)
      [] r.type = TYPE_INDIRECT_UINT -> ReadUInt64(Indirect(r), r.byte_width)
      [] r.type = TYPE_FLOAT -> ReadDouble(r.p, r.parent_width)
      [] r.type = TYPE_INDIRECT_FLOAT -> ReadDouble(Indirect(r), r.byte_width)
      [] r.type = TYPE_VECTOR -> ReadUInt64(Indirect(r) - r.byte_width, r.byte_width)
      [] OTHER -> 0
AsUInt64(r) == AsInt64(r)   \* the same pattern for each type
AsDouble(r) == AsInt64(r)   \* a number is an integer here

AsKey(r) == CharsAt(buf_, Indirect(r))
SizeOf(r) == ReadUInt64(Indirect(r) - r.byte_width, r.byte_width)
AsString(r) == SubSeq(buf_, Indirect(r) + 1, Indirect(r) + SizeOf(r))

VectorElement(data, len, w, i) ==
    IF i >= len THEN NullReference ELSE Unpacked(data + i * w, w, At(data + len * w + i))
TypedElement(data, len, w, type, i) ==
    IF i >= len THEN NullReference ELSE Reference(data + i * w, w, 1, type)

\* Map::operator[]: a binary search in the vector of keys.
KeysAt(r) ==
    LET from == Indirect(r) - 3 * r.byte_width
        data == from - ReadUInt64(from, r.byte_width)
        w == At(from + r.byte_width)[1]
    IN [data |-> data, width |-> w, len |-> ReadUInt64(data - w, w)]
KeyOf(keys, i) == LET p == keys.data + i * keys.width IN CharsAt(buf_, p - ReadUInt64(p, keys.width))
Bsearch(keys, key) ==       \* the index, or keys.len
    LET Search[range \in (0..keys.len) \X (0..keys.len)] ==
          LET lo == range[1]  hi == range[2]  mid == (lo + hi) \div 2 IN
          IF lo >= hi THEN keys.len
          ELSE LET c == Strcmp(key, KeyOf(keys, mid)) IN
               IF c = 0 THEN mid ELSE IF c < 0 THEN Search[<<lo, mid>>] ELSE Search[<<mid + 1, hi>>]
    IN Search[<<0, keys.len>>]
MapElement(r, key) ==
    VectorElement(Indirect(r), SizeOf(r), r.byte_width, Bsearch(KeysAt(r), Bytes(key)))

\* The element a client asks for to get kid i of a tree.
Child(r, tree, i) ==
    CASE tree.kind = "map" /\ r.type = TYPE_MAP -> MapElement(r, tree.keys[i])
      [] tree.kind = "vector" /\ r.type = TYPE_VECTOR -> VectorElement(Indirect(r), SizeOf(r), r.byte_width, i - 1)
      [] tree.kind = "typed" /\ IsTypedVector(r.type) ->
           TypedElement(Indirect(r), SizeOf(r), r.byte_width, ToTypedVectorElementType(r.type), i - 1)
      [] tree.kind = "fixed" /\ IsFixedTypedVector(r.type) ->
           TypedElement(Indirect(r), FixedLength(r.type), r.byte_width,
                        ToFixedTypedVectorElementType(r.type), i - 1)
      [] OTHER -> NullReference
Length(r) == IF IsFixedTypedVector(r.type) THEN FixedLength(r.type) ELSE SizeOf(r)

-----------------------------------------------------------------------------
(* Mutation *)

RECURSIVE Paths(_), RefAt(_, _, _), SetAt(_, _, _)
Paths(tree) == {<<>>} \cup UNION {{<<i>> \o p : p \in Paths(tree.kids[i])} : i \in DOMAIN tree.kids}
RefAt(r, tree, path) ==
    IF path = <<>> THEN [ref |-> r, tree |-> tree]
    ELSE RefAt(Child(r, tree, path[1]), tree.kids[path[1]], Tail(path))
SetAt(tree, path, new) ==
    IF path = <<>> THEN new
    ELSE [tree EXCEPT !.kids[path[1]] = SetAt(@, Tail(path), new)]
There(path) == RefAt(GetRoot, meant[1], path)

\* Mutant: any number is written in place.
FitsAny(value_width, byte_width) == TRUE
Fits(value_width, byte_width) == value_width <= byte_width
Mutate(path, p, bytes, new) ==
    /\ buf_' = SubSeq(buf_, 1, p) \o bytes \o SubSeq(buf_, p + Len(bytes) + 1, Len(buf_))
    /\ meant' = <<SetAt(meant[1], path, new)>>
    /\ calls' = calls + 1
    /\ UNCHANGED <<stack_, key_pool, string_pool, force_min_bit_width_, finished_, starts>>
Mutating == finished_ /\ calls < MaxMutations

\* Where a number is, and in how many bytes.
Place(r) == IF IsInline(r.type) THEN r.p ELSE Indirect(r)
Room(r) == IF IsInline(r.type) THEN r.parent_width ELSE r.byte_width

MutateInt ==    \* and MutateUInt
    /\ Mutating
    /\ \E path \in Paths(meant[1]), n \in Ints :
         LET r == There(path).ref
             w == IF r.type \in {TYPE_INT, TYPE_INDIRECT_INT} THEN WidthI(n) ELSE WidthU(n) IN
         /\ r.type \in {TYPE_INT, TYPE_INDIRECT_INT, TYPE_UINT, TYPE_INDIRECT_UINT} /\ Fits(w, Room(r))
         /\ Mutate(path, Place(r), Scalar(n, Room(r)), NumberTree(There(path).tree.kind, n))

MutateFloat ==
    /\ Mutating
    /\ \E path \in Paths(meant[1]), f \in Floats :
         LET r == There(path).ref IN
         /\ r.type \in {TYPE_FLOAT, TYPE_INDIRECT_FLOAT} /\ Fits(WidthF(f), Room(r))
         /\ Mutate(path, Place(r), FloatBytes(f, Room(r), Room(r)), NumberTree("float", f))

MutateString ==
    /\ Mutating
    /\ \E path \in Paths(meant[1]), s \in Strings :
         LET r == There(path).ref IN
         /\ r.type = TYPE_STRING /\ SizeOf(r) = Len(s)
         /\ Mutate(path, Indirect(r), Bytes(s), BytesTree("string", s))

-----------------------------------------------------------------------------
Init ==
    /\ buf_ = <<>> /\ stack_ = <<>> /\ key_pool = {} /\ string_pool = {}
    /\ force_min_bit_width_ = 1 /\ finished_ = FALSE
    /\ starts = <<>> /\ meant = <<>> /\ calls = 0

Next == \/ AddNull \/ AddInt \/ AddUInt \/ AddFloat
        \/ IndirectInt \/ IndirectUInt \/ IndirectFloat \/ IndirectDouble
        \/ KeyCall \/ KeyedUInt \/ String \/ Blob \/ ScalarVector
        \/ StartVector \/ EndVector \/ StartMap \/ EndMap
        \/ ForceMinimumBitWidth \/ Finish
        \/ MutateInt \/ MutateFloat \/ MutateString

Spec == Init /\ [][Next]_flexVars

-----------------------------------------------------------------------------
(* Properties *)

RECURSIVE Reads(_, _)
Reads(r, tree) ==
    CASE tree.kind = "null" -> r.type = TYPE_NULL
      [] tree.kind = "int" -> AsInt64(r) = tree.n
      [] tree.kind = "uint" -> AsUInt64(r) = tree.n
      [] tree.kind = "float" -> AsDouble(r) = tree.n
      [] tree.kind = "key" -> r.type = TYPE_KEY /\ AsKey(r) = Bytes(tree.s)
      [] tree.kind = "string" -> r.type = TYPE_STRING /\ AsString(r) = Bytes(tree.s)
      [] tree.kind = "blob" -> r.type = TYPE_BLOB /\ AsString(r) = Bytes(tree.s)
      [] OTHER -> /\ ~IsInline(r.type) /\ Length(r) = Len(tree.kids)
                  /\ \A i \in DOMAIN tree.kids : Reads(Child(r, tree, i), tree.kids[i])

\* Whatever is built in whatever widths, offsets, sharing and order of keys,
\* each value is read as it was given, and found by its key.
RoundTrip == finished_ => Reads(GetRoot, meant[1])

\* A key that is not in a map leads to null.
OthersNotFound ==
    finished_ => \A path \in Paths(meant[1]) :
      There(path).tree.kind = "map" =>
        \A k \in Keys \ Range(There(path).tree.keys) :
          MapElement(There(path).ref, k).type = TYPE_NULL

\* Keys are in the buffer once.
KeysShared ==
    share_keys => \A i, j \in DOMAIN stack_ :
      (stack_[i].type = TYPE_KEY /\ stack_[j].type = TYPE_KEY /\ meant[i] = meant[j]) => stack_[i].n = stack_[j].n

=============================================================================
