------------------------------ MODULE Verifier ------------------------------
(***************************************************************************)
(* Verifier of flatbuffers.h run by the Verify functions idl_gen_cpp.cpp   *)
(* generates: the check a reader makes of a buffer that may have been      *)
(* damaged on its way, before it uses the accessors, which check nothing.  *)
(*                                                                         *)
(* The calls of Verify functions nested in each other and the rest of each *)
(* chain of && are the stack `todo` of checks still to make.  A step makes *)
(* one check; `reads` are the ranges of bytes it reads.  An address is a   *)
(* distance from buf_.                                                     *)
(***************************************************************************)
EXTENDS Integers, Sequences, FiniteSets

CONSTANTS
    Types,          \* the tables of the schema: name -> sequence of fields
    Members,        \* the tables of the schema's union: type code -> name
    Buffers,        \* buffers as they were built: [root, bytes, ident, prefixed]
    Damages,        \* what may happen to one: [at, byte]
    Hits,           \* how many bytes of it are damaged at most
    Cuts,           \* how many bytes are lost at its end
    MaxDepth, MaxTables,
    LargestBuffer,  \* FLATBUFFERS_MAX_BUFFER_SIZE
    SizeRange       \* of a size_t: 2^32 or 2^64

\* A field: its kind, the size of its value or of an element, whether it is
\* required, and for references to tables their type.
FieldKinds == {"scalar", "struct", "string", "table", "union", "vector",
               "strings", "tables", "unions"}
Fields == [kind : FieldKinds, size : {1, 2, 4, 8, 12}, required : BOOLEAN,
           of : DOMAIN Types]

\* An element that is an offset has 4 bytes; the parser puts the type of a union,
\* or the vector of their types, before it (AddField with UnionTypeFieldSuffix).
FieldOK(T, i) ==
    LET f == Types[T][i]
        Before(kind) == i - 1 \in DOMAIN Types[T] /\ Types[T][i - 1].kind = kind
                        /\ Types[T][i - 1].size = 1
    IN  /\ f.kind \in {"strings", "tables", "unions"} => f.size = 4
        /\ f.kind = "union"  => Before("scalar")
        /\ f.kind = "unions" => Before("vector")

Int32Max == 2147483647

VerifierAssumption ==
    /\ \A T \in DOMAIN Types : /\ Types[T] \in Seq(Fields)
                              /\ \A i \in DOMAIN Types[T] : FieldOK(T, i)
    /\ \A m \in DOMAIN Members : m \in 1..255 /\ Members[m] \in DOMAIN Types
    /\ MaxDepth \in Nat /\ MaxTables \in Nat /\ LargestBuffer \in 0..Int32Max
    /\ SizeRange \in Nat /\ LargestBuffer + 4 < SizeRange
    /\ \A b \in Buffers : /\ b.root \in DOMAIN Types
                          /\ b.bytes \in Seq(0..255) /\ b.prefixed \in BOOLEAN
    /\ \A h \in Damages : h.byte \in 0..255
    /\ Cuts \subseteq Nat

VARIABLES
    mem,            \* the bytes from buf_ to end_
    intact,         \* whether they are as they were built
    rootType,       \* the type the root is verified as
    todo,           \* the checks to make, the next one first
    depth, tables,  \* depth_ and num_tables_
    verdict,
    reads           \* the ranges [at, size] the last check has read

verifierVars == <<mem, intact, rootType, todo, depth, tables, verdict, reads>>

-----------------------------------------------------------------------------
(* Reading.  What lies outside the buffer reads as anything; the model     *)
(* reads 0 and notes the range.                                            *)

End == Len(mem)
Byte(p) == IF p \in 0..(End - 1) THEN mem[p + 1] ELSE 0

U16(p) == Byte(p) + 256 * Byte(p + 1)

\* Offsets longer than any buffer lead out of it whatever their length: the
\* largest stand for all of them.
Low31(p) == U16(p) + 65536 * (Byte(p + 2) + 256 * (Byte(p + 3) % 128))
U32(p)   == IF Byte(p + 3) > 127 THEN Int32Max ELSE Low31(p)
Below(m, n) == IF n < -m THEN -m ELSE n
S32(p)   == IF Byte(p + 3) > 127 THEN Below(LargestBuffer, Low31(p) - Int32Max - 1)
            ELSE Low31(p)

\* Mutant: what ends where the buffer ends is outside.
InsideShort(p, n) == n <= End /\ p >= 0 /\ p < End - n

\* elem_len <= end_ - buf_ && elem >= buf_ && elem <= end_ - elem_len
Inside(p, n) == n <= End /\ p >= 0 /\ p <= End - n

\* A pointer that is null lies outside every buffer.
Null == -1

\* A sum of an address inside the buffer and an unsigned offset.
Plus(p, n) == IF n > LargestBuffer THEN LargestBuffer ELSE p + n

Bytes(p, n) == [at |-> p, size |-> n]

-----------------------------------------------------------------------------
(* Table and Vector: what the generated accessors are made of.             *)

VTable(t)   == t - S32(t)
VTSize(t)   == U16(VTable(t))
Slot(i)     == 4 + 2 * (i - 1)

\* GetOptionalFieldOffset, and what it reads.
FieldOffset(t, i) == IF Slot(i) < VTSize(t) THEN U16(VTable(t) + Slot(i)) ELSE 0
OffsetReads(t, i) ==
    {Bytes(t, 4), Bytes(VTable(t), 2)} \cup
    (IF Slot(i) < VTSize(t) THEN {Bytes(VTable(t) + Slot(i), 2)} ELSE {})

Indirect(p) == Plus(p, U32(p))

\* GetPointer, and what it reads.
Pointer(t, i) ==
    IF FieldOffset(t, i) = 0 THEN Null ELSE Indirect(t + FieldOffset(t, i))
PointerReads(t, i) ==
    OffsetReads(t, i) \cup
    (IF FieldOffset(t, i) = 0 THEN {} ELSE {Bytes(t + FieldOffset(t, i), 4)})

\* GetField of one byte, as the accessor of a union's type does.
ByteField(t, i) ==
    IF FieldOffset(t, i) = 0 THEN 0 ELSE Byte(t + FieldOffset(t, i))
ByteFieldReads(t, i) ==
    OffsetReads(t, i) \cup
    (IF FieldOffset(t, i) = 0 THEN {} ELSE {Bytes(t + FieldOffset(t, i), 1)})

Element(v, k, size) == v + 4 + size * (k - 1)

-----------------------------------------------------------------------------
(* The checks.  `at` is a table or what a pointer leads to, `type` the     *)
(* table's type, `k` a field or an element, `with` the vector of types beside *)
(* a vector of unions.                                                     *)

Goal(check, at, type, k) ==
    [check |-> check, at |-> at, with |-> Null, type |-> type, k |-> k]

G       == Head(todo)
Turn(c) == verdict = "checking" /\ G.check = c
Fld     == Types[G.type][G.k]

\* A chain of && ends with the first check that fails ...
Refuse(touched) ==
    /\ verdict' = "refused" /\ reads' = touched /\ todo' = <<>>
    /\ UNCHANGED <<mem, intact, rootType>>

\* ... or goes on with `goals` and what was to do behind this check.
Proceed(goals, touched) ==
    /\ todo' = goals \o Tail(todo) /\ reads' = touched
    /\ verdict' = IF goals \o Tail(todo) = <<>> THEN "accepted" ELSE "checking"
    /\ UNCHANGED <<mem, intact, rootType>>

CheckThat(ok, goals, touched) ==
    /\ \/ ~ok /\ Refuse(touched)
       \/ ok /\ Proceed(goals, touched)
    /\ UNCHANGED <<depth, tables>>

\* VerifyBufferFromStart, with the size prefix of VerifySizePrefixedBuffer.
VerifyBuffer ==
    LET start    == G.at
        prefixed == start > 0
        ident    == G.type
        sizeOK   == prefixed => Inside(0, 4) /\ U32(0) = End - 4
        identOK  == ident # <<>> =>
                        End - start >= 8 /\ \A k \in 1..4 : Byte(start + 3 + k) = ident[k]
    IN  /\ Turn("buffer")
        /\ CheckThat(sizeOK /\ identOK /\ Inside(start, 4),
                     <<Goal("start", Indirect(start), rootType, 0)>>,
                     (IF prefixed /\ Inside(0, 4) THEN {Bytes(0, 4)} ELSE {}) \cup
                     (IF sizeOK /\ ident # <<>> /\ End - start >= 8
                      THEN {Bytes(start + 4, 4)} ELSE {}) \cup
                     (IF sizeOK /\ identOK /\ Inside(start, 4)
                      THEN {Bytes(start, 4)} ELSE {}))

\* VerifyComplexity: both counters are raised before they are compared.
WithinLimits == depth + 1 <= MaxDepth /\ tables + 1 <= MaxTables

VTableFits(t) ==
    /\ Inside(VTable(t), 2)
    /\ VTSize(t) % 2 = 0
    /\ Inside(VTable(t), VTSize(t))

\* The chain of calls generated for a field.
FieldGoals(t, T, i) ==
    LET kind == Types[T][i].kind
        Then(c) == Goal(c, t, T, i)
    IN  <<Then("inline")>> \o
        (CASE kind \in {"scalar", "struct"} -> <<>>
           [] kind \in {"strings", "tables", "unions"} -> <<Then("vector"), Then(kind)>>
           [] OTHER -> <<Then(kind)>>)

\* Mutant: the index is not raised, but for a table's fields.
SameAgain == IF G.check = "fields" THEN [G EXCEPT !.k = @ + 1] ELSE G

Again  == [G EXCEPT !.k = @ + 1]

\* The chain of a table, from the field k on.
VerifyFields ==
    /\ Turn("fields") /\ G.k \in DOMAIN Types[G.type]
    /\ CheckThat(TRUE, FieldGoals(G.at, G.type, G.k) \o <<Again>>, {})

\* Verify of a generated table: VerifyTableStart, then the chain.
VerifyTableStart ==
    LET t    == G.at
        seen == WithinLimits /\ Inside(VTable(t), 2)
    IN  /\ Turn("start")
        /\ \/ /\ ~Inside(t, 4) /\ Refuse({})
              /\ UNCHANGED <<depth, tables>>
           \/ /\ Inside(t, 4)
              /\ depth' = depth + 1 /\ tables' = tables + 1
              /\ LET touched == {Bytes(t, 4)} \cup (IF seen THEN {Bytes(VTable(t), 2)} ELSE {})
                 IN  IF WithinLimits /\ VTableFits(t)
                     THEN Proceed(<<Goal("fields", t, G.type, 1)>>, touched)
                     ELSE Refuse(touched)

\* Verifier::EndTable, behind the last field.
LeaveTable ==
    /\ Turn("fields") /\ G.k \notin DOMAIN Types[G.type] /\ Proceed(<<>>, {})
    /\ depth' = depth - 1 /\ UNCHANGED tables

\* VerifyField and VerifyFieldRequired.  A field that is an offset takes 4 bytes.
InlineSize(f) == IF f.kind \in {"scalar", "struct"} THEN f.size ELSE 4

VerifyField ==
    LET off == FieldOffset(G.at, G.k)
    IN  /\ Turn("inline")
        /\ CheckThat(IF off = 0 THEN ~Fld.required ELSE Inside(G.at + off, InlineSize(Fld)),
                     <<>>, OffsetReads(G.at, G.k))

\* VerifyTable of a field.
VerifyTable ==
    LET p == Pointer(G.at, G.k)
    IN  /\ Turn("table")
        /\ CheckThat(TRUE, IF p = Null THEN <<>> ELSE <<Goal("start", p, Fld.of, 0)>>,
                     PointerReads(G.at, G.k))

\* VerifyVector, and what it reads.
LengthReads(v) == IF Inside(v, 4) THEN {Bytes(v, 4)} ELSE {}

\* The length as a size_t, and byte_size, which wraps around.
SizeAt(v) ==
    IF Byte(v + 3) > 127 THEN ((Low31(v) % SizeRange) + (Int32Max % SizeRange) + 1) % SizeRange
    ELSE Low31(v) % SizeRange
ByteSize(v, size) == (4 + size * SizeAt(v)) % SizeRange

\* Mutant: the length is not compared before it is multiplied.
VectorFitsWrapped(v, size) == Inside(v, 4) /\ Inside(v, ByteSize(v, size))

VectorFits(v, size) ==
    /\ Inside(v, 4)
    /\ U32(v) < LargestBuffer \div size
    /\ Inside(v, ByteSize(v, size))

VerifyVector ==
    LET p == Pointer(G.at, G.k)
    IN  /\ Turn("vector")
        /\ CheckThat(p = Null \/ VectorFits(p, Fld.size), <<>>,
                     PointerReads(G.at, G.k) \cup LengthReads(p))

\* Verify of a String: the byte at the end VerifyVector has found is zero.
Behind(s) == s + ByteSize(s, 1)
StringFits(s) == VectorFits(s, 1) /\ Inside(Behind(s), 1) /\ Byte(Behind(s)) = 0
StringReads(s) ==
    LengthReads(s) \cup
    (IF VectorFits(s, 1) /\ Inside(Behind(s), 1) THEN {Bytes(Behind(s), 1)} ELSE {})

VerifyString ==
    LET p == Pointer(G.at, G.k)
    IN  /\ Turn("string")
        /\ CheckThat(p = Null \/ StringFits(p), <<>>,
                     PointerReads(G.at, G.k) \cup StringReads(p))

\* VerifyVectorOfStrings and VerifyVectorOfTables: a loop over the elements.
OpenVector(kind, loop) ==
    LET p == Pointer(G.at, G.k)
    IN  /\ Turn(kind)
        /\ CheckThat(TRUE, IF p = Null THEN <<>> ELSE <<Goal(loop, p, Fld.of, 1)>>,
                     PointerReads(G.at, G.k))

Referred == Indirect(Element(G.at, G.k, 4))
LoopReads ==
    {Bytes(G.at, 4)} \cup
    (IF G.k <= U32(G.at) THEN {Bytes(Element(G.at, G.k, 4), 4)} ELSE {})

VerifyEachString ==
    /\ Turn("eachString")
    /\ \/ G.k > U32(G.at) /\ CheckThat(TRUE, <<>>, LoopReads)
       \/ /\ G.k <= U32(G.at)
          /\ CheckThat(StringFits(Referred), <<Again>>, LoopReads \cup StringReads(Referred))

VerifyEachTable ==
    /\ Turn("eachTable")
    /\ \/ G.k > U32(G.at) /\ CheckThat(TRUE, <<>>, LoopReads)
       \/ /\ G.k <= U32(G.at)
          /\ CheckThat(TRUE, <<Goal("start", Referred, G.type, 0), Again>>, LoopReads)

\* VerifyAny: the switch over the type, then VerifyTable of the value.
MemberGoals(type, p) ==
    IF type \notin DOMAIN Members \/ p = Null THEN <<>>
    ELSE <<Goal("start", p, Members[type], 0)>>
TypeKnown(type) == type \in {0} \cup DOMAIN Members

VerifyUnion ==
    LET type == ByteField(G.at, G.k - 1)
        p    == Pointer(G.at, G.k)
    IN  /\ Turn("union")
        /\ CheckThat(TypeKnown(type), MemberGoals(type, p),
                     PointerReads(G.at, G.k) \cup ByteFieldReads(G.at, G.k - 1))

SameCount(values, types) == U32(values) = U32(types)

\* VerifyAnyVector: called whether or not the vectors are there, and a vector
\* that is not there has no size to compare: the process ends.
VerifyUnions ==
    LET values == Pointer(G.at, G.k)
        types  == Pointer(G.at, G.k - 1)
        offsets == PointerReads(G.at, G.k) \cup PointerReads(G.at, G.k - 1)
    IN  /\ Turn("unions")
        /\ \/ /\ Null \in {values, types}
              /\ verdict' = "crashed" /\ reads' = offsets /\ todo' = <<>>
              /\ UNCHANGED <<mem, intact, rootType, depth, tables>>
           \/ /\ Null \notin {values, types}
              /\ CheckThat(SameCount(values, types),
                           <<[Goal("eachUnion", values, G.type, 1) EXCEPT !.with = types]>>,
                           offsets \cup {Bytes(values, 4), Bytes(types, 4)})

ElementType == Byte(Element(G.with, G.k, 1))

VerifyEachUnion ==
    /\ Turn("eachUnion")
    /\ \/ G.k > U32(G.at) /\ CheckThat(TRUE, <<>>, LoopReads)
       \/ /\ G.k <= U32(G.at)
          /\ CheckThat(TypeKnown(ElementType), MemberGoals(ElementType, Referred) \o <<Again>>,
                       LoopReads \cup {Bytes(Element(G.with, G.k, 1), 1)})

-----------------------------------------------------------------------------
(* A buffer, damaged or not, and one call of VerifyBuffer for it.          *)

Damaged(bytes, hits, cut) ==
    LET n == Len(bytes) - cut
    IN  [p \in 1..n |-> IF \E h \in hits : h.at = p
                        THEN (CHOOSE h \in hits : h.at = p).byte ELSE bytes[p]]

VerifierInit ==
    /\ \E b \in Buffers, cut \in Cuts, hits \in {{}} \cup {{f[k] : k \in 1..Hits} : f \in [1..Hits -> Damages]} :
          /\ mem = Damaged(b.bytes, hits, cut)
          /\ intact = (mem = b.bytes) /\ rootType = b.root
          /\ \E asked \in {<<>>, b.ident} :
                todo = <<Goal("buffer", IF b.prefixed THEN 4 ELSE 0, asked, 0)>>
    /\ depth = 0 /\ tables = 0
    /\ verdict = "checking" /\ reads = {}

VerifierNext ==
    \/ VerifyBuffer \/ VerifyTableStart \/ VerifyFields \/ LeaveTable
    \/ VerifyField \/ VerifyTable \/ VerifyVector \/ VerifyString
    \/ OpenVector("strings", "eachString") \/ VerifyEachString
    \/ OpenVector("tables", "eachTable") \/ VerifyEachTable
    \/ VerifyUnion \/ VerifyUnions \/ VerifyEachUnion

\* The verifier runs in its caller's thread, alone: it takes its next step.
VerifierSpec == VerifierInit /\ [][VerifierNext]_verifierVars /\ WF_verifierVars(VerifierNext)

-----------------------------------------------------------------------------
(* Properties.                                                             *)

\* The type invariant: verdicts and stack agree, and no table beyond the limits
\* is looked into.
VerifierTypeOK ==
    /\ mem \in Seq(0..255) /\ intact \in BOOLEAN /\ rootType \in DOMAIN Types
    /\ verdict \in {"checking", "accepted", "refused", "crashed"}
    /\ (verdict = "checking") = (todo # <<>>)
    /\ depth \in 0..(MaxDepth + 1) /\ tables \in 0..(MaxTables + 1)
    /\ verdict # "refused" => depth <= MaxDepth /\ tables <= MaxTables

\* The verifier itself reads no byte it has not checked to be in the buffer.
ReadsInside == \A r \in reads : Inside(r.at, r.size)

\* Every accessor of a table t of type T reads inside the buffer, and what a
\* reference leads to, the offset a table starts with included; the tables it
\* leads to are among `good`.
StringInside(s) ==
    Inside(s, 4) /\ Inside(s, 4 + U32(s) + 1) /\ Byte(s + 4 + U32(s)) = 0

FieldReadable(t, T, i, good) ==
    LET f    == Types[T][i]
        at   == t + FieldOffset(t, i)
        p    == Indirect(at)
        vec  == Inside(p, 4) /\ Inside(p, 4 + f.size * U32(p))
        Tab(q, of) == Inside(q, 4) /\ <<q, of>> \in good
        E(k) == Indirect(Element(p, k, 4))
        type == ByteField(t, i - 1)
        TypeOf(k) == Byte(Element(Pointer(t, i - 1), k, 1))
    IN  /\ \A r \in OffsetReads(t, i) : Inside(r.at, r.size)
        /\ FieldOffset(t, i) = 0 => ~f.required
        /\ FieldOffset(t, i) # 0 =>
            /\ Inside(at, InlineSize(f))
            /\ CASE f.kind \in {"scalar", "struct"} -> TRUE
                 [] f.kind = "string"  -> StringInside(p)
                 [] f.kind = "table"   -> Tab(p, f.of)
                 [] f.kind = "vector"  -> vec
                 [] f.kind = "strings" -> vec /\ \A k \in 1..U32(p) : StringInside(E(k))
                 [] f.kind = "tables"  -> vec /\ \A k \in 1..U32(p) : Tab(E(k), f.of)
                 [] f.kind = "union"   ->
                        type # 0 => type \in DOMAIN Members /\ Tab(p, Members[type])
                 [] f.kind = "unions"  ->
                        /\ vec
                        /\ Inside(Pointer(t, i - 1), 4 + U32(p))
                        /\ U32(p) = U32(Pointer(t, i - 1))
                        /\ \A k \in 1..U32(p) : TypeOf(k) # 0 =>
                              TypeOf(k) \in DOMAIN Members /\ Tab(E(k), Members[TypeOf(k)])

AccessorsInside(t, T, good) ==
    /\ Inside(t, 4) /\ Inside(VTable(t), 2)
    /\ \A i \in DOMAIN Types[T] : FieldReadable(t, T, i, good)

\* Readable[d]: the tables a reader may look into, to d levels below them,
\* whatever it reads, in whatever order.
AnyTable == Int \X DOMAIN Types
Readable[d \in Nat] ==
    {table \in AnyTable :
        AccessorsInside(table[1], table[2], IF d = 0 THEN AnyTable ELSE Readable[d - 1])}

\* What a reader of an accepted buffer reads lies in the buffer: its root, the
\* one of the buffer that has been asked for, is readable as deep as it is.
AcceptedReadable ==
    verdict = "accepted" =>
        \E start \in {0, 4} : Inside(start, 4) /\ <<Indirect(start), rootType>> \in Readable[MaxDepth]

\* depth_ is the number of tables being verified: every table that has been
\* entered is left again, in whichever order unions, vectors and fields nest.
DepthIsNesting ==
    verdict \in {"checking", "accepted"} =>
        depth = Cardinality({j \in DOMAIN todo : todo[j].check = "fields"})

\* The verifier, run over any bytes, and what it promises those who read them.
VerifierSound == ReadsInside /\ AcceptedReadable /\ DepthIsNesting

\* A buffer that has not been damaged is refused for its size only.
RefusesDamageOnly ==
    intact /\ verdict = "refused" => depth > MaxDepth \/ tables > MaxTables

=============================================================================
