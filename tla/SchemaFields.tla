---------------------------- MODULE SchemaFields ----------------------------
(***************************************************************************)
(* The declarations of structs and tables in idl_parser.cpp: ParseDecl     *)
(* opens a definition, ParseField adds one field to it at a time and lays  *)
(* structs out as it goes, the end of ParseDecl pads the struct or sorts   *)
(* the fields of a table by their ids.                                     *)
(*                                                                         *)
(* A name is <<stem, suffix>>, as CheckClash compares names by suffix.     *)
(* An error ends the parse: what was half done is not kept in the model.   *)
(***************************************************************************)
EXTENDS Integers, Sequences, FiniteSets

CONSTANTS
    Headers,        \* [name, fixed, attributes] of the definitions to parse
    Declarations,   \* [name, type, default, attributes] of their fields
    EnumDefs,       \* name -> [values, bit_flags]
    Cpp,            \* whether opts.lang_to_generate is kCpp
    MaxFields       \* fields in all definitions together

VARIABLES
    structs,           \* the parsed definitions by name
    open,           \* the definition ParseDecl is in, or Nothing
    failed          \* an error was found

fieldsVars == <<structs, open, failed>>

-----------------------------------------------------------------------------
(* Types *)

Scalars == {"utype", "bool", "ubyte", "short", "int", "float", "long", "double"}
SizeOf == [none |-> 1, utype |-> 1, bool |-> 1, ubyte |-> 1, short |-> 2, int |-> 4,
           float |-> 4, long |-> 8, double |-> 8, string |-> 4, vector |-> 4,
           struct |-> 4, union |-> 4]
IsScalar(base) == base \in Scalars

Nothing == [name |-> "", fixed |-> FALSE]

\* What type.struct_def points to: a name not declared yet leads to a
\* predeclared table.
StructDef(type) == IF type.of \in DOMAIN structs THEN structs[type.of]
                   ELSE IF type.of = open.name THEN open ELSE Nothing

IsStruct(type) == type.base = "struct" /\ StructDef(type).fixed
InlineSize(type) == IF IsStruct(type) THEN StructDef(type).bytesize ELSE SizeOf[type.base]
InlineAlignment(type) == IF IsStruct(type) THEN StructDef(type).minalign
                         ELSE SizeOf[type.base]

-----------------------------------------------------------------------------
(* Attributes: the first of two with one name is the one looked up.  An    *)
(* attribute's value is what atoi makes of its constant, 0 if no number.   *)

KnownAttributes == {"deprecated", "required", "key", "hash", "id", "force_align",
                    "nested_flatbuffer", "cpp_type", "native_inline"}
ParseMetaData(attributes) ==
    \A i \in DOMAIN attributes : attributes[i].name \in KnownAttributes
Has(attributes, name) == \E i \in DOMAIN attributes : attributes[i].name = name
Lookup(attributes, name) ==
    attributes[CHOOSE i \in DOMAIN attributes :
                 /\ attributes[i].name = name
                 /\ \A j \in 1..(i - 1) : attributes[j].name # name]
Atoi(attribute) == attribute.value
Id(field) == Atoi(Lookup(field.attributes, "id"))

-----------------------------------------------------------------------------
(* Layout *)

Greater(a, b) == IF a > b THEN a ELSE b
PaddingBytes(size, align) == (align - (size % align)) % align
LastPadded(fields, padding) ==
    [i \in DOMAIN fields |-> IF i = Len(fields)
                             THEN [fields[i] EXCEPT !.padding = padding] ELSE fields[i]]
PadLastField(def, align) ==
    [def EXCEPT !.bytesize = @ + PaddingBytes(@, align),
                !.fields = LastPadded(@, PaddingBytes(def.bytesize, align))]

FieldIndexToOffset(index) == 4 + 2 * index
NewField(name, type, offset) ==
    [name |-> name, type |-> type, offset |-> offset, padding |-> 0,
     attributes |-> <<>>, deprecated |-> FALSE, required |-> FALSE, key |-> FALSE]

\* Mutant: the alignment is that of the last field.
InlineFieldUnaligned(def, name, type) ==
    LET padded == PadLastField(def, InlineAlignment(type)) IN
    [padded EXCEPT !.minalign = InlineAlignment(type),
                   !.fields = Append(@, NewField(name, type, padded.bytesize)),
                   !.bytesize = @ + InlineSize(type)]
InlineField(def, name, type) ==
    LET padded == PadLastField(def, InlineAlignment(type)) IN
    [padded EXCEPT !.minalign = Greater(@, InlineAlignment(type)),
                   !.fields = Append(@, NewField(name, type, padded.bytesize)),
                   !.bytesize = @ + InlineSize(type)]
AddField(def, name, type) ==
    IF def.fixed THEN InlineField(def, name, type)
    ELSE [def EXCEPT !.fields = Append(@, NewField(name, type,
                                             FieldIndexToOffset(Len(def.fields))))]

HasField(def, name) == \E i \in DOMAIN def.fields : def.fields[i].name = name

-----------------------------------------------------------------------------
(* ParseField *)

UnionTypeField(name) == <<name[1], name[2] \o "_type">>
HasTypeField(type) == type.base = "union" \/ (type.base = "vector" /\ type.element = "union")
TypeFieldType(type) == IF type.base = "union" THEN [type EXCEPT !.base = "utype"]
                       ELSE [type EXCEPT !.element = "utype"]
Names(d) == {d.name} \cup (IF HasTypeField(d.type) THEN {UnionTypeField(d.name)} ELSE {})

DefaultFits(def, d) ==
    /\ d.default.given => IsScalar(d.type.base)
    /\ (d.type.enum # "" /\ IsScalar(d.type.base) /\ ~def.fixed)
         => (EnumDefs[d.type.enum].bit_flags \/ d.default.value \in EnumDefs[d.type.enum].values)

HashFits(d) ==
    /\ Has(d.attributes, "hash") =>
         \/ d.type.base = "int" /\ Lookup(d.attributes, "hash").text \in {"fnv1_32", "fnv1a_32"}
         \/ d.type.base = "long" /\ Lookup(d.attributes, "hash").text \in {"fnv1_64", "fnv1a_64"}
    /\ Has(d.attributes, "cpp_type") => Has(d.attributes, "hash")

KeyFits(def, d) == Has(d.attributes, "key") =>
                     ~def.has_key /\ (IsScalar(d.type.base) \/ d.type.base = "string")

NestedFits(d) ==
    Has(d.attributes, "nested_flatbuffer") =>
      /\ Lookup(d.attributes, "nested_flatbuffer").kind = "string"
      /\ d.type.base = "vector" /\ d.type.element = "ubyte"

FieldAllowed(def, d) ==
    /\ def.fixed => IsScalar(d.type.base) \/ IsStruct(d.type)
    /\ (d.type.base = "vector" /\ d.type.element = "union") => Cpp
    /\ \A name \in Names(d) : ~HasField(def, name)
    /\ ParseMetaData(d.attributes)
    /\ DefaultFits(def, d)
    /\ HashFits(d)
    /\ Has(d.attributes, "deprecated") => ~def.fixed
    /\ Has(d.attributes, "required") => ~def.fixed /\ ~IsScalar(d.type.base)
    /\ KeyFits(def, d)
    /\ Has(d.attributes, "native_inline") => IsStruct(d.type)
    /\ NestedFits(d)

TypeFieldAttributes(d) ==
    IF Has(d.attributes, "id")
    THEN <<[Lookup(d.attributes, "id") EXCEPT !.value = @ - 1]>>
    ELSE <<>>

Decorated(field, d) ==
    [field EXCEPT !.attributes = d.attributes,
                  !.deprecated = Has(d.attributes, "deprecated"),
                  !.required = Has(d.attributes, "required")
                     \/ (Has(d.attributes, "key") /\ ~IsScalar(d.type.base)),
                  !.key = Has(d.attributes, "key")]
WithTypeField(def, d) ==
    IF ~HasTypeField(d.type) THEN def
    ELSE LET added == AddField(def, UnionTypeField(d.name), TypeFieldType(d.type)) IN
         [added EXCEPT !.fields[Len(added.fields)].attributes = TypeFieldAttributes(d)]
FieldAdded(def, d) ==
    LET added == AddField(WithTypeField(def, d), d.name, d.type) IN
    [added EXCEPT !.fields[Len(added.fields)] = Decorated(@, d),
                  !.has_key = @ \/ Has(d.attributes, "key")]

Total == LET Count[S \in SUBSET DOMAIN structs] ==
               IF S = {} THEN 0
               ELSE LET n == CHOOSE n \in S : TRUE IN
                    Len(structs[n].fields) + Count[S \ {n}]
         IN Count[DOMAIN structs]

ParseField(d) ==
    /\ open # Nothing /\ ~failed /\ Total + Len(open.fields) < MaxFields
    /\ IF FieldAllowed(open, d)
       THEN open' = FieldAdded(open, d) /\ UNCHANGED <<structs, failed>>
       ELSE failed' = TRUE /\ UNCHANGED <<structs, open>>

-----------------------------------------------------------------------------
(* ParseDecl *)

Empty(header) ==
    [name |-> header.name, fixed |-> header.fixed, attributes |-> header.attributes,
     has_key |-> FALSE, minalign |-> 1, bytesize |-> 0, fields |-> <<>>]

StartStruct(header) ==
    /\ open = Nothing /\ ~failed
    /\ IF header.name \in DOMAIN structs \/ ~ParseMetaData(header.attributes)
       THEN failed' = TRUE /\ UNCHANGED <<structs, open>>
       ELSE open' = Empty(header) /\ UNCHANGED <<structs, failed>>

ForceAlignFits(def) ==
    (def.fixed /\ Has(def.attributes, "force_align")) =>
      LET force == Lookup(def.attributes, "force_align") IN
      /\ force.kind = "int"
      /\ Atoi(force) \in {1, 2, 4, 8, 16}
      /\ Atoi(force) >= def.minalign
Aligned(def) ==
    IF def.fixed /\ Has(def.attributes, "force_align")
    THEN [def EXCEPT !.minalign = Atoi(Lookup(def.attributes, "force_align"))]
    ELSE def
Padded(def) == PadLastField(Aligned(def), Aligned(def).minalign)

HasIds(def) == ~def.fixed /\ \E i \in DOMAIN def.fields : Has(def.fields[i].attributes, "id")
AllIds(def) == \A i \in DOMAIN def.fields : Has(def.fields[i].attributes, "id")
Consecutive(def) == {Id(def.fields[i]) : i \in DOMAIN def.fields} = 0..(Len(def.fields) - 1)
IdsFit(def) == HasIds(def) => AllIds(def) /\ Consecutive(def)
\* Mutant: the fields keep the slots they were declared with.
SortedOnly(def) ==
    IF ~HasIds(def) THEN def
    ELSE [def EXCEPT !.fields =
            [i \in DOMAIN @ |-> @[CHOOSE j \in DOMAIN @ : Id(@[j]) = i - 1]]]
SortedById(def) ==
    IF ~HasIds(def) THEN def
    ELSE [def EXCEPT !.fields =
            [i \in DOMAIN @ |->
               [@[CHOOSE j \in DOMAIN @ : Id(@[j]) = i - 1]
                  EXCEPT !.offset = FieldIndexToOffset(i - 1)]]]
\* Functions generated for a field may not have the name of another field.
Clash(def, suffix, base) ==
    \E i, j \in DOMAIN def.fields :
        /\ def.fields[i].name = <<def.fields[j].name[1], def.fields[j].name[2] \o suffix>>
        /\ def.fields[i].type.base # "utype"
        /\ def.fields[j].type.base = base
CheckClash(def) ==
    \/ Clash(def, "_type", "union")         \/ Clash(def, "Type", "union")
    \/ Clash(def, "_length", "vector")      \/ Clash(def, "Length", "vector")
    \/ Clash(def, "_byte_vector", "string") \/ Clash(def, "ByteVector", "string")

EndDecl ==
    /\ open # Nothing /\ ~failed
    /\ IF ForceAlignFits(open) /\ IdsFit(open) /\ ~CheckClash(open)
       THEN /\ structs' = [n \in DOMAIN structs \cup {open.name} |->
                             IF n = open.name THEN SortedById(Padded(open)) ELSE structs[n]]
            /\ open' = Nothing
            /\ UNCHANGED failed
       ELSE failed' = TRUE /\ UNCHANGED <<structs, open>>

-----------------------------------------------------------------------------
FieldsInit == structs = << >> /\ open = Nothing /\ failed = FALSE

FieldsNext == \/ \E header \in Headers : StartStruct(header)
        \/ \E d \in Declarations : ParseField(d)
        \/ EndDecl

FieldsSpec == FieldsInit /\ [][FieldsNext]_fieldsVars

-----------------------------------------------------------------------------
(* Properties *)

Bases == DOMAIN SizeOf \ {"none"}
Types == [base : Bases, element : {"none"} \cup Bases, of : STRING, enum : STRING]
Kinds == {"none", "int", "float", "string"}
Attribute == [name : STRING, kind : Kinds, value : Int, text : STRING]

\* What the theorems of SchemaProofs ask of the declarations: their types.
FieldsTyped ==
    /\ Headers \subseteq [name : STRING, fixed : BOOLEAN, attributes : Seq(Attribute)]
    /\ \A d \in Declarations : d.type \in Types /\ d.attributes \in Seq(Attribute)

IsDef(def) ==
    /\ def.fixed \in BOOLEAN /\ def.has_key \in BOOLEAN
    /\ def.minalign \in {1, 2, 4, 8, 16} /\ def.bytesize \in Nat
    /\ \A i \in DOMAIN def.fields :
         def.fields[i].type \in Types /\ def.fields[i].offset \in Nat

\* Type correctness: in particular no alignment but a power of two up to the
\* largest gets into a definition.
DefsTypeOK ==
    /\ failed \in BOOLEAN
    /\ open = Nothing \/ IsDef(open)
    /\ \A n \in DOMAIN structs : IsDef(structs[n])

ContainsItself(n) == \E i \in DOMAIN structs[n].fields : structs[n].fields[i].type.of = n

EndOf(field) == field.offset + InlineSize(field.type) + field.padding

\* A struct is laid out as every compiler must lay it out: each field at a
\* multiple of its alignment, where the one before it and the padding after
\* that end, and an array of such structs stays aligned.  (A struct that
\* contains itself is accepted, and has no layout.)
StructLaidOut ==
    \A n \in DOMAIN structs : structs[n].fixed /\ ~ContainsItself(n) =>
      LET def == structs[n] IN
      /\ def.bytesize % def.minalign = 0
      /\ \A i \in DOMAIN def.fields :
           LET field == def.fields[i] IN
           /\ field.offset % InlineAlignment(field.type) = 0
           /\ def.minalign % InlineAlignment(field.type) = 0
           /\ field.padding >= 0
           /\ EndOf(field) = IF i = Len(def.fields) THEN def.bytesize
                             ELSE def.fields[i + 1].offset

\* The fields of a table have the slots from the first on, each one its own,
\* and where ids are given a field's slot is the one its id says, wherever in
\* the table it is declared.
SlotsOfIds ==
    \A n \in DOMAIN structs : ~structs[n].fixed =>
      LET fields == structs[n].fields IN
      /\ {fields[i].offset : i \in DOMAIN fields}
           = {FieldIndexToOffset(k) : k \in 0..(Len(fields) - 1)}
      /\ \A i \in DOMAIN fields :
           Has(fields[i].attributes, "id") =>
             fields[i].offset = FieldIndexToOffset(Id(fields[i]))

\* The type of a union, or of the members of a vector of unions, is in the
\* slot before it, whether ids are given or not: verifiers, accessors and
\* GetUnionType find it there.
TypePrecedesUnion ==
    \A n \in DOMAIN structs : \A i \in DOMAIN structs[n].fields :
      LET field == structs[n].fields[i] IN
      HasTypeField(field.type) =>
        \E type \in {structs[n].fields[j] : j \in DOMAIN structs[n].fields} :
          /\ type.name = UnionTypeField(field.name)
          /\ type.type = TypeFieldType(field.type)
          /\ type.offset = field.offset - 2

\* ParseDecl: the fields of a table have the slots their ids say, the type of a
\* union the one before it.
SlotsById == SlotsOfIds /\ TypePrecedesUnion

=============================================================================
