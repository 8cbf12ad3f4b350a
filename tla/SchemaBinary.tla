---------------------------- MODULE SchemaBinary ----------------------------
(***************************************************************************)
(* A parsed schema as a buffer (flatc -b --schema, .bfbs): Parser's        *)
(* Serialize, which writes it with what reflection_generated.h generates   *)
(* from reflection.fbs, and the accessors that read it.                    *)
(*                                                                         *)
(* A table of the buffer is an item: its type and what its slots hold.  A  *)
(* reference is the number of an item.  A name is a number, its place      *)
(* among all names in the order of strings; qualified names are names.     *)
(***************************************************************************)
EXTENDS Integers, Sequences, FiniteSets, SequencesExt

CONSTANTS
    StructDefs,     \* tables and structs the schema may declare
    EnumDefs,       \* enums and unions it may declare
    Builtin,        \* the attributes flatc knows of itself
    MaxInt,         \* the largest int64_t
    Writes          \* how often the schema is serialized

VARIABLES
    structs, enums, \* structs_.vec and enums_.vec, with `index` and
                    \* `serialized_location` of each
    items,          \* what builder_ has made
    schema,         \* the Schema table; 0 before there is one
    writes

binaryVars == <<structs, enums, items, schema, writes>>

\* BaseType of idl.h and of reflection.fbs; a value is a place in both.
BaseTypes == <<"NONE", "UTYPE", "BOOL", "CHAR", "UCHAR", "SHORT", "USHORT", "INT", "UINT",
               "LONG", "ULONG", "FLOAT", "DOUBLE", "STRING", "VECTOR", "STRUCT", "UNION">>
Code(base)      == (CHOOSE i \in DOMAIN BaseTypes : BaseTypes[i] = base) - 1
IsInteger(base) == Code(base) \in Code("UTYPE")..Code("ULONG")
IsFloat(base)   == base \in {"FLOAT", "DOUBLE"}

BinaryAssumption ==
    /\ \A s \in StructDefs : \A k \in DOMAIN s.fields :
        s.fields[k].type.base \in Range(BaseTypes) /\ s.fields[k].constant \in Nat
    /\ MaxInt \in Nat /\ Writes \in Nat

-----------------------------------------------------------------------------
(* The tables of reflection.fbs: their slots, what they require, and the   *)
(* defaults that are not zero.  Left out: documentation, written only when *)
(* asked for, and the file's identifier and extension.                     *)

TypeTable     == [slots |-> [base_type |-> 4, element |-> 6, index |-> 8], required |-> {}]
KeyValueTable == [slots |-> [key |-> 4, value |-> 6], required |-> {"key"}]
EnumValTable  == [slots |-> [name |-> 4, value |-> 6, object |-> 8], required |-> {"name"}]
EnumTable ==
    [slots |-> [name |-> 4, values |-> 6, is_union |-> 8, underlying_type |-> 10,
                attributes |-> 12],
     required |-> {"name", "values", "underlying_type"}]
FieldTable ==
    [slots |-> [name |-> 4, type |-> 6, id |-> 8, offset |-> 10, default_integer |-> 12,
                default_real |-> 14, deprecated |-> 16, required |-> 18, key |-> 20,
                attributes |-> 22],
     required |-> {"name", "type"}]
ObjectTable ==
    [slots |-> [name |-> 4, fields |-> 6, is_struct |-> 8, minalign |-> 10,
                bytesize |-> 12, attributes |-> 14],
     required |-> {"name", "fields"}]
SchemaTable == [slots |-> [objects |-> 4, enums |-> 6, root_table |-> 12],
                required |-> {"objects", "enums"}]

Layout == [Type |-> TypeTable, KeyValue |-> KeyValueTable, EnumVal |-> EnumValTable,
           Enum |-> EnumTable, Field |-> FieldTable, Object |-> ObjectTable,
           Schema |-> SchemaTable]
Slots == [table \in DOMAIN Layout |-> Layout[table].slots]
Required == [table \in DOMAIN Layout |-> Layout[table].required]

\* What a slot holds: a number, a string or references.
Cell(num, str, refs, vector) == [num |-> num, str |-> str, refs |-> refs, vector |-> vector]
Num(n)   == Cell(<<n>>, <<>>, <<>>, FALSE)
Str(s)   == Cell(<<>>, <<s>>, <<>>, FALSE)
Ref(i)   == Cell(<<>>, <<>>, <<i>>, FALSE)
Refs(s)  == Cell(<<>>, <<>>, s, TRUE)
NoOffset == Cell(<<>>, <<>>, <<>>, FALSE)
Bool(b)  == Num(IF b THEN 1 ELSE 0)
DefaultOf(name) ==
    CASE name \in {"attributes", "object", "root_table"} -> NoOffset
      [] name = "index" -> Num(-1)
      [] OTHER -> Num(0)

\* Create...: a slot holds what it is given unless that is the default.
Table(table, given) ==
    LET stored == {n \in DOMAIN given : given[n] # DefaultOf(n)}
    IN  [table |-> table,
         slots |-> [s \in {Slots[table][n] : n \in stored} |->
                        given[CHOOSE n \in stored : Slots[table][n] = s]]]

\* The accessors, of the tables in `its`.
Has(its, t, name) == Slots[its[t].table][name] \in DOMAIN its[t].slots
Get(its, t, name) ==
    IF Has(its, t, name) THEN its[t].slots[Slots[its[t].table][name]] ELSE DefaultOf(name)
GetNum(its, t, name)  == Get(its, t, name).num[1]
GetBool(its, t, name) == GetNum(its, t, name) # 0
GetStr(its, t, name)  == Get(its, t, name).str[1]
GetRef(its, t, name)  == Get(its, t, name).refs[1]
GetRefs(its, t, name) == Get(its, t, name).refs

\* KeyCompareLessThan: of an EnumVal the value, of the others the name.
Key(its, t) ==
    CASE its[t].table = "KeyValue" -> GetStr(its, t, "key")
      [] its[t].table = "EnumVal"  -> GetNum(its, t, "value")
      [] OTHER                     -> GetStr(its, t, "name")

\* The tables at refs are those of `its`, the first of which is number n + 1.
CreateVectorOfSortedTables(its, n, refs) ==
    Refs(SortSeq(refs, LAMBDA s, t : Key(its, s - n) < Key(its, t - n)))

\* The tables One makes of each element of s behind n others; refs are the
\* last of each.
CreateEach(n, s, One(_, _)) ==
    LET made[k \in 0..Len(s)] ==
            IF k = 0 THEN [items |-> <<>>, refs |-> <<>>]
            ELSE LET m == made[k - 1]
                     items1 == m.items \o One(n + Len(m.items), s[k])
                 IN  [items |-> items1, refs |-> Append(m.refs, n + Len(items1))]
    IN  made[Len(s)]

-----------------------------------------------------------------------------
(* Serialize.                                                              *)

\* Mutant: a definition has the index it was declared with.
IndexAsDeclared(defs) == [i \in DOMAIN defs |-> [defs[i] EXCEPT !.index = i - 1]]

\* AssignIndices: from zero, in the order the tables will be sorted in.
AssignIndices(defs) ==
    [i \in DOMAIN defs |->
        [defs[i] EXCEPT !.index =
            Cardinality({j \in DOMAIN defs : defs[j].name < defs[i].name})]]

DefinitionOf(defs, name) == defs[CHOOSE i \in DOMAIN defs : defs[i].name = name]
IsDefined(defs, name) == \E i \in DOMAIN defs : defs[i].name = name

\* The struct a type names, or its enum, or neither.
IndexOf(type, ss, es) ==
    CASE type.struct # 0 -> DefinitionOf(ss, type.struct).index
      [] type.struct = 0 /\ type.enum # 0 -> DefinitionOf(es, type.enum).index
      [] OTHER -> -1

\* Serialize of a definition is the tables it makes behind n others.
SerializeType(type, ss, es) ==
    Table("Type", [base_type |-> Num(Code(type.base)), element |-> Num(Code(type.element)),
                   index |-> Num(IndexOf(type, ss, es))])

\* The attributes that are not flatc's own.
SerializeAttributes(attributes) ==
    [i \in DOMAIN SelectSeq(attributes, LAMBDA a : a.key \notin Builtin) |->
        LET a == SelectSeq(attributes, LAMBDA b : b.key \notin Builtin)[i]
        IN  Table("KeyValue", [key |-> Str(a.key), value |-> Str(a.value)])]
AttributesAt(n, its) ==
    IF its = <<>> THEN NoOffset
    ELSE CreateVectorOfSortedTables(its, n, [i \in DOMAIN its |-> n + i])

\* strtoll stops at the largest number there is.
StringToInt(constant) == IF constant > MaxInt THEN MaxInt ELSE constant

SerializeField(n, f, id, ss, es) ==
    LET attrs == SerializeAttributes(f.attributes)
    IN  <<SerializeType(f.type, ss, es)>> \o attrs \o
        <<Table("Field",
            [name |-> Str(f.name), type |-> Ref(n + 1), id |-> Num(id), offset |-> Num(f.offset),
             default_integer |-> Num(IF IsInteger(f.type.base) THEN StringToInt(f.constant) ELSE 0),
             default_real |-> Num(IF IsFloat(f.type.base) THEN f.constant ELSE 0),
             deprecated |-> Bool(f.deprecated), required |-> Bool(f.required),
             key |-> Bool(f.key), attributes |-> AttributesAt(n + 1, attrs)])>>

SerializeStruct(n, s, ss, es) ==
    LET fields == CreateEach(n, [k \in DOMAIN s.fields |-> k], LAMBDA before, k :
                    SerializeField(before, s.fields[k], k - 1, ss, es))
        attrs  == SerializeAttributes(s.attributes)
    IN  fields.items \o attrs \o
        <<Table("Object",
            [name |-> Str(s.name),
             fields |-> CreateVectorOfSortedTables(fields.items, n, fields.refs),
             is_struct |-> Bool(s.fixed), minalign |-> Num(s.minalign),
             bytesize |-> Num(s.bytesize),
             attributes |-> AttributesAt(n + Len(fields.items), attrs)])>>

SerializeEnumVal(v, ss) ==
    Table("EnumVal",
        [name |-> Str(v.name), value |-> Num(v.value),
         object |-> IF v.struct = 0 THEN NoOffset
                    ELSE Ref(DefinitionOf(ss, v.struct).location)])

SerializeEnum(n, e, ss, es) ==
    LET vals  == [k \in DOMAIN e.vals |-> SerializeEnumVal(e.vals[k], ss)]
        under == n + Len(vals) + 1
        attrs == SerializeAttributes(e.attributes)
    IN  vals \o <<SerializeType(e.underlying_type, ss, es)>> \o attrs \o
        <<Table("Enum",
            [name |-> Str(e.name), values |-> Refs([k \in DOMAIN vals |-> n + k]),
             is_union |-> Bool(e.is_union), underlying_type |-> Ref(under),
             attributes |-> AttributesAt(under, attrs)])>>

Located(defs, refs) == [i \in DOMAIN defs |-> [defs[i] EXCEPT !.location = refs[i]]]

\* All references of the parsed files are defined: Parse had no error.
Resolved ==
    /\ \A i \in DOMAIN structs : \A k \in DOMAIN structs[i].fields :
        LET t == structs[i].fields[k].type
        IN  /\ t.struct # 0 => IsDefined(structs, t.struct)
            /\ t.enum # 0 => IsDefined(enums, t.enum)
    /\ \A i \in DOMAIN enums : \A k \in DOMAIN enums[i].vals :
        enums[i].vals[k].struct # 0 => IsDefined(structs, enums[i].vals[k].struct)

\* Parser::Serialize for a root type, 0 for none.
Serialize(root) ==
    LET ss == AssignIndices(structs)
        es == AssignIndices(enums)
        objects == CreateEach(0, ss, LAMBDA n, s : SerializeStruct(n, s, ss, es))
        located == Located(ss, objects.refs)
        size    == Len(objects.items)
        values  == CreateEach(size, es, LAMBDA n, e : SerializeEnum(n, e, located, es))
        made    == objects.items \o values.items
        top     == Table("Schema",
                    [objects |-> CreateVectorOfSortedTables(made, 0, objects.refs),
                     enums   |-> CreateVectorOfSortedTables(made, 0, values.refs),
                     root_table |-> IF root = 0 THEN NoOffset
                                    ELSE Ref(DefinitionOf(located, root).location)])
    IN  /\ writes < Writes /\ writes' = writes + 1
        /\ Resolved
        /\ structs' = located /\ enums' = Located(es, values.refs)
        /\ items' = Append(made, top) /\ schema' = Len(made) + 1

-----------------------------------------------------------------------------

\* A declaration more, of a file parsed by the same parser.
ParseStruct(d) ==
    /\ ~IsDefined(structs, d.name) /\ ~IsDefined(enums, d.name)
    /\ structs' = Append(structs, d) /\ schema' = 0
    /\ UNCHANGED <<enums, items, writes>>
ParseEnum(d) ==
    /\ ~IsDefined(structs, d.name) /\ ~IsDefined(enums, d.name)
    /\ enums' = Append(enums, d) /\ schema' = 0
    /\ UNCHANGED <<structs, items, writes>>

Init == structs = <<>> /\ enums = <<>> /\ items = <<>> /\ schema = 0 /\ writes = 0

Next ==
    \/ \E d \in StructDefs : ParseStruct(d)
    \/ \E d \in EnumDefs : ParseEnum(d)
    \/ \E root \in {structs[i].name : i \in DOMAIN structs} \cup {0} : Serialize(root)

Spec == Init /\ [][Next]_binaryVars

-----------------------------------------------------------------------------
(* What a reader finds.                                                    *)

At(vector, index) == GetRefs(items, schema, vector)[index + 1]

\* The name a type's index stands for: of an object for base or element
\* STRUCT, else of an enum.
IsObj(t) == Code("STRUCT") \in {GetNum(items, t, "base_type"), GetNum(items, t, "element")}
TypeRead(t) ==
    LET index == GetNum(items, t, "index")
    IN  [base |-> BaseTypes[GetNum(items, t, "base_type") + 1],
         element |-> BaseTypes[GetNum(items, t, "element") + 1],
         struct |-> IF IsObj(t) THEN GetStr(items, At("objects", index), "name") ELSE 0,
         enum |-> IF IsObj(t) \/ index = -1 THEN 0
                  ELSE GetStr(items, At("enums", index), "name")]

AttributesRead(t) ==
    {[key |-> GetStr(items, a, "key"), value |-> GetStr(items, a, "value")] :
        a \in Range(GetRefs(items, t, "attributes"))}

FieldRead(t) ==
    [name |-> GetStr(items, t, "name"), type |-> TypeRead(GetRef(items, t, "type")),
     id |-> GetNum(items, t, "id"), offset |-> GetNum(items, t, "offset"),
     constant |-> GetNum(items, t, "default_integer") + GetNum(items, t, "default_real"),
     deprecated |-> GetBool(items, t, "deprecated"), required |-> GetBool(items, t, "required"),
     key |-> GetBool(items, t, "key"), attributes |-> AttributesRead(t)]

ObjectRead(t) ==
    [name |-> GetStr(items, t, "name"), fixed |-> GetBool(items, t, "is_struct"),
     minalign |-> GetNum(items, t, "minalign"), bytesize |-> GetNum(items, t, "bytesize"),
     attributes |-> AttributesRead(t),
     fields |-> {FieldRead(f) : f \in Range(GetRefs(items, t, "fields"))}]

EnumRead(t) ==
    [name |-> GetStr(items, t, "name"), is_union |-> GetBool(items, t, "is_union"),
     underlying_type |-> TypeRead(GetRef(items, t, "underlying_type")),
     attributes |-> AttributesRead(t),
     vals |-> {[name |-> GetStr(items, v, "name"), value |-> GetNum(items, v, "value"),
                struct |-> IF Has(items, v, "object")
                           THEN GetStr(items, GetRef(items, v, "object"), "name") ELSE 0] :
                    v \in Range(GetRefs(items, t, "values"))}]

\* And what it should find of a declaration.
Custom(attributes) == {a \in Range(attributes) : a.key \notin Builtin}
Declared(s) ==
    [name |-> s.name, fixed |-> s.fixed, minalign |-> s.minalign, bytesize |-> s.bytesize,
     attributes |-> Custom(s.attributes),
     fields |-> {LET f == s.fields[k]
                 IN  [name |-> f.name, type |-> f.type, id |-> k - 1, offset |-> f.offset,
                      constant |-> f.constant, deprecated |-> f.deprecated,
                      required |-> f.required, key |-> f.key,
                      attributes |-> Custom(f.attributes)] : k \in DOMAIN s.fields}]
DeclaredEnum(e) ==
    [name |-> e.name, is_union |-> e.is_union, underlying_type |-> e.underlying_type,
     attributes |-> Custom(e.attributes), vals |-> Range(e.vals)]

\* The schema is read as it was declared, whatever the order of the
\* declarations and however often it was serialized before: every type, union
\* member and default stands for what it was.
ReadAsDeclared ==
    schema # 0 =>
        /\ {ObjectRead(t) : t \in Range(GetRefs(items, schema, "objects"))}
            = {Declared(structs[i]) : i \in DOMAIN structs}
        /\ {EnumRead(t) : t \in Range(GetRefs(items, schema, "enums"))}
            = {DeclaredEnum(enums[i]) : i \in DOMAIN enums}

\* LookupByKey finds by binary search: what it searches is in the order of its
\* keys, no two of them the same.
SortedByKey(refs) == \A i, j \in DOMAIN refs : i < j => Key(items, refs[i]) < Key(items, refs[j])
LookupsFind ==
    \A t \in DOMAIN items :
        /\ \A n \in {"objects", "enums"} :
            items[t].table = "Schema" => SortedByKey(GetRefs(items, t, n))
        /\ items[t].table = "Object" => SortedByKey(GetRefs(items, t, "fields"))
        /\ items[t].table = "Enum"   => SortedByKey(GetRefs(items, t, "values"))

\* VerifySchemaBuffer accepts it: what reflection.fbs requires is there, and
\* every reference leads to a table of its type made before.
TableOf == [type |-> "Type", underlying_type |-> "Type", attributes |-> "KeyValue",
            values |-> "EnumVal", object |-> "Object", fields |-> "Field",
            objects |-> "Object", enums |-> "Enum", root_table |-> "Object"]
Verified ==
    \A t \in DOMAIN items : \A n \in DOMAIN Slots[items[t].table] :
        /\ n \in Required[items[t].table] => Has(items, t, n)
        /\ n \in DOMAIN TableOf /\ Has(items, t, n) =>
            \A r \in Range(Get(items, t, n).refs) : r \in 1..(t - 1) /\ items[r].table = TableOf[n]

=============================================================================
