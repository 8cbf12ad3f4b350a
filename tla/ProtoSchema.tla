---------------------------- MODULE ProtoSchema ----------------------------
(***************************************************************************)
(* flatc --proto: a .proto file is parsed into tables and enums, with the  *)
(* names of SchemaNames, GenerateFBS writes them as a schema, and the      *)
(* schema is read again as any other.  One step parses one statement, in   *)
(* a message, an extend statement, a oneof or a group, which may be inside *)
(* of each other; what is skipped (options, services, reserved numbers) is *)
(* left out.                                                               *)
(***************************************************************************)
EXTENDS SchemaNames, SequencesExt

CONSTANTS
    Packages,       \* what a package statement may say
    FieldNames,
    Qualifiers,     \* of fields: of "optional", "required", "repeated"
    Deprecating,    \* whether a scalar field may say deprecated = true
    Defaults,       \* of scalar fields; 0 is none
    EnumValues,     \* the values an enum may list
    Extending       \* whether there are extend statements

VARIABLES
    package,
    open,           \* the calls of ParseProtoFields, the outermost first
    fields,         \* definition -> its fields
    values,         \* enum -> its values
    anonymous,      \* anonymous_counter
    text,           \* statements of the generated schema yet to be read
    proto,          \* what was parsed of the .proto file
    phase           \* "proto" or "fbs"

protoVars == <<namesVars, package, open, fields, values, anonymous, text, proto, phase>>

Scalar(base)     == [base |-> base, element |-> "none", struct |-> 0]
StructType(d)    == [base |-> "struct", element |-> "none", struct |-> d]
VectorOf(type)   == [base |-> "vector", element |-> type.base, struct |-> type.struct]
IsScalarType(type) == type.base \in {"bool", "int"}

Parsing(p) == phase = p /\ state = "parsing"
Statement  == Parsing("proto") /\ Step
Refuse ==
    /\ state' = "failed"
    /\ UNCHANGED <<namespace, dict, vec, def, enums, root, services, inside, uses>>
    /\ UNCHANGED <<package, open, fields, values, anonymous, text, proto, phase>>
Rest == UNCHANGED <<root, services, inside, state, text, proto, phase>>

-----------------------------------------------------------------------------
(* Declarations, of either kind of file.                                   *)

\* StartStruct of a name that is not defined yet.
CanStart(name) == Existing(name) = 0 \/ def[Existing(name)].predecl
StartedAs(name) == IF Existing(name) = 0 THEN Fresh ELSE Existing(name)
Start(name) ==
    LET d == StartedAs(name)
    IN  /\ dict' = Registered(name, d)
        /\ def' = Put(def, d, [name |-> <<name>>, namespace |-> namespace,
                               predecl |-> FALSE, fixed |-> FALSE])
        /\ vec' = MovedToBack(d)

FieldsOf(d) == IF d \in DOMAIN fields THEN fields[d] ELSE <<>>
HasField(d, name) == \E k \in DOMAIN FieldsOf(d) : FieldsOf(d)[k].name = name
AddField(d, field) == Put(fields, d, Append(FieldsOf(d), field))

\* ParseTypeIdent: an enum is its underlying type, any other name a struct.
TypeIdent(name) == IF IsEnum(name) THEN Scalar("int") ELSE StructType(Target(name))

-----------------------------------------------------------------------------
(* The .proto file.                                                        *)

Inside(kinds) == open # <<>> /\ Last(open).kind \in kinds
Path == IF open = <<>> THEN package ELSE Last(open).path
Push(kind, d, path) == open' = Append(open, [kind |-> kind, is |-> d, path |-> path])

Package(n) ==
    /\ Statement /\ open = <<>>
    /\ namespace' = n /\ package' = n
    /\ Rest /\ UNCHANGED <<dict, vec, def, enums, uses, open, fields, values, anonymous>>

Message(name) ==
    /\ Statement
    /\ IF CanStart(name)
       THEN /\ Start(name)
            /\ namespace' = Append(namespace, name)
            /\ Push("message", StartedAs(name), Append(Path, name))
            /\ Rest /\ UNCHANGED <<enums, uses, package, fields, values, anonymous>>
       ELSE Refuse

Extend(name) ==
    /\ Extending /\ Statement
    /\ IF Found(name) # 0
       THEN /\ Push("extend", Found(name), Path)
            /\ Rest /\ UNCHANGED <<namespace, dict, vec, def, enums, uses, package, fields,
                                   values, anonymous>>
       ELSE Refuse

\* The namespace of a message ends with it.
EndDeclaration ==
    /\ Parsing("proto") /\ open # <<>>
    /\ open' = Front(open)
    /\ namespace' = IF Last(open).kind = "message" THEN Front(namespace) ELSE namespace
    /\ Rest /\ UNCHANGED <<dict, vec, def, enums, uses, step, package, fields, values, anonymous>>

\* Mutant: values of an enum are sorted, and all of them kept.
SortedValues(vals) == SortSeq(vals, LAMBDA a, b : a < b)
\* "Protobuf allows them to be specified in any order, so sort afterwards",
\* and duplicates are removed.
EnumVals(vals) == SetToSortSeq(Range(vals), LAMBDA a, b : a < b)

Enum(name, vals) ==
    /\ Statement
    /\ IF Qualified(<<name>>) \in DOMAIN enums THEN Refuse
       ELSE /\ enums' = Put(enums, Qualified(<<name>>), NewEnum(FALSE))
            /\ values' = Put(values, Qualified(<<name>>), EnumVals(vals))
            /\ Rest /\ UNCHANGED <<namespace, dict, vec, def, uses, package, open, fields,
                                   anonymous>>

\* deprecated = true: the lexer has made the constant 1 of the keyword.
KeywordValue(said) == IF said THEN "1" ELSE "0"
Deprecated(said) == KeywordValue(said) = "true"

NewField(name, type, required, constant, said) ==
    [name |-> name, type |-> type, required |-> required /\ ~IsScalarType(type),
     constant |-> IF IsScalarType(type) THEN constant ELSE 0,
     deprecated |-> Deprecated(said), said |-> said]
\* A field an extend statement defines again keeps its type.
Redefined(d, f) ==
    [fields EXCEPT ![d] = [k \in DOMAIN @ |->
        IF @[k].name # f.name THEN @[k]
        ELSE [@[k] EXCEPT !.required = IF IsScalarType(f.type) THEN @ ELSE f.required,
                          !.constant = IF f.constant = 0 THEN @ ELSE f.constant,
                          !.said = f.said]]]

AddOrRedefine(f) ==
    LET d == Last(open).is
    IN  fields' = IF HasField(d, f.name) THEN Redefined(d, f) ELSE AddField(d, f)
Clashes(name) == HasField(Last(open).is, name) /\ ~Inside({"extend"})
\* The members of a oneof have no qualifier.
Qualifies(qualifier) == Inside({"oneof"}) => qualifier = "optional"
Repeated(type, qualifier) == IF qualifier = "repeated" THEN VectorOf(type) ELSE type

ScalarField(name, qualifier, constant, said) ==
    /\ Statement /\ open # <<>> /\ Qualifies(qualifier)
    /\ IF Clashes(name) THEN Refuse
       ELSE /\ AddOrRedefine(NewField(name, Repeated(Scalar("bool"), qualifier),
                                      qualifier = "required", constant, said))
            /\ Rest /\ UNCHANGED <<namespace, dict, vec, def, enums, uses, package, open,
                                   values, anonymous>>

NamedField(name, qualifier, type) ==
    /\ Statement /\ open # <<>> /\ Qualifies(qualifier)
    /\ IF Clashes(name) THEN Refuse
       ELSE /\ UseType(type, Last(open).is)
            /\ AddOrRedefine(NewField(name, Repeated(TypeIdent(type), qualifier),
                                      qualifier = "required", 0, FALSE))
            /\ Rest /\ UNCHANGED <<namespace, enums, package, open, values, anonymous>>

\* A oneof or a group is a field of a type of its own, which is started before
\* the field is added, or found where an extend statement defines it again.
AnonymousField(name, kind, qualifier) ==
    /\ Statement /\ open # <<>> /\ Qualifies(qualifier)
    /\ kind = "oneof" => qualifier = "optional" /\ ~Inside({"oneof"})
    /\ LET type == "Anonymous" \o ToString(anonymous)
           d    == StartedAs(type)
       IN  IF Clashes(name) \/ ~CanStart(type) THEN Refuse
           ELSE /\ Start(type)
                /\ AddOrRedefine(NewField(name, Repeated(StructType(d), qualifier),
                                          qualifier = "required", 0, FALSE))
                /\ anonymous' = anonymous + 1
                /\ Push(kind, d, Path)
                /\ Rest /\ UNCHANGED <<namespace, enums, uses, package, values>>

-----------------------------------------------------------------------------
(* GenerateFBS.                                                            *)

\* "Proto namespaces may clash with table names, so we have to prefix all."
Prefixed(components) == [i \in DOMAIN components |-> "_" \o components[i]]
Full(d) == Prefixed(def[d].namespace) \o def[d].name

GenType(type) ==
    [base |-> type.base, element |-> type.element,
     name |-> IF type.struct = 0 THEN <<>> ELSE Full(type.struct)]

\* A namespace is written before each declaration: again if it is the same.
GenNameSpace(components) == [kind |-> "namespace", name |-> Prefixed(components)]
GenEnum(e) ==
    <<GenNameSpace(Front(e)), [kind |-> "enum", name |-> Last(e), values |-> values[e]]>>
GenField(f) ==
    [kind |-> "field", name |-> f.name, type |-> GenType(f.type), required |-> f.required,
     constant |-> f.constant]
GenTable(d) ==
    <<GenNameSpace(def[d].namespace), [kind |-> "table", name |-> def[d].name[1]]>>
    \o [k \in DOMAIN FieldsOf(d) |-> GenField(FieldsOf(d)[k])]
    \o <<[kind |-> "end"]>>
GenerateFBS ==
    FlattenSeq([i \in 1 .. Cardinality(DOMAIN enums) |->
                    GenEnum(CHOOSE e \in DOMAIN enums : enums[e].at = i)])
    \o FlattenSeq([i \in DOMAIN vec |-> GenTable(vec[i])])

\* The end of the .proto file; then the generated schema is parsed.
EndOfProto ==
    /\ Parsing("proto") /\ open = <<>>
    /\ UNCHANGED <<root, services, inside, step, package, open, anonymous>>
    /\ IF \E i \in DOMAIN vec : def[vec[i]].predecl
       THEN /\ state' = "failed"
            /\ UNCHANGED <<namespace, dict, vec, def, enums, uses, fields, values, text, proto,
                           phase>>
       ELSE /\ text' = GenerateFBS /\ phase' = "fbs"
            /\ proto' = [def |-> def, fields |-> fields, values |-> values, uses |-> uses]
            /\ namespace' = <<>> /\ dict' = << >> /\ vec' = <<>> /\ def' = << >>
            /\ enums' = << >> /\ uses' = {} /\ fields' = << >> /\ values' = << >>
            /\ UNCHANGED state

-----------------------------------------------------------------------------
(* The schema.                                                             *)

Reading(kind) == Parsing("fbs") /\ text # <<>> /\ Head(text).kind = kind
Read(s) == text' = Tail(text) /\ UNCHANGED <<root, services, step, package, open, anonymous, proto, phase>>

ReadNamespace ==
    /\ Reading("namespace") /\ Read(text)
    /\ namespace' = Head(text).name
    /\ UNCHANGED <<dict, vec, def, enums, inside, uses, state, fields, values>>

Ascending(vals) == \A i, j \in DOMAIN vals : i < j => vals[i] < vals[j]
ReadEnum ==
    /\ Reading("enum")
    /\ LET e == Qualified(<<Head(text).name>>)
       IN  IF e \in DOMAIN enums \/ ~Ascending(Head(text).values) THEN Refuse /\ UNCHANGED step
           ELSE /\ Read(text)
                /\ enums' = Put(enums, e, NewEnum(FALSE))
                /\ values' = Put(values, e, Head(text).values)
                /\ UNCHANGED <<namespace, dict, vec, def, inside, uses, state, fields>>

ReadTable ==
    /\ Reading("table")
    /\ IF CanStart(Head(text).name)
       THEN /\ Read(text)
            /\ Start(Head(text).name)
            /\ inside' = [kind |-> "def", is |-> StartedAs(Head(text).name), name |-> <<>>]
            /\ UNCHANGED <<namespace, enums, uses, state, fields, values>>
       ELSE Refuse /\ UNCHANGED step

ReadField ==
    /\ Reading("field")
    /\ LET f == Head(text)
           name == f.type.name
           type == [base |-> f.type.base, element |-> f.type.element,
                    struct |-> IF name = <<>> THEN 0 ELSE Target(name)]
       IN  IF HasField(inside.is, f.name)
              \/ IF IsScalarType(type) THEN f.required ELSE f.constant # 0
           THEN Refuse /\ UNCHANGED step
           ELSE /\ Read(text)
                /\ IF name = <<>> THEN UNCHANGED <<dict, def, vec, uses>>
                   ELSE Use(name, inside.is)
                /\ fields' = AddField(inside.is,
                                NewField(f.name, type, f.required, f.constant, FALSE))
                /\ UNCHANGED <<namespace, enums, inside, state, values>>

ReadEnd ==
    /\ Reading("end") /\ Read(text)
    /\ inside' = NoOne
    /\ UNCHANGED <<namespace, dict, vec, def, enums, uses, state, fields, values>>

EndOfText ==
    /\ Parsing("fbs") /\ text = <<>>
    /\ state' = IF \E i \in DOMAIN vec : def[vec[i]].predecl THEN "failed" ELSE "done"
    /\ UNCHANGED <<namespace, dict, vec, def, enums, root, services, inside, uses, step, package,
                   open, fields, values, anonymous, text, proto, phase>>

-----------------------------------------------------------------------------

ProtoInit ==
    /\ package \in Packages /\ namespace = package
    /\ dict = << >> /\ vec = <<>> /\ def = << >> /\ enums = << >>
    /\ root = 0 /\ services = << >> /\ inside = NoOne /\ uses = {} /\ step = 0
    /\ state = "parsing"
    /\ open = <<>> /\ fields = << >> /\ values = << >> /\ anonymous = 0
    /\ text = <<>> /\ proto = << >> /\ phase = "proto"

ProtoNext ==
    \/ \E n \in Packages : Package(n)
    \/ \E name \in Identifiers : Message(name)
    \/ \E name \in Identifiers, vals \in EnumValues : Enum(name, vals)
    \/ \E name \in Uses : Extend(name)
    \/ \E name \in FieldNames, q \in Qualifiers, c \in Defaults,
          said \in {FALSE, Deprecating} : ScalarField(name, q, c, said)
    \/ \E name \in FieldNames, q \in Qualifiers, type \in Uses : NamedField(name, q, type)
    \/ \E name \in FieldNames, kind \in {"oneof", "group"}, q \in Qualifiers :
            AnonymousField(name, kind, q)
    \/ EndDeclaration
    \/ EndOfProto
    \/ ReadNamespace \/ ReadEnum \/ ReadTable \/ ReadField \/ ReadEnd \/ EndOfText

-----------------------------------------------------------------------------

\* What a table says: its fields, their types by full names.
Says(d, defs, all, prefix(_)) ==
    LET Name(e) == prefix(defs[e].namespace) \o defs[e].name
    IN  [name |-> Name(d),
         fields |-> [k \in DOMAIN (IF d \in DOMAIN all THEN all[d] ELSE <<>>) |->
            LET f == all[d][k]
            IN  [name |-> f.name, base |-> f.type.base, element |-> f.type.element,
                 type |-> IF f.type.struct = 0 THEN <<>> ELSE Name(f.type.struct),
                 required |-> f.required, constant |-> f.constant]]]
Same(components) == components

\* An extend statement has made a scalar required, or given a default to what is
\* none: what it defines again keeps its type.
Mixed ==
    \E d \in DOMAIN proto.fields : \E k \in DOMAIN proto.fields[d] :
        LET f == proto.fields[d][k]
        IN  IF IsScalarType(f.type) THEN f.required ELSE f.constant # 0

\* The generated schema is accepted, unless a field is mixed, and read as the
\* .proto file was: the same tables with the same fields, each type the same
\* table, and the same enums.
GeneratedReadBack ==
    phase = "fbs" =>
        /\ state = "failed" => Mixed
        /\ state = "done" =>
            /\ ~Mixed
            /\ {Says(d, def, fields, Same) : d \in Definitions}
                = {Says(d, proto.def, proto.fields, Prefixed) : d \in DOMAIN proto.def}
            /\ {<<e, values[e]>> : e \in DOMAIN values}
                = {<<Append(Prefixed(Front(e)), Last(e)), proto.values[e]>> :
                        e \in DOMAIN proto.values}

\* A message is in the package and the messages it was written in, also after
\* others inside of it have ended.
MessagesWhereWritten ==
    phase = "proto" /\ open # <<>> =>
        /\ namespace = Last(open).path
        /\ \A k \in DOMAIN open :
            open[k].kind = "message" => QualifiedOf(open[k].is) = open[k].path

=============================================================================
