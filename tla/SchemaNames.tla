---------------------------- MODULE SchemaNames -----------------------------
(***************************************************************************)
(* Names in idl_parser.cpp: types are looked up through the namespaces     *)
(* around them, and a struct or table may be used before it is defined,    *)
(* which "predeclares" it under the name it was used by.                   *)
(*                                                                         *)
(* A name is a sequence of identifiers; a definition is known by a number, *)
(* the address of its StructDef.  One step parses one declaration, one     *)
(* field or one member, or ends the schema.                                *)
(***************************************************************************)
EXTENDS Integers, Sequences, FiniteSets

CONSTANTS
    Namespaces,     \* what a namespace statement may say
    Identifiers,    \* names of definitions
    Uses,           \* names types are used by
    MaxSteps        \* steps of a schema

VARIABLES
    namespace,      \* namespaces_.back()
    dict,           \* structs_.dict: qualified name -> definition
    vec,            \* structs_.vec
    def,            \* definition -> [name, namespace, predecl, fixed]
    enums,          \* enums_: qualified name -> [is_union, members, at]
    root,           \* root_struct_def_, or 0
    services,       \* services_: qualified name -> rpc -> <<request, response>>
    inside,         \* the definition, union or service that is being parsed
    uses,           \* what was used: [from, name, by, target, predecl]
    step, state     \* steps made; "parsing", "failed" or "done"

namesVars == <<namespace, dict, vec, def, enums, root, services, inside, uses, step, state>>

NoOne == [kind |-> "none", is |-> 0, name |-> <<>>]

-----------------------------------------------------------------------------
(* Symbol tables and scopes *)

Put(f, x, y) == [z \in DOMAIN f \cup {x} |-> IF z = x THEN y ELSE f[z]]
\* SymbolTable::Move: what was registered under the new name is forgotten.
Move(f, old, new) ==
    [z \in (DOMAIN f \ {old}) \cup {new} |-> IF z = new THEN f[old] ELSE f[z]]

GetFullyQualifiedName(name, components) == SubSeq(namespace, 1, components) \o name
Qualified(name) == GetFullyQualifiedName(name, Len(namespace))
QualifiedOf(d) == def[d].namespace \o def[d].name

\* The innermost of the scopes around a use in which the name is in S.
Scopes == 0..Len(namespace)
InScope(name, S) == \E c \in Scopes : GetFullyQualifiedName(name, c) \in S
Innermost(name, S) ==
    GetFullyQualifiedName(name, CHOOSE c \in Scopes :
        /\ GetFullyQualifiedName(name, c) \in S
        /\ \A d \in Scopes : GetFullyQualifiedName(name, d) \in S => d <= c)

Predeclared(name) == name \in DOMAIN dict /\ def[dict[name]].predecl

\* LookupCreateStruct(name) of a use: the definition it finds, 0 for none.
Found(name) ==
    IF Predeclared(name) THEN dict[name]
    ELSE IF InScope(name, DOMAIN dict) THEN dict[Innermost(name, DOMAIN dict)]
    ELSE 0

Fresh == Cardinality(DOMAIN def) + 1
Target(name) == IF Found(name) = 0 THEN Fresh ELSE Found(name)
NewDef(name, space) == [name |-> name, namespace |-> space, predecl |-> TRUE, fixed |-> FALSE]
\* Names not found are predeclared in the root namespace.
DefAfterUse(name) ==
    IF Found(name) # 0 THEN def ELSE Put(def, Fresh, NewDef(name, <<>>))
DictAfterUse(name) == IF Found(name) # 0 THEN dict ELSE Put(dict, name, Fresh)
VecAfterUse(name) == IF Found(name) # 0 THEN vec ELSE Append(vec, Fresh)
IsFixed(name) == Found(name) # 0 /\ def[Found(name)].fixed

IsEnum(name) == InScope(name, DOMAIN enums)
EnumOf(name) == enums[Innermost(name, DOMAIN enums)]

Use(name, by) ==
    /\ dict' = DictAfterUse(name)
    /\ def' = DefAfterUse(name)
    /\ vec' = VecAfterUse(name)
    /\ uses' = uses \cup {[from |-> namespace, name |-> name, by |-> by,
                           target |-> Target(name),
                           predecl |-> Found(name) = 0 \/ def[Target(name)].predecl]}

\* ParseTypeIdent: an enum is its underlying type, any other name a struct.
UseType(name, by) ==
    IF IsEnum(name) THEN UNCHANGED <<dict, def, vec, uses>> ELSE Use(name, by)

-----------------------------------------------------------------------------
(* Declarations.  A check that fails ends the parse, with what was done    *)
(* before it.                                                              *)

Step == state = "parsing" /\ step < MaxSteps /\ step' = step + 1
AtTop == Step /\ inside = NoOne
FailIf(failed) == state' = IF failed THEN "failed" ELSE state
Fail == /\ state' = "failed"
        /\ UNCHANGED <<namespace, dict, vec, def, enums, root, services, inside, uses>>

ParseNamespace(n) ==
    /\ AtTop
    /\ namespace' = n
    /\ UNCHANGED <<dict, vec, def, enums, root, services, inside, uses, state>>

\* StartStruct: a predeclared definition is taken over, under its full name.
Existing(name) == IF Predeclared(<<name>>) THEN dict[<<name>>]
                  ELSE IF Qualified(<<name>>) \in DOMAIN dict THEN dict[Qualified(<<name>>)]
                  ELSE 0
Registered(name, d) ==
    IF Predeclared(<<name>>) THEN Move(dict, <<name>>, Qualified(<<name>>))
    ELSE IF Existing(name) # 0 THEN dict ELSE Put(dict, Qualified(<<name>>), d)
\* *remove(...) = d: what is behind d moves forward and leaves the last place.
PlaceOf(d) == CHOOSE i \in DOMAIN vec : vec[i] = d
MovedToBack(d) ==
    IF \A i \in DOMAIN vec : vec[i] # d THEN Append(vec, d)
    ELSE [i \in DOMAIN vec |-> IF i < PlaceOf(d) THEN vec[i]
                               ELSE IF i < Len(vec) THEN vec[i + 1] ELSE d]

StartStruct(name, fixed) ==
    /\ AtTop
    /\ LET d == IF Existing(name) = 0 THEN Fresh ELSE Existing(name) IN
       IF Existing(name) # 0 /\ ~def[Existing(name)].predecl
       THEN Fail
       ELSE /\ dict' = Registered(name, d)
            /\ def' = Put(def, d, [name |-> <<name>>, namespace |-> namespace,
                                   predecl |-> FALSE, fixed |-> fixed])
            /\ vec' = MovedToBack(d)
            /\ inside' = [kind |-> "def", is |-> d, name |-> <<>>]
            /\ UNCHANGED <<namespace, enums, root, services, uses, state>>

\* A field whose type is not built in.  Structs hold scalars and structs.
FieldOf(name) ==
    /\ Step /\ inside.kind = "def"
    /\ UseType(name, inside.is)
    /\ FailIf(def[inside.is].fixed /\ IF IsEnum(name) THEN EnumOf(name).is_union
                                                      ELSE ~IsFixed(name))
    /\ UNCHANGED <<namespace, enums, root, services, inside>>

NewEnum(is_union) ==
    [is_union |-> is_union, members |-> << >>, at |-> Cardinality(DOMAIN enums) + 1]
ParseEnum(name, is_union) ==
    /\ AtTop
    /\ IF Qualified(<<name>>) \in DOMAIN enums THEN Fail
       ELSE /\ enums' = Put(enums, Qualified(<<name>>), NewEnum(is_union))
            /\ inside' = IF is_union
                         THEN [kind |-> "union", is |-> 0, name |-> Qualified(<<name>>)]
                         ELSE NoOne
            /\ UNCHANGED <<namespace, dict, vec, def, root, services, uses, state>>

\* A member is named as its type is, with all of the name.
MemberOf(name) ==
    /\ Step /\ inside.kind = "union"
    /\ IF name \in DOMAIN enums[inside.name].members THEN Fail
       ELSE /\ Use(name, 0)
            /\ enums' = [enums EXCEPT ![inside.name].members = Put(@, name, Target(name))]
            /\ UNCHANGED <<namespace, root, services, inside, state>>

ParseService(name) ==
    /\ AtTop
    /\ IF Qualified(<<name>>) \in DOMAIN services THEN Fail
       ELSE /\ services' = Put(services, Qualified(<<name>>), << >>)
            /\ inside' = [kind |-> "service", is |-> 0, name |-> Qualified(<<name>>)]
            /\ UNCHANGED <<namespace, dict, vec, def, enums, root, uses, state>>

\* The two types of an rpc are parsed before they are checked to be tables.
RequestOf(type) ==
    /\ Step /\ inside.kind = "service"
    /\ UseType(type, 0)
    /\ inside' = [inside EXCEPT !.kind = "rpc", !.is = IF IsEnum(type) THEN 0 ELSE Target(type)]
    /\ UNCHANGED <<namespace, enums, root, services, state>>

IsTable(type) == ~IsEnum(type) /\ ~IsFixed(type)
ResponseOf(rpc, type) ==
    /\ Step /\ inside.kind = "rpc"
    /\ UseType(type, 0)
    /\ UNCHANGED <<namespace, enums, root>>
    /\ IF \/ inside.is = 0 \/ def[inside.is].fixed \/ ~IsTable(type)
          \/ rpc \in DOMAIN services[inside.name]
       THEN state' = "failed" /\ UNCHANGED <<services, inside>>
       ELSE /\ services' = [services EXCEPT ![inside.name] =
                                Put(@, rpc, <<inside.is, Target(type)>>)]
            /\ inside' = [inside EXCEPT !.kind = "service", !.is = 0]
            /\ UNCHANGED state

\* A union has a member at least, a service an rpc.
End ==
    /\ Step /\ inside.kind \in {"def", "union", "service"}
    /\ inside.kind = "union" => DOMAIN enums[inside.name].members # {}
    /\ inside.kind = "service" => DOMAIN services[inside.name] # {}
    /\ inside' = NoOne
    /\ UNCHANGED <<namespace, dict, vec, def, enums, root, services, uses, state>>

RootOf(name) == IF name \in DOMAIN dict THEN dict[name]
                ELSE IF Qualified(name) \in DOMAIN dict THEN dict[Qualified(name)] ELSE 0
SetRootType(name) ==
    /\ AtTop
    /\ root' = RootOf(name)
    /\ FailIf(root' = 0 \/ def[root'].fixed)
    /\ UNCHANGED <<namespace, dict, vec, def, enums, services, inside, uses>>

UnionElementsAreTables ==
    \A e \in DOMAIN enums : \A m \in DOMAIN enums[e].members : ~def[enums[e].members[m]].fixed
NoneReferencedOnly == \A i \in DOMAIN vec : ~def[vec[i]].predecl

EndOfSchema ==
    /\ state = "parsing" /\ inside = NoOne
    /\ state' = IF NoneReferencedOnly /\ UnionElementsAreTables THEN "done" ELSE "failed"
    /\ UNCHANGED <<namespace, dict, vec, def, enums, root, services, inside, uses, step>>

Init ==
    /\ namespace = <<>> /\ dict = << >> /\ vec = <<>> /\ def = << >> /\ enums = << >>
    /\ root = 0 /\ services = << >> /\ inside = NoOne /\ uses = {} /\ step = 0
    /\ state = "parsing"

Next ==
    \/ \E n \in Namespaces : ParseNamespace(n)
    \/ \E name \in Identifiers, fixed \in BOOLEAN : StartStruct(name, fixed)
    \/ \E name \in Identifiers, is_union \in BOOLEAN : ParseEnum(name, is_union)
    \/ \E name \in Identifiers : ParseService(name)
    \/ \E name \in Uses : \/ FieldOf(name)
                          \/ MemberOf(name)
                          \/ RequestOf(name)
                          \/ \E rpc \in Identifiers : ResponseOf(rpc, name)
                          \/ SetRootType(name)
    \/ End
    \/ EndOfSchema

Spec == Init /\ [][Next]_namesVars

-----------------------------------------------------------------------------
(* Properties.  Those of an accepted schema are about state = "done".      *)

Definitions == DOMAIN def
TypeOK ==
    /\ \A n \in DOMAIN dict : dict[n] \in Definitions
    /\ {vec[i] : i \in DOMAIN vec} = Definitions /\ Len(vec) = Cardinality(Definitions)
    /\ root \in Definitions \cup {0}
    /\ \A s \in DOMAIN services : \A rpc \in DOMAIN services[s] :
            {services[s][rpc][1], services[s][rpc][2]} \subseteq Definitions
    /\ \A u \in uses : u.target \in Definitions
    /\ state \in {"parsing", "failed", "done"} /\ step \in 0..MaxSteps

\* What the theorems ask of the names in a schema.
NamesTyped ==
    /\ Namespaces \subseteq Seq(STRING) /\ Uses \subseteq Seq(STRING)
    /\ Identifiers \subseteq STRING /\ MaxSteps \in Nat

Heads(s) == {SubSeq(s, 1, n) : n \in 0..Len(s)}
ScopedTo(u) == QualifiedOf(u.target) \in {p \o u.name : p \in Heads(u.from)}

\* A type that is used after its definition is one of a namespace around the
\* use, whatever was predeclared, moved and defined in between.
DefinedThenScoped == \A u \in uses : ~u.predecl => ScopedTo(u)

\* No type an accepted schema uses has only been predeclared: what is moved in
\* the vector that is searched for such types at the end is not lost from it.
UsesDefined == state = "done" => \A u \in uses : ~def[u.target].predecl

=============================================================================
