--------------------------- MODULE SchemaConform ----------------------------
(***************************************************************************)
(* Parser::ConformTo of idl_parser.cpp: whether one version of a schema is *)
(* an evolution of another (flatc --conform).  A step compares one field   *)
(* of the new version, or one enumeration.                                 *)
(*                                                                         *)
(* A type is [base, enum]: enum is the name of the enumeration it is one   *)
(* of, "" where enum_def is null.  struct_def is null exactly where the    *)
(* base is not a struct, and its name is then part of `base`.              *)
(***************************************************************************)
EXTENDS Integers, Sequences, FiniteSets

CONSTANT Versions   \* pairs [base, new] of schemas: [structs, enums]

IsList(q) == q \in Seq({q[i] : i \in DOMAIN q})
NamesDistinct(defs) == \A i, j \in DOMAIN defs : defs[i].name = defs[j].name => i = j
OffsetsDistinct(fields) == \A i, j \in DOMAIN fields : fields[i].offset = fields[j].offset => i = j
IsType(type) == type \in [base : {type.base}, enum : {type.enum}]

\* What the parser makes sure of before: it accepts no two definitions, and no
\* two fields of one, of the same name, and gives every field its own offset.
WellFormed(schema) ==
    /\ IsList(schema.structs) /\ NamesDistinct(schema.structs)
    /\ IsList(schema.enums) /\ NamesDistinct(schema.enums)
    /\ \A s \in DOMAIN schema.structs :
          LET fields == schema.structs[s].fields
          IN  /\ IsList(fields) /\ NamesDistinct(fields) /\ OffsetsDistinct(fields)
              /\ \A f \in DOMAIN fields : IsType(fields[f].type)

ASSUME ConformAssumption ==
    \A v \in Versions : WellFormed(v.base) /\ WellFormed(v.new)

VARIABLES
    base, new,      \* the two versions
    sit, fit,       \* the struct and the field that is next
    verdict         \* what is returned: "none" before

conformVars == <<base, new, sit, fit, verdict>>

NamesOf(defs) == {defs[i].name : i \in DOMAIN defs}
Named(defs, name) == defs[CHOOSE i \in DOMAIN defs : defs[i].name = name]

\* Mutant: enumerations are not compared.
EqualBases(a, b) == a.base = b.base
EqualByName(a, b) == a.base = b.base /\ a.enum = b.enum
\* EqualByName reads the names of both enumerations although one is null.
ReadsNull(a, b) == a.base = b.base /\ (a.enum = "") # (b.enum = "")

Return(answer) == verdict' = answer /\ UNCHANGED <<base, new, sit, fit>>
Continue(s, f) == sit' = s /\ fit' = f /\ UNCHANGED <<base, new, verdict>>

Struct == new.structs[sit]
Field == Struct.fields[fit]
InStructs == verdict = "none" /\ sit \in DOMAIN new.structs
InFields == InStructs /\ Struct.name \in NamesOf(base.structs) /\ fit \in DOMAIN Struct.fields
Base == Named(base.structs, Struct.name)

NextStruct ==
    /\ InStructs /\ ~InFields
    /\ Continue(sit + 1, 1)

CompareTypes(a, b, message) ==
    IF ReadsNull(a, b) THEN Return("crash")
    ELSE IF EqualByName(a, b) THEN Continue(sit, fit + 1)
    ELSE Return(message)

SameField ==
    /\ InFields /\ Field.name \in NamesOf(Base.fields)
    /\ LET field_base == Named(Base.fields, Field.name) IN
       IF Field.offset # field_base.offset THEN Return("offsets differ")
       ELSE IF Field.constant # field_base.constant THEN Return("defaults differ")
       ELSE CompareTypes(Field.type, field_base.type, "types differ")

Renamed(field, fields) == {i \in DOMAIN fields : fields[i].offset = field.offset}
FieldIsNew ==
    /\ InFields /\ Field.name \notin NamesOf(Base.fields)
    /\ LET same == Renamed(Field, Base.fields) IN
       IF same = {} THEN Continue(sit, fit + 1)
       ELSE CompareTypes(Field.type, Base.fields[CHOOSE i \in same : \A j \in same : i <= j].type,
                  "field renamed")

ValuesSame == \A e \in NamesOf(new.enums) \cap NamesOf(base.enums) :
                LET vals == Named(new.enums, e).vals
                    vals_base == Named(base.enums, e).vals IN
                \A v \in DOMAIN vals \cap DOMAIN vals_base : vals[v] = vals_base[v]
Enums ==
    /\ verdict = "none" /\ sit > Len(new.structs)
    /\ Return(IF ValuesSame THEN "" ELSE "values differ")

ConformInit == /\ \E v \in Versions : base = v.base /\ new = v.new
        /\ sit = 1 /\ fit = 1 /\ verdict = "none"

ConformNext == NextStruct \/ SameField \/ FieldIsNew \/ Enums

ConformSpec == ConformInit /\ [][ConformNext]_conformVars

-----------------------------------------------------------------------------
(* Properties.  A reader of one version finds a field by its offset.       *)

Both == {p \in (1..Len(base.structs)) \X (1..Len(new.structs)) :
           base.structs[p[1]].name = new.structs[p[2]].name}
SameSlot(p) == {f \in (1..Len(base.structs[p[1]].fields)) \X (1..Len(new.structs[p[2]].fields)) :
                  base.structs[p[1]].fields[f[1]].offset = new.structs[p[2]].fields[f[2]].offset}
BaseField(p, f) == base.structs[p[1]].fields[f[1]]
NewFieldOf(p, f) == new.structs[p[2]].fields[f[2]]

\* What conforms reads the old data of every table as what it was written as,
\* and as the same default where it was not written, unless it was renamed.
OldDataReadable ==
    verdict = "" => \A p \in Both : \A f \in SameSlot(p) :
      LET old == BaseField(p, f)
          now == NewFieldOf(p, f) IN
      /\ old.type = now.type
      /\ old.name = now.name => old.constant = now.constant

\* NamesOf that are kept keep their slots and their values.
NamesKeepTheirPlace ==
    verdict = "" =>
      /\ \A p \in Both : \A o \in DOMAIN base.structs[p[1]].fields :
           \A n \in DOMAIN new.structs[p[2]].fields :
             base.structs[p[1]].fields[o].name = new.structs[p[2]].fields[n].name =>
             <<o, n>> \in SameSlot(p)
      /\ \A i \in DOMAIN base.enums, j \in DOMAIN new.enums :
           base.enums[i].name = new.enums[j].name =>
             \A v \in DOMAIN base.enums[i].vals \cap DOMAIN new.enums[j].vals :
               base.enums[i].vals[v] = new.enums[j].vals[v]

IsAppended(s, t) == Len(s) <= Len(t) /\ SubSeq(t, 1, Len(s)) = s
\* Fields added at the end of tables, and everything that is new or gone,
\* conform.
AdditionsConform ==
    (/\ \A p \in Both : IsAppended(base.structs[p[1]].fields, new.structs[p[2]].fields)
     /\ ValuesSame) => verdict \in {"none", ""}

=============================================================================
