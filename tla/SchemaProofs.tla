---------------------------- MODULE SchemaProofs ----------------------------
(***************************************************************************)
(* What flatc takes for one schema and its next version: which definitions *)
(* are generated, for files that include each other in any number and in   *)
(* any way, what ConformTo lets pass, for every two versions, and what     *)
(* ParseDecl and ParseField make of any declarations.                      *)
(***************************************************************************)
EXTENDS SchemaConform, SchemaIncludes, SchemaFields, TLAPS, FiniteSetTheorems, SequenceTheorems

-----------------------------------------------------------------------------
(* ConformTo.                                                              *)

LEMMA ListDomain ==
    ASSUME NEW q, IsList(q)
    PROVE  Len(q) \in Nat /\ DOMAIN q = 1..Len(q)
BY DEF IsList

LEMMA Indices ==
    ASSUME NEW schema, WellFormed(schema), NEW s \in DOMAIN schema.structs
    PROVE  /\ Len(schema.structs) \in Nat /\ s \in 1..Len(schema.structs)
           /\ Len(schema.structs[s].fields) \in Nat
           /\ DOMAIN schema.structs[s].fields = 1..Len(schema.structs[s].fields)
<1>1. IsList(schema.structs) /\ IsList(schema.structs[s].fields)
  BY DEF WellFormed
<1> QED BY <1>1, ListDomain

LEMMA SameType ==
    ASSUME NEW a, NEW b, IsType(a), IsType(b), a.base = b.base, a.enum = b.enum
    PROVE  a = b
<1>1. a = [base |-> a.base, enum |-> a.enum]
  BY DEF IsType
<1>2. b = [base |-> b.base, enum |-> b.enum]
  BY DEF IsType
<1> QED BY <1>1, <1>2

\* Of definitions with distinct names, the one found by a name is the one that
\* has it.
LEMMA NamedFinds ==
    ASSUME NEW named, NamesDistinct(named), NEW i \in DOMAIN named
    PROVE  named[i].name \in NamesOf(named) /\ Named(named, named[i].name) = named[i]
BY DEF NamesDistinct, NamesOf, Named

-----------------------------------------------------------------------------
(* The invariant: the fields compared so far agree with the base.          *)

\* Field f of struct s in the new version against struct b of the base.
Agrees(b, s, f) ==
    LET now == new.structs[s].fields[f] IN
    \A o \in DOMAIN base.structs[b].fields :
        LET old == base.structs[b].fields[o] IN
        /\ old.name = now.name => old.offset = now.offset /\ old.constant = now.constant
        /\ old.offset = now.offset => EqualByName(now.type, old.type)

Compared(s, f) == s < sit \/ (s = sit /\ f < fit)

ComparedAgree ==
    \A b \in DOMAIN base.structs, s \in DOMAIN new.structs :
        base.structs[b].name = new.structs[s].name =>
           \A f \in DOMAIN new.structs[s].fields : Compared(s, f) => Agrees(b, s, f)

ConformInv ==
    /\ WellFormed(base) /\ WellFormed(new)
    /\ sit \in Nat \ {0} /\ fit \in Nat \ {0}
    /\ ComparedAgree
    /\ verdict = "" => sit > Len(new.structs) /\ ValuesSame

LEMMA ConformStart == ConformInit => ConformInv
<1> SUFFICES ASSUME ConformInit PROVE ConformInv
  OBVIOUS
<1>1. WellFormed(base) /\ WellFormed(new)
  BY ConformAssumption DEF ConformInit
<1>2. \A s \in DOMAIN new.structs : \A f \in DOMAIN new.structs[s].fields : ~Compared(s, f)
  <2> SUFFICES ASSUME NEW s \in DOMAIN new.structs, NEW f \in DOMAIN new.structs[s].fields
               PROVE  ~Compared(s, f)
    OBVIOUS
  <2>1. s \in Nat /\ s >= 1
    BY <1>1, Indices
  <2>2. f \in Nat /\ f >= 1
    BY <1>1, Indices
  <2> QED BY <2>1, <2>2 DEF ConformInit, Compared
<1> QED BY <1>1, <1>2 DEF ConformInit, ConformInv, ComparedAgree

\* A comparison of two fields that lets the field pass finds it in agreement.
LEMMA PassedAgrees ==
    ASSUME ConformInv, SameField \/ FieldIsNew, fit' # fit \/ sit' # sit,
           NEW b \in DOMAIN base.structs, base.structs[b].name = Struct.name
    PROVE  Agrees(b, sit, fit) /\ sit' = sit /\ fit' = fit + 1
<1>1. /\ sit \in DOMAIN new.structs /\ fit \in DOMAIN Struct.fields
      /\ Struct = new.structs[sit] /\ Field = new.structs[sit].fields[fit]
      /\ sit \in Nat /\ fit \in Nat
  BY DEF SameField, FieldIsNew, InFields, InStructs, Struct, Field, ConformInv
<1>2. Base = base.structs[b]
  BY NamedFinds DEF Base, ConformInv, WellFormed
<1> DEFINE B == base.structs[b].fields
<1>3. NamesDistinct(B) /\ OffsetsDistinct(B) /\ IsList(B)
  BY DEF ConformInv, WellFormed
<1>4. ASSUME NEW o \in DOMAIN B, NEW message, CompareTypes(Field.type, B[o].type, message)
      PROVE  EqualByName(Field.type, B[o].type) /\ sit' = sit /\ fit' = fit + 1
  BY <1>4 DEF CompareTypes, Return, Continue
<1>5. CASE SameField
  <2>1. PICK o \in DOMAIN B : B[o].name = Field.name
    BY <1>2, <1>5 DEF SameField, NamesOf
  <2>2. Named(Base.fields, Field.name) = B[o]
    BY <1>2, <1>3, <2>1, NamedFinds
  <2>3. /\ Field.offset = B[o].offset /\ Field.constant = B[o].constant
        /\ CompareTypes(Field.type, B[o].type, "types differ")
    BY <1>5, <2>2 DEF SameField, Return
  <2>4. EqualByName(Field.type, B[o].type) /\ sit' = sit /\ fit' = fit + 1
    BY <1>4, <2>3
  <2>5. \A k \in DOMAIN B : B[k].name = Field.name \/ B[k].offset = Field.offset => k = o
    BY <1>3, <2>1, <2>3 DEF NamesDistinct, OffsetsDistinct
  <2> QED BY <1>1, <2>3, <2>4, <2>5 DEF Agrees
<1>6. CASE FieldIsNew
  <2>1. \A o \in DOMAIN B : B[o].name # Field.name
    BY <1>2, <1>6 DEF FieldIsNew, NamesOf
  <2>2. CASE Renamed(Field, B) = {}
    <3>1. \A o \in DOMAIN B : B[o].offset # Field.offset
      BY <2>2 DEF Renamed
    <3>2. sit' = sit /\ fit' = fit + 1
      BY <1>2, <1>6, <2>2 DEF FieldIsNew, Continue
    <3> QED BY <1>1, <2>1, <3>1, <3>2 DEF Agrees
  <2>3. CASE Renamed(Field, B) # {}
    <3>1. PICK o \in DOMAIN B : B[o].offset = Field.offset
      BY <2>3 DEF Renamed
    <3>2. \A k \in DOMAIN B : B[k].offset = Field.offset => k = o
      BY <1>3, <3>1 DEF OffsetsDistinct
    <3>3. Renamed(Field, B) = {o}
      BY <3>1, <3>2 DEF Renamed
    <3>4. o \in Nat
      BY <1>3, ListDomain
    <3> DEFINE same == Renamed(Field, Base.fields)
               first == CHOOSE i \in same : \A j \in same : i <= j
    <3>5. first = o
      BY <1>2, <3>3, <3>4
    <3>6. CompareTypes(Field.type, B[o].type, "field renamed")
      <4>1. same # {} /\ Base.fields = B
        BY <1>2, <2>3
      <4>2. CompareTypes(Field.type, Base.fields[first].type, "field renamed")
        BY <1>6, <4>1 DEF FieldIsNew
      <4> QED BY <3>5, <4>1, <4>2
    <3>7. EqualByName(Field.type, B[o].type) /\ sit' = sit /\ fit' = fit + 1
      BY <1>4, <3>6
    <3> QED BY <1>1, <2>1, <3>2, <3>7 DEF Agrees
  <2> QED BY <2>2, <2>3
<1> QED BY <1>5, <1>6

\* What is compared when the versions stay is compared as before.
LEMMA AgreesKept ==
    ASSUME UNCHANGED <<base, new>>,
           \A b \in DOMAIN base.structs, s \in DOMAIN new.structs :
              base.structs[b].name = new.structs[s].name =>
                 \A f \in DOMAIN new.structs[s].fields : Compared(s, f)' => Agrees(b, s, f)
    PROVE  ComparedAgree'
<1>1. \A b, s, f : Agrees(b, s, f)' <=> Agrees(b, s, f)
  BY DEF Agrees
<1> QED BY <1>1 DEF ComparedAgree

LEMMA ConformStep == ConformInv /\ [ConformNext]_conformVars => ConformInv'
<1> SUFFICES ASSUME ConformInv, [ConformNext]_conformVars PROVE ConformInv'
  OBVIOUS
<1>1. \A s \in DOMAIN new.structs :
            /\ s \in Nat /\ s <= Len(new.structs)
            /\ Len(new.structs[s].fields) \in Nat
            /\ DOMAIN new.structs[s].fields = 1..Len(new.structs[s].fields)
  <2>1. WellFormed(new)
    BY DEF ConformInv
  <2> TAKE s \in DOMAIN new.structs
  <2>2. /\ Len(new.structs) \in Nat /\ s \in 1..Len(new.structs)
        /\ Len(new.structs[s].fields) \in Nat
        /\ DOMAIN new.structs[s].fields = 1..Len(new.structs[s].fields)
    BY <2>1, Indices
  <2> QED BY <2>2
<1>2. CASE UNCHANGED conformVars
  <2>1. UNCHANGED <<base, new, sit, fit, verdict>>
    BY <1>2 DEF conformVars
  <2>2. \A s, f : Compared(s, f)' <=> Compared(s, f)
    BY <2>1 DEF Compared
  <2>3. ComparedAgree'
    BY <2>1, <2>2, AgreesKept DEF ConformInv, ComparedAgree
  <2> QED BY <2>1, <2>3 DEF ConformInv, ValuesSame
<1>3. CASE NextStruct
  <2>1. /\ sit' = sit + 1 /\ fit' = 1 /\ UNCHANGED <<base, new, verdict>>
        /\ verdict = "none" /\ sit \in DOMAIN new.structs
        /\ ~InFields
    BY <1>3 DEF NextStruct, Continue, InStructs
  <2>2. ASSUME NEW b \in DOMAIN base.structs, NEW s \in DOMAIN new.structs,
               base.structs[b].name = new.structs[s].name,
               NEW f \in DOMAIN new.structs[s].fields, Compared(s, f)'
        PROVE  Agrees(b, s, f)
    <3>1. s <= sit
      BY <1>1, <2>1, <2>2 DEF Compared, ConformInv
    <3>2. CASE s < sit
      BY <2>2, <3>2 DEF ConformInv, ComparedAgree, Compared
    <3>3. CASE s = sit
      <4>1. Struct.name \in NamesOf(base.structs)
        BY <2>2, <3>3 DEF Struct, NamesOf
      <4>2. fit \notin DOMAIN new.structs[s].fields
        BY <1>3, <2>1, <3>3, <4>1 DEF NextStruct, InFields, Struct
      <4>3. f < fit
        <5>1. f \in 1..Len(new.structs[s].fields) /\ Len(new.structs[s].fields) \in Nat
          BY <1>1, <2>2
        <5>2. fit \notin 1..Len(new.structs[s].fields) /\ fit \in Nat \ {0}
          BY <1>1, <4>2 DEF ConformInv
        <5> QED BY <5>1, <5>2
      <4> QED BY <2>2, <3>3, <4>3 DEF ConformInv, ComparedAgree, Compared
    <3> QED BY <1>1, <2>1, <3>1, <3>2, <3>3 DEF ConformInv
  <2>3. ComparedAgree'
    BY <2>1, <2>2, AgreesKept
  <2> QED BY <2>1, <2>3 DEF ConformInv
<1>4. CASE SameField \/ FieldIsNew
  <2>1. UNCHANGED <<base, new>> /\ verdict = "none" /\ sit \in DOMAIN new.structs
    BY <1>4 DEF SameField, FieldIsNew, InFields, InStructs, CompareTypes, Return, Continue
  <2>2. CASE UNCHANGED <<sit, fit>>
    <3>1. verdict' # ""
      BY <1>4, <2>1, <2>2
         DEF SameField, FieldIsNew, CompareTypes, Return, Continue, ConformInv
    <3>2. \A s, f : Compared(s, f)' <=> Compared(s, f)
      BY <2>2 DEF Compared
    <3>3. ComparedAgree'
      BY <2>1, <3>2, AgreesKept DEF ConformInv, ComparedAgree
    <3> QED BY <2>1, <2>2, <3>1, <3>3 DEF ConformInv
  <2>3. CASE ~UNCHANGED <<sit, fit>>
    <3>1. sit' = sit /\ fit' = fit + 1 /\ verdict' = verdict
      BY <1>4, <2>3 DEF SameField, FieldIsNew, CompareTypes, Return, Continue
    <3>2. \A b \in DOMAIN base.structs :
             base.structs[b].name = new.structs[sit].name => Agrees(b, sit, fit)
      BY <1>4, <2>3, PassedAgrees DEF Struct
    <3>3. ASSUME NEW b \in DOMAIN base.structs, NEW s \in DOMAIN new.structs,
                 base.structs[b].name = new.structs[s].name,
                 NEW f \in DOMAIN new.structs[s].fields, Compared(s, f)'
          PROVE  Agrees(b, s, f)
      <4>1. Compared(s, f) \/ (s = sit /\ f = fit)
        <5>1. s < sit \/ (s = sit /\ f < fit + 1)
          BY <3>1, <3>3 DEF Compared
        <5>2. f \in 1..Len(new.structs[s].fields) /\ Len(new.structs[s].fields) \in Nat
          BY <1>1, <3>3
        <5>3. f \in Nat
          BY <5>2
        <5>4. fit \in Nat
          BY DEF ConformInv
        <5> QED BY <5>1, <5>3, <5>4 DEF Compared
      <4> QED BY <3>2, <3>3, <4>1 DEF ConformInv, ComparedAgree
    <3>4. ComparedAgree'
      BY <2>1, <3>3, AgreesKept
    <3> QED BY <2>1, <3>1, <3>4 DEF ConformInv
  <2> QED BY <2>2, <2>3
<1>5. CASE Enums
  <2>1. /\ UNCHANGED <<base, new, sit, fit>> /\ sit > Len(new.structs)
        /\ verdict' = "" => ValuesSame
    BY <1>5 DEF Enums, Return
  <2>2. \A s, f : Compared(s, f)' <=> Compared(s, f)
    BY <2>1 DEF Compared
  <2>3. ComparedAgree'
    BY <2>1, <2>2, AgreesKept DEF ConformInv, ComparedAgree
  <2> QED BY <2>1, <2>3 DEF ConformInv, ValuesSame
<1> QED BY <1>2, <1>3, <1>4, <1>5 DEF ConformNext

LEMMA ConformAlways == ConformSpec => []ConformInv
BY ConformStart, ConformStep, PTL DEF ConformSpec

-----------------------------------------------------------------------------
(* The theorems.                                                           *)

LEMMA BelowCount ==
    ASSUME NEW count \in Nat, NEW i \in 1..count, NEW n \in Nat, n > count
    PROVE  i < n
OBVIOUS

\* Everything has been compared when an answer is given that nothing differs.
LEMMA AllCompared ==
    ASSUME ConformInv, verdict = "", NEW b \in DOMAIN base.structs, NEW s \in DOMAIN new.structs,
           base.structs[b].name = new.structs[s].name, NEW n \in DOMAIN new.structs[s].fields
    PROVE  Agrees(b, s, n)
<1>1. WellFormed(new)
  BY DEF ConformInv
<1>2. sit > Len(new.structs) /\ sit \in Nat
  BY DEF ConformInv
<1> DEFINE count == Len(new.structs)
<1>3. s < sit
  <2>1. count \in Nat /\ s \in 1..count
    BY <1>1, Indices
  <2>2. sit > count
    BY <1>2
  <2> HIDE DEF count
  <2> QED BY <1>2, <2>1, <2>2, BelowCount
<1> QED BY <1>3 DEF ConformInv, ComparedAgree, Compared

\* The pairs that properties speak of, by their parts.
LEMMA PairParts ==
    ASSUME ConformInv, NEW p \in Both
    PROVE  /\ p[1] \in DOMAIN base.structs /\ p[2] \in DOMAIN new.structs
           /\ base.structs[p[1]].name = new.structs[p[2]].name
           /\ \A f \in SameSlot(p) :
                /\ f[1] \in DOMAIN base.structs[p[1]].fields
                /\ f[2] \in DOMAIN new.structs[p[2]].fields
                /\ BaseField(p, f).offset = NewFieldOf(p, f).offset
<1>1. WellFormed(base) /\ WellFormed(new)
  BY DEF ConformInv
<1>2. /\ DOMAIN base.structs = 1..Len(base.structs)
      /\ DOMAIN new.structs = 1..Len(new.structs)
  BY <1>1, ListDomain DEF WellFormed
<1>3. /\ p[1] \in 1..Len(base.structs) /\ p[2] \in 1..Len(new.structs)
      /\ base.structs[p[1]].name = new.structs[p[2]].name
  BY DEF Both
<1>4. p[1] \in DOMAIN base.structs /\ p[2] \in DOMAIN new.structs
  BY <1>2, <1>3, Zenon
<1>5. ASSUME NEW f \in SameSlot(p)
      PROVE  /\ f[1] \in DOMAIN base.structs[p[1]].fields
             /\ f[2] \in DOMAIN new.structs[p[2]].fields
             /\ BaseField(p, f).offset = NewFieldOf(p, f).offset
  <2>1. /\ DOMAIN base.structs[p[1]].fields = 1..Len(base.structs[p[1]].fields)
        /\ DOMAIN new.structs[p[2]].fields = 1..Len(new.structs[p[2]].fields)
    BY <1>1, <1>4, Indices
  <2>2. /\ f[1] \in 1..Len(base.structs[p[1]].fields)
        /\ f[2] \in 1..Len(new.structs[p[2]].fields)
        /\ BaseField(p, f).offset = NewFieldOf(p, f).offset
    BY DEF SameSlot, BaseField, NewFieldOf
  <2> QED BY <2>1, <2>2, Zenon
<1> QED BY <1>3, <1>4, <1>5

\* In versions that conform, the fields of one offset have one type, and one
\* default if they have one name: the old data of every table is readable.
THEOREM ConformOldDataReadable == ConformSpec => []OldDataReadable
<1>1. ConformInv => OldDataReadable
  <2> SUFFICES ASSUME ConformInv, verdict = "", NEW p \in Both, NEW f \in SameSlot(p)
               PROVE  /\ BaseField(p, f).type = NewFieldOf(p, f).type
                      /\ BaseField(p, f).name = NewFieldOf(p, f).name =>
                            BaseField(p, f).constant = NewFieldOf(p, f).constant
    BY DEF OldDataReadable
  <2>1. /\ p[1] \in DOMAIN base.structs /\ p[2] \in DOMAIN new.structs
        /\ f[1] \in DOMAIN base.structs[p[1]].fields
        /\ f[2] \in DOMAIN new.structs[p[2]].fields
        /\ BaseField(p, f).offset = NewFieldOf(p, f).offset
    BY PairParts
  <2>2. Agrees(p[1], p[2], f[2])
    BY <2>1, PairParts, AllCompared
  <2>3. /\ EqualByName(NewFieldOf(p, f).type, BaseField(p, f).type)
        /\ BaseField(p, f).name = NewFieldOf(p, f).name =>
              BaseField(p, f).constant = NewFieldOf(p, f).constant
    BY <2>1, <2>2 DEF Agrees, BaseField, NewFieldOf
  <2>4. IsType(BaseField(p, f).type) /\ IsType(NewFieldOf(p, f).type)
    BY <2>1 DEF ConformInv, WellFormed, BaseField, NewFieldOf
  <2>5. BaseField(p, f).type = NewFieldOf(p, f).type
    BY <2>3, <2>4, SameType DEF EqualByName
  <2> QED BY <2>3, <2>5
<1> QED BY <1>1, ConformAlways, PTL

\* In versions that conform, fields that keep their name keep their offset, and
\* members of enumerations their value.
THEOREM ConformNamesKeepTheirPlace == ConformSpec => []NamesKeepTheirPlace
<1>1. ConformInv => NamesKeepTheirPlace
  <2> SUFFICES ASSUME ConformInv, verdict = "" PROVE NamesKeepTheirPlace
    BY DEF NamesKeepTheirPlace
  <2>1. ASSUME NEW p \in Both, NEW o \in DOMAIN base.structs[p[1]].fields,
               NEW n \in DOMAIN new.structs[p[2]].fields,
               base.structs[p[1]].fields[o].name = new.structs[p[2]].fields[n].name
        PROVE  <<o, n>> \in SameSlot(p)
    <3>1. Agrees(p[1], p[2], n)
      BY PairParts, AllCompared
    <3>2. base.structs[p[1]].fields[o].offset = new.structs[p[2]].fields[n].offset
      BY <2>1, <3>1 DEF Agrees
    <3>3. /\ DOMAIN base.structs[p[1]].fields = 1..Len(base.structs[p[1]].fields)
          /\ DOMAIN new.structs[p[2]].fields = 1..Len(new.structs[p[2]].fields)
      BY PairParts, Indices DEF ConformInv
    <3>4. /\ o \in 1..Len(base.structs[p[1]].fields)
          /\ n \in 1..Len(new.structs[p[2]].fields)
      BY <3>3
    <3> QED BY <3>2, <3>4 DEF SameSlot
  <2>2. ASSUME NEW i \in DOMAIN base.enums, NEW j \in DOMAIN new.enums,
               base.enums[i].name = new.enums[j].name,
               NEW v \in DOMAIN base.enums[i].vals \cap DOMAIN new.enums[j].vals
        PROVE  base.enums[i].vals[v] = new.enums[j].vals[v]
    <3> DEFINE e == new.enums[j].name
    <3>1. /\ e \in NamesOf(base.enums) /\ Named(base.enums, e) = base.enums[i]
          /\ e \in NamesOf(new.enums) /\ Named(new.enums, e) = new.enums[j]
      BY <2>2, NamedFinds DEF ConformInv, WellFormed
    <3>2. ValuesSame
      BY DEF ConformInv
    <3> HIDE DEF e
    <3> QED BY <3>1, <3>2 DEF ValuesSame
  <2> QED BY <2>1, <2>2 DEF NamesKeepTheirPlace
<1> QED BY <1>1, ConformAlways, PTL

-----------------------------------------------------------------------------
(* Additions.                                                              *)

\* The fields of an appended list are those of the list they were added to.
LEMMA AppendedStarts ==
    ASSUME NEW s, NEW t, IsList(s), IsList(t), IsAppended(s, t), NEW o \in DOMAIN s
    PROVE  o \in DOMAIN t /\ t[o] = s[o]
<1>1. /\ s \in Seq({s[i] : i \in DOMAIN s}) /\ t \in Seq({t[i] : i \in DOMAIN t})
      /\ Len(s) <= Len(t) /\ SubSeq(t, 1, Len(s)) = s
  BY DEF IsList, IsAppended
<1>2. o \in 1..Len(s) /\ o \in 1..Len(t) /\ Len(s) \in Nat /\ Len(t) \in Nat
  BY <1>1
<1>3. SubSeq(t, 1, Len(s))[o] = t[o]
  BY <1>1, <1>2
<1> QED BY <1>1, <1>2, <1>3

OnlyAdded ==
    /\ \A p \in Both : IsAppended(base.structs[p[1]].fields, new.structs[p[2]].fields)
    /\ ValuesSame

\* A field that the base has too is the one at its own place there.
LEMMA KnownField ==
    ASSUME ConformInv, OnlyAdded, InFields, NEW o \in DOMAIN Base.fields,
           Base.fields[o].name = Field.name \/ Base.fields[o].offset = Field.offset
    PROVE  Base.fields[o] = Field /\ NamesDistinct(Base.fields)
<1>1. PICK b \in DOMAIN base.structs : base.structs[b].name = Struct.name
  BY DEF InFields, NamesOf
<1>2. /\ sit \in DOMAIN new.structs /\ fit \in DOMAIN new.structs[sit].fields
      /\ Struct = new.structs[sit] /\ Field = new.structs[sit].fields[fit]
  BY DEF InFields, InStructs, Struct, Field
<1>3. WellFormed(base) /\ WellFormed(new)
  BY DEF ConformInv
<1>4. Base = base.structs[b]
  BY <1>1, <1>3, NamedFinds DEF Base, WellFormed
<1> DEFINE old == base.structs[b].fields
           now == new.structs[sit].fields
<1>5. /\ IsList(old) /\ IsList(now) /\ NamesDistinct(old)
      /\ NamesDistinct(now) /\ OffsetsDistinct(now)
  BY <1>1, <1>2, <1>3 DEF WellFormed
<1>6. IsAppended(old, now)
  <2>1. <<b, sit>> \in Both
    <3>1. b \in 1..Len(base.structs) /\ sit \in 1..Len(new.structs)
      BY <1>1, <1>2, <1>3, Indices
    <3> QED BY <1>1, <1>2, <3>1 DEF Both
  <2> QED BY <2>1 DEF OnlyAdded
<1>7. o \in DOMAIN old
  BY <1>4
<1> HIDE DEF old, now
<1>8. o \in DOMAIN now /\ now[o] = old[o]
  BY <1>5, <1>6, <1>7, AppendedStarts
<1> USE DEF old, now
<1>9. o = fit
  BY <1>2, <1>4, <1>5, <1>8 DEF NamesDistinct, OffsetsDistinct
<1> QED BY <1>2, <1>4, <1>5, <1>8, <1>9

\* Fields added at the end of tables, and whatever is new or gone, conform.
THEOREM ConformAdditions == ConformSpec => []AdditionsConform
<1>1. ConformInit => AdditionsConform
  BY DEF ConformInit, AdditionsConform
<1>2. ConformInv /\ AdditionsConform /\ [ConformNext]_conformVars => AdditionsConform'
  <2> SUFFICES ASSUME ConformInv, AdditionsConform, [ConformNext]_conformVars, OnlyAdded'
               PROVE  verdict' \in {"none", ""}
    BY DEF AdditionsConform, OnlyAdded
  <2>1. UNCHANGED <<base, new>>
    BY DEF ConformNext, NextStruct, SameField, FieldIsNew, Enums, CompareTypes, Return, Continue, conformVars
  <2>2. OnlyAdded
    BY <2>1 DEF OnlyAdded, ValuesSame, Both
  <2>3. verdict \in {"none", ""}
    BY <2>2 DEF AdditionsConform, OnlyAdded
  <2>4. CASE NextStruct \/ UNCHANGED conformVars
    BY <2>3, <2>4 DEF NextStruct, Continue, conformVars
  <2>5. CASE SameField
    <3>1. PICK o \in DOMAIN Base.fields : Base.fields[o].name = Field.name
      BY <2>5 DEF SameField, NamesOf
    <3>2. Base.fields[o] = Field /\ NamesDistinct(Base.fields)
      BY <2>2, <2>5, <3>1, KnownField DEF SameField
    <3>3. Named(Base.fields, Field.name) = Field
      BY <3>1, <3>2, NamedFinds
    <3>4. CompareTypes(Field.type, Field.type, "types differ")
      BY <2>5, <3>3 DEF SameField
    <3>5. ~ReadsNull(Field.type, Field.type) /\ EqualByName(Field.type, Field.type)
      BY DEF ReadsNull, EqualByName
    <3> QED BY <2>3, <3>4, <3>5 DEF CompareTypes, Continue
  <2>6. CASE FieldIsNew
    <3>1. \A o \in DOMAIN Base.fields : Base.fields[o].offset # Field.offset
      <4> SUFFICES ASSUME NEW o \in DOMAIN Base.fields, Base.fields[o].offset = Field.offset
                   PROVE  FALSE
        OBVIOUS
      <4>1. Base.fields[o] = Field
        BY <2>2, <2>6, KnownField DEF FieldIsNew
      <4> QED BY <2>6, <4>1 DEF FieldIsNew, NamesOf
    <3>2. Renamed(Field, Base.fields) = {}
      BY <3>1 DEF Renamed
    <3> QED BY <2>3, <2>6, <3>2 DEF FieldIsNew, Continue
  <2>7. CASE Enums
    BY <2>2, <2>7 DEF Enums, Return, OnlyAdded
  <2> QED BY <2>4, <2>5, <2>6, <2>7 DEF ConformNext
<1> QED BY <1>1, <1>2, ConformAlways, PTL DEF ConformSpec

-----------------------------------------------------------------------------
(* The invariant: the call that was made first is still that of the file   *)
(* flatc was given, and until it ends everything declared is marked.       *)

CallsOK == calls \in Seq([path : included, at : Nat])

DefsOK == \A d \in defs : d \in [file : {d.file}, generated : BOOLEAN]

MarkedSoFar ==
    result = "none" =>
        /\ calls # <<>> /\ calls[Len(calls)].path = Main
        /\ \A d \in defs : d.generated <=> ~generate_all

IncludesInv == CallsOK /\ DefsOK /\ MarkedSoFar /\ GeneratesCurrentFile

\* It holds when the file flatc was given is begun.
LEMMA IncludesInit == Init => IncludesInv
BY DEF Init, IncludesInv, CallsOK, DefsOK, MarkedSoFar, GeneratesCurrentFile, Call

\* A sequence that is not empty, and what follows its first element.
LEMMA HeadAndTail ==
    ASSUME NEW T, NEW q \in Seq(T), q # <<>>
    PROVE  /\ Head(q) = q[1] /\ Head(q) \in T /\ Len(q) \in Nat /\ Len(q) >= 1
           /\ Tail(q) \in Seq(T) /\ Len(Tail(q)) = Len(q) - 1
           /\ Tail(q) = <<>> => Len(q) = 1
           /\ \A i \in 1..(Len(q) - 1) : Tail(q)[i] = q[i + 1]
<1>1. Len(q) \in Nat /\ Len(q) >= 1 /\ Head(q) = q[1]
  OBVIOUS
<1>2. /\ Head(q) \in T /\ Tail(q) \in Seq(T) /\ Len(Tail(q)) = Len(q) - 1
      /\ \A i \in 1..Len(Tail(q)) : Tail(q)[i] = q[i + 1]
  BY HeadTailProperties
<1>3. Len(<<>>) = 0
  OBVIOUS
<1>4. Tail(q) = <<>> => Len(q) - 1 = 0
  BY <1>2, <1>3
<1> QED BY <1>1, <1>2, <1>4

\* Files that were included stay included: calls of them stay calls of such.
LEMMA MoreInSeq ==
    ASSUME NEW T, NEW U, T \subseteq U, NEW q \in Seq(T)
    PROVE  q \in Seq(U)
OBVIOUS

\* What is left of a sequence without its first m elements.
LEMMA Rest ==
    ASSUME NEW T, NEW q \in Seq(T), NEW m \in 1..Len(q)
    PROVE  LET r == SubSeq(q, m + 1, Len(q))
           IN  /\ r \in Seq(T) /\ Len(r) = Len(q) - m
               /\ \A i \in 1..Len(r) : r[i] = q[m + i]
<1>1. m + 1 \in 1..(Len(q) + 1) /\ Len(q) \in 0..Len(q)
  OBVIOUS
<1>2. /\ SubSeq(q, m + 1, Len(q)) \in Seq(T)
      /\ Len(SubSeq(q, m + 1, Len(q))) =
            IF m + 1 <= Len(q) THEN Len(q) - (m + 1) + 1 ELSE 0
      /\ \A i \in 1..(Len(q) - (m + 1) + 1) :
            SubSeq(q, m + 1, Len(q))[i] = q[m + 1 + i - 1]
  BY SubSeqProperties
<1> QED BY <1>2

\* The calls below those of this file: none only if all are of this file.
LEMMA BelowCalls ==
    ASSUME CallsOK, calls # <<>>, calls[Len(calls)].path = Main
    PROVE  /\ Anew \in 1..Len(calls)
           /\ Below = <<>> => Here.path = Main
           /\ Below # <<>> => /\ Below \in Seq([path : included, at : Nat])
                              /\ Below[Len(Below)].path = Main
<1> DEFINE n == Len(calls)
           S == {k \in DOMAIN calls : Same(k)}
<1>1. n \in Nat /\ n >= 1 /\ DOMAIN calls = 1..n
  BY DEF CallsOK
<1>2. IsFiniteSet(1..n) /\ Cardinality(1..n) = n
  BY <1>1, FS_Interval
<1>3. S \subseteq 1..n
  BY <1>1
<1>4. /\ IsFiniteSet(S) /\ Cardinality(S) <= n
      /\ Cardinality(S) = n => S = 1..n
  BY <1>2, <1>3, FS_Subset
<1>5. Cardinality(S) \in Nat
  BY <1>4, FS_CardinalityType
<1>6. 1 \in S
  BY <1>1 DEF Same, Here
<1>7. Cardinality(S) # 0
  BY <1>4, <1>6, FS_EmptySet
<1>8. Anew = Cardinality(S) /\ Anew \in 1..n
  BY <1>1, <1>4, <1>5, <1>7 DEF Anew
<1>9. Len(Below) = n - Anew
  BY <1>1, <1>8 DEF Below, CallsOK
<1>10. ASSUME Below = <<>> PROVE Here.path = Main
  <2>1. S = 1..n
    BY <1>1, <1>4, <1>8, <1>9, <1>10
  <2>2. Same(n)
    BY <1>1, <2>1
  <2> QED BY <1>1, <2>2 DEF Same
<1>11. ASSUME Below # <<>>
       PROVE  /\ Below \in Seq([path : included, at : Nat])
              /\ Below[Len(Below)].path = Main
  <2>1. Below \in Seq([path : included, at : Nat])
    BY <1>8, Rest DEF Below, CallsOK
  <2>2. Len(Below) \in 1..n
    BY <1>1, <1>8, <1>9, <1>11, <2>1
  <2>3. Below[Len(Below)] = calls[Anew + Len(Below)]
    <3>1. \A i \in 1..Len(Below) : Below[i] = calls[Anew + i]
      BY <1>8, Rest DEF Below, CallsOK
    <3>2. Len(Below) \in 1..Len(Below)
      BY <1>1, <2>2
    <3> QED BY <3>1, <3>2
  <2> QED BY <1>1, <1>8, <1>9, <2>1, <2>3
<1> QED BY <1>8, <1>10, <1>11

\* A call put in front of others leaves the last one where it is.
LEMMA Ahead ==
    ASSUME NEW T, NEW q \in Seq(T), NEW e \in T
    PROVE  LET r == <<e>> \o q
           IN  /\ r \in Seq(T) /\ r # <<>>
               /\ q # <<>> => r[Len(r)] = q[Len(q)]
               /\ q = <<>> => r[Len(r)] = e
<1>1. <<e>> \in Seq(T) /\ Len(<<e>>) = 1
  OBVIOUS
<1> DEFINE r == <<e>> \o q
<1>2. r \in Seq(T) /\ Len(r) = 1 + Len(q) /\ Len(q) \in Nat
  BY <1>1
<1>3. \A i \in 1..(1 + Len(q)) : r[i] = IF i = 1 THEN e ELSE q[i - 1]
  BY <1>1
<1>4. r # <<>>
  BY <1>2
<1> HIDE DEF r
<1>5. q # <<>> => r[Len(r)] = q[Len(q)]
  BY <1>2, <1>3
<1>6. q = <<>> => r[Len(r)] = e
  BY <1>2, <1>3
<1> QED BY <1>2, <1>4, <1>5, <1>6 DEF r

\* Passing a statement changes where the topmost call is, not what it is of.
LEMMA SkippedCalls ==
    ASSUME CallsOK, calls # <<>>, calls[Len(calls)].path = Main
    PROVE  /\ Skipped \in Seq([path : included, at : Nat])
           /\ Skipped # <<>> /\ Skipped[Len(Skipped)].path = Main
<1> DEFINE T == [path : included, at : Nat]
           e == [Here EXCEPT !.at = @ + 1]
<1>1. calls \in Seq(T)
  BY DEF CallsOK
<1> HIDE DEF T
<1>2. Here \in T /\ Here = calls[1]
  BY <1>1, HeadAndTail DEF Here
<1> USE DEF T
<1>3. e \in T /\ e.path = Here.path
  BY <1>2
<1> HIDE DEF T
<1>4. /\ Tail(calls) \in Seq(T) /\ Len(Tail(calls)) = Len(calls) - 1
      /\ Tail(calls) = <<>> => Len(calls) = 1
      /\ \A i \in 1..(Len(calls) - 1) : Tail(calls)[i] = calls[i + 1]
  BY <1>1, HeadAndTail
<1> HIDE DEF e
<1>5. /\ Skipped \in Seq(T) /\ Skipped # <<>>
      /\ Tail(calls) # <<>> => Skipped[Len(Skipped)] = Tail(calls)[Len(Tail(calls))]
      /\ Tail(calls) = <<>> => Skipped[Len(Skipped)] = e
  BY <1>3, <1>4, Ahead DEF Skipped, e
<1>6. Len(calls) \in Nat /\ Len(calls) >= 1
  BY <1>1
<1>7. CASE Tail(calls) = <<>>
  <2>1. Len(calls) = 1
    BY <1>4, <1>7
  <2> QED BY <1>2, <1>3, <1>5, <1>7, <2>1 DEF T
<1>8. CASE Tail(calls) # <<>>
  <2>1. Len(Tail(calls)) # 0
    BY <1>4, <1>8
  <2>2. Tail(calls)[Len(calls) - 1] = calls[Len(calls)]
    BY <1>4, <1>6, <2>1
  <2> QED BY <1>4, <1>5, <1>8, <2>2 DEF T
<1> QED BY <1>7, <1>8

\* Every statement and every end of a file keeps it.
LEMMA IncludesStep == IncludesInv /\ [Next]_includesVars => IncludesInv'
<1> SUFFICES ASSUME IncludesInv, [Next]_includesVars PROVE IncludesInv'
  OBVIOUS
<1> DEFINE T == [path : included, at : Nat]
<1>1. CASE UNCHANGED includesVars
  BY <1>1 DEF includesVars, IncludesInv, CallsOK, DefsOK, MarkedSoFar, GeneratesCurrentFile
<1>2. CASE NativeInclude \/ IncludeAgain
  <2>1. /\ result = "none" /\ result' = "none" /\ UNCHANGED <<included, defs>>
        /\ calls' = Skipped
    BY <1>2 DEF NativeInclude, IncludeAgain, AtInclude, Running
  <2>2. /\ Skipped \in Seq(T) /\ Skipped # <<>>
        /\ Skipped[Len(Skipped)].path = Main
    BY <2>1, SkippedCalls DEF IncludesInv, MarkedSoFar
  <2> QED BY <2>1, <2>2
          DEF IncludesInv, CallsOK, DefsOK, MarkedSoFar, GeneratesCurrentFile
<1>3. CASE IncludeNew
  <2>1. result = "none" /\ UNCHANGED defs
    BY <1>3 DEF IncludeNew, AtInclude, Running
  <2>2. CASE Statement \in Missing
    BY <1>3, <2>1, <2>2
       DEF IncludeNew, IncludesInv, CallsOK, DefsOK, MarkedSoFar, GeneratesCurrentFile
  <2>3. CASE Statement \notin Missing
    <3>1. /\ calls' = <<Call(Statement)>> \o calls /\ result' = "none"
          /\ included' = included \cup {Statement}
      BY <1>3, <2>1, <2>3 DEF IncludeNew, Entered
    <3> DEFINE U == [path : included', at : Nat]
    <3>2. calls \in Seq(U) /\ Call(Statement) \in U
      <4>1. included \subseteq included' /\ Statement \in included'
        BY <3>1
      <4>2. T \subseteq U
        BY <4>1
      <4>3. calls \in Seq(T)
        BY DEF IncludesInv, CallsOK
      <4>4. calls \in Seq(U)
        BY <4>2, <4>3, MoreInSeq
      <4> QED BY <4>1, <4>4 DEF Call
    <3>3. calls # <<>> /\ calls[Len(calls)].path = Main
      BY <2>1 DEF IncludesInv, MarkedSoFar
    <3> HIDE DEF U
    <3>4. calls' \in Seq(U) /\ calls' # <<>> /\ calls'[Len(calls')].path = Main
      BY <3>1, <3>2, <3>3, Ahead
    <3> USE DEF U
    <3> QED BY <2>1, <3>1, <3>4
            DEF IncludesInv, CallsOK, DefsOK, MarkedSoFar, GeneratesCurrentFile
  <2> QED BY <2>2, <2>3
<1>4. CASE ParseRest
  <2>1. result = "none" /\ UNCHANGED included
        /\ calls # <<>> /\ calls[Len(calls)].path = Main /\ CallsOK
        /\ \A d \in defs : d.generated <=> ~generate_all
    BY <1>4 DEF ParseRest, Running, IncludesInv, MarkedSoFar
  <2>2. /\ Below = <<>> => Here.path = Main
        /\ Below # <<>> => /\ Below \in Seq(T)
                           /\ Below[Len(Below)].path = Main
    BY <2>1, BelowCalls
  <2> DEFINE own == [file |-> FileOf[Here.path], generated |-> FALSE]
  <2>3. CASE FileOf[Here.path] \in Declared
    BY <1>4, <2>1, <2>3
       DEF ParseRest, IncludesInv, CallsOK, DefsOK, MarkedSoFar, GeneratesCurrentFile
  <2>4. CASE FileOf[Here.path] \notin Declared /\ Below = <<>>
    <3>1. defs' = defs \cup {own} /\ calls' = <<>> /\ result' = "ok"
      BY <1>4, <2>4 DEF ParseRest
    <3>2. own.file = FileOf[Main] /\ own.generated = FALSE
      BY <2>2, <2>4
    <3>3. \A d \in defs : d.file # FileOf[Main]
      BY <2>2, <2>4 DEF Declared
    <3>4. CallsOK'
      BY <3>1 DEF CallsOK
    <3> QED BY <2>1, <3>1, <3>2, <3>3, <3>4
            DEF IncludesInv, DefsOK, MarkedSoFar, GeneratesCurrentFile
  <2>5. CASE FileOf[Here.path] \notin Declared /\ Below # <<>>
    <3>1. /\ defs' = MarkGenerated(defs \cup {own}) /\ result' = "none"
          /\ calls' = <<Call(Head(Below).path)>> \o Below
      BY <1>4, <2>1, <2>5 DEF ParseRest
    <3>2. Head(Below) \in T
      BY <2>2, <2>5, HeadAndTail
    <3>3. Call(Head(Below).path) \in T
      BY <3>2 DEF Call
    <3> HIDE DEF T
    <3>4. calls' \in Seq(T) /\ calls' # <<>> /\ calls'[Len(calls')].path = Main
      BY <2>2, <2>5, <3>1, <3>3, Ahead
    <3> USE DEF T
    <3>5. \A d \in defs' : /\ d \in [file : {d.file}, generated : BOOLEAN]
                           /\ d.generated <=> ~generate_all
      <4>1. generate_all \in BOOLEAN
        BY IncludesAssumption
      <4> SUFFICES ASSUME NEW d \in defs \cup {own}
                   PROVE  LET m == [d EXCEPT !.generated = @ \/ ~generate_all]
                          IN  /\ m \in [file : {m.file}, generated : BOOLEAN]
                              /\ m.generated <=> ~generate_all
        BY <3>1 DEF MarkGenerated
      <4>2. d \in [file : {d.file}, generated : BOOLEAN]
        <5>1. CASE d \in defs
          BY <5>1 DEF IncludesInv, DefsOK
        <5>2. CASE d = own
          BY <5>2
        <5> QED BY <5>1, <5>2
      <4>3. d.generated => ~generate_all
        BY <2>1
      <4> QED BY <4>1, <4>2, <4>3
    <3>6. CallsOK'
      BY <2>1, <3>4 DEF CallsOK
    <3>7. DefsOK'
      <4> SUFFICES ASSUME NEW d \in defs'
                   PROVE  d \in [file : {d.file}, generated : BOOLEAN]
        BY DEF DefsOK
      <4> QED BY <3>5
    <3>8. MarkedSoFar'
      <4> SUFFICES ASSUME NEW d \in defs' PROVE d.generated <=> ~generate_all
        BY <3>4 DEF MarkedSoFar
      <4> QED BY <3>5
    <3>9. GeneratesCurrentFile'
      BY <3>1 DEF GeneratesCurrentFile
    <3> QED BY <3>6, <3>7, <3>8, <3>9 DEF IncludesInv
  <2> QED BY <2>3, <2>4, <2>5
<1> QED BY <1>1, <1>2, <1>3, <1>4 DEF Next

\* So it holds throughout.
LEMMA IncludesAlways == Spec => []IncludesInv
<1> QED BY IncludesInit, IncludesStep, PTL DEF Spec

-----------------------------------------------------------------------------
\* "only definitions in the current file will be generated, not those from the
\* included files": DoParse marks what it has declared each time it starts a
\* file anew, and that this reaches every included file and never the one
\* flatc was given is so whatever includes what, in a cycle too.
THEOREM IncludesGeneratesCurrentFile == Spec => []GeneratesCurrentFile
<1>1. IncludesInv => GeneratesCurrentFile
  BY DEF IncludesInv
<1> QED BY <1>1, IncludesAlways, PTL

-----------------------------------------------------------------------------
(* What ParseDecl and ParseField make of any declarations: structs laid    *)
(* out as every compiler lays them out, and tables whose fields are in the *)
(* slots their ids say, the type of a union in the slot before it.         *)

Alignments == {1, 2, 4, 8, 16}

\* The names of fields: those declared, and those of the types of unions.
FieldName == UNION {Names(d) : d \in Declarations}
FieldRecord ==
    [name : FieldName, type : Types, offset : Nat, padding : Nat,
     attributes : Seq(Attribute), deprecated : BOOLEAN, required : BOOLEAN, key : BOOLEAN]
Definition ==
    [name : STRING, fixed : BOOLEAN, attributes : Seq(Attribute), has_key : BOOLEAN,
     minalign : Alignments, bytesize : Nat, fields : Seq(FieldRecord)]

-----------------------------------------------------------------------------
(* Arithmetic of alignments.                                               *)

\* Padding reaches the next multiple.
LEMMA PaddingReaches ==
    ASSUME NEW s \in Nat, NEW a \in Alignments
    PROVE  /\ PaddingBytes(s, a) \in Nat
           /\ (s + PaddingBytes(s, a)) % a = 0
<1>1. CASE a = 1  BY <1>1 DEF PaddingBytes
<1>2. CASE a = 2  BY <1>2 DEF PaddingBytes
<1>3. CASE a = 4  BY <1>3 DEF PaddingBytes
<1>4. CASE a = 8  BY <1>4 DEF PaddingBytes
<1>5. CASE a = 16 BY <1>5 DEF PaddingBytes
<1> QED BY <1>1, <1>2, <1>3, <1>4, <1>5 DEF Alignments

\* Of two alignments the larger is a multiple of the other.
LEMMA LargerIsMultiple ==
    ASSUME NEW a \in Alignments, NEW b \in Alignments, a <= b
    PROVE  b % a = 0
BY DEF Alignments

LEMMA AlignmentsOrdered ==
    /\ Alignments \subseteq Nat
    /\ \A a, b, c \in Alignments : b % a = 0 /\ c >= b => c % a = 0
    /\ \A a, b \in Alignments : Greater(a, b) \in Alignments
BY DEF Alignments, Greater

-----------------------------------------------------------------------------
(* Types of what the operators return.                                     *)

LEMMA ScalarSizes ==
    ASSUME NEW type \in Types
    PROVE  /\ type.base \in Bases
           /\ SizeOf[type.base] \in Alignments
BY DEF Types, Bases, SizeOf, Alignments

\* Whatever a type refers to, its values have a size and an alignment.
LEMMA InlineTypes ==
    ASSUME NEW type \in Types, open = Nothing \/ open \in Definition,
           \A n \in DOMAIN structs : structs[n] \in Definition
    PROVE  /\ InlineSize(type) \in Nat
           /\ InlineAlignment(type) \in Alignments
<1>1. StructDef(type) = Nothing \/ StructDef(type) \in Definition
  BY DEF StructDef
<1>2. ASSUME IsStruct(type) PROVE StructDef(type) \in Definition
  <2>1. StructDef(type) # Nothing
    BY <1>2, Nothing.fixed = FALSE DEF IsStruct, Nothing
  <2> QED BY <1>1, <2>1
<1> QED BY <1>2, ScalarSizes, AlignmentsOrdered DEF InlineSize, InlineAlignment, Definition

Refitted(def, size, list) == [def EXCEPT !.bytesize = size, !.fields = list]

LEMMA RefittedFits ==
    ASSUME NEW def \in Definition, NEW size \in Nat, NEW list \in Seq(FieldRecord)
    PROVE  /\ Refitted(def, size, list) \in Definition
           /\ Refitted(def, size, list).bytesize = size
           /\ Refitted(def, size, list).fields = list
           /\ Refitted(def, size, list).name = def.name
           /\ Refitted(def, size, list).fixed = def.fixed
           /\ Refitted(def, size, list).attributes = def.attributes
           /\ Refitted(def, size, list).minalign = def.minalign
<1> DEFINE sized == [def EXCEPT !.bytesize = size]
<1>1. /\ sized \in Definition
      /\ sized.bytesize = size
      /\ sized.name = def.name /\ sized.fixed = def.fixed
      /\ sized.attributes = def.attributes /\ sized.minalign = def.minalign
  BY DEF Definition
<1> DEFINE resized == [sized EXCEPT !.fields = list]
<1> HIDE DEF sized
<1>2. /\ resized \in Definition
      /\ resized.bytesize = sized.bytesize /\ resized.fields = list
      /\ resized.name = sized.name /\ resized.fixed = sized.fixed
      /\ resized.attributes = sized.attributes /\ resized.minalign = sized.minalign
  BY <1>1 DEF Definition
<1>3. Refitted(def, size, list) = resized
  BY DEF Refitted, sized
<1> HIDE DEF resized
<1> QED BY <1>1, <1>2, <1>3

\* The padding goes to the last field, and the size grows by it.
LEMMA PadLast ==
    ASSUME NEW def \in Definition, NEW a \in Alignments
    PROVE  LET padded == PadLastField(def, a)
               padding == PaddingBytes(def.bytesize, a) IN
           /\ padded \in Definition
           /\ padded.bytesize = def.bytesize + padding
           /\ padded.bytesize % a = 0
           /\ padding \in Nat
           /\ DOMAIN padded.fields = DOMAIN def.fields
           /\ Len(padded.fields) = Len(def.fields)
           /\ \A i \in DOMAIN def.fields :
                padded.fields[i] = IF i = Len(def.fields)
                                   THEN [def.fields[i] EXCEPT !.padding = padding]
                                   ELSE def.fields[i]
           /\ padded.name = def.name /\ padded.fixed = def.fixed
           /\ padded.attributes = def.attributes /\ padded.minalign = def.minalign
<1> DEFINE padding == PaddingBytes(def.bytesize, a)
           padded == PadLastField(def, a)
           list == LastPadded(def.fields, padding)
<1>1. padding \in Nat /\ (def.bytesize + padding) % a = 0
  BY PaddingReaches DEF Definition
<1>2. def.fields \in Seq(FieldRecord)
  BY DEF Definition
<1> HIDE DEF padding
<1>3. \A i \in DOMAIN def.fields : [def.fields[i] EXCEPT !.padding = padding] \in FieldRecord
  <2>1. \A f \in FieldRecord : [f EXCEPT !.padding = padding] \in FieldRecord
    BY <1>1 DEF FieldRecord
  <2> QED BY <1>2, <2>1
<1>4. list \in Seq(FieldRecord) /\ Len(list) = Len(def.fields) /\ DOMAIN list = DOMAIN def.fields
  <2>1. DOMAIN def.fields = 1..Len(def.fields) /\ Len(def.fields) \in Nat
    BY <1>2
  <2>2. \A i \in 1..Len(def.fields) : list[i] \in FieldRecord
    BY <1>2, <1>3, <2>1 DEF LastPadded
  <2>3. list = [i \in 1..Len(def.fields) |-> list[i]]
    BY <2>1 DEF LastPadded
  <2> HIDE DEF list
  <2>4. list \in [1..Len(def.fields) -> FieldRecord]
    BY <2>2, <2>3
  <2> QED BY <2>1, <2>4
<1>5. \A i \in DOMAIN def.fields :
        list[i] = IF i = Len(def.fields)
                  THEN [def.fields[i] EXCEPT !.padding = padding] ELSE def.fields[i]
  BY DEF LastPadded
<1>6. padded = Refitted(def, def.bytesize + padding, list)
  BY DEF PadLastField, Refitted, padding
<1> HIDE DEF list, padded
<1>7. padded \in Definition /\ padded.bytesize = def.bytesize + padding /\ padded.fields = list
      /\ padded.name = def.name /\ padded.fixed = def.fixed
      /\ padded.attributes = def.attributes /\ padded.minalign = def.minalign
  <2>1. def.bytesize + padding \in Nat
    BY <1>1 DEF Definition
  <2> QED BY <1>4, <1>6, <2>1, RefittedFits
<1> QED BY <1>1, <1>4, <1>5, <1>7 DEF padding, padded

\* AddField appends a field without padding: behind the last one in a struct,
\* in the slot after the last one in a table.
Gap(def, type) == PaddingBytes(def.bytesize, InlineAlignment(type))
Place(def, type) == IF def.fixed THEN def.bytesize + Gap(def, type)
                    ELSE FieldIndexToOffset(Len(def.fields))
Appended(def, name, type, added) ==
    /\ added \in Definition
    /\ added.name = def.name /\ added.fixed = def.fixed
    /\ added.attributes = def.attributes
    /\ Len(added.fields) = Len(def.fields) + 1
    /\ added.fields[Len(def.fields) + 1] = NewField(name, type, Place(def, type))
    /\ \A i \in 1..Len(def.fields) :
         added.fields[i] = IF def.fixed /\ i = Len(def.fields)
                           THEN [def.fields[i] EXCEPT !.padding = Gap(def, type)]
                           ELSE def.fields[i]
    /\ def.fixed =>
         /\ Gap(def, type) \in Nat
         /\ Place(def, type) % InlineAlignment(type) = 0
         /\ added.bytesize = Place(def, type) + InlineSize(type)
         /\ added.minalign = Greater(def.minalign, InlineAlignment(type))

LEMMA AddFieldAppends ==
    ASSUME NEW def \in Definition, NEW name \in FieldName, NEW type \in Types,
           InlineSize(type) \in Nat, InlineAlignment(type) \in Alignments
    PROVE  Appended(def, name, type, AddField(def, name, type))
<1> DEFINE n == Len(def.fields)
           align == InlineAlignment(type)
           padding == PaddingBytes(def.bytesize, align)
           slot == FieldIndexToOffset(n)
           added == AddField(def, name, type)
<1>1. def.fields \in Seq(FieldRecord) /\ n \in Nat /\ DOMAIN def.fields = 1..n
  BY DEF Definition
<1>2. \A offset \in Nat : NewField(name, type, offset) \in FieldRecord
  <2>1. <<>> \in Seq(Attribute)
    OBVIOUS
  <2> QED BY <2>1 DEF NewField, FieldRecord
<1>3. CASE def.fixed
  <2> DEFINE padded == PadLastField(def, align)
             field == NewField(name, type, padded.bytesize)
             list == Append(padded.fields, field)
             size == padded.bytesize + InlineSize(type)
             resized == Refitted(padded, size, list)
             most == Greater(def.minalign, align)
  <2>1. /\ padded \in Definition
        /\ padded.bytesize = def.bytesize + padding
        /\ padded.bytesize % align = 0
        /\ padding \in Nat
        /\ Len(padded.fields) = n
        /\ \A i \in 1..n :
             padded.fields[i] = IF i = n THEN [def.fields[i] EXCEPT !.padding = padding]
                                ELSE def.fields[i]
        /\ padded.name = def.name /\ padded.fixed = def.fixed
        /\ padded.attributes = def.attributes /\ padded.minalign = def.minalign
    BY <1>1, PadLast
  <2> HIDE DEF padded, padding
  <2>2. padded.bytesize \in Nat /\ padded.fields \in Seq(FieldRecord)
    BY <2>1 DEF Definition
  <2>3. field \in FieldRecord
    BY <1>2, <2>2
  <2> HIDE DEF field
  <2>4. /\ list \in Seq(FieldRecord) /\ Len(list) = n + 1 /\ list[n + 1] = field
        /\ \A i \in 1..n : list[i] = padded.fields[i]
    BY <1>1, <2>1, <2>2, <2>3
  <2> HIDE DEF list
  <2>5. size \in Nat /\ most \in Alignments
    <3>1. def.minalign \in Alignments
      BY DEF Definition
    <3>2. most \in Alignments
      BY <3>1 DEF Alignments, Greater
    <3>3. size \in Nat
      BY <2>2
    <3> QED BY <3>2, <3>3
  <2>6. /\ resized \in Definition
        /\ resized.bytesize = size /\ resized.fields = list
        /\ resized.name = padded.name /\ resized.fixed = padded.fixed
        /\ resized.attributes = padded.attributes /\ resized.minalign = padded.minalign
    BY <2>1, <2>4, <2>5, RefittedFits
  <2>7. added = [resized EXCEPT !.minalign = most]
    <3>1. added = [padded EXCEPT !.minalign = most, !.fields = list, !.bytesize = size]
      BY <1>3, <2>1 DEF AddField, InlineField, padded, list, field
    <3>2. padded \in Definition
      BY <2>1
    <3> HIDE DEF most, size, added
    <3> QED BY <3>1, <3>2 DEF Definition, Refitted
  <2> HIDE DEF resized, added, most, size
  <2>8. /\ added \in Definition
        /\ added.bytesize = size /\ added.fields = list
        /\ added.name = padded.name /\ added.fixed = padded.fixed
        /\ added.attributes = padded.attributes /\ added.minalign = most
    BY <2>5, <2>6, <2>7 DEF Definition
  <2> QED
    BY <1>3, <2>1, <2>4, <2>8 DEF added, size, most, field, padding, Appended, Gap, Place
<1>4. CASE ~def.fixed
  <2> DEFINE field == NewField(name, type, slot)
             list == Append(def.fields, field)
  <2>1. field \in FieldRecord
    BY <1>1, <1>2 DEF FieldIndexToOffset
  <2> HIDE DEF field
  <2>2. /\ list \in Seq(FieldRecord) /\ Len(list) = n + 1 /\ list[n + 1] = field
        /\ \A i \in 1..n : list[i] = def.fields[i]
    BY <1>1, <2>1
  <2>3. added = [def EXCEPT !.fields = list]
    BY <1>4 DEF AddField, field
  <2> HIDE DEF list, added
  <2>4. /\ added \in Definition /\ added.fields = list
        /\ added.name = def.name /\ added.fixed = def.fixed
        /\ added.attributes = def.attributes
    BY <2>2, <2>3 DEF Definition
  <2> QED BY <1>4, <2>2, <2>4 DEF added, field, Appended, Gap, Place
<1> QED BY <1>3, <1>4 DEF Definition

-----------------------------------------------------------------------------
(* Attributes.                                                             *)

LEMMA LeastOf ==
    ASSUME NEW T \in SUBSET Nat, T # {}
    PROVE  \E x \in T : \A y \in T : x <= y
<1> DEFINE R == OpToRel(<, Nat)
<1>1. IsWellFoundedOn(R, Nat)
  BY NatLessThanWellFounded
<1> HIDE DEF R
<1>2. PICK x \in T : \A y \in T : <<y, x>> \notin R
  BY <1>1, WFMin
<1>3. \A y \in T : y \in Nat /\ x \in Nat
  OBVIOUS
<1>4. \A y \in T : ~(y < x)
  BY <1>2, <1>3 DEF R, OpToRel
<1> QED BY <1>2, <1>3, <1>4

\* Lookup finds what Has has seen.
LEMMA LookupFinds ==
    ASSUME NEW attributes \in Seq(Attribute), NEW name, Has(attributes, name)
    PROVE  /\ Lookup(attributes, name) \in Attribute
           /\ Lookup(attributes, name).name = name
           /\ Atoi(Lookup(attributes, name)) \in Int
<1> DEFINE At(i) == i \in DOMAIN attributes /\ attributes[i].name = name
           T == {i \in Nat : At(i)}
           First(i) == /\ attributes[i].name = name
                       /\ \A j \in 1..(i - 1) : attributes[j].name # name
<1>1. DOMAIN attributes = 1..Len(attributes) /\ Len(attributes) \in Nat
  OBVIOUS
<1>2. T # {} /\ T \in SUBSET Nat
  BY <1>1 DEF Has
<1>3. PICK i \in T : \A j \in T : i <= j
  <2> HIDE DEF T
  <2> QED BY <1>2, LeastOf
<1>4. i \in DOMAIN attributes /\ First(i)
  BY <1>1, <1>3
<1> DEFINE k == CHOOSE k \in DOMAIN attributes : First(k)
<1>5. k \in DOMAIN attributes /\ First(k)
  <2> HIDE DEF First
  <2> QED BY <1>4
<1>6. Lookup(attributes, name) = attributes[k]
  BY DEF Lookup
<1>7. attributes[k] \in Attribute /\ attributes[k].name = name
  BY <1>1, <1>5
<1> HIDE DEF k
<1> QED BY <1>6, <1>7 DEF Atoi, Attribute

\* The type of a union has an id where the union has one, the number before it.
LEMMA TypeFieldId ==
    ASSUME NEW d, d.attributes \in Seq(Attribute)
    PROVE  LET attributes == TypeFieldAttributes(d) IN
           /\ attributes \in Seq(Attribute)
           /\ Has(attributes, "id") <=> Has(d.attributes, "id")
           /\ Has(d.attributes, "id") =>
                Atoi(Lookup(attributes, "id")) = Atoi(Lookup(d.attributes, "id")) - 1
<1> DEFINE id == Lookup(d.attributes, "id")
           numbered == [id EXCEPT !.value = @ - 1]
<1>1. CASE Has(d.attributes, "id")
  <2>1. id \in Attribute /\ id.name = "id" /\ Atoi(id) \in Int
    BY <1>1, LookupFinds
  <2> HIDE DEF id
  <2>2. numbered \in Attribute /\ numbered.name = "id" /\ Atoi(numbered) = Atoi(id) - 1
    BY <2>1 DEF Attribute, Atoi
  <2>3. TypeFieldAttributes(d) = <<numbered>>
    BY <1>1 DEF TypeFieldAttributes, id
  <2> HIDE DEF numbered
  <2>4. /\ <<numbered>> \in Seq(Attribute)
        /\ DOMAIN <<numbered>> = {1} /\ <<numbered>>[1] = numbered
    BY <2>2
  <2>5. Has(<<numbered>>, "id")
    BY <2>2, <2>4 DEF Has
  <2>6. Lookup(<<numbered>>, "id") = numbered
    <3>1. \E i \in {1} : /\ <<numbered>>[i].name = "id"
                         /\ \A j \in 1..(i - 1) : <<numbered>>[j].name # "id"
      BY <2>2, <2>4
    <3> QED BY <2>4, <3>1 DEF Lookup
  <2> QED BY <1>1, <2>2, <2>3, <2>4, <2>5, <2>6 DEF id
<1>2. CASE ~Has(d.attributes, "id")
  BY <1>2 DEF TypeFieldAttributes, Has
<1> QED BY <1>1, <1>2

-----------------------------------------------------------------------------
(* ParseField.                                                             *)

Relast(def, field) == [def EXCEPT !.fields[Len(def.fields)] = field]
Keyed(def, key) == [def EXCEPT !.has_key = key]

LEMMA RelastFits ==
    ASSUME NEW def \in Definition, NEW field \in FieldRecord, Len(def.fields) # 0
    PROVE  LET r == Relast(def, field)
               n == Len(def.fields) IN
           /\ r \in Definition
           /\ r.name = def.name /\ r.fixed = def.fixed /\ r.attributes = def.attributes
           /\ r.bytesize = def.bytesize /\ r.minalign = def.minalign
           /\ r.has_key = def.has_key
           /\ Len(r.fields) = n /\ r.fields[n] = field
           /\ \A i \in 1..(n - 1) : r.fields[i] = def.fields[i]
<1> DEFINE n == Len(def.fields)
           list == [def.fields EXCEPT ![n] = field]
           r == Relast(def, field)
<1>1. def.fields \in Seq(FieldRecord) /\ n \in Nat \ {0} /\ DOMAIN def.fields = 1..n
  BY DEF Definition
<1>2. /\ list \in Seq(FieldRecord) /\ Len(list) = n /\ list[n] = field
      /\ \A i \in 1..(n - 1) : list[i] = def.fields[i]
  BY <1>1, ExceptSeq
<1>3. r = [def EXCEPT !.fields = list]
  BY DEF Relast
<1> HIDE DEF list, n, r
<1>4. /\ r \in Definition /\ r.fields = list
      /\ r.name = def.name /\ r.fixed = def.fixed /\ r.attributes = def.attributes
      /\ r.bytesize = def.bytesize /\ r.minalign = def.minalign
      /\ r.has_key = def.has_key
  BY <1>2, <1>3 DEF Definition
<1> QED BY <1>2, <1>4 DEF r, n

LEMMA KeyedFits ==
    ASSUME NEW def \in Definition, NEW key \in BOOLEAN
    PROVE  LET r == Keyed(def, key) IN
           /\ r \in Definition
           /\ r.name = def.name /\ r.fixed = def.fixed /\ r.attributes = def.attributes
           /\ r.bytesize = def.bytesize /\ r.minalign = def.minalign
           /\ r.fields = def.fields
BY DEF Keyed, Definition

LEMMA DecoratedFits ==
    ASSUME NEW field \in FieldRecord, NEW d, d.attributes \in Seq(Attribute)
    PROVE  LET r == Decorated(field, d) IN
           /\ r \in FieldRecord
           /\ r.name = field.name /\ r.type = field.type
           /\ r.offset = field.offset /\ r.padding = field.padding
           /\ r.attributes = d.attributes
<1> DEFINE deprecated == Has(d.attributes, "deprecated")
           required == Has(d.attributes, "required")
                         \/ (Has(d.attributes, "key") /\ ~IsScalar(d.type.base))
           key == Has(d.attributes, "key")
<1>1. deprecated \in BOOLEAN /\ required \in BOOLEAN /\ key \in BOOLEAN
  BY DEF Has, IsScalar
<1>2. Decorated(field, d) = [field EXCEPT !.attributes = d.attributes,
                                !.deprecated = deprecated, !.required = required, !.key = key]
  BY DEF Decorated
<1> HIDE DEF deprecated, required, key
<1> QED BY <1>1, <1>2 DEF FieldRecord

\* What d refers to has a size and an alignment, and so has the type of a union.
Sized(d) == \A type \in {d.type, TypeFieldType(d.type)} :
                InlineSize(type) \in Nat /\ InlineAlignment(type) \in Alignments

LEMMA TypeFieldTypes ==
    ASSUME FieldsTyped, NEW d \in Declarations
    PROVE  /\ d.type \in Types /\ d.attributes \in Seq(Attribute)
           /\ TypeFieldType(d.type) \in Types
           /\ HasTypeField(d.type) => ~HasTypeField(TypeFieldType(d.type))
           /\ d.name \in FieldName
           /\ HasTypeField(d.type) => UnionTypeField(d.name) \in FieldName
<1>1. d.type \in Types /\ d.attributes \in Seq(Attribute)
  BY DEF FieldsTyped
<1>2. /\ TypeFieldType(d.type) \in Types
      /\ HasTypeField(d.type) => ~HasTypeField(TypeFieldType(d.type))
  <2>1. "utype" \in Bases
    BY DEF Bases, SizeOf
  <2>2. CASE d.type.base = "union"
    BY <1>1, <2>1, <2>2 DEF TypeFieldType, HasTypeField, Types
  <2>3. CASE d.type.base # "union"
    BY <1>1, <2>1, <2>3 DEF TypeFieldType, HasTypeField, Types
  <2> QED BY <2>2, <2>3
<1>3. /\ d.name \in FieldName
      /\ HasTypeField(d.type) => UnionTypeField(d.name) \in FieldName
  BY DEF FieldName, Names
<1> QED BY <1>1, <1>2, <1>3

\* A union in a table gets its type's field first, with an id if it has one.
LEMMA TypeFieldAppends ==
    ASSUME FieldsTyped, NEW def \in Definition, NEW d \in Declarations,
           Sized(d), ~def.fixed, HasTypeField(d.type)
    PROVE  LET with == WithTypeField(def, d)
               n == Len(def.fields) IN
           /\ with \in Definition
           /\ with.name = def.name /\ with.fixed = def.fixed
           /\ with.attributes = def.attributes
           /\ Len(with.fields) = n + 1
           /\ with.fields[n + 1].name = UnionTypeField(d.name)
           /\ with.fields[n + 1].type = TypeFieldType(d.type)
           /\ with.fields[n + 1].offset = FieldIndexToOffset(n)
           /\ with.fields[n + 1].attributes = TypeFieldAttributes(d)
           /\ \A i \in 1..n : with.fields[i] = def.fields[i]
<1> DEFINE n == Len(def.fields)
           added == AddField(def, UnionTypeField(d.name), TypeFieldType(d.type))
           made == NewField(UnionTypeField(d.name), TypeFieldType(d.type), FieldIndexToOffset(n))
           field == [made EXCEPT !.attributes = TypeFieldAttributes(d)]
<1>1. n \in Nat /\ TypeFieldAttributes(d) \in Seq(Attribute)
  BY TypeFieldTypes, TypeFieldId DEF Definition
<1>2. /\ added \in Definition
      /\ added.name = def.name /\ added.fixed = def.fixed
      /\ added.attributes = def.attributes
      /\ Len(added.fields) = n + 1
      /\ added.fields[n + 1] = made
      /\ \A i \in 1..n : added.fields[i] = def.fields[i]
  <2>1. Appended(def, UnionTypeField(d.name), TypeFieldType(d.type), added)
    BY TypeFieldTypes, AddFieldAppends DEF Sized
  <2> HIDE DEF added
  <2> QED BY <2>1 DEF Appended, Place
<1>3. made \in FieldRecord
  <2>1. added.fields \in Seq(FieldRecord)
    BY <1>2 DEF Definition
  <2> HIDE DEF added, made
  <2> QED BY <1>1, <1>2, <2>1
<1>4. /\ field \in FieldRecord
      /\ field.name = UnionTypeField(d.name) /\ field.type = TypeFieldType(d.type)
      /\ field.offset = FieldIndexToOffset(n) /\ field.attributes = TypeFieldAttributes(d)
  <2>1. /\ made.name = UnionTypeField(d.name) /\ made.type = TypeFieldType(d.type)
        /\ made.offset = FieldIndexToOffset(n)
    BY DEF NewField
  <2> HIDE DEF made
  <2> QED BY <1>1, <1>3, <2>1 DEF FieldRecord
<1>5. WithTypeField(def, d) = Relast(added, field)
  <2>1. WithTypeField(def, d)
          = [added EXCEPT !.fields[Len(added.fields)].attributes = TypeFieldAttributes(d)]
    BY DEF WithTypeField
  <2> HIDE DEF added, made
  <2>2. field = [added.fields[Len(added.fields)] EXCEPT !.attributes = TypeFieldAttributes(d)]
    BY <1>2
  <2> QED BY <2>1, <2>2 DEF Relast
<1> HIDE DEF added, field
<1>6. Len(added.fields) # 0 /\ n + 1 \in Nat /\ (n + 1) - 1 = n
  BY <1>1, <1>2
<1> QED BY <1>1, <1>2, <1>4, <1>5, <1>6, RelastFits

\* ParseField adds the field it is given behind the one of its type.
Parsed(def, d, r) ==
    LET with == WithTypeField(def, d)
        n == Len(with.fields)
        padding == Gap(def, d.type)
        offset == IF def.fixed THEN def.bytesize + padding ELSE FieldIndexToOffset(n) IN
    /\ n \in Nat
    /\ r \in Definition
    /\ r.name = def.name /\ r.fixed = def.fixed
    /\ r.attributes = def.attributes
    /\ Len(r.fields) = n + 1
    /\ r.fields[n + 1].name = d.name /\ r.fields[n + 1].type = d.type
    /\ r.fields[n + 1].offset = offset /\ r.fields[n + 1].padding = 0
    /\ r.fields[n + 1].attributes = d.attributes
    /\ \A i \in 1..n :
         r.fields[i] = IF def.fixed /\ i = n
                       THEN [with.fields[i] EXCEPT !.padding = padding]
                       ELSE with.fields[i]
    /\ def.fixed =>
         /\ padding \in Nat
         /\ offset % InlineAlignment(d.type) = 0
         /\ r.bytesize = offset + InlineSize(d.type)
         /\ r.minalign = Greater(def.minalign, InlineAlignment(d.type))

LEMMA FieldAddedAppends ==
    ASSUME FieldsTyped, NEW def \in Definition, NEW d \in Declarations, Sized(d),
           def.fixed => ~HasTypeField(d.type)
    PROVE  Parsed(def, d, FieldAdded(def, d))
<1> DEFINE with == WithTypeField(def, d)
           n == Len(with.fields)
           padding == PaddingBytes(def.bytesize, InlineAlignment(d.type))
           offset == IF def.fixed THEN def.bytesize + padding ELSE FieldIndexToOffset(n)
           added == AddField(with, d.name, d.type)
           made == NewField(d.name, d.type, offset)
           field == Decorated(made, d)
           key == added.has_key \/ Has(d.attributes, "key")
           r == FieldAdded(def, d)
<1>1. with \in Definition /\ with.name = def.name /\ with.fixed = def.fixed
      /\ with.attributes = def.attributes /\ (def.fixed => with = def)
  <2>1. CASE HasTypeField(d.type)
    BY <2>1, TypeFieldAppends DEF Definition
  <2>2. CASE ~HasTypeField(d.type)
    BY <2>2 DEF WithTypeField
  <2> QED BY <2>1, <2>2
<1> HIDE DEF with
<1>2. n \in Nat
  BY <1>1 DEF Definition
<1>3. /\ added \in Definition
      /\ added.name = with.name /\ added.fixed = with.fixed
      /\ added.attributes = with.attributes
      /\ Len(added.fields) = n + 1
      /\ added.fields[n + 1] = made
      /\ \A i \in 1..n : added.fields[i] = IF def.fixed /\ i = n
                                           THEN [with.fields[i] EXCEPT !.padding = padding]
                                           ELSE with.fields[i]
      /\ def.fixed =>
           /\ padding \in Nat
           /\ offset % InlineAlignment(d.type) = 0
           /\ added.bytesize = offset + InlineSize(d.type)
           /\ added.minalign = Greater(def.minalign, InlineAlignment(d.type))
  <2>1. /\ InlineSize(d.type) \in Nat /\ InlineAlignment(d.type) \in Alignments
        /\ d.name \in FieldName /\ d.type \in Types
    BY TypeFieldTypes DEF Sized
  <2>2. Appended(with, d.name, d.type, added)
    BY <1>1, <2>1, AddFieldAppends
  <2>3. Place(with, d.type) = offset /\ (def.fixed => Gap(with, d.type) = padding)
    BY <1>1 DEF Place, Gap
  <2>4. made = NewField(d.name, d.type, Place(with, d.type))
    BY <2>3
  <2> HIDE DEF added, offset, padding, made
  <2> QED BY <1>1, <2>2, <2>3, <2>4 DEF Appended
<1> HIDE DEF padding, offset, added
<1>4. made \in FieldRecord
  <2>1. added.fields \in Seq(FieldRecord)
    BY <1>3 DEF Definition
  <2> HIDE DEF made
  <2> QED BY <1>2, <1>3, <2>1
<1>5. made.name = d.name /\ made.type = d.type /\ made.offset = offset /\ made.padding = 0
  BY DEF NewField
<1> HIDE DEF made
<1>6. /\ field \in FieldRecord /\ field.name = d.name /\ field.type = d.type
      /\ field.offset = offset /\ field.padding = 0 /\ field.attributes = d.attributes
  BY <1>4, <1>5, TypeFieldTypes, DecoratedFits
<1>7. key \in BOOLEAN
  BY <1>3 DEF Has, Definition
<1>8. r = Keyed(Relast(added, field), key)
  <2>1. r = [added EXCEPT !.fields[Len(added.fields)] = Decorated(@, d),
                          !.has_key = @ \/ Has(d.attributes, "key")]
    BY DEF FieldAdded, added, with
  <2>2. added.fields[Len(added.fields)] = made
    BY <1>3
  <2>3. r = [added EXCEPT !.fields[Len(added.fields)] = field, !.has_key = key]
    BY <2>1, <2>2, <1>3 DEF Definition
  <2> QED BY <2>3, <1>3 DEF Keyed, Relast, Definition
<1> HIDE DEF field, key, r
<1>9. Len(added.fields) # 0 /\ n + 1 \in Nat /\ (n + 1) - 1 = n
  BY <1>2, <1>3
<1>10. /\ Relast(added, field) \in Definition
       /\ Relast(added, field).name = added.name /\ Relast(added, field).fixed = added.fixed
       /\ Relast(added, field).attributes = added.attributes
       /\ Relast(added, field).bytesize = added.bytesize
       /\ Relast(added, field).minalign = added.minalign
       /\ Len(Relast(added, field).fields) = n + 1
       /\ Relast(added, field).fields[n + 1] = field
       /\ \A i \in 1..n : Relast(added, field).fields[i] = added.fields[i]
  BY <1>3, <1>6, <1>9, RelastFits
<1>11. /\ r \in Definition /\ r.name = added.name /\ r.fixed = added.fixed
       /\ r.attributes = added.attributes
       /\ r.bytesize = added.bytesize /\ r.minalign = added.minalign
       /\ r.fields = Relast(added, field).fields
  BY <1>7, <1>8, <1>10, KeyedFits
<1> HIDE DEF n
<1>12. /\ Len(r.fields) = n + 1 /\ r.fields[n + 1] = field
       /\ \A i \in 1..n : r.fields[i] = IF def.fixed /\ i = n
                                         THEN [with.fields[i] EXCEPT !.padding = padding]
                                         ELSE with.fields[i]
  BY <1>3, <1>10, <1>11
<1> QED BY <1>1, <1>2, <1>3, <1>6, <1>11, <1>12 DEF n, with, r, padding, offset, Parsed, Gap

-----------------------------------------------------------------------------
(* The layout of structs.  Sizes are those of the definitions there are:   *)
(* Bytes and Align are InlineSize and InlineAlignment of what is Known.    *)

Known(ds, type) ==
    IsScalar(type.base) \/ (type.base = "struct" /\ type.of \in DOMAIN ds /\ ds[type.of].fixed)
Bytes(ds, type) == IF IsScalar(type.base) THEN SizeOf[type.base] ELSE ds[type.of].bytesize
Align(ds, type) == IF IsScalar(type.base) THEN SizeOf[type.base] ELSE ds[type.of].minalign

LaidAt(ds, def, i) ==
    LET field == def.fields[i] IN
    /\ Known(ds, field.type)
    /\ field.offset % Align(ds, field.type) = 0
    /\ def.minalign % Align(ds, field.type) = 0
    /\ field.offset + Bytes(ds, field.type) + field.padding
         = IF i = Len(def.fields) THEN def.bytesize ELSE def.fields[i + 1].offset
OthersOnly(def) == \A i \in DOMAIN def.fields : def.fields[i].type.of # def.name
Laid(ds, def) == OthersOnly(def) => \A i \in DOMAIN def.fields : LaidAt(ds, def, i)

\* The last field of a struct that is still open is not padded.
Fresh(def) == Len(def.fields) # 0 => def.fields[Len(def.fields)].padding = 0

AllDefined(ds) == \A n \in DOMAIN ds : ds[n] \in Definition /\ ds[n].name = n
Grown(ds, dt) == \A n \in DOMAIN ds : n \in DOMAIN dt /\ dt[n] = ds[n]

LEMMA KnownSizes ==
    ASSUME NEW type \in Types, AllDefined(structs), Known(structs, type)
    PROVE  /\ InlineSize(type) = Bytes(structs, type)
           /\ InlineAlignment(type) = Align(structs, type)
           /\ Bytes(structs, type) \in Nat
           /\ Align(structs, type) \in Alignments
<1>1. CASE IsScalar(type.base)
  <2>1. type.base # "struct"
    BY <1>1 DEF IsScalar, Scalars
  <2>2. SizeOf[type.base] \in Alignments
    BY ScalarSizes
  <2> QED BY <1>1, <2>1, <2>2, AlignmentsOrdered
          DEF InlineSize, InlineAlignment, IsStruct, Bytes, Align
<1>2. CASE ~IsScalar(type.base)
  BY <1>2 DEF Known, InlineSize, InlineAlignment, IsStruct, StructDef, Bytes, Align,
              AllDefined, Definition
<1> QED BY <1>1, <1>2

\* A layout is not touched by definitions that come after it.
LEMMA LaidStays ==
    ASSUME NEW ds, NEW dt, NEW def, Grown(ds, dt), Laid(ds, def)
    PROVE  Laid(dt, def)
BY DEF Grown, Laid, LaidAt, Known, Bytes, Align

\* What may be a field of a struct is a scalar, a struct that is there, or the
\* struct itself.
LEMMA AllowedInStruct ==
    ASSUME NEW def, NEW d, def.fixed, FieldAllowed(def, d)
    PROVE  /\ ~HasTypeField(d.type)
           /\ Known(structs, d.type) \/ d.type.of = open.name
<1>1. IsScalar(d.type.base) \/ IsStruct(d.type)
  BY DEF FieldAllowed
<1>2. ~HasTypeField(d.type)
  BY <1>1 DEF IsScalar, Scalars, IsStruct, HasTypeField
<1>3. ASSUME IsStruct(d.type), d.type.of # open.name PROVE Known(structs, d.type)
  BY <1>3, Nothing.fixed = FALSE DEF IsStruct, StructDef, Known, Nothing
<1> QED BY <1>1, <1>2, <1>3 DEF Known

\* ParseField keeps what is laid out, and lays out what it adds.
LEMMA ParsedLaid ==
    ASSUME FieldsTyped, NEW def \in Definition, NEW d \in Declarations, NEW r,
           def.fixed, AllDefined(structs), Parsed(def, d, r),
           ~HasTypeField(d.type), Known(structs, d.type) \/ d.type.of = def.name,
           Laid(structs, def), Fresh(def)
    PROVE  Laid(structs, r) /\ Fresh(r)
<1> DEFINE n == Len(def.fields)
           padding == Gap(def, d.type)
           offset == def.bytesize + padding
           align == InlineAlignment(d.type)
<1>1. WithTypeField(def, d) = def
  BY DEF WithTypeField
<1>2. /\ n \in Nat /\ r \in Definition /\ r.name = def.name
      /\ Len(r.fields) = n + 1
      /\ r.fields[n + 1].type = d.type
      /\ r.fields[n + 1].offset = offset /\ r.fields[n + 1].padding = 0
      /\ \A i \in 1..n : r.fields[i] = IF i = n THEN [def.fields[i] EXCEPT !.padding = padding]
                                        ELSE def.fields[i]
      /\ padding \in Nat
      /\ offset % align = 0
      /\ r.bytesize = offset + InlineSize(d.type)
      /\ r.minalign = Greater(def.minalign, align)
  BY <1>1 DEF Parsed
<1>3. Fresh(r)
  BY <1>2 DEF Fresh
<1> HIDE DEF padding, offset, align
<1>4. /\ def.fields \in Seq(FieldRecord) /\ DOMAIN def.fields = 1..n /\ DOMAIN r.fields = 1..(n + 1)
      /\ def.bytesize \in Nat /\ def.minalign \in Alignments
  BY <1>2 DEF Definition
<1>5. SUFFICES ASSUME OthersOnly(r), NEW i \in 1..(n + 1) PROVE LaidAt(structs, r, i)
  BY <1>3, <1>4 DEF Laid
<1>6. Known(structs, d.type)
  BY <1>2, <1>4, <1>5 DEF OthersOnly
<1>7. d.type \in Types
  BY DEF FieldsTyped
<1>8. /\ InlineSize(d.type) = Bytes(structs, d.type) /\ align = Align(structs, d.type)
      /\ Bytes(structs, d.type) \in Nat /\ align \in Alignments
  BY <1>6, <1>7, KnownSizes DEF align
<1>9. r.minalign \in Alignments /\ r.minalign >= align /\ r.minalign >= def.minalign
  BY <1>2, <1>4, <1>8 DEF Greater, Alignments
<1>10. CASE i = n + 1
  <2>1. r.minalign % align = 0
    BY <1>8, <1>9, LargerIsMultiple
  <2>2. offset \in Nat
    BY <1>2, <1>4 DEF offset
  <2>3. offset + Bytes(structs, d.type) + 0 = r.bytesize
    BY <1>2, <1>8, <2>2
  <2>4. offset % Align(structs, d.type) = 0 /\ r.minalign % Align(structs, d.type) = 0
    BY <1>2, <1>8, <2>1
  <2> QED BY <1>2, <1>6, <1>10, <2>3, <2>4 DEF LaidAt
<1>11. CASE i \in 1..n
  <2> DEFINE old == def.fields[i]
             field == r.fields[i]
             oldAlign == Align(structs, old.type)
  <2>1. old \in FieldRecord
    BY <1>4, <1>11
  <2>2. /\ field.type = old.type /\ field.offset = old.offset
        /\ field.padding = IF i = n THEN padding ELSE old.padding
    BY <1>2, <1>11, <2>1 DEF FieldRecord
  <2>3. \A k \in 1..n : r.fields[k].type = def.fields[k].type
                        /\ r.fields[k].offset = def.fields[k].offset
    <3> SUFFICES ASSUME NEW k \in 1..n
                 PROVE  r.fields[k].type = def.fields[k].type
                        /\ r.fields[k].offset = def.fields[k].offset
      OBVIOUS
    <3>1. def.fields[k] \in FieldRecord
      BY <1>4
    <3> QED BY <1>2, <3>1 DEF FieldRecord
  <2>4. OthersOnly(def)
    BY <1>2, <1>4, <1>5, <2>3 DEF OthersOnly
  <2>5. LaidAt(structs, def, i)
    BY <1>4, <1>11, <2>4 DEF Laid
  <2>6. old.type \in Types /\ old.offset \in Nat /\ old.padding \in Nat
    BY <2>1 DEF FieldRecord
  <2>7. Bytes(structs, old.type) \in Nat /\ oldAlign \in Alignments
    BY <2>5, <2>6, KnownSizes DEF LaidAt
  <2> HIDE DEF field, oldAlign
  <2>8. r.minalign % oldAlign = 0
    BY <1>4, <1>9, <2>5, <2>7, AlignmentsOrdered DEF LaidAt, oldAlign
  <2>9. old.offset + Bytes(structs, old.type) + field.padding
          = IF i = n + 1 THEN r.bytesize ELSE r.fields[i + 1].offset
    <3>1. CASE i = n
      <4>1. old.padding = 0
        BY <1>11, <3>1 DEF Fresh
      <4>2. old.offset + Bytes(structs, old.type) + 0 = def.bytesize
        BY <2>5, <3>1, <4>1 DEF LaidAt
      <4> QED BY <1>2, <1>4, <2>2, <2>6, <2>7, <3>1, <4>2 DEF offset
    <3>2. CASE i # n
      <4>1. i + 1 \in 1..n /\ i # n + 1
        BY <1>2, <1>11, <3>2
      <4> QED BY <2>2, <2>3, <2>5, <3>2, <4>1 DEF LaidAt
    <3> QED BY <3>1, <3>2
  <2> QED BY <1>2, <2>2, <2>5, <2>8, <2>9 DEF LaidAt, field, oldAlign
<1> QED BY <1>2, <1>10, <1>11

\* What SortedById leaves alone.
LEMMA PaddedFits ==
    ASSUME NEW def \in Definition, ForceAlignFits(def)
    PROVE  LET aligned == Aligned(def)
               padded == Padded(def)
               n == Len(def.fields)
               padding == PaddingBytes(def.bytesize, aligned.minalign) IN
           /\ aligned \in Definition
           /\ aligned.minalign >= def.minalign
           /\ padded \in Definition
           /\ padded.name = def.name /\ padded.fixed = def.fixed
           /\ padded.minalign = aligned.minalign
           /\ padded.bytesize = def.bytesize + padding
           /\ padded.bytesize % padded.minalign = 0
           /\ padding \in Nat
           /\ n \in Nat /\ Len(padded.fields) = n
           /\ DOMAIN def.fields = 1..n /\ DOMAIN padded.fields = 1..n
           /\ \A i \in 1..n :
                /\ padded.fields[i].name = def.fields[i].name
                /\ padded.fields[i].type = def.fields[i].type
                /\ padded.fields[i].offset = def.fields[i].offset
                /\ padded.fields[i].attributes = def.fields[i].attributes
                /\ padded.fields[i].padding = IF i = n THEN padding ELSE def.fields[i].padding
<1> DEFINE aligned == Aligned(def)
           padded == Padded(def)
           n == Len(def.fields)
           padding == PaddingBytes(def.bytesize, aligned.minalign)
           force == Lookup(def.attributes, "force_align")
<1>1. /\ aligned \in Definition /\ aligned.minalign >= def.minalign
      /\ aligned.name = def.name /\ aligned.fixed = def.fixed
      /\ aligned.bytesize = def.bytesize /\ aligned.fields = def.fields
  <2>1. CASE def.fixed /\ Has(def.attributes, "force_align")
    <3> DEFINE v == Atoi(force)
    <3>1. v \in Alignments /\ v >= def.minalign
      BY <2>1 DEF ForceAlignFits, Alignments
    <3>2. aligned = [def EXCEPT !.minalign = v]
      BY <2>1 DEF Aligned
    <3> HIDE DEF v, aligned
    <3> QED BY <3>1, <3>2 DEF Definition
  <2>2. CASE ~(def.fixed /\ Has(def.attributes, "force_align"))
    <3>1. aligned = def
      BY <2>2 DEF Aligned
    <3>2. def.minalign \in Nat
      BY DEF Definition, Alignments
    <3> HIDE DEF aligned
    <3> QED BY <3>1, <3>2
  <2> QED BY <2>1, <2>2
<1> HIDE DEF aligned
<1>2. aligned.minalign \in Alignments
  BY <1>1 DEF Definition
<1>3. padded = PadLastField(aligned, aligned.minalign)
  BY DEF Padded, aligned
<1>4. /\ padded \in Definition
      /\ padded.bytesize = def.bytesize + padding
      /\ padded.bytesize % aligned.minalign = 0
      /\ padding \in Nat
      /\ DOMAIN padded.fields = DOMAIN def.fields /\ Len(padded.fields) = n
      /\ \A i \in DOMAIN def.fields :
           padded.fields[i] = IF i = n THEN [def.fields[i] EXCEPT !.padding = padding]
                              ELSE def.fields[i]
      /\ padded.name = def.name /\ padded.fixed = def.fixed
      /\ padded.minalign = aligned.minalign
  <2> DEFINE p == PadLastField(aligned, aligned.minalign)
             g == PaddingBytes(aligned.bytesize, aligned.minalign)
  <2>1. /\ p \in Definition
        /\ p.bytesize = aligned.bytesize + g
        /\ p.bytesize % aligned.minalign = 0
        /\ g \in Nat
        /\ DOMAIN p.fields = DOMAIN aligned.fields /\ Len(p.fields) = Len(aligned.fields)
        /\ \A i \in DOMAIN aligned.fields :
             p.fields[i] = IF i = Len(aligned.fields)
                           THEN [aligned.fields[i] EXCEPT !.padding = g]
                           ELSE aligned.fields[i]
        /\ p.name = aligned.name /\ p.fixed = aligned.fixed
        /\ p.minalign = aligned.minalign
    BY <1>1, <1>2, PadLast
  <2>2. g = padding /\ p = padded
    BY <1>1, <1>3
  <2> HIDE DEF p, g, padded, padding
  <2> QED BY <1>1, <2>1, <2>2
<1> HIDE DEF padded, padding
<1>5. def.fields \in Seq(FieldRecord) /\ n \in Nat /\ DOMAIN def.fields = 1..n
  BY DEF Definition
<1>6. ASSUME NEW i \in 1..n
      PROVE  /\ padded.fields[i].name = def.fields[i].name
             /\ padded.fields[i].type = def.fields[i].type
             /\ padded.fields[i].offset = def.fields[i].offset
             /\ padded.fields[i].attributes = def.fields[i].attributes
             /\ padded.fields[i].padding = IF i = n THEN padding ELSE def.fields[i].padding
  <2>1. def.fields[i] \in FieldRecord
    BY <1>5
  <2> QED BY <1>4, <1>5, <2>1 DEF FieldRecord
<1> QED BY <1>1, <1>4, <1>5, <1>6 DEF aligned, padded, padding

\* ParseDecl ends a struct with the padding an array of it needs.
LEMMA ClosedLaid ==
    ASSUME NEW def \in Definition, def.fixed, ForceAlignFits(def), AllDefined(structs),
           Laid(structs, def), Fresh(def)
    PROVE  LET r == SortedById(Padded(def)) IN
           /\ r \in Definition /\ r.name = def.name /\ r.fixed
           /\ Laid(structs, r)
           /\ r.bytesize % r.minalign = 0
<1> DEFINE n == Len(def.fields)
           r == Padded(def)
           padding == PaddingBytes(def.bytesize, Aligned(def).minalign)
<1>1. /\ r \in Definition /\ r.minalign >= def.minalign
      /\ r.name = def.name /\ r.fixed = def.fixed
      /\ r.bytesize = def.bytesize + padding
      /\ r.bytesize % r.minalign = 0
      /\ padding \in Nat /\ n \in Nat
      /\ Len(r.fields) = n /\ DOMAIN def.fields = 1..n /\ DOMAIN r.fields = 1..n
      /\ \A i \in 1..n :
           /\ r.fields[i].type = def.fields[i].type
           /\ r.fields[i].offset = def.fields[i].offset
           /\ r.fields[i].padding = IF i = n THEN padding ELSE def.fields[i].padding
  BY PaddedFits
<1> HIDE DEF r, padding
<1>2. SortedById(r) = r
  BY <1>1 DEF SortedById, HasIds
<1>3. SUFFICES ASSUME OthersOnly(r), NEW i \in 1..n PROVE LaidAt(structs, r, i)
  BY <1>1, <1>2 DEF Laid, r
<1>4. OthersOnly(def)
  BY <1>1, <1>3 DEF OthersOnly
<1>5. LaidAt(structs, def, i)
  BY <1>1, <1>4 DEF Laid
<1> DEFINE old == def.fields[i]
<1>6. old.type \in Types /\ old.offset \in Nat /\ old.padding \in Nat
  <2>1. old \in FieldRecord
    BY <1>1 DEF Definition
  <2> QED BY <2>1 DEF FieldRecord
<1>7. Bytes(structs, old.type) \in Nat /\ Align(structs, old.type) \in Alignments
  BY <1>5, <1>6, KnownSizes DEF LaidAt
<1>8. r.minalign \in Alignments /\ def.minalign \in Alignments /\ def.bytesize \in Nat
  BY <1>1 DEF Definition
<1>9. r.minalign % Align(structs, old.type) = 0
  BY <1>1, <1>5, <1>7, <1>8, AlignmentsOrdered DEF LaidAt
<1>10. r.fields[i].offset + Bytes(structs, old.type) + r.fields[i].padding
         = IF i = n THEN r.bytesize ELSE r.fields[i + 1].offset
  <2>1. CASE i = n
    <3>1. old.padding = 0
      BY <2>1 DEF Fresh
    <3>2. old.offset + Bytes(structs, old.type) + 0 = def.bytesize
      BY <1>5, <2>1, <3>1 DEF LaidAt
    <3>3. /\ r.fields[i].offset = old.offset /\ r.fields[i].padding = padding
          /\ r.bytesize = def.bytesize + padding /\ padding \in Nat
      BY <1>1, <2>1
    <3> QED BY <1>6, <1>7, <1>8, <2>1, <3>2, <3>3
  <2>2. CASE i # n
    <3>1. i + 1 \in 1..n
      BY <1>1, <2>2
    <3> QED BY <1>1, <1>5, <2>2, <3>1 DEF LaidAt
  <2> QED BY <2>1, <2>2
<1> QED BY <1>1, <1>5, <1>9, <1>10 DEF LaidAt

-----------------------------------------------------------------------------
(* The slots of tables.                                                    *)

InSlots(def) == \A i \in DOMAIN def.fields : def.fields[i].offset = FieldIndexToOffset(i - 1)

\* The type of a union is in the field before it, with the number before its id.
TypeAt(def, i) ==
    HasTypeField(def.fields[i].type) =>
        /\ i > 1
        /\ def.fields[i - 1].name = UnionTypeField(def.fields[i].name)
        /\ def.fields[i - 1].type = TypeFieldType(def.fields[i].type)
        /\ Has(def.fields[i - 1].attributes, "id") <=> Has(def.fields[i].attributes, "id")
        /\ Has(def.fields[i].attributes, "id") =>
             Id(def.fields[i - 1]) = Id(def.fields[i]) - 1
TypesBefore(def) == \A i \in DOMAIN def.fields : TypeAt(def, i)

Tabled(def) == IF def.fixed THEN \A i \in DOMAIN def.fields : ~HasTypeField(def.fields[i].type)
               ELSE InSlots(def) /\ TypesBefore(def)

\* ParseField gives the next slots to what it adds, the type of a union first.
LEMMA ParsedTabled ==
    ASSUME FieldsTyped, NEW def \in Definition, NEW d \in Declarations, NEW r, Sized(d),
           Parsed(def, d, r), def.fixed => ~HasTypeField(d.type), Tabled(def)
    PROVE  Tabled(r)
<1> DEFINE n == Len(def.fields)
           with == WithTypeField(def, d)
           m == Len(with.fields)
<1>1. n \in Nat /\ DOMAIN def.fields = 1..n /\ def.fields \in Seq(FieldRecord)
  BY DEF Definition
<1>2. /\ m \in Nat /\ r \in Definition /\ r.fixed = def.fixed
      /\ Len(r.fields) = m + 1
      /\ r.fields[m + 1].name = d.name /\ r.fields[m + 1].type = d.type
      /\ r.fields[m + 1].attributes = d.attributes
  BY DEF Parsed
<1>3. DOMAIN r.fields = 1..(m + 1)
  BY <1>2 DEF Definition
<1>4. CASE def.fixed
  <2>1. with = def
    BY <1>4 DEF WithTypeField
  <2>2. \A i \in 1..n : r.fields[i].type = def.fields[i].type
    <3> SUFFICES ASSUME NEW i \in 1..n PROVE r.fields[i].type = def.fields[i].type
      OBVIOUS
    <3>1. def.fields[i] \in FieldRecord
      BY <1>1
    <3>2. \/ r.fields[i] = def.fields[i]
          \/ r.fields[i] = [def.fields[i] EXCEPT !.padding = Gap(def, d.type)]
      BY <2>1 DEF Parsed
    <3> QED BY <3>1, <3>2 DEF FieldRecord
  <2> QED BY <1>1, <1>2, <1>3, <1>4, <2>1, <2>2 DEF Tabled
<1>5. CASE ~def.fixed
  <2>1. InSlots(def) /\ TypesBefore(def)
    BY <1>5 DEF Tabled
  <2>2. /\ r.fields[m + 1].offset = FieldIndexToOffset(m)
        /\ \A i \in 1..m : r.fields[i] = with.fields[i]
    BY <1>5 DEF Parsed
  <2>3. CASE ~HasTypeField(d.type)
    <3>1. with = def
      BY <2>3 DEF WithTypeField
    <3>2. \A i \in 1..n : r.fields[i] = def.fields[i]
      BY <2>2, <3>1
    <3>3. InSlots(r)
      BY <1>1, <1>2, <1>3, <2>1, <2>2, <3>1, <3>2 DEF InSlots
    <3>4. TypesBefore(r)
      <4> SUFFICES ASSUME NEW i \in 1..(n + 1) PROVE TypeAt(r, i)
        BY <1>3, <3>1 DEF TypesBefore
      <4>1. CASE i = n + 1
        BY <1>2, <2>3, <3>1, <4>1 DEF TypeAt
      <4>2. CASE i \in 1..n
        <5>1. TypeAt(def, i)
          BY <1>1, <2>1, <4>2 DEF TypesBefore
        <5>2. i > 1 => i - 1 \in 1..n
          BY <1>1, <4>2
        <5>3. r.fields[i] = def.fields[i] /\ (i > 1 => r.fields[i - 1] = def.fields[i - 1])
          BY <3>2, <4>2, <5>2
        <5> QED BY <5>1, <5>3 DEF TypeAt
      <4> QED BY <1>1, <4>1, <4>2
    <3> QED BY <1>2, <1>5, <3>3, <3>4 DEF Tabled
  <2>4. CASE HasTypeField(d.type)
    <3>1. /\ m = n + 1
          /\ with.fields[n + 1].name = UnionTypeField(d.name)
          /\ with.fields[n + 1].type = TypeFieldType(d.type)
          /\ with.fields[n + 1].offset = FieldIndexToOffset(n)
          /\ with.fields[n + 1].attributes = TypeFieldAttributes(d)
          /\ \A i \in 1..n : with.fields[i] = def.fields[i]
      BY <1>5, <2>4, TypeFieldAppends
    <3>2. \A i \in 1..n : r.fields[i] = def.fields[i]
      BY <1>1, <2>2, <3>1
    <3>3. r.fields[n + 1] = with.fields[n + 1]
      BY <1>1, <2>2, <3>1
    <3>4. InSlots(r)
      <4> SUFFICES ASSUME NEW i \in 1..(n + 2) PROVE r.fields[i].offset = FieldIndexToOffset(i - 1)
        BY <1>1, <1>3, <3>1 DEF InSlots
      <4>1. CASE i = n + 2
        BY <1>1, <2>2, <3>1, <4>1
      <4>2. CASE i = n + 1
        BY <1>1, <3>1, <3>3, <4>2
      <4>3. CASE i \in 1..n
        BY <1>1, <2>1, <3>2, <4>3 DEF InSlots
      <4> QED BY <1>1, <4>1, <4>2, <4>3
    <3>5. TypesBefore(r)
      <4> SUFFICES ASSUME NEW i \in 1..(n + 2) PROVE TypeAt(r, i)
        BY <1>1, <1>3, <3>1 DEF TypesBefore
      <4>1. CASE i = n + 2
        <5>1. /\ r.fields[i].name = d.name /\ r.fields[i].type = d.type
              /\ r.fields[i].attributes = d.attributes
              /\ i - 1 = n + 1 /\ i > 1
          BY <1>1, <1>2, <3>1, <4>1
        <5>2. d.attributes \in Seq(Attribute)
          BY TypeFieldTypes
        <5> QED BY <3>1, <3>3, <5>1, <5>2, TypeFieldId DEF TypeAt, Id
      <4>2. CASE i = n + 1
        <5>1. ~HasTypeField(r.fields[i].type)
          BY <2>4, <3>1, <3>3, <4>2, TypeFieldTypes
        <5> QED BY <5>1 DEF TypeAt
      <4>3. CASE i \in 1..n
        <5>1. TypeAt(def, i)
          BY <1>1, <2>1, <4>3 DEF TypesBefore
        <5>2. i > 1 => i - 1 \in 1..n
          BY <1>1, <4>3
        <5>3. r.fields[i] = def.fields[i] /\ (i > 1 => r.fields[i - 1] = def.fields[i - 1])
          BY <3>2, <4>3, <5>2
        <5> QED BY <5>1, <5>3 DEF TypeAt
      <4> QED BY <1>1, <4>1, <4>2, <4>3
    <3> QED BY <1>2, <1>5, <3>4, <3>5 DEF Tabled
  <2> QED BY <2>3, <2>4
<1> QED BY <1>4, <1>5

\* What is true of the fields of a table that is there.
SlotsOf(def) ==
    /\ {def.fields[i].offset : i \in DOMAIN def.fields}
         = {FieldIndexToOffset(k) : k \in 0..(Len(def.fields) - 1)}
    /\ \A i \in DOMAIN def.fields :
         Has(def.fields[i].attributes, "id") =>
           def.fields[i].offset = FieldIndexToOffset(Id(def.fields[i]))
Precedes(def) ==
    \A i \in DOMAIN def.fields :
      LET field == def.fields[i] IN
      HasTypeField(field.type) =>
        \E type \in {def.fields[j] : j \in DOMAIN def.fields} :
          /\ type.name = UnionTypeField(field.name)
          /\ type.type = TypeFieldType(field.type)
          /\ type.offset = field.offset - 2

\* n numbers below n that are all different: each is there once.
LEMMA IdsDiffer ==
    ASSUME NEW n \in Nat, NEW f \in [1..n -> 0..(n - 1)],
           \A k \in 0..(n - 1) : \E i \in 1..n : f[i] = k,
           NEW i \in 1..n, NEW j \in 1..n, f[i] = f[j]
    PROVE  i = j
<1>1. f \in Surjection(1..n, 0..(n - 1))
  BY DEF Surjection
<1>2. IsFiniteSet(1..n) /\ Cardinality(1..n) = n /\ Cardinality(0..(n - 1)) = n
  <2>1. /\ IsFiniteSet(1..n)
        /\ Cardinality(1..n) = IF 1 > n THEN 0 ELSE n - 1 + 1
    BY FS_Interval
  <2>2. Cardinality(0..(n - 1)) = IF 0 > n - 1 THEN 0 ELSE (n - 1) - 0 + 1
    <3>1. 0 \in Int /\ n - 1 \in Int
      OBVIOUS
    <3> QED BY <3>1, FS_Interval
  <2> QED BY <2>1, <2>2
<1>3. f \in Injection(1..n, 0..(n - 1))
  BY <1>1, <1>2, FS_SurjSameCardinalityImpliesInj
<1> QED BY <1>3 DEF Injection, IsInjective

\* Sorted or not, a table that is closed has its fields in their slots.
LEMMA ClosedTabled ==
    ASSUME NEW def \in Definition, ~def.fixed, ForceAlignFits(def), IdsFit(def),
           InSlots(def), TypesBefore(def)
    PROVE  LET r == SortedById(Padded(def)) IN
           /\ r \in Definition /\ r.name = def.name /\ ~r.fixed
           /\ SlotsOf(r) /\ Precedes(r)
<1> DEFINE n == Len(def.fields)
           p == Padded(def)
           r == SortedById(p)
<1>1. /\ p \in Definition /\ p.name = def.name /\ p.fixed = def.fixed
      /\ n \in Nat /\ Len(p.fields) = n
      /\ DOMAIN def.fields = 1..n /\ DOMAIN p.fields = 1..n
      /\ \A i \in 1..n :
           /\ p.fields[i].name = def.fields[i].name
           /\ p.fields[i].type = def.fields[i].type
           /\ p.fields[i].offset = def.fields[i].offset
           /\ p.fields[i].attributes = def.fields[i].attributes
  BY PaddedFits
<1> HIDE DEF p
<1>2. p.fields \in Seq(FieldRecord)
  BY <1>1 DEF Definition
<1>3. \A i \in 1..n : TypeAt(p, i)
  <2> SUFFICES ASSUME NEW i \in 1..n PROVE TypeAt(p, i)
    OBVIOUS
  <2>1. TypeAt(def, i)
    BY <1>1 DEF TypesBefore
  <2>2. i > 1 => i - 1 \in 1..n
    BY <1>1
  <2> QED BY <1>1, <2>1, <2>2 DEF TypeAt, Id
<1>4. CASE ~HasIds(p)
  <2>1. r = p
    BY <1>4 DEF SortedById
  <2>2. \A i \in 1..n : p.fields[i].offset = FieldIndexToOffset(i - 1)
                        /\ ~Has(p.fields[i].attributes, "id")
    BY <1>1, <1>4 DEF InSlots, HasIds
  <2>5. ~p.fixed
    BY <1>1
  <2>3. SlotsOf(p)
    <3>1. ASSUME NEW k \in 0..(n - 1)
          PROVE  k + 1 \in 1..n /\ p.fields[k + 1].offset = FieldIndexToOffset(k)
      <4>1. k + 1 \in 1..n /\ (k + 1) - 1 = k
        BY <1>1
      <4> QED BY <2>2, <4>1
    <3>2. ASSUME NEW i \in 1..n
          PROVE  i - 1 \in 0..(n - 1) /\ p.fields[i].offset = FieldIndexToOffset(i - 1)
      <4>1. i - 1 \in 0..(n - 1)
        BY <1>1
      <4> QED BY <2>2, <4>1
    <3> DEFINE given  == {p.fields[i].offset : i \in 1..n}
               wanted == {FieldIndexToOffset(k) : k \in 0..(n - 1)}
    <3>3. given \subseteq wanted
      BY <3>2
    <3>4. wanted \subseteq given
      BY <3>1
    <3>5. given = wanted
      <4> HIDE DEF given, wanted
      <4> QED BY <3>3, <3>4
    <3> QED BY <1>1, <2>2, <3>5 DEF SlotsOf
  <2>4. Precedes(p)
    <3> SUFFICES ASSUME NEW i \in 1..n, HasTypeField(p.fields[i].type)
                 PROVE  \E type \in {p.fields[j] : j \in DOMAIN p.fields} :
                          /\ type.name = UnionTypeField(p.fields[i].name)
                          /\ type.type = TypeFieldType(p.fields[i].type)
                          /\ type.offset = p.fields[i].offset - 2
      BY <1>1 DEF Precedes
    <3>1. i - 1 \in 1..n
      BY <1>1, <1>3 DEF TypeAt
    <3>2. p.fields[i - 1].offset = p.fields[i].offset - 2
      <4>1. /\ p.fields[i - 1].offset = FieldIndexToOffset((i - 1) - 1)
            /\ p.fields[i].offset = FieldIndexToOffset(i - 1)
        BY <2>2, <3>1
      <4>2. FieldIndexToOffset((i - 1) - 1) = FieldIndexToOffset(i - 1) - 2
        BY <1>1 DEF FieldIndexToOffset
      <4> QED BY <4>1, <4>2
    <3> QED BY <1>1, <1>3, <3>1, <3>2 DEF TypeAt
  <2> HIDE DEF r
  <2> QED BY <1>1, <1>4, <2>1, <2>3, <2>4, <2>5 DEF r, p
<1>5. CASE HasIds(p)
  <2> DEFINE f == [i \in 1..n |-> Id(p.fields[i])]
             at(i) == CHOOSE j \in 1..n : Id(p.fields[j]) = i - 1
             sorted(i) == [p.fields[at(i)] EXCEPT !.offset = FieldIndexToOffset(i - 1)]
             list == [i \in 1..n |-> sorted(i)]
  <2>1. HasIds(def)
    BY <1>1, <1>5 DEF HasIds
  <2>2. /\ \A i \in 1..n : Has(p.fields[i].attributes, "id")
        /\ {Id(p.fields[i]) : i \in 1..n} = 0..(n - 1)
    BY <1>1, <2>1 DEF IdsFit, AllIds, Consecutive, Id
  <2>3. f \in [1..n -> 0..(n - 1)] /\ \A k \in 0..(n - 1) : \E i \in 1..n : f[i] = k
    BY <2>2
  <2>4. ASSUME NEW i \in 1..n PROVE at(i) \in 1..n /\ Id(p.fields[at(i)]) = i - 1
    <3>1. i - 1 \in 0..(n - 1)
      BY <1>1
    <3>2. \E j \in 1..n : Id(p.fields[j]) = i - 1
      BY <2>3, <3>1
    <3> QED BY <3>2
  <2> HIDE DEF at
  <2>5. ASSUME NEW i \in 1..n
        PROVE  /\ sorted(i) \in FieldRecord
               /\ sorted(i).offset = FieldIndexToOffset(i - 1)
               /\ sorted(i).name = p.fields[at(i)].name
               /\ sorted(i).type = p.fields[at(i)].type
               /\ sorted(i).attributes = p.fields[at(i)].attributes
    <3>1. p.fields[at(i)] \in FieldRecord
      BY <1>1, <1>2, <2>4
    <3>2. FieldIndexToOffset(i - 1) \in Nat
      BY <1>1 DEF FieldIndexToOffset
    <3> QED BY <3>1, <3>2 DEF FieldRecord
  <2>6. r = [p EXCEPT !.fields = list]
    BY <1>1, <1>5 DEF SortedById, at
  <2> HIDE DEF sorted
  <2>7. list \in Seq(FieldRecord) /\ Len(list) = n /\ DOMAIN list = 1..n
    <3>1. \A i \in 1..n : sorted(i) \in FieldRecord
      BY <2>5
    <3> QED BY <1>1, <3>1
  <2>8. \A i \in 1..n : list[i] = sorted(i)
    OBVIOUS
  <2> HIDE DEF list, r
  <2>9. /\ r \in Definition /\ r.fields = list /\ r.name = p.name /\ r.fixed = p.fixed
    BY <1>1, <2>6, <2>7 DEF Definition
  <2>10. SlotsOf(r)
    <3>1. {list[i].offset : i \in 1..n} = {FieldIndexToOffset(k) : k \in 0..(n - 1)}
      <4>1. \A k \in 0..(n - 1) : k + 1 \in 1..n /\ (k + 1) - 1 = k
        BY <1>1
      <4>2. \A i \in 1..n : i - 1 \in 0..(n - 1)
        BY <1>1
      <4>3. \A i \in 1..n : list[i].offset = FieldIndexToOffset(i - 1)
        BY <2>5, <2>8
      <4> QED BY <4>1, <4>2, <4>3
    <3>2. \A i \in 1..n : list[i].offset = FieldIndexToOffset(Id(list[i]))
      BY <2>4, <2>5, <2>8 DEF Id
    <3> QED BY <2>7, <2>9, <3>1, <3>2 DEF SlotsOf
  <2>11. Precedes(r)
    <3> SUFFICES ASSUME NEW i \in 1..n, HasTypeField(list[i].type)
                 PROVE  \E type \in {list[j] : j \in 1..n} :
                          /\ type.name = UnionTypeField(list[i].name)
                          /\ type.type = TypeFieldType(list[i].type)
                          /\ type.offset = list[i].offset - 2
      BY <2>7, <2>9 DEF Precedes
    <3> DEFINE a == at(i)
    <3>1. a \in 1..n /\ Id(p.fields[a]) = i - 1 /\ HasTypeField(p.fields[a].type)
      BY <2>4, <2>5, <2>8
    <3>2. /\ a > 1 /\ a - 1 \in 1..n
          /\ p.fields[a - 1].name = UnionTypeField(p.fields[a].name)
          /\ p.fields[a - 1].type = TypeFieldType(p.fields[a].type)
          /\ Id(p.fields[a - 1]) = i - 2
      <4>1. TypeAt(p, a) /\ Has(p.fields[a].attributes, "id")
        BY <1>3, <2>2, <3>1
      <4>2. a > 1 /\ a - 1 \in 1..n
        BY <1>1, <3>1, <4>1 DEF TypeAt
      <4>3. (i - 1) - 1 = i - 2
        BY <1>1
      <4> HIDE DEF a
      <4> QED BY <3>1, <4>1, <4>2, <4>3 DEF TypeAt
    <3> HIDE DEF a
    <3>3. i - 1 \in 1..n
      <4>1. f[a - 1] = i - 2
        BY <3>2
      <4>2. i - 2 \in 0..(n - 1)
        BY <2>3, <3>2, <4>1
      <4> QED BY <1>1, <4>2
    <3>4. at(i - 1) = a - 1
      <4>1. at(i - 1) \in 1..n /\ Id(p.fields[at(i - 1)]) = (i - 1) - 1
        BY <2>4, <3>3
      <4>2. (i - 1) - 1 = i - 2
        BY <1>1
      <4>3. f[at(i - 1)] = f[a - 1]
        BY <3>2, <4>1, <4>2
      <4>4. f \in [1..n -> 0..(n - 1)] /\ \A k \in 0..(n - 1) : \E j \in 1..n : f[j] = k
        BY <2>3
      <4>5. n \in Nat /\ a - 1 \in 1..n
        BY <1>1, <3>2
      <4> DEFINE x == at(i - 1)
                 y == a - 1
      <4> HIDE DEF f, x, y
      <4>6. x \in 1..n /\ y \in 1..n /\ f[x] = f[y]
        BY <4>1, <4>3, <4>5 DEF x, y
      <4>7. x = y
        BY <4>4, <4>5, <4>6, IdsDiffer
      <4> QED BY <4>7 DEF x, y
    <3>5. /\ list[i - 1].name = UnionTypeField(list[i].name)
          /\ list[i - 1].type = TypeFieldType(list[i].type)
      BY <2>5, <2>8, <3>2, <3>3, <3>4 DEF a
    <3>6. list[i - 1].offset = list[i].offset - 2
      <4>1. list[i - 1].offset = FieldIndexToOffset((i - 1) - 1)
        BY <2>5, <2>8, <3>3
      <4>2. list[i].offset = FieldIndexToOffset(i - 1)
        BY <2>5, <2>8
      <4> QED BY <1>1, <4>1, <4>2 DEF FieldIndexToOffset
    <3> QED BY <3>3, <3>5, <3>6
  <2>12. ~r.fixed
    BY <1>1, <2>9
  <2> QED BY <1>1, <2>9, <2>10, <2>11, <2>12 DEF r, p
<1> QED BY <1>4, <1>5

-----------------------------------------------------------------------------
(* The invariant.                                                          *)

FTypes ==
    /\ failed \in BOOLEAN
    /\ open = Nothing \/ (open \in Definition /\ open.name \notin DOMAIN structs)
    /\ AllDefined(structs)

\* The definition ParseDecl is in, and those it has ended.
Opened == open # Nothing =>
    /\ Tabled(open)
    /\ open.fixed => Laid(structs, open) /\ Fresh(open)
Closed == \A n \in DOMAIN structs :
    /\ Precedes(structs[n])
    /\ ~structs[n].fixed => SlotsOf(structs[n])
    /\ structs[n].fixed => Laid(structs, structs[n]) /\ structs[n].bytesize % structs[n].minalign = 0

FInv == FTypes /\ Opened /\ Closed

LEMMA FieldsStart == FieldsInit => FInv
<1> SUFFICES ASSUME FieldsInit PROVE FInv
  OBVIOUS
<1>1. DOMAIN structs = {}
  BY DEF FieldsInit
<1> QED BY <1>1 DEF FieldsInit, FInv, FTypes, Opened, Closed, AllDefined

\* An unknown name, an attribute that is none: the definition is not begun.
LEMMA StartKeeps ==
    ASSUME FieldsTyped, FInv, NEW header \in Headers, StartStruct(header)
    PROVE  FInv'
<1>1. CASE failed' = TRUE /\ UNCHANGED <<structs, open>>
  BY <1>1 DEF FInv, FTypes, Opened, Closed
<1>2. CASE open' = Empty(header) /\ UNCHANGED <<structs, failed>> /\ header.name \notin DOMAIN structs
  <2> DEFINE empty == Empty(header)
  <2>1. header \in [name : STRING, fixed : BOOLEAN, attributes : Seq(Attribute)]
    BY DEF FieldsTyped
  <2>2. /\ empty \in Definition /\ empty.name = header.name
        /\ empty.fields = <<>> /\ empty.fixed = header.fixed
    <3>1. 1 \in Alignments /\ <<>> \in Seq(FieldRecord) /\ 0 \in Nat
      BY DEF Alignments
    <3> QED BY <2>1, <3>1 DEF Empty, Definition
  <2> HIDE DEF empty
  <2>3. DOMAIN empty.fields = {} /\ Len(empty.fields) = 0
    BY <2>2
  <2>4. Tabled(empty) /\ Laid(structs, empty) /\ Fresh(empty)
    BY <2>3 DEF Tabled, InSlots, TypesBefore, Laid, Fresh
  <2>5. open' = empty /\ structs' = structs /\ failed' = failed
    BY <1>2 DEF empty
  <2> QED BY <1>2, <2>2, <2>4, <2>5 DEF FInv, FTypes, Opened, Closed
<1> QED BY <1>1, <1>2 DEF StartStruct

LEMMA FieldKeeps ==
    ASSUME FieldsTyped, FInv, NEW d \in Declarations, ParseField(d)
    PROVE  FInv'
<1>1. CASE failed' = TRUE /\ UNCHANGED <<structs, open>>
  BY <1>1 DEF FInv, FTypes, Opened, Closed
<1>2. CASE FieldAllowed(open, d) /\ open' = FieldAdded(open, d) /\ UNCHANGED <<structs, failed>>
  <2> DEFINE r == FieldAdded(open, d)
  <2>1. open # Nothing /\ open \in Definition /\ AllDefined(structs)
    BY DEF ParseField, FInv, FTypes
  <2>2. Sized(d)
    BY <2>1, InlineTypes, TypeFieldTypes DEF Sized, AllDefined
  <2>3. open.fixed => /\ ~HasTypeField(d.type)
                      /\ Known(structs, d.type) \/ d.type.of = open.name
    BY <1>2, AllowedInStruct
  <2>4. Parsed(open, d, r)
    BY <2>1, <2>2, <2>3, FieldAddedAppends
  <2> HIDE DEF r
  <2>5. r \in Definition /\ r.name = open.name /\ r.fixed = open.fixed
    BY <2>4 DEF Parsed
  <2>6. Tabled(r)
    BY <2>1, <2>2, <2>3, <2>4, ParsedTabled DEF FInv, Opened
  <2>7. open.fixed => Laid(structs, r) /\ Fresh(r)
    BY <2>1, <2>3, <2>4, ParsedLaid DEF FInv, Opened
  <2>8. open' = r /\ structs' = structs /\ failed' = failed
    BY <1>2 DEF r
  <2> QED BY <2>1, <2>5, <2>6, <2>7, <2>8 DEF FInv, FTypes, Opened, Closed
<1> QED BY <1>1, <1>2 DEF ParseField

LEMMA EndKeeps ==
    ASSUME FInv, EndDecl
    PROVE  FInv'
<1>1. CASE failed' = TRUE /\ UNCHANGED <<structs, open>>
  BY <1>1 DEF FInv, FTypes, Opened, Closed
<1>2. CASE /\ ForceAlignFits(open) /\ IdsFit(open)
           /\ structs' = [n \in DOMAIN structs \cup {open.name} |->
                          IF n = open.name THEN SortedById(Padded(open)) ELSE structs[n]]
           /\ open' = Nothing /\ UNCHANGED failed
  <2> DEFINE r == SortedById(Padded(open))
  <2>1. /\ open # Nothing /\ open \in Definition /\ AllDefined(structs)
        /\ open.name \notin DOMAIN structs
    BY DEF EndDecl, FInv, FTypes
  <2>2. /\ DOMAIN structs' = DOMAIN structs \cup {open.name}
        /\ structs'[open.name] = r
        /\ \A n \in DOMAIN structs : structs'[n] = structs[n]
    BY <1>2, <2>1
  <2>3. Grown(structs, structs')
    BY <2>2 DEF Grown
  <2>4. /\ r \in Definition /\ r.name = open.name /\ Precedes(r)
        /\ ~r.fixed => SlotsOf(r)
        /\ r.fixed => Laid(structs, r) /\ r.bytesize % r.minalign = 0
    <3>1. CASE open.fixed
      <4>1. /\ r \in Definition /\ r.name = open.name /\ r.fixed
            /\ Laid(structs, r) /\ r.bytesize % r.minalign = 0
        BY <1>2, <2>1, <3>1, ClosedLaid DEF FInv, Opened
      <4>2. \A i \in DOMAIN r.fields : ~HasTypeField(r.fields[i].type)
        <5>1. r = Padded(open)
          <6>1. Padded(open).fixed
            BY <1>2, <2>1, <3>1, PaddedFits
          <6> QED BY <6>1 DEF SortedById, HasIds
        <5>2. /\ DOMAIN open.fields = DOMAIN Padded(open).fields
              /\ \A i \in DOMAIN open.fields : Padded(open).fields[i].type = open.fields[i].type
          BY <1>2, <2>1, PaddedFits
        <5> HIDE DEF r
        <5> QED BY <2>1, <3>1, <5>1, <5>2 DEF FInv, Opened, Tabled
      <4> QED BY <4>1, <4>2 DEF Precedes
    <3>2. CASE ~open.fixed
      BY <1>2, <2>1, <3>2, ClosedTabled DEF FInv, Opened, Tabled
    <3> QED BY <3>1, <3>2
  <2> HIDE DEF r
  <2>5. FTypes'
    BY <1>2, <2>1, <2>2, <2>4 DEF FInv, FTypes, AllDefined
  <2>6. Opened'
    BY <1>2 DEF Opened
  <2>7. Closed'
    <3> SUFFICES ASSUME NEW n \in DOMAIN structs'
                 PROVE  /\ Precedes(structs'[n])
                        /\ ~structs'[n].fixed => SlotsOf(structs'[n])
                        /\ structs'[n].fixed => /\ Laid(structs', structs'[n])
                                            /\ structs'[n].bytesize % structs'[n].minalign = 0
      BY DEF Closed
    <3>1. CASE n = open.name
      BY <2>2, <2>3, <2>4, <3>1, LaidStays
    <3>2. CASE n # open.name
      <4>1. n \in DOMAIN structs /\ structs'[n] = structs[n]
        BY <2>2, <3>2
      <4> QED BY <2>3, <4>1, LaidStays DEF FInv, Closed
    <3> QED BY <3>1, <3>2
  <2> QED BY <2>5, <2>6, <2>7 DEF FInv
<1> QED BY <1>1, <1>2 DEF EndDecl

LEMMA FieldsStep ==
    ASSUME FieldsTyped
    PROVE  FInv /\ [FieldsNext]_fieldsVars => FInv'
<1> SUFFICES ASSUME FInv, [FieldsNext]_fieldsVars PROVE FInv'
  OBVIOUS
<1>1. CASE UNCHANGED fieldsVars
  BY <1>1 DEF fieldsVars, FInv, FTypes, Opened, Closed
<1>2. CASE FieldsNext
  BY <1>2, StartKeeps, FieldKeeps, EndKeeps DEF FieldsNext
<1> QED BY <1>1, <1>2

\* Sizes, offsets and alignments are those of a layout, whatever the order, the
\* attributes and the errors of the declarations: an alignment is a power of
\* two up to the largest.
THEOREM FieldsTypeOK ==
    ASSUME FieldsTyped
    PROVE  FieldsSpec => []DefsTypeOK
<1>1. FInv => DefsTypeOK
  <2>1. \A def \in Definition : IsDef(def)
    <3> SUFFICES ASSUME NEW def \in Definition PROVE IsDef(def)
      OBVIOUS
    <3>1. /\ def.fixed \in BOOLEAN /\ def.has_key \in BOOLEAN
          /\ def.minalign \in {1, 2, 4, 8, 16} /\ def.bytesize \in Nat
          /\ def.fields \in Seq(FieldRecord)
      BY DEF Definition, Alignments
    <3>2. \A i \in DOMAIN def.fields : def.fields[i] \in FieldRecord
      BY <3>1
    <3> QED BY <3>1, <3>2 DEF IsDef, FieldRecord
  <2> QED BY <2>1 DEF FInv, FTypes, AllDefined, DefsTypeOK
<1> QED BY <1>1, FieldsStart, FieldsStep, PTL DEF FieldsSpec

\* Every struct that does not contain itself is laid out as C lays it out, with
\* structs in it, forced alignments, and definitions before and after it.
THEOREM FieldsStructLaidOut ==
    ASSUME FieldsTyped
    PROVE  FieldsSpec => []StructLaidOut
<1>1. FInv => StructLaidOut
  <2> SUFFICES ASSUME FInv, NEW n \in DOMAIN structs, structs[n].fixed, ~ContainsItself(n)
               PROVE  /\ structs[n].bytesize % structs[n].minalign = 0
                      /\ \A i \in DOMAIN structs[n].fields :
                           LET field == structs[n].fields[i] IN
                           /\ field.offset % InlineAlignment(field.type) = 0
                           /\ structs[n].minalign % InlineAlignment(field.type) = 0
                           /\ field.padding >= 0
                           /\ EndOf(field) = IF i = Len(structs[n].fields) THEN structs[n].bytesize
                                             ELSE structs[n].fields[i + 1].offset
    BY DEF StructLaidOut
  <2> DEFINE def == structs[n]
  <2>1. AllDefined(structs) /\ def \in Definition /\ def.name = n
    BY DEF FInv, FTypes, AllDefined
  <2>2. Laid(structs, def) /\ def.bytesize % def.minalign = 0
    BY DEF FInv, Closed
  <2>3. OthersOnly(def)
    BY <2>1 DEF ContainsItself, OthersOnly
  <2> HIDE DEF def
  <2>4. ASSUME NEW i \in DOMAIN def.fields
        PROVE  LET field == def.fields[i] IN
               /\ field.offset % InlineAlignment(field.type) = 0
               /\ def.minalign % InlineAlignment(field.type) = 0
               /\ field.padding >= 0
               /\ EndOf(field) = IF i = Len(def.fields) THEN def.bytesize
                                 ELSE def.fields[i + 1].offset
    <3> DEFINE field == def.fields[i]
    <3>1. field \in FieldRecord
      BY <2>1 DEF Definition
    <3>2. field.type \in Types /\ field.padding \in Nat
      BY <3>1 DEF FieldRecord
    <3>3. LaidAt(structs, def, i)
      BY <2>2, <2>3 DEF Laid
    <3>4. Known(structs, field.type)
      BY <3>3 DEF LaidAt
    <3>5. /\ InlineSize(field.type) = Bytes(structs, field.type)
          /\ InlineAlignment(field.type) = Align(structs, field.type)
      BY <2>1, <3>2, <3>4, KnownSizes
    <3> QED BY <3>2, <3>3, <3>5 DEF LaidAt, EndOf
  <2> QED BY <2>2, <2>4 DEF def
<1> QED BY <1>1, FieldsStart, FieldsStep, PTL DEF FieldsSpec

\* Whatever ids the fields of a table are given, and in whatever order, each has
\* the slot its id says, they fill the slots from the first on, and the type of
\* a union is in the slot before it.
THEOREM FieldsSlotsById ==
    ASSUME FieldsTyped
    PROVE  FieldsSpec => []SlotsById
<1>1. FInv => SlotsById
  BY DEF FInv, Closed, SlotsOf, Precedes, SlotsById, SlotsOfIds, TypePrecedesUnion
<1> QED BY <1>1, FieldsStart, FieldsStep, PTL DEF FieldsSpec

=============================================================================
