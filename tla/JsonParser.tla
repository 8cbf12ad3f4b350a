----------------------------- MODULE JsonParser -----------------------------
(***************************************************************************)
(* JSON in idl_parser.cpp and back in idl_gen_text.cpp.  ParseTable,       *)
(* ParseVector and ParseAnyValue call each other; `calls` are those that   *)
(* have not returned.  They share one field_stack_, of which each has the  *)
(* last entries.  What they build is given to FlatBufferBuilder, of which  *)
(* the model keeps the objects: an offset is a position in `built`.        *)
(*                                                                         *)
(* When a document is parsed, GenerateText prints it and the text is       *)
(* parsed again.                                                           *)
(***************************************************************************)
EXTENDS Integers, Sequences, FiniteSets

CONSTANTS
    Defs,       \* name -> [fixed, fields]: fields in the order of their slots
    EnumVals,   \* enumeration -> name of a value -> value
    Members,    \* union -> names of its tables, from value 1 on
    Root,       \* root_struct_def_
    Documents,  \* what is parsed: trees [t, n, s, words, kids]
    strict_json, skip_unexpected_fields_in_json,
    output_default_scalars_in_json, output_enum_identifiers

\* A field: [name, base, elem, of, bits, default, slot].  `of` names its table,
\* struct, union or enumeration, or that of the elements of a vector, whose base
\* is elem.
\* A token: [tok, s, n, words].  `words` are the identifiers in a string, a
\* string without is a number.

VARIABLES
    document,
    text,           \* the tokens
    at,             \* the position of token_
    calls,          \* the last one last
    field_stack_,   \* [val, field]
    built,          \* builder_
    outcome,        \* "parsing", "error" or the offset of the root as "done"
    first           \* what was built of the document; <<>> until then

jsonVars == <<document, text, at, calls, field_stack_, built, outcome, first>>

-----------------------------------------------------------------------------
(* Tokens *)

Token(tok, s, n) == [tok |-> tok, s |-> s, n |-> n, words |-> <<>>]
Punct(tok) == Token(tok, "", 0)
Eof == Punct("eof")
TokenAt(p) == IF p <= Len(text) THEN text[p] ELSE Eof
token_ == TokenAt(at)
Is(tok) == token_.tok = tok
IsName(t) == t.tok = "string" \/ (t.tok = "name" /\ ~strict_json)

\* SkipAnyJsonValue, SkipJsonObject and SkipJsonArray: the position behind the
\* value at p, 0 for an error.
RECURSIVE SkipValue(_), SkipMembers(_, _), SkipItems(_)
SkipValue(p) ==
    CASE TokenAt(p).tok = "{" -> SkipMembers(p + 1, TRUE)
      [] TokenAt(p).tok = "[" -> SkipItems(p + 1)
      [] TokenAt(p).tok \in {"string", "int", "float"} -> p + 1
      [] OTHER -> 0
SkipMembers(p, none) ==
    IF (~strict_json \/ none) /\ TokenAt(p).tok = "}" THEN p + 1
    ELSE IF ~IsName(TokenAt(p)) \/ TokenAt(p + 1).tok # ":" THEN 0
    ELSE LET q == SkipValue(p + 2) IN
         IF q = 0 THEN 0
         ELSE IF TokenAt(q).tok = "}" THEN q + 1
         ELSE IF TokenAt(q).tok = "," THEN SkipMembers(q + 1, FALSE) ELSE 0
SkipItems(p) ==
    IF TokenAt(p).tok = "]" THEN p + 1
    ELSE LET q == SkipValue(p) IN
         IF q = 0 THEN 0
         ELSE IF TokenAt(q).tok = "]" THEN q + 1
         ELSE IF TokenAt(q).tok = "," THEN SkipItems(q + 1) ELSE 0

-----------------------------------------------------------------------------
(* Values *)

Number(n) == [n |-> n, ref |-> 0, inline |-> <<>>]
Ref(o) == [n |-> 0, ref |-> o, inline |-> <<>>]
Inline(vals) == [n |-> 0, ref |-> 0, inline |-> vals]

IsInteger(base) == base \in {"utype", "ubyte", "byte", "short", "int"}
IsScalar(base) == IsInteger(base) \/ base = "float"
Pow2(k) == 2 ^ k

\* CheckBitsFit, and the cast to the type of the field.
BitsFit(n, bits) == n < Pow2(bits) /\ n >= -Pow2(bits)
Cast(n, field) ==
    LET low == n % Pow2(field.bits) IN
    IF field.base \in {"byte", "short", "int"} /\ low >= Pow2(field.bits - 1)
    THEN low - Pow2(field.bits) ELSE low

\* ParseEnumFromString: identifiers are or-ed, qualified where the field is
\* not of an enumeration.  (Or is a sum here: flags are given once.)
EnumOf(word, field) == IF field.of # "" THEN field.of ELSE word.enum
WordFits(word, field) ==
    /\ EnumOf(word, field) \in DOMAIN EnumVals
    /\ field.of # "" => word.enum = ""
    /\ word.val \in DOMAIN EnumVals[EnumOf(word, field)]
WordValue(word, field) == EnumVals[EnumOf(word, field)][word.val]
FromWords(words, field) ==
    LET Sum[i \in 0..Len(words)] ==
          IF i = 0 THEN 0 ELSE Sum[i - 1] + WordValue(words[i], field)
    IN Sum[Len(words)]

\* ParseSingleValue of a scalar field.
SingleFits(t, field) ==
    \/ t.words # <<>> /\ IsInteger(field.base) /\ \A i \in DOMAIN t.words : WordFits(t.words[i], field)
    \/ t.words = <<>> /\ t.tok \in {"string", "int"} /\ t.s = ""
    \/ t.tok = "float" /\ field.base = "float"
SingleValue(t, field) == IF t.words = <<>> THEN t.n ELSE FromWords(t.words, field)

-----------------------------------------------------------------------------
(* The calls: `n` counts the entries of field_stack_ that are a call's own, *)
(* `then` says what comes next: the "start" of a member or element, its    *)
(* "value", or what is "next" after it.                                    *)

NoField == [name |-> "", base |-> "none", elem |-> "none", of |-> "", bits |-> 0,
            default |-> 0, slot |-> 0]
Element(field) == [NoField EXCEPT !.base = field.elem, !.of = field.of, !.bits = field.bits]
TableCall(def) == [kind |-> "table", def |-> def, elem |-> NoField, n |-> 0,
                   field |-> NoField, then |-> "start"]
VectorCall(field) == [kind |-> "vector", def |-> "", elem |-> Element(field), n |-> 0,
                      field |-> NoField, then |-> "start"]
Top == calls[Len(calls)]
Below == SubSeq(calls, 1, Len(calls) - 1)
Set(call) == calls' = Append(Below, call)

Parsing == outcome = "parsing"
Error == outcome' = "error" /\ UNCHANGED <<document, text, at, calls, field_stack_, built, first>>
Keep == UNCHANGED <<document, text, built, outcome, first>>

Last(stack, n) == SubSeq(stack, Len(stack) - n + 1, Len(stack))
Rest(stack, n) == SubSeq(stack, 1, Len(stack) - n)

Inserted(stack, n, entry) ==
    LET k == CHOOSE k \in (Len(stack) - n)..Len(stack) :
               /\ k = Len(stack) - n \/ stack[k].field.slot < entry.field.slot
               /\ \A j \in (k + 1)..Len(stack) : stack[j].field.slot >= entry.field.slot
    IN SubSeq(stack, 1, k) \o <<entry>> \o SubSeq(stack, k + 1, Len(stack))

\* A value goes to the last of the calls in `chain`: ParseTable refuses a field
\* set twice.
Give(val, chain, entries) ==
    IF chain = <<>>
    THEN outcome' = "done" /\ calls' = <<>> /\ field_stack_' = entries
    ELSE LET call == chain[Len(chain)]
             own == Last(entries, call.n)
             entry == [val |-> val, field |-> call.field] IN
         IF call.kind = "table" /\ \E i \in DOMAIN own : own[i].field = call.field
         THEN outcome' = "error" /\ UNCHANGED <<calls, field_stack_>>
         ELSE /\ calls' = [chain EXCEPT ![Len(chain)].n = @ + 1, ![Len(chain)].then = "next"]
              /\ field_stack_' = IF call.kind = "table" THEN Inserted(entries, call.n, entry)
                                 ELSE Append(entries, entry)
              /\ UNCHANGED outcome

-----------------------------------------------------------------------------
(* ParseTable and ParseVector: up to a value *)

MayClose == Top.then = "next" \/ (Top.then = "start" /\ (~strict_json \/ Top.n = 0))
Closes == MayClose /\ Is(IF Top.kind = "table" THEN "}" ELSE "]")

FieldsOf(def) == {Defs[def].fields[i] : i \in DOMAIN Defs[def].fields}
Lookup(def, name) == {f \in FieldsOf(def) : f.name = name}

Member ==
    /\ Parsing /\ Top.kind = "table" /\ Top.then = "start" /\ ~Closes
    /\ LET found == Lookup(Top.def, token_.s)
           skipped == IF found = {}
                      THEN IF skip_unexpected_fields_in_json THEN SkipValue(at + 2) ELSE 0
                      ELSE IF TokenAt(at + 2).tok = "null" THEN at + 3 ELSE 0 IN
       IF ~IsName(token_) \/ TokenAt(at + 1).tok # ":" \/ (found = {} /\ skipped = 0)
       THEN Error
       ELSE /\ at' = IF skipped # 0 THEN skipped ELSE at + 2
            /\ Set(IF skipped # 0 THEN [Top EXCEPT !.then = "next"]
                   ELSE [Top EXCEPT !.then = "value", !.field = CHOOSE f \in found : TRUE])
            /\ UNCHANGED field_stack_ /\ Keep

Comma ==
    /\ Parsing /\ Top.then = "next" /\ ~Closes
    /\ IF Is(",")
       THEN at' = at + 1 /\ Set([Top EXCEPT !.then = "start"]) /\ UNCHANGED field_stack_ /\ Keep
       ELSE Error

-----------------------------------------------------------------------------
(* ParseAnyValue *)

AtValue == Parsing /\ (Top.then = "value" \/ (Top.kind = "vector" /\ Top.then = "start" /\ ~Closes))
Wanted == IF Top.kind = "table" THEN Top.field ELSE Top.elem

ScalarValue ==
    /\ AtValue /\ IsScalar(Wanted.base)
    /\ IF SingleFits(token_, Wanted)
       THEN /\ at' = at + 1
            /\ Give(Number(SingleValue(token_, Wanted)), calls, field_stack_)
            /\ UNCHANGED <<document, text, built, first>>
       ELSE Error

Object(kind, def, s, items) == [kind |-> kind, def |-> def, s |-> s, items |-> items]
StringValue ==
    /\ AtValue /\ Wanted.base = "string"
    /\ IF Is("string")
       THEN /\ at' = at + 1
            /\ built' = Append(built, Object("string", "", token_.s, <<>>))
            /\ Give(Ref(Len(built) + 1), calls, field_stack_)
            /\ UNCHANGED <<document, text, first>>
       ELSE Error

Enter(tok, call) ==
    IF Is(tok) THEN at' = at + 1 /\ calls' = Append(calls, call) /\ UNCHANGED field_stack_ /\ Keep
    ELSE Error
StructValue == AtValue /\ Wanted.base = "struct" /\ Enter("{", TableCall(Wanted.of))
VectorValue == AtValue /\ Wanted.base = "vector" /\ Enter("[", VectorCall(Wanted))

TypeEntries == {i \in DOMAIN Last(field_stack_, Top.n) :
                  LET field == Last(field_stack_, Top.n)[i].field IN
                  field.base = "utype" /\ field.of = Wanted.of}
TypeField == CHOOSE f \in FieldsOf(Top.def) : f.name = Wanted.name \o "_type"
Behind == SkipValue(at)
TypeFollows ==
    /\ Behind # 0 /\ TokenAt(Behind).tok = ","
    /\ TokenAt(Behind + 1).tok \in {"string", "name"} /\ TokenAt(Behind + 1).s = TypeField.name
    /\ TokenAt(Behind + 2).tok = ":"
    /\ SingleFits(TokenAt(Behind + 3), TypeField)
UnionType ==
    IF TypeEntries # {}
    THEN Last(field_stack_, Top.n)[CHOOSE i \in TypeEntries : \A j \in TypeEntries : j <= i].val.n
    ELSE IF TypeFollows THEN SingleValue(TokenAt(Behind + 3), TypeField) ELSE 0

UnionValue ==
    /\ AtValue /\ Wanted.base = "union"
    /\ IF UnionType \in DOMAIN Members[Wanted.of]
       THEN Enter("{", TableCall(Members[Wanted.of][UnionType]))
       ELSE Error

-----------------------------------------------------------------------------
(* ParseTable and ParseVector: the end *)

Stored(entry, field) == IF IsScalar(field.base) THEN Number(Cast(entry.val.n, field)) ELSE entry.val
AllFit(entries, field(_)) ==
    \A i \in DOMAIN entries :
      IsScalar(field(i).base) => BitsFit(entries[i].val.n, field(i).bits)

\* AddElement leaves out a field that has its default.
Written(entries) ==
    {i \in DOMAIN entries : IsScalar(entries[i].field.base) =>
                              Stored(entries[i], entries[i].field).n # entries[i].field.default}
TableItems(entries) ==
    [name \in {entries[i].field.name : i \in Written(entries)} |->
       LET i == CHOOSE i \in Written(entries) : entries[i].field.name = name IN
       Stored(entries[i], entries[i].field)]

EndTable ==
    /\ Parsing /\ Top.kind = "table" /\ Closes
    /\ LET own == Last(field_stack_, Top.n)
           OwnField(i) == own[i].field IN
       IF \/ Defs[Top.def].fixed /\ Top.n # Len(Defs[Top.def].fields)
          \/ ~AllFit(own, OwnField)
       THEN Error
       ELSE /\ at' = at + 1
            /\ IF Defs[Top.def].fixed
               THEN /\ Give(Inline([i \in DOMAIN own |-> Stored(own[i], own[i].field)]),
                            Below, Rest(field_stack_, Top.n))
                    /\ UNCHANGED built
               ELSE /\ Give(Ref(Len(built) + 1), Below, Rest(field_stack_, Top.n))
                    /\ built' = Append(built, Object("table", Top.def, "", TableItems(own)))
            /\ UNCHANGED <<document, text, first>>

EndVector ==
    /\ Parsing /\ Top.kind = "vector" /\ Closes
    /\ LET own == Last(field_stack_, Top.n)
           Elem(i) == Top.elem IN
       IF ~AllFit(own, Elem) THEN Error
       ELSE /\ at' = at + 1
            /\ Give(Ref(Len(built) + 1), Below, Rest(field_stack_, Top.n))
            /\ built' = Append(built, Object("vector", "", "",
                                        [i \in DOMAIN own |-> Stored(own[i], Top.elem)]))
            /\ UNCHANGED <<document, text, first>>

-----------------------------------------------------------------------------
(* GenerateText *)

\* Mutant: no quotes, whatever the parser was told.
OutputPlain(name) == Token("name", name, 0)
OutputIdentifier(name) == Token(IF strict_json THEN "string" ELSE "name", name, 0)
Words(t, word) == [t EXCEPT !.words = <<[enum |-> "", val |-> word]>>]

ReverseLookup(enum, n) == {v \in DOMAIN EnumVals[enum] : EnumVals[enum][v] = n}
PrintNumber(n, field) ==
    IF /\ field.of \in DOMAIN EnumVals /\ output_enum_identifiers
       /\ ReverseLookup(field.of, n) # {} /\ (field.base = "utype" => n # 0)
    THEN LET v == CHOOSE v \in ReverseLookup(field.of, n) : TRUE IN
         <<Words(OutputIdentifier(v), v)>>
    ELSE <<Token("int", "", n)>>

Joined(parts) ==    \* separated by commas
    LET J[i \in 0..Len(parts)] ==
          IF i = 0 THEN <<>> ELSE IF i = 1 THEN parts[1]
          ELSE J[i - 1] \o <<Punct(",")>> \o parts[i]
    IN J[Len(parts)]

RECURSIVE PrintValue(_, _, _), GenFields(_, _, _, _)
\* GenStruct from field i on: get maps a field to the set of its value, and
\* union_sd is the table the last type field said.
GenFields(def, i, get, union_sd) ==
    IF i > Len(Defs[def].fields) THEN <<>>
    ELSE LET fd == Defs[def].fields[i]
             present == get[fd.name] # {}
             val == CHOOSE v \in get[fd.name] : TRUE
             output_anyway == output_default_scalars_in_json /\ IsScalar(fd.base)
             next == IF fd.base = "utype" /\ present THEN Members[fd.of][val.n] ELSE union_sd
         IN (IF present
             THEN <<(<<OutputIdentifier(fd.name), Punct(":")>> \o PrintValue(val, fd, union_sd))>>
             ELSE IF output_anyway
             THEN <<(<<OutputIdentifier(fd.name), Punct(":"), Token("int", "", fd.default)>>)>>
             ELSE <<>>)
            \o GenFields(def, i + 1, get, next)
GenStruct(def, get) == <<Punct("{")>> \o Joined(GenFields(def, 1, get, "")) \o <<Punct("}")>>
TableGet(object) ==
    [name \in {f.name : f \in FieldsOf(object.def)} |->
       IF name \in DOMAIN object.items THEN {object.items[name]} ELSE {}]
StructGet(def, vals) ==
    [name \in {f.name : f \in FieldsOf(def)} |->
       {vals[CHOOSE i \in DOMAIN vals : Defs[def].fields[i].name = name]}]
PrintValue(val, field, union_sd) ==
    CASE IsScalar(field.base) -> PrintNumber(val.n, field)
      [] field.base = "string" -> <<Token("string", built[val.ref].s, 0)>>
      [] field.base = "union" -> GenStruct(union_sd, TableGet(built[val.ref]))
      [] field.base = "struct" ->
           GenStruct(field.of, IF Defs[field.of].fixed THEN StructGet(field.of, val.inline)
                               ELSE TableGet(built[val.ref]))
      [] field.base = "vector" ->
           <<Punct("[")>>
           \o Joined([i \in DOMAIN built[val.ref].items |->
                        PrintValue(built[val.ref].items[i], Element(field), "")])
           \o <<Punct("]")>>

GenerateText ==
    /\ outcome = "done" /\ first = <<>>
    /\ text' = GenStruct(Root, TableGet(built[Len(built)]))
    /\ first' = built
    /\ at' = 2 /\ calls' = <<TableCall(Root)>> /\ field_stack_' = <<>> /\ built' = <<>>
    /\ outcome' = "parsing"
    /\ UNCHANGED document

-----------------------------------------------------------------------------
RECURSIVE Tokens(_)
Tokens(tree) ==
    CASE tree.t = "obj" ->
           <<Punct("{")>>
           \o Joined([i \in DOMAIN tree.kids |->
                        <<tree.kids[i].name, Punct(":")>> \o Tokens(tree.kids[i].val)])
           \o (IF tree.n = 1 THEN <<Punct(","), Punct("}")>> ELSE <<Punct("}")>>)
      [] tree.t = "arr" -> <<Punct("[")>> \o Joined([i \in DOMAIN tree.kids |-> Tokens(tree.kids[i].val)])
                           \o <<Punct("]")>>
      [] OTHER -> <<[tok |-> tree.t, s |-> tree.s, n |-> tree.n, words |-> tree.words]>>

Init ==
    /\ document \in Documents
    /\ text = Tokens(document)
    /\ at = 2 /\ calls = <<TableCall(Root)>> /\ field_stack_ = <<>> /\ built = <<>>
    /\ outcome = "parsing" /\ first = <<>>

Next == \/ Member \/ Comma
        \/ ScalarValue \/ StringValue \/ StructValue \/ VectorValue \/ UnionValue
        \/ EndTable \/ EndVector
        \/ GenerateText

Spec == Init /\ [][Next]_jsonVars

-----------------------------------------------------------------------------
(* Properties *)

\* The entries of field_stack_ are those the open calls count as their own, in
\* the order of the calls and, in one table, of the offsets.
StackShared ==
    Parsing =>
      LET Base[k \in 0..Len(calls)] == IF k = 0 THEN 0 ELSE Base[k - 1] + calls[k].n IN
      /\ Len(field_stack_) = Base[Len(calls)]
      /\ \A k \in DOMAIN calls : calls[k].kind = "table" =>
           \A i, j \in (Base[k - 1] + 1)..Base[k] :
             /\ field_stack_[i].field \in FieldsOf(calls[k].def)
             /\ i < j => field_stack_[i].field.slot < field_stack_[j].field.slot

\* What a document means, and what was built: nothing is said of what has its
\* default.
Content(k, n, s, c) == [k |-> k, n |-> n, s |-> s, c |-> c]
RECURSIVE Meaning(_, _, _), Read(_, _, _, _)
MeaningOfTable(tree, def) ==
    LET Kids(f) == {i \in DOMAIN tree.kids :
                      tree.kids[i].name.s = f.name /\ tree.kids[i].val.t # "null"}
        Value(f) == tree.kids[CHOOSE i \in Kids(f) : TRUE].val
        says == {f \in FieldsOf(def) :
                   /\ Kids(f) # {}
                   /\ (IsScalar(f.base) /\ ~Defs[def].fixed) => SingleValue(Value(f), f) # f.default}
        UnionDef(f) == LET t == CHOOSE g \in FieldsOf(def) : g.name = f.name \o "_type" IN
                       Members[f.of][SingleValue(Value(t), t)]
    IN Content(def, 0, "", [name \in {f.name : f \in says} |->
         LET f == CHOOSE f \in says : f.name = name IN
         Meaning(Value(f), f, IF f.base = "union" THEN UnionDef(f) ELSE f.of)])
Meaning(tree, field, def) ==
    CASE IsScalar(field.base) -> Content("number", SingleValue(tree, field), "", <<>>)
      [] field.base = "string" -> Content("string", 0, tree.s, <<>>)
      [] field.base \in {"struct", "union"} -> MeaningOfTable(tree, def)
      [] field.base = "vector" ->
           Content("vector", 0, "", [i \in DOMAIN tree.kids |->
                                       Meaning(tree.kids[i].val, Element(field), field.of)])
ReadTable(objects, o) ==
    Content(objects[o].def, 0, "", [name \in DOMAIN objects[o].items |->
      LET f == CHOOSE f \in FieldsOf(objects[o].def) : f.name = name IN
      Read(objects, objects[o].items[name], f, f.of)])
Read(objects, val, field, def) ==
    CASE IsScalar(field.base) -> Content("number", val.n, "", <<>>)
      [] field.base = "string" -> Content("string", 0, objects[val.ref].s, <<>>)
      [] field.base = "union" \/ (field.base = "struct" /\ ~Defs[def].fixed) ->
           ReadTable(objects, val.ref)
      [] field.base = "struct" /\ Defs[def].fixed ->
           Content(def, 0, "", [name \in {f.name : f \in FieldsOf(def)} |->
             LET i == CHOOSE i \in DOMAIN Defs[def].fields : Defs[def].fields[i].name = name IN
             Read(objects, val.inline[i], Defs[def].fields[i], Defs[def].fields[i].of)])
      [] field.base = "vector" ->
           Content("vector", 0, "", [i \in DOMAIN objects[val.ref].items |->
             Read(objects, objects[val.ref].items[i], Element(field), field.of)])

\* What is accepted is built as it was written, whatever the order of the
\* members, where types of unions are and what is skipped on the way.
BuiltAsWritten ==
    (outcome = "done" /\ first = <<>>) =>
      ReadTable(built, Len(built)) = MeaningOfTable(document, Root)

\* What GenerateText prints is accepted and builds the same again.
TextParsesBack ==
    (first # <<>> /\ ~Parsing) =>
      outcome = "done" /\ ReadTable(built, Len(built)) = ReadTable(first, Len(first))

\* "For a field foo, you must add a field foo_type": a union is of the type its
\* own type field says, not that of another union beside it.
UnionsOfTheirType ==
    \A o \in DOMAIN built : built[o].kind = "table" =>
      \A f \in FieldsOf(built[o].def) :
        (f.base = "union" /\ f.name \in DOMAIN built[o].items
           /\ f.name \o "_type" \in DOMAIN built[o].items) =>
          built[built[o].items[f.name].ref].def = Members[f.of][built[o].items[f.name \o "_type"].n]

=============================================================================
