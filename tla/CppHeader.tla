----------------------------- MODULE CppHeader -----------------------------
(***************************************************************************)
(* CppGenerator: what was parsed, with the names and the order SchemaNames *)
(* gives it, is written as a C++ header: forward declarations, enums,      *)
(* structs, tables, what follows the tables, verifiers of unions and the   *)
(* functions for the root type, in namespaces that are opened and closed   *)
(* on the way.  The text is the sequence of these pieces.                  *)
(***************************************************************************)
EXTENDS SchemaNames, SequencesExt

CONSTANTS
    HeaderName,     \* the base name of the schema
    IncludeNames    \* the base names of schemas it includes

VARIABLES
    included,       \* base names of included_files_
    generated,      \* definitions and enums that are marked as generated
    comes,          \* those -> the base name of the file they are of
    cur,            \* cur_name_space_
    todo,           \* pieces still to be generated
    text,           \* the header
    saved

\* A definition is known by its number, an enum by its qualified name.
Def(d)  == [enum |-> FALSE, is |-> d, name |-> <<>>]
Enum(e) == [enum |-> TRUE, is |-> 0, name |-> e]
SpaceOf(x) == IF x.enum THEN Front(x.name) ELSE def[x.is].namespace
Null == [null |-> TRUE, components |-> <<>>]
Space(x) == [null |-> FALSE, components |-> SpaceOf(x)]

-----------------------------------------------------------------------------
(* The parse.  What an included file defines is marked when it ends, and   *)
(* the file that includes it goes on without a namespace.                  *)

Everything == {Def(vec[i]) : i \in DOMAIN vec} \cup {Enum(e) : e \in DOMAIN enums}
MarkGenerated == generated' = Everything

ParseFile ==
    /\ Next
    /\ UNCHANGED <<included, generated, comes, cur, todo, text, saved>>

\* What was parsed since the last one was an included file.
IncludeEnds(name) ==
    /\ state = "parsing" /\ inside = NoOne
    /\ included' = included \cup {name}
    /\ IF NoneReferencedOnly /\ UnionElementsAreTables
       THEN /\ MarkGenerated
            /\ comes' = [x \in Everything |-> IF x \in generated THEN comes[x] ELSE name]
            /\ namespace' = <<>>
            /\ UNCHANGED state
       ELSE /\ state' = "failed"
            /\ UNCHANGED <<generated, comes, namespace>>
    /\ UNCHANGED <<dict, vec, def, enums, root, services, inside, uses, step>>
    /\ UNCHANGED <<cur, todo, text, saved>>

-----------------------------------------------------------------------------
(* Namespaces of the header.  Two of the same components are not told      *)
(* apart: between them nothing is closed or opened.                        *)

\* The longest common prefix.
CommonPrefix(old, new) == Len(LongestCommonPrefix({old, new}))

Open(part)  == [piece |-> "open", part |-> part]
Close(part) == [piece |-> "close", part |-> part]
SetNameSpace(ns) ==
    LET old == cur.components
        new == ns.components
        common == CommonPrefix(old, new)
    IN  [j \in 1 .. Len(old) - common |-> Close(old[Len(old) + 1 - j])]
        \o [j \in 1 .. Len(new) - common |-> Open(new[common + j])]

-----------------------------------------------------------------------------
(* The pieces, in order.                                                   *)

\* GenIncludeDependencies: not the header of its own name.
GenIncludeDependencies == included \ {HeaderName}

Piece(kind, x) == [piece |-> kind, of |-> x]

\* Each loop goes over all definitions, or over all enums in the order they were
\* declared in ...
OfDefs(kind)  == [i \in DOMAIN vec |-> Piece(kind, Def(vec[i]))]
OfEnums(kind) == [i \in 1 .. Cardinality(DOMAIN enums) |->
                     Piece(kind, Enum(CHOOSE e \in DOMAIN enums : enums[e].at = i))]
RootPieces == IF root = 0 THEN <<>> ELSE <<Piece("root", Def(root))>>

\* Mutant: what follows a table comes right after it.
PiecesInOnePass ==
    OfDefs("forward") \o OfEnums("enum") \o OfDefs("struct")
    \o [i \in 1 .. 2 * Len(vec) |-> Piece(IF i % 2 = 1 THEN "table" ELSE "post",
                                          Def(vec[(i + 1) \div 2]))]
    \o OfEnums("verifier") \o RootPieces
Pieces ==
    OfDefs("forward") \o OfEnums("enum") \o OfDefs("struct") \o OfDefs("table")
    \o OfDefs("post") \o OfEnums("verifier") \o RootPieces

\* ... and leaves out what it is not about, and what an included header has.
LeftOut(p) ==
    CASE p.piece = "root"     -> FALSE
      [] p.piece = "struct"   -> p.of \in generated \/ ~def[p.of.is].fixed
      [] p.piece \in {"table", "post"} -> p.of \in generated \/ def[p.of.is].fixed
      [] p.piece = "verifier" -> p.of \in generated \/ ~enums[p.of.name].is_union
      [] OTHER                -> p.of \in generated

IsEverythingGenerated == Everything \subseteq generated

Start ==
    /\ state = "done" /\ ~saved /\ todo = <<>> /\ text = <<>> /\ ~IsEverythingGenerated
    /\ todo' = Append(Pieces, Piece("end", Null))
    /\ UNCHANGED <<namesVars, included, generated, comes, cur, text, saved>>

Generate ==
    /\ todo # <<>> /\ Head(todo).piece # "end"
    /\ LET ns == Space(Head(todo).of)
       IN  IF LeftOut(Head(todo)) THEN UNCHANGED <<text, cur>>
           ELSE /\ text' = text \o Append(SetNameSpace(ns), Head(todo))
                /\ cur' = ns
    /\ todo' = Tail(todo)
    /\ UNCHANGED <<namesVars, included, generated, comes, saved>>

Finish ==
    /\ todo # <<>> /\ Head(todo).piece = "end"
    /\ text' = text \o SetNameSpace(Null)
    /\ cur' = Null /\ todo' = <<>> /\ saved' = TRUE
    /\ UNCHANGED <<namesVars, included, generated, comes>>

CppInit ==
    /\ Init /\ included = {} /\ generated = {} /\ comes = << >>
    /\ cur = Null /\ todo = <<>> /\ text = <<>> /\ saved = FALSE
CppNext ==
    \/ ParseFile
    \/ \E name \in IncludeNames : IncludeEnds(name)
    \/ Start \/ Generate \/ Finish

CppSpec ==
    CppInit /\ [][CppNext]_<<namesVars, included, generated, comes, cur, todo, text, saved>>

-----------------------------------------------------------------------------
(* Properties.                                                             *)

\* The namespaces open after the first n pieces.
OpenAt[n \in 0 .. Len(text)] ==
    IF n = 0 THEN <<>>
    ELSE LET before == OpenAt[n - 1]
         IN  CASE text[n].piece = "open"  -> Append(before, text[n].part)
               [] text[n].piece = "close" ->
                    IF before # <<>> /\ Last(before) = text[n].part THEN Front(before)
                    ELSE Append(before, "unbalanced")
               [] OTHER -> before
IsPiece(n, kind, x) == text[n].piece = kind /\ text[n].of = x
Content == {n \in DOMAIN text : text[n].piece \notin {"open", "close"}}

\* "The file must start and end with an empty (or null) namespace so that
\* namespaces are properly opened and closed" (SetNameSpace), and every piece
\* is in the namespace of its definition.
NamespacesNested ==
    /\ \A n \in Content : OpenAt[n] = SpaceOf(text[n].of)
    /\ saved => OpenAt[Len(text)] = <<>>

\* generate asserts that a namespace is current before it ends.
SomeNamespace == todo # <<>> /\ Head(todo).piece = "end" => cur # Null

\* Where C++ needs a type complete it is: a struct before the structs it is
\* in, and the tables of a table's fields before what follows that table.
CompleteAtUse ==
    \A u \in uses : u.by # 0 /\ u.by # u.target =>
        \A n \in Content :
            IsPiece(n, IF def[u.by].fixed THEN "struct" ELSE "post", Def(u.by)) =>
                \/ Def(u.target) \in generated
                \/ \E m \in 1 .. n : \/ IsPiece(m, "struct", Def(u.target))
                                     \/ IsPiece(m, "table", Def(u.target))

\* A type used in the header is declared in it or in one it includes.
UsesDeclared ==
    saved =>
        \A u \in uses : u.by # 0 /\ Def(u.by) \notin generated =>
            \/ Def(u.target) \notin generated
            \/ comes[Def(u.target)] \in GenIncludeDependencies

\* The header of idl_gen_cpp: what is used is what the schema says, defined,
\* complete where C++ needs it so, and in its own namespace.
CompleteWhenUsed ==
    /\ DefinedThenScoped /\ UsesDefined
    /\ UsesDeclared /\ CompleteAtUse
    /\ SomeNamespace /\ NamespacesNested

=============================================================================
