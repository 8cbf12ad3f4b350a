------------------------------ MODULE MCSchema ------------------------------
(***************************************************************************)
(* What flatc does with the text of a schema, for TLC: SchemaIncludes      *)
(* ("includes"), SchemaFields with structs ("structs") and with ids        *)
(* ("ids"), ProtoSchema over SchemaNames with fields of every kind          *)
(* ("proto") and with extend in two packages ("extended"), and Lexer,      *)
(* which refuses what is not UTF-8 ("text", "units") or does not           *)
(* ("bytes").  A behaviour is one of a part's; the variables of the        *)
(* others do not move.                                                     *)
(***************************************************************************)
EXTENDS SchemaIncludes, SchemaFields, FieldCases, LexerCases

CONSTANT Parts  \* of this instance

VARIABLES
    part,
    \* of SchemaNames
    namespace, dict, vec, def, enums, root, services, inside, uses, step, state,
    \* of ProtoSchema
    package, opened, fields, values, anonymous, statements, proto, phase,
    \* of Lexer
    written, source, cursor, line, token, attribute, doc_comment, seen_newline, quote, high, error

namesVars  == <<namespace, dict, vec, def, enums, root, services, inside, uses, step, state>>
protoVars  == <<package, opened, fields, values, anonymous, statements, proto, phase>>
lexerVars  == <<written, source, cursor, line, token, attribute, doc_comment, seen_newline, quote,
                high, error>>
schemaVars == <<part, includesVars, fieldsVars, namesVars, protoVars, lexerVars>>

-----------------------------------------------------------------------------
(* The instances.                                                          *)

Itself == [p \in Paths |-> p]
AllHeaders == StructHeaders \cup TableHeaders
AllFields  == StructFields \cup IdFields

\* The declarations are such as the theorems of SchemaProofs ask for.
ASSUME FieldsOfTheRun == FieldsTyped

Proto == INSTANCE ProtoSchema WITH
    text <- statements, open <- opened, Namespaces <- {}, Identifiers <- {"M", "N"},
    Uses <- {<<"M">>, <<"N">>, <<"M", "N">>}, MaxSteps <- 4, Packages <- {<<"P">>},
    FieldNames <- {"a"}, Qualifiers <- {"optional", "required", "repeated"},
    Deprecating <- FALSE, Defaults <- {0, 1}, EnumValues <- {<<5, 1>>, <<2, 0, 2>>},
    Extending <- FALSE

ProtoExtended == INSTANCE ProtoSchema WITH
    text <- statements, open <- opened, Namespaces <- {}, Identifiers <- {"M", "N"},
    Uses <- {<<"M">>, <<"N">>, <<"M", "N">>}, MaxSteps <- 4,
    Packages <- {<<"P">>, <<"Q", "P">>}, FieldNames <- {"a"},
    Qualifiers <- {"optional", "required"}, Deprecating <- FALSE, Defaults <- {0, 1}, EnumValues <- {<<5, 1>>, <<2, 0, 2>>},
    Extending <- TRUE

Text == INSTANCE Lexer WITH
    Sources <- LexerTexts, Strings <- WrittenStrings, Keywords <- LexerKeywords, Bits <- 8,
    allow_non_utf8 <- FALSE

JsonText == INSTANCE Lexer WITH
    Sources <- LexerUnits, Strings <- {}, Keywords <- LexerKeywords, Bits <- 8,
    allow_non_utf8 <- FALSE

BytesText == INSTANCE Lexer WITH
    Sources <- {}, Strings <- WrittenStrings, Keywords <- LexerKeywords, Bits <- 8,
    allow_non_utf8 <- TRUE

ASSUME Text!LexerAssumption /\ JsonText!LexerAssumption /\ BytesText!LexerAssumption

-----------------------------------------------------------------------------
NoIncludes ==
    /\ text = <<>> /\ calls = <<>> /\ included = {} /\ per_file = <<>> /\ native = <<>>
    /\ defs = {} /\ result = "none"
NoProto ==
    /\ package = <<>> /\ opened = <<>> /\ fields = <<>> /\ values = <<>> /\ anonymous = 0
    /\ statements = <<>> /\ proto = <<>> /\ phase = "none"
NoText ==
    /\ written = <<>> /\ source = <<>> /\ cursor = 1 /\ line = 1 /\ token = 0
    /\ attribute = <<>> /\ doc_comment = <<>> /\ seen_newline = FALSE /\ quote = 0
    /\ high = 0 /\ error = FALSE

SchemaInit ==
    /\ part \in Parts
    /\ IF part = "includes" THEN Init ELSE NoIncludes
    /\ FieldsInit
    /\ CASE part = "proto"    -> Proto!ProtoInit
         [] part = "extended" -> ProtoExtended!ProtoInit
         [] OTHER             -> Proto!Init /\ NoProto
    /\ CASE part = "text"  -> Text!Init
         [] part = "units" -> JsonText!Init
         [] part = "bytes" -> BytesText!Init
         [] OTHER          -> NoText

ParseIncludes ==
    /\ part = "includes" /\ Next
    /\ UNCHANGED <<part, fieldsVars, namesVars, protoVars, lexerVars>>
ParseDecls(decls, members) ==
    /\ \/ \E decl \in decls : StartStruct(decl)
       \/ \E member \in members : ParseField(member)
       \/ EndDecl
    /\ UNCHANGED <<part, includesVars, namesVars, protoVars, lexerVars>>
ParseStructs == part = "structs" /\ ParseDecls(StructHeaders, StructFields)
ParseIds     == part = "ids" /\ ParseDecls(TableHeaders, IdFields)
ConvertProto ==
    /\ part = "proto" /\ Proto!ProtoNext
    /\ UNCHANGED <<part, includesVars, fieldsVars, lexerVars>>
ConvertExtended ==
    /\ part = "extended" /\ ProtoExtended!ProtoNext
    /\ UNCHANGED <<part, includesVars, fieldsVars, lexerVars>>
ReadText ==
    /\ part \in {"text", "units", "bytes"}
    /\ CASE part = "text" -> Text!Next [] part = "units" -> JsonText!Next [] OTHER -> BytesText!Next
    /\ UNCHANGED <<part, includesVars, fieldsVars, namesVars, protoVars>>

SchemaNext ==
    \/ ParseIncludes \/ ParseStructs \/ ParseIds
    \/ ConvertProto \/ ConvertExtended \/ ReadText

\* flatc does nothing but parse: DoParse goes on.
SchemaSpec == SchemaInit /\ [][SchemaNext]_schemaVars /\ WF_schemaVars(ParseIncludes)

-----------------------------------------------------------------------------
(* The properties of the parts; GeneratesCurrentFile is that of            *)
(* SchemaIncludes, StructLaidOut and SlotsById are those of SchemaFields.  *)

\* ParseRoot and DoParse: parsing ends, also where files include each other,
\* and everything that is needed is there in the end, with what it depends on.
IncludesEnd == (part = "includes") ~> 
    (result # "none" /\ ParsedOnce /\ DependenciesComplete)

\* GenerateFBS: the schema made of a .proto file is read as that file was, with
\* each message in the namespace it was written in.
GeneratedReadBack ==
    part \in {"proto", "extended"} =>
        Proto!GeneratedReadBack /\ Proto!MessagesWhereWritten /\ Proto!DefinedThenScoped

\* EscapeString and Next: what is written is read back, or refused where it is
\* not UTF-8 and must be; strings are those of JSON.
EscapedReadBack ==
    /\ part \in {"text", "units"} => Text!EscapedReadBack
    /\ part = "bytes" => BytesText!EscapedReadBack
    /\ part = "units" => JsonText!JsonStrings

\* Next reads nothing behind the end of the text, counts every line and takes
\* no string that is not UTF-8.
TextReadRight ==
    part \in {"text", "units"} =>
        Text!InText /\ Text!LinesCounted /\ Text!StringsWellFormed

=============================================================================
