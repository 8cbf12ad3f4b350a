------------------------------- MODULE MCData -------------------------------
(***************************************************************************)
(* What flatc does with schemas and data, for TLC: SchemaConform           *)
(* ("versions"), CppHeader over SchemaNames ("header"), JsonParser over    *)
(* strict documents ("strict") and over those with unquoted names and      *)
(* unions ("loose"), SchemaBinary ("binary") and the driver Flatc with     *)
(* command lines that succeed ("lines") and with files that cannot be      *)
(* written and wrong arguments ("faults").  A behaviour is one of a        *)
(* part's; the variables of the others do not move.                        *)
(***************************************************************************)
EXTENDS SchemaConform, CppHeader, ConformCases, JsonCases, BinaryCases, FlatcCases

CONSTANT Parts  \* of this instance

VARIABLES
    part,
    \* of JsonParser
    document, json, at, calls, field_stack_, built, outcome, first,
    \* of SchemaBinary
    structs, listed, items, schema, writes,
    \* of Flatc
    args, opt, filenames, parser, conform_parser, number, gen, phase, disk, dirs, failed, rules

headerVars == <<namesVars, included, generated, comes, cur, todo, text, saved>>
jsonVars   == <<document, json, at, calls, field_stack_, built, outcome, first>>
binaryVars == <<structs, listed, items, schema, writes>>
driverVars == <<args, opt, filenames, parser, conform_parser, number, gen, phase, disk, dirs,
                failed, rules>>
dataVars   == <<part, conformVars, headerVars, jsonVars, binaryVars, driverVars>>

-----------------------------------------------------------------------------
(* The instances.                                                          *)

HeaderSpaces == {<<"A">>, <<"C">>}
HeaderUses   == {<<"U">>, <<"V">>}

Strict == INSTANCE JsonParser WITH
    text <- json, Defs <- JsonDefs, EnumVals <- JsonEnumVals, Members <- JsonMembers, Root <- "Monster",
    Documents <- StrictDocuments, strict_json <- TRUE, skip_unexpected_fields_in_json <- TRUE,
    output_default_scalars_in_json <- TRUE, output_enum_identifiers <- TRUE

Loose == INSTANCE JsonParser WITH
    text <- json, Defs <- JsonDefs, EnumVals <- JsonEnumVals, Members <- JsonMembers, Root <- "Monster",
    Documents <- LooseDocuments, strict_json <- FALSE, skip_unexpected_fields_in_json <- FALSE,
    output_default_scalars_in_json <- FALSE, output_enum_identifiers <- FALSE

Reflected == INSTANCE SchemaBinary WITH
    enums <- listed, StructDefs <- DeclaredStructs, EnumDefs <- DeclaredEnums, Builtin <- {1}, MaxInt <- 7,
    Writes <- 2

Driver == INSTANCE Flatc WITH
    at <- number, Sources <- DriverSources, Commands <- GoodLines, Unwritable <- {}, Full <- {}

Faulty == INSTANCE Flatc WITH
    at <- number, Sources <- DriverSources, Commands <- BadLines, Unwritable <- ClosedPaths,
    Full <- {}

ASSUME Reflected!BinaryAssumption

\* The names are such as the theorem of CppHeaderProofs asks for.
ASSUME NamesTyped /\ HeaderName \notin IncludeNames

-----------------------------------------------------------------------------
Suite == \* the initial states
    /\ part \in Parts
    /\ IF part = "versions" THEN ConformInit
       ELSE base = <<>> /\ new = <<>> /\ sit = 0 /\ fit = 0 /\ verdict = "none"
    /\ CppInit
    /\ CASE part = "strict" -> Strict!Init
         [] part = "loose"  -> Loose!Init
         [] OTHER -> document = <<>> /\ json = <<>> /\ at = 0 /\ calls = <<>>
                     /\ field_stack_ = <<>> /\ built = <<>> /\ outcome = "none" /\ first = <<>>
    /\ Reflected!Init
    /\ CASE part = "lines"  -> Driver!Init
         [] part = "faults" -> Faulty!Init
         [] OTHER -> args = <<>> /\ opt = <<>> /\ filenames = <<>> /\ parser = <<>>
                     /\ conform_parser = <<>> /\ number = 0 /\ gen = 0 /\ phase = "none"
                     /\ disk = <<>> /\ dirs = {} /\ failed = {} /\ rules = {}

Compare     == part = "versions" /\ ConformNext    /\ UNCHANGED <<part, headerVars, jsonVars, binaryVars, driverVars>>
MakeHeader  == part = "header"   /\ CppNext        /\ UNCHANGED <<part, conformVars, jsonVars, binaryVars, driverVars>>
ParseStrict == part = "strict"   /\ Strict!Next    /\ UNCHANGED <<part, conformVars, headerVars, binaryVars, driverVars>>
ParseLoose  == part = "loose"    /\ Loose!Next     /\ UNCHANGED <<part, conformVars, headerVars, binaryVars, driverVars>>
Reflect     == part = "binary"   /\ Reflected!Next /\ UNCHANGED <<part, conformVars, headerVars, jsonVars, driverVars>>
Compile     == part = "lines"    /\ Driver!Next    /\ UNCHANGED <<part, conformVars, headerVars, jsonVars, binaryVars>>
CompileBad  == part = "faults"   /\ Faulty!Next    /\ UNCHANGED <<part, conformVars, headerVars, jsonVars, binaryVars>>

SuiteNext == Compare \/ MakeHeader \/ ParseStrict \/ ParseLoose \/ Reflect \/ Compile \/ CompileBad

SuiteSpec == Suite /\ [][SuiteNext]_dataVars

-----------------------------------------------------------------------------
(* The properties of the parts; OldDataReadable is SchemaConform's,        *)
(* CompleteWhenUsed that of CppHeader.                                     *)

\* ParseTable and GenerateText: what is built is what the document says, and
\* its text, parsed again, builds the same.  On the way tables inside of tables
\* share one stack, and a union is of the type its own type field says.
DocumentKept ==
    /\ part = "strict" => Strict!StackShared /\ Strict!BuiltAsWritten /\ Strict!TextParsesBack
    /\ part = "loose"  => Loose!UnionsOfTheirType /\ Loose!BuiltAsWritten

\* Serialize: a schema is read from its buffer as it was declared, found by its
\* keys, and accepted by the verifier.
ReadAsDeclared ==
    part = "binary" =>
        Reflected!ReadAsDeclared /\ Reflected!LookupsFind /\ Reflected!Verified

\* Compile: every definition is generated, once, from the file it is in, and
\* whatever came before on the command line is forgotten.
GeneratedOnce ==
    part = "lines" =>
        /\ Driver!TypeOK /\ Driver!AllWritten /\ Driver!GeneratedOnce
        /\ Driver!OwnDefinitions /\ Driver!FromScratch

\* Compile: a flatc that ends without an error has written every file, and
\* nothing was made of data or a schema it has to refuse.
FailuresReported ==
    part = "faults" =>
        /\ Faulty!FailuresReported
        /\ Faulty!BinaryChecked /\ Faulty!ConformingOnly

=============================================================================
