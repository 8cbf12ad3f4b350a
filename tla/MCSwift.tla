------------------------------ MODULE MCSwift ------------------------------
(***************************************************************************)
(* The reading side of Swift for TLC: SortedVector over string keys and    *)
(* number keys ("keys"), and SwiftReader ("reader").  A behaviour is one   *)
(* of a part's; the variables of the other do not move.                    *)
(***************************************************************************)
EXTENDS SortedVector

CONSTANTS
    Parts,      \* the parts of this instance
    Contents, Orders  \* of SwiftReader

VARIABLES part, file, objs

\* An empty string, a prefix of another, and a byte beyond ASCII.
Words   == {<<>>, <<65>>, <<65, 66>>, <<195>>}

\* Runtimes that order bytes alike, and those whose numbers ascend.
Among(rs, strings, forced) ==
    [writer : rs, reader : rs, strings : strings, forced : forced, long : {FALSE}]
LongInCpp     == [writer : {"cpp"}, reader : {"cpp"}, strings : {FALSE}, forced : {FALSE},
                  long : {TRUE}]
UnsignedBytes == Among({"swift", "cpp"}, {TRUE}, {FALSE}) \cup Among({"java"}, {TRUE}, {FALSE})
StoredNumbers == Among({"cpp", "java", "csharp"}, {FALSE}, {TRUE}) \cup LongInCpp
Agreeing      == UnsignedBytes \cup StoredNumbers
SwiftNumbers  == Among({"swift"}, {FALSE}, {TRUE})

All    == [hp : {<<>>, <<5>>}, pos : {<<>>, <<6>>}, list : {<<>>, <<<<1, 2>>>>},
           points : {<<>>, <<<<3, 4>>>>}, kid : {<<>>, <<7>>}, name : {<<>>, <<<<65>>>>}]
Named  == {c \in All : c.name # <<>> /\ (c.hp = <<>>) # (c.pos = <<>>)}
Listed == {c \in All : c.list # <<>> /\ c.points = <<>> /\ c.name = <<>>}
NameLast == {<<"list", "points", "kid", "name">>, <<"kid", "points", "list", "name">>}
ListLast == {<<"points", "name", "kid", "list">>}

Reader == INSTANCE SwiftReader WITH
    Objects <- {1, 2}, StructSize <- 4, Default <- 9, Values <- {-2}, ByteBase <- 256,
    IndexAbsent <- FALSE

ASSUME Reader!ReaderAssumption

\* What the proof of LookupRight assumes holds of these settings.
ASSUME KeysTyped /\ (Settings = Agreeing => SettingsAgree)

-----------------------------------------------------------------------------
readerVars == <<file, objs>>

SuiteInit ==
    /\ part \in Parts
    /\ Init
    /\ part = "reader" => setting = CHOOSE s \in Settings : TRUE
    /\ part = "reader" => sought = CHOOSE k \in KeysOf(setting) : TRUE
    /\ IF part = "reader" THEN Reader!Init ELSE file = <<>> /\ objs = <<>>

KeysNext   == part = "keys"   /\ Next        /\ UNCHANGED <<part, readerVars>>
ReaderNext == part = "reader" /\ Reader!Next /\ UNCHANGED <<part, vars>>

SuiteSearch == Search /\ UNCHANGED <<part, readerVars>>

suiteVars == <<part, vars, readerVars>>

SuiteSpec ==
    /\ SuiteInit /\ [][KeysNext \/ ReaderNext]_suiteVars
    /\ WF_suiteVars(SuiteSearch)

-----------------------------------------------------------------------------
\* The accessors of Struct and Table read what the object's data stands for.
ReadsRight == part = "reader" => Reader!ReadsRight

\* A setter of a generated class changes the bytes of its field and no others.
DataKept == part = "reader" => Reader!DataKept

=============================================================================
