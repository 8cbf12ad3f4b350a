------------------------------ MODULE MCRuntime ------------------------------
(***************************************************************************)
(* The C++ runtime for TLC: FlatBufferBuilder with tables ("tables") and   *)
(* with strings and vectors ("vectors"), FlexBuffers with values that are  *)
(* changed in place ("values") and with maps ("maps"), Verifier over       *)
(* buffers with any byte ("damaged", "variants") or some of their offsets  *)
(* changed ("leading"), and Reflection over two buffers ("town", "flat").  *)
(* A behaviour is one of a part's; the variables of the others do not      *)
(* move.                                                                   *)
(***************************************************************************)
EXTENDS FlatBufferBuilder, Verifier, VerifierCases, ReflectionCases

CONSTANT Parts  \* of this instance

VARIABLES
    part,
    \* of FlexBuffers
    buf_, stack_, key_pool, string_pool, force_min_bit_width_, finished_, starts, meant, calls,
    \* of Reflection
    vector, says, change, visits, changed, changes

flexVars       == <<buf_, stack_, key_pool, string_pool, force_min_bit_width_, finished_, starts,
                    meant, calls>>
reflectionVars == <<vector, says, change, visits, changed, changes>>
runtimeVars    == <<part, builderVars, flexVars, verifierVars, reflectionVars>>

-----------------------------------------------------------------------------
(* The instances.                                                          *)

\* FlatBufferBuilder with two types of table, and Verifier over one buffer, have
\* the constants of this module.
TwoTables    == {<<"Short", "offset">>, <<"Vec", "Int">>}
References   == {<<"offset">>}
ShortAndInt  == [Short |-> 2, Int |-> 4]
OnlyLong     == [Long |-> 8]
Vec          == [Vec |-> [bytes |-> 16, align |-> 16]]
Deduplicated == [force : BOOLEAN, dedup : {TRUE}]
OneBuffer    == {MonsterBuffer}

\* Two strings of any binary data: they differ behind a NUL.
BinaryTexts  == {<<1, 0, 1>>, <<1, 0, 2>>}

VectorBuilder == INSTANCE FlatBufferBuilder WITH
    Tables <- References, ScalarTypes <- OnlyLong, Values <- {1}, Texts <- {<<1>>, <<2>>},
    Lengths <- {0, 2}, ForcedAligns <- {8}, FlagChoices <- {}, MaxSize <- 24, MaxItems <- 4

TwoKeys   == {<<2>>, <<1>>}
ThreeKeys == {<<1>>, <<1, 2>>, <<2>>}
Typed     == 1..4  \* TYPE_INT, TYPE_UINT, TYPE_FLOAT, TYPE_KEY

ValueFlex == INSTANCE FlexBuffers WITH
    BYTE <- 16, Ints <- {-8, 7, 16}, Floats <- {3, 5}, Singles <- {3}, Keys <- TwoKeys,
    Strings <- {<<1, 1>>, <<1, 2>>}, Vectors <- {}, TypedOf <- Typed, FixedOf <- Typed \ {4},
    Values <- {"Int", "UInt", "Indirect", "String", "Float", "IndirectFloat", "Vector", "Map",
               "KeyedUInt"},
    Forced <- {2, 8}, share_keys <- FALSE, share_strings <- FALSE, MaxCalls <- 4,
    MaxMutations <- 1

MapFlex == INSTANCE FlexBuffers WITH
    BYTE <- 16, Ints <- {1, 20}, Floats <- {3, 5}, Singles <- {3}, Keys <- ThreeKeys,
    Strings <- {<<1>>}, Vectors <- {}, TypedOf <- Typed, FixedOf <- Typed \ {4},
    Values <- {"Int", "String", "Map"}, Forced <- {}, share_keys <- TRUE,
    share_strings <- TRUE, MaxCalls <- 9, MaxMutations <- 0

Variants == INSTANCE Verifier WITH
    Buffers <- {VariantsBuffer}, Damages <- SmallDamage, Hits <- 2

Leading == INSTANCE Verifier WITH
    Buffers <- {VariantsBuffer}, Damages <- OffsetDamage, Cuts <- {0}, MaxTables <- 9

Town == INSTANCE Reflection WITH
    buf <- vector, meant <- says, call <- change, todo <- visits, calls <- changes,
    Objects <- SchemaObjects, Unions <- SchemaUnions, Root <- "M", Buffers <- TownBuffer,
    Strings <- NewStrings, NewSizes <- {2, 5}, Numbers <- {-1}, Additions <- AddedBuffers,
    Pooling <- FALSE, Calls <- 2, MaxDepth <- 64, MaxTables <- 1000

Flat == INSTANCE Reflection WITH
    buf <- vector, meant <- says, call <- change, todo <- visits, calls <- changes,
    Objects <- SchemaObjects, Unions <- SchemaUnions, Root <- "M", Buffers <- FlatBuffer,
    Strings <- NewStrings, NewSizes <- {2, 5}, Numbers <- {300}, Additions <- AddedBuffers,
    Pooling <- FALSE, Calls <- 2, MaxDepth <- 64, MaxTables <- 1000

ASSUME /\ BufferAssumption /\ BuilderConstants /\ VectorBuilder!BuilderConstants
       /\ VerifierAssumption /\ Variants!VerifierAssumption /\ Leading!VerifierAssumption
       /\ Town!ReflectionAssumption /\ Flat!ReflectionAssumption

-----------------------------------------------------------------------------
RuntimeInit ==
    /\ part \in Parts
    /\ Init
    /\ ValueFlex!Init
    /\ CASE part = "damaged"  -> VerifierInit
         [] part = "variants" -> Variants!VerifierInit
         [] part = "leading"  -> Leading!VerifierInit
         [] OTHER -> mem = <<>> /\ intact = TRUE /\ rootType = "M" /\ todo = <<>> /\ depth = 0
                     /\ tables = 0 /\ verdict = "none" /\ reads = {}
    /\ CASE part = "town" -> Town!Init
         [] part = "flat" -> Flat!Init
         [] OTHER -> vector = <<>> /\ says = <<>> /\ change = <<>> /\ visits = <<>>
                     /\ changed = {} /\ changes = 0

BuildTables   == part = "tables"   /\ Next                /\ UNCHANGED <<part, flexVars, verifierVars, reflectionVars>>
BuildVectors  == part = "vectors"  /\ VectorBuilder!Next  /\ UNCHANGED <<part, flexVars, verifierVars, reflectionVars>>
BuildValues   == part = "values"   /\ ValueFlex!Next   /\ UNCHANGED <<part, builderVars, verifierVars, reflectionVars>>
BuildMaps     == part = "maps"     /\ MapFlex!Next     /\ UNCHANGED <<part, builderVars, verifierVars, reflectionVars>>
VerifyMonster == part = "damaged"  /\ VerifierNext /\ UNCHANGED <<part, builderVars, flexVars, reflectionVars>>
VerifyVariant == part = "variants" /\ Variants!VerifierNext /\ UNCHANGED <<part, builderVars, flexVars, reflectionVars>>
VerifyLeading == part = "leading"  /\ Leading!VerifierNext /\ UNCHANGED <<part, builderVars, flexVars, reflectionVars>>
ChangeTown    == part = "town"     /\ Town!Next     /\ UNCHANGED <<part, builderVars, flexVars, verifierVars>>
ChangeFlat    == part = "flat"     /\ Flat!Next     /\ UNCHANGED <<part, builderVars, flexVars, verifierVars>>

RuntimeNext ==
    \/ BuildTables \/ BuildVectors \/ BuildValues \/ BuildMaps
    \/ VerifyMonster \/ VerifyVariant \/ VerifyLeading
    \/ ChangeTown \/ ChangeFlat

\* The verifier runs in its caller's thread, alone: it takes its next step.
RuntimeSpec == RuntimeInit /\ [][RuntimeNext]_runtimeVars /\ WF_runtimeVars(VerifyLeading)

-----------------------------------------------------------------------------
(* The properties of the parts; BuiltSound, ImplementsFlatStore and        *)
(* SharesExactStrings are those of FlatBufferBuilder, VerifierSound and    *)
(* RefusesDamageOnly those of Verifier.                                    *)

\* flexbuffers::Builder and Reference: what is read is what was added, after
\* every mutation too; a key that was not added is not found, and those that
\* are shared are in the buffer once.
RoundTrip ==
    /\ part = "values" => ValueFlex!RoundTrip
    /\ part = "maps"   => MapFlex!RoundTrip /\ MapFlex!OthersNotFound /\ MapFlex!KeysShared

\* Verification ends, whatever the offsets in the buffer lead to.
Terminates == (part = "leading") ~> (verdict # "checking")

\* SetString, ResizeAnyVector, AddFlatBuffer and SetAnyFieldI: afterwards the
\* buffer says what it said before, with the one change, and on the way every
\* field is found where it was; and a copy CopyTable makes says it too.
SaysWhatIsMeant ==
    /\ part = "town" => Town!SaysWhatIsMeant /\ Town!CopySaysTheSame
    /\ part = "flat" => Flat!SaysWhatIsMeant /\ Flat!Accepted /\ Flat!FieldsFoundWhereTheyWere

=============================================================================
