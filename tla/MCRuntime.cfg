\* What is built, changed and verified in C++.
SPECIFICATION RuntimeSpec
CONSTANT
    Parts = {"tables", "vectors", "values", "maps", "damaged", "variants", "leading", "town", "flat"}
    MaxBufferSize = 100
    InitialSizes = {1}
    Tables <- TwoTables
    ScalarTypes <- ShortAndInt
    Structs <- Vec
    Values = {0, 1}
    Texts = {}
    Lengths = {}
    ForcedAligns = {}
    FlagChoices <- Deduplicated
    AddTwice = FALSE
    MaxSize = 46
    MaxItems = 6
    Types <- VerifiedTypes
    Members <- VerifiedMembers
    Buffers <- OneBuffer
    Damages <- AnyDamage
    Hits = 1
    Cuts = {0, 1, 9, 112}
    MaxDepth = 2
    MaxTables = 3
    LargestBuffer = 131071
    SizeRange = 262144
INVARIANTS
    BuiltSound
    RoundTrip
    VerifierSound
    RefusesDamageOnly
    SaysWhatIsMeant
PROPERTIES
    ImplementsFlatStore
    SharesExactStrings
    Terminates
\* A failed assert ends the process, a verification ends, and the bounds end
\* the building.
CHECK_DEADLOCK FALSE
