\* Shared strings that are not text.
SPECIFICATION RuntimeSpec
CONSTANT
    Parts = {"tables"}
    MaxBufferSize = 100
    InitialSizes = {1}
    Tables <- TwoTables
    ScalarTypes <- ShortAndInt
    Structs <- Vec
    Values = {0, 1}
    Texts <- BinaryTexts
    Lengths = {}
    ForcedAligns = {}
    FlagChoices <- Deduplicated
    AddTwice = FALSE
    MaxSize = 46
    MaxItems = 6
    Types <- VerifiedTypes
    Members <- VerifiedMembers
    Buffers <- OneBuffer
    Damages <- AnyDamage
    Hits = 1
    Cuts = {0, 1, 9, 112}
    MaxDepth = 2
    MaxTables = 3
    LargestBuffer = 131071
    SizeRange = 262144
PROPERTY SharesExactStrings
\* A failed assert ends the process, and the bounds end the building.
CHECK_DEADLOCK FALSE
