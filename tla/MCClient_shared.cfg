\* Two tables of one type and the same fields.
SPECIFICATION ClientSpec
CONSTANTS
    GrowLimit = 128
    Doublings = {1, 2, 4, 8, 16, 32, 64, 128}
    MaxOffset = 40
    MaxItems = 8
    Capacities = {5}
    ScalarTypes = {"Short", "Int"}
    Values = {0, 1}
    Lengths = {1}
    Identifiers <- MCIdentifiers
    VOffsetRange = 65536
    Tables <- MCTables
    Structs <- MCStructs
    VectorTypes = {}
    ByteVectors = FALSE
    \* Arguments the client does not choose freely.
    FieldCounts = {}
    Targets = {}
    Alignments = {}
INVARIANTS
    VtablesShared
\* A trap ends the process, and the bounds end the building.
CHECK_DEADLOCK FALSE
