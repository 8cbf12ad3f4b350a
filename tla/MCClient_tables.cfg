\* Strings and tables of two types, nested, with and without forced defaults.
SPECIFICATION ClientSpec
CONSTANTS
    GrowLimit = 32
    Doublings = {1, 2, 4, 8, 16, 32}
    MaxOffset = 40
    MaxItems = 8
    Capacities = {6}
    ScalarTypes = {"Short", "Int"}
    Values = {0, 1}
    Lengths = {1}
    Identifiers <- MCIdentifiers
    VOffsetRange = 65536
    Tables <- MCTables
    Structs <- MCStructs
    VectorTypes = {}
    ByteVectors = TRUE
    \* Arguments the client does not choose freely.
    FieldCounts = {}
    Targets = {}
    Alignments = {}
INVARIANTS
    OnlyCapacityFails
    TablesWellFormed
    FinishedStartsWithRoot
PROPERTIES
    ImplementsFlatStore
\* A trap ends the process, and the bounds end the building.
CHECK_DEADLOCK FALSE
