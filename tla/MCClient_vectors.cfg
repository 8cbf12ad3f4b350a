\* Vectors of every kind of element, empty ones included, and a table.
SPECIFICATION ClientSpec
CONSTANTS
    GrowLimit = 32
    Doublings = {1, 2, 4, 8, 16, 32}
    MaxOffset = 28
    MaxItems = 5
    Capacities = {0}
    ScalarTypes = {"Short", "Int"}
    Values = {1}
    Lengths = {0, 2}
    Identifiers <- MCIdentifiers
    VOffsetRange = 65536
    Tables <- MCTables
    Structs <- MCStructs
    VectorTypes = {"Short"}
    ByteVectors = FALSE
    \* Arguments the client does not choose freely.
    FieldCounts = {}
    Targets = {}
    Alignments = {}
INVARIANTS
    ItemsAligned
\* A trap ends the process, and the bounds end the building.
CHECK_DEADLOCK FALSE
