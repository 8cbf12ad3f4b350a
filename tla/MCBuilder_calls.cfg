\* Objects, vectors, strings and identifiers, any order of calls.
SPECIFICATION Spec
CONSTANTS
    GrowLimit = 16
    Doublings = {1, 2, 4, 8, 16}
    Capacities = {3}
    MaxOffset = 9
    MaxItems = 2
    FieldCounts = {0, 2}
    ScalarTypes = {"Byte"}
    Values <- MCValues
    Lengths = {0, 4}
    Targets = {4}
    Alignments = {8}
    Identifiers <- MCIdentifiers
    VOffsetRange = 65536
INVARIANTS
    TypeOK
    BookkeepingLeadsBack
    CellsApart
    OffsetsLeadBack
PROPERTIES
    WrittenStays
    FailedCallsCommitNothing
\* A trap ends the process, and the bounds end the building.
CHECK_DEADLOCK FALSE
