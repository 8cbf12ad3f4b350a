\* Every stage that reads a schema, and those that write what it says.
SPECIFICATION SchemaSpec
CONSTANTS
    Parts = {"includes", "structs", "ids", "proto", "extended", "text", "units", "bytes"}
    Paths = {"a", "b", "c", "x"}
    FileOf <- Itself
    Main = "a"
    Missing = {"x"}
    MaxIncludes = 2
    Native = "h"
    generate_all = FALSE
    Headers <- AllHeaders
    Declarations <- AllFields
    EnumDefs <- FieldEnums
    Cpp = TRUE
    MaxFields = 4
INVARIANTS
    GeneratesCurrentFile
    StructLaidOut
    SlotsById
    GeneratedReadBack
    EscapedReadBack
    TextReadRight
PROPERTIES
    IncludesEnd
\* A parse ends, or stops where the bounds are reached.
CHECK_DEADLOCK FALSE
