\* Keys written and looked up by runtimes that agree on their order, and
\* buffers that end with a string.
SPECIFICATION SuiteSpec
CONSTANTS
    Parts = {"keys", "reader"}
    Strings <- Words
    Numbers = {0, 4, 9}
    Default = 0
    Offsets = {6}
    Settings <- Agreeing
    MaxTables = 4
    Contents <- Named
    Orders <- NameLast
INVARIANTS
    LookupRight
    KeyStaysInWindow
    ReadsRight
    DataKept
PROPERTIES
    SearchEnds
CHECK_DEADLOCK FALSE
