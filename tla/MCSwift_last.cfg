\* Buffers that end with a vector of integers.
SPECIFICATION SuiteSpec
CONSTANTS
    Parts = {"reader"}
    Strings <- Words
    Numbers = {0, 4, 9}
    Default = 0
    Offsets = {6}
    Settings <- UnsignedBytes
    MaxTables = 1
    Contents <- Listed
    Orders <- ListLast
INVARIANT ReadsRight
CHECK_DEADLOCK FALSE
