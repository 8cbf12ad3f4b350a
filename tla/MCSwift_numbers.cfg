\* Number keys in Swift: every key is stored.
SPECIFICATION SuiteSpec
CONSTANTS
    Parts = {"keys"}
    Strings = {}
    Numbers = {0, 4, 9}
    Default = 0
    Offsets = {6}
    Settings <- SwiftNumbers
    MaxTables = 2
    Contents <- Named
    Orders <- NameLast
INVARIANT LookupRight
CHECK_DEADLOCK FALSE
