\* Versions of a schema, headers, documents, schemas as buffers, and command lines.
SPECIFICATION SuiteSpec
CONSTANTS
    Versions <- TableVersions
    Namespaces <- HeaderSpaces
    Identifiers = {"U", "V"}
    Uses <- HeaderUses
    MaxSteps = 6
    HeaderName = "m"
    IncludeNames = {"i"}
    Parts = {"versions", "header", "strict", "loose", "binary", "lines", "faults"}
INVARIANTS
    OldDataReadable
    CompleteWhenUsed
    DocumentKept
    ReadAsDeclared
    GeneratedOnce
    FailuresReported
\* A comparison, a parse and a command line end; the bounds end the rest.
CHECK_DEADLOCK FALSE
