---------------------------- MODULE SortedVector ----------------------------
(***************************************************************************)
(* Vectors of tables sorted by a key field, and the binary search for a    *)
(* key.  One runtime writes the vector (createSortedVectorOfTable,         *)
(* CreateVectorOfSortedTables), another one, or the same, looks up a key   *)
(* in the finished buffer (the lookup functions that are generated for     *)
(* Swift, Java and C#, Vector::LookupByKey in C++).                        *)
(*                                                                         *)
(* A table is its key, whether the key is stored (a number equal to its    *)
(* default is not, unless defaults are forced; a string key is required),  *)
(* whether its vtable is near, and what is read in place of its key when   *)
(* that is not found.  A key that is found is read as it was written (what *)
(* the Swift getters make of bytes is in SwiftReader).                     *)
(***************************************************************************)
EXTENDS Integers, Sequences

CONSTANTS
    Strings,     \* keys that are strings, as sequences of bytes
    Numbers,     \* keys that are numbers
    Default,     \* the number that is not stored
    Offsets,     \* what is read at a wrong place: the start of the table, or any
    Settings,    \* who writes, who reads, whether keys are strings, whether
                 \* defaults are forced, and whether the buffer is too long for
                 \* offsets of 16 bits
    MaxTables    \* bound: the tables of a vector

Runtimes == {"swift", "cpp", "java", "csharp"}

ASSUME SortedAssumption ==
    /\ MaxTables \in Nat
    /\ Settings \subseteq [writer : Runtimes, reader : Runtimes, strings : BOOLEAN,
                          forced : BOOLEAN, long : BOOLEAN]

VARIABLES
    setting,  \* who writes and who reads what
    tables,   \* the tables built, in the order of their offsets
    vector,   \* the tables of the vector, in its order
    phase,    \* what is going on
    sought,   \* the key looked up
    start, span,  \* the part of the vector still searched
    answer    \* the table found

vars == <<setting, tables, vector, phase, sought, start, span, answer>>

-----------------------------------------------------------------------------
(* Keys and their order.                                                   *)

KeysOf(s) == IF s.strings THEN Strings ELSE Numbers

\* strcmp stops at a zero byte, the other runtimes have the length.
TextLen(runtime, s) ==
    IF runtime = "cpp" /\ \E i \in DOMAIN s : s[i] = 0
    THEN (CHOOSE i \in DOMAIN s : s[i] = 0 /\ \A j \in 1..(i - 1) : s[j] # 0) - 1
    ELSE Len(s)
\* Java's bytes are signed.
ByteOf(runtime, b) == IF runtime = "java" /\ b >= 128 THEN b - 256 ELSE b
Bytes(runtime, s) == [i \in 1..TextLen(runtime, s) |-> ByteOf(runtime, s[i])]

SameUpTo(a, b, i) == \A j \in 1..i : a[j] = b[j]
FirstDiffers(a, b) ==
    \E i \in DOMAIN a \cap DOMAIN b : SameUpTo(a, b, i - 1) /\ a[i] < b[i]

\* Mutant: only the bytes both have are compared.
BytesBeforeCommon(a, b) == FirstDiffers(a, b)

\* compareString, compareStrings, strcmp: the first byte that differs, then
\* the length.
BytesBefore(a, b) == FirstDiffers(a, b) \/ (Len(a) < Len(b) /\ SameUpTo(a, b, Len(a)))

Before(s, runtime, a, b) ==
    IF s.strings THEN BytesBefore(Bytes(runtime, a), Bytes(runtime, b)) ELSE a < b

\* C++ uses the field's accessor, the others the static __offset: it does not
\* look whether the field is there and answers the start of the table for one
\* that is not, and that of Swift takes 16 bits of the offset to the vtable.
KeyRead(runtime, t) ==
    IF runtime = "cpp" THEN IF t.kept THEN t.key ELSE Default
    ELSE IF t.kept /\ (runtime = "swift" => t.near) THEN t.key
    ELSE t.offset

-----------------------------------------------------------------------------
(* Writing.                                                                *)

\* What the sort is told of two tables: compareKey of the Swift code, which
\* answers `<= 0` for strings and `>` for numbers, and the other runtimes' `<`.
GoesFirst(runtime, s, t) ==
    LET a == KeyRead(runtime, s)
        b == KeyRead(runtime, t)
    IN  CASE runtime = "swift" /\ setting.strings  -> ~Before(setting, runtime, b, a)
          [] runtime = "swift" /\ ~setting.strings -> Before(setting, runtime, b, a)
          [] OTHER                                 -> Before(setting, runtime, a, b)

\* What a library's sort makes of the tables: no one comes after one it must
\* go before.  Tables of equal keys may come in any order: `<=` says of each
\* that it goes before the other.
Sortings(runtime, ts) ==
    LET goes(i, j) == GoesFirst(runtime, ts[i], ts[j])
    IN  {s \in [DOMAIN ts -> DOMAIN ts] :
            /\ \A i, j \in DOMAIN ts : i # j => s[i] # s[j]
            /\ \A i, j \in DOMAIN ts : i < j => goes(s[i], s[j]) \/ ~goes(s[j], s[i])}

Table(k, near, o) ==
    [key |-> k, kept |-> setting.strings \/ setting.forced \/ k # Default, near |-> near, offset |-> o]

Init ==
    /\ setting \in Settings
    /\ tables = <<>> /\ vector = <<>>
    /\ phase = "building"
    /\ sought \in KeysOf(setting)
    /\ start = 0 /\ span = 0 /\ answer = 0

AddTable(k, near, o) ==
    /\ phase = "building"
    /\ Len(tables) < MaxTables
    /\ near \/ setting.long
    /\ tables' = Append(tables, Table(k, near, o))
    /\ UNCHANGED <<setting, vector, phase, sought, start, span, answer>>

\* The offsets are sorted, and written as those of any vector of tables.
CreateSorted ==
    /\ phase = "building"
    /\ \E s \in Sortings(setting.writer, tables) : vector' = s
    /\ phase' = "written"
    /\ UNCHANGED <<setting, tables, sought, start, span, answer>>

-----------------------------------------------------------------------------
(* Looking up.                                                             *)

Lookup(k) ==
    /\ phase \in {"written", "found", "missing"}
    /\ phase' = "searching" /\ sought' = k
    /\ start' = 0 /\ span' = Len(vector) /\ answer' = 0
    /\ UNCHANGED <<setting, tables, vector>>

Middle == span \div 2

ReadAt(i) == KeyRead(setting.reader, tables[vector[i + 1]])

\* Mutants: too few are left below; the table that was read is kept above.
LowerOneShort == span' = (span - 1) \div 2 /\ UNCHANGED start
UpperNotPast  == start' = start + Middle /\ span' = span - Middle

Lower == span' = Middle /\ UNCHANGED start
Upper == start' = start + Middle + 1 /\ span' = span - (Middle + 1)

ProbeAbove ==
    /\ phase = "searching" /\ span # 0
    /\ Before(setting, setting.reader, sought, ReadAt(start + Middle))
    /\ Lower
    /\ UNCHANGED <<setting, tables, vector, phase, sought, answer>>

ProbeBelow ==
    /\ phase = "searching" /\ span # 0
    /\ ~Before(setting, setting.reader, sought, ReadAt(start + Middle))
    /\ Before(setting, setting.reader, ReadAt(start + Middle), sought)
    /\ Upper
    /\ UNCHANGED <<setting, tables, vector, phase, sought, answer>>

Found ==
    /\ phase = "searching" /\ span # 0
    /\ ~Before(setting, setting.reader, sought, ReadAt(start + Middle))
    /\ ~Before(setting, setting.reader, ReadAt(start + Middle), sought)
    /\ phase' = "found" /\ answer' = vector[start + Middle + 1]
    /\ UNCHANGED <<setting, tables, vector, sought, start, span>>

Missing ==
    /\ phase = "searching" /\ span = 0
    /\ phase' = "missing"
    /\ UNCHANGED <<setting, tables, vector, sought, start, span, answer>>

Search == ProbeAbove \/ ProbeBelow \/ Found \/ Missing

Next ==
    \/ \E k \in KeysOf(setting), near \in BOOLEAN, o \in Offsets : AddTable(k, near, o)
    \/ CreateSorted
    \/ \E k \in KeysOf(setting) : Lookup(k)
    \/ Search

Spec == Init /\ [][Next]_vars /\ WF_vars(Search)

-----------------------------------------------------------------------------
(* Properties.                                                             *)

Phases == {"building", "written", "searching", "found", "missing"}

\* The types of the variables.
TypeOK ==
    /\ setting \in Settings
    /\ tables \in Seq([key : KeysOf(setting), kept : BOOLEAN, near : BOOLEAN, offset : Offsets])
    /\ vector \in Seq(1..Len(tables))
    /\ phase \in Phases /\ sought \in KeysOf(setting)
    /\ start \in Nat /\ span \in Nat /\ answer \in 0..Len(tables)

\* Every key of the vector that is read lies in it, however the vector is
\* sorted: the part still searched never leaves it.
ProbesInside ==
    phase = "searching" => start + span <= Len(vector)

\* The order the reader finds: the tables below the key sought, then those
\* that have it, then those above it.
AtOrAbove(i) == ~Before(setting, setting.reader, ReadAt(i), sought)
AtOrBelow(i) == ~Before(setting, setting.reader, sought, ReadAt(i))

Partitioned ==
    \A i, j \in 0..(Len(vector) - 1) :
        i < j => /\ AtOrAbove(i) => AtOrAbove(j)
                 /\ AtOrBelow(j) => AtOrBelow(i)

Has(i) == AtOrAbove(i) /\ AtOrBelow(i)

\* What is sorted by the writer is sorted for the reader, whatever is sought:
\* each of them compares the keys in its own way.
SortedForSearch == phase # "building" => Partitioned

\* Who finds keys where they are: C++, the others when every key is stored,
\* and Swift in a buffer that is not too long.
ReadsKeys(runtime, s) ==
    runtime = "cpp" \/ ((s.strings \/ s.forced) /\ (runtime = "swift" => ~s.long))

\* What LookupRight needs of the settings: writer and reader find the keys and
\* order them alike, ascending, and C++ looks up no key with a zero byte.
SettingsAgree ==
    \A s \in Settings :
        /\ ReadsKeys(s.writer, s) /\ ReadsKeys(s.reader, s)
        /\ \A a, b \in KeysOf(s) : Before(s, s.writer, a, b) <=> Before(s, s.reader, a, b)
        /\ s.strings \/ s.writer # "swift"
        /\ s.strings /\ s.reader = "cpp" => \A k \in Strings : \A i \in DOMAIN k : k[i] # 0

KeysTyped == Strings \subseteq Seq(0..255) /\ Numbers \subseteq Int

\* A search in a sorted vector never drops the part in which the key is.
WindowHoldsKey ==
    (phase = "searching" /\ Partitioned /\ \E i \in 0..(Len(vector) - 1) : Has(i))
        => \E i \in start..(start + span - 1) : Has(i)

\* Swift, C++, C# and Java: a search never drops the part of the vector the key
\* sought is in, and what one of them sorts is sorted for the others.
KeyStaysInWindow == SortedForSearch /\ WindowHoldsKey

\* In a sorted vector, a key that is not found is in none of its tables.
MissingIsAbsent ==
    (phase = "missing" /\ Partitioned) => \A i \in 0..(Len(vector) - 1) : ~Has(i)

\* A lookup answers a table whose key is the one sought, and none only when no
\* table has it: the keys are those the tables were given, not those read.
LookupRight ==
    /\ phase = "found" => tables[answer].key = sought
    /\ phase = "missing" => \A i \in DOMAIN tables : tables[i].key # sought

\* A lookup ends.
SearchEnds == (phase = "searching") ~> (phase \in {"found", "missing"})

=============================================================================
