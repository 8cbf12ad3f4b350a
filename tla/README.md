# TLA+ specifications of SwiftFlatbuffer

This directory specifies the program of this repository: the Swift runtime for
FlatBuffers (`XCodeFlatbuffer/FlatbufferSwift/Sources`), the fork of
google/flatbuffers it comes with, whose compiler `flatc` generates the Swift
code, and the C++ runtime the Swift one stands beside. TLC checks small
instances of every module; TLAPS proves, for every value of the constants, the
properties of the Swift builder and its client, of the C++ builder and verifier, of
sorting and searching by keys, and of how flatc reads a schema: its includes, names,
structs and versions, and the C++ headers it writes.

Paths below are relative to `src/`; `flatbuffers/` is left out of those of the
fork.

## 1. The system

### Inventory

| Component | Source | State | Operations | Module |
|---|---|---|---|---|
| Data writers | `Sources/writer.swift` | the bytes of a `Data` value | `put...`, `expandFromHead` | Arena, SwiftReader |
| Builder, the buffer | `Sources/builder.swift` 489-550 | `data`, `head`, `minalign` | `prepare`, `paddingZero`, table offsets | Arena, PrepareLoop |
| Builder | `Sources/builder.swift` | `vtable`, `objectEnd`, `vtables`, `nested`, `finished`, `forceDefaults` | every public method | Builder |
| Generated builders, Swift | `idl_gen_swift.cpp` 110-269 | none of its own | `startX`, `addX`, `createX...`, `endX`, `finishBuffer` | GeneratedClient |
| What a buffer promises | `docs/source/Internals.md` | a store of immutable items | build, set, commit, finish | FlatStore, FlatFormat |
| Readers and accessors, Swift | `Sources/base.swift`, `struct.swift`, `table.swift`, generated getters and setters | per object: a position and a copy of `Data` | getters, setters, element access | SwiftReader |
| Keys | `builder.swift` 13-49, `idl_gen_swift.cpp` 319-381, `idl_gen_general.cpp`, `Table.java`, `flatbuffers.h` | the part of the vector still searched | sorting, `lookup`, `LookupByKey` | SortedVector |
| C++ builder | `flatbuffers.h` | buffer, fields of the open table, pools of vtables and strings | all | VectorDownward, FlatBufferBuilder |
| C++ verifier | `flatbuffers.h`, `idl_gen_cpp.cpp` | depth, number of tables | `Verify...` | Verifier |
| C++ flexbuffers | `flexbuffers.h` | buffer, stack, pools of keys and strings | builder, references, mutation | FlexBuffers |
| C++ reflection | `reflection.h`, `reflection.cpp` | a buffer, the walk over it | set, resize, add, copy, verify | Reflection |
| Tokens | `idl_parser.cpp`, `util.h`, `idl_gen_text.cpp` | place in the text, token | `Next`, `EscapeString` | Lexer |
| Declarations | `idl_parser.cpp` | definitions, names | `ParseDecl`, `ParseField`, `LookupCreateStruct`, ... | SchemaFields, SchemaNames |
| Includes | `idl_parser.cpp` | files included, what is generated | `DoParse`, `MarkGenerated` | SchemaIncludes |
| Evolution | `idl_parser.cpp` | - | `ConformTo` | SchemaConform |
| `.proto` | `idl_parser.cpp`, `idl_gen_fbs.cpp` | namespaces, tables | `ParseProto...`, `GenerateFBS` | ProtoSchema |
| JSON | `idl_parser.cpp`, `idl_gen_text.cpp` | the field stack | `ParseTable`, `ParseAnyValue`, `GenerateText` | JsonParser |
| Binary schemas | `idl_parser.cpp`, `reflection_generated.h` | - | `Serialize`, accessors | SchemaBinary |
| C++ generator | `idl_gen_cpp.cpp` | namespace open in the text | order of declarations | CppHeader |
| flatc | `flatc.cpp`, `flatc_main.cpp`, `util.h`, `idl_gen_*.cpp` | options, a parser kept from file to file | `Compile`, what each generator saves | Flatc |

How they interact. Generated Swift code calls the builder; the builder owns a
`Data` value, writes it through the extension methods of `writer.swift` and hands
out offsets which the client passes to later calls. `getData` gives out a copy
that readers decode. A buffer may be written by one language's runtime and read
by another's: the format is the only interface between them, and the order of
sorted keys is part of it. `flatc` parses schemas into a `Parser`, which includes
files by calling itself, hands that parser to one generator after the other,
parses JSON with it into a `FlatBufferBuilder`, and keeps it when data follows.
There are no threads. What makes the code hard is the ORDER of calls, calls that
FAIL half-way and leave what they have done, buffers that MOVE when they grow or
are resized, RECURSION that shares one stack or one set of limits, definitions
that are USED BEFORE they exist, and arithmetic whose overflow ends the process
or reads the wrong bytes.

What makes each component correct is stated in its module; the hazards, each at
its line and with the properties that would catch it, are in `PROJECT.json`.

### Errors, and the end of the process

A Swift call can return, throw (`BuilderError`, `DataError`, the `NSError` of
`prepare`) or trap (arithmetic overflow, an index out of bounds). A thrown error
leaves everything the call has changed before; a model action for a failing call
changes exactly that. After a trap, and after a failed `assert` of the C++ code,
no action is enabled. This, and parses and compilations that simply end, is why
all runs but `prepare_loop` do not check for deadlock.

## 2. Modules

    FlatStore            what a builder promises, no bytes       (abstract)
      ^ implemented by       FlatFormat: how a buffer is read
      |
    GeneratedClient  and  FlatBufferBuilder
      | EXTENDS              | EXTENDS
    Builder                VectorDownward
      | EXTENDS
    Arena  <- EXTENDED BY - PrepareLoop    the loop Arena takes for a step

    SchemaNames <- EXTENDED BY - CppHeader, ProtoSchema

The others stand alone. Every module names the definitions after the functions
they model, and `PROJECT.json` maps each to its lines.

### The Swift runtime

**Arena** is `data`, `head` and `minalign`. Bytes are abstracted to *cells*: an
item with size, alignment and value, found by its **rear offset**, the distance of
its first byte from the end of `data`. That is what `offset()` returns, and growth
at the front leaves it as it is. Where the code computes an index from
`data.count`, so does the model: an index computed before a growth would be wrong
here too. `Write` puts a cell over whatever is there, so a wrong index shows.
`Prepare` is `prepare` in one step, with a failing call keeping the alignment and
the growth.

**PrepareLoop** is `prepare` with its loop, one step for each turn, then one for
the padding and one for the caller's put. It shows that the loop ends and that its
end is the step Arena takes.

**Builder** has one action per public method, arguments from small sets and not
restricted to sensible ones. Failing halves are kept: `createVectorOfTables` that
meets an unreachable offset has written the elements behind it and stays open;
`finish(by:file:)` has written the identifier before it finds an object open;
`reset` forgets neither `objectEnd` nor `forceDefaults`; `startObject` on a
left-over vtable makes one entry too few.

**GeneratedClient** drives Builder in the order of the generated code and the unit
tests: things referred to first, fields between start and end, a struct where it is
added, `finishBuffer` last, after an error only `reset`. **FlatStore** is what that
client is promised: items built, committed and finished, each referring only to
items built before it and read as what was asked for. `Items`, `DraftRead` and
`RootRead` decode the cells by **FlatFormat** and are the refinement mapping.
`SchemaFits` and `TablesFit` say of a schema what the theorems need of it.

**SwiftReader** is the other side, with bytes: the getters of `base.swift`, the
accessors of `Struct` and `Table`, and the getters and setters the generator emits
for a table with a number, a struct, vectors of numbers and of structs, a table of
an older version and a string. Entries of a vtable and sizes are read signed, as the
code does. Every object has its own copy of the data. A byte has `ByteBase` values.

**SortedVector** lets one runtime (`setting.writer`) sort a vector by its keys and
another (`setting.reader`) look a key up; their comparisons, of strings and of
numbers, are those of each language: `strcmp` stops at a zero, Java compares signed
bytes, and the static `__offset` of a generated Swift class takes 16 bits.
`SettingsAgree` says when two runtimes agree.

### The C++ runtime

**VectorDownward** and **FlatBufferBuilder** are the builder, called as generated
C++ code calls it: vtables written, compared and popped again, the pool of shared
strings, required fields, size prefixes, release and clear. It implements the same
FlatStore as the Swift client.

**Verifier** runs generated `Verify` functions over byte-exact buffers in which any
byte was replaced or some of the offsets changed, or the end was cut off. One step
is one check; the rest of each chain of `&&`, and of each call around it, is the stack
`todo`; `reads` are the bytes a check reads. What a reader may follow is `Readable`, a
recursive function of how deep it goes.

**FlexBuffers** builds values, vectors and maps of every width front to back, reads
them through `Reference`, and changes them in place. A byte has `BYTE` values (16),
so that widths of 1, 2, 4 and 8 bytes are met with small numbers.

**Reflection** sets strings and numbers, resizes vectors, adds buffers, copies
tables and verifies, all by a schema and over bytes. The recursion of
`ResizeContext` is a stack of visits, so every intermediate buffer is a state.

### flatc

**Lexer** is `Parser::Next`, one action for each turn of its loops, and
`EscapeString`, which writes what it reads. **SchemaFields** adds fields to a struct
or table, lays the struct out on the way and sorts a table by its ids; the value of an
attribute is what `atoi` makes of it. **SchemaNames** looks types up through namespaces
and predeclares what is not there yet; `SymbolTable::Move` takes a name out of one
place and files it at the back. **CppHeader** writes a header from what it leaves, **ProtoSchema** gives its
`.proto` files, one step for each statement; `open` are the calls of `ParseProtoFields` inside of
each other, whether of a message, an extend statement, a oneof or a group. **SchemaIncludes** is `DoParse` calling itself; its stack of calls is
`calls`. **SchemaConform** compares two versions field by field. **JsonParser** is the
recursion of `ParseTable`, `ParseVector` and `ParseAnyValue` over their one field
stack; a document is parsed, printed and parsed again. **SchemaBinary** writes a
schema as a buffer, sorts and resorts its vectors, and reads it back. **Flatc** is the
driver: a command line, the files on it, each generator for each file, with paths
that cannot be written, wrong options and data without a schema. The root type, the text
and the make rules are set and made for each file too, and can fail there.

### Instances

`MCBuilder`, `MCClient` and `MCPrepareLoop` instantiate one module each. `MCSwift`,
`MCRuntime`, `MCSchema` and `MCData` are suites: their variable `part` is chosen in
the first state and says which module's steps a behaviour takes, while the variables
of the other modules keep their first values. Parts do not interact; a property
of a suite is that of a module, or the conjunction of the named properties of some, each
guarded by its part. The modules of the first are extended (`SortedVector` by `MCSwift`,
`FlatBufferBuilder` and `Verifier` by `MCRuntime`, `SchemaConform` and `CppHeader` by
`MCData`, `SchemaFields` and `SchemaIncludes` by `MCSchema`), so that what is checked is what
is proved; the others are instances. The `...Cases` modules hold the inputs of the suites: schemas, texts,
documents, buffers, command lines.

## 3. Runs

| Run | Question | States |
|---|---|---|
| `any_calls` | Objects, fields, references, vectors, strings, byte vectors, raw prepare, padding, identifiers, finish and reset of the Swift builder called in any order, also one inside of another, with any of them failing: what is written stays and lies apart, the builder's tables of offsets lead to it, offsets lead back, and no failure commits anything. Checked: `TypeOK`, `BookkeepingLeadsBack`, `CellsApart`, `OffsetsLeadBack`, `WrittenStays`, `FailedCallsCommitNothing` | 183 249 |
| `client_tables` | Nested tables of two types, strings, structs, forced defaults, reset and finish in the order of the generated Swift code: only the size limit can fail, and what a reader decodes is what was asked for. Checked: `OnlyCapacityFails`, `TablesWellFormed`, `FinishedStartsWithRoot`, `ImplementsFlatStore` | 107 978 |
| `client_vectors` | Vectors of scalars, offsets and structs from generated Swift code, empty ones included: every item is where its alignment wants it. Checked: `ItemsAligned` | 30 766 |
| `prepare_loop` | prepare of the Swift builder statement by statement, with its loop: it ends, there is room when it does, and it is the single step the other modules take it for. Checked: `RoomIsThere`, `ImplementsPrepare`, `PrepareEnds` | 6 170 |
| `swift` | Sorted vectors of string keys and of number keys written and searched by the runtimes that agree on the order, and the Swift accessors and setters over finished buffers: what was written is found and read, and the search ends. Checked: `LookupRight`, `KeyStaysInWindow`, `ReadsRight`, `DataKept`, `SearchEnds` | 258 659 |
| `cpp_runtime` | The C++ runtime: the builder with its pools, flexbuffers, the verifier over buffers damaged at every place, and reflection that sets, resizes and copies. What is built is read back, what the verifier accepts can be read to any depth without leaving the buffer, what is sound it refuses for its size only, and it ends. Checked: `BuiltSound`, `RoundTrip`, `VerifierSound`, `RefusesDamageOnly`, `SaysWhatIsMeant`, `ImplementsFlatStore`, `SharesExactStrings`, `Terminates` | 288 829 |
| `schema` | What reads a schema and what writes it again: tokens, includes in circles, structs, ids and .proto files. Checked: `GeneratesCurrentFile`, `StructLaidOut`, `SlotsById`, `GeneratedReadBack`, `EscapedReadBack`, `TextReadRight`, `IncludesEnd` | 933 164 |
| `data` | What is done with a parsed schema: versions compared, C++ headers with what they name declared first, documents read and written, binary schemas, and the files flatc reads and writes for a command line, with steps that fail. Checked: `OldDataReadable`, `CompleteWhenUsed`, `DocumentKept`, `ReadAsDeclared`, `GeneratedOnce`, `FailuresReported` | 412 807 |
| `shared` | Two tables with equal vtables do not share one. Violated: `VtablesShared` | - |
| `sorted_backwards` | A vector sorted by number keys in Swift is sorted downwards and searched upwards. Violated: `LookupRight` | - |
| `reader_last` | A buffer that ends with a vector of integers is read with a zero for its last element. Violated: `ReadsRight` | - |
| `binary_strings` | Of two shared strings that differ behind a NUL the second is given out as the first. Violated: `SharesExactStrings` | - |

### What the properties would catch

- `CellsApart`, `WrittenStays`: an index taken before a growth, a padding that clears
  written bytes, a write before `head` is lowered.
- `OffsetsLeadBack`: an offset beyond what is written, also in a vector given up
  half-way; readers that follow offsets always get nearer to the end.
- `BookkeepingLeadsBack`, `FailedCallsCommitNothing`: half a vtable registered, a
  buffer marked finished without root, leftovers of a reset, and fields left from an object
  that `endVector` has closed (`nested` is one flag for both) taken over by the next.
- `OnlyCapacityFails`: for a disciplined client no trap and no other error.
- `ItemsAligned`, `TablesWellFormed`, `FinishedStartsWithRoot`: the layout.
- `ImplementsFlatStore` (twice): every step, failed ones included, is one of the store.
- `RoomIsThere`, `ImplementsPrepare`, `PrepareEnds`: padding computed before the loop
  and stale after it, a limit jumped over by doubling, a doubling of nothing.
- `LookupRight`, `KeyStaysInWindow`, `SearchEnds`: two orders written at two places that
  differ, a window one too short, a span that stops shrinking.
- `ReadsRight`, `DataKept`: bounds, widths and absent fields in accessors; setters that
  write where the field is not.
- `BuiltSound`: vtables popped and their padding, the alignment and prefix of a finished
  buffer, its start found from its root, pools that outlive their buffer.
- `SharesExactStrings`: the string handed back is the one asked for.
- `VerifierSound`: whatever accessors are called on an accepted buffer, along whatever
  references, reads inside of it; the verifier itself reads inside; depth is counted down as
  it was counted up.
- `RefusesDamageOnly`: what is readable is refused for its depth or number of tables only.
- `Terminates`: offsets that lead back to themselves.
- `RoundTrip`: widths that depend on places that depend on widths; sorted keys; pools.
- `SaysWhatIsMeant`: offsets across a moved place, followed once and
  adjusted once; subobjects given to fields by counting.
- `StructLaidOut`, `SlotsById`: structs laid out as C lays them out, ids that fill the slots,
  a union's type in the slot before it.
- `CompleteWhenUsed`, `GeneratedReadBack`: uses that keep their meaning, all of them defined,
  declarations in an order C++ accepts, schemas that read back as what they were made of.
- `GeneratesCurrentFile`, `IncludesEnd`: files that include each other, begun anew after
  each include: all parsed once, dependencies complete, an end.
- `EscapedReadBack`, `TextReadRight`: every limit of UTF-8, surrogates, the end of the text
  inside of anything, lines counted.
- `OldDataReadable`: a version that conforms reads data written with the one before.
- `DocumentKept`: the shared field stack, struct members in any order, unions whose type
  comes later, text that parses back.
- `ReadAsDeclared`: references by index through two sorts, lookups by key, verification.
- `GeneratedOnce`, `FailuresReported`: the parser kept from file to file; errors through
  three layers that answer with booleans.

### Bounds, and why they are enough

- Builder and client: `MaxOffset` and `MaxItems` end the exploration (`Running`). In `any_calls`
  they are 9 bytes and 2 items: an object and a vector, whichever is started inside of the other,
  the buffer growing from 3 bytes to the limit of 16;
  `GrowLimit`, 16 or 32 (128 in `shared`), stands for 2^30, the code being the same for any power of two. No
  decision of the builder depends on more than the last item, the open vtable and the list
  of vtables, so two or three items give every pair of neighbours; a buffer grows two or
  three times from its first capacity, so that every write can be the one that grows; the
  limit is met inside of every multi-step call. Alignments reach 8, twice an offset's: the
  first value at which the two prepares of `startVector` differ.
- `prepare_loop`: limit 8, capacities empty, no power of two and beyond the limit, items of
  one and four bytes with and without additional bytes.
- Keys: four tables; strings with an empty one, a prefix of another and a byte beyond ASCII;
  numbers with their default. A binary search over four meets every shape of its window. In
  `sorted_backwards` two tables suffice.
- C++ builder: buffers of up to 46 bytes from a capacity of 1, structs of alignment 16,
  vectors of none and of two elements, two strings.
- Verifier: any one byte of a buffer replaced by one of seven values, small, large and at the
  sign (`damaged`); any two bytes of a smaller one by a small offset (`variants`); its offsets led
  back and to nowhere (`leading`); with the end cut off or not. Depth is limited to 2 and tables
  to 3, so both limits are met. Sums and products are as wide as a `size_t`: `LargestBuffer` is
  131 071 for 2^31 - 1 and `SizeRange` 262 144 for 2^32, both scaled by 2^14, so that the byte size of
  a vector with a damaged length wraps around to one that fits, were the length not bounded
  first (`flatbuffers.h:1443`).
- Flexbuffers: four calls with one mutation, or nine for maps of keys one of which is a
  prefix of another.
- Reflection: two changes one after the other, of two buffers with shared and nested tables.
- Schemas: includes between three files, two statements each, one that is missing and one
  native; up to four fields; six declarations for a header and four statements for a `.proto`, with messages, enums, extend
  statements, groups and oneofs in any of each other; texts
  put together from pieces that meet every loop of `Next`. `Bits` is 8 for 64.
- Documents, schemas in binary, versions and command lines are those of the `...Cases` modules.
  The versions compared are of tables; structs are not among them (section 4).
- A field of the client's drafts is given once. That a default given to a field after
  another value leaves the other value is not explored.

### Fairness

Builders do nothing on their own, and nothing schedules their clients: no fairness, no
liveness. Four pieces of code run until they are done once they are called, alone in their
caller's thread: the loop of `prepare`, a search, `DoParse`, and a verification. Weak fairness
of exactly their steps (`Fairness` in PrepareLoop, `SuiteSearch`, `ParseIncludes`,
`VerifyLeading`) says that a call that can go on does, and `PrepareEnds`, `SearchEnds`,
`IncludesEnd` and `Terminates` say that it ends. In none of them does fairness choose between
alternatives: each step is determined.

### Mutants

Operators marked "Mutant" are plausible bugs of the definition that follows them (a stale
index, a missing reset, a dropped check, an off-by-one). No specification uses them; each
property of a passing run is violated when one takes its definition's place.

## 4. Where code and documents disagree

Four disagreements are runs that TLC ends with a counterexample; each is a finding in
`PROJECT.json`.

- `shared`: vtables are never shared. The candidate is cut one byte too long
  (`builder.swift:443`), so the lengths compared never agree. `Internals.md:88` says they are.
- `sorted_backwards`: the Swift generator sorts number keys downwards (`idl_gen_swift.cpp:348`)
  and searches them upwards (352).
- `reader_last`: `getInteger` answers 0 for an integer that ends where the data does
  (`base.swift:28`): the last element of the first vector a client builds.

- `binary_strings`: `CreateSharedString` compares with what is in the pool up to the first NUL
  (`flatbuffers.h:1319`), although strings "can contain any binary data" and only one with "this
  exact contents" is to be given out again (`flatbuffers.h:971`).

The others are in the modules as the code has them, and the instances of the passing runs
leave out the inputs that meet them.

The Swift runtime and generator:

- `createByteVector` makes room for a terminator it does not write (`builder.swift:396`): the
  length is not aligned, against `Internals.md:11`. `client_vectors` builds no byte vector.
- `startObject` forgets the alignment of what is there (`builder.swift:141`): a finished buffer
  may be no multiple of it. Java's builder, which this one follows, keeps it.
- A `byte` field with a negative value traps (`writer.swift:45`), a table without fields traps
  when started (`builder.swift:134`). The client's schemas have neither.
- Elements of a vector of structs are read four bytes apart whatever their size
  (`table.swift:175`); `StructSize` is 4.
- The accessor of a struct or table that is absent does not look (`idl_gen_swift.cpp:504`) and
  reads the start of its parent; a setter of an element of an absent vector writes there
  (`table.swift:63`), against `README.md:91`. `IndexAbsent` is FALSE.
- Every object has its own copy of `Data` after a mutation (`struct.swift:20`); `README.md:79`
  says they share it.
- Entries of a vtable are written unsigned and read signed (`base.swift:85`), and distances are
  cut to 16 bits without a check (`builder.swift:457`). Tables of the runs are smaller, and
  `TablesFit` asks it of the schemas of the theorems.
- A key equal to its default is not stored, and sorting and lookup read it from slot 0
  (`idl_gen_swift.cpp:351`, `idl_gen_general.cpp:691`); Java compares the bytes of keys as signed
  (`Table.java:254`), the others as unsigned. `Settings` pairs runtimes that agree.
- A generated class is saved under its name alone, without the output path or its namespace
  (`idl_gen_swift.cpp:826`): of two tables `A` in two namespaces one file is left.

The C++ runtime:

- `CreateVectorOfStructs` and `ForceVectorAlignment` align without recording it
  (`flatbuffers.h:1139`, 928): `Finish` does not align the buffer to them. `FinishedAligned` leaves the
  elements of such vectors out.
- The pools of flexbuffers compare up to a NUL too (`flexbuffers.h:1329`). No string of
  the passing runs has one.
- The generated verifier of a vector of unions reads the vectors without a look whether they are
  there (`idl_gen_cpp.cpp:737`): the process ends, which is the verdict "crashed".
- flexbuffers: `IndirectDouble` of a value that fits a float is written as four bytes of a
  double (791); a typed vector of strings holds sizes of one byte (656); a fixed vector of two
  keys has the type of another vector (93); `UInt` with a key is `Int` (755); `ScalarVector` does
  not align (1236); the size of a map, read as a number, is 0 (374). The instances leave out the
  first three; `RoundTrip` does not tell the others.
- Reflection: a vtable that begins where a vector grows (`reflection.cpp:186`); large elements cleared at
  the wrong end (177); vectors of unions copied byte for byte (425); strings pooled in the
  outermost table only (383); depth counted up and never down in `Verify` (609); required strings
  not required (651); codes of union members taken for indices (684).

The parser:

- A struct may contain itself (`idl_parser.cpp:606`); a definition predeclared in the root
  namespace is taken over by the next of its name anywhere (1178), without a look whether the
  name is taken (1184); `root_type` and rpc types may turn out to be structs (1956, 1461). The
  runs ask `DefinedThenScoped` of names used after they are defined.
- A file included by two names is parsed twice and refused (1906); `Itself` gives each one.
- `--conform` accepts a struct that grew (2186), and dereferences a null enumeration when only one
  type has one (`idl.h:323`); the versions have no plain `byte`, the base of their enumerations.
- JSON: of two fields of one union, both types before them, the first is parsed as the second's
  type (749); 255 is accepted for a byte (95). The documents of the runs have neither.
- Binary schemas: the default of a large `ulong` is cut to the largest `long` (2105).
- Tokens: a documentation comment on the first line is refused (351); a lone minus sign is a
  number (449); a hexadecimal constant too large is -1 (463).
- `.proto`: a message used before its definition is found in another message (1179); a top level
  message's name is looked up from inside without a package (`idl_gen_fbs.cpp:29`); `deprecated`
  is never set (1700). A field that an extend statement defines again keeps its type (1677-1682), but a
  scalar can become required so (1684), and what is none can get a default (1698): the schema
  generated is then refused. `GeneratedReadBack` excepts exactly these (`Mixed`), and asks that they
  are refused.

flatc:

- C++ gRPC files ignore the output path (`idl_gen_grpc.cpp:264`) and hold the services of included
  schemas (206); of two `.proto` files the second's schema repeats the first's (`flatc.cpp:342`),
  and with a new output directory none is written, with exit code 0.
- `StripExtension` looks for a dot in the directories too (`util.h:173`); `SaveFile` does not see
  that a full device refuses the last bytes (149).
- Make rules name files of included schemas (`idl_gen_general.cpp:1370`), C# files for Go, Python, PHP and
  Swift (`flatc_main.cpp:98`), and stop flatc for a schema without a root type (1424) or a binary
  (`idl_parser.cpp:2021`).
- C++ headers: the root type is named with the last namespace (`idl_gen_cpp.cpp:170`); a qualified name
  is looked up from inside of other namespaces (`code_generators.cpp:122`); two file names can share an
  include guard (`idl_gen_cpp.cpp:46`); an include of the same base name is left out (72).

## 5. Proofs

| Theorem | Says |
|---|---|
| `ClientProofs!BuilderTypeOK` | Types hold whatever is called: head never leaves data. |
| `ClientProofs!BuilderCellsApart` | No two items ever share a byte, for every growth, padding, failure and order of calls. |
| `ClientProofs!BuilderOffsetsLeadBack` | Every table offset ever written leads to bytes written before it. |
| `ClientProofs!BuilderWrittenStays` | No call but reset changes or moves an item written by an earlier call. |
| `ClientProofs!BuilderBookkeepingLeadsBack` | Recorded fields are of bytes written since their object was started, and registered vtables of bytes completely written, after failures, resets and vectors ended inside of an object too. |
| `ClientProofs!BuilderFailedCallsCommitNothing` | A failed call registers no vtable, finishes nothing and closes nothing. |
| `SortedVectorProofs!SortedTypeOK` | Types hold; the table found is a table of the vector because no probe leaves it. |
| `SortedVectorProofs!SortedProbesInside` | No lookup reads outside the vector, of whatever length and however unsorted it is. |
| `SortedVectorProofs!SortedWindowHoldsKey` | For every order of keys that the vector respects, the part still searched holds the key if any table does. |
| `SortedVectorProofs!SortedMissingIsAbsent` | A lookup in a vector sorted for the reader that finds nothing is right. |
| `SortedVectorProofs!SortedSortedForSearch` | A vector sorted by one runtime is sorted for every runtime that orders its keys alike, however many tables there are. |
| `SortedVectorProofs!SortedKeyStaysInWindow` | A search in what a runtime that agrees has sorted never drops the part the key is in. |
| `SortedVectorProofs!SortedLookupRight` | A lookup finds a table with the key sought if there is one, and else none, in vectors of any length, between runtimes that agree. |
| `PrepareLoopProofs!PrepareTypes` | head stays in data and data below four times the limit for every capacity and size. |
| `PrepareLoopProofs!PrepareRoom` | A prepare that returns leaves what was asked for until it is used. |
| `PrepareLoopProofs!PrepareImplements` | The loop implements the operator Prepare the other models of the builder use, for every limit, capacity and size. |
| `PrepareLoopProofs!PrepareItemsKept` | No doubling, padding or put moves or changes an item. |
| `SchemaProofs!ConformOldDataReadable` | For every two versions that conform, fields of one offset have one type, and one default if they keep their name. |
| `SchemaProofs!ConformNamesKeepTheirPlace` | For every two versions that conform, kept names keep offsets and values. |
| `SchemaProofs!ConformAdditions` | Versions that only add, at the end of tables, are never refused. |
| `SchemaProofs!IncludesGeneratesCurrentFile` | Whatever files include each other, in a cycle or by several names, code is generated for the definitions of the given file and for no others, unless all was asked for. |
| `SchemaProofs!FieldsTypeOK` | Sizes, offsets and alignments are those of a layout, whatever the declarations. |
| `SchemaProofs!FieldsStructLaidOut` | Every struct that does not contain itself is laid out as C lays it out, nested to any depth, with any forced alignment. |
| `SchemaProofs!FieldsSlotsById` | Fields of a table that has ids are in the slots the ids say, all slots are filled, and a union's type is in the slot before it. |
| `CppHeaderProofs!SchemaNamesTypeOK` | The vector of definitions holds each once and the index of names leads to them, after any uses before definition, renames and moves. |
| `CppHeaderProofs!SchemaNamesScoped` | A use of what was defined before it means a definition of a namespace around it; all that an accepted schema uses is defined. |
| `CppHeaderProofs!CppHeaderComplete` | Every C++ header is complete where it uses something: with included files, what it uses is in it or in one it includes, behind what it needs; namespaces open and close in pairs, and each piece is in its own. |
| `ClientProofs!ClientOnlyCapacityFails` | A client of the generated code meets no error but that of a buffer that cannot grow. |
| `ClientProofs!ClientItemsAligned` | Every item of every buffer is at a multiple of its alignment, counted from the end. |
| `ClientProofs!ClientTablesWellFormed` | A finished table has its vtable right before it, which names each field once and takes in the table and nothing else. |
| `ClientProofs!ClientFinishedStartsWithRoot` | A finished buffer starts with the offset of its root, the identifier right behind it. Its alignment is not claimed (section 4). |
| `ClientProofs!ClientImplementsFlatStore` | Driven as generated code drives it, the Swift builder implements FlatStore: what a reader decodes is what was asked for, at every moment. |
| `FlatBufferBuilderProofs!BuilderTypes` | What the C++ builder has written is in the buffer it reserved; a table is open exactly while `nested` says so, with fields of its type. |
| `FlatBufferBuilderProofs!BuilderBuiltSound` | Whatever is called in whatever order, and whichever assert fails: `vtables_` lists the vtables there are, no two alike where they are shared, the fields of every table lie in it where its vtable says, the pool leads to strings of which no two are alike, and a finished buffer is aligned, counted by its prefix and found from its root. |
| `FlatBufferBuilderProofs!BuilderImplementsFlatStore` | For a client that adds no field twice, the C++ builder implements FlatStore: what a reader decodes of every item, of the open table and of the root is what was given, and no call changes it. |
| `FlatBufferBuilderProofs!BuilderSharesExactStrings` | `CreateSharedString` returns a string that reads as the one it was given. |
| `VerifierProofs!VerifierTypes` | Verdict, stack and limits agree, for every schema and every bytes. |
| `VerifierProofs!VerifierReadsInside` | The C++ verifier reads no byte outside of the buffer, whatever the bytes are. |
| `VerifierProofs!VerifierIsSound` | What it accepts can be read along all references, to any depth and in cycles, without leaving the buffer; and depth is that of the calls. |

Assumed are the named ASSUMEs of the modules, and for some theorems, in their
statement, what the code does not check; TLC evaluates all of them on the instances.

- The ASSUMEs: `GrowAssumption` (the ladder of doublings reaches the limit),
  `BuilderAssumption` (types of arguments, alignments are powers of two up to 32),
  `ClientAssumption` (sizes of structs are multiples of their alignments),
  `PrepareAssumption` and `DoublingsAssumption` (sizes; the doublings are the powers of two
  up to the limit), `ConformAssumption` (versions are well formed: names and offsets
  distinct), `IncludesAssumption` (the main file is there, `native_include` is no path),
  `SortedAssumption` (types of settings) and `VerifierAssumption` (types of the schema, with the
  type field the parser puts before a union; bytes are 0 to 255; buffers are smaller than a
  `size_t` counts, `LargestBuffer + 4 < SizeRange`).
- `SchemaFits`: tables have a field, and few enough to count their vtable in 16 bits;
  identifiers have four characters of one byte, as `flatc` demands; no `byte` is negative.
  The code traps on each of them (section 4).
- `TablesFit`, for `ClientTablesWellFormed` and `ClientImplementsFlatStore`: the bytes of a table are counted in 16 bits.
  `builder.swift:457` cuts them without a look.
- `ByteVectors = FALSE`, for `ClientItemsAligned`: `createByteVector` does not align (section 4).
- `KeysTyped`, `SettingsAgree`, for sorted vectors: the keys have their types; writer and
  reader find a key where it is and order keys alike. Where they do not is section 4.
- `BuilderConstants`, for the C++ builder: types of the schema and of arguments; structs have a
  field, an alignment that `flatc` lets through (1 to 16, `idl_parser.cpp:1390`) and a size that
  is a multiple of it.
- `StoreConstants`, for `BuilderImplementsFlatStore` and `BuilderSharesExactStrings`: that, no field
  added twice (in a generated builder it would be one `add_` called twice, which `EndTable` asserts
  against, `flatbuffers.h:869`), and no NUL in a text: the pool compares up to a NUL (section 4).
- `NamesTyped` and `FieldsTyped`: types of names, declarations and attributes. For headers
  also that no included file has the name of the schema, whose header would be the same file.

**The builder.** A buffer is `Good` when it has its types, its cells are apart and behind
`head`, and its offsets lead back. `Continues(a, b)` says b is Good, keeps every cell of a and
reaches at least as far. Every operator of Arena, applied to a Good buffer, continues it (one
lemma each), and continuing is transitive, so a whole call does, whichever of its steps fails;
the exception is the patch of a table's soffset, which overwrites a cell, but one the same call
has just written (`WriteVirtualTableContinues`). Hence the inductive invariant

    IInv == TypeOK /\ CellsApart /\ OffsetsLeadBack

None of the three is inductive alone: offsets keep leading back because cells stay where they
are; cells stay apart because nothing is in front of `head`; that `head` does not go below zero
is in the types. `NextContinues` says more than that it is preserved: every step continues the
buffer or empties it, which is `WrittenStays`. `BookkeepingLeadsBack` is inductive relative to
IInv: a recorded field is behind `objectEnd` because no call but `startObject` sets either
back, and that one clears the fields left over (`builder.swift:129`); a registered vtable stays complete because every call continues the buffer, and is
complete when registered because a failing vtable returns before. `FailedCallsCommitNothing`
follows for each action, given IInv.

**The client.** `CInv` is IInv with the builder `InStep` with its client: a table is open for one
when it is for the other, with an entry for each field of its type, and registered vtables are
complete. Each call of generated code is shown to make the buffer `Grow`: what was written
before stays, what is new is in front of it, of some kinds, and aligned; that is
`ClientItemsAligned`. That nothing but capacity fails is that the guards of every builder call hold,
since its arguments are offsets of items. `FInv` adds that only `finish` writes an identifier
and that the offset of the root is the first thing in the buffer. `TInv` holds both what
`TablesWellFormed` says of finished tables and `Draft`, the same of the table being built: what was
written since it was started is its fields, each noted once in `vtable`. It needs `Narrow`, the
bytes those fields can take by their types, because an entry is a distance cut to 16 bits.

**The store.** `SInv` is CInv, TInv and `LengthsLead`: the elements of a vector are right behind its
length. So all that a reader follows from an item is in cells that are there (`AllSound`), which
no call changes, and what is decoded of it stays the same (`ItemKept`). Each call of
the client is then one step of FlatStore: it either adds one item, read as what it was made
of (`StoreBuilds`, `StoreCommits`), adds one field to the draft (`StoreSets`), or leaves nothing
to read behind when it fails (`StoreFails`), although cells were written.

**The C++ builder.** `BuildInv` is `BuiltSound` and what keeps it so: the cells are in the buffer
(`Typed`), each at a multiple of its alignment, which `minalign_` has taken in (`Placed`); the
list of vtables is the set of those written (`Listed`) and no two are alike (`Different`); the table
that is open has its fields where its locations say (`DraftIn`), and there is no prefix before
`finished` (`NoPrefix`). Every operator of the buffer makes it `Roomier`, writes one cell
(`OneMore`, `VectorMore`), closes a table (`TableMore`) or ends it (`Finishes`), and each of these `Keeps`
what was there. A string or a vtable that was known already is popped again and leaves the same
cells (`PopBack`, `SameCells`). That `GetBufferStartFromRootPointer` finds the start within the five words it
looks at (`FoundIn`) is that padding is less than 16 bytes.

**The C++ builder as a store.** `StoreInv` adds to BuildInv what a reader goes by: a vector that is not
empty is right behind its length (`LengthsLead`), no two locations are of one field (`Once`),
what the pool holds is one of the texts as it was given (`PoolRead`), and so was the string
that was last shared (`ShareTold`). What a reader decodes at a place follows cells by their distances
from the end of the buffer, so it stays the same while cells are kept (`ReadKept`, `ItemsSame`).
Each call is then a step of FlatStore: `StoreBuilds` and `StoreShares` add one item, or return
the one the pool had, `StoreSets` and `StoreSkips` add a field to the draft or leave a default
out, `StoreCommits` makes the draft an item, also where its vtable was one that was known,
`StoreFinishes` names the root, `StoreReleases` and `StoreClears` forget everything, and a failed
assert ends it (`StoreFails`). ForceDefaults and DedupVtables are stutters (`StoreStutters`).

**The loop of prepare.** `Prepare` stops at the least size of the ladder of doublings that is
enough. `NextRung`: doubling leads from one rung to the next and skips none. `PrepareInv` says
that the loop is on a rung below which no rung was enough, with the padding still that of the
call, so that where it stops is where `Prepare` says.

**ConformTo.** `ConformInv` says of every pair of fields behind the comparison what it has
established: the same name only at the same offset, the same offset only with the same type
and, under one name, the same default. At the end no pair is ahead.
Conversely `AdditionsConform`: while the loops run, nothing that was only added is refused.

**The verifier.** Its invariant has two halves. `IInv` is about the next step: what a check on
the stack will read has been checked already, or will be by a check above it (`AllReady`), so
nothing is read outside of the buffer; and the depth counted is the number of tables open on the
stack (`Counted`). `CoverInv` is about what is behind: there is a set of tables that have been
entered, and every question a reader can ask of one of them is answered (`Done`), asked by a
check on the stack, or ahead in a loop that is running (`Covered`). When the stack is empty,
all are answered, and the tables of the set refer to each other only. That such a set is
readable to any depth, cycles included, is the one induction: the least depth at which one of
them would not be has a predecessor (`ReadableToAnyDepth`). The recursive function `Readable` is
shown to be one, level by level, before it is used (`LevelsExist`, `LevelsAgree`), since the
library's theorem about such definitions is out of the prover's reach.

**Includes.** `MarkedSoFar`: until the first call ends, it is that of the file flatc was given,
and everything declared up to then is marked, because each return to a file begins it anew and
marks all there is. The file's own definitions come after its last include.

**Fields.** Between two declarations every definition is `Closed`; one that is being parsed is
`Opened`, with its last field. `Laid` says that each field of a struct begins at the first
multiple of its alignment behind the one before, `Fresh` and `Tabled` the same of slots.
Definitions that are closed do not change, and a struct contains only what was closed before
or itself. That the ids fill the slots is counting: as many different numbers below n as there
are fields leave no slot empty (`IdsDiffer`).

**Names.** A definition is registered under its own name only (`Filed`), although predeclared
ones move, and one that is no longer predeclared never changes. So what a use found
when it was defined it still finds (`Settled`), and the innermost scope that has it is a
least number.

**Headers.** What is behind the definition being parsed has only been predeclared (`Latest`), a
definition that was completed does not move again (`FixedComplete`), so a struct comes behind the
structs it contains (`Ordered`), and enums are numbered in the order they were declared
(`EnumsInv`). The loops that write a header keep it so: `PiecesAt` says which piece is at which
place. A header on its way (`HeaderInv`) has `Written` what is behind the loop and has all that is
`Ahead`. The namespace open at a place is what the text opened and did not close in front of it
(`OpenAt`); that it is the one the generator believes open (`OpenIs`) is by the least
place where it would not be: switching closes down to the common part of the two names and opens
the rest (`CommonIs`, `OneOpened`).

**Search.** `Partitioned` is all the search needs to know of an order: what compares above the
key is behind what compares below. `Kept` says that whatever has the key is inside of the
window; that the halves are cut without losing it is arithmetic on the middle. That the vector
is partitioned is where sorting comes in: two different strings differ first at some byte, a
least number, so the order of keys is total, and what is sorted by it is partitioned for
every key (`Stored`).

Only model-checked: flexbuffers and reflection, for which no inductive invariant has been
worked out; that the verifier refuses nothing sound; the Swift readers and setters; tokens,
`.proto` files, JSON, binary schemas and flatc, and the four liveness properties. Beyond the
prover are liveness under fairness, ENABLED, induction over data (what a recursive decoder
computes), and modules with RECURSIVE operators (Flatc, FlexBuffers, JsonParser, Reflection).

## 6. Not modelled, and why

- Floating point numbers as bytes (reading, writing, printing): conversions without state.
  FlexBuffers models when a number fits a float, not its bits.
- The text of generated code: each generator is a translation of one definition at a time.
  What is modelled of it is its effect when called (GeneratedClient, SwiftReader, SortedVector,
  Verifier, FlatBufferBuilder), the order and namespaces of a C++ header (CppHeader), and which
  files come from which definitions (Flatc). The Go, JavaScript, PHP, Python and gRPC texts and
  the C++ object API (`Pack`, `UnPack`) are left out.
- The runtimes in Java, C#, Go, Python, JavaScript and PHP, but for their keys: they repeat the
  C++ runtime.
- Parsing of service options, `file_identifier`, documentation in binary schemas, nested
  buffers and hashed fields in JSON, what `.proto` parsing skips. One hazard is there:
  skipping to a closing brace (`idl_parser.cpp:1735`) does not look for the end of the file.
- `Builder.init(data:)` with data that is not empty and `getData` of a builder written to after
  `finish`: no document says what they should do, and nothing in the repository does it.
- `flathash`, samples, tests and build files.
