------------------------------- MODULE Flatc -------------------------------
(***************************************************************************)
(* The flatc driver: FlatCompiler::Compile takes the command line one      *)
(* argument at a time, then the files one by one, each through every       *)
(* generator that was asked for.  A file is what the driver can tell of    *)
(* it: its includes, its declarations, its JSON objects; a generated file  *)
(* is the definitions or the data in it, and is not read again.  A path is *)
(* a sequence of parts, with "/" and "." parts of their own.               *)
(***************************************************************************)
EXTENDS Naturals, FiniteSets, SequencesExt

CONSTANTS
    Sources,        \* path -> the file there
    Commands,       \* command lines
    Unwritable,     \* paths that cannot be opened for writing
    Full            \* paths on a device without room for what a stream buffers

VARIABLES
    args,           \* what is left of the command line
    opt,            \* what it asks for
    filenames,
    parser,
    conform_parser,
    at,             \* the file being processed
    gen,            \* the generator that is next
    phase,
    disk,           \* path -> generated file
    dirs,           \* directories
    failed,         \* paths SaveFile failed for
    rules           \* make rules printed

vars == <<args, opt, filenames, parser, conform_parser, at, gen, phase, disk, dirs, failed,
          rules>>

-----------------------------------------------------------------------------
(* Paths.                                                                  *)

Places(path, part) == {k \in DOMAIN path : path[k] = part}
LastPlace(path, part) == Max({0} \cup Places(path, part))
Until(path, k) == SubSeq(path, 1, k - 1)
After(path, k) == SubSeq(path, k + 1, Len(path))

StripExtension(path) ==
    IF Places(path, ".") = {} THEN path ELSE Until(path, LastPlace(path, "."))
GetExtension(path) ==
    IF Places(path, ".") = {} THEN <<>> ELSE After(path, LastPlace(path, "."))
StripPath(path) == After(path, LastPlace(path, "/"))
StripFileName(path) ==
    IF Places(path, "/") = {} THEN <<>> ELSE Until(path, LastPlace(path, "/"))
ConCatPathFileName(path, name) ==
    (IF path # <<>> /\ Last(path) # "/" THEN Append(path, "/") ELSE path) \o name

\* EnsureDirExists makes every directory on the way.
Ensured(ds, path) ==
    ds \cup {Until(path, k) : k \in Places(path, "/") \ {1}}
       \cup (IF path = <<>> \/ Last(path) = "/" THEN {} ELSE {path})

-----------------------------------------------------------------------------
(* The parser, as far as the driver goes.                                  *)

NoData == [kind |-> "none", from |-> <<>>]
FreshParser ==
    [ok |-> TRUE, defs |-> <<>>, generated |-> {}, namespace |-> <<>>,
     root |-> 0, file_identifier |-> "", file_extension |-> "", builder |-> NoData,
     included |-> {}, per_file |-> [f \in {} |-> {}]]

MarkGenerated(p) == [p EXCEPT !.generated = DOMAIN p.defs]

\* The first of the include directories that has the file, or else the last.
Located(directories, name) ==
    LET found == {k \in DOMAIN directories :
                    ConCatPathFileName(directories[k], name) \in DOMAIN Sources}
        k     == IF found = {} THEN Len(directories) ELSE Min(found)
    IN  ConCatPathFileName(directories[k], name)

FullName(d) == Append(d.namespace, d.name)

\* The parser keeps tables and structs in structs_, enums, and services.
IsStruct(d) == d.kind \in {"table", "struct"}
SameTable(d, e) == d.kind = e.kind \/ (IsStruct(d) /\ IsStruct(e))
SameName(d, e) == SameTable(d, e) /\ FullName(d) = FullName(e)

\* "datatype already exists", "enum already exists", "service already exists"
Clash(defs) == \E j, k \in DOMAIN defs : j < k /\ SameName(defs[j], defs[k])

\* SetRootType: a name in full, or else one in the current namespace.
SetRootType(defs, namespace, name) ==
    LET called(full) == {k \in DOMAIN defs : IsStruct(defs[k]) /\ FullName(defs[k]) = full}
    IN  Max({0} \cup IF called(name) # {} THEN called(name) ELSE called(namespace \o name))

\* What follows the includes of a file.
Declared(p, f, path, flags) ==
    LET defs  == p.defs \o [k \in DOMAIN f.declares |-> f.declares[k] @@ [file |-> path]]
        root  == IF f.root = <<>> THEN p.root ELSE SetRootType(defs, f.namespace, f.root)
        ok    == /\ f.proto = ("proto_mode" \in flags) /\ ~Clash(defs)
                 /\ f.root # <<>> => root # 0 /\ defs[root].kind = "table"
                 /\ f.objects > 0 => root # 0
                 /\ f.objects <= 1
    IN  [p EXCEPT !.ok = ok, !.defs = defs, !.root = root, !.namespace = f.namespace,
                  !.file_identifier = IF f.file_identifier = "" THEN @ ELSE f.file_identifier,
                  !.file_extension  = IF f.file_extension = "" THEN @ ELSE f.file_extension,
                  !.builder = IF f.objects = 1 THEN [kind |-> "object", from |-> path]
                              ELSE NoData]

\* An include is parsed, everything so far marked, and the file begun anew.
RECURSIVE DoParse(_, _, _, _)
DoParse(p, path, directories, flags) ==
    LET f     == Sources[path]
        to(k) == Located(directories, f.includes[k])
        fresh == {k \in DOMAIN f.includes : to(k) \notin p.included \cup {path}}
        seen  == {to(k) : k \in IF fresh = {} THEN DOMAIN f.includes ELSE 1 .. Min(fresh)}
        begun == [p EXCEPT !.included = @ \cup {path},
                           !.per_file = [g \in DOMAIN @ \cup {path} |->
                               (IF g \in DOMAIN @ THEN @[g] ELSE {})
                               \cup (IF g = path THEN seen ELSE {})]]
    IN  IF fresh = {} THEN Declared(begun, f, path, flags)
        ELSE IF to(Min(fresh)) \notin DOMAIN Sources THEN [begun EXCEPT !.ok = FALSE]
        ELSE LET q == DoParse(begun, to(Min(fresh)), directories, flags)
             IN  IF ~q.ok THEN q
                 ELSE DoParse(IF "generate_all" \in flags THEN q ELSE MarkGenerated(q),
                              path, directories, flags)

GetIncludedFilesRecursive(p, path) ==
    LET step[files \in SUBSET p.included] ==
            LET more == files \cup UNION {p.per_file[f] : f \in files}
            IN  IF more = files THEN files ELSE step[more]
    IN  step[{path}]

\* What both have, services apart, has not changed.  A shape is what ConformTo
\* compares of a definition (in detail: SchemaConform).
ConformTo(p, base) ==
    \A k \in DOMAIN p.defs, j \in DOMAIN base.defs :
        p.defs[k].kind # "service" /\ SameName(p.defs[k], base.defs[j])
        => p.defs[k].shape = base.defs[j].shape

-----------------------------------------------------------------------------
(* Generators, in the order of the table of flatc_main.                    *)

Generators == <<
    [lang |-> "Binary", short |-> "-b", long |-> "--binary", ext |-> <<>>],
    [lang |-> "Text",   short |-> "-t", long |-> "--json",   ext |-> <<".", "json">>],
    [lang |-> "C++",    short |-> "-c", long |-> "--cpp",    ext |-> <<"_generated", ".", "h">>],
    [lang |-> "Go",     short |-> "-g", long |-> "--go",     ext |-> <<".", "go">>],
    [lang |-> "Java",   short |-> "-j", long |-> "--java",   ext |-> <<".", "java">>],
    [lang |-> "JS",     short |-> "-s", long |-> "--js",     ext |-> <<"_generated", ".", "js">>],
    [lang |-> "C#",     short |-> "-n", long |-> "--csharp", ext |-> <<".", "cs">>],
    [lang |-> "Python", short |-> "-p", long |-> "--python", ext |-> <<".", "py">>],
    [lang |-> "PHP",    short |-> "",   long |-> "--php",    ext |-> <<".", "php">>],
    [lang |-> "Swift",  short |-> "-w", long |-> "--swift",  ext |-> <<".", "swift">>]>>

Services(p)  == {k \in DOMAIN p.defs : p.defs[k].kind = "service"}
Types(p)     == DOMAIN p.defs \ Services(p)
Unmade(p)    == DOMAIN p.defs \ p.generated
\* Enums come before structs.
Before(p, a, b) ==
    IF p.defs[a].kind = p.defs[b].kind THEN a < b ELSE p.defs[a].kind = "enum"
InOrder(p, ks) == SetToSortSeq(ks, LAMBDA a, b : Before(p, a, b))
IsEverythingGenerated(p) == Types(p) \subseteq p.generated

\* A file to be saved, after the directories it needs.
Write(p, lang, ds, path, ks, data) ==
    [ensure |-> ds, path |-> path,
     file |-> [lang |-> lang, defs |-> {p.defs[k] : k \in ks}, data |-> data,
               read |-> p.included, input |-> at, whole |-> TRUE]]

NamespaceDir(path, namespace) ==
    IF "one_file" \in opt.flags THEN path
    ELSE path \o FlattenSeq([k \in DOMAIN namespace |-> <<namespace[k], "/">>])

\* __init__.py goes into the directories of the last namespace of the parser.
InitPys(p, out) ==
    [k \in DOMAIN p.namespace |->
        Write(p, "Init", <<>>,
              out \o Tail(FlattenSeq([j \in 1 .. k |-> <<"/", p.namespace[j]>>]))
                  \o <<"/", "__init__", ".", "py">>, {}, NoData)]

\* SaveType of one definition.
SwiftFile(p, g, k) ==
    <<Write(p, g.lang, <<>>, <<p.defs[k].name>> \o g.ext, {k}, NoData)>>
ClassFile(p, g, out, k) ==
    LET directory == NamespaceDir(out, p.defs[k].namespace)
    IN  <<Write(p, g.lang, directory, directory \o <<p.defs[k].name>> \o g.ext, {k}, NoData)>>
PythonFiles(p, g, out, k) == InitPys(p, out) \o ClassFile(p, g, out, k)
SaveType(p, g, out, k) ==
    CASE g.lang = "Swift"  -> SwiftFile(p, g, k)
      [] g.lang = "Python" -> PythonFiles(p, g, out, k)
      [] OTHER             -> ClassFile(p, g, out, k)

BinaryFileName(p, out, base) ==
    out \o base \o <<".", IF p.file_extension = "" THEN "bin" ELSE p.file_extension>>
GenerateBinary(p, g, out, base) ==
    IF p.builder = NoData THEN <<>>
    ELSE <<Write(p, g.lang, <<>>, BinaryFileName(p, out, base), {}, p.builder)>>

\* GenerateText gives up at a string that is not UTF-8; one that was parsed is.
GeneratesText(p) ==
    p.builder.kind = "binary" /\ p.root # 0 =>
        Sources[p.builder.from].utf8 \/ "allow_non_utf8" \in opt.flags

TextFileName(out, base) == out \o base \o <<".", "json">>
GenerateTextFile(p, g, out, base) ==
    IF p.builder = NoData \/ p.root = 0 THEN <<>>
    ELSE <<Write(p, g.lang, <<>>, TextFileName(out, base), {}, p.builder)>>

OneFile(g) == g.lang \in {"Java", "C#"} /\ "one_file" \in opt.flags
GeneratedFileName(g, out, base) == out \o base \o g.ext
GenerateOneFile(p, g, out, base) ==
    IF IsEverythingGenerated(p) THEN <<>>
    ELSE <<Write(p, g.lang, IF OneFile(g) THEN out ELSE <<>>, GeneratedFileName(g, out, base),
                 Types(p) \cap Unmade(p), NoData)>>

GenerateClasses(p, g, out) ==
    LET ks == InOrder(p, Types(p) \cap Unmade(p))
    IN  FlattenSeq([i \in DOMAIN ks |-> SaveType(p, g, out, ks[i])])

\* The files a generator writes, in order.
Generate(p, g, out, base) ==
    CASE g.lang = "Binary" -> GenerateBinary(p, g, out, base)
      [] g.lang = "Text" -> GenerateTextFile(p, g, out, base)
      [] g.lang \in {"C++", "JS"} \/ OneFile(g) -> GenerateOneFile(p, g, out, base)
      [] OTHER -> GenerateClasses(p, g, out)

\* Services are all written when one of them is new.
GenerateCppGRPC(p, base) ==
    << Write(p, "GRPC", <<>>, base \o <<".", "grpc", ".", "fb", ".", "h">>, Services(p), NoData),
       Write(p, "GRPC", <<>>, base \o <<".", "grpc", ".", "fb", ".", "cc">>, Services(p), NoData) >>
GenerateGoGRPC(p, out) ==
    LET ks == SetToSortSeq(Services(p), <)
        directory(k) == NamespaceDir(out, p.defs[k].namespace)
    IN  [i \in DOMAIN ks |->
            Write(p, "GRPC", directory(ks[i]),
                  directory(ks[i]) \o <<p.defs[ks[i]].name, "_grpc", ".", "go">>, {ks[i]}, NoData)]
GenerateGRPC(p, g, out, base) ==
    CASE Services(p) \subseteq p.generated -> <<>>
      [] g.lang = "C++" -> GenerateCppGRPC(p, base)
      [] g.lang = "Go"  -> GenerateGoGRPC(p, out)
      [] OTHER -> <<>>

GenerateFBS(p, out, base) ==
    <<Write(p, "FBS", <<>>, out \o base \o <<".", "fbs">>, Types(p), NoData)>>

-----------------------------------------------------------------------------
(* Files.  What an ofstream still holds in its buffer is written when it   *)
(* is destroyed, after SaveFile has looked at it.                          *)

SaveFile(s, w) ==
    LET ds == IF w.ensure = <<>> THEN s.dirs ELSE Ensured(s.dirs, w.ensure)
        opens == /\ StripFileName(w.path) \in ds \cup {<<>>}
                 /\ w.path \notin Unwritable \cup ds
        file == [w.file EXCEPT !.whole = w.path \notin Full]
    IN  [dirs |-> ds, ok |-> opens \/ w.file.lang = "Init",
         disk |-> IF opens THEN (w.path :> file) @@ s.disk ELSE s.disk,
         failed |-> IF opens THEN s.failed ELSE s.failed \cup {w.path}]

\* The first that fails is the last.
Saved(writes, from) ==
    LET after[k \in 0 .. Len(writes)] ==
            IF k = 0 THEN [dirs |-> from, ok |-> TRUE, disk |-> disk, failed |-> failed]
            ELSE LET s == after[k - 1] IN IF s.ok THEN SaveFile(s, writes[k]) ELSE s
    IN  after[Len(writes)]
Save(s) == disk' = s.disk /\ dirs' = s.dirs /\ failed' = s.failed

-----------------------------------------------------------------------------
(* The command line.  An argument is an option, or a path.                 *)

Flags == "--strict-json" :> {"strict_json"} @@ "--allow-non-utf8" :> {"allow_non_utf8"}
      @@ "--no-js-exports" :> {"skip_js_exports"}
      @@ "--goog-js-export" :> {"use_goog_js_export_format"}
      @@ "--defaults-json" :> {"output_default_scalars_in_json"}
      @@ "--unknown-json" :> {"skip_unexpected_fields_in_json"}
      @@ "--no-prefix" :> {} @@ "--scoped-enums" :> {"scoped_enums"}
      @@ "--no-union-value-namespacing" :> {} @@ "--gen-mutable" :> {"mutable_buffer"}
      @@ "--gen-name-strings" :> {"generate_name_strings"}
      @@ "--gen-object-api" :> {"generate_object_based_api"}
      @@ "--gen-all" :> {"generate_all"} @@ "--gen-includes" :> {} @@ "--no-includes" :> {}
      @@ "--gen-onefile" :> {"one_file"} @@ "--raw-binary" :> {"raw_binary"}
      @@ "--proto" :> {"proto_mode"} @@ "--escape-proto-ids" :> {"escape_proto_identifiers"}
      @@ "--schema" :> {"schema_binary"} @@ "-M" :> {"print_make_rules"}
      @@ "--grpc" :> {"grpc_enabled"} @@ "--bfbs-comments" :> {"binary_schema_comments"}
Cleared == "--no-prefix" :> {"prefixed_enums"} @@ "--scoped-enums" :> {"prefixed_enums"}
      @@ "--no-union-value-namespacing" :> {"union_value_namespacing"}
      @@ "--gen-all" :> {"include_dependence_headers"}
      @@ "--no-includes" :> {"include_dependence_headers"}
Defaults == {"prefixed_enums", "include_dependence_headers", "union_value_namespacing"}

WithPath == {"-o", "-I", "--conform", "--conform-includes", "--include-prefix", "--cpp-ptr-type"}
ShortOptions == {"-o", "-I", "-M"} \cup ({g.short : g \in Range(Generators)} \ {""})
Called(option) == {i \in DOMAIN Generators : option \in {Generators[i].short, Generators[i].long}}
Given == Head(args).option
Taking == phase = "args" /\ args # <<>>
\* A short option has to come before the first file.
Misplaced == Given \in ShortOptions /\ filenames # <<>>
Option == Taking /\ Given # "" /\ ~Misplaced

Stop(how) ==
    /\ phase' = how
    /\ UNCHANGED <<args, opt, filenames, parser, conform_parser, at, gen, disk, dirs, failed,
                   rules>>
Error == Stop("error")
Took(n) ==
    /\ args' = SubSeq(args, n + 1, Len(args))
    /\ UNCHANGED <<parser, conform_parser, at, gen, phase, disk, dirs, failed, rules>>

FileName ==
    /\ Taking /\ Given = ""
    /\ filenames' = Append(filenames, Head(args).path)
    /\ Took(1) /\ UNCHANGED opt

BadOption ==
    /\ Taking
    /\ \/ Misplaced
       \/ Given \in WithPath /\ Len(args) = 1
       \/ Given \notin {"", "--", "--version"} \cup DOMAIN Flags \cup WithPath /\ Called(Given) = {}
    /\ Error

\* What follows is taken for the path, whatever it is.
PathOption ==
    /\ Option /\ Given \in WithPath /\ Len(args) > 1
    /\ LET path == IF args[2].option = "" THEN args[2].path ELSE <<args[2].option>>
       IN  opt' = CASE Given = "-o" -> [opt EXCEPT !.output_path = ConCatPathFileName(path, <<>>)]
                    [] Given = "-I" -> [opt EXCEPT !.include_directories = Append(@, path)]
                    [] Given = "--conform" -> [opt EXCEPT !.conform_to_schema = path]
                    [] Given = "--conform-includes" ->
                            [opt EXCEPT !.conform_include_directories = Append(@, path)]
                    [] Given = "--include-prefix" ->
                            [opt EXCEPT !.include_prefix = ConCatPathFileName(path, <<>>)]
                    [] OTHER -> [opt EXCEPT !.cpp_object_api_pointer_type = path]
    /\ Took(2) /\ UNCHANGED filenames

Flag ==
    /\ Option /\ Given \in DOMAIN Flags
    /\ opt' = [opt EXCEPT !.flags = (@ \ (IF Given \in DOMAIN Cleared THEN Cleared[Given] ELSE {}))
                                    \cup Flags[Given]]
    /\ Took(1) /\ UNCHANGED filenames

Enable ==
    /\ Option /\ Called(Given) # {}
    /\ opt' = [opt EXCEPT !.generators = @ \cup Called(Given)]
    /\ Took(1) /\ UNCHANGED filenames

\* --: the files from here on are binary.
Separator ==
    /\ Option /\ Given = "--"
    /\ opt' = [opt EXCEPT !.binary_files_from = Len(filenames)]
    /\ Took(1) /\ UNCHANGED filenames

Version == Option /\ Given = "--version" /\ Stop("done")

Is(flag) == flag \in opt.flags
Conforming == opt.conform_to_schema # <<>>

EndArguments ==
    /\ phase = "args" /\ args = <<>>
    /\ IF \/ filenames = <<>>
          \/ Is("proto_mode") /\ opt.generators # {}
          \/ ~Is("proto_mode") /\ opt.generators = {} /\ ~Conforming
       THEN Error
       ELSE /\ phase' = IF Conforming THEN "conform" ELSE "file"
            /\ at' = 1
            /\ UNCHANGED <<args, opt, filenames, parser, conform_parser, gen, disk, dirs, failed,
                           rules>>

-----------------------------------------------------------------------------
(* The files.                                                              *)

\* The -I directories, and then the directory of the file.
Directories(given, path) == Append(given, StripFileName(path))

LoadConform ==
    /\ phase = "conform"
    /\ LET path == opt.conform_to_schema
           p == DoParse(FreshParser, path,
                        Directories(opt.conform_include_directories, path), {})
       IN  IF path \notin DOMAIN Sources THEN Error
           ELSE IF ~p.ok THEN Error
           ELSE /\ conform_parser' = p /\ phase' = "file"
                /\ UNCHANGED <<args, opt, filenames, parser, at, gen, disk, dirs, failed, rules>>

Path == filenames[at]
IsBinary == at > opt.binary_files_from
IsSchema == GetExtension(Path) = <<"fbs">>

\* "make sure to start each one from scratch"
Started == IF IsSchema THEN FreshParser ELSE parser

Conforms(p) == ConformTo(p, conform_parser)

\* The first enabled generator from i on.
NextEnabled(i) ==
    Min({j \in opt.generators : j >= i} \cup {Len(Generators) + 1})
Process(p) ==
    /\ parser' = p /\ phase' = "generate" /\ gen' = NextEnabled(1)
    /\ UNCHANGED <<args, opt, filenames, conform_parser, at, disk, dirs, failed, rules>>

Missing == phase = "file" /\ Path \notin DOMAIN Sources /\ Error

\* A binary is read only with the file_identifier of the schema.
Identified(p, f) == p.file_identifier # "" /\ p.file_identifier = f.identifier

Binary ==
    /\ phase = "file" /\ Path \in DOMAIN Sources /\ IsBinary
    /\ IF Is("raw_binary") \/ Identified(parser, Sources[Path])
       THEN Process([parser EXCEPT !.builder = [kind |-> "binary", from |-> Path]])
       ELSE Error

\* Parser::Serialize.
Serialized(p) ==
    IF Is("schema_binary")
    THEN [p EXCEPT !.builder = [kind |-> "schema", from |-> Path], !.file_extension = "bfbs"]
    ELSE p

Text ==
    /\ phase = "file" /\ Path \in DOMAIN Sources /\ ~IsBinary
    /\ LET p == DoParse(Started, Path, Directories(opt.include_directories, Path), opt.flags)
       IN  IF Sources[Path].zeros THEN Error
           ELSE IF ~p.ok THEN Error
           ELSE IF IsSchema /\ Conforming /\ ~Conforms(p) THEN Error
           ELSE Process(Serialized(p))

-----------------------------------------------------------------------------
(* The generators of a file.                                               *)

Base == StripPath(StripExtension(Path))
G == Generators[gen]
Generating == phase = "generate" /\ gen <= Len(Generators)
GRPCWrites ==
    IF Is("grpc_enabled") THEN GenerateGRPC(parser, G, opt.output_path, Base) ELSE <<>>

\* Mutant: a failure is not looked at.
Unchecked(s) == TRUE
Succeeded(s) == s.ok

Generator ==
    /\ Generating /\ ~Is("print_make_rules")
    /\ LET made == Ensured(dirs, opt.output_path)
           s == IF G.lang = "Text" /\ ~GeneratesText(parser)
                THEN [dirs |-> made, ok |-> FALSE, disk |-> disk, failed |-> failed]
                ELSE Saved(Generate(parser, G, opt.output_path, Base) \o GRPCWrites, made)
       IN  /\ Save(s)
           /\ IF Succeeded(s) THEN gen' = NextEnabled(gen + 1) /\ phase' = phase
              ELSE gen' = gen /\ phase' = "error"
    /\ UNCHANGED <<args, opt, filenames, parser, conform_parser, at, rules>>

Rule(targets, needs) == [lang |-> G.lang, input |-> Path, targets |-> targets, needs |-> needs]
NoRule == Rule({}, {})
Crash  == Rule({<<"crash">>}, {})
\* What no parser has parsed is not in files_included_per_file_, and at() throws.
DataRule(p, target) ==
    IF p.root = 0 THEN Crash
    ELSE Rule({target}, {Path} \cup GetIncludedFilesRecursive(p, p.defs[p.root].file))
BinaryMakeRule(p) ==
    IF p.builder = NoData THEN NoRule ELSE DataRule(p, BinaryFileName(p, opt.output_path, Base))
TextMakeRule(p) ==
    IF p.builder = NoData \/ p.root = 0 THEN NoRule
    ELSE DataRule(p, TextFileName(opt.output_path, Base))
CodeRule(p, targets) ==
    IF Path \notin DOMAIN p.per_file THEN Crash
    ELSE Rule(targets, GetIncludedFilesRecursive(p, Path))
CPPMakeRule(p) == CodeRule(p, {GeneratedFileName(G, opt.output_path, Base)})
GeneralMakeRule(p, ext) ==
    CodeRule(p, {NamespaceDir(opt.output_path, p.defs[k].namespace) \o <<p.defs[k].name>> \o ext :
                    k \in Types(p)})
\* GetLangParams asserts C# of any language but Java; with assertions off C#
\* is what it answers.
GetLangParams == IF G.lang = "Java" THEN <<".", "java">> ELSE <<".", "cs">>
OneRule == {"Binary", "Text", "C++", "JS"}
AssertionFails == G.lang \notin OneRule \cup {"Java", "C#"} /\ Stop("crashed")

MakeRule(p) ==
    CASE G.lang = "Binary"        -> BinaryMakeRule(p)
      [] G.lang = "Text"          -> TextMakeRule(p)
      [] G.lang \in {"C++", "JS"} -> CPPMakeRule(p)
      [] OTHER                    -> GeneralMakeRule(p, GetLangParams)
\* NamespaceDir makes the directories that GeneralMakeRule asks it for.
MakeRuleDirs(p) ==
    dirs \cup (IF G.lang \in OneRule THEN {}
              ELSE UNION {Ensured(Ensured(dirs, opt.output_path),
                                  NamespaceDir(opt.output_path, p.defs[k].namespace)) :
                            k \in Types(p)})

PrintRule ==
    LET rule == MakeRule(parser)
        s    == Saved(IF rule = Crash THEN <<>> ELSE GRPCWrites, MakeRuleDirs(parser))
        ends == rule = Crash \/ ~Succeeded(s)
    IN  /\ rules' = IF rule \in {NoRule, Crash} THEN rules ELSE rules \cup {rule}
        /\ Save(s)
        /\ gen' = IF ends THEN gen ELSE NextEnabled(gen + 1)
        /\ phase' = IF rule = Crash THEN "crashed" ELSE IF ends THEN "error" ELSE phase
        /\ UNCHANGED <<args, opt, filenames, parser, conform_parser, at>>
PrintMakeRule ==
    Generating /\ Is("print_make_rules") /\ (AssertionFails \/ PrintRule)

\* Mutant: the definitions of a file are not marked after it.
EndFileUnmarked ==
    /\ phase = "generate" /\ gen > Len(Generators)
    /\ UNCHANGED <<disk, dirs, failed, parser>>
    /\ at' = at + 1
    /\ phase' = IF at = Len(filenames) THEN "done" ELSE "file"
    /\ UNCHANGED <<args, opt, filenames, conform_parser, gen, rules>>

\* GenerateFBS's answer is not looked at.
EndFile ==
    /\ phase = "generate" /\ gen > Len(Generators)
    /\ IF Is("proto_mode")
       THEN Save(Saved(GenerateFBS(parser, opt.output_path, Base), dirs))
       ELSE UNCHANGED <<disk, dirs, failed>>
    /\ parser' = MarkGenerated(parser)
    /\ at' = at + 1
    /\ phase' = IF at = Len(filenames) THEN "done" ELSE "file"
    /\ UNCHANGED <<args, opt, filenames, conform_parser, gen, rules>>

-----------------------------------------------------------------------------

Init ==
    /\ args \in Commands
    /\ opt = [flags |-> Defaults, output_path |-> <<>>, include_directories |-> <<>>,
              conform_to_schema |-> <<>>, conform_include_directories |-> <<>>,
              include_prefix |-> <<>>, cpp_object_api_pointer_type |-> <<"std::unique_ptr">>,
              generators |-> {}, binary_files_from |-> 1000]
    /\ filenames = <<>> /\ parser = FreshParser /\ conform_parser = FreshParser
    /\ at = 0 /\ gen = 0 /\ phase = "args"
    /\ disk = <<>> /\ dirs = {StripFileName(p) : p \in DOMAIN Sources} \ {<<>>}
    /\ failed = {} /\ rules = {}

Next ==
    \/ FileName \/ BadOption \/ PathOption \/ Flag \/ Enable \/ Separator \/ Version
    \/ EndArguments \/ LoadConform
    \/ Missing \/ Binary \/ Text
    \/ Generator \/ PrintMakeRule \/ EndFile

Spec == Init /\ [][Next]_vars

-----------------------------------------------------------------------------
(* Properties.                                                             *)

Ended == phase \in {"done", "error", "crashed"}
Written(lang) == {p \in DOMAIN disk : disk[p].lang = lang}
Langs == {g.lang : g \in Range(Generators)}

TypeOK ==
    /\ phase \in {"args", "conform", "file", "generate"} \/ Ended
    /\ at \in 0 .. Len(filenames) + 1 /\ gen \in 0 .. Len(Generators) + 1
    /\ parser.generated \subseteq DOMAIN parser.defs
    /\ parser.root \in {0} \cup DOMAIN parser.defs

\* The code generated for a file is of the definitions of that file, never of
\* a file it includes or of one processed before.  MarkGenerated (idl_parser.cpp):
\* "signals no code for included files should be generated".
OwnDefinitions ==
    ~Is("generate_all") =>
        \A p \in DOMAIN disk : disk[p].lang \in Langs =>
            \A d \in disk[p].defs : d.file = filenames[disk[p].input]

\* "We do not want to generate code for the definitions in this file in any
\* files coming up next" (Compile): no definition is in two files of a language.
GeneratedOnce ==
    ~Is("generate_all") =>
        \A p, q \in DOMAIN disk :
            p # q /\ disk[p].lang = disk[q].lang /\ disk[p].lang # "GRPC"
            => disk[p].defs \cap disk[q].defs = {}

\* The schema a file is processed by: the last one before it, or itself.
SchemaOf(i) ==
    Max({0} \cup {j \in 1 .. i : GetExtension(filenames[j]) = <<"fbs">>
                                 /\ j <= opt.binary_files_from})
\* What is read for that schema, its includes searched in the -I directories
\* and then beside it, and the data files since.
ReadFor(i) ==
    LET s == SchemaOf(i)
        search == Append(opt.include_directories, StripFileName(filenames[s]))
        reach[files \in SUBSET DOMAIN Sources] ==
            LET more == files \cup {Located(search, n) :
                                      n \in UNION {Range(Sources[f].includes) : f \in files}}
            IN  IF more = files THEN files ELSE reach[more]
    IN  reach[{filenames[j] : j \in s .. i}]
\* Whatever was on the command line before: each schema starts from scratch,
\* and data is processed by "the most recent schema specified" (Compiler.md).
FromScratch ==
    \A p \in DOMAIN disk : ~Is("proto_mode") /\ SchemaOf(disk[p].input) # 0 =>
        disk[p].read \subseteq ReadFor(disk[p].input)

\* A binary turns into text only with the identifier of its schema.
BinaryChecked ==
    \A p \in DOMAIN disk :
        disk[p].data.kind = "binary" /\ ~Is("raw_binary") =>
            LET s == filenames[SchemaOf(disk[p].input)]
            IN  Sources[disk[p].data.from].identifier \in
                    {Sources[f].file_identifier : f \in disk[p].read} \ {""}

\* Nothing is generated from a schema that changes what the --conform schema
\* has, in itself or in what it includes.
ConformingOnly ==
    Conforming =>
        \A p \in DOMAIN disk : \A f \in disk[p].read :
            \A d \in Range(Sources[f].declares), e \in Range(conform_parser.defs) :
                FullName(d) = FullName(e) => d.shape = e.shape

\* A flatc that ends without an error has written all it was to write.
FailuresReported == phase = "done" /\ ~Is("proto_mode") =>
    \A p \in failed : Last(StripExtension(p)) = "__init__"

\* When a generator has run, every definition it was to generate is in a file.
AllWritten ==
    phase = "generate" /\ ~Is("print_make_rules") =>
        \A i \in opt.generators : i < gen /\ Generators[i].lang \notin {"Binary", "Text"} =>
            \A k \in Types(parser) \cap Unmade(parser) :
                \E p \in Written(Generators[i].lang) : parser.defs[k] \in disk[p].defs

=============================================================================
