--------------------------- MODULE SchemaIncludes ---------------------------
(***************************************************************************)
(* Include statements in idl_parser.cpp.  DoParse calls itself for a file  *)
(* that is not included yet, and then starts the file it is in anew, by    *)
(* calling itself once more.  `calls` are the calls of DoParse that have   *)
(* not returned.                                                           *)
(*                                                                         *)
(* Each file declares one definition of its own, which stands for all of   *)
(* its declarations: a second one is an error.                             *)
(***************************************************************************)
EXTENDS Integers, Sequences, FiniteSets

CONSTANTS
    Paths,          \* file names, as they are written
    FileOf,         \* the file each leads to
    Main,           \* the one flatc is given
    Missing,        \* paths that lead nowhere
    MaxIncludes,    \* include statements in one file
    Native,         \* a header that is included natively
    generate_all

ASSUME IncludesAssumption ==
    /\ FileOf \in [Paths -> Paths] /\ Main \in Paths \ Missing
    /\ generate_all \in BOOLEAN /\ Native \notin Paths

VARIABLES
    text,           \* path -> its include statements
    calls,          \* [path, at] of the calls of DoParse, the last one first
    included,       \* included_files_
    per_file,       \* files_included_per_file_
    native,         \* native_included_files_
    defs,           \* [file, generated] of the definitions
    result          \* "none", "ok" or "error"

includesVars == <<text, calls, included, per_file, native, defs, result>>

-----------------------------------------------------------------------------
Call(path) == [path |-> path, at |-> 1]
Running == calls # <<>> /\ result = "none"
Here == Head(calls)
AtInclude == Running /\ Here.at <= Len(text[Here.path])
Statement == text[Here.path][Here.at]

\* Mutant: the file goes on with the same statement.
SkippedNever == calls
Skipped == <<[Here EXCEPT !.at = @ + 1]>> \o Tail(calls)

NativeInclude ==
    /\ AtInclude /\ Statement = Native
    /\ native' = Append(native, Native)
    /\ calls' = Skipped
    /\ UNCHANGED <<text, included, per_file, defs, result>>

Noted(path) == [per_file EXCEPT ![Here.path] = @ \cup {path}]

Entered(path) == included \cup {path}
IncludeNew ==
    /\ AtInclude /\ Statement # Native /\ Statement \notin included
    /\ IF Statement \in Missing
       THEN result' = "error" /\ per_file' = Noted(Statement) /\ UNCHANGED <<calls, included>>
       ELSE /\ calls' = <<Call(Statement)>> \o calls
            /\ included' = Entered(Statement)
            /\ per_file' = [p \in DOMAIN per_file \cup {Statement} |->
                              IF p \in DOMAIN per_file THEN Noted(Statement)[p] ELSE {}]
            /\ UNCHANGED result
    /\ UNCHANGED <<text, native, defs>>

IncludeAgain ==
    /\ AtInclude /\ Statement # Native /\ Statement \in included
    /\ per_file' = Noted(Statement)
    /\ calls' = Skipped
    /\ UNCHANGED <<text, included, native, defs, result>>

\* The rest of the file.  A call that was made to start a file anew returns
\* together with the call that made it.
Same(n) == \A m \in 1..n : calls[m].path = Here.path
Anew == Cardinality({n \in DOMAIN calls : Same(n)})
Below == SubSeq(calls, Anew + 1, Len(calls))

Declared == {d.file : d \in defs}
\* Mutant: what was marked before is not any more.
MarkedNew(all) == {[d EXCEPT !.generated = ~generate_all /\ d \notin defs] : d \in all}
MarkGenerated(all) == {[d EXCEPT !.generated = @ \/ ~generate_all] : d \in all}

ParseRest ==
    /\ Running /\ Here.at > Len(text[Here.path])
    /\ IF FileOf[Here.path] \in Declared
       THEN result' = "error" /\ UNCHANGED <<calls, defs>>
       ELSE LET all == defs \cup {[file |-> FileOf[Here.path], generated |-> FALSE]} IN
            IF Below = <<>>
            THEN /\ defs' = all /\ calls' = <<>> /\ result' = "ok"
            ELSE /\ defs' = MarkGenerated(all)
                 /\ calls' = <<Call(Head(Below).path)>> \o Below
                 /\ UNCHANGED result
    /\ UNCHANGED <<text, included, per_file, native>>

\* GetIncludedFilesRecursive: what files_included_per_file_ leads to.
Reached(path, Step(_)) ==
    LET R[n \in 0..Cardinality(Paths)] ==
          IF n = 0 THEN {path} ELSE R[n - 1] \cup UNION {Step(p) : p \in R[n - 1]}
    IN R[Cardinality(Paths)]
GetIncludedFilesRecursive(path) ==
    LET Step(p) == per_file[p] IN Reached(path, Step)

Texts == UNION {[1..n -> Paths \cup {Native}] : n \in 0..MaxIncludes}

Init ==
    /\ text \in [Paths \ Missing -> Texts]
    /\ calls = <<Call(Main)>>
    /\ included = {Main}
    /\ per_file = [p \in {Main} |-> {}]
    /\ native = <<>> /\ defs = {} /\ result = "none"

Next == NativeInclude \/ IncludeNew \/ IncludeAgain \/ ParseRest

Spec == Init /\ [][Next]_includesVars /\ WF_includesVars(Next)

-----------------------------------------------------------------------------
(* Properties *)

Statements(p) == {text[p][i] : i \in DOMAIN text[p]} \ {Native}
Needed == LET Step(p) == IF p \in Missing THEN {} ELSE Statements(p) IN Reached(Main, Step)

TypeOK ==
    /\ included \subseteq Paths \ Missing /\ DOMAIN per_file = included
    /\ \A p \in included : per_file[p] \subseteq Paths
    /\ \A i \in DOMAIN calls : calls[i].path \in included /\ calls[i].at \in 1..(MaxIncludes + 1)
    /\ result \in {"none", "ok", "error"}

\* "each file is parsed just once, even when referred to more than once":
\* nothing but a missing file fails, also where files include each other, and
\* everything that is needed is there in the end.
ParsedOnce ==
    /\ result = "error" => Needed \cap Missing # {}
    /\ result = "ok" => Declared = {FileOf[p] : p \in Needed}

\* "only definitions in the current file will be generated, not those from the
\* included files", however deep those are included.
GeneratesCurrentFile ==
    result = "ok" => \A d \in defs : d.generated <=> d.file # FileOf[Main] /\ ~generate_all

\* The files a generated file depends on are all there are, although they are
\* noted while files are started anew and included files are skipped.
DependenciesComplete ==
    result = "ok" => GetIncludedFilesRecursive(Main) = Needed

=============================================================================
