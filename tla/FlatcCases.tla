----------------------------- MODULE FlatcCases -----------------------------
(***************************************************************************)
(* Files and command lines for Flatc: schemas of two directories that each *)
(* have a c.fbs beside them, data for them, and some options with some of  *)
(* the files.                                                              *)
(***************************************************************************)
EXTENDS Integers, Sequences, TLC

LOCAL File(name, ext)  == <<name, ".", ext>>
LOCAL In(dir, path)    == <<dir, "/">> \o path
LOCAL Decl(kind, ns, name, shape) == [kind |-> kind, namespace |-> ns, name |-> name, shape |-> shape]

LOCAL Plain == [includes |-> <<>>, declares |-> <<>>, namespace |-> <<>>, root |-> <<>>,
          file_identifier |-> "", file_extension |-> "", objects |-> 0, proto |-> FALSE,
          zeros |-> FALSE, identifier |-> "", utf8 |-> TRUE]

LOCAL A == In("s", File("a", "fbs"))
LOCAL B == In("t", File("b", "fbs"))
LOCAL C == File("c", "fbs")

DriverSources ==
    A :> [Plain EXCEPT !.includes = <<C>>, !.root = <<"A">>, !.file_identifier = "AAAA",
                       !.namespace = <<"N">>,
                       !.declares = <<Decl("table", <<"M">>, "A", 1), Decl("table", <<"N">>, "A", 1),
                                      Decl("enum", <<"N">>, "E", 1),
                                      Decl("service", <<"N">>, "S", 1)>>]
 @@ B :> [Plain EXCEPT !.includes = <<C>>, !.root = <<"B">>, !.file_extension = "mon",
                       !.declares = <<Decl("table", <<>>, "B", 1)>>]
 @@ In("s", C) :> [Plain EXCEPT !.declares = <<Decl("struct", <<>>, "C", 1),
                                               Decl("service", <<>>, "T", 1)>>]
 @@ In("t", C) :> [Plain EXCEPT !.declares = <<Decl("table", <<>>, "C", 2)>>,
                                !.file_identifier = "CCCC"]
 @@ File("d", "json") :> [Plain EXCEPT !.objects = 1]
 @@ File("e", "json") :> [Plain EXCEPT !.objects = 2]
 @@ File("x", "bin") :> [Plain EXCEPT !.zeros = TRUE, !.identifier = "AAAA"]
 @@ File("y", "bin") :> [Plain EXCEPT !.identifier = "AAAA", !.utf8 = FALSE]
 @@ File("p", "proto") :> [Plain EXCEPT !.proto = TRUE,
                                        !.declares = <<Decl("table", <<"P">>, "P", 1)>>]
 @@ File("base", "fbs") :> [Plain EXCEPT !.declares = <<Decl("struct", <<>>, "C", 1),
                                                        Decl("table", <<"N">>, "A", 1)>>]

LOCAL O(option) == [option |-> option, path |-> <<>>]
LOCAL P(path)   == [option |-> "", path |-> path]

LOCAL OptionSet(name) ==
    CASE name = "none"    -> <<>>
      [] name = "cpp"     -> <<O("--cpp"), O("-b")>>
      [] name = "text"    -> <<O("-t"), O("-b"), O("-o"), P(<<"out">>)>>
      [] name = "classes" -> <<O("-j"), O("-p"), O("-o"), P(<<"out", "/", "x", "/">>)>>
      [] name = "scripts" -> <<O("--js"), O("--php"), O("-g"), O("-o"), P(<<"out">>)>>
      [] name = "csharp"  -> <<O("-n"), O("--gen-onefile")>>
      [] name = "all"     -> <<O("-c"), O("--gen-all")>>
      [] name = "raw"     -> <<O("-t"), O("--raw-binary"), O("--scoped-enums")>>
      [] name = "schema"  -> <<O("-b"), O("-s"), O("--schema")>>
      [] name = "conform" -> <<O("-c"), O("--conform-includes"), P(<<"s">>), O("--conform"),
                               P(File("base", "fbs"))>>
      [] name = "lost"    -> <<O("--conform"), P(File("lost", "fbs"))>>
      [] name = "include" -> <<O("-c"), O("--include-prefix"), P(<<"g">>), O("-I"), P(<<"t">>)>>
      [] name = "grpc"    -> <<O("-c"), O("-g"), O("--grpc")>>
      [] name = "swift"   -> <<O("-w")>>
      [] name = "proto"   -> <<O("--proto")>>
      [] name = "rulesgrpc" -> <<O("-M"), O("-c"), O("-g"), O("--grpc")>>
      [] name = "rules"   -> <<O("-M"), O("-b"), O("-t"), O("-j"), O("-o"), P(<<"out">>)>>
      [] name = "bytes"   -> <<O("-t"), O("--allow-non-utf8")>>
      [] name = "missing" -> <<O("-c"), O("-o")>>
      [] name = "unknown" -> <<O("--swfit")>>
      [] name = "version" -> <<O("--version")>>
      [] name = "both"    -> <<O("--proto"), O("-c")>>

LOCAL Input(name) ==
    CASE name = "a" -> P(A)
      [] name = "b" -> P(B)
      [] name = "d" -> P(File("d", "json"))
      [] name = "e" -> P(File("e", "json"))
      [] name = "x" -> P(File("x", "bin"))
      [] name = "y" -> P(File("y", "bin"))
      [] name = "p" -> P(File("p", "proto"))
      [] name = "-" -> O("--")
      [] name = "late" -> O("-c")
      [] name = "nowhere" -> P(File("nowhere", "fbs"))

\* Every set of options with up to n of the files.
LOCAL Lines(options, inputs, n) ==
    {OptionSet(o) \o [k \in DOMAIN is |-> Input(is[k])] :
        o \in options, is \in UNION {[1 .. m -> inputs] : m \in 0 .. n}}
GoodLines ==
    Lines({"cpp", "text", "classes", "scripts", "csharp", "all", "include", "grpc", "schema"},
          {"a", "b", "d", "x", "-"}, 2)
    \cup Lines({"proto"}, {"p"}, 1)
    \cup {OptionSet(o) \o <<P(A), P(B), P(File("d", "json"))>> : o \in {"text", "classes"}}
BadLines ==
    Lines({"cpp", "text", "raw", "conform", "lost", "grpc", "classes", "rulesgrpc", "missing",
           "unknown", "version", "both", "none"},
          {"a", "b", "d", "e", "x", "-", "late", "nowhere"}, 2)
    \cup Lines({"text", "raw", "conform"}, {"a", "b", "d", "x", "-"}, 3)
    \cup Lines({"rules"}, {"a", "b", "d", "-"}, 2)
    \cup {OptionSet(o) \o <<Input("a"), Input("-"), Input("y")>> : o \in {"text", "bytes"}}

ClosedPaths == {<<"a", "_generated", ".", "h">>, <<"b", ".", "mon">>, <<"out", "/", "d", ".", "json">>,
           <<"S", "_grpc", ".", "go">>, <<"out", "/", "x", "/", "N", "/", "E", ".", "py">>}
=============================================================================
