----------------------------- MODULE FieldCases -----------------------------
(***************************************************************************)
(* Declarations for SchemaFields: what a schema's author may write.        *)
(***************************************************************************)
EXTENDS Integers, Sequences

LOCAL T(base)        == [base |-> base, element |-> "none", of |-> "", enum |-> ""]
LOCAL Ref(name)      == [T("struct") EXCEPT !.of = name]
LOCAL Union          == [T("union") EXCEPT !.enum = "Any"]
LOCAL Unions         == [T("vector") EXCEPT !.element = "union", !.enum = "Any"]
FieldEnums ==
    [Color |-> [values |-> {1, 2}, bit_flags |-> FALSE],
     Flags |-> [values |-> {1, 2}, bit_flags |-> TRUE],
     Any   |-> [values |-> {0, 1}, bit_flags |-> FALSE]]

LOCAL None      == [given |-> FALSE, value |-> 0]
LOCAL Value(v)  == [given |-> TRUE, value |-> v]
LOCAL A(name)         == [name |-> name, kind |-> "none", value |-> 0, text |-> ""]
LOCAL AInt(name, v)   == [name |-> name, kind |-> "int", value |-> v, text |-> ""]
LOCAL AText(name, v, atoi) ==
    [name |-> name, kind |-> "string", value |-> atoi, text |-> v]
LOCAL D(name, type, default, attributes) ==
    [name |-> name, type |-> type, default |-> default, attributes |-> attributes]
LOCAL H(name, fixed, attributes) ==
    [name |-> name, fixed |-> fixed, attributes |-> attributes]

LOCAL a == <<"a", "">>
LOCAL b == <<"b", "">>
LOCAL c == <<"c", "">>
LOCAL k == <<"k", "">>

\* Structs, one inside another, and a table.
StructHeaders == {H("S", TRUE, <<>>), H("R", TRUE, <<>>),
                    H("Q", FALSE, <<AInt("force_align", 3)>>)}
                   \cup {H("S", TRUE, <<AInt("force_align", v)>>) : v \in {2, 3, 16}}
                   \cup {H("S", TRUE, <<AText("force_align", "16", 16)>>)}
StructFields ==
    {D(a, T("bool"), None, <<>>), D(a, T("double"), None, <<>>), D(b, T("short"), None, <<>>),
     D(c, T("double"), None, <<>>), D(k, Ref("R"), None, <<>>),
     D(k, T("int"), None, <<A("key")>>), D(c, T("string"), None, <<>>),
     D(b, T("short"), Value(3), <<A("deprecated")>>)}

\* Tables whose fields have ids, in any order, missing, twice or not numbers.
TableHeaders == {H("T", FALSE, <<>>), H("T", FALSE, <<A("unknown")>>)}
IdFields ==
    {D(name, T("int"), None, <<AInt("id", v)>>) : name \in {a, b}, v \in {0, 1, 2}}
    \cup {D(c, Union, None, <<AInt("id", v)>>) : v \in {1, 2, 3}}
    \cup {D(k, Unions, None, <<AInt("id", v)>>) : v \in {1, 3}}
    \cup {D(k, T("string"), None, <<A("key"), AInt("id", v)>>) : v \in {0, 1, 2}}
    \cup {D(a, T("long"), None, <<AInt("id", 0), AInt("id", 2)>>),
          D(b, T("float"), None, <<AText("id", "0", 0)>>),
          D(b, Union, None, <<A("id")>>),
          D(b, T("int"), None, <<>>)}

=============================================================================
