----------------------------- MODULE BinaryCases -----------------------------
(***************************************************************************)
(* Declarations for SchemaBinary: a few that refer to each other.          *)
(***************************************************************************)
EXTENDS Integers, Sequences

LOCAL T(base, element, struct, enum) ==
    [base |-> base, element |-> element, struct |-> struct, enum |-> enum]
LOCAL F(name, type, offset, constant, attributes) ==
    [name |-> name, type |-> type, offset |-> offset, constant |-> constant,
     deprecated |-> name = 2, required |-> type.base = "STRING", key |-> name = 3,
     attributes |-> attributes]
LOCAL S(name, fixed, fields, attributes) ==
    [name |-> name, fixed |-> fixed, minalign |-> 4, bytesize |-> IF fixed THEN 8 ELSE 0,
     fields |-> fields, attributes |-> attributes, index |-> 0, location |-> 0]
LOCAL E(name, is_union, under, vals, attributes) ==
    [name |-> name, is_union |-> is_union, underlying_type |-> T(under, "NONE", 0, name),
     vals |-> vals, attributes |-> attributes, index |-> 0, location |-> 0]
LOCAL V(name, value, struct) == [name |-> name, value |-> value, struct |-> struct]
LOCAL A(key, value) == [key |-> key, value |-> value]

\* Attribute 1 is flatc's own, 2 and 3 are the user's.
LOCAL Monster == S(5, FALSE, <<F(4, T("UTYPE", "NONE", 0, 6), 4, 0, <<>>),
                         F(3, T("STRING", "NONE", 0, 0), 8, 0, <<A(3, 1), A(1, 1), A(2, 2)>>),
                         F(2, T("UNION", "NONE", 0, 6), 6, 0, <<>>),
                         F(1, T("VECTOR", "STRUCT", 5, 0), 10, 0, <<A(1, 2)>>)>>, <<A(2, 1)>>)
LOCAL Vec3    == S(8, TRUE, <<F(1, T("FLOAT", "NONE", 0, 0), 0, 0, <<>>),
                        F(2, T("CHAR", "NONE", 0, 4), 4, 0, <<>>)>>, <<A(1, 4)>>)
LOCAL Weapon  == S(3, FALSE, <<F(3, T("SHORT", "NONE", 0, 0), 4, 7, <<>>),
                         F(1, T("STRUCT", "NONE", 8, 0), 6, 0, <<>>),
                         F(4, T("DOUBLE", "NONE", 0, 0), 8, 2, <<>>)>>, <<>>)
LOCAL AnyOf   == E(6, TRUE, "UTYPE", <<V(0, 0, 0), V(5, 1, 5), V(3, 2, 3)>>, <<>>)
LOCAL Colour  == E(4, FALSE, "CHAR", <<V(7, 0, 0), V(3, 4, 0)>>, <<A(2, 3), A(3, 3)>>)

DeclaredStructs == {Monster, Vec3, Weapon}
DeclaredEnums   == {AnyOf, Colour}
=============================================================================
