------------------------------ MODULE JsonCases ------------------------------
(***************************************************************************)
(* A schema and documents for JsonParser: put together from a few members  *)
(* in every order.                                                         *)
(***************************************************************************)
EXTENDS Integers, Sequences

LOCAL Token(tok, s, n) == [tok |-> tok, s |-> s, n |-> n, words |-> <<>>]
LOCAL Eof == Token("eof", "", 0)

LOCAL F(name, base, elem, of, bits, default, slot) ==
    [name |-> name, base |-> base, elem |-> elem, of |-> of, bits |-> bits,
     default |-> default, slot |-> slot]

JsonDefs == [
    Monster |-> [fixed |-> FALSE, fields |-> <<
        F("hp", "ubyte", "none", "", 8, 1, 1), F("color", "byte", "none", "Color", 8, 0, 2),
        F("name", "string", "none", "", 0, 0, 3), F("pos", "struct", "none", "Vec", 0, 0, 4),
        F("kid", "struct", "none", "Monster", 0, 0, 5),
        F("path", "vector", "struct", "Vec", 0, 0, 6),
        F("kids", "vector", "struct", "Weapon", 0, 0, 7),
        F("u_type", "utype", "none", "Any", 8, 0, 8), F("u", "union", "none", "Any", 0, 0, 9),
        F("w_type", "utype", "none", "One", 8, 0, 10), F("w", "union", "none", "One", 0, 0, 11)>>],
    Weapon |-> [fixed |-> FALSE, fields |-> <<F("dmg", "short", "none", "", 16, 0, 1)>>],
    Vec |-> [fixed |-> TRUE, fields |-> <<
        F("x", "byte", "none", "", 8, 0, 1), F("y", "short", "none", "", 16, 0, 2)>>]]

JsonEnumVals == [Color |-> [Red |-> 1, Green |-> 2, Blue |-> 4],
               Any |-> [NONE |-> 0, Monster |-> 1, Weapon |-> 2],
               One |-> [NONE |-> 0, Weapon |-> 1]]
JsonMembers == [Any |-> <<"Monster", "Weapon">>, One |-> <<"Weapon">>]

LOCAL Tree(t, n, s, words, kids) == [t |-> t, n |-> n, s |-> s, words |-> words, kids |-> kids]
LOCAL Num(n)  == Tree("int", n, "", <<>>, <<>>)
LOCAL Str(s)  == Tree("string", 0, s, <<[enum |-> "", val |-> s]>>, <<>>)
LOCAL Id(s)   == Tree("name", 0, s, <<[enum |-> "", val |-> s]>>, <<>>)
LOCAL Null    == Tree("null", 0, "", <<>>, <<>>)
LOCAL Obj(kids)  == Tree("obj", 0, "", <<>>, kids)
LOCAL ObjC(kids) == Tree("obj", 1, "", <<>>, kids)
LOCAL Arr(vals)  == Tree("arr", 0, "", <<>>, [i \in DOMAIN vals |-> [name |-> Eof, val |-> vals[i]]])
LOCAL M(name, val) == [name |-> Token("name", name, 0), val |-> val]
LOCAL Q(name, val) == [name |-> Token("string", name, 0), val |-> val]

LOCAL Vec(x, y) == Obj(<<Q("x", Num(x)), Q("y", Num(y))>>)
LOCAL Cev(x, y) == Obj(<<Q("y", Num(y)), Q("x", Num(x))>>)
LOCAL Wpn(d) == Obj(<<Q("dmg", Num(d))>>)
LOCAL Qualified == Tree("string", 0, "Color.Red", <<[enum |-> "Color", val |-> "Red"]>>, <<>>)
LOCAL Flags == Tree("string", 0, "Red Blue",
              <<[enum |-> "", val |-> "Red"], [enum |-> "", val |-> "Blue"]>>, <<>>)

LOCAL Pool == {Q("hp", Num(1)), M("hp", Num(3)), Q("hp", Qualified), Q("hp", Num(256)),
         Q("color", Str("Green")), M("color", Id("Red")), Q("color", Flags), Q("color", Num(3)),
         Q("name", Str("a")), Q("name", Null), Q("pos", Vec(1, -2)), Q("pos", Cev(3, 4)),
         Q("pos", Obj(<<Q("y", Num(1))>>)),
         Q("kid", Obj(<<Q("pos", Cev(5, 6)), Q("hp", Num(2))>>)),
         Q("path", Arr(<<Cev(1, 2), Vec(3, 4)>>)), Q("path", Arr(<<>>)),
         Q("kids", Arr(<<Wpn(1), Obj(<<>>)>>)),
         Q("u_type", Str("Weapon")), Q("u_type", Num(1)), Q("u", Wpn(7)), Q("u", Obj(<<>>)),
         Q("w_type", Str("Weapon")), Q("w", Wpn(9)),
         Q("odd", Arr(<<Num(1), Obj(<<Q("b", Str("c"))>>)>>))}
LOCAL Upto2 == {<<>>} \cup {<<p>> : p \in Pool} \cup (Pool \X Pool)
LOCAL UnionPool == {p \in Pool : p.name.s \in {"u_type", "u", "w_type", "w", "hp"}}
StrictDocuments == {Obj(d) : d \in Upto2} \cup {ObjC(d) : d \in {<<p>> : p \in Pool}}
               \cup {Obj(d) : d \in UnionPool \X UnionPool \X UnionPool}
LOCAL LoosePool == {M("hp", Num(3))} \cup {p \in UnionPool : p.name.s # "hp"}
LooseDocuments == {Obj(d) : d \in LoosePool \X LoosePool \X LoosePool \X LoosePool}
=============================================================================
