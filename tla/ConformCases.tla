---------------------------- MODULE ConformCases ----------------------------
(***************************************************************************)
(* Pairs of versions for SchemaConform: of one table and one enumeration.  *)
(***************************************************************************)
EXTENDS Integers, Sequences

LOCAL Int32 == [base |-> "int", enum |-> ""]
LOCAL Color == [base |-> "byte", enum |-> "Color"]
LOCAL Other == [base |-> "byte", enum |-> "Other"]

LOCAL Kinds(types) == [name : {"a", "b", "c"}, type : types, constant : {"0", "1"}]
LOCAL Lists(kinds) == {<<>>} \cup {<<k>> : k \in kinds}
                \cup {l \in kinds \X kinds : l[1].name # l[2].name}
LOCAL At(list, offset(_)) ==
    [i \in DOMAIN list |-> [name |-> list[i].name, type |-> list[i].type,
                            constant |-> list[i].constant, offset |-> offset(i)]]
LOCAL Slot(i) == 2 + 2 * i
LOCAL Tables(types) == {[name |-> "T", fixed |-> FALSE, fields |-> At(l, Slot)] :
                    l \in Lists({k \in Kinds(types) : k.constant = "1" => k.name = "a" /\ k.type = Int32})}
LOCAL Colors == [v \in {"A", "B"} |-> IF v = "A" THEN 0 ELSE 1]
LOCAL Others == {[v \in {"A", "B"} |-> IF v = "A" THEN 1 ELSE 2], [v \in {"B"} |-> 1]}

LOCAL Schema(table, vals, name) ==
    [structs |-> <<[name |-> name, fixed |-> FALSE, fields |-> <<>>], table>>,
     enums |-> <<[name |-> "Color", vals |-> vals]>>]
LOCAL Pairs(defs) ==
    {[base |-> Schema(p[1], Colors, "U"), new |-> Schema(p[2], w[1], w[2])] :
        p \in defs \X defs, w \in ({Colors} \X {"U", "V"}) \cup (Others \X {"U"})}
TableVersions == Pairs(Tables({Int32, Color, Other}))
=============================================================================
