------------------------------ MODULE FlatStore ------------------------------
(***************************************************************************)
(* What a Builder promises its client, with no bytes in it: a store of     *)
(* immutable items.  An item is known by the offset the call that built it *)
(* returned, refers only to items built before it, and is read back, for   *)
(* as long as the buffer lives, as what the client asked to be built.      *)
(*                                                                         *)
(* `call` is the interface: the last operation of the client, its argument *)
(* and the offset it returned.  GeneratedClient implements this            *)
(* specification; its items are what a reader decodes from the bytes.      *)
(***************************************************************************)
EXTENDS Naturals

CONSTANTS
    Handles,   \* the offsets a call may return
    Contents,  \* [kind, size, val] records: strings, vectors, field values
    Absent(_)  \* the field values a table leaves out

VARIABLES
    call,   \* [op, arg, at]: the last call and what it returned
    items,  \* offset -> item
    draft,  \* fields of the table being built; NoDraft: there is none
    root    \* the offset the buffer was finished with; 0: it is not finished

NoDraft == [open |-> FALSE]
Draft(fields) == [open |-> TRUE, fields |-> fields]

Nothing == [kind |-> "empty", size |-> 0, val |-> <<>>]
\* Calls of an operation, with any argument and any result.
Calls(op) == [op : {op}, arg : Contents \cup {Nothing}, at : Handles \cup {0}]

Table(fields) == [kind |-> "table", fields |-> fields]
NoFields == [i \in {} |-> Nothing]

\* The items an item or a field value refers to.
RefsOf(c) == IF c.kind = "uoffset" THEN {c.val[k] : k \in DOMAIN c.val} ELSE {}

Extended(f, x, y) == [z \in DOMAIN f \cup {x} |-> IF z = x THEN y ELSE f[z]]

-----------------------------------------------------------------------------
Init ==
    /\ call \in Calls("new")
    /\ items = NoFields
    /\ draft = NoDraft
    /\ root = 0

\* A string or a vector is built while no table is open.
Build ==
    /\ call' \in Calls("build")
    /\ ~draft.open /\ root = 0
    /\ call'.at \in Handles \ DOMAIN items
    /\ RefsOf(call'.arg) \subseteq DOMAIN items
    /\ items' = Extended(items, call'.at, call'.arg)
    /\ UNCHANGED <<draft, root>>

Begin ==
    /\ call' \in Calls("begin")
    /\ ~draft.open /\ root = 0
    /\ draft' = Draft(NoFields)
    /\ UNCHANGED <<items, root>>

\* A field keeps the value it is given, the table need not store a default.
Set ==
    /\ call' \in Calls("set")
    /\ draft.open
    /\ call'.at \in Handles \ DOMAIN draft.fields
    /\ RefsOf(call'.arg) \subseteq DOMAIN items
    /\ draft' = Draft(IF Absent(call'.arg) THEN draft.fields
                      ELSE Extended(draft.fields, call'.at, call'.arg))
    /\ UNCHANGED <<items, root>>

Commit ==
    /\ call' \in Calls("commit")
    /\ draft.open
    /\ call'.at \in Handles \ DOMAIN items
    /\ items' = Extended(items, call'.at, Table(draft.fields))
    /\ draft' = NoDraft
    /\ UNCHANGED root

Finish ==
    /\ call' \in Calls("finish")
    /\ ~draft.open /\ root = 0
    /\ call'.at \in DOMAIN items /\ items[call'.at].kind = "table"
    /\ root' = call'.at
    /\ UNCHANGED <<items, draft>>

\* A call that asks for an item that is there may be given that one.
Share ==
    /\ call' \in Calls("share")
    /\ ~draft.open /\ root = 0
    /\ call'.at \in DOMAIN items /\ items[call'.at] = call'.arg
    /\ UNCHANGED <<items, draft, root>>

\* A call that cannot be served has no effect but to say so.
Fail ==
    /\ call' \in Calls("failed")
    /\ UNCHANGED <<items, draft, root>>

Clear ==
    /\ call' \in Calls("new")
    /\ items' = NoFields /\ draft' = NoDraft /\ root' = 0

Next == Build \/ Begin \/ Set \/ Commit \/ Finish \/ Share \/ Fail \/ Clear

Spec == Init /\ [][Next]_<<call, items, draft, root>>

=============================================================================
