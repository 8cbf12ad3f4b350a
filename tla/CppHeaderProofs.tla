-------------------------- MODULE CppHeaderProofs --------------------------
(***************************************************************************)
(* What SchemaNames promises of names, for schemas of any length with any  *)
(* names, and the part of CppHeader that rests on it.  SymbolTable::Move   *)
(* forgets names and StartStruct renames definitions; that a use still has *)
(* the meaning it had follows from two facts: a definition is only         *)
(* registered under its own name, and one that is no longer predeclared    *)
(* does not change.                                                        *)
(***************************************************************************)
EXTENDS CppHeader, FiniteSetTheorems, SequenceTheorems, TLAPS

Name == Seq(STRING)
StructDefs == [name : Name, namespace : Name, predecl : BOOLEAN, fixed : BOOLEAN]

\* structs_.vec holds each definition once.
Numbered ==
    /\ vec \in Seq(Nat) /\ def \in [1 .. Len(vec) -> StructDefs]
    /\ \A i \in DOMAIN vec : vec[i] \in DOMAIN def
    /\ \A d \in DOMAIN def : \E i \in DOMAIN vec : vec[i] = d

\* A definition is registered under its qualified name.
Filed == \A n \in DOMAIN dict : dict[n] \in DOMAIN def /\ QualifiedOf(dict[n]) = n

\* What a use has found when it was defined is still that.
Settled ==
    \A u \in uses :
        /\ u.target \in DOMAIN def
        /\ ~u.predecl => ~def[u.target].predecl /\ ScopedTo(u)

References ==
    /\ root \in DOMAIN def \cup {0}
    /\ inside.kind = "rpc" => inside.is \in DOMAIN def \cup {0}
    /\ \A s \in DOMAIN services : \A rpc \in DOMAIN services[s] :
            services[s][rpc][1] \in DOMAIN def /\ services[s][rpc][2] \in DOMAIN def

Accepted == state = "done" => \A d \in DOMAIN def : ~def[d].predecl

NamesInv ==
    /\ namespace \in Name /\ state \in {"parsing", "failed", "done"} /\ step \in 0..MaxSteps
    /\ Numbered /\ Filed /\ Settled /\ References /\ Accepted

-----------------------------------------------------------------------------
(* Definitions.                                                            *)

\* Definitions are numbered as they are made.
LEMMA FreshIsNext ==
    ASSUME Numbered
    PROVE  Len(vec) \in Nat /\ DOMAIN def = 1 .. Len(vec) /\ Fresh = Len(vec) + 1
           /\ Fresh \notin DOMAIN def
<1>1. Len(vec) \in Nat /\ DOMAIN def = 1 .. Len(vec)
  BY DEF Numbered
<1>2. Cardinality(1 .. Len(vec)) = Len(vec)
  BY <1>1, FS_Interval
<1> QED BY <1>1, <1>2 DEF Fresh

\* The definitions that are there stay, and those that are complete stay the same.
Kept ==
    /\ DOMAIN def \subseteq DOMAIN def'
    /\ \A d \in DOMAIN def : ~def[d].predecl => def'[d] = def[d]

\* A new definition goes to the end of the vector.
LEMMA NumberedNew ==
    ASSUME Numbered, NEW x \in StructDefs, def' = Put(def, Fresh, x), vec' = Append(vec, Fresh)
    PROVE  Numbered' /\ Kept /\ DOMAIN def' = DOMAIN def \cup {Fresh} /\ def'[Fresh] = x
           /\ \A d \in DOMAIN def : def'[d] = def[d]
<1> DEFINE n == Len(vec)
<1>1. n \in Nat /\ DOMAIN def = 1..n /\ Fresh = n + 1 /\ Fresh \notin DOMAIN def
  BY FreshIsNext
<1>2. vec \in Seq(Nat) /\ def \in [1..n -> StructDefs]
  BY DEF Numbered
<1>3. /\ vec' \in Seq(Nat) /\ Len(vec') = n + 1 /\ vec'[n + 1] = Fresh
      /\ \A i \in 1..n : vec'[i] = vec[i]
  BY <1>1, <1>2
<1>4. DOMAIN def' = 1..(n + 1) /\ def'[Fresh] = x /\ \A d \in DOMAIN def : def'[d] = def[d]
  BY <1>1 DEF Put
<1>5. def' \in [1..(n + 1) -> StructDefs]
  BY <1>1, <1>2, <1>4 DEF Put
<1>6. DOMAIN vec' = 1..(n + 1) /\ DOMAIN vec = 1..n
  BY <1>1, <1>2, <1>3
<1> HIDE DEF n
<1>7. \A i \in DOMAIN vec' : vec'[i] \in DOMAIN def'
  <2> SUFFICES ASSUME NEW i \in DOMAIN vec' PROVE vec'[i] \in DOMAIN def'
    OBVIOUS
  <2>1. CASE i = n + 1
    BY <1>1, <1>3, <1>4, <2>1
  <2>2. CASE i \in 1..n
    <3>1. vec[i] \in DOMAIN def
      BY <1>6, <2>2 DEF Numbered
    <3> QED BY <1>1, <1>3, <1>4, <2>2, <3>1
  <2> QED BY <1>1, <1>6, <2>1, <2>2
<1>8. \A d \in DOMAIN def' : \E i \in DOMAIN vec' : vec'[i] = d
  <2> SUFFICES ASSUME NEW d \in DOMAIN def' PROVE \E i \in DOMAIN vec' : vec'[i] = d
    OBVIOUS
  <2>1. CASE d = n + 1
    BY <1>1, <1>3, <1>6, <2>1
  <2>2. CASE d \in 1..n
    <3>1. PICK i \in 1..n : vec[i] = d
      BY <1>1, <1>6, <2>2 DEF Numbered
    <3>2. i \in 1..(n + 1)
      BY <1>1, <3>1
    <3>3. vec'[i] = d
      BY <1>3, <3>1
    <3> QED BY <1>6, <3>2, <3>3
  <2> QED BY <1>1, <1>4, <2>1, <2>2
<1>9. Numbered'
  BY <1>3, <1>5, <1>7, <1>8 DEF Numbered
<1>10. DOMAIN def \subseteq DOMAIN def' /\ DOMAIN def' = DOMAIN def \cup {Fresh}
  BY <1>1, <1>4 DEF Put
<1> QED BY <1>4, <1>9, <1>10 DEF Kept

\* One that is there is moved to the end, past those behind it.
LEMMA NumberedMoved ==
    ASSUME Numbered, NEW d \in DOMAIN def, NEW x \in StructDefs, def[d].predecl,
           def' = Put(def, d, x), vec' = MovedToBack(d)
    PROVE  Numbered' /\ Kept /\ DOMAIN def' = DOMAIN def /\ def'[d] = x
           /\ \A e \in DOMAIN def : e # d => def'[e] = def[e]
<1> DEFINE n == Len(vec)
           p == PlaceOf(d)
<1>1. n \in Nat /\ DOMAIN def = 1..n /\ vec \in Seq(Nat) /\ DOMAIN vec = 1..n
      /\ def \in [1..n -> StructDefs]
  BY DEF Numbered
<1>2. \E i \in DOMAIN vec : vec[i] = d
  BY DEF Numbered
<1>3. p \in 1..n /\ vec[p] = d
  BY <1>1, <1>2 DEF PlaceOf
<1>4. vec' = [i \in DOMAIN vec |-> IF i < p THEN vec[i] ELSE IF i < n THEN vec[i + 1] ELSE d]
  BY <1>2 DEF MovedToBack
<1> HIDE DEF n, p
<1>5. \A i \in 1..n : vec[i] \in 1..n
  BY <1>1 DEF Numbered
<1>6. DOMAIN vec' = 1..n
  BY <1>1, <1>4
<1>7. \A i \in 1..n : vec'[i] \in 1..n
  <2> SUFFICES ASSUME NEW i \in 1..n PROVE vec'[i] \in 1..n
    OBVIOUS
  <2>1. i < n => i + 1 \in 1..n
    BY <1>1
  <2>2. d \in 1..n
    BY <1>1
  <2> QED BY <1>1, <1>4, <1>5, <2>1, <2>2
<1>8. vec' \in Seq(Nat) /\ Len(vec') = n
  <2>1. vec' \in [1..n -> Nat]
    <3>1. \A i \in 1..n : vec'[i] \in Nat
      BY <1>1, <1>7
    <3> QED BY <1>1, <1>4, <3>1
  <2> QED BY <1>1, <2>1
<1>9. \A e \in 1..n : \E i \in 1..n : vec'[i] = e
  <2> SUFFICES ASSUME NEW e \in 1..n PROVE \E i \in 1..n : vec'[i] = e
    OBVIOUS
  <2>1. PICK i \in 1..n : vec[i] = e
    BY <1>1 DEF Numbered
  <2>2. CASE i < p
    BY <1>1, <1>4, <2>1, <2>2
  <2>3. CASE i = p
    <3>1. n \in 1..n /\ ~(n < p) /\ ~(n < n)
      BY <1>1, <1>3
    <3>2. vec'[n] = d
      BY <1>1, <1>4, <3>1
    <3> QED BY <1>3, <2>1, <2>3, <3>1, <3>2
  <2>4. CASE i > p
    <3>1. i - 1 \in 1..n /\ ~(i - 1 < p) /\ i - 1 < n /\ (i - 1) + 1 = i
      BY <1>1, <1>3, <2>4
    <3>2. vec'[i - 1] = vec[i]
      BY <1>1, <1>4, <3>1
    <3> QED BY <2>1, <3>1, <3>2
  <2> QED BY <1>1, <1>3, <2>2, <2>3, <2>4
<1>10. DOMAIN def' = 1..n /\ def'[d] = x /\ \A e \in DOMAIN def : e # d => def'[e] = def[e]
  BY <1>1 DEF Put
<1>11. def' \in [1..n -> StructDefs]
  BY <1>1, <1>10 DEF Put
<1>12. Numbered'
  BY <1>6, <1>7, <1>8, <1>9, <1>10, <1>11 DEF Numbered
<1> QED BY <1>1, <1>10, <1>12 DEF Kept

-----------------------------------------------------------------------------
(* Uses.                                                                   *)

\* Of the scopes in which a name is there is an innermost: a set of numbers has
\* a least one.
LEMMA InnermostScope ==
    ASSUME namespace \in Name, NEW name, NEW S, InScope(name, S)
    PROVE  \E c \in Scopes : /\ GetFullyQualifiedName(name, c) \in S
                             /\ Innermost(name, S) = GetFullyQualifiedName(name, c)
<1> DEFINE n == Len(namespace)
           T == {c \in Scopes : GetFullyQualifiedName(name, c) \in S}
           U == {n - c : c \in T}
           R == OpToRel(<, Nat)
<1>1. n \in Nat /\ T \subseteq 0..n /\ T # {}
  BY DEF Name, Scopes, InScope
<1>2. U \in SUBSET Nat /\ U # {}
  BY <1>1
<1>3. IsWellFoundedOn(R, Nat)
  BY NatLessThanWellFounded
<1> HIDE DEF R, U
<1>4. PICK x \in U : \A y \in U : <<y, x>> \notin R
  BY <1>2, <1>3, WFMin
<1>5. \A y \in U : y \in Nat /\ x \in Nat /\ ~(y < x)
  BY <1>2, <1>4 DEF R, OpToRel
<1>6. PICK c \in T : x = n - c
  BY DEF U
<1>7. \A d \in T : d <= c
  <2> SUFFICES ASSUME NEW d \in T PROVE d <= c
    OBVIOUS
  <2>1. n - d \in U
    BY DEF U
  <2>2. ~(n - d < n - c)
    BY <1>5, <1>6, <2>1
  <2> HIDE DEF n, T
  <2>3. c \in Nat /\ d \in Nat
    BY <1>1
  <2> QED BY <1>1, <2>2, <2>3
<1>8. \E e \in Scopes : /\ GetFullyQualifiedName(name, e) \in S
                        /\ \A d \in Scopes : GetFullyQualifiedName(name, d) \in S => d <= e
  BY <1>7
<1> QED BY <1>8 DEF Innermost

\* What a use finds is there; if it is complete, it is of a scope around.
LEMMA FoundScoped ==
    ASSUME NamesInv, NEW name \in Name
    PROVE  /\ Found(name) \in DOMAIN def \cup {0} /\ 0 \notin DOMAIN def
           /\ Found(name) # 0 /\ ~def[Found(name)].predecl =>
                 \E c \in Scopes : QualifiedOf(Found(name)) = GetFullyQualifiedName(name, c)
<1>1. namespace \in Name /\ Filed /\ 0 \notin DOMAIN def
  BY FreshIsNext DEF NamesInv
<1>2. CASE Predeclared(name)
  BY <1>1, <1>2 DEF Found, Predeclared, Filed
<1>3. CASE ~Predeclared(name) /\ InScope(name, DOMAIN dict)
  <2>1. PICK c \in Scopes : /\ GetFullyQualifiedName(name, c) \in DOMAIN dict
                            /\ Found(name) = dict[GetFullyQualifiedName(name, c)]
    BY <1>1, <1>3, InnermostScope DEF Found
  <2> QED BY <1>1, <2>1 DEF Filed
<1>4. CASE ~Predeclared(name) /\ ~InScope(name, DOMAIN dict)
  BY <1>1, <1>4 DEF Found
<1> QED BY <1>2, <1>3, <1>4

\* The namespaces around a use, with its name, are what ScopedTo asks for.
LEMMA ScopeOfUse ==
    ASSUME namespace \in Name, NEW name, NEW c \in Scopes, NEW u,
           u.from = namespace, u.name = name
    PROVE  GetFullyQualifiedName(name, c) \in {p \o u.name : p \in Heads(u.from)}
BY DEF GetFullyQualifiedName, Heads, Scopes

\* What is settled stays so while definitions are kept.
LEMMA SettledKept ==
    ASSUME Settled, Kept, NEW u \in uses
    PROVE  /\ u.target \in DOMAIN def'
           /\ ~u.predecl => ~def'[u.target].predecl /\ ScopedTo(u)'
<1>1. u.target \in DOMAIN def /\ (~u.predecl => ~def[u.target].predecl /\ ScopedTo(u))
  BY DEF Settled
<1>2. u.target \in DOMAIN def'
  BY <1>1 DEF Kept
<1>3. CASE ~u.predecl
  <2>1. def'[u.target] = def[u.target]
    BY <1>1, <1>3 DEF Kept
  <2> QED BY <1>1, <1>2, <1>3, <2>1 DEF ScopedTo, QualifiedOf
<1> QED BY <1>1, <1>2, <1>3

\* A use.
LEMMA UseKeeps ==
    ASSUME NamesInv, NEW name \in Name, NEW by, Use(name, by)
    PROVE  /\ Numbered' /\ Kept /\ Filed' /\ Settled'
           /\ Target(name) \in DOMAIN def' /\ DOMAIN def \subseteq DOMAIN def'
<1>1. namespace \in Name /\ Numbered /\ Filed /\ Settled
  BY DEF NamesInv
<1>2. Found(name) \in DOMAIN def \cup {0} /\ 0 \notin DOMAIN def
  BY FoundScoped
<1>3. CASE Found(name) = 0
  <2> DEFINE x == NewDef(name, <<>>)
  <2>1. def' = Put(def, Fresh, x) /\ vec' = Append(vec, Fresh) /\ dict' = Put(dict, name, Fresh)
        /\ Target(name) = Fresh
    BY <1>3 DEF Use, DefAfterUse, VecAfterUse, DictAfterUse, Target
  <2>2. x \in StructDefs
    BY DEF NewDef, StructDefs, Name
  <2>3. /\ Numbered' /\ Kept /\ DOMAIN def' = DOMAIN def \cup {Fresh} /\ def'[Fresh] = x
        /\ \A d \in DOMAIN def : def'[d] = def[d]
    BY <1>1, <2>1, <2>2, NumberedNew
  <2>4. Filed'
    <3> SUFFICES ASSUME NEW n \in DOMAIN dict'
                 PROVE  /\ dict'[n] \in DOMAIN def'
                        /\ def'[dict'[n]].namespace \o def'[dict'[n]].name = n
      BY DEF Filed, QualifiedOf
    <3>1. CASE n = name
      <4>1. dict'[n] = Fresh
        BY <2>1, <3>1 DEF Put
      <4>2. <<>> \o name = name
        BY ConcatEmptySeq DEF Name
      <4>3. def'[Fresh].namespace = <<>> /\ def'[Fresh].name = name
        BY <2>3 DEF NewDef
      <4> QED BY <2>3, <3>1, <4>1, <4>2, <4>3 DEF QualifiedOf
    <3>2. CASE n # name
      <4>1. n \in DOMAIN dict /\ dict'[n] = dict[n]
        BY <2>1, <3>2 DEF Put
      <4>2. dict[n] \in DOMAIN def /\ QualifiedOf(dict[n]) = n
        BY <1>1, <4>1 DEF Filed
      <4> QED BY <2>3, <4>1, <4>2 DEF QualifiedOf
    <3> QED BY <3>1, <3>2
  <2>5. Settled'
    <3> SUFFICES ASSUME NEW u \in uses'
                 PROVE  /\ u.target \in DOMAIN def'
                        /\ ~u.predecl => ~def'[u.target].predecl /\ ScopedTo(u)'
      BY DEF Settled
    <3>1. CASE u \in uses
      BY <1>1, <2>3, <3>1, SettledKept
    <3>2. CASE u \notin uses
      <4>1. /\ u.target = Target(name)
            /\ u.predecl = (Found(name) = 0 \/ def[Target(name)].predecl)
        BY <3>2 DEF Use
      <4> QED BY <1>3, <2>1, <2>3, <4>1
    <3> QED BY <3>1, <3>2
  <2> QED BY <2>1, <2>3, <2>4, <2>5
<1>4. CASE Found(name) # 0
  <2>1. def' = def /\ vec' = vec /\ dict' = dict /\ Target(name) = Found(name)
    BY <1>4 DEF Use, DefAfterUse, VecAfterUse, DictAfterUse, Target
  <2>2. Numbered' /\ Kept /\ Filed'
    BY <1>1, <2>1 DEF Numbered, Kept, Filed, QualifiedOf
  <2>3. Settled'
    <3> SUFFICES ASSUME NEW u \in uses'
                 PROVE  /\ u.target \in DOMAIN def'
                        /\ ~u.predecl => ~def'[u.target].predecl /\ ScopedTo(u)'
      BY DEF Settled
    <3>1. CASE u \in uses
      BY <1>1, <2>2, <3>1, SettledKept
    <3>2. CASE u \notin uses
      <4>1. /\ u.target = Found(name) /\ u.from = namespace /\ u.name = name
            /\ u.predecl = (Found(name) = 0 \/ def[Found(name)].predecl)
        BY <2>1, <3>2 DEF Use
      <4>2. CASE u.predecl
        BY <1>2, <1>4, <2>1, <4>1, <4>2
      <4>3. CASE ~u.predecl
        <5>1. ~def[Found(name)].predecl
          BY <4>1, <4>3
        <5>2. PICK c \in Scopes : QualifiedOf(Found(name)) = GetFullyQualifiedName(name, c)
          BY <1>4, <5>1, FoundScoped
        <5>3. QualifiedOf(u.target) \in {p \o u.name : p \in Heads(u.from)}
          BY <1>1, <4>1, <5>2, ScopeOfUse
        <5>4. ScopedTo(u)'
          BY <2>1, <5>3 DEF ScopedTo, QualifiedOf
        <5> QED BY <1>2, <1>4, <2>1, <4>1, <5>1, <5>4
      <4> QED BY <4>2, <4>3
    <3> QED BY <3>1, <3>2
  <2> QED BY <1>2, <1>4, <2>1, <2>2, <2>3
<1> QED BY <1>3, <1>4

-----------------------------------------------------------------------------
(* Definitions of names.                                                   *)

\* The name a definition gets, and what it takes over.
LEMMA ExistingFiled ==
    ASSUME NamesInv, NamesTyped, NEW name \in Identifiers
    PROVE  /\ Qualified(<<name>>) = namespace \o <<name>>
           /\ Existing(name) \in DOMAIN def \cup {0} /\ 0 \notin DOMAIN def
           /\ Predeclared(<<name>>) =>
                 /\ Existing(name) # 0 /\ Existing(name) = dict[<<name>>]
                 /\ <<name>> \in DOMAIN dict
           /\ ~Predeclared(<<name>>) /\ Existing(name) # 0 =>
                 /\ Qualified(<<name>>) \in DOMAIN dict
                 /\ Existing(name) = dict[Qualified(<<name>>)]
<1>1. namespace \in Name /\ Filed /\ 0 \notin DOMAIN def
  BY FreshIsNext DEF NamesInv
<1>2. SubSeq(namespace, 1, Len(namespace)) = namespace
  BY <1>1, SubSeqFull DEF Name
<1>3. Qualified(<<name>>) = namespace \o <<name>>
  BY <1>2 DEF Qualified, GetFullyQualifiedName
<1> QED BY <1>1, <1>3 DEF Existing, Predeclared, Filed

\* StartStruct: the definition is registered under its full name and no other.
LEMMA StartKeeps ==
    ASSUME NamesInv, NamesTyped, NEW name \in Identifiers, NEW fixed \in BOOLEAN,
           StartStruct(name, fixed), Existing(name) = 0 \/ def[Existing(name)].predecl
    PROVE  Numbered' /\ Kept /\ Filed' /\ Settled'
<1> DEFINE q == Qualified(<<name>>)
           d == IF Existing(name) = 0 THEN Fresh ELSE Existing(name)
           x == [name |-> <<name>>, namespace |-> namespace, predecl |-> FALSE, fixed |-> fixed]
<1>1. namespace \in Name /\ Numbered /\ Filed /\ Settled
  BY DEF NamesInv
<1>2. /\ dict' = Registered(name, d) /\ def' = Put(def, d, x) /\ vec' = MovedToBack(d)
      /\ uses' = uses
  BY DEF StartStruct
<1>3. q = namespace \o <<name>> /\ Existing(name) \in DOMAIN def \cup {0} /\ 0 \notin DOMAIN def
  BY ExistingFiled
<1>4. x \in StructDefs /\ <<name>> \in Name
  BY <1>1 DEF StructDefs, Name, NamesTyped
<1>5. /\ Numbered' /\ Kept /\ d \in DOMAIN def' /\ def'[d] = x
      /\ \A e \in DOMAIN def : e # d => e \in DOMAIN def' /\ def'[e] = def[e]
  <2>1. CASE Existing(name) = 0
    <3>1. d = Fresh
      BY <2>1
    <3>2. \A i \in DOMAIN vec : vec[i] # Fresh
      BY <1>1, FreshIsNext DEF Numbered
    <3>3. vec' = Append(vec, Fresh)
      BY <1>2, <3>1, <3>2 DEF MovedToBack
    <3> QED BY <1>1, <1>2, <1>4, <3>1, <3>3, NumberedNew
  <2>2. CASE Existing(name) # 0
    <3>1. d \in DOMAIN def /\ def[d].predecl
      BY <1>3, <2>2
    <3> QED BY <1>1, <1>2, <1>4, <3>1, NumberedMoved
  <2> QED BY <2>1, <2>2
<1> HIDE DEF d
<1>6. def'[d].namespace \o def'[d].name = q
  BY <1>3, <1>5
<1>7. ASSUME NEW n \in DOMAIN dict, n # q, dict[n] # d
      PROVE  dict[n] \in DOMAIN def' /\ def'[dict[n]].namespace \o def'[dict[n]].name = n
  BY <1>1, <1>5, <1>7 DEF Filed, QualifiedOf
<1>8. /\ q \in DOMAIN dict' /\ dict'[q] = d
      /\ \A n \in DOMAIN dict' : n # q => n \in DOMAIN dict /\ dict[n] # d /\ dict'[n] = dict[n]
  <2>1. CASE Predeclared(<<name>>)
    <3>1. /\ d = dict[<<name>>] /\ <<name>> \in DOMAIN dict
          /\ dict' = Move(dict, <<name>>, q)
      BY <1>2, <2>1, ExistingFiled DEF d, Registered
    <3>2. \A n \in DOMAIN dict : dict[n] = d => n = <<name>>
      BY <1>1, <3>1 DEF Filed
    <3> HIDE DEF q
    <3> QED BY <3>1, <3>2 DEF Move
  <2>2. CASE ~Predeclared(<<name>>) /\ Existing(name) # 0
    <3>1. d = dict[q] /\ q \in DOMAIN dict /\ dict' = dict
      BY <1>2, <2>2, ExistingFiled DEF d, Registered
    <3>2. \A n \in DOMAIN dict : dict[n] = d => n = q
      BY <1>1, <3>1 DEF Filed
    <3> QED BY <3>1, <3>2
  <2>3. CASE ~Predeclared(<<name>>) /\ Existing(name) = 0
    <3>1. d = Fresh /\ dict' = Put(dict, q, d)
      BY <1>2, <2>3 DEF d, Registered
    <3>2. \A n \in DOMAIN dict : dict[n] # d
      BY <1>1, <3>1, FreshIsNext DEF Filed
    <3> QED BY <3>1, <3>2 DEF Put
  <2> QED BY <2>1, <2>2, <2>3
<1>9. Filed'
  <2> SUFFICES ASSUME NEW n \in DOMAIN dict'
               PROVE  /\ dict'[n] \in DOMAIN def'
                      /\ def'[dict'[n]].namespace \o def'[dict'[n]].name = n
    BY DEF Filed, QualifiedOf
  <2>1. CASE n = q
    BY <1>5, <1>6, <1>8, <2>1
  <2>2. CASE n # q
    BY <1>7, <1>8, <2>2
  <2> QED BY <2>1, <2>2
<1>10. Settled'
  <2> SUFFICES ASSUME NEW u \in uses'
               PROVE  /\ u.target \in DOMAIN def'
                      /\ ~u.predecl => ~def'[u.target].predecl /\ ScopedTo(u)'
    BY DEF Settled
  <2> QED BY <1>1, <1>2, <1>5, SettledKept
<1> QED BY <1>5, <1>9, <1>10

-----------------------------------------------------------------------------
(* The steps of a parse.                                                   *)

\* What is common to every step that goes on.
LEMMA NamesKept ==
    ASSUME NamesInv, Numbered', Kept, Filed', Settled', namespace' \in Name,
           state' \in {"parsing", "failed"}, step' \in 0..MaxSteps, References'
    PROVE  NamesInv'
BY DEF NamesInv, Accepted

\* References stay good while definitions are kept.
LEMMA ReferencesKept ==
    ASSUME NamesInv, Kept, UNCHANGED <<root, services>>,
           inside'.kind = "rpc" => inside'.is \in DOMAIN def' \cup {0}
    PROVE  References'
BY DEF NamesInv, References, Kept

\* Steps that leave the definitions alone.
LEMMA SameDefinitions ==
    ASSUME NamesInv, UNCHANGED <<dict, vec, def, uses>>
    PROVE  Numbered' /\ Kept /\ Filed' /\ Settled'
<1>1. Numbered /\ Filed /\ Settled
  BY DEF NamesInv
<1>2. Numbered' /\ Kept /\ Filed'
  BY <1>1 DEF Numbered, Kept, Filed, QualifiedOf
<1>3. Settled'
  BY <1>1 DEF Settled, ScopedTo, QualifiedOf
<1> QED BY <1>2, <1>3

\* A type that is used, be it an enum.
LEMMA UseTypeKeeps ==
    ASSUME NamesInv, NEW name \in Name, NEW by, UseType(name, by)
    PROVE  /\ Numbered' /\ Kept /\ Filed' /\ Settled'
           /\ ~IsEnum(name) => Target(name) \in DOMAIN def'
BY UseKeeps, SameDefinitions DEF UseType

\* A step is counted.
LEMMA StepCounts ==
    ASSUME NamesInv, NamesTyped, Step
    PROVE  step' \in 0..MaxSteps /\ state = "parsing" /\ namespace \in Name
BY DEF NamesInv, NamesTyped, Step

\* A check that fails ends the parse.
LEMMA FailKeeps ==
    ASSUME NamesInv, NamesTyped, Step, Fail
    PROVE  NamesInv'
<1>1. /\ UNCHANGED <<namespace, dict, vec, def, root, services, inside, uses>> /\ state' = "failed"
  BY DEF Fail
<1>2. Numbered' /\ Kept /\ Filed' /\ Settled'
  BY <1>1, SameDefinitions
<1>3. References'
  BY <1>1 DEF NamesInv, References
<1> QED BY <1>1, <1>2, <1>3, StepCounts, NamesKept

\* Every step of a parse keeps what is registered and used in order.
LEMMA NamesStep ==
    ASSUME NamesInv, NamesTyped, [Next]_namesVars
    PROVE  NamesInv'
<1>1. ASSUME NEW n \in Namespaces, ParseNamespace(n) PROVE NamesInv'
  <2>1. Step /\ UNCHANGED <<dict, vec, def, root, services, inside, uses, state>> /\ namespace' = n
    BY <1>1 DEF ParseNamespace, AtTop
  <2>2. Numbered' /\ Kept /\ Filed' /\ Settled'
    BY <2>1, SameDefinitions
  <2>3. References'
    BY <2>1 DEF NamesInv, References
  <2>4. namespace' \in Name
    BY <2>1 DEF NamesTyped, Name
  <2> QED BY <2>1, <2>2, <2>3, <2>4, StepCounts, NamesKept
<1>2. ASSUME NEW name \in Identifiers, NEW fixed \in BOOLEAN, StartStruct(name, fixed)
      PROVE  NamesInv'
  <2>1. Step
    BY <1>2 DEF StartStruct, AtTop
  <2>2. CASE Existing(name) # 0 /\ ~def[Existing(name)].predecl
    <3>1. Fail
      BY <1>2, <2>2 DEF StartStruct
    <3> QED BY <2>1, <3>1, FailKeeps
  <2>3. CASE ~(Existing(name) # 0 /\ ~def[Existing(name)].predecl)
    <3>1. Numbered' /\ Kept /\ Filed' /\ Settled'
      BY <1>2, <2>3, StartKeeps
    <3>2. UNCHANGED <<namespace, root, services, state>> /\ inside'.kind = "def"
      BY <1>2, <2>3 DEF StartStruct
    <3>3. References'
      BY <3>1, <3>2, ReferencesKept
    <3> QED BY <2>1, <3>1, <3>2, <3>3, StepCounts, NamesKept
  <2> QED BY <2>2, <2>3
<1>3. ASSUME NEW name \in Uses, FieldOf(name) PROVE NamesInv'
  <2>1. /\ Step /\ UseType(name, inside.is) /\ state' \in {"failed", state}
        /\ UNCHANGED <<namespace, root, services, inside>> /\ name \in Name /\ inside.kind = "def"
    BY <1>3 DEF FieldOf, FailIf, NamesTyped, Name
  <2>2. Numbered' /\ Kept /\ Filed' /\ Settled'
    BY <2>1, UseTypeKeeps
  <2>3. References'
    BY <2>1, <2>2, ReferencesKept
  <2> QED BY <2>1, <2>2, <2>3, StepCounts, NamesKept
<1>4. ASSUME NEW name \in Identifiers, NEW is_union \in BOOLEAN, ParseEnum(name, is_union)
      PROVE  NamesInv'
  <2>1. Step
    BY <1>4 DEF ParseEnum, AtTop
  <2>2. CASE Fail
    BY <2>1, <2>2, FailKeeps
  <2>3. CASE ~Fail
    <3>1. UNCHANGED <<namespace, dict, vec, def, root, services, uses, state>>
      BY <1>4, <2>3 DEF ParseEnum
    <3>2. inside'.kind # "rpc"
      BY <1>4, <2>3 DEF ParseEnum, NoOne
    <3>3. Numbered' /\ Kept /\ Filed' /\ Settled'
      BY <3>1, SameDefinitions
    <3>4. References'
      BY <3>1, <3>2, <3>3, ReferencesKept
    <3> QED BY <2>1, <3>1, <3>3, <3>4, StepCounts, NamesKept
  <2> QED BY <2>2, <2>3
<1>5. ASSUME NEW name \in Uses, MemberOf(name) PROVE NamesInv'
  <2>1. Step /\ name \in Name
    BY <1>5 DEF MemberOf, NamesTyped, Name
  <2>2. CASE Fail
    BY <2>1, <2>2, FailKeeps
  <2>3. CASE ~Fail
    <3>1. Use(name, 0) /\ UNCHANGED <<namespace, root, services, inside, state>>
      BY <1>5, <2>3 DEF MemberOf
    <3>2. Numbered' /\ Kept /\ Filed' /\ Settled'
      BY <2>1, <3>1, UseKeeps
    <3>3. inside'.kind # "rpc"
      BY <1>5, <3>1 DEF MemberOf
    <3>4. References'
      BY <3>1, <3>2, <3>3, ReferencesKept
    <3> QED BY <2>1, <3>1, <3>2, <3>4, StepCounts, NamesKept
  <2> QED BY <2>2, <2>3
<1>6. ASSUME NEW name \in Identifiers, ParseService(name) PROVE NamesInv'
  <2>1. Step
    BY <1>6 DEF ParseService, AtTop
  <2>2. CASE Fail
    BY <2>1, <2>2, FailKeeps
  <2>3. CASE ~Fail
    <3>1. /\ UNCHANGED <<namespace, dict, vec, def, root, uses, state>> /\ inside'.kind = "service"
          /\ services' = Put(services, Qualified(<<name>>), << >>)
      BY <1>6, <2>3 DEF ParseService
    <3>2. Numbered' /\ Kept /\ Filed' /\ Settled'
      BY <3>1, SameDefinitions
    <3>3. References'
      <4>1. \A s \in DOMAIN services' :
               \/ services'[s] = << >>
               \/ s \in DOMAIN services /\ services'[s] = services[s]
        BY <3>1 DEF Put
      <4>2. DOMAIN << >> = {}
        OBVIOUS
      <4> QED BY <3>1, <4>1, <4>2 DEF NamesInv, References
    <3> QED BY <2>1, <3>1, <3>2, <3>3, StepCounts, NamesKept
  <2> QED BY <2>2, <2>3
<1>7. ASSUME NEW type \in Uses, RequestOf(type) PROVE NamesInv'
  <2>1. /\ Step /\ UseType(type, 0) /\ UNCHANGED <<namespace, root, services, state>>
        /\ type \in Name
        /\ inside' = [inside EXCEPT !.kind = "rpc", !.is = IF IsEnum(type) THEN 0 ELSE Target(type)]
    BY <1>7 DEF RequestOf, NamesTyped, Name
  <2>2. /\ Numbered' /\ Kept /\ Filed' /\ Settled'
        /\ ~IsEnum(type) => Target(type) \in DOMAIN def'
    BY <2>1, UseTypeKeeps
  <2>3. inside'.kind = "rpc" => inside'.is \in DOMAIN def' \cup {0}
    BY <2>1, <2>2
  <2>4. References'
    BY <2>1, <2>2, <2>3, ReferencesKept
  <2> QED BY <2>1, <2>2, <2>4, StepCounts, NamesKept
<1>8. ASSUME NEW rpc \in Identifiers, NEW type \in Uses, ResponseOf(rpc, type) PROVE NamesInv'
  <2>1. /\ Step /\ UseType(type, 0) /\ UNCHANGED <<namespace, root>> /\ type \in Name
        /\ inside.kind = "rpc"
    BY <1>8 DEF ResponseOf, NamesTyped, Name
  <2>2. /\ Numbered' /\ Kept /\ Filed' /\ Settled'
        /\ ~IsEnum(type) => Target(type) \in DOMAIN def'
    BY <2>1, UseTypeKeeps
  <2>3. CASE state' = "failed" /\ UNCHANGED <<services, inside>>
    <3>1. inside'.kind = "rpc" => inside'.is \in DOMAIN def' \cup {0}
      BY <2>1, <2>2, <2>3 DEF NamesInv, References, Kept
    <3>2. References'
      BY <2>1, <2>2, <2>3, <3>1, ReferencesKept
    <3> QED BY <2>1, <2>2, <2>3, <3>2, StepCounts, NamesKept
  <2>4. CASE ~(state' = "failed" /\ UNCHANGED <<services, inside>>)
    <3> DEFINE pair == <<inside.is, Target(type)>>
    <3>1. /\ inside.is # 0 /\ ~IsEnum(type) /\ UNCHANGED state
          /\ services' = [services EXCEPT ![inside.name] = Put(@, rpc, pair)]
          /\ inside' = [inside EXCEPT !.kind = "service", !.is = 0]
      BY <1>8, <2>4 DEF ResponseOf, IsTable
    <3>2. pair[1] \in DOMAIN def' /\ pair[2] \in DOMAIN def'
      BY <2>1, <2>2, <3>1 DEF NamesInv, References, Kept
    <3> HIDE DEF pair
    <3>3. ASSUME NEW s \in DOMAIN services', NEW r \in DOMAIN services'[s]
          PROVE  \/ services'[s][r] = pair
                 \/ r \in DOMAIN services[s] /\ services'[s][r] = services[s][r]
      <4>1. CASE s = inside.name
        <5>1. services'[s] = Put(services[s], rpc, pair)
          BY <3>1, <4>1
        <5>2. \A z \in DOMAIN Put(services[s], rpc, pair) :
                 \/ Put(services[s], rpc, pair)[z] = pair
                 \/ z \in DOMAIN services[s] /\ Put(services[s], rpc, pair)[z] = services[s][z]
          BY DEF Put
        <5> QED BY <3>3, <5>1, <5>2
      <4>2. CASE s # inside.name
        BY <3>1, <3>3, <4>2
      <4> QED BY <4>1, <4>2
    <3>4. DOMAIN services' = DOMAIN services
      BY <3>1
    <3>5. \A s \in DOMAIN services' : \A r \in DOMAIN services'[s] :
             services'[s][r][1] \in DOMAIN def' /\ services'[s][r][2] \in DOMAIN def'
      <4> SUFFICES ASSUME NEW s \in DOMAIN services', NEW r \in DOMAIN services'[s]
                   PROVE  services'[s][r][1] \in DOMAIN def' /\ services'[s][r][2] \in DOMAIN def'
        OBVIOUS
      <4>1. CASE services'[s][r] = pair
        BY <3>2, <4>1
      <4>2. CASE r \in DOMAIN services[s] /\ services'[s][r] = services[s][r]
        <5>1. services[s][r][1] \in DOMAIN def /\ services[s][r][2] \in DOMAIN def
          BY <3>4, <4>2 DEF NamesInv, References
        <5> QED BY <2>2, <4>2, <5>1 DEF Kept
      <4> QED BY <3>3, <4>1, <4>2
    <3>6. root' \in DOMAIN def' \cup {0}
      BY <2>1, <2>2 DEF NamesInv, References, Kept
    <3>7. inside'.kind = "rpc" => inside'.is \in DOMAIN def' \cup {0}
      BY <3>1
    <3>8. References'
      BY <3>5, <3>6, <3>7 DEF References
    <3> QED BY <2>1, <2>2, <3>1, <3>8, StepCounts, NamesKept
  <2> QED BY <2>3, <2>4
<1>9. ASSUME NEW name \in Uses, SetRootType(name) PROVE NamesInv'
  <2>1. /\ Step /\ root' = RootOf(name) /\ state' \in {"failed", state}
        /\ UNCHANGED <<namespace, dict, vec, def, services, inside, uses>>
    BY <1>9 DEF SetRootType, AtTop, FailIf
  <2>2. Numbered' /\ Kept /\ Filed' /\ Settled'
    BY <2>1, SameDefinitions
  <2>3. RootOf(name) \in DOMAIN def \cup {0}
    BY DEF RootOf, NamesInv, Filed
  <2>4. References'
    BY <2>1, <2>3 DEF NamesInv, References
  <2> QED BY <2>1, <2>2, <2>4, StepCounts, NamesKept
<1>10. CASE End
  <2>1. /\ Step /\ UNCHANGED <<namespace, dict, vec, def, root, services, uses, state>>
        /\ inside'.kind = "none"
    BY <1>10 DEF End, NoOne
  <2>2. Numbered' /\ Kept /\ Filed' /\ Settled'
    BY <2>1, SameDefinitions
  <2>3. References'
    BY <2>1, <2>2, ReferencesKept
  <2> QED BY <2>1, <2>2, <2>3, StepCounts, NamesKept
<1>11. CASE EndOfSchema
  <2>1. /\ UNCHANGED <<namespace, dict, vec, def, root, services, inside, uses, step>>
        /\ state' = IF NoneReferencedOnly /\ UnionElementsAreTables THEN "done" ELSE "failed"
    BY <1>11 DEF EndOfSchema
  <2>2. Numbered' /\ Kept /\ Filed' /\ Settled'
    BY <2>1, SameDefinitions
  <2>3. References'
    BY <2>1 DEF NamesInv, References
  <2>4. Accepted'
    <3> SUFFICES ASSUME state' = "done", NEW d \in DOMAIN def PROVE ~def[d].predecl
      BY <2>1 DEF Accepted
    <3>1. PICK i \in DOMAIN vec : vec[i] = d
      BY DEF NamesInv, Numbered
    <3>2. NoneReferencedOnly
      BY <2>1
    <3> QED BY <3>1, <3>2 DEF NoneReferencedOnly
  <2> QED BY <2>1, <2>2, <2>3, <2>4 DEF NamesInv
<1>12. CASE UNCHANGED namesVars
  <2>1. UNCHANGED <<namespace, dict, vec, def, root, services, inside, uses, step, state>>
    BY <1>12 DEF namesVars
  <2>2. Numbered' /\ Kept /\ Filed' /\ Settled'
    BY <2>1, SameDefinitions
  <2> QED BY <2>1, <2>2 DEF NamesInv, References, Accepted
<1> QED BY <1>1, <1>2, <1>3, <1>4, <1>5, <1>6, <1>7, <1>8, <1>9, <1>10, <1>11, <1>12 DEF Next

\* A parser that has read nothing.
LEMMA NamesStart == Init /\ NamesTyped => NamesInv
<1> SUFFICES ASSUME Init, NamesTyped PROVE NamesInv
  OBVIOUS
<1>1. /\ namespace = <<>> /\ dict = << >> /\ vec = <<>> /\ def = << >> /\ root = 0
      /\ services = << >> /\ inside = NoOne /\ uses = {} /\ step = 0 /\ state = "parsing"
  BY DEF Init
<1>2. Numbered
  <2>1. DOMAIN def = {} /\ DOMAIN vec = {} /\ Len(vec) = 0 /\ 1..0 = {}
    BY <1>1
  <2>2. def \in [1 .. Len(vec) -> StructDefs]
    BY <1>1, <2>1
  <2> QED BY <1>1, <2>1, <2>2 DEF Numbered
<1>3. Filed /\ Settled /\ References /\ Accepted
  BY <1>1 DEF Filed, Settled, References, Accepted, NoOne
<1>4. namespace \in Name /\ step \in 0..MaxSteps
  BY <1>1 DEF Name, NamesTyped
<1> QED BY <1>1, <1>2, <1>3, <1>4 DEF NamesInv

-----------------------------------------------------------------------------
(* What a schema promises.                                                 *)

\* What the invariant says of types ...
LEMMA NamesTypes == NamesInv => TypeOK
<1> SUFFICES ASSUME NamesInv PROVE TypeOK
  OBVIOUS
<1>1. Len(vec) = Cardinality(Definitions)
  <2>1. Len(vec) \in Nat /\ Definitions = 1 .. Len(vec)
    BY FreshIsNext DEF NamesInv, Definitions
  <2> DEFINE n == Len(vec)
  <2>2. n \in Nat /\ Definitions = 1..n
    BY <2>1
  <2> HIDE DEF n
  <2>3. Cardinality(1..n) = n
    BY <2>2, FS_Interval
  <2> QED BY <2>2, <2>3 DEF n
<1>2. {vec[i] : i \in DOMAIN vec} = Definitions
  BY DEF NamesInv, Numbered, Definitions
<1>3. /\ \A n \in DOMAIN dict : dict[n] \in Definitions
      /\ \A u \in uses : u.target \in Definitions
      /\ root \in Definitions \cup {0}
      /\ \A s \in DOMAIN services : \A rpc \in DOMAIN services[s] :
            {services[s][rpc][1], services[s][rpc][2]} \subseteq Definitions
  BY DEF NamesInv, Filed, Settled, References, Definitions
<1> QED BY <1>1, <1>2, <1>3 DEF NamesInv, TypeOK

\* ... and of meanings.
LEMMA NamesMean == NamesInv => DefinedThenScoped /\ UsesDefined
BY DEF NamesInv, Settled, Accepted, DefinedThenScoped, UsesDefined

\* structs_.vec and its index speak of the same definitions, each once, and
\* fields, rpcs and the root type of definitions there are.
THEOREM SchemaNamesTypeOK ==
    ASSUME NamesTyped
    PROVE  Spec => []TypeOK
<1>1. Init => NamesInv
  BY NamesStart
<1>2. NamesInv /\ [Next]_namesVars => NamesInv'
  BY NamesStep
<1> QED BY <1>1, <1>2, NamesTypes, PTL DEF Spec

\* A use of what was defined before it means a definition of a namespace around
\* the use, whatever is predeclared, moved and defined after it; and all that
\* an accepted schema uses is defined.
THEOREM SchemaNamesScoped ==
    ASSUME NamesTyped
    PROVE  Spec => [](DefinedThenScoped /\ UsesDefined)
<1>1. Init => NamesInv
  BY NamesStart
<1>2. NamesInv /\ [Next]_namesVars => NamesInv'
  BY NamesStep
<1> QED BY <1>1, <1>2, NamesMean, PTL DEF Spec

-----------------------------------------------------------------------------
(* The order of definitions.  A struct comes behind the structs it holds,  *)
(* although predeclared ones move: what is complete when it is used is in  *)
(* front of the definition that is being parsed, and only what is          *)
(* predeclared ever moves.                                                 *)

\* structs_.vec holds no definition twice.
Once == \A i, j \in DOMAIN vec : vec[i] = vec[j] => i = j

FixedComplete == \A d \in DOMAIN def : def[d].fixed => ~def[d].predecl

\* Behind the definition that is being parsed is only what it has predeclared.
Latest ==
    inside.kind = "def" =>
        /\ inside.is \in DOMAIN def /\ ~def[inside.is].predecl
        /\ \A i, j \in DOMAIN vec : vec[i] = inside.is /\ i < j => def[vec[j]].predecl

InFront(d, e) == \A i, j \in DOMAIN vec : vec[i] = d /\ vec[j] = e => i < j
Ordered ==
    \A u \in uses : u.by # 0 =>
        /\ u.by \in DOMAIN def /\ ~def[u.by].predecl
        /\ state # "failed" /\ def[u.by].fixed /\ u.target # u.by =>
              def[u.target].fixed /\ InFront(u.target, u.by)

OrderInv == Once /\ FixedComplete /\ Latest /\ Ordered

\* What a use predeclares goes to the end of the vector.
LEMMA UseAppends ==
    ASSUME NamesInv, Once, NEW name \in Name, NEW by, Use(name, by)
    PROVE  /\ \A d \in DOMAIN def : d \in DOMAIN def' /\ def'[d] = def[d]
           /\ \A d \in DOMAIN def' : d \notin DOMAIN def => def'[d].predecl /\ ~def'[d].fixed
           /\ \A i \in DOMAIN vec : i \in DOMAIN vec' /\ vec'[i] = vec[i]
           /\ \A i \in DOMAIN vec' : i \notin DOMAIN vec => vec'[i] \notin DOMAIN def
           /\ \A i \in DOMAIN vec : vec[i] \in DOMAIN def
           /\ \A i \in DOMAIN vec' : vec'[i] \in DOMAIN def' /\ i \in Nat
           /\ Once'
<1>1. Numbered /\ Len(vec) \in Nat /\ DOMAIN vec = 1..Len(vec) /\ Fresh \notin DOMAIN def
      /\ \A i \in DOMAIN vec : vec[i] \in DOMAIN def
  BY FreshIsNext DEF NamesInv, Numbered
<1>2. CASE Found(name) = 0
  <2> DEFINE n == Len(vec)
             x == NewDef(name, <<>>)
  <2>1. def' = Put(def, Fresh, x) /\ vec' = Append(vec, Fresh)
    BY <1>2 DEF Use, DefAfterUse, VecAfterUse
  <2>2. /\ DOMAIN vec' = 1..(n + 1) /\ vec'[n + 1] = Fresh
        /\ \A i \in 1..n : vec'[i] = vec[i]
    BY <1>1, <2>1 DEF Numbered
  <2>3. /\ DOMAIN def' = DOMAIN def \cup {Fresh} /\ def'[Fresh] = x
        /\ \A d \in DOMAIN def : def'[d] = def[d]
    BY <1>1, <2>1 DEF Put
  <2>4. x.predecl /\ ~x.fixed
    BY DEF NewDef
  <2>5. Once'
    <3> SUFFICES ASSUME NEW i \in 1..(n + 1), NEW j \in 1..(n + 1), vec'[i] = vec'[j]
                 PROVE  i = j
      BY <2>2 DEF Once
    <3>1. i \in 1..n \/ i = n + 1
      BY <1>1
    <3>2. j \in 1..n \/ j = n + 1
      BY <1>1
    <3> HIDE DEF n, x
    <3> QED BY <1>1, <2>2, <3>1, <3>2 DEF Once, n
  <2>6. \A i \in 1..(n + 1) : i \in 1..n \/ i = n + 1
    BY <1>1
  <2> HIDE DEF n, x
  <2> QED BY <1>1, <2>2, <2>3, <2>4, <2>5, <2>6 DEF n
<1>3. CASE Found(name) # 0
  <2>1. def' = def /\ vec' = vec
    BY <1>3 DEF Use, DefAfterUse, VecAfterUse
  <2> QED BY <1>1, <2>1 DEF Once
<1> QED BY <1>2, <1>3

\* A use by the definition that is being parsed, or by none.
LEMMA UseOrder ==
    ASSUME NamesInv, OrderInv, NEW name \in Name, NEW by, Use(name, by), state' \in {state, "failed"},
           \/ by = 0 /\ inside'.kind # "def"
           \/ /\ by = inside.is /\ inside.kind = "def" /\ inside' = inside
              /\ def[by].fixed /\ ~IsFixed(name) => state' = "failed"
    PROVE  OrderInv'
<1>1. Once /\ FixedComplete /\ Latest /\ Ordered /\ Settled /\ Numbered
  BY DEF OrderInv, NamesInv
<1>2. /\ \A d \in DOMAIN def : d \in DOMAIN def' /\ def'[d] = def[d]
      /\ \A d \in DOMAIN def' : d \notin DOMAIN def => def'[d].predecl /\ ~def'[d].fixed
      /\ \A i \in DOMAIN vec : i \in DOMAIN vec' /\ vec'[i] = vec[i]
      /\ \A i \in DOMAIN vec' : i \notin DOMAIN vec => vec'[i] \notin DOMAIN def
      /\ \A i \in DOMAIN vec : vec[i] \in DOMAIN def
      /\ \A i \in DOMAIN vec' : vec'[i] \in DOMAIN def' /\ i \in Nat
      /\ Once'
  BY <1>1, UseAppends
<1>3. FixedComplete'
  BY <1>1, <1>2 DEF FixedComplete
<1>4. Latest'
  <2> SUFFICES ASSUME inside'.kind = "def"
               PROVE  /\ inside'.is \in DOMAIN def' /\ ~def'[inside'.is].predecl
                      /\ \A i, j \in DOMAIN vec' :
                            vec'[i] = inside'.is /\ i < j => def'[vec'[j]].predecl
    BY DEF Latest
  <2>1. inside' = inside
    OBVIOUS
  <2>2. /\ inside.is \in DOMAIN def /\ ~def[inside.is].predecl
        /\ \A i, j \in DOMAIN vec : vec[i] = inside.is /\ i < j => def[vec[j]].predecl
    BY <1>1, <2>1 DEF Latest
  <2>3. ASSUME NEW i \in DOMAIN vec', NEW j \in DOMAIN vec', vec'[i] = inside.is, i < j
        PROVE  def'[vec'[j]].predecl
    <3>1. i \in DOMAIN vec /\ vec[i] = inside.is
      BY <1>2, <2>2, <2>3
    <3>2. CASE j \in DOMAIN vec
      BY <1>2, <2>2, <2>3, <3>1, <3>2
    <3>3. CASE j \notin DOMAIN vec
      BY <1>2, <2>3, <3>3
    <3> QED BY <3>2, <3>3
  <2> QED BY <1>2, <2>1, <2>2, <2>3
<1>5. Ordered'
  <2> SUFFICES ASSUME NEW u \in uses', u.by # 0
               PROVE  /\ u.by \in DOMAIN def' /\ ~def'[u.by].predecl
                      /\ state' # "failed" /\ def'[u.by].fixed /\ u.target # u.by =>
                            def'[u.target].fixed /\ InFront(u.target, u.by)'
    BY DEF Ordered
  <2>1. CASE u \in uses
    <3>1. /\ u.by \in DOMAIN def /\ ~def[u.by].predecl /\ u.target \in DOMAIN def
          /\ state # "failed" /\ def[u.by].fixed /\ u.target # u.by =>
                def[u.target].fixed /\ InFront(u.target, u.by)
      BY <1>1, <2>1 DEF Ordered, Settled
    <3>2. ASSUME InFront(u.target, u.by) PROVE InFront(u.target, u.by)'
      BY <1>2, <3>1, <3>2 DEF InFront
    <3> QED BY <1>2, <3>1, <3>2
  <2>2. CASE u \notin uses
    <3>1. u.by = by /\ u.target = Target(name) /\ by # 0
      BY <2>2 DEF Use
    <3>2. /\ by = inside.is /\ inside.kind = "def" /\ inside' = inside
          /\ by \in DOMAIN def /\ ~def[by].predecl
      BY <1>1, <3>1 DEF Latest
    <3>3. ASSUME state' # "failed", def'[by].fixed, u.target # by
          PROVE  def'[u.target].fixed /\ InFront(u.target, by)'
      <4>1. IsFixed(name)
        BY <1>2, <3>2, <3>3
      <4>2. /\ u.target \in DOMAIN def /\ def[u.target].fixed /\ ~def[u.target].predecl
        BY <1>1, <3>1, <4>1, FoundScoped DEF IsFixed, Target, FixedComplete
      <4>3. ASSUME NEW i \in DOMAIN vec', NEW j \in DOMAIN vec',
                   vec'[i] = u.target, vec'[j] = by
            PROVE  i < j
        <5>1. i \in DOMAIN vec /\ j \in DOMAIN vec /\ vec[i] = u.target /\ vec[j] = by
          BY <1>2, <3>2, <4>2, <4>3
        <5>2. ~(j < i) /\ i # j
          BY <1>1, <3>2, <3>3, <4>2, <5>1 DEF Latest
        <5>3. i \in Nat /\ j \in Nat
          BY <1>2
        <5> QED BY <5>2, <5>3
      <4> QED BY <1>2, <4>2, <4>3 DEF InFront
    <3> QED BY <1>2, <3>1, <3>2, <3>3
  <2> QED BY <2>1, <2>2
<1> QED BY <1>2, <1>3, <1>4, <1>5 DEF OrderInv

\* Steps that leave the definitions alone.
LEMMA SameOrder ==
    ASSUME OrderInv, UNCHANGED <<vec, def, uses>>, inside'.kind = "def" => inside' = inside,
           state = "failed" => state' = "failed"
    PROVE  OrderInv'
<1>1. Once' /\ FixedComplete'
  BY DEF OrderInv, Once, FixedComplete
<1>2. Latest'
  BY DEF OrderInv, Latest
<1>3. Ordered'
  BY DEF OrderInv, Ordered, InFront
<1> QED BY <1>1, <1>2, <1>3 DEF OrderInv

\* MovedToBack: the definition is the last one, what was in front of what else
\* is still.
LEMMA MovedLast ==
    ASSUME NamesInv, Once, NEW d, d \in DOMAIN def \/ \A i \in DOMAIN vec : vec[i] # d,
           vec' = MovedToBack(d)
    PROVE  /\ Once'
           /\ \A i, j \in DOMAIN vec' : vec'[i] = d => ~(i < j)
           /\ \A i, j \in DOMAIN vec' : vec'[i] # d /\ vec'[j] # d =>
                 \E k, l \in DOMAIN vec : vec[k] = vec'[i] /\ vec[l] = vec'[j] /\ (k < l => i < j)
<1> DEFINE n == Len(vec)
           p == PlaceOf(d)
<1>1. n \in Nat /\ DOMAIN vec = 1..n /\ vec \in Seq(Nat) /\ DOMAIN def = 1..n
      /\ \A e \in DOMAIN def : \E i \in DOMAIN vec : vec[i] = e
  BY DEF NamesInv, Numbered
<1>2. CASE \A i \in DOMAIN vec : vec[i] # d
  <2>1. vec' = Append(vec, d)
    BY <1>2 DEF MovedToBack
  <2>2. /\ DOMAIN vec' = 1..(n + 1) /\ vec'[n + 1] = d /\ \A i \in 1..n : vec'[i] = vec[i]
    BY <1>1, <2>1
  <2> HIDE DEF n
  <2>3. \A i \in 1..(n + 1) : i \in 1..n \/ i = n + 1
    BY <1>1
  <2>4. Once'
    <3> SUFFICES ASSUME NEW i \in 1..(n + 1), NEW j \in 1..(n + 1), vec'[i] = vec'[j]
                 PROVE  i = j
      BY <2>2 DEF Once
    <3> QED BY <1>1, <1>2, <2>2, <2>3 DEF Once
  <2>5. ASSUME NEW i \in 1..(n + 1), NEW j \in 1..(n + 1), vec'[i] = d PROVE ~(i < j)
    <3>1. i = n + 1
      BY <1>1, <1>2, <2>2, <2>3, <2>5
    <3> QED BY <1>1, <3>1
  <2>6. ASSUME NEW i \in 1..(n + 1), NEW j \in 1..(n + 1), vec'[i] # d, vec'[j] # d
        PROVE  \E k, l \in DOMAIN vec : vec[k] = vec'[i] /\ vec[l] = vec'[j] /\ (k < l => i < j)
    <3>1. i \in 1..n /\ j \in 1..n
      BY <2>2, <2>3, <2>6
    <3> QED BY <1>1, <2>2, <3>1
  <2> QED BY <2>2, <2>4, <2>5, <2>6
<1>3. CASE ~\A i \in DOMAIN vec : vec[i] # d
  <2>1. p \in 1..n /\ vec[p] = d
    BY <1>1, <1>3 DEF PlaceOf
  <2>2. vec' = [i \in DOMAIN vec |-> IF i < p THEN vec[i] ELSE IF i < n THEN vec[i + 1] ELSE d]
    BY <1>3 DEF MovedToBack
  <2> DEFINE old(i) == IF i < p THEN i ELSE IF i < n THEN i + 1 ELSE p
  <2> HIDE DEF n, p
  <2>3. \A i \in 1..n : old(i) \in 1..n
    BY <1>1, <2>1
  <2>4. DOMAIN vec' = 1..n /\ \A i \in 1..n : vec'[i] = vec[old(i)]
    <3>1. DOMAIN vec' = 1..n
      BY <1>1, <2>2
    <3>2. ASSUME NEW i \in 1..n PROVE vec'[i] = vec[old(i)]
      BY <1>1, <2>1, <2>2
    <3> QED BY <3>1, <3>2
  <2>5. \A i, j \in 1..n : old(i) = old(j) => i = j
    BY <1>1, <2>1
  <2>6. \A i \in 1..n : old(i) = p => i = n
    BY <1>1, <2>1
  <2>7. \A i, j \in 1..n : old(i) # p /\ old(j) # p /\ old(i) < old(j) => i < j
    BY <1>1, <2>1
  <2> HIDE DEF old
  <2>8. Once'
    <3> SUFFICES ASSUME NEW i \in 1..n, NEW j \in 1..n, vec'[i] = vec'[j] PROVE i = j
      BY <2>4 DEF Once
    <3>1. vec[old(i)] = vec[old(j)] /\ old(i) \in DOMAIN vec /\ old(j) \in DOMAIN vec
      BY <1>1, <2>3, <2>4
    <3>2. old(i) = old(j)
      BY <3>1 DEF Once
    <3> QED BY <2>5, <3>2
  <2>9. ASSUME NEW i \in 1..n, vec'[i] = d PROVE i = n
    <3>1. vec[old(i)] = vec[p] /\ old(i) \in DOMAIN vec /\ p \in DOMAIN vec
      BY <1>1, <2>1, <2>3, <2>4, <2>9
    <3>2. old(i) = p
      BY <3>1 DEF Once
    <3> QED BY <2>6, <3>2
  <2>10. ASSUME NEW i \in 1..n, NEW j \in 1..n, vec'[i] # d, vec'[j] # d
         PROVE  \E k, l \in DOMAIN vec : vec[k] = vec'[i] /\ vec[l] = vec'[j] /\ (k < l => i < j)
    <3>1. old(i) # p /\ old(j) # p
      BY <2>1, <2>4, <2>10
    <3> QED BY <1>1, <2>3, <2>4, <2>7, <3>1
  <2>11. \A i, j \in 1..n : i = n => ~(i < j)
    BY <1>1
  <2> QED BY <2>4, <2>8, <2>9, <2>10, <2>11
<1> QED BY <1>2, <1>3

\* StartStruct.
LEMMA StartOrder ==
    ASSUME NamesInv, NamesTyped, OrderInv, NEW name \in Identifiers, NEW fixed \in BOOLEAN,
           StartStruct(name, fixed), Existing(name) = 0 \/ def[Existing(name)].predecl
    PROVE  OrderInv'
<1> DEFINE d == IF Existing(name) = 0 THEN Fresh ELSE Existing(name)
           x == [name |-> <<name>>, namespace |-> namespace, predecl |-> FALSE, fixed |-> fixed]
<1>1. /\ def' = Put(def, d, x) /\ vec' = MovedToBack(d) /\ uses' = uses /\ state' = state
      /\ inside' = [kind |-> "def", is |-> d, name |-> <<>>]
  BY DEF StartStruct
<1>2. Once /\ FixedComplete /\ Latest /\ Ordered /\ Settled /\ Numbered
  BY DEF OrderInv, NamesInv
<1>3. /\ d \in DOMAIN def \/ \A i \in DOMAIN vec : vec[i] # d
      /\ d \in DOMAIN def => def[d].predecl
  <2>1. CASE Existing(name) = 0
    BY <1>2, <2>1, FreshIsNext DEF Numbered
  <2>2. CASE Existing(name) # 0
    BY <2>2, ExistingFiled
  <2> QED BY <2>1, <2>2
<1>4. Numbered'
  BY StartKeeps
<1> HIDE DEF d
<1>5. /\ Once'
      /\ \A i, j \in DOMAIN vec' : vec'[i] = d => ~(i < j)
      /\ \A i, j \in DOMAIN vec' : vec'[i] # d /\ vec'[j] # d =>
            \E k, l \in DOMAIN vec : vec[k] = vec'[i] /\ vec[l] = vec'[j] /\ (k < l => i < j)
  BY <1>1, <1>2, <1>3, MovedLast
<1>6. /\ DOMAIN def' = DOMAIN def \cup {d} /\ def'[d] = x /\ x.predecl = FALSE
      /\ \A e \in DOMAIN def : e # d => def'[e] = def[e]
  BY <1>1 DEF Put
<1> HIDE DEF x
<1>7. FixedComplete'
  BY <1>2, <1>6 DEF FixedComplete
<1>8. Latest'
  BY <1>1, <1>5, <1>6 DEF Latest
<1>9. Ordered'
  <2> SUFFICES ASSUME NEW u \in uses, u.by # 0
               PROVE  /\ u.by \in DOMAIN def' /\ ~def'[u.by].predecl
                      /\ state' # "failed" /\ def'[u.by].fixed /\ u.target # u.by =>
                            def'[u.target].fixed /\ InFront(u.target, u.by)'
    BY <1>1 DEF Ordered
  <2>1. /\ u.by \in DOMAIN def /\ ~def[u.by].predecl /\ u.target \in DOMAIN def
        /\ state # "failed" /\ def[u.by].fixed /\ u.target # u.by =>
              def[u.target].fixed /\ InFront(u.target, u.by)
    BY <1>2 DEF Ordered, Settled
  <2>2. u.by # d /\ def'[u.by] = def[u.by]
    BY <1>3, <1>6, <2>1
  <2>3. ASSUME state # "failed", def[u.by].fixed, u.target # u.by
        PROVE  def'[u.target].fixed /\ InFront(u.target, u.by)'
    <3>1. def[u.target].fixed /\ InFront(u.target, u.by) /\ ~def[u.target].predecl
      BY <1>2, <2>1, <2>3 DEF FixedComplete
    <3>2. u.target # d /\ def'[u.target] = def[u.target]
      BY <1>3, <1>6, <2>1, <3>1
    <3>3. InFront(u.target, u.by)'
      BY <1>5, <2>2, <3>1, <3>2 DEF InFront
    <3> QED BY <3>1, <3>2, <3>3
  <2> QED BY <1>1, <1>6, <2>1, <2>2, <2>3
<1> QED BY <1>5, <1>7, <1>8, <1>9 DEF OrderInv

\* What is being parsed is a record.
Recorded == inside = [kind |-> inside.kind, is |-> inside.is, name |-> inside.name]
LEMMA RecordedStep ==
    ASSUME Recorded, [Next]_namesVars
    PROVE  Recorded'
<1> USE DEF Recorded
<1>1. CASE UNCHANGED inside
  BY <1>1
<1>2. ASSUME NEW name \in Identifiers, NEW fixed \in BOOLEAN, StartStruct(name, fixed)
      PROVE  Recorded'
  BY <1>2 DEF StartStruct, Fail
<1>3. ASSUME NEW name \in Identifiers, NEW is_union \in BOOLEAN, ParseEnum(name, is_union)
      PROVE  Recorded'
  BY <1>3 DEF ParseEnum, Fail, NoOne
<1>4. ASSUME NEW name \in Identifiers, ParseService(name) PROVE Recorded'
  BY <1>4 DEF ParseService, Fail
<1>5. ASSUME NEW type \in Uses, RequestOf(type) PROVE Recorded'
  BY <1>5 DEF RequestOf
<1>6. ASSUME NEW rpc \in Identifiers, NEW type \in Uses, ResponseOf(rpc, type)
      PROVE  Recorded'
  BY <1>6 DEF ResponseOf
<1>7. CASE End
  BY <1>7 DEF End, NoOne
<1>8. ASSUME NEW name \in Uses, FieldOf(name) \/ MemberOf(name) \/ SetRootType(name)
      PROVE  UNCHANGED inside
  BY <1>8 DEF FieldOf, MemberOf, SetRootType, Fail
<1>9. ASSUME NEW n \in Namespaces, ParseNamespace(n) PROVE UNCHANGED inside
  BY <1>9 DEF ParseNamespace
<1>10. CASE EndOfSchema \/ UNCHANGED namesVars
  BY <1>1, <1>10 DEF EndOfSchema, namesVars
<1> QED BY <1>1, <1>2, <1>3, <1>4, <1>5, <1>6, <1>7, <1>8, <1>9, <1>10 DEF Next

\* Every step of a parse keeps the order.
LEMMA OrderStep ==
    ASSUME NamesInv, NamesTyped, OrderInv, Recorded, [Next]_namesVars
    PROVE  OrderInv'
<1>0. Step => state = "parsing"
  BY DEF Step
<1>1. ASSUME NEW n \in Namespaces, ParseNamespace(n) PROVE OrderInv'
  BY <1>1, SameOrder DEF ParseNamespace
<1>2. ASSUME NEW name \in Identifiers, NEW fixed \in BOOLEAN, StartStruct(name, fixed)
      PROVE  OrderInv'
  <2>1. CASE Existing(name) # 0 /\ ~def[Existing(name)].predecl
    <3>1. Fail
      BY <1>2, <2>1 DEF StartStruct
    <3> QED BY <3>1, SameOrder DEF Fail
  <2>2. CASE ~(Existing(name) # 0 /\ ~def[Existing(name)].predecl)
    BY <1>2, <2>2, StartOrder
  <2> QED BY <2>1, <2>2
<1>3. ASSUME NEW name \in Uses, FieldOf(name) PROVE OrderInv'
  <2>1. /\ UseType(name, inside.is) /\ inside' = inside /\ inside.kind = "def" /\ name \in Name
        /\ state' \in {state, "failed"}
        /\ def[inside.is].fixed /\ ~IsEnum(name) /\ ~IsFixed(name) => state' = "failed"
    BY <1>3 DEF FieldOf, FailIf, NamesTyped, Name
  <2>2. CASE IsEnum(name)
    BY <2>1, <2>2, SameOrder DEF UseType
  <2>3. CASE ~IsEnum(name)
    BY <2>1, <2>3, UseOrder DEF UseType
  <2> QED BY <2>2, <2>3
<1>4. ASSUME NEW name \in Identifiers, NEW is_union \in BOOLEAN, ParseEnum(name, is_union)
      PROVE  OrderInv'
  <2>1. CASE Fail
    BY <2>1, SameOrder DEF Fail
  <2>2. CASE ~Fail
    <3>1. UNCHANGED <<vec, def, uses, state>> /\ inside'.kind # "def"
      BY <1>4, <2>2 DEF ParseEnum, NoOne
    <3> QED BY <3>1, SameOrder
  <2> QED BY <2>1, <2>2
<1>5. ASSUME NEW name \in Uses, MemberOf(name) PROVE OrderInv'
  <2>1. CASE Fail
    BY <2>1, SameOrder DEF Fail
  <2>2. CASE ~Fail
    <3>1. Use(name, 0) /\ UNCHANGED <<inside, state>> /\ inside.kind = "union" /\ name \in Name
      BY <1>5, <2>2 DEF MemberOf, NamesTyped, Name
    <3> QED BY <3>1, UseOrder
  <2> QED BY <2>1, <2>2
<1>6. ASSUME NEW name \in Identifiers, ParseService(name) PROVE OrderInv'
  <2>1. CASE Fail
    BY <2>1, SameOrder DEF Fail
  <2>2. CASE ~Fail
    <3>1. UNCHANGED <<vec, def, uses, state>> /\ inside'.kind # "def"
      BY <1>6, <2>2 DEF ParseService
    <3> QED BY <3>1, SameOrder
  <2> QED BY <2>1, <2>2
<1>7. ASSUME NEW type \in Uses, RequestOf(type) PROVE OrderInv'
  <2>1. /\ UseType(type, 0) /\ state' = state /\ type \in Name /\ inside.kind = "service"
        /\ inside' = [inside EXCEPT !.kind = "rpc", !.is = IF IsEnum(type) THEN 0 ELSE Target(type)]
    BY <1>7 DEF RequestOf, NamesTyped, Name
  <2>2. inside'.kind # "def"
    BY <2>1 DEF Recorded
  <2>3. CASE IsEnum(type)
    BY <2>1, <2>2, <2>3, SameOrder DEF UseType
  <2>4. CASE ~IsEnum(type)
    BY <2>1, <2>2, <2>4, UseOrder DEF UseType
  <2> QED BY <2>3, <2>4
<1>8. ASSUME NEW rpc \in Identifiers, NEW type \in Uses, ResponseOf(rpc, type) PROVE OrderInv'
  <2>1. /\ UseType(type, 0) /\ state' \in {state, "failed"} /\ type \in Name
        /\ inside.kind = "rpc"
        /\ inside' \in {inside, [inside EXCEPT !.kind = "service", !.is = 0]}
    BY <1>8 DEF ResponseOf, NamesTyped, Name
  <2>2. inside'.kind # "def"
    BY <2>1 DEF Recorded
  <2>3. CASE IsEnum(type)
    BY <2>1, <2>2, <2>3, SameOrder DEF UseType
  <2>4. CASE ~IsEnum(type)
    BY <2>1, <2>2, <2>4, UseOrder DEF UseType
  <2> QED BY <2>3, <2>4
<1>9. ASSUME NEW name \in Uses, SetRootType(name) PROVE OrderInv'
  BY <1>9, SameOrder DEF SetRootType, FailIf
<1>10. CASE End
  BY <1>10, SameOrder DEF End, NoOne
<1>11. CASE EndOfSchema
  BY <1>11, SameOrder DEF EndOfSchema
<1>12. CASE UNCHANGED namesVars
  BY <1>12, SameOrder DEF namesVars
<1> QED BY <1>1, <1>2, <1>3, <1>4, <1>5, <1>6, <1>7, <1>8, <1>9, <1>10, <1>11, <1>12 DEF Next

\* Two sequences, one behind the other.
LEMMA Behind ==
    ASSUME NEW S, NEW s \in Seq(S), NEW t \in Seq(S)
    PROVE  /\ s \o t \in Seq(S) /\ Len(s \o t) = Len(s) + Len(t)
           /\ \A i \in 1..Len(s) : (s \o t)[i] = s[i]
           /\ \A i \in 1..Len(t) : (s \o t)[Len(s) + i] = t[i]
<1>1. s \o t \in Seq(S) /\ Len(s \o t) = Len(s) + Len(t)
  OBVIOUS
<1>2. \A i \in 1..Len(s) : (s \o t)[i] = s[i]
  OBVIOUS
<1>3. \A i \in 1..Len(t) : (s \o t)[Len(s) + i] = t[i]
  OBVIOUS
<1> QED BY <1>1, <1>2, <1>3

LEMMA OneMore ==
    ASSUME NEW S, NEW s \in Seq(S), NEW x \in S
    PROVE  s \o <<x>> \in Seq(S) /\ s \o <<x>> # <<>>
<1>1. <<x>> \in Seq(S) /\ Len(<<x>>) = 1
  OBVIOUS
<1>2. s \o <<x>> \in Seq(S) /\ Len(s \o <<x>>) = Len(s) + 1
  BY <1>1, Behind
<1> QED BY <1>2

-----------------------------------------------------------------------------
(* Enums are numbered in the order they were declared in.                  *)

EnumsInv ==
    /\ IsFiniteSet(DOMAIN enums)
    /\ \A e \in DOMAIN enums :
          /\ e \in Name /\ e # <<>> /\ enums[e].at \in 1 .. Cardinality(DOMAIN enums)
          /\ enums[e] = [is_union |-> enums[e].is_union, members |-> enums[e].members,
                         at |-> enums[e].at]
    /\ \A e, f \in DOMAIN enums : enums[e].at = enums[f].at => e = f
    /\ \A i \in 1 .. Cardinality(DOMAIN enums) : \E e \in DOMAIN enums : enums[e].at = i

LEMMA EnumsStep ==
    ASSUME NamesInv, NamesTyped, EnumsInv, [Next]_namesVars
    PROVE  EnumsInv'
<1>1. CASE UNCHANGED enums
  BY <1>1 DEF EnumsInv
<1>2. ASSUME NEW name \in Identifiers, NEW is_union \in BOOLEAN, ParseEnum(name, is_union),
             ~UNCHANGED enums
      PROVE  EnumsInv'
  <2> DEFINE q == Qualified(<<name>>)
             n == Cardinality(DOMAIN enums)
             x == NewEnum(is_union)
  <2>1. enums' = Put(enums, q, x) /\ q \notin DOMAIN enums
    BY <1>2 DEF ParseEnum, Fail
  <2>2. q \in Name /\ q # <<>>
    <3>1. q = namespace \o <<name>> /\ namespace \in Seq(STRING) /\ name \in STRING
      BY ExistingFiled DEF NamesInv, Name, NamesTyped
    <3> HIDE DEF q
    <3> QED BY <3>1, OneMore DEF Name
  <2>3. /\ x = [is_union |-> x.is_union, members |-> x.members, at |-> x.at] /\ x.at = n + 1
    BY DEF NewEnum
  <2> HIDE DEF q, x
  <2>4. /\ DOMAIN enums' = DOMAIN enums \cup {q} /\ enums'[q] = x
        /\ \A e \in DOMAIN enums : enums'[e] = enums[e]
    BY <2>1 DEF Put
  <2>5. n \in Nat /\ IsFiniteSet(DOMAIN enums') /\ Cardinality(DOMAIN enums') = n + 1
    BY <2>1, <2>4, FS_CardinalityType, FS_AddElement DEF EnumsInv
  <2> DEFINE m == Cardinality(DOMAIN enums')
  <2> HIDE DEF n, m
  <2>6. /\ m = n + 1 /\ n \in Nat
        /\ \A e \in DOMAIN enums : enums[e].at \in 1..n
        /\ \A i \in 1..n : \E e \in DOMAIN enums : enums[e].at = i
    BY <2>5 DEF EnumsInv, n, m
  <2>7. ASSUME NEW e \in DOMAIN enums'
        PROVE  /\ e \in Name /\ e # <<>> /\ enums'[e].at \in 1..m
               /\ enums'[e] = [is_union |-> enums'[e].is_union, members |-> enums'[e].members,
                               at |-> enums'[e].at]
    <3>1. CASE e = q
      BY <2>2, <2>3, <2>4, <2>6, <3>1 DEF n
    <3>2. CASE e # q
      <4>1. e \in DOMAIN enums /\ enums'[e] = enums[e]
        BY <2>4, <3>2
      <4>2. \A i \in 1..n : i \in 1..m
        BY <2>6
      <4> QED BY <2>6, <4>1, <4>2 DEF EnumsInv
    <3> QED BY <3>1, <3>2
  <2>8. ASSUME NEW e \in DOMAIN enums', NEW f \in DOMAIN enums', enums'[e].at = enums'[f].at
        PROVE  e = f
    <3>1. enums'[q].at = n + 1
      BY <2>3, <2>4 DEF n
    <3>2. \A g \in DOMAIN enums : enums'[g].at # n + 1
      BY <2>4, <2>6
    <3> QED BY <2>4, <2>8, <3>1, <3>2 DEF EnumsInv
  <2>9. ASSUME NEW i \in 1..m PROVE \E e \in DOMAIN enums' : enums'[e].at = i
    <3>1. i \in 1..n \/ i = n + 1
      BY <2>6
    <3>2. CASE i \in 1..n
      BY <2>4, <2>6, <3>2
    <3>3. CASE i = n + 1
      BY <2>3, <2>4, <3>3 DEF n
    <3> QED BY <3>1, <3>2, <3>3
  <2> QED BY <2>5, <2>7, <2>8, <2>9 DEF EnumsInv, m
<1>3. ASSUME NEW name \in Uses, MemberOf(name), ~UNCHANGED enums PROVE EnumsInv'
  <2>1. enums' = [enums EXCEPT ![inside.name].members = Put(@, name, Target(name))]
    BY <1>3 DEF MemberOf, Fail
  <2>2. DOMAIN enums' = DOMAIN enums
    BY <2>1
  <2>3. ASSUME NEW e \in DOMAIN enums
        PROVE  /\ enums'[e].at = enums[e].at
               /\ enums'[e] = [is_union |-> enums'[e].is_union, members |-> enums'[e].members,
                               at |-> enums'[e].at]
    <3>1. enums[e] = [is_union |-> enums[e].is_union, members |-> enums[e].members,
                      at |-> enums[e].at]
      BY DEF EnumsInv
    <3>2. CASE e = inside.name
      <4>1. PICK y : enums'[e] = [enums[e] EXCEPT !.members = y]
        BY <2>1, <3>2
      <4> QED BY <3>1, <4>1
    <3>3. CASE e # inside.name
      <4>1. enums'[e] = enums[e]
        BY <2>1, <3>3
      <4> QED BY <3>1, <4>1
    <3> QED BY <3>2, <3>3
  <2> QED BY <2>2, <2>3 DEF EnumsInv
<1>4. ASSUME NEW name \in Identifiers, NEW fixed \in BOOLEAN, StartStruct(name, fixed)
      PROVE  UNCHANGED enums
  BY <1>4 DEF StartStruct, Fail
<1>5. ASSUME NEW name \in Identifiers, ParseService(name) PROVE UNCHANGED enums
  BY <1>5 DEF ParseService, Fail
<1>6. ASSUME NEW name \in Uses, FieldOf(name) \/ RequestOf(name) \/ SetRootType(name)
      PROVE  UNCHANGED enums
  BY <1>6 DEF FieldOf, RequestOf, SetRootType
<1>7. ASSUME NEW rpc \in Identifiers, NEW type \in Uses, ResponseOf(rpc, type)
      PROVE  UNCHANGED enums
  BY <1>7 DEF ResponseOf
<1>8. ASSUME NEW n \in Namespaces, ParseNamespace(n) PROVE UNCHANGED enums
  BY <1>8 DEF ParseNamespace
<1>9. CASE End \/ EndOfSchema \/ UNCHANGED namesVars
  BY <1>1, <1>9 DEF End, EndOfSchema, namesVars
<1> QED BY <1>1, <1>2, <1>3, <1>4, <1>5, <1>6, <1>7, <1>8, <1>9 DEF Next

-----------------------------------------------------------------------------
(* The pieces of a header.  Each loop goes over the same vector, so where  *)
(* a piece is follows from where its definition is.                        *)

Kinds  == {"forward", "enum", "struct", "table", "post", "verifier", "root"}
Things == [enum : BOOLEAN, is : Nat, name : Name]
PieceSet == [piece : Kinds, of : Things]

N == Len(vec)
E == Cardinality(DOMAIN enums)
Root == Piece("root", Def(root))

\* What a loop goes over.
LEMMA LoopsAre ==
    ASSUME NamesInv, EnumsInv, NEW kind \in Kinds
    PROVE  /\ N \in Nat /\ E \in Nat
           /\ OfDefs(kind) \in Seq(PieceSet) /\ Len(OfDefs(kind)) = N
           /\ \A i \in 1..N : OfDefs(kind)[i] = Piece(kind, Def(vec[i]))
           /\ OfEnums(kind) \in Seq(PieceSet) /\ Len(OfEnums(kind)) = E
           /\ \A i \in 1..E : \E e \in DOMAIN enums :
                 enums[e].at = i /\ OfEnums(kind)[i] = Piece(kind, Enum(e))
           /\ RootPieces \in Seq(PieceSet) /\ Len(RootPieces) \in {0, 1}
           /\ \A i \in 1..Len(RootPieces) : RootPieces[i] = Root /\ root \in DOMAIN def
<1>1. N \in Nat /\ DOMAIN vec = 1..N /\ \A i \in 1..N : vec[i] \in Nat
  BY DEF NamesInv, Numbered, N
<1>2. E \in Nat
  BY FS_CardinalityType DEF EnumsInv, E
<1>3. \A d \in Nat : Def(d) \in Things
  BY EmptySeq DEF Def, Things, Name
<1>4. \A e \in Name : Enum(e) \in Things
  BY DEF Enum, Things
<1>5. /\ OfDefs(kind) \in Seq(PieceSet) /\ Len(OfDefs(kind)) = N
      /\ \A i \in 1..N : OfDefs(kind)[i] = Piece(kind, Def(vec[i]))
  <2>1. OfDefs(kind) = [i \in 1..N |-> Piece(kind, Def(vec[i]))]
    BY <1>1 DEF OfDefs
  <2>2. \A i \in 1..N : Piece(kind, Def(vec[i])) \in PieceSet
    BY <1>1, <1>3 DEF Piece, PieceSet
  <2>3. OfDefs(kind) \in [1..N -> PieceSet]
    BY <2>1, <2>2
  <2> QED BY <1>1, <2>1, <2>3
<1>6. /\ OfEnums(kind) \in Seq(PieceSet) /\ Len(OfEnums(kind)) = E
      /\ \A i \in 1..E : \E e \in DOMAIN enums :
            enums[e].at = i /\ OfEnums(kind)[i] = Piece(kind, Enum(e))
  <2> DEFINE c(i) == CHOOSE e \in DOMAIN enums : enums[e].at = i
  <2>1. OfEnums(kind) = [i \in 1..E |-> Piece(kind, Enum(c(i)))]
    BY DEF OfEnums, E
  <2>2. ASSUME NEW i \in 1..E PROVE c(i) \in DOMAIN enums /\ enums[c(i)].at = i
    BY DEF EnumsInv, E
  <2> HIDE DEF c
  <2>3. \A i \in 1..E : Piece(kind, Enum(c(i))) \in PieceSet
    BY <1>4, <2>2 DEF Piece, PieceSet, EnumsInv
  <2>4. OfEnums(kind) \in [1..E -> PieceSet]
    BY <2>1, <2>3
  <2> QED BY <1>2, <2>1, <2>2, <2>4
<1>7. /\ RootPieces \in Seq(PieceSet) /\ Len(RootPieces) \in {0, 1}
      /\ \A i \in 1..Len(RootPieces) : RootPieces[i] = Root /\ root \in DOMAIN def
  <2>1. CASE root = 0
    BY <2>1 DEF RootPieces
  <2>2. CASE root # 0
    <3>1. root \in DOMAIN def /\ root \in Nat
      BY <2>2, FreshIsNext DEF NamesInv, References
    <3>2. Root \in PieceSet
      BY <1>3, <3>1 DEF Root, Piece, PieceSet, Kinds
    <3> QED BY <2>2, <3>1, <3>2 DEF RootPieces, Root
  <2> QED BY <2>1, <2>2
<1> QED BY <1>1, <1>2, <1>5, <1>6, <1>7

\* Where the loops put them.
LEMMA PiecesAt ==
    ASSUME NamesInv, EnumsInv
    PROVE  /\ N \in Nat /\ E \in Nat /\ Pieces \in Seq(PieceSet)
           /\ Len(Pieces) \in {4 * N + 2 * E, 4 * N + 2 * E + 1}
           /\ \A i \in 1..N :
                 /\ Pieces[i] = Piece("forward", Def(vec[i]))
                 /\ Pieces[N + E + i] = Piece("struct", Def(vec[i]))
                 /\ Pieces[2 * N + E + i] = Piece("table", Def(vec[i]))
                 /\ Pieces[3 * N + E + i] = Piece("post", Def(vec[i]))
           /\ \A i \in 1..E : \E e, f \in DOMAIN enums :
                 /\ enums[e].at = i /\ Pieces[N + i] = Piece("enum", Enum(e))
                 /\ enums[f].at = i /\ Pieces[4 * N + E + i] = Piece("verifier", Enum(f))
           /\ \A i \in DOMAIN Pieces : i > 4 * N + 2 * E => Pieces[i] = Root /\ root \in DOMAIN def
<1> DEFINE A == OfDefs("forward")
           B == OfEnums("enum")
           C == OfDefs("struct")
           D == OfDefs("table")
           F == OfDefs("post")
           G == OfEnums("verifier")
           R == RootPieces
           AB == A \o B
           ABC == AB \o C
           ABCD == ABC \o D
           ABCDF == ABCD \o F
           ABCDFG == ABCDF \o G
<1>1. /\ N \in Nat /\ E \in Nat
      /\ A \in Seq(PieceSet) /\ Len(A) = N
      /\ \A i \in 1..N : A[i] = Piece("forward", Def(vec[i]))
      /\ B \in Seq(PieceSet) /\ Len(B) = E
      /\ \A i \in 1..E : \E e \in DOMAIN enums : enums[e].at = i /\ B[i] = Piece("enum", Enum(e))
  BY LoopsAre DEF Kinds
<1>2. /\ C \in Seq(PieceSet) /\ Len(C) = N
      /\ \A i \in 1..N : C[i] = Piece("struct", Def(vec[i]))
  BY LoopsAre DEF Kinds
<1>3. /\ D \in Seq(PieceSet) /\ Len(D) = N
      /\ \A i \in 1..N : D[i] = Piece("table", Def(vec[i]))
  BY LoopsAre DEF Kinds
<1>4. /\ F \in Seq(PieceSet) /\ Len(F) = N
      /\ \A i \in 1..N : F[i] = Piece("post", Def(vec[i]))
  BY LoopsAre DEF Kinds
<1>5. /\ G \in Seq(PieceSet) /\ Len(G) = E
      /\ \A i \in 1..E : \E e \in DOMAIN enums : enums[e].at = i /\ G[i] = Piece("verifier", Enum(e))
      /\ R \in Seq(PieceSet) /\ Len(R) \in {0, 1}
      /\ \A i \in 1..Len(R) : R[i] = Root /\ root \in DOMAIN def
  BY LoopsAre DEF Kinds
<1>6. Pieces = ABCDFG \o R
  BY DEF Pieces
<1> HIDE DEF A, B, C, D, F, G, R
<1>7. /\ AB \in Seq(PieceSet) /\ Len(AB) = N + E
      /\ \A i \in 1..N : AB[i] = A[i]
      /\ \A i \in 1..E : AB[N + i] = B[i]
  <2>1. N \in Nat /\ E \in Nat /\ N + E = N + E
    BY <1>1
  <2>2. A \in Seq(PieceSet) /\ B \in Seq(PieceSet)
    BY <1>1
  <2>5. Len(A) = N /\ Len(B) = E
    BY <1>1
  <2>3. AB = A \o B
    BY DEF AB
  <2>4. /\ (A \o B) \in Seq(PieceSet) /\ Len(A \o B) = Len(A) + Len(B)
        /\ \A i \in 1..Len(A) : (A \o B)[i] = A[i]
        /\ \A i \in 1..Len(B) : (A \o B)[Len(A) + i] = B[i]
    BY ONLY <2>2, Behind
  <2> QED BY ONLY <2>1, <2>3, <2>4, <2>5
<1> HIDE DEF AB
<1>8. /\ ABC \in Seq(PieceSet) /\ Len(ABC) = 2 * N + E
      /\ \A i \in 1..(N + E) : ABC[i] = AB[i]
      /\ \A i \in 1..N : ABC[N + E + i] = C[i]
  <2>1. N + E \in Nat /\ N \in Nat /\ 2 * N + E = (N + E) + N
    BY <1>1, <1>2, <1>7
  <2>2. AB \in Seq(PieceSet) /\ C \in Seq(PieceSet)
    BY <1>1, <1>2, <1>7
  <2>5. Len(AB) = N + E /\ Len(C) = N
    BY <1>1, <1>2, <1>7
  <2>3. ABC = AB \o C
    BY DEF ABC
  <2>4. /\ (AB \o C) \in Seq(PieceSet) /\ Len(AB \o C) = Len(AB) + Len(C)
        /\ \A i \in 1..Len(AB) : (AB \o C)[i] = AB[i]
        /\ \A i \in 1..Len(C) : (AB \o C)[Len(AB) + i] = C[i]
    BY ONLY <2>2, Behind
  <2> QED BY ONLY <2>1, <2>3, <2>4, <2>5
<1> HIDE DEF ABC
<1>9. /\ ABCD \in Seq(PieceSet) /\ Len(ABCD) = 3 * N + E
      /\ \A i \in 1..(2 * N + E) : ABCD[i] = ABC[i]
      /\ \A i \in 1..N : ABCD[2 * N + E + i] = D[i]
  <2>1. 2 * N + E \in Nat /\ N \in Nat /\ 3 * N + E = (2 * N + E) + N
    BY <1>1, <1>3, <1>8
  <2>2. ABC \in Seq(PieceSet) /\ D \in Seq(PieceSet)
    BY <1>1, <1>3, <1>8
  <2>5. Len(ABC) = 2 * N + E /\ Len(D) = N
    BY <1>1, <1>3, <1>8
  <2>3. ABCD = ABC \o D
    BY DEF ABCD
  <2>4. /\ (ABC \o D) \in Seq(PieceSet) /\ Len(ABC \o D) = Len(ABC) + Len(D)
        /\ \A i \in 1..Len(ABC) : (ABC \o D)[i] = ABC[i]
        /\ \A i \in 1..Len(D) : (ABC \o D)[Len(ABC) + i] = D[i]
    BY ONLY <2>2, Behind
  <2> QED BY ONLY <2>1, <2>3, <2>4, <2>5
<1> HIDE DEF ABCD
<1>10. /\ ABCDF \in Seq(PieceSet) /\ Len(ABCDF) = 4 * N + E
       /\ \A i \in 1..(3 * N + E) : ABCDF[i] = ABCD[i]
       /\ \A i \in 1..N : ABCDF[3 * N + E + i] = F[i]
  <2>1. 3 * N + E \in Nat /\ N \in Nat /\ 4 * N + E = (3 * N + E) + N
    BY <1>1, <1>4, <1>9
  <2>2. ABCD \in Seq(PieceSet) /\ F \in Seq(PieceSet)
    BY <1>1, <1>4, <1>9
  <2>5. Len(ABCD) = 3 * N + E /\ Len(F) = N
    BY <1>1, <1>4, <1>9
  <2>3. ABCDF = ABCD \o F
    BY DEF ABCDF
  <2>4. /\ (ABCD \o F) \in Seq(PieceSet) /\ Len(ABCD \o F) = Len(ABCD) + Len(F)
        /\ \A i \in 1..Len(ABCD) : (ABCD \o F)[i] = ABCD[i]
        /\ \A i \in 1..Len(F) : (ABCD \o F)[Len(ABCD) + i] = F[i]
    BY ONLY <2>2, Behind
  <2> QED BY ONLY <2>1, <2>3, <2>4, <2>5
<1> HIDE DEF ABCDF
<1>11. /\ ABCDFG \in Seq(PieceSet) /\ Len(ABCDFG) = 4 * N + 2 * E
       /\ \A i \in 1..(4 * N + E) : ABCDFG[i] = ABCDF[i]
       /\ \A i \in 1..E : ABCDFG[4 * N + E + i] = G[i]
  <2>1. 4 * N + E \in Nat /\ E \in Nat /\ 4 * N + 2 * E = (4 * N + E) + E
    BY <1>1, <1>5, <1>10
  <2>2. ABCDF \in Seq(PieceSet) /\ G \in Seq(PieceSet)
    BY <1>1, <1>5, <1>10
  <2>5. Len(ABCDF) = 4 * N + E /\ Len(G) = E
    BY <1>1, <1>5, <1>10
  <2>3. ABCDFG = ABCDF \o G
    BY DEF ABCDFG
  <2>4. /\ (ABCDF \o G) \in Seq(PieceSet) /\ Len(ABCDF \o G) = Len(ABCDF) + Len(G)
        /\ \A i \in 1..Len(ABCDF) : (ABCDF \o G)[i] = ABCDF[i]
        /\ \A i \in 1..Len(G) : (ABCDF \o G)[Len(ABCDF) + i] = G[i]
    BY ONLY <2>2, Behind
  <2> QED BY ONLY <2>1, <2>3, <2>4, <2>5
<1> HIDE DEF ABCDFG
<1>12. /\ Pieces \in Seq(PieceSet) /\ Len(Pieces) = 4 * N + 2 * E + Len(R)
       /\ \A i \in 1..(4 * N + 2 * E) : Pieces[i] = ABCDFG[i]
       /\ \A i \in 1..Len(R) : Pieces[4 * N + 2 * E + i] = R[i]
  <2>1. 4 * N + 2 * E \in Nat /\ Len(R) \in Nat /\ 4 * N + 2 * E + Len(R) = (4 * N + 2 * E) + Len(R)
    BY <1>1, <1>5, <1>11
  <2>2. ABCDFG \in Seq(PieceSet) /\ R \in Seq(PieceSet)
    BY <1>1, <1>5, <1>11
  <2>5. Len(ABCDFG) = 4 * N + 2 * E /\ Len(R) = Len(R)
    BY <1>1, <1>5, <1>11
  <2>3. Pieces = ABCDFG \o R
    BY <1>6
  <2>4. /\ (ABCDFG \o R) \in Seq(PieceSet) /\ Len(ABCDFG \o R) = Len(ABCDFG) + Len(R)
        /\ \A i \in 1..Len(ABCDFG) : (ABCDFG \o R)[i] = ABCDFG[i]
        /\ \A i \in 1..Len(R) : (ABCDFG \o R)[Len(ABCDFG) + i] = R[i]
    BY ONLY <2>2, Behind
  <2> QED BY ONLY <2>1, <2>3, <2>4, <2>5
<1> HIDE DEF Pieces
<1>13. ASSUME NEW i \in 1..N
       PROVE  /\ Pieces[i] = Piece("forward", Def(vec[i]))
              /\ Pieces[N + E + i] = Piece("struct", Def(vec[i]))
              /\ Pieces[2 * N + E + i] = Piece("table", Def(vec[i]))
              /\ Pieces[3 * N + E + i] = Piece("post", Def(vec[i]))
  <2>1. /\ i \in 1..(N + E) /\ i \in 1..(2 * N + E) /\ i \in 1..(3 * N + E)
        /\ i \in 1..(4 * N + E) /\ i \in 1..(4 * N + 2 * E)
    BY <1>1
  <2>2. /\ N + E + i \in 1..(2 * N + E) /\ N + E + i \in 1..(3 * N + E)
        /\ N + E + i \in 1..(4 * N + E) /\ N + E + i \in 1..(4 * N + 2 * E)
    BY <1>1
  <2>3. /\ 2 * N + E + i \in 1..(3 * N + E)
        /\ 2 * N + E + i \in 1..(4 * N + E) /\ 2 * N + E + i \in 1..(4 * N + 2 * E)
    BY <1>1
  <2>4. /\ 3 * N + E + i \in 1..(4 * N + E) /\ 3 * N + E + i \in 1..(4 * N + 2 * E)
    BY <1>1
  <2>9. Pieces[i] = ABCDF[i]
    BY <1>11, <1>12, <2>1
  <2>10. ABCDF[i] = ABC[i]
    BY <1>9, <1>10, <2>1
  <2>5. Pieces[i] = A[i]
    BY <1>7, <1>8, <2>1, <2>9, <2>10
  <2>6. Pieces[N + E + i] = C[i]
    <3> DEFINE j == N + E + i
    <3> HIDE DEF j
    <3>1. Pieces[j] = ABCDF[j] /\ ABCDF[j] = ABC[j]
      BY <1>10, <1>11, <1>12, <2>2, <1>9 DEF j
    <3>2. ABC[j] = C[i]
      BY <1>8, <1>9, <2>2 DEF j
    <3> QED BY <3>1, <3>2 DEF j
  <2>7. Pieces[2 * N + E + i] = D[i]
    <3> DEFINE j == 2 * N + E + i
    <3> HIDE DEF j
    <3>1. Pieces[j] = ABCDF[j] /\ ABCDF[j] = ABCD[j]
      BY <1>10, <1>11, <1>12, <2>3 DEF j
    <3>2. ABCD[j] = D[i]
      BY <1>9 DEF j
    <3> QED BY <3>1, <3>2 DEF j
  <2>8. Pieces[3 * N + E + i] = F[i]
    BY <1>10, <1>11, <1>12, <2>4
  <2> QED BY <1>1, <1>2, <1>3, <1>4, <2>5, <2>6, <2>7, <2>8
<1>14. ASSUME NEW i \in 1..E
       PROVE  \E e, f \in DOMAIN enums :
                 /\ enums[e].at = i /\ Pieces[N + i] = Piece("enum", Enum(e))
                 /\ enums[f].at = i /\ Pieces[4 * N + E + i] = Piece("verifier", Enum(f))
  <2>1. /\ N + i \in 1..(N + E) /\ N + i \in 1..(2 * N + E) /\ N + i \in 1..(3 * N + E)
        /\ N + i \in 1..(4 * N + E) /\ N + i \in 1..(4 * N + 2 * E)
        /\ 4 * N + E + i \in 1..(4 * N + 2 * E)
    BY <1>1
  <2>4. Pieces[N + i] = ABCDF[N + i]
    BY <1>11, <1>12, <2>1
  <2>5. ABCDF[N + i] = ABC[N + i]
    BY <1>9, <1>10, <2>1
  <2>6. ABC[N + i] = B[i]
    BY <1>7, <1>8, <2>1
  <2>2. Pieces[N + i] = B[i]
    BY <2>4, <2>5, <2>6
  <2>3. Pieces[4 * N + E + i] = G[i]
    BY <1>11, <1>12, <2>1
  <2>7. PICK e \in DOMAIN enums : enums[e].at = i /\ B[i] = Piece("enum", Enum(e))
    BY <1>1
  <2>8. PICK f \in DOMAIN enums : enums[f].at = i /\ G[i] = Piece("verifier", Enum(f))
    BY <1>5
  <2> QED BY <2>2, <2>3, <2>7, <2>8
<1>15. ASSUME NEW i \in DOMAIN Pieces, i > 4 * N + 2 * E
       PROVE  Pieces[i] = Root /\ root \in DOMAIN def
  <2>1. i - (4 * N + 2 * E) \in 1..Len(R) /\ 4 * N + 2 * E + (i - (4 * N + 2 * E)) = i
    BY <1>1, <1>5, <1>12, <1>15
  <2> QED BY <1>5, <1>12, <2>1
<1>16. Len(Pieces) \in {4 * N + 2 * E, 4 * N + 2 * E + 1}
  <2>1. Len(Pieces) = 4 * N + 2 * E + Len(R) /\ Len(R) \in {0, 1}
    BY <1>5, <1>12
  <2>2. CASE Len(R) = 0
    <3>1. Len(Pieces) = 4 * N + 2 * E + 0
      BY ONLY <2>1, <2>2
    <3> QED BY ONLY <1>1, <3>1
  <2>3. CASE Len(R) = 1
    <3>1. Len(Pieces) = 4 * N + 2 * E + 1
      BY ONLY <2>1, <2>3
    <3> QED BY ONLY <3>1
  <2> QED BY ONLY <2>1, <2>2, <2>3
<1>17. /\ N \in Nat /\ E \in Nat /\ Pieces \in Seq(PieceSet)
       /\ Len(Pieces) \in {4 * N + 2 * E, 4 * N + 2 * E + 1}
  BY <1>1, <1>12, <1>16
<1> QED BY <1>13, <1>14, <1>15, <1>17

\* The piece a place has.
LEMMA PieceIs ==
    ASSUME NamesInv, EnumsInv, NEW j \in 1..Len(Pieces)
    PROVE  /\ Pieces[j] \in PieceSet /\ Pieces[j].piece # "end"
           /\ Pieces[j].of.enum => Pieces[j].of.name \in DOMAIN enums
           /\ ~Pieces[j].of.enum => Pieces[j].of.is \in DOMAIN def
           /\ Pieces[j].piece = "struct" =>
                 \E b \in 1..N : j = N + E + b /\ Pieces[j].of = Def(vec[b])
           /\ Pieces[j].piece = "post" =>
                 \E b \in 1..N : j = 3 * N + E + b /\ Pieces[j].of = Def(vec[b])
<1>1. /\ N \in Nat /\ E \in Nat /\ Pieces \in Seq(PieceSet)
      /\ Len(Pieces) \in {4 * N + 2 * E, 4 * N + 2 * E + 1}
      /\ \A i \in 1..N :
            /\ Pieces[i] = Piece("forward", Def(vec[i]))
            /\ Pieces[N + E + i] = Piece("struct", Def(vec[i]))
            /\ Pieces[2 * N + E + i] = Piece("table", Def(vec[i]))
            /\ Pieces[3 * N + E + i] = Piece("post", Def(vec[i]))
      /\ \A i \in 1..E : \E e, f \in DOMAIN enums :
            /\ enums[e].at = i /\ Pieces[N + i] = Piece("enum", Enum(e))
            /\ enums[f].at = i /\ Pieces[4 * N + E + i] = Piece("verifier", Enum(f))
      /\ \A i \in DOMAIN Pieces : i > 4 * N + 2 * E => Pieces[i] = Root /\ root \in DOMAIN def
  BY PiecesAt
<1>2. Pieces[j] \in PieceSet /\ j \in DOMAIN Pieces
  BY <1>1
<1>3. Pieces[j].piece # "end"
  BY <1>2 DEF PieceSet, Kinds
<1>4. \A i \in 1..N : vec[i] \in DOMAIN def
  BY DEF NamesInv, Numbered, N
<1> HIDE DEF Pieces
<1>12. /\ \A d : ~Def(d).enum /\ Def(d).is = d
       /\ \A e : Enum(e).enum /\ Enum(e).name = e
  BY DEF Def, Enum
<1>5. CASE j \in 1..N
  <2>1. Pieces[j] = Piece("forward", Def(vec[j]))
    BY <1>1, <1>5
  <2>2. Pieces[j].piece = "forward" /\ Pieces[j].of = Def(vec[j])
    BY <2>1 DEF Piece
  <2> QED BY <1>2, <1>3, <1>4, <1>5, <1>12, <2>2
<1>6. CASE j - N \in 1..E
  <2>1. N + (j - N) = j
    BY <1>1
  <2>2. PICK e \in DOMAIN enums : Pieces[j] = Piece("enum", Enum(e))
    BY <1>1, <1>6, <2>1
  <2>3. Pieces[j].piece = "enum" /\ Pieces[j].of = Enum(e)
    BY <2>2 DEF Piece
  <2> QED BY <1>2, <1>3, <1>12, <2>3
<1>7. CASE j - (N + E) \in 1..N
  <2> DEFINE b == j - (N + E)
  <2>1. b \in 1..N /\ j = N + E + b
    BY <1>1, <1>7
  <2> HIDE DEF b
  <2>2. Pieces[j] = Piece("struct", Def(vec[b]))
    BY <1>1, <2>1
  <2>3. Pieces[j].piece = "struct" /\ Pieces[j].of = Def(vec[b])
    BY <2>2 DEF Piece
  <2> QED BY <1>2, <1>3, <1>4, <1>12, <2>1, <2>3
<1>8. CASE j - (2 * N + E) \in 1..N
  <2> DEFINE b == j - (2 * N + E)
  <2>1. b \in 1..N /\ j = 2 * N + E + b
    BY <1>1, <1>8
  <2> HIDE DEF b
  <2>2. Pieces[j] = Piece("table", Def(vec[b]))
    BY <1>1, <2>1
  <2>3. Pieces[j].piece = "table" /\ Pieces[j].of = Def(vec[b])
    BY <2>2 DEF Piece
  <2> QED BY <1>2, <1>3, <1>4, <1>12, <2>1, <2>3
<1>9. CASE j - (3 * N + E) \in 1..N
  <2> DEFINE b == j - (3 * N + E)
  <2>1. b \in 1..N /\ j = 3 * N + E + b
    BY <1>1, <1>9
  <2> HIDE DEF b
  <2>2. Pieces[j] = Piece("post", Def(vec[b]))
    BY <1>1, <2>1
  <2>3. Pieces[j].piece = "post" /\ Pieces[j].of = Def(vec[b])
    BY <2>2 DEF Piece
  <2> QED BY <1>2, <1>3, <1>4, <1>12, <2>1, <2>3
<1>10. CASE j - (4 * N + E) \in 1..E
  <2>1. 4 * N + E + (j - (4 * N + E)) = j
    BY <1>1
  <2>2. PICK e \in DOMAIN enums : Pieces[j] = Piece("verifier", Enum(e))
    BY <1>1, <1>10, <2>1
  <2>3. Pieces[j].piece = "verifier" /\ Pieces[j].of = Enum(e)
    BY <2>2 DEF Piece
  <2> QED BY <1>2, <1>3, <1>12, <2>3
<1>11. CASE j > 4 * N + 2 * E
  <2>1. Pieces[j] = Piece("root", Def(root)) /\ root \in DOMAIN def
    BY <1>1, <1>2, <1>11 DEF Root
  <2>2. Pieces[j].piece = "root" /\ Pieces[j].of = Def(root)
    BY <2>1 DEF Piece
  <2> QED BY <1>2, <1>3, <1>12, <2>1, <2>2
<1> QED BY <1>1, <1>5, <1>6, <1>7, <1>8, <1>9, <1>10, <1>11

-----------------------------------------------------------------------------
(* Namespaces of the header.                                               *)

\* The least of some numbers.
LEMMA LeastIs ==
    ASSUME NEW S \in SUBSET Nat, S # {}
    PROVE  \E n \in S : \A m \in S : n <= m
<1> DEFINE R == OpToRel(<, Nat)
<1>1. IsWellFoundedOn(R, Nat)
  BY NatLessThanWellFounded
<1> HIDE DEF R
<1>2. PICK n \in S : \A m \in S : <<m, n>> \notin R
  BY <1>1, WFMin
<1>3. \A m \in S : ~(m < n)
  BY <1>2 DEF R, OpToRel
<1>4. \A m \in S : n <= m
  BY <1>3
<1> QED BY <1>4

\* The first n of a name.
LEMMA FirstOf ==
    ASSUME NEW s \in Name, NEW n \in 0..Len(s)
    PROVE  /\ SubSeq(s, 1, n) \in Name /\ Len(SubSeq(s, 1, n)) = n
           /\ \A i \in 1..n : SubSeq(s, 1, n)[i] = s[i]
<1>1. s \in Seq(STRING) /\ n \in Nat /\ n <= Len(s)
  BY DEF Name
<1>2. \A i \in 1..n : s[i] \in STRING
  BY <1>1
<1>3. SubSeq(s, 1, n) = [i \in 1..n |-> s[i]]
  BY <1>1
<1>4. [i \in 1..n |-> s[i]] \in Seq(STRING)
  BY <1>1, <1>2
<1> QED BY <1>1, <1>3, <1>4 DEF Name

\* CommonPrefix is one that both have.
LEMMA CommonIs ==
    ASSUME NEW old \in Name, NEW new \in Name
    PROVE  /\ CommonPrefix(old, new) \in 0..Len(old) /\ CommonPrefix(old, new) \in 0..Len(new)
           /\ \A i \in 1..CommonPrefix(old, new) : old[i] = new[i]
<1> DEFINE Both == CommonPrefixes({old, new})
           Short(m) == SubSeq(old, 1, Len(old) - m)
           M == {m \in 0..Len(old) : Short(m) \in Both}
<1>1. Len(old) \in Nat /\ Len(new) \in Nat
  BY DEF Name
<1>2. ASSUME NEW p \in Both
      PROVE  /\ Len(p) \in 0..Len(old) /\ Len(p) \in 0..Len(new)
             /\ p = SubSeq(old, 1, Len(p)) /\ p = SubSeq(new, 1, Len(p))
  <2>1. PICK s \in {old, new} : \E l \in 0..Len(s) : p = SubSeq(s, 1, l)
    BY DEF CommonPrefixes, Prefixes
  <2>2. IsPrefix(p, old) /\ IsPrefix(p, new)
    BY DEF CommonPrefixes
  <2>5. PICK l \in 0..Len(s) : p = SubSeq(s, 1, l)
    BY <2>1
  <2>3. p \in Name /\ Len(p) = l /\ l \in Nat
    BY <1>1, <2>1, <2>5, FirstOf
  <2>4. SubSeq(p, 1, Len(p)) = p
    BY <2>3 DEF Name
  <2> QED BY <1>1, <2>2, <2>3, <2>4 DEF IsPrefix
<1>3. M # {}
  <2>1. Len(old) \in 0..Len(old) /\ Short(Len(old)) = SubSeq(old, 1, 0)
    BY <1>1
  <2>2. SubSeq(old, 1, 0) = <<>> /\ SubSeq(new, 1, 0) = <<>> /\ SubSeq(<<>>, 1, 0) = <<>>
    BY DEF Name
  <2>3. <<>> \in Prefixes(old)
    BY <1>1, <2>2 DEF Prefixes
  <2>4. IsPrefix(<<>>, old) /\ IsPrefix(<<>>, new)
    BY <1>1, <2>2 DEF IsPrefix
  <2>5. <<>> \in Both
    BY <2>3, <2>4 DEF CommonPrefixes
  <2> QED BY <2>1, <2>2, <2>5
<1>4. PICK m \in M : \A other \in M : m <= other
  <2>1. M \in SUBSET Nat
    BY <1>1
  <2> HIDE DEF M
  <2> QED BY <1>3, <2>1, LeastIs
<1>5. Short(m) \in Both /\ Len(Short(m)) = Len(old) - m
  BY <1>1, <1>4, FirstOf
<1>6. \A other \in Both : Len(other) <= Len(Short(m))
  <2> SUFFICES ASSUME NEW other \in Both PROVE Len(other) <= Len(Short(m))
    OBVIOUS
  <2> DEFINE k == Len(old) - Len(other)
  <2>1. Len(other) \in 0..Len(old) /\ other = SubSeq(old, 1, Len(other))
    BY <1>2
  <2>2. k \in 0..Len(old) /\ Len(old) - k = Len(other)
    BY <1>1, <2>1
  <2>3. k \in M
    BY <2>1, <2>2
  <2>4. m <= k
    BY <1>4, <2>3
  <2> QED BY <1>1, <1>4, <1>5, <2>1, <2>4
<1>7. LongestCommonPrefix({old, new}) \in Both
  BY <1>5, <1>6 DEF LongestCommonPrefix
<1> DEFINE p == LongestCommonPrefix({old, new})
<1>8. /\ Len(p) \in 0..Len(old) /\ Len(p) \in 0..Len(new)
      /\ p = SubSeq(old, 1, Len(p)) /\ p = SubSeq(new, 1, Len(p))
  BY <1>2, <1>7
<1> HIDE DEF p
<1>9. \A i \in 1..Len(p) : p[i] = old[i] /\ p[i] = new[i]
  BY <1>8, FirstOf
<1> QED BY <1>8, <1>9 DEF CommonPrefix, p

\* What SetNameSpace writes, and what is open after it: the names of the old
\* namespace are closed one by one, those of the new one opened.
Marks == [piece : {"open", "close"}, part : STRING]
Token == Marks \cup PieceSet

After(before, t) ==
    CASE t.piece = "open"  -> Append(before, t.part)
      [] t.piece = "close" -> IF before # <<>> /\ Last(before) = t.part THEN Front(before)
                              ELSE Append(before, "unbalanced")
      [] OTHER -> before

\* The spaces that are open on the way through a text.
OpenOn(t, f) ==
    /\ f \in [0..Len(t) -> Name] /\ f[0] = <<>>
    /\ \A n \in 1..Len(t) : f[n] = After(f[n - 1], t[n])

LEMMA OneOpened ==
    ASSUME NEW s \in Name, NEW n \in Nat, n + 1 <= Len(s)
    PROVE  /\ After(SubSeq(s, 1, n), Open(s[n + 1])) = SubSeq(s, 1, n + 1)
           /\ After(SubSeq(s, 1, n + 1), Close(s[n + 1])) = SubSeq(s, 1, n)
<1>1. s \in Seq(STRING) /\ Len(s) \in Nat
  BY DEF Name
<1>2. SubSeq(s, 1, n) \in Seq(STRING) /\ Len(SubSeq(s, 1, n)) = n
      /\ \A i \in 1..n : SubSeq(s, 1, n)[i] = s[i]
  BY <1>1, FirstOf DEF Name
<1>3. SubSeq(s, 1, n + 1) \in Seq(STRING) /\ Len(SubSeq(s, 1, n + 1)) = n + 1
      /\ \A i \in 1..(n + 1) : SubSeq(s, 1, n + 1)[i] = s[i]
  BY <1>1, FirstOf DEF Name
<1>4. s[n + 1] \in STRING
  BY <1>1
<1> DEFINE a == SubSeq(s, 1, n)
           b == SubSeq(s, 1, n + 1)
<1> HIDE DEF a, b
<1>5. Append(a, s[n + 1]) = b
  <2>1. Append(a, s[n + 1]) \in Seq(STRING) /\ Len(Append(a, s[n + 1])) = n + 1
    BY <1>2, <1>4 DEF a
  <2>2. b \in Seq(STRING) /\ Len(b) = n + 1
    BY <1>3 DEF b
  <2>3. \A i \in 1..(n + 1) : Append(a, s[n + 1])[i] = b[i]
    <3> SUFFICES ASSUME NEW i \in 1..(n + 1) PROVE Append(a, s[n + 1])[i] = b[i]
      OBVIOUS
    <3>1. i \in 1..n \/ i = n + 1
      OBVIOUS
    <3> QED BY <1>2, <1>3, <1>4, <3>1 DEF a, b
  <2> QED BY <2>1, <2>2, <2>3, SeqEqual
<1>6. b # <<>> /\ Last(b) = s[n + 1] /\ Front(b) = a
  <2>1. b # <<>> /\ Last(b) = s[n + 1]
    BY <1>3 DEF b, Last
  <2>2. Front(b) = SubSeq(b, 1, n)
    BY <1>3 DEF Front, b
  <2>3. b \in Name /\ n \in 0..Len(b)
    BY <1>3 DEF b, Name
  <2>4. SubSeq(b, 1, n) \in Seq(STRING) /\ Len(SubSeq(b, 1, n)) = n
        /\ \A i \in 1..n : SubSeq(b, 1, n)[i] = b[i]
    BY <2>3, FirstOf DEF Name
  <2>5. \A i \in 1..n : b[i] = a[i]
    BY <1>2, <1>3 DEF a, b
  <2>6. a \in Seq(STRING) /\ Len(a) = n
    BY <1>2 DEF a
  <2>7. SubSeq(b, 1, n) = a
    BY <2>4, <2>5, <2>6, SeqEqual
  <2> QED BY <2>1, <2>2, <2>7
<1>7. After(a, Open(s[n + 1])) = b
  BY <1>5 DEF After, Open
<1>8. After(b, Close(s[n + 1])) = a
  BY <1>6 DEF After, Close
<1> QED BY <1>7, <1>8 DEF a, b

LEMMA MarksAre ==
    ASSUME cur.components \in Name, NEW ns, ns.components \in Name
    PROVE  LET old == cur.components
               new == ns.components
               common == CommonPrefix(old, new)
               s == SetNameSpace(ns)
           IN  /\ s \in Seq(Marks) /\ Len(s) = (Len(old) - common) + (Len(new) - common)
               /\ \A j \in 1..(Len(old) - common) : s[j] = Close(old[Len(old) + 1 - j])
               /\ \A j \in 1..(Len(new) - common) :
                     s[(Len(old) - common) + j] = Open(new[common + j])
<1> DEFINE old == cur.components
           new == ns.components
           common == CommonPrefix(old, new)
           a == Len(old) - common
           b == Len(new) - common
           C == [j \in 1..a |-> Close(old[Len(old) + 1 - j])]
           D == [j \in 1..b |-> Open(new[common + j])]
           s == SetNameSpace(ns)
<1>1. /\ common \in 0..Len(old) /\ common \in 0..Len(new) /\ old \in Seq(STRING) /\ new \in Seq(STRING)
      /\ Len(old) \in Nat /\ Len(new) \in Nat
  BY CommonIs DEF Name
<1>2. s = C \o D
  BY DEF SetNameSpace
<1> HIDE DEF common, old, new, s
<1>3. a \in Nat /\ b \in Nat
  BY <1>1
<1>4. \A j \in 1..a : Close(old[Len(old) + 1 - j]) \in Marks
  BY <1>1 DEF Marks, Close
<1>5. \A j \in 1..b : Open(new[common + j]) \in Marks
  BY <1>1 DEF Marks, Open
<1> HIDE DEF a, b
<1>6. C \in Seq(Marks) /\ Len(C) = a /\ \A j \in 1..a : C[j] = Close(old[Len(old) + 1 - j])
  <2>1. C \in [1..a -> Marks]
    BY <1>4
  <2> QED BY <1>3, <2>1
<1>7. D \in Seq(Marks) /\ Len(D) = b /\ \A j \in 1..b : D[j] = Open(new[common + j])
  <2>1. D \in [1..b -> Marks]
    BY <1>5
  <2> QED BY <1>3, <2>1
<1> HIDE DEF C, D
<1>8. C \in Seq(Marks) /\ D \in Seq(Marks)
  BY <1>6, <1>7
<1>9. /\ C \o D \in Seq(Marks) /\ Len(C \o D) = Len(C) + Len(D)
      /\ \A i \in 1..Len(C) : (C \o D)[i] = C[i]
      /\ \A i \in 1..Len(D) : (C \o D)[Len(C) + i] = D[i]
  BY ONLY <1>8, Behind
<1>10. /\ s \in Seq(Marks) /\ Len(s) = a + b
       /\ \A j \in 1..a : s[j] = Close(old[Len(old) + 1 - j])
       /\ \A j \in 1..b : s[a + j] = Open(new[common + j])
  BY ONLY <1>2, <1>6, <1>7, <1>9
<1> QED BY <1>10 DEF a, b, common, old, new, s

LEMMA SpaceSet ==
    ASSUME cur.components \in Name, NEW ns, ns.components \in Name,
           NEW t \in Seq(Token), NEW f, OpenOn(t, f), f[Len(t)] = cur.components
    PROVE  \E g : /\ OpenOn(t \o SetNameSpace(ns), g)
                  /\ g[Len(t \o SetNameSpace(ns))] = ns.components
                  /\ \A n \in 0..Len(t) : g[n] = f[n]
<1> DEFINE old == cur.components
           new == ns.components
           common == CommonPrefix(old, new)
           s == SetNameSpace(ns)
           a == Len(old) - common
           b == Len(new) - common
           u == t \o s
           L == Len(t)
<1>1. /\ common \in 0..Len(old) /\ common \in 0..Len(new) /\ old \in Name /\ new \in Name
      /\ \A i \in 1..common : old[i] = new[i]
      /\ Len(old) \in Nat /\ Len(new) \in Nat
  BY CommonIs DEF Name
<1>2. /\ s \in Seq(Marks) /\ Len(s) = a + b
      /\ \A j \in 1..a : s[j] = Close(old[Len(old) + 1 - j])
      /\ \A j \in 1..b : s[a + j] = Open(new[common + j])
  BY MarksAre
<1>3. /\ L \in Nat /\ f \in [0..L -> Name] /\ f[0] = <<>> /\ f[L] = old
      /\ \A n \in 1..L : f[n] = After(f[n - 1], t[n])
  BY DEF OpenOn
<1>4. /\ Len(u) = L + (a + b)
      /\ \A i \in 1..L : u[i] = t[i]
      /\ \A i \in 1..(a + b) : u[L + i] = s[i]
  <2>1. s \in Seq(Token) /\ t \in Seq(Token)
    BY <1>2 DEF Token
  <2>2. /\ Len(t \o s) = Len(t) + Len(s)
        /\ \A i \in 1..Len(t) : (t \o s)[i] = t[i]
        /\ \A i \in 1..Len(s) : (t \o s)[Len(t) + i] = s[i]
    BY ONLY <2>1, Behind
  <2> QED BY ONLY <1>2, <2>2
<1> HIDE DEF old, new, common, s, u, L
<1>5. a \in Nat /\ b \in Nat /\ Len(old) = common + a /\ Len(new) = common + b /\ common \in Nat
  BY <1>1
<1> HIDE DEF a, b
<1> DEFINE g == [n \in 0..(L + (a + b)) |->
                    IF n <= L THEN f[n]
                    ELSE IF n <= L + a THEN SubSeq(old, 1, common + a - (n - L))
                    ELSE SubSeq(new, 1, common + (n - L - a))]
<1>6. SubSeq(old, 1, common) = SubSeq(new, 1, common)
  <2>1. /\ SubSeq(old, 1, common) \in Seq(STRING) /\ Len(SubSeq(old, 1, common)) = common
        /\ \A i \in 1..common : SubSeq(old, 1, common)[i] = old[i]
    BY <1>1, FirstOf DEF Name
  <2>2. /\ SubSeq(new, 1, common) \in Seq(STRING) /\ Len(SubSeq(new, 1, common)) = common
        /\ \A i \in 1..common : SubSeq(new, 1, common)[i] = new[i]
    BY <1>1, FirstOf DEF Name
  <2>3. \A i \in 1..common : SubSeq(old, 1, common)[i] = SubSeq(new, 1, common)[i]
    BY <1>1, <2>1, <2>2
  <2> QED BY <2>1, <2>2, <2>3, SeqEqual
<1>7. SubSeq(old, 1, common + a) = old /\ SubSeq(new, 1, common + b) = new
  BY <1>1, <1>5 DEF Name
<1>8. \A i \in 0..a : g[L + i] = SubSeq(old, 1, common + (a - i))
  <2> SUFFICES ASSUME NEW i \in 0..a PROVE g[L + i] = SubSeq(old, 1, common + (a - i))
    OBVIOUS
  <2>1. L + i \in 0..(L + (a + b)) /\ L + i <= L + a
    BY <1>3, <1>5
  <2>2. CASE i = 0
    <3>1. L + i = L /\ L \in 0..(L + (a + b)) /\ L <= L /\ common + (a - i) = common + a
      BY <1>3, <1>5, <2>2
    <3>2. g[L + i] = f[L]
      BY <3>1
    <3> QED BY <1>3, <1>7, <3>1, <3>2
  <2>3. CASE i # 0
    <3>1. ~(L + i <= L) /\ common + a - ((L + i) - L) = common + (a - i)
      BY <1>3, <1>5, <2>3
    <3> QED BY <2>1, <3>1
  <2> QED BY <2>2, <2>3
<1>9. \A i \in 0..b : g[L + a + i] = SubSeq(new, 1, common + i)
  <2> SUFFICES ASSUME NEW i \in 0..b PROVE g[L + a + i] = SubSeq(new, 1, common + i)
    OBVIOUS
  <2>1. CASE i = 0
    <3>1. a \in 0..a /\ L + a + i = L + a /\ common + (a - a) = common + i /\ common + i = common
      BY <1>3, <1>5, <2>1
    <3> HIDE DEF g
    <3>2. g[L + a] = SubSeq(old, 1, common + (a - a))
      BY <1>8, <3>1
    <3> QED BY <1>6, <3>1, <3>2
  <2>2. CASE i # 0
    <3>1. /\ L + a + i \in 0..(L + (a + b)) /\ ~(L + a + i <= L) /\ ~(L + a + i <= L + a)
          /\ common + ((L + a + i) - L - a) = common + i
      BY <1>3, <1>5, <2>2
    <3> QED BY <3>1
  <2> QED BY <2>1, <2>2
<1>10. \A n \in 0..L : g[n] = f[n]
  BY <1>3, <1>5
<1>11. g \in [0..(L + (a + b)) -> Name]
  <2> SUFFICES ASSUME NEW n \in 0..(L + (a + b)) PROVE g[n] \in Name
    OBVIOUS
  <2> HIDE DEF g
  <2>1. CASE n <= L
    BY <1>3, <1>10, <2>1
  <2>2. CASE n - L \in 0..a
    <3>1. L + (n - L) = n /\ common + (a - (n - L)) \in 0..Len(old)
      BY <1>3, <1>5, <2>2
    <3>2. g[n] = SubSeq(old, 1, common + (a - (n - L)))
      BY <1>8, <2>2, <3>1
    <3> QED BY <1>1, <3>1, <3>2, FirstOf
  <2>3. CASE n - (L + a) \in 0..b
    <3>1. L + a + (n - (L + a)) = n /\ common + (n - (L + a)) \in 0..Len(new)
      BY <1>3, <1>5, <2>3
    <3>2. g[n] = SubSeq(new, 1, common + (n - (L + a)))
      BY <1>9, <2>3, <3>1
    <3> QED BY <1>1, <3>1, <3>2, FirstOf
  <2> QED BY <1>3, <1>5, <2>1, <2>2, <2>3
<1> HIDE DEF g
<1>12. ASSUME NEW n \in 1..(L + (a + b)) PROVE g[n] = After(g[n - 1], u[n])
  <2>1. CASE n <= L
    <3>1. n \in 1..L /\ n \in 0..L /\ n - 1 \in 0..L
      BY <1>3, <2>1
    <3> QED BY <1>3, <1>4, <1>10, <3>1
  <2>2. CASE n - L \in 1..a
    <3> DEFINE j == n - L
               m == common + (a - j)
    <3>1. /\ j \in 0..a /\ j - 1 \in 0..a /\ j \in 1..(a + b) /\ L + j = n /\ L + (j - 1) = n - 1
          /\ m \in Nat /\ m + 1 <= Len(old) /\ common + (a - (j - 1)) = m + 1
          /\ Len(old) + 1 - j = m + 1 /\ j \in 1..a
      BY <1>3, <1>5, <2>2
    <3> HIDE DEF j
    <3>2. g[n] = SubSeq(old, 1, m) /\ g[n - 1] = SubSeq(old, 1, m + 1)
      BY <1>8, <3>1
    <3>3. u[n] = Close(old[m + 1])
      BY <1>2, <1>4, <3>1
    <3> HIDE DEF m
    <3> QED BY <1>1, <3>1, <3>2, <3>3, OneOpened
  <2>3. CASE n - (L + a) \in 1..b
    <3> DEFINE j == n - (L + a)
               m == common + (j - 1)
    <3>1. /\ j \in 0..b /\ j - 1 \in 0..b /\ j \in 1..b /\ L + a + j = n /\ L + a + (j - 1) = n - 1
          /\ m \in Nat /\ m + 1 <= Len(new) /\ common + j = m + 1
          /\ a + j \in 1..(a + b) /\ L + (a + j) = n
      BY <1>3, <1>5, <2>3
    <3> HIDE DEF j
    <3>2. g[n] = SubSeq(new, 1, m + 1) /\ g[n - 1] = SubSeq(new, 1, m)
      BY <1>9, <3>1
    <3>3. u[n] = Open(new[m + 1])
      BY <1>2, <1>4, <3>1
    <3> HIDE DEF m
    <3> QED BY <1>1, <3>1, <3>2, <3>3, OneOpened
  <2> QED BY <1>3, <1>5, <2>1, <2>2, <2>3
<1>13. g[L + (a + b)] = new
  <2>1. b \in 0..b /\ L + a + b = L + (a + b)
    BY <1>3, <1>5
  <2> QED BY <1>7, <1>9, <2>1
<1>14. g[0] = <<>>
  BY <1>3, <1>10
<1>15. OpenOn(u, g) /\ g[Len(u)] = new
  BY <1>4, <1>11, <1>12, <1>13, <1>14 DEF OpenOn
<1> QED BY <1>10, <1>15 DEF u, s, new, L

LEMMA NoneFails ==
    ASSUME NEW S \in SUBSET Nat, 0 \notin S, \A n \in Nat : n \notin S => n + 1 \notin S
    PROVE  S = {}
<1> SUFFICES ASSUME S # {} PROVE FALSE
  OBVIOUS
<1>1. PICK n \in S : \A m \in S : n <= m
  BY LeastIs
<1>2. n - 1 \in Nat /\ (n - 1) + 1 = n /\ ~(n <= n - 1)
  OBVIOUS
<1>3. n - 1 \notin S
  BY <1>1, <1>2
<1> QED BY <1>2, <1>3

\* OpenAt counts what is open.
LEMMA OpenIs ==
    ASSUME text \in Seq(Token), NEW f, OpenOn(text, f)
    PROVE  \A n \in 0..Len(text) : OpenAt[n] = f[n]
<1> DEFINE L == Len(text)
           Is(g) == g = [n \in 0..L |->
                            IF n = 0 THEN <<>>
                            ELSE LET before == g[n - 1]
                                 IN  CASE text[n].piece = "open"  -> Append(before, text[n].part)
                                       [] text[n].piece = "close" ->
                                            IF before # <<>> /\ Last(before) = text[n].part
                                            THEN Front(before)
                                            ELSE Append(before, "unbalanced")
                                       [] OTHER -> before]
<1>1. L \in Nat /\ f \in [0..L -> Name] /\ f[0] = <<>>
      /\ \A n \in 1..L : f[n] = After(f[n - 1], text[n])
  BY DEF OpenOn
<1>2. ASSUME NEW g, Is(g)
      PROVE  g[0] = <<>> /\ \A n \in 1..L : g[n] = After(g[n - 1], text[n])
  <2>1. g[0] = <<>>
    BY <1>1, <1>2
  <2>2. ASSUME NEW n \in 1..L PROVE g[n] = After(g[n - 1], text[n])
    <3>1. n \in 0..L /\ n # 0
      BY <1>1
    <3> QED BY <1>2, <3>1 DEF After
  <2> QED BY <2>1, <2>2
<1>3. Is(f)
  <2>1. ASSUME NEW n \in 0..L
        PROVE  f[n] = IF n = 0 THEN <<>>
                      ELSE LET before == f[n - 1]
                           IN  CASE text[n].piece = "open"  -> Append(before, text[n].part)
                                 [] text[n].piece = "close" ->
                                      IF before # <<>> /\ Last(before) = text[n].part
                                      THEN Front(before)
                                      ELSE Append(before, "unbalanced")
                                 [] OTHER -> before
    <3>1. n = 0 \/ n \in 1..L
      BY <1>1
    <3> QED BY <1>1, <3>1 DEF After
  <2> HIDE DEF L
  <2> QED BY <1>1, <2>1
<1>4. OpenAt = CHOOSE g : Is(g)
  BY DEF OpenAt
<1>5. Is(OpenAt)
  <2> HIDE DEF Is
  <2> QED BY <1>3, <1>4
<1>6. OpenAt[0] = <<>> /\ \A n \in 1..L : OpenAt[n] = After(OpenAt[n - 1], text[n])
  BY <1>2, <1>5
<1> HIDE DEF Is, L
<1> DEFINE S == {n \in Nat : n <= L /\ OpenAt[n] # f[n]}
<1>7. 0 \notin S
  BY <1>1, <1>6
<1>8. ASSUME NEW n \in Nat, n \notin S PROVE n + 1 \notin S
  <2> SUFFICES ASSUME n + 1 <= L PROVE OpenAt[n + 1] = f[n + 1]
    OBVIOUS
  <2>1. n + 1 \in 1..L /\ (n + 1) - 1 = n /\ n <= L
    BY <1>1
  <2>2. OpenAt[n] = f[n]
    BY <1>8, <2>1
  <2> QED BY <1>1, <1>6, <2>1, <2>2
<1>9. S \in SUBSET Nat
  OBVIOUS
<1> HIDE DEF S
<1>10. S = {}
  BY <1>7, <1>8, <1>9, NoneFails
<1> QED BY <1>1, <1>10 DEF S, L

-----------------------------------------------------------------------------
(* The header on the way.                                                  *)

Ending == Piece("end", Null)

\* A piece is in the first n of the text, unless it is left out.
InText(i, n) == LeftOut(Pieces[i]) \/ \E m \in 1..n : text[m] = Pieces[i]
Written(k) ==
    /\ \A i \in 1..k : InText(i, Len(text))
    /\ \A n \in Content : \E j \in 1..k :
          text[n] = Pieces[j] /\ ~LeftOut(Pieces[j]) /\ \A i \in 1..j : InText(i, n)

\* What is still to be generated when k pieces are behind.
Ahead(k) ==
    /\ todo \in Seq(PieceSet \cup {Ending}) /\ Len(todo) = Len(Pieces) - k + 1
    /\ \A i \in 1..(Len(Pieces) - k) : todo[i] = Pieces[k + i]
    /\ todo[Len(todo)] = Ending

Nested ==
    \E f : /\ OpenOn(text, f) /\ f[Len(text)] = cur.components
           /\ \A n \in Content : f[n] = SpaceOf(text[n].of)

NotStarted == todo = <<>> /\ ~saved /\ text = <<>> /\ cur = Null
Running ==
    /\ state = "done" /\ ~saved /\ ~IsEverythingGenerated
    /\ \E k \in 0..Len(Pieces) : Ahead(k) /\ Written(k)
    /\ cur = Null => text = <<>>
Finished == state = "done" /\ saved /\ todo = <<>> /\ cur = Null /\ Written(Len(Pieces))

HeaderInv ==
    /\ text \in Seq(Token) /\ cur.components \in Name /\ Nested
    /\ NotStarted \/ Running \/ Finished

LEMMA Parsing == Next \/ (\E name : IncludeEnds(name)) => state = "parsing"
  BY DEF Next, ParseNamespace, StartStruct, FieldOf, ParseEnum, MemberOf, ParseService, RequestOf,
         ResponseOf, End, SetRootType, EndOfSchema, Step, AtTop, IncludeEnds

\* The pieces stay while the header is written.
LEMMA SamePieces ==
    ASSUME UNCHANGED <<namesVars, generated>>
    PROVE  /\ Pieces' = Pieces /\ \A p : LeftOut(p)' = LeftOut(p)
           /\ \A x : SpaceOf(x)' = SpaceOf(x)
           /\ IsEverythingGenerated' = IsEverythingGenerated /\ state' = state
<1>1. UNCHANGED <<vec, def, enums, root, state, generated>>
  BY DEF namesVars
<1>2. Pieces' = Pieces
  BY <1>1 DEF Pieces, OfDefs, OfEnums, RootPieces
<1>3. \A p : LeftOut(p)' = LeftOut(p)
  BY <1>1 DEF LeftOut
<1>4. \A x : SpaceOf(x)' = SpaceOf(x)
  BY <1>1 DEF SpaceOf
<1>5. IsEverythingGenerated' = IsEverythingGenerated
  BY <1>1 DEF IsEverythingGenerated, Everything
<1> QED BY <1>1, <1>2, <1>3, <1>4, <1>5

\* The namespace of a piece.
LEMMA SpaceTyped ==
    ASSUME NamesInv, EnumsInv, NEW j \in 1..Len(Pieces)
    PROVE  SpaceOf(Pieces[j].of) \in Name /\ Pieces[j].piece \in Kinds /\ Pieces[j] \in PieceSet
<1> DEFINE x == Pieces[j].of
<1>1. /\ Pieces[j] \in PieceSet /\ x.enum \in BOOLEAN
      /\ x.enum => x.name \in DOMAIN enums
      /\ ~x.enum => x.is \in DOMAIN def
  BY PieceIs DEF PieceSet, Things
<1> HIDE DEF x
<1>2. CASE x.enum
  <2>1. x.name \in Name /\ x.name # <<>>
    BY <1>1, <1>2 DEF EnumsInv
  <2>2. Len(x.name) \in Nat /\ Len(x.name) # 0
    BY <2>1 DEF Name
  <2>3. Front(x.name) = SubSeq(x.name, 1, Len(x.name) - 1) /\ Len(x.name) - 1 \in 0..Len(x.name)
    BY <2>2 DEF Front
  <2>4. Front(x.name) \in Name
    BY <2>1, <2>3, FirstOf
  <2> QED BY <1>1, <1>2, <2>4 DEF SpaceOf, PieceSet, x
<1>3. CASE ~x.enum
  <2>1. def[x.is].namespace \in Name
    BY <1>1, <1>3 DEF NamesInv, Numbered, StructDefs
  <2> QED BY <1>1, <1>3, <2>1 DEF SpaceOf, PieceSet, x
<1> QED BY <1>1, <1>2, <1>3

\* A text, some marks and a piece.
Behinds(t, s, h, u, v) ==
    /\ u \in Seq(Token) /\ Len(u) = Len(t) + Len(s) + 1
    /\ v \in Seq(Token) /\ Len(v) = Len(t) + Len(s)
    /\ \A i \in 1..Len(t) : u[i] = t[i]
    /\ \A i \in 1..Len(s) : u[Len(t) + i] = s[i]
    /\ \A i \in 1..(Len(t) + Len(s)) : u[i] = v[i]
    /\ u[Len(u)] = h

LEMMA TextGrows ==
    ASSUME NEW t \in Seq(Token), NEW s \in Seq(Marks), NEW h \in PieceSet
    PROVE  Behinds(t, s, h, t \o Append(s, h), t \o s)
<1> DEFINE a == Append(s, h)
<1>1. /\ s \in Seq(Token) /\ a \in Seq(Token) /\ Len(a) = Len(s) + 1 /\ a[Len(s) + 1] = h
      /\ \A i \in 1..Len(s) : a[i] = s[i]
  BY DEF Token
<1> HIDE DEF a
<1>2. /\ t \o a \in Seq(Token) /\ Len(t \o a) = Len(t) + Len(a)
      /\ \A i \in 1..Len(t) : (t \o a)[i] = t[i]
      /\ \A i \in 1..Len(a) : (t \o a)[Len(t) + i] = a[i]
  <2>1. t \in Seq(Token) /\ a \in Seq(Token)
    BY <1>1
  <2> QED BY ONLY <2>1, Behind
<1>3. /\ t \o s \in Seq(Token) /\ Len(t \o s) = Len(t) + Len(s)
      /\ \A i \in 1..Len(t) : (t \o s)[i] = t[i]
      /\ \A i \in 1..Len(s) : (t \o s)[Len(t) + i] = s[i]
  <2>1. t \in Seq(Token) /\ s \in Seq(Token)
    BY <1>1
  <2> QED BY ONLY <2>1, Behind
<1>4. Len(t) \in Nat /\ Len(s) \in Nat /\ h \in Token
  BY DEF Token
<1>5. \A i \in 1..Len(s) : (t \o a)[Len(t) + i] = s[i]
  BY <1>1, <1>2, <1>4
<1>6. \A i \in 1..(Len(t) + Len(s)) : (t \o a)[i] = (t \o s)[i]
  <2> SUFFICES ASSUME NEW i \in 1..(Len(t) + Len(s)) PROVE (t \o a)[i] = (t \o s)[i]
    OBVIOUS
  <2>1. i \in 1..Len(t) \/ (i - Len(t) \in 1..Len(s) /\ Len(t) + (i - Len(t)) = i)
    BY <1>4
  <2>2. CASE i \in 1..Len(t)
    BY <1>2, <1>3, <2>2
  <2>3. ASSUME NEW j \in 1..Len(s), Len(t) + j = i PROVE (t \o a)[i] = (t \o s)[i]
    <3>1. (t \o a)[Len(t) + j] = s[j] /\ (t \o s)[Len(t) + j] = s[j]
      BY <1>3, <1>5
    <3> QED BY <2>3, <3>1
  <2> QED BY <2>1, <2>2, <2>3
<1>7. (t \o a)[Len(t \o a)] = h /\ Len(t \o a) = Len(t) + Len(s) + 1
  <2>1. Len(t \o a) = Len(t) + (Len(s) + 1) /\ Len(s) + 1 \in 1..Len(a)
    BY <1>1, <1>2, <1>4
  <2> QED BY <1>1, <1>2, <1>4, <2>1
<1> QED BY <1>2, <1>3, <1>5, <1>6, <1>7 DEF a, Behinds

LEMMA PieceOpens ==
    ASSUME NEW v \in Seq(Token), NEW g, OpenOn(v, g), NEW h \in PieceSet, NEW u \in Seq(Token),
           Len(u) = Len(v) + 1, \A i \in 1..Len(v) : u[i] = v[i], u[Len(u)] = h
    PROVE  \E e : /\ OpenOn(u, e) /\ e[Len(u)] = g[Len(v)]
                  /\ \A n \in 0..Len(v) : e[n] = g[n]
<1> DEFINE L == Len(v)
           e == [n \in 0..(L + 1) |-> IF n <= L THEN g[n] ELSE g[L]]
<1>1. /\ L \in Nat /\ g \in [0..L -> Name] /\ g[0] = <<>>
      /\ \A n \in 1..L : g[n] = After(g[n - 1], v[n])
  BY DEF OpenOn
<1> HIDE DEF L
<1>2. \A n \in 0..L : e[n] = g[n]
  BY <1>1
<1>3. e[L + 1] = g[L]
  BY <1>1
<1>4. e \in [0..(L + 1) -> Name]
  BY <1>1
<1> HIDE DEF e
<1>5. ASSUME NEW n \in 1..(L + 1) PROVE e[n] = After(e[n - 1], u[n])
  <2>1. CASE n \in 1..L
    <3>1. n \in 0..L /\ n - 1 \in 0..L
      BY <1>1, <2>1
    <3> QED BY <1>1, <1>2, <2>1, <3>1 DEF L
  <2>2. CASE n = L + 1
    <3>1. n - 1 = L /\ L \in 0..L /\ u[n] = h
      BY <1>1, <2>2 DEF L
    <3>2. h.piece # "open" /\ h.piece # "close"
      BY DEF PieceSet, Kinds
    <3>3. After(g[L], h) = g[L]
      BY <3>2 DEF After
    <3> QED BY <1>2, <1>3, <2>2, <3>1, <3>3
  <2> QED BY <1>1, <2>1, <2>2
<1>6. e[0] = <<>>
  BY <1>1, <1>2
<1>7. OpenOn(u, e) /\ e[Len(u)] = g[L]
  BY <1>3, <1>4, <1>5, <1>6 DEF OpenOn, L
<1> QED BY <1>2, <1>7 DEF L

\* What is content: pieces, no marks.
LEMMA ContentIs ==
    /\ \A t \in Marks : t.piece \in {"open", "close"}
    /\ \A t \in PieceSet : t.piece \notin {"open", "close"}
  BY DEF Marks, PieceSet, Kinds

LEMMA GenerateKeeps ==
    ASSUME NamesInv, EnumsInv, HeaderInv, Generate
    PROVE  HeaderInv'
<1>1. /\ todo # <<>> /\ Head(todo).piece # "end" /\ todo' = Tail(todo)
      /\ UNCHANGED namesVars /\ UNCHANGED generated /\ saved' = saved
  BY DEF Generate
<1>2. /\ Running /\ text \in Seq(Token) /\ cur.components \in Name
  BY <1>1 DEF HeaderInv, NotStarted, Finished
<1>3. PICK k \in 0..Len(Pieces) : Ahead(k) /\ Written(k)
  BY <1>2 DEF Running
<1>4. Len(Pieces) \in Nat /\ Pieces \in Seq(PieceSet)
  BY PiecesAt
<1>5. /\ Pieces' = Pieces /\ \A p : LeftOut(p)' = LeftOut(p)
      /\ \A x : SpaceOf(x)' = SpaceOf(x)
      /\ IsEverythingGenerated' = IsEverythingGenerated /\ state' = state
  BY <1>1, SamePieces
<1>6. k < Len(Pieces) /\ Head(todo) = Pieces[k + 1] /\ k + 1 \in 1..Len(Pieces)
  <2>1. Head(todo) = todo[1] /\ Len(todo) \in Nat
    BY <1>1, <1>3 DEF Ahead
  <2>2. CASE k = Len(Pieces)
    <3>1. Len(todo) = 1 /\ todo[1] = Ending
      BY <1>3, <1>4, <2>2 DEF Ahead
    <3>2. Ending.piece = "end"
      BY DEF Ending, Piece
    <3> QED BY <1>1, <2>1, <3>1, <3>2
  <2>3. CASE k < Len(Pieces)
    BY <1>3, <1>4, <2>1, <2>3 DEF Ahead
  <2> QED BY <1>4, <2>2, <2>3
<1> DEFINE h == Pieces[k + 1]
           ns == Space(h.of)
           s == SetNameSpace(ns)
<1>7. Ahead(k + 1)'
  <2>1. /\ todo \in Seq(PieceSet \cup {Ending}) /\ Len(todo) = Len(Pieces) - k + 1
        /\ \A i \in 1..(Len(Pieces) - k) : todo[i] = Pieces[k + i]
        /\ todo[Len(todo)] = Ending
    BY <1>3 DEF Ahead
  <2>2. /\ Tail(todo) \in Seq(PieceSet \cup {Ending}) /\ Len(Tail(todo)) = Len(todo) - 1
        /\ \A i \in 1..(Len(todo) - 1) : Tail(todo)[i] = todo[i + 1]
    BY <1>1, <2>1
  <2> DEFINE P == Len(Pieces)
  <2>3. P \in Nat /\ k \in Nat /\ k < P /\ Len(todo) = P - k + 1
    BY <1>4, <1>6, <2>1
  <2>4. ASSUME NEW i \in 1..(P - (k + 1)) PROVE Tail(todo)[i] = Pieces[(k + 1) + i]
    <3> HIDE DEF P
    <3>1. i + 1 \in 1..(P - k) /\ i \in 1..(Len(todo) - 1) /\ k + (i + 1) = (k + 1) + i
      BY <2>3
    <3> QED BY <2>1, <2>2, <3>1 DEF P
  <2> HIDE DEF P
  <2>5. /\ Len(Tail(todo)) = P - (k + 1) + 1 /\ Len(Tail(todo)) \in 1..(Len(todo) - 1)
        /\ Len(Tail(todo)) + 1 = Len(todo)
    BY <2>2, <2>3
  <2>6. Tail(todo)[Len(Tail(todo))] = Ending
    BY <2>1, <2>2, <2>5
  <2> QED BY <1>1, <1>5, <2>2, <2>4, <2>5, <2>6 DEF Ahead, P, Ending, Null, Piece
<1>8. CASE LeftOut(h)
  <2>1. UNCHANGED <<text, cur>>
    BY <1>6, <1>8 DEF Generate
  <2>2. Content' = Content
    BY <2>1 DEF Content
  <2>3. Nested'
    <3>1. PICK f : /\ OpenOn(text, f) /\ f[Len(text)] = cur.components
                   /\ \A n \in Content : f[n] = SpaceOf(text[n].of)
      BY DEF HeaderInv, Nested
    <3>2. /\ OpenOn(text', f) /\ f[Len(text')] = cur'.components
          /\ \A n \in Content' : f[n] = SpaceOf(text[n].of)'
      BY <1>1, <2>1, <2>2, <3>1 DEF SpaceOf, namesVars
    <3> QED BY <3>2 DEF Nested
  <2>4. Written(k + 1)'
    <3>1. \A i \in 1..(k + 1) : i \in 1..k \/ i = k + 1
      BY <1>6
    <3>2. \A i \in 1..(k + 1) : InText(i, Len(text))
      BY <1>3, <1>8, <3>1 DEF Written, InText
    <3>3. \A j \in 1..k : j \in 1..(k + 1)
      BY <1>6
    <3>4. \A i, n : InText(i, n)' = InText(i, n)
      BY <1>5, <2>1 DEF InText
    <3>5. \A n \in Content : \E j \in 1..(k + 1) :
             text[n] = Pieces[j] /\ ~LeftOut(Pieces[j]) /\ \A i \in 1..j : InText(i, n)
      BY <1>3, <3>3 DEF Written
    <3>6. \A p : LeftOut(p)' = LeftOut(p)
      BY <1>5
    <3> QED BY <1>5, <2>1, <2>2, <3>2, <3>4, <3>5, <3>6 DEF Written
  <2>5. Running'
    <3>1. k + 1 \in 0..Len(Pieces')
      BY <1>4, <1>5, <1>6
    <3> QED BY <1>1, <1>2, <1>5, <1>7, <2>1, <2>4, <3>1 DEF Running, Null
  <2> QED BY <1>2, <2>1, <2>3, <2>5 DEF HeaderInv
<1>9. CASE ~LeftOut(h)
  <2>1. text' = text \o Append(s, h) /\ cur' = ns
    BY <1>6, <1>9 DEF Generate
  <2>2. /\ ns.components = SpaceOf(h.of) /\ ns.components \in Name /\ ns # Null
        /\ h \in PieceSet
    BY <1>6, SpaceTyped DEF Space, Null
  <2>3. s \in Seq(Marks)
    BY <1>2, <2>2, MarksAre
  <2> DEFINE L == Len(text)
             u == text \o Append(s, h)
             v == text \o s
  <2> HIDE DEF h, ns, s
  <2>4. /\ u \in Seq(Token) /\ Len(u) = L + Len(s) + 1
        /\ v \in Seq(Token) /\ Len(v) = L + Len(s)
        /\ \A i \in 1..L : u[i] = text[i]
        /\ \A i \in 1..Len(s) : u[L + i] = s[i]
        /\ \A i \in 1..(L + Len(s)) : u[i] = v[i]
        /\ u[Len(u)] = h
    <3>1. text \in Seq(Token) /\ s \in Seq(Marks) /\ h \in PieceSet
      BY <1>2, <2>2, <2>3
    <3>2. Behinds(text, s, h, text \o Append(s, h), text \o s)
      BY ONLY <3>1, TextGrows
    <3>3. Behinds(text, s, h, u, v)
      BY <3>2 DEF u, v
    <3> HIDE DEF u, v
    <3> QED BY <3>3 DEF Behinds, L
  <2>5. text' = u
    BY <2>1
  <2>6. L \in Nat /\ Len(s) \in Nat
    BY <1>2, <2>3
  <2> HIDE DEF u, v
  <2>7. ASSUME NEW n \in DOMAIN u, u[n].piece \notin {"open", "close"}
        PROVE  n = Len(u) \/ (n \in Content /\ n \in 1..L /\ u[n] = text[n])
    <3>0. n \in 1..(L + Len(s) + 1)
      BY <2>4
    <3>1. CASE n \in 1..L
      BY <1>2, <2>4, <2>7, <3>1 DEF Content
    <3>2. CASE n - L \in 1..Len(s)
      <4>1. L + (n - L) = n
        BY <2>6, <3>0
      <4>2. u[n] = s[n - L]
        BY <2>4, <3>2, <4>1
      <4>3. u[n] \in Marks
        BY <2>3, <3>2, <4>2
      <4> QED BY <2>7, <4>3, ContentIs
    <3> QED BY <2>4, <2>6, <3>0, <3>1, <3>2
  <2>8. Nested'
    <3>1. PICK f : /\ OpenOn(text, f) /\ f[L] = cur.components
                   /\ \A n \in Content : f[n] = SpaceOf(text[n].of)
      BY DEF HeaderInv, Nested
    <3>2. PICK g : /\ OpenOn(v, g) /\ g[Len(v)] = ns.components
                   /\ \A n \in 0..L : g[n] = f[n]
      BY <1>2, <2>2, <3>1, SpaceSet DEF v, s
    <3>3. PICK e : /\ OpenOn(u, e) /\ e[Len(u)] = g[Len(v)]
                   /\ \A n \in 0..Len(v) : e[n] = g[n]
      <4>1. Len(u) = Len(v) + 1 /\ \A i \in 1..Len(v) : u[i] = v[i]
        BY <2>4
      <4> QED BY <2>2, <2>4, <3>2, <4>1, PieceOpens
    <3>4. ASSUME NEW n \in Content' PROVE e[n] = SpaceOf(text[n].of)'
      <4>1. n \in DOMAIN u /\ u[n].piece \notin {"open", "close"} /\ text'[n] = u[n]
        BY <2>5, <3>4 DEF Content
      <4>2. CASE n = Len(u)
        <5>1. text'[n].of = h.of
          BY <2>4, <4>1, <4>2
        <5>2. SpaceOf(text[n].of)' = SpaceOf(h.of)
          BY <1>1, <5>1 DEF SpaceOf, namesVars
        <5> QED BY <2>2, <3>2, <3>3, <4>2, <5>2
      <4>3. CASE n \in Content /\ n \in 1..L /\ u[n] = text[n]
        <5>1. n \in 0..L /\ n \in 0..Len(v)
          BY <2>4, <2>6, <4>3
        <5>2. e[n] = SpaceOf(text[n].of)
          BY <3>1, <3>2, <3>3, <4>3, <5>1
        <5>3. SpaceOf(text[n].of)' = SpaceOf(text[n].of)
          BY <1>1, <4>1, <4>3 DEF SpaceOf, namesVars
        <5> QED BY <5>2, <5>3
      <4> QED BY <2>7, <4>1, <4>2, <4>3
    <3> QED BY <2>1, <2>5, <3>2, <3>3, <3>4 DEF Nested
  <2>9. Written(k + 1)'
    <3>1. PICK z : z = Len(u)
      OBVIOUS
    <3>2. ASSUME NEW i, NEW n \in 0..L, NEW m \in Nat, n <= m, InText(i, n)
          PROVE  InText(i, m)'
      <4>1. \A q \in 1..n : q \in 1..m /\ text'[q] = text[q]
        BY <2>4, <2>5, <2>6, <3>2
      <4> QED BY <1>5, <3>2, <4>1 DEF InText
    <3>3. InText(k + 1, z)'
      <4>1. z \in 1..z /\ text'[z] = Pieces'[k + 1]
        BY <1>5, <2>4, <2>5, <2>6, <3>1 DEF h
      <4> QED BY <4>1 DEF InText
    <3>4. \A i \in 1..(k + 1) : i \in 1..k \/ i = k + 1
      BY <1>6
    <3>5. \A i \in 1..(k + 1) : InText(i, z)'
      <4> SUFFICES ASSUME NEW i \in 1..(k + 1) PROVE InText(i, z)'
        OBVIOUS
      <4>1. CASE i \in 1..k
        <5>1. InText(i, L)
          BY <1>3, <4>1 DEF Written
        <5>2. L \in 0..L /\ z \in Nat /\ L <= z
          BY <2>4, <2>6, <3>1
        <5> QED BY <3>2, <5>1, <5>2
      <4>2. CASE i = k + 1
        BY <3>3, <4>2
      <4> QED BY <3>4, <4>1, <4>2
    <3>6. ASSUME NEW n \in Content'
          PROVE  \E j \in 1..(k + 1) : /\ text'[n] = Pieces[j] /\ ~LeftOut(Pieces[j])
                                       /\ \A i \in 1..j : InText(i, n)'
      <4>1. n \in DOMAIN u /\ u[n].piece \notin {"open", "close"} /\ text'[n] = u[n]
        BY <2>5, <3>6 DEF Content
      <4>2. CASE n = Len(u)
        <5>1. k + 1 \in 1..(k + 1) /\ text'[n] = Pieces[k + 1]
          BY <1>6, <2>4, <4>1, <4>2 DEF h
        <5> QED BY <1>9, <3>1, <3>5, <4>2, <5>1 DEF h
      <4>3. CASE n \in Content /\ n \in 1..L /\ u[n] = text[n]
        <5>1. PICK j \in 1..k : text[n] = Pieces[j] /\ ~LeftOut(Pieces[j])
                                /\ \A i \in 1..j : InText(i, n)
          BY <1>3, <4>3 DEF Written
        <5>2. j \in 1..(k + 1) /\ n \in 0..L /\ n \in Nat /\ n <= n
          BY <1>6, <2>6, <4>3
        <5>3. \A i \in 1..j : InText(i, n)'
          BY <3>2, <5>1, <5>2
        <5> QED BY <4>1, <4>3, <5>1, <5>2, <5>3
      <4> QED BY <2>7, <4>1, <4>2, <4>3
    <3>7. \A j : LeftOut(Pieces[j])' = LeftOut(Pieces[j])
      BY <1>1 DEF LeftOut, namesVars, Pieces, OfDefs, OfEnums, RootPieces
    <3> QED BY <1>5, <2>5, <3>1, <3>5, <3>6, <3>7 DEF Written
  <2>10. Running'
    <3>1. k + 1 \in 0..Len(Pieces')
      BY <1>4, <1>5, <1>6
    <3>2. cur' # Null'
      BY <2>1, <2>2 DEF Null
    <3> QED BY <1>1, <1>2, <1>5, <1>7, <2>9, <3>1, <3>2 DEF Running
  <2> QED BY <2>1, <2>2, <2>4, <2>5, <2>8, <2>10 DEF HeaderInv
<1> QED BY <1>8, <1>9

\* The namespaces that are left are closed.
LEMMA FinishKeeps ==
    ASSUME NamesInv, EnumsInv, HeaderInv, Finish
    PROVE  HeaderInv'
<1>1. /\ todo # <<>> /\ Head(todo).piece = "end" /\ todo' = <<>> /\ saved' = TRUE
      /\ text' = text \o SetNameSpace(Null) /\ cur' = Null
      /\ UNCHANGED namesVars /\ UNCHANGED generated
  BY DEF Finish
<1>2. /\ Running /\ text \in Seq(Token) /\ cur.components \in Name
  BY <1>1 DEF HeaderInv, NotStarted, Finished
<1>3. PICK k \in 0..Len(Pieces) : Ahead(k) /\ Written(k)
  BY <1>2 DEF Running
<1>4. Len(Pieces) \in Nat
  BY PiecesAt
<1>5. Pieces' = Pieces /\ state' = state
  BY <1>1, SamePieces
<1>6. k = Len(Pieces)
  <2> SUFFICES ASSUME k < Len(Pieces) PROVE FALSE
    BY <1>4
  <2>1. 1 \in 1..(Len(Pieces) - k) /\ k + 1 \in 1..Len(Pieces)
    BY <1>4
  <2>2. Head(todo) = Pieces[k + 1]
    BY <1>1, <1>3, <2>1 DEF Ahead
  <2>3. Pieces[k + 1].piece # "end"
    BY <2>1, PieceIs
  <2> QED BY <1>1, <2>2, <2>3
<1> DEFINE s == SetNameSpace(Null)
           L == Len(text)
           v == text \o s
<1>7. Null.components = <<>> /\ Null.components \in Name
  BY EmptySeq DEF Null, Name
<1>8. s \in Seq(Marks)
  BY <1>2, <1>7, MarksAre
<1>9. /\ v \in Seq(Token) /\ Len(v) = L + Len(s)
      /\ \A i \in 1..L : v[i] = text[i]
      /\ \A i \in 1..Len(s) : v[L + i] = s[i]
  <2> HIDE DEF s
  <2>1. text \in Seq(Token) /\ s \in Seq(Token)
    BY <1>2, <1>8 DEF Token
  <2> QED BY ONLY <2>1, Behind DEF L, v
<1>10. L \in Nat /\ Len(s) \in Nat /\ text' = v
  BY <1>1, <1>2, <1>8
<1>11. PICK f : /\ OpenOn(text, f) /\ f[L] = cur.components
                /\ \A n \in Content : f[n] = SpaceOf(text[n].of)
  BY DEF HeaderInv, Nested
<1>12. PICK g : /\ OpenOn(v, g) /\ g[Len(v)] = <<>>
                /\ \A n \in 0..L : g[n] = f[n]
  BY <1>2, <1>7, <1>11, SpaceSet
<1> HIDE DEF s, v, L
<1>13. ASSUME NEW n \in Content' PROVE n \in Content /\ n \in 1..L /\ text'[n] = text[n]
  <2>1. n \in 1..(L + Len(s)) /\ v[n].piece \notin {"open", "close"}
    BY <1>9, <1>10, <1>13 DEF Content
  <2>2. CASE n \in 1..L
    BY <1>2, <1>9, <1>10, <2>1, <2>2 DEF Content, L
  <2>3. CASE n - L \in 1..Len(s)
    <3>1. L + (n - L) = n
      BY <1>10, <2>1
    <3>2. v[n] = s[n - L]
      BY <1>9, <2>3, <3>1
    <3>3. v[n] \in Marks
      BY <1>8, <2>3, <3>2
    <3> QED BY <2>1, <3>3, ContentIs
  <2> QED BY <1>10, <2>1, <2>2, <2>3
<1>14. Nested'
  <2>1. ASSUME NEW n \in Content' PROVE g[n] = SpaceOf(text[n].of)'
    <3>1. n \in Content /\ n \in 0..L /\ text'[n] = text[n]
      BY <1>10, <1>13
    <3>2. SpaceOf(text[n].of)' = SpaceOf(text[n].of)
      BY <1>1, <3>1 DEF SpaceOf, namesVars
    <3> QED BY <1>11, <1>12, <3>1, <3>2
  <2> QED BY <1>1, <1>7, <1>10, <1>12, <2>1 DEF Nested
<1>15. Written(k)'
  <2>1. ASSUME NEW i, NEW n \in 0..L, NEW m \in Nat, n <= m, InText(i, n)
        PROVE  InText(i, m)'
    <3>1. \A q \in 1..n : q \in 1..m /\ text'[q] = text[q]
      BY <1>9, <1>10, <2>1
    <3>2. LeftOut(Pieces[i])' = LeftOut(Pieces[i])
      BY <1>1 DEF LeftOut, namesVars, Pieces, OfDefs, OfEnums, RootPieces
    <3> QED BY <1>5, <2>1, <3>1, <3>2 DEF InText
  <2>2. PICK z : z = Len(v)
    OBVIOUS
  <2>3. \A i \in 1..k : InText(i, z)'
    <3>1. L \in 0..L /\ z \in Nat /\ L <= z
      BY <1>9, <1>10, <2>2
    <3>2. \A i \in 1..k : InText(i, L)
      BY <1>3 DEF Written, L
    <3> QED BY <2>1, <3>1, <3>2
  <2>4. ASSUME NEW n \in Content'
        PROVE  \E j \in 1..k : /\ text'[n] = Pieces[j] /\ ~LeftOut(Pieces[j])
                               /\ \A i \in 1..j : InText(i, n)'
    <3>1. n \in Content /\ n \in 1..L /\ text'[n] = text[n]
      BY <1>13
    <3>2. PICK j \in 1..k : text[n] = Pieces[j] /\ ~LeftOut(Pieces[j])
                            /\ \A i \in 1..j : InText(i, n)
      BY <1>3, <3>1 DEF Written
    <3>3. n \in 0..L /\ n \in Nat /\ n <= n
      BY <1>10, <3>1
    <3>4. \A i \in 1..j : InText(i, n)'
      BY <2>1, <3>2, <3>3
    <3> QED BY <3>1, <3>2, <3>4
  <2>5. \A j : LeftOut(Pieces[j])' = LeftOut(Pieces[j])
    BY <1>1 DEF LeftOut, namesVars, Pieces, OfDefs, OfEnums, RootPieces
  <2> QED BY <1>5, <1>10, <2>2, <2>3, <2>4, <2>5 DEF Written
<1>16. Finished'
  <2>1. Written(Len(Pieces))'
    <3>1. PICK P : P = Len(Pieces)
      OBVIOUS
    <3>2. Written(P)' /\ P = Len(Pieces')
      BY <1>5, <1>6, <1>15, <3>1
    <3> QED BY <3>2 DEF Written
  <2>2. cur' = Null'
    BY <1>1 DEF Null
  <2> QED BY <1>1, <1>2, <1>5, <2>1, <2>2 DEF Finished, Running
<1> QED BY <1>1, <1>7, <1>9, <1>10, <1>14, <1>16 DEF HeaderInv

\* All pieces are still to come.
LEMMA BeginKeeps ==
    ASSUME NamesInv, EnumsInv, HeaderInv, Start
    PROVE  HeaderInv'
<1>1. /\ state = "done" /\ ~saved /\ todo = <<>> /\ text = <<>> /\ ~IsEverythingGenerated
      /\ todo' = Append(Pieces, Ending)
      /\ UNCHANGED <<namesVars, generated, cur, text, saved>>
  BY DEF Start, Ending
<1>2. NotStarted
  BY <1>1 DEF HeaderInv, Running, Finished, Ahead
<1>3. Pieces \in Seq(PieceSet) /\ Len(Pieces) \in Nat
  BY PiecesAt
<1>4. Pieces' = Pieces /\ IsEverythingGenerated' = IsEverythingGenerated /\ state' = state
  BY <1>1, SamePieces
<1>5. Content' = {} /\ Content = {} /\ Len(text) = 0
  BY <1>1 DEF Content
<1>6. Nested'
  <2>1. PICK f : OpenOn(text, f) /\ f[Len(text)] = cur.components
    BY DEF HeaderInv, Nested
  <2> QED BY <1>1, <1>5, <2>1 DEF Nested
<1>7. Ahead(0)'
  <2> DEFINE P == Pieces
  <2> HIDE DEF P
  <2>1. P \in Seq(PieceSet) /\ Len(P) \in Nat /\ P = Pieces
    BY <1>3 DEF P
  <2>2. P \in Seq(PieceSet \cup {Ending})
    BY <2>1
  <2>3. /\ Append(P, Ending) \in Seq(PieceSet \cup {Ending}) /\ Len(Append(P, Ending)) = Len(P) + 1
        /\ \A i \in 1..Len(P) : Append(P, Ending)[i] = P[i]
        /\ Append(P, Ending)[Len(P) + 1] = Ending
    BY <2>2
  <2>4. Len(P) - 0 = Len(P) /\ \A i \in 1..Len(P) : 0 + i = i
    BY <2>1
  <2>5. Ending' = Ending
    BY DEF Ending, Piece, Null
  <2> QED BY <1>1, <1>4, <2>1, <2>3, <2>4, <2>5 DEF Ahead
<1>8. Written(0)'
  BY <1>5 DEF Written
<1>9. Running'
  <2>1. 0 \in 0..Len(Pieces')
    BY <1>3, <1>4
  <2> QED BY <1>1, <1>4, <1>7, <1>8, <2>1 DEF Running
<1> QED BY <1>1, <1>6, <1>9 DEF HeaderInv

cppVars == <<namesVars, included, generated, comes, cur, todo, text, saved>>

LEMMA HeaderStep ==
    ASSUME NamesInv, EnumsInv, HeaderInv, [CppNext]_cppVars
    PROVE  HeaderInv'
<1>1. ASSUME ParseFile \/ \E name \in IncludeNames : IncludeEnds(name) PROVE HeaderInv'
  <2>1. UNCHANGED <<cur, todo, text, saved>> /\ state = "parsing"
    BY <1>1, Parsing DEF ParseFile, IncludeEnds
  <2>2. NotStarted
    BY <2>1 DEF HeaderInv, Running, Finished
  <2>3. Content' = {} /\ NotStarted'
    BY <2>1, <2>2 DEF Content, NotStarted, Null
  <2>4. Nested'
    <3>1. PICK f : OpenOn(text, f) /\ f[Len(text)] = cur.components
      BY DEF HeaderInv, Nested
    <3> QED BY <2>1, <2>3, <3>1 DEF Nested
  <2> QED BY <2>1, <2>3, <2>4 DEF HeaderInv
<1>2. CASE UNCHANGED cppVars
  <2>1. UNCHANGED <<namesVars, generated, cur, todo, text, saved>>
    BY <1>2 DEF cppVars
  <2>2. Nested'
    <3>1. PICK f : /\ OpenOn(text, f) /\ f[Len(text)] = cur.components
                   /\ \A n \in Content : f[n] = SpaceOf(text[n].of)
      BY DEF HeaderInv, Nested
    <3>2. \A n \in Content' : f[n] = SpaceOf(text[n].of)'
      BY <2>1, <3>1 DEF SpaceOf, namesVars, Content
    <3> QED BY <2>1, <3>1, <3>2 DEF Nested
  <2>3. \A k : Written(k)' = Written(k)
    BY <2>1 DEF Written, Content, InText, LeftOut, namesVars, Pieces, OfDefs, OfEnums, RootPieces
  <2>4. Pieces' = Pieces /\ IsEverythingGenerated' = IsEverythingGenerated /\ state' = state
    BY <2>1, SamePieces
  <2>5. \A k : Ahead(k)' = Ahead(k)
    BY <2>1, <2>4 DEF Ahead, Ending, Piece, Null
  <2>6. NotStarted => NotStarted'
    BY <2>1 DEF NotStarted, Null
  <2>7. Running => Running'
    <3>1. ASSUME Running PROVE Running'
      <4>1. PICK k \in 0..Len(Pieces) : Ahead(k) /\ Written(k)
        BY <3>1 DEF Running
      <4>2. k \in 0..Len(Pieces') /\ Ahead(k)' /\ Written(k)'
        BY <2>3, <2>4, <2>5, <4>1
      <4> QED BY <2>1, <2>4, <3>1, <4>2 DEF Running, Null
    <3> QED BY <3>1
  <2>8. Finished => Finished'
    <3>1. ASSUME Finished PROVE Finished'
      <4>1. PICK P : P = Len(Pieces)
        OBVIOUS
      <4>2. Written(P)' /\ P = Len(Pieces')
        BY <2>3, <2>4, <3>1, <4>1 DEF Finished
      <4>3. Written(Len(Pieces))'
        BY <4>2 DEF Written
      <4> QED BY <2>1, <2>4, <3>1, <4>3 DEF Finished, Null
    <3> QED BY <3>1
  <2> QED BY <2>1, <2>2, <2>6, <2>7, <2>8 DEF HeaderInv
<1> QED BY <1>1, <1>2, BeginKeeps, GenerateKeeps, FinishKeeps DEF CppNext

\* What the header says.
LEMMA HeaderMeans ==
    ASSUME NamesInv, EnumsInv, OrderInv, HeaderInv
    PROVE  CompleteAtUse /\ SomeNamespace /\ NamespacesNested
<1>1. /\ N \in Nat /\ E \in Nat /\ Pieces \in Seq(PieceSet)
      /\ Len(Pieces) \in {4 * N + 2 * E, 4 * N + 2 * E + 1}
      /\ \A i \in 1..N :
            /\ Pieces[i] = Piece("forward", Def(vec[i]))
            /\ Pieces[N + E + i] = Piece("struct", Def(vec[i]))
            /\ Pieces[2 * N + E + i] = Piece("table", Def(vec[i]))
      /\ \A i \in 1..E : \E e \in DOMAIN enums :
            enums[e].at = i /\ Pieces[N + i] = Piece("enum", Enum(e))
  BY PiecesAt
<1>0. N \in Nat /\ E \in Nat
  BY <1>1
<1>2. DOMAIN vec = 1..N /\ Numbered /\ text \in Seq(Token)
  BY DEF NamesInv, Numbered, N, HeaderInv
<1> DEFINE P == Len(Pieces)
<1>3. P \in Nat /\ 2 * N + E <= P /\ N + E <= P /\ 4 * N + E <= P
  <2>1. P \in {4 * N + 2 * E, 4 * N + 2 * E + 1}
    BY <1>1
  <2> HIDE DEF P
  <2> QED BY ONLY <1>1, <2>1
<1>4. ASSUME text # <<>>
      PROVE  state = "done" /\ \E k \in 0..P : Written(k)
  <2>1. P \in 0..P
    BY <1>3
  <2> QED BY <1>4, <2>1 DEF HeaderInv, NotStarted, Running, Finished
<1> HIDE DEF P
<1>5. CompleteAtUse
  <2> SUFFICES ASSUME NEW u \in uses, u.by # 0, u.by # u.target, NEW n \in Content,
                      IsPiece(n, IF def[u.by].fixed THEN "struct" ELSE "post", Def(u.by)),
                      Def(u.target) \notin generated
               PROVE  \E m \in 1..n : \/ IsPiece(m, "struct", Def(u.target))
                                      \/ IsPiece(m, "table", Def(u.target))
    BY DEF CompleteAtUse
  <2>1. text # <<>> /\ n \in DOMAIN text
    BY DEF Content
  <2>2. PICK k \in 0..P : Written(k)
    BY <1>4, <2>1
  <2>3. PICK j \in 1..k : text[n] = Pieces[j] /\ \A i \in 1..j : InText(i, n)
    BY <2>2 DEF Written
  <2>4. j \in 1..P /\ j \in Nat
    BY <1>3
  <2>5. u.target \in DOMAIN def /\ u.by \in DOMAIN def
    BY DEF NamesInv, Settled, OrderInv, Ordered
  <2>6. PICK a \in 1..N : vec[a] = u.target
    BY <1>2, <2>5 DEF Numbered
  <2>7. \A d, e : Def(d) = Def(e) => d = e
    BY DEF Def
  <2>8. Piece("struct", Def(u.target)).piece = "struct" /\ Piece("struct", Def(u.target)).of = Def(u.target)
        /\ Piece("table", Def(u.target)).piece = "table" /\ Piece("table", Def(u.target)).of = Def(u.target)
        /\ Def(u.target).is = u.target
    BY DEF Piece, Def
  <2>9. ASSUME NEW i \in 1..j, NEW kind \in {"struct", "table"},
               Pieces[i] = Piece(kind, Def(u.target)), def[u.target].fixed <=> kind = "struct"
        PROVE  \E m \in 1..n : \/ IsPiece(m, "struct", Def(u.target))
                               \/ IsPiece(m, "table", Def(u.target))
    <3>1. ~LeftOut(Pieces[i])
      <4>1. CASE kind = "struct"
        BY <2>8, <2>9, <4>1 DEF LeftOut
      <4>2. CASE kind = "table"
        BY <2>8, <2>9, <4>2 DEF LeftOut
      <4> QED BY <4>1, <4>2
    <3>2. PICK m \in 1..n : text[m] = Pieces[i]
      BY <2>3, <3>1 DEF InText
    <3> QED BY <2>8, <2>9, <3>2 DEF IsPiece
  <2>10. CASE def[u.by].fixed
    <3>1. Pieces[j].piece = "struct" /\ Pieces[j].of = Def(u.by)
      BY <2>3, <2>10 DEF IsPiece
    <3>2. PICK b \in 1..N : j = N + E + b /\ Pieces[j].of = Def(vec[b])
      BY <2>4, <3>1, PieceIs DEF P
    <3>3. vec[b] = u.by
      BY <2>7, <3>1, <3>2
    <3>4. def[u.target].fixed /\ InFront(u.target, u.by)
      <4>1. state = "done"
        BY <1>4, <2>1
      <4> QED BY <2>10, <4>1 DEF OrderInv, Ordered
    <3>5. a < b
      BY <1>2, <2>6, <3>3, <3>4 DEF InFront
    <3>6. N + E + a \in 1..j
      BY ONLY <1>0, <2>4, <3>2, <3>5, a \in 1..N
    <3> QED BY <1>1, <2>6, <2>9, <3>4, <3>6
  <2>11. CASE ~def[u.by].fixed
    <3>1. Pieces[j].piece = "post"
      BY <2>3, <2>11 DEF IsPiece
    <3>2. PICK b \in 1..N : j = 3 * N + E + b
      BY <2>4, <3>1, PieceIs DEF P
    <3>3. N + E + a \in 1..j /\ 2 * N + E + a \in 1..j
      BY ONLY <1>0, <2>4, <3>2, a \in 1..N
    <3>4. def[u.target].fixed \in BOOLEAN
      BY <2>5 DEF NamesInv, Numbered, StructDefs
    <3>5. CASE def[u.target].fixed
      BY <1>1, <2>6, <2>9, <3>3, <3>5
    <3>6. CASE ~def[u.target].fixed
      BY <1>1, <2>6, <2>9, <3>3, <3>6
    <3> QED BY <3>5, <3>6
  <2> QED BY <2>10, <2>11
<1>6. SomeNamespace
  <2> SUFFICES ASSUME todo # <<>>, Head(todo).piece = "end", cur = Null PROVE FALSE
    BY DEF SomeNamespace
  <2>1. Running
    BY DEF HeaderInv, NotStarted, Finished
  <2>2. text = <<>>
    BY <2>1 DEF Running
  <2>3. PICK k \in 0..P : Ahead(k) /\ Written(k)
    BY <2>1 DEF Running, P
  <2>4. k = P
    <3> SUFFICES ASSUME k < P PROVE FALSE
      BY <1>3
    <3>1. 1 \in 1..(P - k) /\ k + 1 \in 1..P
      BY <1>3
    <3>2. Head(todo) = Pieces[k + 1]
      BY <2>3, <3>1 DEF Ahead, P
    <3>3. Pieces[k + 1].piece # "end"
      BY <3>1, PieceIs DEF P
    <3> QED BY <3>2, <3>3
  <2>5. \A i \in 1..P : LeftOut(Pieces[i])
    <3>1. ASSUME NEW i \in 1..P PROVE LeftOut(Pieces[i])
      <4>1. InText(i, 0)
        BY <2>2, <2>3, <2>4 DEF Written
      <4> QED BY <4>1 DEF InText
    <3> QED BY <3>1
  <2>6. PICK x \in Everything : x \notin generated
    BY <2>1 DEF Running, IsEverythingGenerated
  <2>7. CASE \E i \in DOMAIN vec : x = Def(vec[i])
    <3>1. PICK i \in 1..N : x = Def(vec[i])
      BY <1>2, <2>7
    <3>2. Pieces[i] = Piece("forward", x) /\ i \in 1..P
      BY <1>1, <1>3, <3>1
    <3>3. ~LeftOut(Piece("forward", x))
      BY <2>6 DEF LeftOut, Piece
    <3> QED BY <2>5, <3>2, <3>3
  <2>8. CASE \E e \in DOMAIN enums : x = Enum(e)
    <3>1. PICK e \in DOMAIN enums : x = Enum(e)
      BY <2>8
    <3>2. enums[e].at \in 1..E
      BY DEF EnumsInv, E
    <3>3. PICK f \in DOMAIN enums : enums[f].at = enums[e].at
                                    /\ Pieces[N + enums[e].at] = Piece("enum", Enum(f))
      BY <1>1, <3>2
    <3>4. f = e
      BY <3>3 DEF EnumsInv
    <3>5. N + enums[e].at \in 1..P
      BY ONLY <1>0, <1>3, <3>2
    <3>6. ~LeftOut(Piece("enum", x))
      BY <2>6 DEF LeftOut, Piece
    <3> QED BY <2>5, <3>1, <3>3, <3>4, <3>5, <3>6
  <2> QED BY <2>6, <2>7, <2>8 DEF Everything
<1>7. NamespacesNested
  <2>1. PICK f : /\ OpenOn(text, f) /\ f[Len(text)] = cur.components
                 /\ \A n \in Content : f[n] = SpaceOf(text[n].of)
    BY DEF HeaderInv, Nested
  <2>2. \A n \in 0..Len(text) : OpenAt[n] = f[n]
    BY <1>2, <2>1, OpenIs
  <2>3. Len(text) \in 0..Len(text) /\ \A n \in Content : n \in 0..Len(text)
    BY <1>2 DEF Content
  <2>4. saved => cur.components = <<>>
    BY DEF HeaderInv, NotStarted, Running, Finished, Null
  <2> QED BY <2>1, <2>2, <2>3, <2>4 DEF NamespacesNested
<1> QED BY <1>5, <1>6, <1>7

-----------------------------------------------------------------------------
(* A schema, the files it includes and its header.                         *)

\* What is marked as generated came from a file that was included.
Origins ==
    /\ included \subseteq IncludeNames
    /\ DOMAIN comes = generated /\ \A x \in generated : comes[x] \in included

CppInv == NamesInv /\ Origins

\* The same of a schema and its includes.
LEMMA CppStep ==
    ASSUME CppInv, NamesTyped, [CppNext]_cppVars
    PROVE  CppInv'
<1>1. NamesInv /\ Origins
  BY DEF CppInv
<1>2. CASE ParseFile
  <2>1. Next /\ UNCHANGED <<included, generated, comes>>
    BY <1>2 DEF ParseFile
  <2>2. NamesInv'
    BY <1>1, <2>1, NamesStep
  <2> QED BY <1>1, <2>1, <2>2 DEF CppInv, Origins
<1>3. ASSUME NEW name \in IncludeNames, IncludeEnds(name) PROVE CppInv'
  <2>1. /\ UNCHANGED <<dict, vec, def, root, services, inside, uses, step>>
        /\ included' = included \cup {name}
        /\ state = "parsing"
    BY <1>3 DEF IncludeEnds
  <2>2. namespace' \in {namespace, <<>>} /\ state' \in {"failed", state}
    BY <1>3 DEF IncludeEnds
  <2>3. namespace' \in Name
    BY <1>1, <2>2, EmptySeq DEF NamesInv, Name
  <2>4. Numbered' /\ Kept /\ Filed' /\ Settled'
    BY <1>1, <2>1, SameDefinitions
  <2>5. References' /\ step' \in 0..MaxSteps
    BY <1>1, <2>1 DEF NamesInv, References
  <2>6. NamesInv'
    BY <1>1, <2>1, <2>2, <2>3, <2>4, <2>5, NamesKept
  <2>7. CASE NoneReferencedOnly /\ UnionElementsAreTables
    <3>1. /\ generated' = Everything
          /\ comes' = [x \in Everything |-> IF x \in generated THEN comes[x] ELSE name]
      BY <1>3, <2>7 DEF IncludeEnds, MarkGenerated
    <3>2. \A x \in generated' : comes'[x] \in included'
      BY <1>1, <2>1, <3>1 DEF Origins
    <3> QED BY <1>1, <2>1, <2>6, <3>1, <3>2 DEF CppInv, Origins
  <2>8. CASE ~(NoneReferencedOnly /\ UnionElementsAreTables)
    <3>1. UNCHANGED <<generated, comes>>
      BY <1>3, <2>8 DEF IncludeEnds
    <3> QED BY <1>1, <2>1, <2>6, <3>1 DEF CppInv, Origins
  <2> QED BY <2>7, <2>8
<1>4. CASE Start \/ Generate \/ Finish \/ UNCHANGED cppVars
  <2>1. UNCHANGED namesVars /\ UNCHANGED <<included, generated, comes>>
    BY <1>4 DEF Start, Generate, Finish, cppVars
  <2>2. NamesInv'
    BY <1>1, <2>1, NamesStep
  <2> QED BY <1>1, <2>1, <2>2 DEF CppInv, Origins
<1> QED BY <1>2, <1>3, <1>4 DEF CppNext

AllInv == CppInv /\ EnumsInv /\ OrderInv /\ Recorded /\ HeaderInv

LEMMA AllStep ==
    ASSUME AllInv, NamesTyped, [CppNext]_cppVars
    PROVE  AllInv'
<1>1. NamesInv /\ EnumsInv /\ OrderInv /\ Recorded /\ HeaderInv /\ CppInv
  BY DEF AllInv, CppInv
<1>2. CppInv' /\ HeaderInv'
  BY <1>1, CppStep, HeaderStep
<1>3. CASE [Next]_namesVars
  <2>1. EnumsInv' /\ OrderInv' /\ Recorded'
    BY <1>1, <1>3, EnumsStep, OrderStep, RecordedStep
  <2> QED BY <1>2, <2>1 DEF AllInv
<1>4. ASSUME NEW name \in IncludeNames, IncludeEnds(name) PROVE AllInv'
  <2>1. /\ UNCHANGED <<vec, def, enums, inside, uses>> /\ state = "parsing"
    BY <1>4 DEF IncludeEnds
  <2>2. EnumsInv' /\ Recorded'
    BY <1>1, <2>1 DEF EnumsInv, Recorded
  <2>3. OrderInv'
    BY <1>1, <2>1, SameOrder
  <2> QED BY <1>2, <2>2, <2>3 DEF AllInv
<1>5. ParseFile \/ Start \/ Generate \/ Finish \/ UNCHANGED cppVars => [Next]_namesVars
  BY DEF ParseFile, Start, Generate, Finish, cppVars
<1> QED BY <1>3, <1>4, <1>5 DEF CppNext

LEMMA AllStart ==
    ASSUME NamesTyped, CppInit
    PROVE  AllInv
<1>1. CppInv
  <2>1. NamesInv
    BY NamesStart DEF CppInit
  <2>2. Origins
    BY DEF CppInit, Origins
  <2> QED BY <2>1, <2>2 DEF CppInv
<1>2. /\ Init /\ cur = Null /\ todo = <<>> /\ text = <<>> /\ ~saved
  BY DEF CppInit
<1>3. EnumsInv
  <2>1. DOMAIN enums = {} /\ Cardinality({}) = 0 /\ IsFiniteSet({})
    BY <1>2, FS_EmptySet DEF Init
  <2> QED BY <2>1 DEF EnumsInv
<1>4. OrderInv /\ Recorded
  BY <1>2 DEF Init, OrderInv, Once, FixedComplete, Latest, Ordered, Recorded, NoOne
<1>5. HeaderInv
  <2>1. <<>> \in Name /\ Null.components = <<>> /\ text \in Seq(Token) /\ Len(text) = 0
    BY <1>2, EmptySeq DEF Name, Null
  <2> DEFINE f == [n \in 0..0 |-> <<>>]
  <2>2. OpenOn(text, f) /\ f[Len(text)] = <<>>
    BY <2>1 DEF OpenOn
  <2>3. Content = {}
    BY <1>2 DEF Content
  <2> HIDE DEF f
  <2>4. Nested
    BY <1>2, <2>1, <2>2, <2>3 DEF Nested
  <2> QED BY <1>2, <2>1, <2>4 DEF HeaderInv, NotStarted
<1> QED BY <1>1, <1>3, <1>4, <1>5 DEF AllInv

\* Of a schema with the files it includes, each of which ends the namespace it
\* leaves: names mean what they meant where they were used; what the header uses
\* is in it, or in the header of a file that is included, unless that file has
\* the name of the schema; in the header, a struct is behind the structs it
\* holds and what follows a table is behind the types of its fields, whatever
\* was predeclared, moved or generated before; and every piece is in the
\* namespace of its definition, and no namespace is open at the end.
THEOREM CppHeaderComplete ==
    ASSUME NamesTyped, HeaderName \notin IncludeNames
    PROVE  CppSpec => []CompleteWhenUsed
<1>1. CppInit => AllInv
  BY AllStart
<1>2. AllInv /\ [CppNext]_cppVars => AllInv'
  BY AllStep
<1>3. AllInv => CompleteWhenUsed
  <2>1. AllInv => UsesDeclared
    BY DEF AllInv, CppInv, Origins, UsesDeclared, GenIncludeDependencies
  <2>2. AllInv => DefinedThenScoped /\ UsesDefined
    BY NamesMean DEF AllInv, CppInv
  <2>3. AllInv => CompleteAtUse /\ SomeNamespace /\ NamespacesNested
    BY HeaderMeans DEF AllInv, CppInv
  <2> QED BY <2>1, <2>2, <2>3 DEF CompleteWhenUsed
<1> QED BY <1>1, <1>2, <1>3, PTL DEF CppSpec, cppVars

=============================================================================
