----------------------- MODULE OntologyRegistryProofs -----------------------
(***************************************************************************)
(* The properties of OntologyRegistry for any labels and schemas: whatever *)
(* names, cases and aliases the entries of a registry share.               *)
(***************************************************************************)
EXTENDS OntologyRegistry, WellFoundedInduction, TLAPS

\* Every set of natural numbers that is not empty has a least element, which
\* Min is.
LEMMA LeastNat ==
  ASSUME NEW T, T \subseteq Nat, T # {}
  PROVE  \E m \in T : \A n \in T : m <= n
<1>1. \E m \in T : \A n \in T : <<n, m>> \notin OpToRel(<, Nat)
  BY WFMin, NatLessThanWellFounded
<1>2. \A n, m \in Nat : <<n, m>> \notin OpToRel(<, Nat) => m <= n
  BY DEF OpToRel
<1> QED
  BY <1>1, <1>2

LEMMA MinIsLeast ==
  ASSUME NEW T, T \subseteq Nat, T # {}
  PROVE  Min(T) \in T /\ \A n \in T : Min(T) <= n
  BY LeastNat DEF Min

---------------------------------------------------------------------------
\* Registering one schema after another defines a function on 0..n
Filled(f, schemas, n) ==
    f = [k \in 0..n |-> IF k = 0 THEN <<>> ELSE Register(f[k - 1], schemas[k])]

LEMMA FilledExists ==
  ASSUME NEW schemas, NEW n \in Nat
  PROVE  \E f : Filled(f, schemas, n)
<1> DEFINE T == {k \in Nat : ~ \E f : Filled(f, schemas, k)}
<1>1. SUFFICES ASSUME T # {} PROVE FALSE
  OBVIOUS
<1>2. PICK m \in T : \A k \in T : m <= k
  BY <1>1, LeastNat
<1>3. CASE m = 0
  <2>1. Filled([k \in 0..0 |-> <<>>], schemas, 0)
    BY DEF Filled
  <2> QED
    BY <1>3, <2>1
<1>4. CASE m # 0
  <2>1. m - 1 \in Nat /\ m - 1 \notin T
    BY <1>2, <1>4
  <2>2. PICK f : Filled(f, schemas, m - 1)
    BY <2>1
  <2> DEFINE g == [k \in 0..m |-> IF k = m THEN Register(f[m - 1], schemas[m])
                                          ELSE f[k]]
  <2>3. Filled(g, schemas, m)
    <3>1. ASSUME NEW k \in 0..m
          PROVE  g[k] = IF k = 0 THEN <<>> ELSE Register(g[k - 1], schemas[k])
      <4>1. CASE k = m
        <5>1. g[k - 1] = f[m - 1] /\ g[k] = Register(f[m - 1], schemas[m])
          BY <4>1, <1>4, <2>1
        <5> QED
          BY <4>1, <5>1, <1>4
      <4>2. CASE k # m
        <5>1. k \in 0..(m - 1)
          BY <4>2, <2>1
        <5>2. f[k] = IF k = 0 THEN <<>> ELSE Register(f[k - 1], schemas[k])
          BY <5>1, <2>2 DEF Filled
        <5>3. g[k] = f[k] /\ (k # 0 => g[k - 1] = f[k - 1])
          BY <4>2, <5>1, <2>1
        <5> QED
          BY <5>2, <5>3
      <4> QED
        BY <4>1, <4>2
    <3> QED
      BY <3>1 DEF Filled
  <2> QED
    BY <2>3, <1>2
<1> QED
  BY <1>3, <1>4, <1>2

LEMMA RegisteredIsFilled ==
  ASSUME NEW schemas, NEW n \in Nat, Len(schemas) = n
  PROVE  \E f : Filled(f, schemas, n) /\ Registered(schemas) = f[n]
  BY FilledExists DEF Registered, Filled

---------------------------------------------------------------------------
\* A dict: one entry for each key, which is its name in upper case.
Entries == [key : Labels, schema : Schemas]

Dict(dict) ==
    /\ dict \in Seq(Entries)
    /\ \A i, j \in DOMAIN dict :
          /\ dict[i].key = Upper[dict[i].schema.name]
          /\ dict[i].key = dict[j].key => i = j

\* What Register does: the entry takes the place of its key or comes last.
LEMMA RegisterCases ==
  ASSUME NEW dict, Dict(dict), NEW schema \in Schemas,
         NEW entry, entry = [key |-> KeyOf(schema), schema |-> schema]
  PROVE  /\ entry \in Entries /\ entry.key = Upper[entry.schema.name]
         /\ \/ /\ entry.key \in Keys(dict)
               /\ Register(dict, schema)
                    = [i \in DOMAIN dict |-> IF dict[i].key = entry.key THEN entry
                                                                      ELSE dict[i]]
            \/ /\ entry.key \notin Keys(dict)
               /\ Register(dict, schema) = Append(dict, entry)
<1>1. schema.name \in Labels /\ KeyOf(schema) \in Labels
  BY OntologyAssumption DEF Schemas, KeyOf
<1> QED
  BY <1>1 DEF Register, Entries, KeyOf

LEMMA RegisterKeepsDict ==
  ASSUME NEW dict, Dict(dict), NEW schema \in Schemas
  PROVE  Dict(Register(dict, schema))
<1> DEFINE entry == [key |-> KeyOf(schema), schema |-> schema]
           new == Register(dict, schema)
<1>1. /\ entry \in Entries /\ entry.key = Upper[entry.schema.name]
      /\ \/ /\ entry.key \in Keys(dict)
            /\ new = [i \in DOMAIN dict |-> IF dict[i].key = entry.key THEN entry
                                                                 ELSE dict[i]]
         \/ /\ entry.key \notin Keys(dict)
            /\ new = Append(dict, entry)
  BY RegisterCases
<1> HIDE DEF entry, new
<1>2. CASE /\ entry.key \in Keys(dict)
           /\ new = [i \in DOMAIN dict |-> IF dict[i].key = entry.key THEN entry
                                                                ELSE dict[i]]
  <2>1. new \in Seq(Entries) /\ DOMAIN new = DOMAIN dict
    BY <1>1, <1>2 DEF Dict
  <2>2. \A i \in DOMAIN dict : new[i].key = dict[i].key
    BY <1>2
  <2>3. \A i \in DOMAIN dict : new[i].key = Upper[new[i].schema.name]
    BY <1>1, <1>2 DEF Dict
  <2> QED
    BY <2>1, <2>2, <2>3 DEF Dict, new
<1>3. CASE entry.key \notin Keys(dict) /\ new = Append(dict, entry)
  <2>0. dict \in Seq(Entries)
    BY DEF Dict
  <2>1. new \in Seq(Entries) /\ Len(dict) \in Nat /\ DOMAIN dict = 1..Len(dict)
        /\ DOMAIN new = 1..(Len(dict) + 1)
    BY <1>1, <1>3, <2>0
  <2>2. /\ \A i \in DOMAIN dict : new[i] = dict[i] /\ new[i].key # entry.key
        /\ new[Len(dict) + 1] = entry
    <3>1. \A i \in DOMAIN dict : new[i] = dict[i]
      BY <1>3, <2>0
    <3>2. new[Len(dict) + 1] = entry
      BY <1>3, <2>0
    <3>3. \A i \in DOMAIN dict : dict[i].key # entry.key
      BY <1>3 DEF Keys
    <3> QED
      BY <3>1, <3>2, <3>3
  <2>3. \A i \in DOMAIN new : i \in DOMAIN dict \/ i = Len(dict) + 1
    BY <2>1
  <2>4. \A i, j \in DOMAIN new : /\ new[i].key = Upper[new[i].schema.name]
                                 /\ new[i].key = new[j].key => i = j
    BY <1>1, <2>2, <2>3 DEF Dict
  <2> QED
    BY <2>1, <2>4 DEF Dict, new
<1> QED
  BY <1>1, <1>2, <1>3

\* The registry that the module fills is a dict.
LEMMA RegisteredIsDict ==
  ASSUME NEW schemas \in Seq(Schemas)
  PROVE  Dict(Registered(schemas))
<1> DEFINE n == Len(schemas)
<1>1. n \in Nat /\ \A k \in 1..n : schemas[k] \in Schemas
  OBVIOUS
<1>2. PICK f : Filled(f, schemas, n) /\ Registered(schemas) = f[n]
  BY <1>1, RegisteredIsFilled
<1> HIDE DEF n
<1>3. /\ f[0] = <<>>
      /\ \A k \in 1..n : f[k] = Register(f[k - 1], schemas[k])
  BY <1>1, <1>2 DEF Filled
<1> DEFINE T == {k \in 0..n : ~Dict(f[k])}
<1>4. ASSUME T # {} PROVE FALSE
  <2>0. \A k \in 0..n : k \in Nat /\ (k \in T <=> ~Dict(f[k]))
    BY <1>1
  <2>1. PICK m \in T : \A k \in T : m <= k
    <3>1. T \subseteq Nat
      BY <2>0
    <3> HIDE DEF T
    <3> QED
      BY <1>4, <3>1, LeastNat
  <2>2. m # 0
    <3>1. Dict(<<>>)
      BY DEF Dict
    <3> QED
      BY <1>3, <2>0, <2>1, <3>1
  <2>3. m \in 1..n /\ m - 1 \in 0..n /\ m - 1 \notin T
    BY <1>1, <2>1, <2>2
  <2>4. Dict(f[m - 1])
    BY <2>3
  <2>5. Dict(f[m])
    BY <1>1, <1>3, <2>3, <2>4, RegisterKeepsDict
  <2> QED
    BY <2>1, <2>5
<1> QED
  BY <1>1, <1>2, <1>4

\* Types; each key of a registry is a name in upper case and occurs once.
THEOREM OntologyTypeCorrect == Spec => []OntologyTypeOK
<1>1. OntologyTypeOK <=> Dict(entities) /\ Dict(relationships)
  BY DEF OntologyTypeOK, Dict, Entries
<1>2. Init => OntologyTypeOK
  BY <1>1, RegisteredIsDict, OntologyAssumption DEF Init
<1>3. OntologyTypeOK /\ [Next]_vars => OntologyTypeOK'
  <2> SUFFICES ASSUME Dict(entities), Dict(relationships), [Next]_vars
               PROVE  Dict(entities') /\ Dict(relationships')
    BY <1>1 DEF OntologyTypeOK, Dict, Entries
  <2>1. ASSUME NEW s \in Entities, RegisterEntity(s)
        PROVE  Dict(entities') /\ Dict(relationships')
    BY <2>1, RegisterKeepsDict, OntologyAssumption DEF RegisterEntity
  <2>2. ASSUME NEW s \in Relationships, RegisterRelationship(s)
        PROVE  Dict(entities') /\ Dict(relationships')
    BY <2>2, RegisterKeepsDict, OntologyAssumption DEF RegisterRelationship
  <2> QED
    BY <2>1, <2>2 DEF Next, vars
<1> QED
  BY <1>2, <1>3, PTL DEF Spec

---------------------------------------------------------------------------
LEMMA Uppers ==
  ASSUME NEW l \in Labels
  PROVE  Upper[l] \in Labels /\ Upper[Upper[l]] = Upper[l] /\ Upper[""] = ""
  BY OntologyAssumption

\* The first entry with an alias.
LEMMA FirstHit ==
  ASSUME NEW dict, Dict(dict), NEW up, WithAlias(dict, up) # {}
  PROVE  /\ Min(WithAlias(dict, up)) \in WithAlias(dict, up)
         /\ Min(WithAlias(dict, up)) \in DOMAIN dict
         /\ \A i \in WithAlias(dict, up) : Min(WithAlias(dict, up)) <= i
<1>1. DOMAIN dict \subseteq Nat
  BY DEF Dict
<1>2. WithAlias(dict, up) \subseteq DOMAIN dict
  BY DEF WithAlias
<1> QED
  BY <1>1, <1>2, MinIsLeast

\* What a label resolves to: a key, or a label that is neither a key nor an
\* alias, in upper case in each case.
LEMMA ResolveCases ==
  ASSUME NEW dict, Dict(dict), NEW l \in Labels, NEW k, k = Resolve(dict, l)
  PROVE  /\ k \in Labels /\ Upper[k] = k
         /\ k = "" \/ k \in Keys(dict) \/ WithAlias(dict, k) = {}
<1>1. CASE k = Upper[l] /\ (l = "" \/ k \in Keys(dict) \/ WithAlias(dict, k) = {})
  BY <1>1, Uppers
<1>2. CASE WithAlias(dict, Upper[l]) # {} /\ k = dict[Min(WithAlias(dict, Upper[l]))].key
  <2>1. PICK i \in DOMAIN dict : k = dict[i].key
    BY <1>2, FirstHit
  <2>2. dict[i] \in Entries
    BY <2>1 DEF Dict
  <2>3. k = Upper[dict[i].schema.name] /\ dict[i].schema.name \in Labels
    BY <2>1, <2>2 DEF Dict, Entries, Schemas
  <2> QED
    BY <2>1, <2>3, Uppers DEF Keys
<1> QED
  BY <1>1, <1>2 DEF Resolve

LEMMA ResolvingAgain ==
  ASSUME NEW dict, Dict(dict), NEW l \in Labels
  PROVE  Resolve(dict, Resolve(dict, l)) = Resolve(dict, l)
<1> DEFINE k == Resolve(dict, l)
<1>1. Upper[k] = k /\ (k = "" \/ k \in Keys(dict) \/ WithAlias(dict, k) = {})
  BY ResolveCases
<1> HIDE DEF k
<1>2. Resolve(dict, k) = k
  BY <1>1 DEF Resolve
<1> QED
  BY <1>2 DEF k

LEMMA DictsAlways == Spec => [](Dict(entities) /\ Dict(relationships))
<1>1. OntologyTypeOK => Dict(entities) /\ Dict(relationships)
  BY DEF OntologyTypeOK, Dict, Entries
<1> QED
  BY <1>1, OntologyTypeCorrect, PTL

\* Resolving is idempotent in every registry, whatever names and aliases its
\* entries share (ontology.py:65-85).
THEOREM ResolvingIsFinal == Spec => []ResolvedIsFixed
<1>1. Dict(entities) /\ Dict(relationships) => ResolvedIsFixed
  BY ResolvingAgain DEF ResolvedIsFixed
<1> QED
  BY <1>1, DictsAlways, PTL

---------------------------------------------------------------------------
\* The label of the last node with an id.
LEMMA LastLabel ==
  ASSUME NEW nodes, DOMAIN nodes \subseteq Nat, NEW n \in DOMAIN nodes,
         \A k \in DOMAIN nodes : k > n => nodes[k].id # nodes[n].id
  PROVE  LabelOf(nodes, nodes[n].id) = nodes[n].label
<1> DEFINE at == {i \in DOMAIN nodes : nodes[i].id = nodes[n].id}
<1>1. n \in at /\ at \subseteq Nat /\ \A k \in at : n >= k
  OBVIOUS
<1>2. Max(at) = n
  <2> HIDE DEF at
  <2>1. Max(at) \in at /\ \A k \in at : Max(at) >= k
    BY <1>1 DEF Max
  <2> QED
    BY <1>1, <2>1
<1> QED
  BY <1>1, <1>2 DEF LabelOf

\* Validation keeps a relation only if the ontology allows its ends, under the
\* names they resolve to, whatever ids the nodes share and however the
\* registry has been changed (ontology.py:215, 224-243).
THEOREM KeptAreLegal == Spec => []KeptAreAllowed
<1>1. ASSUME Dict(entities), Dict(relationships), NEW x \in Extractions,
             NEW r \in Validated(x).rels, NEW i \in DOMAIN relationships,
             NEW n \in DOMAIN x.nodes, relationships[i].key = r.type,
             \A k \in DOMAIN x.nodes : k > n => x.nodes[k].id # x.nodes[n].id,
             NEW id \in {r.source, r.target}, x.nodes[n].id = id
      PROVE  LabelOf(ResolvedNodes(x.nodes), id) = Resolve(entities, x.nodes[n].label)
  <2>1. x.nodes \in Nodes
    BY OntologyAssumption
  <2> DEFINE nodes == ResolvedNodes(x.nodes)
  <2>2. DOMAIN nodes = DOMAIN x.nodes /\ DOMAIN nodes \subseteq Nat
    BY <2>1 DEF ResolvedNodes, Nodes
  <2>3. \A k \in DOMAIN nodes :
           /\ nodes[k].id = x.nodes[k].id
           /\ nodes[k].label = Resolve(entities, x.nodes[k].label)
    BY <2>1 DEF ResolvedNodes, Nodes
  <2> HIDE DEF nodes
  <2>4. LabelOf(nodes, nodes[n].id) = nodes[n].label
    BY <1>1, <2>2, <2>3, LastLabel
  <2> QED
    BY <1>1, <2>2, <2>3, <2>4 DEF nodes
<1>2. ASSUME Dict(entities), Dict(relationships), NEW x \in Extractions,
             NEW r \in Validated(x).rels, NEW i \in DOMAIN relationships,
             relationships[i].key = r.type
      PROVE  /\ Allows(relationships[i].schema.sources,
                       LabelOf(ResolvedNodes(x.nodes), r.source))
             /\ Allows(relationships[i].schema.targets,
                       LabelOf(ResolvedNodes(x.nodes), r.target))
  <2>1. r \in ResolvedRels(x.rels) /\ Legal(ResolvedNodes(x.nodes), r)
    BY <1>2 DEF Validated
  <2>2. relationships[i] \in Entries
    BY <1>2 DEF Dict
  <2>3. Upper[r.type] = r.type
    <3>1. relationships[i].schema.name \in Labels
      BY <2>2 DEF Entries, Schemas
    <3>2. relationships[i].key = Upper[relationships[i].schema.name]
      BY <1>2 DEF Dict
    <3> QED
      BY <1>2, <3>1, <3>2, Uppers
  <2> QED
    BY <1>2, <2>1, <2>3 DEF Legal
<1>3. Dict(entities) /\ Dict(relationships) => KeptAreAllowed
  BY <1>1, <1>2 DEF KeptAreAllowed
<1> QED
  BY <1>3, DictsAlways, PTL

---------------------------------------------------------------------------
\* With one more entry at the end, the first hit stays the first.
LEMMA FirstStays ==
  ASSUME NEW dict, Dict(dict), NEW e \in Entries, NEW up,
         WithAlias(dict, up) # {}
  PROVE  /\ WithAlias(Append(dict, e), up) # {}
         /\ Min(WithAlias(Append(dict, e), up)) = Min(WithAlias(dict, up))
<1> DEFINE new == Append(dict, e)
           m == Min(WithAlias(dict, up))
<1>1. /\ Len(dict) \in Nat /\ DOMAIN dict = 1..Len(dict)
      /\ DOMAIN new = 1..(Len(dict) + 1)
      /\ \A i \in DOMAIN dict : new[i] = dict[i]
  <2>1. dict \in Seq(Entries)
    BY DEF Dict
  <2> QED
    BY <2>1
<1>2. m \in WithAlias(dict, up) /\ \A i \in WithAlias(dict, up) : m <= i
  BY FirstHit
<1> HIDE DEF new, m
<1>3. /\ WithAlias(dict, up) \subseteq WithAlias(new, up)
      /\ WithAlias(new, up) \subseteq WithAlias(dict, up) \cup {Len(dict) + 1}
  BY <1>1 DEF WithAlias
<1>4. WithAlias(new, up) \subseteq Nat /\ WithAlias(dict, up) \subseteq 1..Len(dict)
  BY <1>1 DEF WithAlias
<1>5. m \in WithAlias(new, up) /\ \A i \in WithAlias(new, up) : m <= i
  BY <1>1, <1>2, <1>3, <1>4
<1>6. /\ Min(WithAlias(new, up)) \in WithAlias(new, up)
      /\ \A i \in WithAlias(new, up) : Min(WithAlias(new, up)) <= i
  BY <1>4, <1>5, MinIsLeast
<1>7. Min(WithAlias(new, up)) = m
  BY <1>4, <1>5, <1>6
<1> QED
  BY <1>5, <1>7 DEF new, m

\* A registration that replaces no entry takes no label from the others,
\* except the name it registers.
LEMMA RegisterTakesNothing ==
  ASSUME NEW dict, Dict(dict), NEW schema \in Schemas, NEW l \in Labels,
         NEW new, new = Register(dict, schema),
         Resolve(dict, l) \in Keys(dict),
         \A i \in DOMAIN dict : dict[i] \in Range(new),
         Upper[l] \notin Keys(new) \ Keys(dict)
  PROVE  Resolve(new, l) = Resolve(dict, l)
<1> DEFINE entry == [key |-> KeyOf(schema), schema |-> schema]
<1>1. /\ entry \in Entries
      /\ \/ /\ entry.key \in Keys(dict)
            /\ new = [i \in DOMAIN dict |-> IF dict[i].key = entry.key THEN entry
                                                                 ELSE dict[i]]
         \/ /\ entry.key \notin Keys(dict)
            /\ new = Append(dict, entry)
  BY RegisterCases
<1> HIDE DEF entry
<1>2. CASE /\ entry.key \in Keys(dict)
           /\ new = [i \in DOMAIN dict |-> IF dict[i].key = entry.key THEN entry
                                                                ELSE dict[i]]
  <2>1. PICK i \in DOMAIN dict : dict[i].key = entry.key
    BY <1>2 DEF Keys
  <2>2. dict[i] = entry
    <3>1. PICK j \in DOMAIN new : new[j] = dict[i]
      BY <2>1 DEF Range
    <3>2. CASE dict[j].key = entry.key
      BY <1>2, <3>1, <3>2
    <3>3. CASE dict[j].key # entry.key
      BY <1>2, <2>1, <3>1, <3>3
    <3> QED
      BY <3>2, <3>3
  <2>3. \A j \in DOMAIN dict : dict[j].key = entry.key => j = i
    BY <2>1 DEF Dict
  <2>4. \A j \in DOMAIN dict : new[j] = dict[j]
    BY <1>2, <2>2, <2>3
  <2>5. DOMAIN new = DOMAIN dict
    BY <1>2
  <2>6. Keys(new) = Keys(dict) /\ WithAlias(new, Upper[l]) = WithAlias(dict, Upper[l])
    BY <2>4, <2>5 DEF Keys, WithAlias
  <2>7. WithAlias(dict, Upper[l]) # {}
          => Min(WithAlias(dict, Upper[l])) \in DOMAIN dict
    BY FirstHit
  <2> QED
    BY <2>4, <2>6, <2>7 DEF Resolve
<1>3. CASE entry.key \notin Keys(dict) /\ new = Append(dict, entry)
  <2>1. /\ DOMAIN dict \subseteq DOMAIN new
        /\ \A i \in DOMAIN dict : new[i] = dict[i]
    <3>1. dict \in Seq(Entries)
      BY DEF Dict
    <3> QED
      BY <1>1, <1>3, <3>1
  <2>2. Keys(dict) \subseteq Keys(new)
    BY <2>1 DEF Keys
  <2>3. CASE l = "" \/ Upper[l] \in Keys(dict)
    BY <2>2, <2>3 DEF Resolve
  <2>4. CASE l # "" /\ Upper[l] \notin Keys(dict)
    <3>1. WithAlias(dict, Upper[l]) # {}
      BY <2>4 DEF Resolve
    <3>2. Resolve(dict, l) = dict[Min(WithAlias(dict, Upper[l]))].key
      BY <2>4, <3>1 DEF Resolve
    <3>3. /\ WithAlias(new, Upper[l]) # {}
          /\ Min(WithAlias(new, Upper[l])) = Min(WithAlias(dict, Upper[l]))
      BY <1>1, <1>3, <3>1, FirstStays
    <3>4. Resolve(new, l) = new[Min(WithAlias(new, Upper[l]))].key
      BY <2>4, <3>3 DEF Resolve
    <3>5. Min(WithAlias(dict, Upper[l])) \in DOMAIN dict
      BY <3>1, FirstHit
    <3> QED
      BY <2>1, <3>2, <3>3, <3>4, <3>5
  <2> QED
    BY <2>3, <2>4
<1> QED
  BY <1>1, <1>2, <1>3

\* What the entities resolved before a registration that replaces none of them
\* they resolve after it, except the new name itself, also when the new entry
\* shares their aliases (ontology.py:68-74).
THEOREM NewNamesAreNew == Spec => NewNamesTakeNothing
<1> DEFINE Kept == \A l \in Labels :
        LET old == Resolve(entities, l) IN
        /\ old \in Keys(entities)
        /\ \A i \in DOMAIN entities : entities[i] \in Range(entities')
        /\ Upper[l] \notin Keys(entities') \ Keys(entities)
        => Resolve(entities', l) = old
<1>1. ASSUME Dict(entities), NEW s \in Entities, RegisterEntity(s) PROVE Kept
  <2>1. s \in Schemas /\ entities' = Register(entities, s)
    BY <1>1, OntologyAssumption DEF RegisterEntity
  <2> QED
    BY <1>1, <2>1, RegisterTakesNothing
<1>2. ASSUME NEW s \in Relationships, RegisterRelationship(s) PROVE Kept
  BY <1>2 DEF RegisterRelationship
<1>3. Dict(entities) /\ [Next]_vars => [Kept]_vars
  BY <1>1, <1>2 DEF Next
<1> QED
  BY <1>3, DictsAlways, PTL DEF Spec, NewNamesTakeNothing
===========================================================================
