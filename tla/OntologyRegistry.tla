------------------------- MODULE OntologyRegistry -------------------------
(***************************************************************************)
(* core/ontology.py: OntologyRegistry, as its module fills it on import    *)
(* and as later calls of register_entity and register_relationship may     *)
(* change it, and ValidationPipeline over it.                              *)
(*                                                                         *)
(* A registry is a dict, in order of insertion: a sequence of entries, one *)
(* for each key.  Whether a label is found, and under which name, depends  *)
(* on the order and on the case of letters; the rest of a schema is left   *)
(* out.  Relationships are kept as a set: their order is not changed.      *)
(***************************************************************************)
EXTENDS Integers, Sequences, FiniteSetsExt, Functions

CONSTANTS
    Upper,                  \* label -> the label in upper case
    DefaultEntities,        \* the schemas that the module registers
    DefaultRelationships,
    Entities,               \* the schemas that may be registered later
    Relationships,
    Ids,                    \* of nodes
    Extractions             \* what may be validated

Labels == DOMAIN Upper

\* EntitySchema and RelationshipSchema: an empty list of sources or targets
\* allows all; an entity has neither.
Schemas == [name : Labels \ {""}, aliases : SUBSET Labels,
            sources : SUBSET Labels, targets : SUBSET Labels]

\* Nodes that may share an id, and relations between ids
Nodes == Seq([id : Ids, label : Labels])
Rels == [source : Ids, type : Labels, target : Ids]

ASSUME OntologyAssumption ==
    /\ "" \in Labels /\ Upper[""] = ""
    /\ \A l \in Labels : Upper[l] \in Labels /\ Upper[Upper[l]] = Upper[l]
    /\ DefaultEntities \in Seq(Schemas) /\ DefaultRelationships \in Seq(Schemas)
    /\ Entities \subseteq Schemas /\ Relationships \subseteq Schemas
    /\ Extractions \subseteq [nodes : Nodes, rels : SUBSET Rels]

VARIABLES
    entities,         \* registry._entities
    relationships     \* registry._relationships

vars == <<entities, relationships>>

Keys(dict) == {dict[i].key : i \in DOMAIN dict}

\* Mutant of KeyOf: names that differ in case are different keys.
KeyAsWritten(schema) == schema.name

KeyOf(schema) == Upper[schema.name]

\* Mutant of Register: the newest entry comes first.
RegisterInFront(dict, schema) ==
    <<[key |-> KeyOf(schema), schema |-> schema]>>
        \o SelectSeq(dict, LAMBDA e : e.key # KeyOf(schema))

\* dict[schema.name.upper()] = schema: a new key goes to the end, a known one
\* keeps its place.
Register(dict, schema) ==
    LET entry == [key |-> KeyOf(schema), schema |-> schema]
    IN  IF entry.key \in Keys(dict)
          THEN [i \in DOMAIN dict |-> IF dict[i].key = entry.key THEN entry
                                                                ELSE dict[i]]
          ELSE Append(dict, entry)

Registered(schemas) ==
    LET dict[n \in 0..Len(schemas)] ==
            IF n = 0 THEN <<>> ELSE Register(dict[n - 1], schemas[n])
    IN  dict[Len(schemas)]

---------------------------------------------------------------------------
\* The entries that have up among their aliases, compared in upper case
WithAlias(dict, up) ==
    {i \in DOMAIN dict : \E a \in dict[i].schema.aliases : Upper[a] = up}

\* Mutant of Resolve: an alias gives the name as it was written.
ResolveToName(dict, raw) ==
    LET up == Upper[raw]
        hits == WithAlias(dict, up)
    IN  IF raw = "" \/ up \in Keys(dict) \/ hits = {}
          THEN up ELSE dict[Min(hits)].schema.name

\* resolve_entity_label, resolve_relationship_type: a name, or the first name
\* with such an alias, or the label itself, in upper case.
Resolve(dict, raw) ==
    LET up == Upper[raw]
        hits == WithAlias(dict, up)
    IN  IF raw = "" \/ up \in Keys(dict) \/ hits = {}
          THEN up ELSE dict[Min(hits)].key

\* Mutant of LabelOf: of nodes that share an id, the first one counts.
LabelOfFirst(nodes, id) ==
    LET at == {i \in DOMAIN nodes : nodes[i].id = id}
    IN  IF at = {} THEN "" ELSE nodes[Min(at)].label

\* valid_nodes.get(id): the label of the last node with this id; "" if none
LabelOf(nodes, id) ==
    LET at == {i \in DOMAIN nodes : nodes[i].id = id}
    IN  IF at = {} THEN "" ELSE nodes[Max(at)].label

Allows(list, label) == list = {} \/ label = "" \/ label \in list

\* A relation whose type is registered must have a source and a target that
\* the schema allows; an end that is not among the nodes is not looked at.
Legal(nodes, r) ==
    \A i \in DOMAIN relationships :
        relationships[i].key = Upper[r.type] =>
           /\ Allows(relationships[i].schema.sources, LabelOf(nodes, r.source))
           /\ Allows(relationships[i].schema.targets, LabelOf(nodes, r.target))

ResolvedNodes(nodes) ==
    [i \in DOMAIN nodes |-> [nodes[i] EXCEPT !.label = Resolve(entities, @)]]

ResolvedRels(rels) ==
    {[r EXCEPT !.type = Resolve(relationships, @)] : r \in rels}

\* validate_extraction
Validated(x) ==
    LET nodes == ResolvedNodes(x.nodes)
    IN  [nodes |-> nodes, rels |-> {r \in ResolvedRels(x.rels) : Legal(nodes, r)}]

---------------------------------------------------------------------------
Init ==
    /\ entities = Registered(DefaultEntities)
    /\ relationships = Registered(DefaultRelationships)

RegisterEntity(schema) ==
    /\ entities' = Register(entities, schema)
    /\ UNCHANGED relationships

RegisterRelationship(schema) ==
    /\ relationships' = Register(relationships, schema)
    /\ UNCHANGED entities

Next ==
    \/ \E s \in Entities : RegisterEntity(s)
    \/ \E s \in Relationships : RegisterRelationship(s)

Spec == Init /\ [][Next]_vars

---------------------------------------------------------------------------
\* Types; the keys of a registry are the names in upper case, each once.
OntologyTypeOK ==
    \A dict \in {entities, relationships} :
        /\ dict \in Seq([key : Labels, schema : Schemas])
        /\ \A i, j \in DOMAIN dict :
              /\ dict[i].key = Upper[dict[i].schema.name]
              /\ dict[i].key = dict[j].key => i = j

\* A label that has been resolved resolves to itself, whatever aliases and
\* names the registry shares between its entries (ontology.py:65-85).
ResolvedIsFixed ==
    \A dict \in {entities, relationships}, l \in Labels :
        Resolve(dict, Resolve(dict, l)) = Resolve(dict, l)

\* A new name takes no label from the names before it, except the one it bears
\* itself, also when they share an alias; so what was validated under the old
\* registry is still resolved (ontology.py:68-74).
NewNamesTakeNothing ==
    [][\A l \in Labels :
          LET old == Resolve(entities, l) IN
          /\ old \in Keys(entities)
          /\ \A i \in DOMAIN entities : entities[i] \in Range(entities')
          /\ Upper[l] \notin Keys(entities') \ Keys(entities)
          => Resolve(entities', l) = old]_vars

\* What validation keeps connects only what the ontology allows, under the
\* names that the ends and the type resolve to; of nodes that share an id, the
\* last one counts (ontology.py:215, 224-243).
KeptAreAllowed ==
    \A x \in Extractions :
        \A r \in Validated(x).rels, i \in DOMAIN relationships, n \in DOMAIN x.nodes :
            LET schema == relationships[i].schema
                label == Resolve(entities, x.nodes[n].label)
            IN  /\ relationships[i].key = r.type
                /\ \A k \in DOMAIN x.nodes : k > n => x.nodes[k].id # x.nodes[n].id
                => /\ x.nodes[n].id = r.source => Allows(schema.sources, label)
                   /\ x.nodes[n].id = r.target => Allows(schema.targets, label)
===========================================================================
