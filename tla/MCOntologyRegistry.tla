------------------------ MODULE MCOntologyRegistry ------------------------
(***************************************************************************)
(* An instance of OntologyRegistry for TLC: the registry that the module   *)
(* fills, and schemas that collide with it in a name, in the case of a     *)
(* name or in an alias.                                                    *)
(***************************************************************************)
EXTENDS OntologyRegistry, TLC

Entity(name, aliases) ==
    [name |-> name, aliases |-> aliases, sources |-> {}, targets |-> {}]

Relation(name, aliases, sources, targets) ==
    [name |-> name, aliases |-> aliases, sources |-> sources, targets |-> targets]

B2BEntities ==
    <<Entity("EMPRESA", {"PROVEEDOR", "CLIENTE", "SOCIEDAD"}),
      Entity("PEDIDO", {"ORDEN", "ENCARGO", "PRODUCTO"}),
      Entity("RIESGO", {"PROBLEMA", "ALERTA", "RETRASO"}),
      Entity("EMPLEADO", {"PERSONA", "COMERCIAL", "RESPONSABLE"})>>

B2BRelationships ==
    <<Relation("REALIZA_PEDIDO",
               {"HACE_PEDIDO", "TIENE_PEDIDO", "COMPRA", "SOLICITA"},
               {"EMPRESA", "EMPLEADO"}, {"PEDIDO"}),
      Relation("ATIENDE_PEDIDO", {"TIENE_PRECIO", "SUMINISTRA", "PROVEE"},
               {"EMPRESA"}, {"PEDIDO"}),
      Relation("TIENE_RIESGO", {"CONTIENE_RIESGO", "RIESGO_DETECTADO"},
               {"PEDIDO", "EMPRESA"}, {"RIESGO"}),
      Relation("ASIGNADO_A", {"LLEVA_CUENTA", "RESPONSABLE_DE"},
               {"PEDIDO", "EMPRESA"}, {"EMPLEADO"})>>

\* In upper case already, or not
Plain ==
    UNION {{s.name} \cup s.aliases :
             s \in Range(B2BEntities) \cup Range(B2BRelationships)}
        \cup {"", "COMPANY", "TIENE"}
UpperCase ==
    [l \in Plain |-> l] @@ ("Empresa" :> "EMPRESA") @@ ("Sociedad" :> "SOCIEDAD")
        @@ ("Company" :> "COMPANY") @@ ("Compra" :> "COMPRA")

\* The first replaces EMPRESA; the others are new, and share aliases.
MoreEntities ==
    {Entity("Empresa", {"Company"}), Entity("Sociedad", {"ORDEN", "CLIENTE"}),
     Entity("Company", {"CLIENTE", "PEDIDO"}), Entity("ORDEN", {})}

MoreRelationships ==
    {Relation("Compra", {"TIENE"}, {}, {"PEDIDO", "ORDEN"}),
     Relation("REALIZA_PEDIDO", {"TIENE"}, {"Empresa", "COMPANY"}, {}),
     Relation("TIENE", {"Compra"}, {"SOCIEDAD"}, {"EMPRESA"})}

SomeIds == {1, 2}

\* A relation between two nodes, of which the second may be missing or bear
\* the id of the first.
SomeLabels == {"Empresa", "Sociedad", "CLIENTE", "ORDEN", "Company"}
SomeExtractions ==
    {[nodes |-> nodes, rels |-> {[source |-> 1, type |-> type, target |-> 2]}] :
        type \in {"Compra", "REALIZA_PEDIDO", "TIENE", "PROVEE"},
        nodes \in {<<[id |-> 1, label |-> a], [id |-> i, label |-> b]>> :
                     a \in SomeLabels, b \in SomeLabels, i \in SomeIds}
                  \cup {<<[id |-> 1, label |-> a]>> : a \in SomeLabels}}
===========================================================================
