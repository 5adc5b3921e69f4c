--------------------------- MODULE MCFencedGraph ---------------------------
(***************************************************************************)
(* Small instances of FencedGraph for TLC: lock names 1 and 2 are node ids *)
(* and 3 is "global_ingest".                                               *)
(***************************************************************************)
EXTENDS FencedGraph, TLC

CONSTANTS Company, w1, w2, a1, a2

\* A chunk that names two companies and a relation, and one that names one.
TwoExtractions ==
    {[nodes |-> {<<Company, 1>>, <<Company, 2>>}, pairs |-> {<<1, 2>>}],
     [nodes |-> {<<Company, 1>>}, pairs |-> {}]}

OneExtraction ==
    {[nodes |-> {<<Company, 1>>}, pairs |-> {<<1, 2>>}]}

WriterSymmetry == Permutations({w1, w2}) \cup Permutations({a1, a2})
===========================================================================
