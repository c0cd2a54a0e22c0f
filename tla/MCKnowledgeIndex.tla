-------------------------- MODULE MCKnowledgeIndex --------------------------
(* A unit with a fact and a document, and a document shared by the units. *)
EXTENDS KnowledgeIndex

CONSTANTS u, f, d, g, j1, j2, j3

MCScopeOf == [s \in Sources |-> IF s = g THEN Shared ELSE u]
=============================================================================
