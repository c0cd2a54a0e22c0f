-------------------------- MODULE MCAccessLifecycle --------------------------
(* Three instants.  A guest's credential issued by the API for [1, 2) and
   the engine's credential of a zero-night booking at 1. *)
EXTENDS AccessLifecycle

CONSTANTS api, engine, t1, t2

MCWindow ==
  [c \in Creds |-> IF c = api THEN [from |-> 1, to |-> 2] ELSE [from |-> 1, to |-> 1]]
=============================================================================
