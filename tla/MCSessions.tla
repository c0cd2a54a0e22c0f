----------------------------- MODULE MCSessions -----------------------------
(* A browser with two tabs, a login and two API calls. *)
EXTENDS Sessions

CONSTANTS t1, t2, q1, q2, l1
=============================================================================
