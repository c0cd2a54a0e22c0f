---------------------------- MODULE PassageShelf ----------------------------
(***************************************************************************)
(* What the knowledge index promises to whoever searches it, with no rows, *)
(* no requests and no failures: for each source the text that is found, if *)
(* any.  Rebuilds happen at once, one scope at a time; what they put on    *)
(* the shelf is a text the source has had, no older than the one it takes  *)
(* away, and nothing of a source that is gone.                             *)
(* Module KnowledgeIndex is shown to implement it.                         *)
(***************************************************************************)
EXTENDS Naturals

CONSTANTS Sources, Scopes, ScopeOf

VARIABLES
  version, \* of each source; 0 before it is there
  gone,    \* the sources taken away
  shelf    \* the versions that are found of each source

shelfVars == <<version, gone, shelf>>

Init ==
  /\ version = [d \in Sources |-> 0] /\ gone = {}
  /\ shelf = [d \in Sources |-> {}]

Edit(d) ==
  /\ d \notin gone
  /\ version' = [version EXCEPT ![d] = @ + 1]
  /\ UNCHANGED <<gone, shelf>>

(* A source that goes is found no more, from the same moment. *)
TakeAway(d) ==
  /\ d \notin gone
  /\ gone' = gone \cup {d}
  /\ shelf' = [shelf EXCEPT ![d] = {}]
  /\ UNCHANGED version

(* One text takes the place of the one there was, if there was one. *)
Replaced(d) ==
  \E v \in 1 .. version[d] : shelf'[d] = {v} /\ \A old \in shelf[d] : old <= v

Rebuild(s) ==
  /\ shelf' = [d \in Sources |-> shelf'[d]]
  /\ \A d \in Sources :
       shelf'[d] = shelf[d] \/ (ScopeOf[d] = s /\ d \notin gone /\ Replaced(d))
  /\ UNCHANGED <<version, gone>>

Next ==
  \/ \E d \in Sources : Edit(d) \/ TakeAway(d)
  \/ \E s \in Scopes : Rebuild(s)

Spec == Init /\ [][Next]_shelfVars

(* A search finds one text of a source at most, and none of a source that  *)
(* is gone.                                                                *)
OneText ==
  \A d \in Sources : /\ \A v, w \in shelf[d] : v = w
                     /\ d \in gone => shelf[d] = {}
=============================================================================
