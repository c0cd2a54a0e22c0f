--------------------------- MODULE KnowledgeIndex ---------------------------
(***************************************************************************)
(* What the concierge may retrieve: facts and documents, edited through    *)
(* apps/api, and kb_chunks, rebuilt by the AI service.                     *)
(*                                                                         *)
(* An edit of a unit's knowledge commits and then starts a reindex that    *)
(* nobody waits for, so any number of them run at once.  A reindex is one  *)
(* READ COMMITTED transaction per scope: lock the scope, read the facts,   *)
(* read the documents, delete the scope's chunks, insert the new ones; the *)
(* statements of others commit in between.  A source has one chunk here.   *)
(***************************************************************************)
EXTENDS Naturals

CONSTANTS
  Units,
  Shared,       \* the scope of the documents without a unit
  Facts,        \* property_facts: of a unit, added and never changed
  Documents,    \* kb_documents
  ScopeOf,      \* the scope of each source
  Jobs,         \* reindex requests, one shot each: they bound the edits too
  MaxVersion,   \* bound on the version of a document
  MaxFaults     \* bound on the requests lost to a crash or a network failure

Sources == Facts \cup Documents
Scopes == Units \cup {Shared}

ASSUME ScopesAssumption ==
  /\ Shared \notin Units /\ Facts \cap Documents = {}
  /\ ScopeOf \in [Sources -> Scopes]
  /\ \A f \in Facts : ScopeOf[f] \in Units
ASSUME BoundsAssumption == MaxVersion \in Nat \ {0} /\ MaxFaults \in Nat

VARIABLES
  version,  \* of each source; 0 before it is created
  gone,     \* documents that were deleted
  chunks,   \* kb_chunks, the committed rows of each scope
  at,       \* where each reindex is
  scope,    \* the scope it rebuilds
  todo,     \* the scopes it rebuilds after that, when it is for the organization
  read,     \* the passages it has read
  erased,   \* the rows it has deleted
  faults

base == <<version, gone, chunks>>
jobs == <<at, scope, todo, read, erased>>
vars == <<base, jobs, faults>>

Row == [source : Sources, version : 1 .. MaxVersion, by : Jobs]
Passage == [source : Sources, version : 1 .. MaxVersion]

Live(d) == version[d] > 0 /\ d \notin gone

(* Mutant of Inside: the lock does not cover what is read. *)
InsideRewriting == {"erase", "write"}

(* In the transaction that rebuilds a scope, from the lock to the commit. *)
Inside == {"facts", "documents", "erase", "write"}

Init ==
  /\ version = [d \in Sources |-> 0]
  /\ gone = {}
  /\ chunks = [s \in Scopes |-> {}]
  /\ at = [j \in Jobs |-> "idle"]
  /\ scope = [j \in Jobs |-> Shared]
  /\ todo = [j \in Jobs |-> {}]
  /\ read = [j \in Jobs |-> {}]
  /\ erased = [j \in Jobs |-> {}]
  /\ faults = 0

----------------------------------------------------------------------------
(* The knowledge base, edited through the API. *)

Send(j, s) ==
  /\ at[j] = "idle"
  /\ at' = [at EXCEPT ![j] = "sent"]
  /\ scope' = [scope EXCEPT ![j] = s]
  /\ UNCHANGED <<todo, read, erased>>

(* reindexUnitAsync, called for a source with a unit only. *)
ReindexUnitAsync(s) == IF s = Shared THEN UNCHANGED jobs ELSE \E j \in Jobs : Send(j, s)

AddFact(f) ==
  /\ version[f] = 0
  /\ version' = [version EXCEPT ![f] = 1]
  /\ ReindexUnitAsync(ScopeOf[f])
  /\ UNCHANGED <<gone, chunks, faults>>

CreateDocument(d) ==
  /\ version[d] = 0
  /\ version' = [version EXCEPT ![d] = 1]
  /\ ReindexUnitAsync(ScopeOf[d])
  /\ UNCHANGED <<gone, chunks, faults>>

(* Mutant of UpdateDocument: the reindex is forgotten. *)
UpdateQuietly(d) ==
  /\ Live(d) /\ version[d] < MaxVersion
  /\ version' = [version EXCEPT ![d] = @ + 1]
  /\ UNCHANGED <<gone, chunks, jobs, faults>>

UpdateDocument(d) ==
  /\ Live(d) /\ version[d] < MaxVersion
  /\ version' = [version EXCEPT ![d] = @ + 1]
  /\ ReindexUnitAsync(ScopeOf[d])
  /\ UNCHANGED <<gone, chunks, faults>>

(* The delete cascades to the chunks made from the document. *)
DeleteDocument(d) ==
  /\ Live(d)
  /\ gone' = gone \cup {d}
  /\ chunks' = [s \in Scopes |-> {c \in chunks[s] : c.source # d}]
  /\ ReindexUnitAsync(ScopeOf[d])
  /\ UNCHANGED <<version, faults>>

(* The two endpoints that reindex on demand. *)
ReindexUnit(j, u) ==
  /\ Send(j, u)
  /\ UNCHANGED <<base, faults>>

ReindexOrg(j) ==
  /\ at[j] = "idle"
  /\ at' = [at EXCEPT ![j] = "walk"]
  /\ todo' = [todo EXCEPT ![j] = Scopes]
  /\ UNCHANGED <<base, scope, read, erased, faults>>

----------------------------------------------------------------------------
(* The AI service. *)

(* Mutant of Walk: the unit stays on the list. *)
WalkAgain(j) ==
  /\ at[j] = "walk"
  /\ at' = [at EXCEPT ![j] = "sent"]
  /\ \E s \in todo[j] : scope' = [scope EXCEPT ![j] = s]
  /\ UNCHANGED <<base, todo, read, erased, faults>>

(* reindex_org goes from unit to unit, the shared documents last. *)
Walk(j) ==
  /\ at[j] = "walk"
  /\ at' = [at EXCEPT ![j] = "sent"]
  /\ \E s \in todo[j] :
       /\ s = Shared => todo[j] = {Shared}
       /\ scope' = [scope EXCEPT ![j] = s]
       /\ todo' = [todo EXCEPT ![j] = @ \ {s}]
  /\ UNCHANGED <<base, read, erased, faults>>

(* Mutant of Lock: the transaction does not lock its scope. *)
LockNothing(j) ==
  /\ at[j] = "sent"
  /\ at' = [at EXCEPT ![j] = "facts"]
  /\ UNCHANGED <<base, scope, todo, read, erased, faults>>

(* pg_advisory_xact_lock: another transaction on the scope has to end first. *)
Lock(j) ==
  /\ at[j] = "sent"
  /\ \A k \in Jobs : at[k] \in Inside => scope[k] # scope[j]
  /\ at' = [at EXCEPT ![j] = "facts"]
  /\ UNCHANGED <<base, scope, todo, read, erased, faults>>

Passages(kind, s) ==
  {[source |-> d, version |-> version[d]] : d \in {d \in kind : Live(d) /\ ScopeOf[d] = s}}

GatherFacts(j) ==
  /\ at[j] = "facts"
  /\ at' = [at EXCEPT ![j] = "documents"]
  /\ read' = [read EXCEPT ![j] = Passages(Facts, scope[j])]
  /\ UNCHANGED <<base, scope, todo, erased, faults>>

GatherDocuments(j) ==
  /\ at[j] = "documents"
  /\ at' = [at EXCEPT ![j] = "erase"]
  /\ read' = [read EXCEPT ![j] = @ \cup Passages(Documents, scope[j])]
  /\ UNCHANGED <<base, scope, todo, erased, faults>>

(* DELETE FROM kb_chunks: the rows committed by now. *)
Erase(j) ==
  /\ at[j] = "erase"
  /\ at' = [at EXCEPT ![j] = "write"]
  /\ erased' = [erased EXCEPT ![j] = chunks[scope[j]]]
  /\ UNCHANGED <<base, scope, todo, read, faults>>

Written(j) == {[source |-> p.source, version |-> p.version, by |-> j] : p \in read[j]}

(* The transaction is over: the rest of the organization's scopes follow, the
   request is answered, or it has failed. *)
Leave(j, next) ==
  /\ at' = [at EXCEPT ![j] = next]
  /\ read' = [read EXCEPT ![j] = {}]
  /\ erased' = [erased EXCEPT ![j] = {}]
  /\ UNCHANGED <<scope, todo>>

(* The inserts and the commit, unless a document that was read is gone: its
   foreign key fails and the transaction leaves no trace. *)
Write(j) ==
  /\ at[j] = "write"
  /\ \A p \in read[j] : p.source \notin gone
  /\ chunks' = [chunks EXCEPT ![scope[j]] = (@ \ erased[j]) \cup Written(j)]
  /\ Leave(j, IF todo[j] = {} THEN "over" ELSE "walk")
  /\ UNCHANGED <<version, gone, faults>>

WriteRefused(j) ==
  /\ at[j] = "write"
  /\ \E p \in read[j] : p.source \in gone
  /\ Leave(j, "failed")
  /\ UNCHANGED <<base, faults>>

(* The API stops before it sends the request, the AI service is down, or it or
   its connection is lost on the way: nobody tries again. *)
Lose(j) ==
  /\ at[j] \in Inside \cup {"sent", "walk"} /\ faults < MaxFaults
  /\ faults' = faults + 1
  /\ Leave(j, "failed")
  /\ UNCHANGED base

Reindex(j) ==
  \/ Walk(j) \/ Lock(j) \/ GatherFacts(j) \/ GatherDocuments(j)
  \/ Erase(j) \/ Write(j) \/ WriteRefused(j)

Edit ==
  \/ \E f \in Facts : AddFact(f)
  \/ \E d \in Documents : CreateDocument(d) \/ UpdateDocument(d) \/ DeleteDocument(d)

Next ==
  \/ Edit
  \/ \E j \in Jobs :
       \/ \E u \in Units : ReindexUnit(j, u)
       \/ ReindexOrg(j) \/ Reindex(j) \/ Lose(j)

(* The service works on every request it has, and the database grants a lock
   that has been released. *)
Fairness == \A j \in Jobs : WF_vars(Reindex(j))

Spec == Init /\ [][Next]_vars /\ Fairness

----------------------------------------------------------------------------
(* Sources, rows and reindexes have the shapes the schema and the service give
   them. *)
TypeOK ==
  /\ version \in [Sources -> 0 .. MaxVersion]
  /\ gone \subseteq Documents
  /\ chunks \in [Scopes -> SUBSET Row]
  /\ at \in [Jobs -> {"idle", "walk", "sent", "over", "failed"} \cup Inside]
  /\ scope \in [Jobs -> Scopes]
  /\ todo \in [Jobs -> SUBSET Scopes]
  /\ read \in [Jobs -> SUBSET Passage]
  /\ erased \in [Jobs -> SUBSET Row]
  /\ faults \in 0 .. MaxFaults

(* Six facts added at once start six rebuilds, and no passage of them is stored
   twice. *)
NoDuplicateChunks ==
  \A s \in Scopes : \A b, c \in chunks[s] : b.source = c.source => b = c

Indexed(d) ==
  \E c \in chunks[ScopeOf[d]] : c.source = d /\ c.version = version[d]

(* Still to read the source, or has read it as it is and will write it: no
   document it has read is gone, so its inserts will not be refused. *)
WillIndex(j, d) ==
  /\ scope[j] = ScopeOf[d]
  /\ \A p \in read[j] : p.source \notin gone
  /\ \/ at[j] \in {"sent", "facts"}
     \/ at[j] = "documents" /\ d \in Documents
     \/ [source |-> d, version |-> version[d]] \in read[j]

(* The index of a unit is out of date only while a rebuild is on its way, unless
   one was lost. *)
StaleOnlyInTransit ==
  faults = 0 =>
    \A d \in Sources : (Live(d) /\ ScopeOf[d] # Shared) =>
      Indexed(d) \/ \E j \in Jobs : WillIndex(j, d)

(* The versions that a search finds of each source. *)
Shelf == [d \in Sources |-> {c.version : c \in {c \in chunks[ScopeOf[d]] : c.source = d}}]

S == INSTANCE PassageShelf WITH shelf <- Shelf

(* The five statements of a rebuild are one to those who search, whoever     *)
(* edits, deletes and rebuilds in between: each source goes from the text    *)
(* there was to a text no older, in one step with the rest of its scope, and *)
(* a deleted one is gone from the index for good.                            *)
ImplementsShelf == S!Spec

(* Every rebuild ends: the scopes it locks, one after the other, are all given
   back to it, whoever else waits for them. *)
ReindexesEnd == \A j \in Jobs : at[j] # "idle" ~> at[j] \in {"over", "failed"}
=============================================================================
