------------------------ MODULE KnowledgeIndexProofs ------------------------
(***************************************************************************)
(* Theorems about KnowledgeIndex, for any units, sources and reindexes.    *)
(*                                                                         *)
(* The lock leaves the chunks of a scope to one transaction (OneInside):   *)
(* other steps only take rows away.  So what that transaction erased is    *)
(* all there is when it writes (ErasedAll), which rules out duplicates,    *)
(* and what it read is no older than any row it replaces (ReadCovers).     *)
(* A rebuild fails without a fault only over a document that was deleted   *)
(* in the meantime, and that deletion started another rebuild.             *)
(***************************************************************************)
EXTENDS KnowledgeIndex, TLAPS

Reading == {"documents", "erase", "write"}

OneInside ==
  \A j, k \in Jobs :
    (at[j] \in Inside /\ at[k] \in Inside /\ scope[j] = scope[k]) => j = k

(* A passage that was read is of the scope, and was the source's text. *)
ReadsAreTrue ==
  \A j \in Jobs : \A p \in read[j] :
    /\ at[j] \in Reading
    /\ ScopeOf[p.source] = scope[j]
    /\ p.version <= version[p.source]
    /\ at[j] = "documents" => p.source \in Facts
    /\ \A q \in read[j] : q.source = p.source => q = p

ChunksAreTrue ==
  \A s \in Scopes : \A c \in chunks[s] :
    ScopeOf[c.source] = s /\ c.version <= version[c.source] /\ c.source \notin gone

ErasedAll ==
  \A j \in Jobs : at[j] = "write" => chunks[scope[j]] \subseteq erased[j]

ReadCovers ==
  \A j \in Jobs : \A c \in chunks[scope[j]] :
    (at[j] \in {"erase", "write"} \/ (at[j] = "documents" /\ c.source \in Facts)) =>
      \E p \in read[j] : p.source = c.source /\ p.version >= c.version

KnowledgeInv ==
  /\ TypeOK /\ OneInside /\ ReadsAreTrue /\ ChunksAreTrue /\ ErasedAll /\ ReadCovers
  /\ NoDuplicateChunks /\ StaleOnlyInTransit

(* What a request for a scope changes, of the reindexes. *)
RequestOnly(s) ==
  /\ UNCHANGED <<todo, read, erased>>
  /\ at' \in [Jobs -> {"idle", "walk", "sent", "over", "failed"} \cup Inside]
  /\ scope' \in [Jobs -> Scopes]
  /\ \A j \in Jobs : at[j] = at'[j] \/ (at[j] = "idle" /\ at'[j] = "sent")
  /\ \A j \in Jobs : at[j] # "idle" => scope'[j] = scope[j]
  /\ s # Shared => \E j \in Jobs : at[j] = "idle" /\ at'[j] = "sent" /\ scope'[j] = s

(* A request takes one idle slot, or none for the shared documents. *)
LEMMA RequestIsSent ==
  ASSUME TypeOK, NEW s \in Scopes,
         ReindexUnitAsync(s) \/ \E j \in Jobs : Send(j, s)
  PROVE  RequestOnly(s)
<1>1. CASE UNCHANGED jobs /\ s = Shared
  BY <1>1 DEF jobs, RequestOnly, TypeOK
<1>2. ASSUME NEW j \in Jobs, Send(j, s) PROVE RequestOnly(s)
  BY <1>2 DEF Send, RequestOnly, TypeOK, Inside
<1>3. QED
  BY <1>1, <1>2 DEF ReindexUnitAsync

(* Every step keeps the types. *)
LEMMA TypeStep ==
  ASSUME TypeOK, ReadsAreTrue, [Next]_vars
  PROVE  TypeOK'
<1>1. ASSUME NEW f \in Facts, AddFact(f) PROVE TypeOK'
  <2>1. ScopeOf[f] \in Scopes
    BY <1>1, ScopesAssumption DEF Scopes
  <2>2. RequestOnly(ScopeOf[f])
    BY <1>1, <2>1, RequestIsSent DEF AddFact
  <2>3. QED
    BY <1>1, <2>1, <2>2, BoundsAssumption
    DEF RequestOnly, AddFact, TypeOK, Sources
<1>2. ASSUME NEW d \in Documents, CreateDocument(d) PROVE TypeOK'
  <2>1. ScopeOf[d] \in Scopes
    BY <1>2, ScopesAssumption DEF Sources
  <2>2. RequestOnly(ScopeOf[d])
    BY <1>2, <2>1, RequestIsSent DEF CreateDocument
  <2>3. QED
    BY <1>2, <2>1, <2>2, BoundsAssumption
    DEF RequestOnly, CreateDocument, TypeOK, Sources
<1>3. ASSUME NEW d \in Documents, UpdateDocument(d) PROVE TypeOK'
  <2>1. ScopeOf[d] \in Scopes
    BY <1>3, ScopesAssumption DEF Sources
  <2>2. RequestOnly(ScopeOf[d])
    BY <1>3, <2>1, RequestIsSent DEF UpdateDocument
  <2>3. QED
    BY <1>3, <2>1, <2>2, BoundsAssumption
    DEF RequestOnly, UpdateDocument, TypeOK, Sources
<1>4. ASSUME NEW d \in Documents, DeleteDocument(d) PROVE TypeOK'
  <2>1. ScopeOf[d] \in Scopes
    BY <1>4, ScopesAssumption DEF Sources
  <2>2. RequestOnly(ScopeOf[d])
    BY <1>4, <2>1, RequestIsSent DEF DeleteDocument
  <2>3. QED
    BY <1>4, <2>1, <2>2 DEF RequestOnly, DeleteDocument, TypeOK
<1>5. ASSUME NEW j \in Jobs, NEW u \in Units, ReindexUnit(j, u) PROVE TypeOK'
  <2>1. u \in Scopes
    BY <1>5 DEF Scopes
  <2>2. RequestOnly(u)
    BY <1>5, <2>1, RequestIsSent DEF ReindexUnit
  <2>3. QED
    BY <1>5, <2>1, <2>2 DEF RequestOnly, ReindexUnit, base, TypeOK
<1>6. ASSUME NEW j \in Jobs, ReindexOrg(j) PROVE TypeOK'
  BY <1>6 DEF ReindexOrg, base, TypeOK
<1>7. ASSUME NEW j \in Jobs, Walk(j) PROVE TypeOK'
  BY <1>7 DEF Walk, base, TypeOK
<1>8. ASSUME NEW j \in Jobs, Lock(j) PROVE TypeOK'
  BY <1>8 DEF Lock, base, TypeOK, Inside
<1>9. ASSUME NEW j \in Jobs, GatherFacts(j) PROVE TypeOK'
  BY <1>9
  DEF GatherFacts, Passages, base, TypeOK, Inside, Live, Passage, Sources
<1>10. ASSUME NEW j \in Jobs, GatherDocuments(j) PROVE TypeOK'
  BY <1>10
  DEF GatherDocuments, Passages, base, TypeOK, Inside, Live, Passage, Sources
<1>11. ASSUME NEW j \in Jobs, Erase(j) PROVE TypeOK'
  BY <1>11 DEF Erase, base, TypeOK, Inside
<1>12. ASSUME NEW j \in Jobs, Write(j) PROVE TypeOK'
  BY <1>12 DEF Write, Written, Leave, TypeOK, Row, Passage
<1>13. ASSUME NEW j \in Jobs, WriteRefused(j) PROVE TypeOK'
  BY <1>13 DEF WriteRefused, Leave, base, TypeOK
<1>14. ASSUME NEW j \in Jobs, Lose(j) PROVE TypeOK'
  BY <1>14, BoundsAssumption DEF Lose, Leave, base, TypeOK
<1>15. CASE UNCHANGED vars
  BY <1>15 DEF vars, base, jobs, TypeOK
<1>16. QED
  BY <1>1, <1>2, <1>3, <1>4, <1>5, <1>6, <1>7, <1>8, <1>9, <1>10, <1>11,
     <1>12, <1>13, <1>14, <1>15
  DEF Next, Edit, Reindex

(* Nobody enters a scope that is locked. *)
LEMMA InsideStep ==
  ASSUME TypeOK, OneInside, [Next]_vars
  PROVE  OneInside'
<1>1. ASSUME NEW f \in Facts, AddFact(f) PROVE OneInside'
  <2>1. ScopeOf[f] \in Scopes
    BY <1>1, ScopesAssumption DEF Scopes
  <2>2. RequestOnly(ScopeOf[f])
    BY <1>1, <2>1, RequestIsSent DEF AddFact
  <2>3. QED
    BY <2>2 DEF RequestOnly, OneInside, Inside
<1>2. ASSUME NEW d \in Documents, CreateDocument(d) PROVE OneInside'
  <2>1. ScopeOf[d] \in Scopes
    BY <1>2, ScopesAssumption DEF Sources
  <2>2. RequestOnly(ScopeOf[d])
    BY <1>2, <2>1, RequestIsSent DEF CreateDocument
  <2>3. QED
    BY <2>2 DEF RequestOnly, OneInside, Inside
<1>3. ASSUME NEW d \in Documents, UpdateDocument(d) PROVE OneInside'
  <2>1. ScopeOf[d] \in Scopes
    BY <1>3, ScopesAssumption DEF Sources
  <2>2. RequestOnly(ScopeOf[d])
    BY <1>3, <2>1, RequestIsSent DEF UpdateDocument
  <2>3. QED
    BY <2>2 DEF RequestOnly, OneInside, Inside
<1>4. ASSUME NEW d \in Documents, DeleteDocument(d) PROVE OneInside'
  <2>1. ScopeOf[d] \in Scopes
    BY <1>4, ScopesAssumption DEF Sources
  <2>2. RequestOnly(ScopeOf[d])
    BY <1>4, <2>1, RequestIsSent DEF DeleteDocument
  <2>3. QED
    BY <2>2 DEF RequestOnly, OneInside, Inside
<1>5. ASSUME NEW j \in Jobs, NEW u \in Units, ReindexUnit(j, u) PROVE OneInside'
  <2>1. u \in Scopes
    BY <1>5 DEF Scopes
  <2>2. RequestOnly(u)
    BY <1>5, <2>1, RequestIsSent DEF ReindexUnit
  <2>3. QED
    BY <1>5, <2>1, <2>2 DEF RequestOnly, Inside, OneInside
<1>6. ASSUME NEW j \in Jobs, ReindexOrg(j) PROVE OneInside'
  BY <1>6 DEF ReindexOrg, Inside, OneInside
<1>7. ASSUME NEW j \in Jobs, Walk(j) PROVE OneInside'
  BY <1>7 DEF Walk, Inside, OneInside
<1>8. ASSUME NEW j \in Jobs, Lock(j) PROVE OneInside'
  BY <1>8 DEF Lock, OneInside
<1>9. ASSUME NEW j \in Jobs, GatherFacts(j) PROVE OneInside'
  BY <1>9 DEF GatherFacts, Inside, OneInside
<1>10. ASSUME NEW j \in Jobs, GatherDocuments(j) PROVE OneInside'
  BY <1>10 DEF GatherDocuments, Inside, OneInside
<1>11. ASSUME NEW j \in Jobs, Erase(j) PROVE OneInside'
  BY <1>11 DEF Erase, Inside, OneInside
<1>12. ASSUME NEW j \in Jobs, Write(j) PROVE OneInside'
  BY <1>12 DEF Write, Leave, Inside, OneInside
<1>13. ASSUME NEW j \in Jobs, WriteRefused(j) PROVE OneInside'
  BY <1>13 DEF WriteRefused, Leave, Inside, OneInside
<1>14. ASSUME NEW j \in Jobs, Lose(j) PROVE OneInside'
  BY <1>14 DEF Lose, Leave, Inside, OneInside
<1>15. CASE UNCHANGED vars
  BY <1>15 DEF vars, jobs, OneInside
<1>16. QED
  BY <1>1, <1>2, <1>3, <1>4, <1>5, <1>6, <1>7, <1>8, <1>9, <1>10, <1>11,
     <1>12, <1>13, <1>14, <1>15
  DEF Next, Edit, Reindex

(* Versions only grow, and a scope is read once. *)
LEMMA ReadStep ==
  ASSUME TypeOK, ReadsAreTrue, [Next]_vars
  PROVE  ReadsAreTrue'
<1>1. ASSUME NEW f \in Facts, AddFact(f) PROVE ReadsAreTrue'
  <2>1. ScopeOf[f] \in Scopes
    BY <1>1, ScopesAssumption DEF Scopes
  <2>2. RequestOnly(ScopeOf[f])
    BY <1>1, <2>1, RequestIsSent DEF AddFact
  <2>3. QED
    BY <1>1, <2>1, <2>2
    DEF RequestOnly, AddFact, TypeOK, Passage, ReadsAreTrue, Reading
<1>2. ASSUME NEW d \in Documents, CreateDocument(d) PROVE ReadsAreTrue'
  <2>1. ScopeOf[d] \in Scopes
    BY <1>2, ScopesAssumption DEF Sources
  <2>2. RequestOnly(ScopeOf[d])
    BY <1>2, <2>1, RequestIsSent DEF CreateDocument
  <2>3. QED
    BY <1>2, <2>1, <2>2
    DEF RequestOnly, CreateDocument, TypeOK, Passage, ReadsAreTrue, Reading
<1>3. ASSUME NEW d \in Documents, UpdateDocument(d) PROVE ReadsAreTrue'
  <2>1. ScopeOf[d] \in Scopes
    BY <1>3, ScopesAssumption DEF Sources
  <2>2. RequestOnly(ScopeOf[d])
    BY <1>3, <2>1, RequestIsSent DEF UpdateDocument
  <2>3. QED
    BY <1>3, <2>1, <2>2
    DEF RequestOnly, UpdateDocument, TypeOK, Passage, ReadsAreTrue, Reading
<1>4. ASSUME NEW d \in Documents, DeleteDocument(d) PROVE ReadsAreTrue'
  <2>1. ScopeOf[d] \in Scopes
    BY <1>4, ScopesAssumption DEF Sources
  <2>2. RequestOnly(ScopeOf[d])
    BY <1>4, <2>1, RequestIsSent DEF DeleteDocument
  <2>3. QED
    BY <1>4, <2>1, <2>2 DEF RequestOnly, DeleteDocument, ReadsAreTrue, Reading
<1>5. ASSUME NEW j \in Jobs, NEW u \in Units, ReindexUnit(j, u)
      PROVE  ReadsAreTrue'
  <2>1. u \in Scopes
    BY <1>5 DEF Scopes
  <2>2. RequestOnly(u)
    BY <1>5, <2>1, RequestIsSent DEF ReindexUnit
  <2>3. QED
    BY <1>5, <2>1, <2>2
    DEF RequestOnly, ReindexUnit, base, ReadsAreTrue, Reading
<1>6. ASSUME NEW j \in Jobs, ReindexOrg(j) PROVE ReadsAreTrue'
  BY <1>6 DEF ReindexOrg, base, ReadsAreTrue, Reading
<1>7. ASSUME NEW j \in Jobs, Walk(j) PROVE ReadsAreTrue'
  BY <1>7 DEF Walk, base, ReadsAreTrue, Reading
<1>8. ASSUME NEW j \in Jobs, Lock(j) PROVE ReadsAreTrue'
  BY <1>8 DEF Lock, base, ReadsAreTrue, Reading
<1>9. ASSUME NEW j \in Jobs, GatherFacts(j) PROVE ReadsAreTrue'
  BY <1>9
  DEF GatherFacts, Passages, base, TypeOK, ReadsAreTrue, Reading, Sources
<1>10. ASSUME NEW j \in Jobs, GatherDocuments(j) PROVE ReadsAreTrue'
  BY <1>10, ScopesAssumption
  DEF GatherDocuments, Passages, base, TypeOK, ReadsAreTrue, Reading, Sources
<1>11. ASSUME NEW j \in Jobs, Erase(j) PROVE ReadsAreTrue'
  BY <1>11 DEF Erase, base, ReadsAreTrue, Reading
<1>12. ASSUME NEW j \in Jobs, Write(j) PROVE ReadsAreTrue'
  BY <1>12 DEF Write, Leave, TypeOK, ReadsAreTrue
<1>13. ASSUME NEW j \in Jobs, WriteRefused(j) PROVE ReadsAreTrue'
  BY <1>13 DEF WriteRefused, Leave, base, TypeOK, ReadsAreTrue
<1>14. ASSUME NEW j \in Jobs, Lose(j) PROVE ReadsAreTrue'
  BY <1>14 DEF Lose, Leave, base, TypeOK, ReadsAreTrue
<1>15. CASE UNCHANGED vars
  BY <1>15 DEF vars, base, jobs, ReadsAreTrue
<1>16. QED
  BY <1>1, <1>2, <1>3, <1>4, <1>5, <1>6, <1>7, <1>8, <1>9, <1>10, <1>11,
     <1>12, <1>13, <1>14, <1>15
  DEF Next, Edit, Reindex

(* Rows are written from what was read, and deleted with it. *)
LEMMA ChunkStep ==
  ASSUME TypeOK, ReadsAreTrue, ChunksAreTrue, [Next]_vars
  PROVE  ChunksAreTrue'
<1>1. ASSUME NEW f \in Facts, AddFact(f) PROVE ChunksAreTrue'
  <2>1. ScopeOf[f] \in Scopes
    BY <1>1, ScopesAssumption DEF Scopes
  <2>2. RequestOnly(ScopeOf[f])
    BY <1>1, <2>1, RequestIsSent DEF AddFact
  <2>3. QED
    BY <1>1, <2>1, <2>2 DEF AddFact, TypeOK, Row, ChunksAreTrue
<1>2. ASSUME NEW d \in Documents, CreateDocument(d) PROVE ChunksAreTrue'
  <2>1. ScopeOf[d] \in Scopes
    BY <1>2, ScopesAssumption DEF Sources
  <2>2. RequestOnly(ScopeOf[d])
    BY <1>2, <2>1, RequestIsSent DEF CreateDocument
  <2>3. QED
    BY <1>2, <2>1, <2>2 DEF CreateDocument, TypeOK, Row, ChunksAreTrue
<1>3. ASSUME NEW d \in Documents, UpdateDocument(d) PROVE ChunksAreTrue'
  <2>1. ScopeOf[d] \in Scopes
    BY <1>3, ScopesAssumption DEF Sources
  <2>2. RequestOnly(ScopeOf[d])
    BY <1>3, <2>1, RequestIsSent DEF UpdateDocument
  <2>3. QED
    BY <1>3, <2>1, <2>2 DEF UpdateDocument, TypeOK, Row, ChunksAreTrue
<1>4. ASSUME NEW d \in Documents, DeleteDocument(d) PROVE ChunksAreTrue'
  <2>1. ScopeOf[d] \in Scopes
    BY <1>4, ScopesAssumption DEF Sources
  <2>2. RequestOnly(ScopeOf[d])
    BY <1>4, <2>1, RequestIsSent DEF DeleteDocument
  <2>3. QED
    BY <1>4, <2>1, <2>2 DEF DeleteDocument, ChunksAreTrue
<1>5. ASSUME NEW j \in Jobs, NEW u \in Units, ReindexUnit(j, u)
      PROVE  ChunksAreTrue'
  <2>1. u \in Scopes
    BY <1>5 DEF Scopes
  <2>2. RequestOnly(u)
    BY <1>5, <2>1, RequestIsSent DEF ReindexUnit
  <2>3. QED
    BY <1>5, <2>1, <2>2 DEF ReindexUnit, base, ChunksAreTrue
<1>6. ASSUME NEW j \in Jobs, ReindexOrg(j) PROVE ChunksAreTrue'
  BY <1>6 DEF ReindexOrg, base, ChunksAreTrue
<1>7. ASSUME NEW j \in Jobs, Walk(j) PROVE ChunksAreTrue'
  BY <1>7 DEF Walk, base, ChunksAreTrue
<1>8. ASSUME NEW j \in Jobs, Lock(j) PROVE ChunksAreTrue'
  BY <1>8 DEF Lock, base, ChunksAreTrue
<1>9. ASSUME NEW j \in Jobs, GatherFacts(j) PROVE ChunksAreTrue'
  BY <1>9 DEF GatherFacts, base, ChunksAreTrue
<1>10. ASSUME NEW j \in Jobs, GatherDocuments(j) PROVE ChunksAreTrue'
  BY <1>10 DEF GatherDocuments, base, ChunksAreTrue
<1>11. ASSUME NEW j \in Jobs, Erase(j) PROVE ChunksAreTrue'
  BY <1>11 DEF Erase, base, ChunksAreTrue
<1>12. ASSUME NEW j \in Jobs, Write(j) PROVE ChunksAreTrue'
  BY <1>12 DEF Write, Written, ReadsAreTrue, ChunksAreTrue
<1>13. ASSUME NEW j \in Jobs, WriteRefused(j) PROVE ChunksAreTrue'
  BY <1>13 DEF WriteRefused, base, ChunksAreTrue
<1>14. ASSUME NEW j \in Jobs, Lose(j) PROVE ChunksAreTrue'
  BY <1>14 DEF Lose, base, ChunksAreTrue
<1>15. CASE UNCHANGED vars
  BY <1>15 DEF vars, base, ChunksAreTrue
<1>16. QED
  BY <1>1, <1>2, <1>3, <1>4, <1>5, <1>6, <1>7, <1>8, <1>9, <1>10, <1>11,
     <1>12, <1>13, <1>14, <1>15
  DEF Next, Edit, Reindex

(* No row is added behind the back of the transaction inside. *)
LEMMA ErasedStep ==
  ASSUME TypeOK, OneInside, ErasedAll, [Next]_vars
  PROVE  ErasedAll'
<1>1. ASSUME NEW f \in Facts, AddFact(f) PROVE ErasedAll'
  <2>1. ScopeOf[f] \in Scopes
    BY <1>1, ScopesAssumption DEF Scopes
  <2>2. RequestOnly(ScopeOf[f])
    BY <1>1, <2>1, RequestIsSent DEF AddFact
  <2>3. QED
    BY <1>1, <2>1, <2>2 DEF RequestOnly, AddFact, ErasedAll
<1>2. ASSUME NEW d \in Documents, CreateDocument(d) PROVE ErasedAll'
  <2>1. ScopeOf[d] \in Scopes
    BY <1>2, ScopesAssumption DEF Sources
  <2>2. RequestOnly(ScopeOf[d])
    BY <1>2, <2>1, RequestIsSent DEF CreateDocument
  <2>3. QED
    BY <1>2, <2>1, <2>2 DEF RequestOnly, CreateDocument, ErasedAll
<1>3. ASSUME NEW d \in Documents, UpdateDocument(d) PROVE ErasedAll'
  <2>1. ScopeOf[d] \in Scopes
    BY <1>3, ScopesAssumption DEF Sources
  <2>2. RequestOnly(ScopeOf[d])
    BY <1>3, <2>1, RequestIsSent DEF UpdateDocument
  <2>3. QED
    BY <1>3, <2>1, <2>2 DEF RequestOnly, UpdateDocument, ErasedAll
<1>4. ASSUME NEW d \in Documents, DeleteDocument(d) PROVE ErasedAll'
  <2>1. ScopeOf[d] \in Scopes
    BY <1>4, ScopesAssumption DEF Sources
  <2>2. RequestOnly(ScopeOf[d])
    BY <1>4, <2>1, RequestIsSent DEF DeleteDocument
  <2>3. QED
    BY <1>4, <2>1, <2>2 DEF RequestOnly, DeleteDocument, ErasedAll
<1>5. ASSUME NEW j \in Jobs, NEW u \in Units, ReindexUnit(j, u) PROVE ErasedAll'
  <2>1. u \in Scopes
    BY <1>5 DEF Scopes
  <2>2. RequestOnly(u)
    BY <1>5, <2>1, RequestIsSent DEF ReindexUnit
  <2>3. QED
    BY <1>5, <2>1, <2>2 DEF RequestOnly, ReindexUnit, base, ErasedAll
<1>6. ASSUME NEW j \in Jobs, ReindexOrg(j) PROVE ErasedAll'
  BY <1>6 DEF ReindexOrg, base, ErasedAll
<1>7. ASSUME NEW j \in Jobs, Walk(j) PROVE ErasedAll'
  BY <1>7 DEF Walk, base, ErasedAll
<1>8. ASSUME NEW j \in Jobs, Lock(j) PROVE ErasedAll'
  BY <1>8 DEF Lock, base, ErasedAll
<1>9. ASSUME NEW j \in Jobs, GatherFacts(j) PROVE ErasedAll'
  BY <1>9 DEF GatherFacts, base, ErasedAll
<1>10. ASSUME NEW j \in Jobs, GatherDocuments(j) PROVE ErasedAll'
  BY <1>10 DEF GatherDocuments, base, ErasedAll
<1>11. ASSUME NEW j \in Jobs, Erase(j) PROVE ErasedAll'
  BY <1>11 DEF Erase, base, TypeOK, ErasedAll
<1>12. ASSUME NEW j \in Jobs, Write(j) PROVE ErasedAll'
  BY <1>12 DEF Write, Leave, TypeOK, OneInside, ErasedAll
<1>13. ASSUME NEW j \in Jobs, WriteRefused(j) PROVE ErasedAll'
  BY <1>13 DEF WriteRefused, Leave, base, TypeOK, ErasedAll
<1>14. ASSUME NEW j \in Jobs, Lose(j) PROVE ErasedAll'
  BY <1>14 DEF Lose, Leave, base, TypeOK, ErasedAll
<1>15. CASE UNCHANGED vars
  BY <1>15 DEF vars, base, jobs, ErasedAll
<1>16. QED
  BY <1>1, <1>2, <1>3, <1>4, <1>5, <1>6, <1>7, <1>8, <1>9, <1>10, <1>11,
     <1>12, <1>13, <1>14, <1>15
  DEF Next, Edit, Reindex

(* A transaction reads no less than the rows of its scope show. *)
LEMMA CoverStep ==
  ASSUME TypeOK, OneInside, ReadsAreTrue, ChunksAreTrue, ReadCovers, [Next]_vars
  PROVE  ReadCovers'
<1>1. ASSUME NEW f \in Facts, AddFact(f) PROVE ReadCovers'
  <2>1. ScopeOf[f] \in Scopes
    BY <1>1, ScopesAssumption DEF Scopes
  <2>2. RequestOnly(ScopeOf[f])
    BY <1>1, <2>1, RequestIsSent DEF AddFact
  <2>3. QED
    BY <1>1, <2>1, <2>2 DEF RequestOnly, AddFact, ReadCovers
<1>2. ASSUME NEW d \in Documents, CreateDocument(d) PROVE ReadCovers'
  <2>1. ScopeOf[d] \in Scopes
    BY <1>2, ScopesAssumption DEF Sources
  <2>2. RequestOnly(ScopeOf[d])
    BY <1>2, <2>1, RequestIsSent DEF CreateDocument
  <2>3. QED
    BY <1>2, <2>1, <2>2 DEF RequestOnly, CreateDocument, ReadCovers
<1>3. ASSUME NEW d \in Documents, UpdateDocument(d) PROVE ReadCovers'
  <2>1. ScopeOf[d] \in Scopes
    BY <1>3, ScopesAssumption DEF Sources
  <2>2. RequestOnly(ScopeOf[d])
    BY <1>3, <2>1, RequestIsSent DEF UpdateDocument
  <2>3. QED
    BY <1>3, <2>1, <2>2 DEF RequestOnly, UpdateDocument, ReadCovers
<1>4. ASSUME NEW d \in Documents, DeleteDocument(d) PROVE ReadCovers'
  <2>1. ScopeOf[d] \in Scopes
    BY <1>4, ScopesAssumption DEF Sources
  <2>2. RequestOnly(ScopeOf[d])
    BY <1>4, <2>1, RequestIsSent DEF DeleteDocument
  <2>3. QED
    BY <1>4, <2>1, <2>2 DEF RequestOnly, DeleteDocument, ReadCovers
<1>5. ASSUME NEW j \in Jobs, NEW u \in Units, ReindexUnit(j, u)
      PROVE  ReadCovers'
  <2>1. u \in Scopes
    BY <1>5 DEF Scopes
  <2>2. RequestOnly(u)
    BY <1>5, <2>1, RequestIsSent DEF ReindexUnit
  <2>3. QED
    BY <1>5, <2>1, <2>2 DEF RequestOnly, ReindexUnit, base, ReadCovers
<1>6. ASSUME NEW j \in Jobs, ReindexOrg(j) PROVE ReadCovers'
  BY <1>6 DEF ReindexOrg, base, ReadCovers
<1>7. ASSUME NEW j \in Jobs, Walk(j) PROVE ReadCovers'
  BY <1>7 DEF Walk, base, ReadCovers
<1>8. ASSUME NEW j \in Jobs, Lock(j) PROVE ReadCovers'
  BY <1>8 DEF Lock, base, ReadCovers
<1>9. ASSUME NEW j \in Jobs, GatherFacts(j) PROVE ReadCovers'
  <2>1. SUFFICES ASSUME NEW k \in Jobs, NEW c \in chunks'[scope'[k]],
                        at'[k] \in {"erase", "write"}
                          \/ (at'[k] = "documents" /\ c.source \in Facts)
                 PROVE  \E p \in read'[k] : p.source = c.source /\ p.version >= c.version
    BY DEF ReadCovers
  <2>2. CASE k = j
    <3>1. at'[j] = "documents" /\ c.source \in Facts /\ c \in chunks[scope[j]]
      BY <1>9, <2>1, <2>2 DEF GatherFacts, base
    <3>2. c \in Row /\ ScopeOf[c.source] = scope[j] /\ c.version <= version[c.source]
          /\ c.source \notin gone
      BY <3>1 DEF TypeOK, ChunksAreTrue
    <3>3. c.version \in 1 .. MaxVersion /\ version[c.source] \in Nat
      BY <3>1, <3>2 DEF TypeOK, Row
    <3>4. Live(c.source)
      BY <3>2, <3>3 DEF Live
    <3>5. [source |-> c.source, version |-> version[c.source]] \in read'[j]
      BY <1>9, <3>1, <3>2, <3>4 DEF GatherFacts, Passages, TypeOK
    <3>6. QED
      BY <2>2, <3>2, <3>3, <3>5
  <2>3. CASE k # j
    BY <1>9, <2>1, <2>3 DEF GatherFacts, base, ReadCovers
  <2>4. QED
    BY <2>2, <2>3
<1>10. ASSUME NEW j \in Jobs, GatherDocuments(j) PROVE ReadCovers'
  <2>1. SUFFICES ASSUME NEW k \in Jobs, NEW c \in chunks'[scope'[k]],
                        at'[k] \in {"erase", "write"}
                          \/ (at'[k] = "documents" /\ c.source \in Facts)
                 PROVE  \E p \in read'[k] : p.source = c.source /\ p.version >= c.version
    BY DEF ReadCovers
  <2>2. CASE k = j /\ c.source \in Facts
    BY <1>10, <2>1, <2>2 DEF GatherDocuments, base, ReadCovers
  <2>3. CASE k = j /\ c.source \notin Facts
    <3>1. c \in chunks[scope[j]] /\ c \in Row
      BY <1>10, <2>1, <2>3 DEF GatherDocuments, base, TypeOK
    <3>2. c.source \in Documents /\ ScopeOf[c.source] = scope[j]
          /\ c.version <= version[c.source] /\ c.source \notin gone
      BY <2>3, <3>1 DEF TypeOK, ChunksAreTrue, Row, Sources
    <3>3. c.version \in 1 .. MaxVersion /\ version[c.source] \in Nat
      BY <3>1, <3>2 DEF TypeOK, Row
    <3>4. Live(c.source)
      BY <3>2, <3>3 DEF Live
    <3>5. [source |-> c.source, version |-> version[c.source]] \in read'[j]
      BY <1>10, <3>2, <3>4 DEF GatherDocuments, Passages, TypeOK
    <3>6. QED
      BY <2>3, <3>2, <3>3, <3>5
  <2>4. CASE k # j
    BY <1>10, <2>1, <2>4 DEF GatherDocuments, base, ReadCovers
  <2>5. QED
    BY <2>2, <2>3, <2>4
<1>11. ASSUME NEW j \in Jobs, Erase(j) PROVE ReadCovers'
  BY <1>11 DEF Erase, base, ReadCovers
<1>12. ASSUME NEW j \in Jobs, Write(j) PROVE ReadCovers'
  BY <1>12 DEF Write, Leave, TypeOK, OneInside, ReadCovers
<1>13. ASSUME NEW j \in Jobs, WriteRefused(j) PROVE ReadCovers'
  BY <1>13 DEF WriteRefused, Leave, base, TypeOK, ReadCovers
<1>14. ASSUME NEW j \in Jobs, Lose(j) PROVE ReadCovers'
  BY <1>14 DEF Lose, Leave, base, TypeOK, ReadCovers
<1>15. CASE UNCHANGED vars
  BY <1>15 DEF vars, base, jobs, ReadCovers
<1>16. QED
  BY <1>1, <1>2, <1>3, <1>4, <1>5, <1>6, <1>7, <1>8, <1>9, <1>10, <1>11,
     <1>12, <1>13, <1>14, <1>15
  DEF Next, Edit, Reindex

(* A write leaves one row of each source. *)
LEMMA SingleStep ==
  ASSUME TypeOK, OneInside, ReadsAreTrue, ErasedAll, NoDuplicateChunks, [Next]_vars
  PROVE  NoDuplicateChunks'
<1>1. ASSUME NEW f \in Facts, AddFact(f) PROVE NoDuplicateChunks'
  <2>1. ScopeOf[f] \in Scopes
    BY <1>1, ScopesAssumption DEF Scopes
  <2>2. RequestOnly(ScopeOf[f])
    BY <1>1, <2>1, RequestIsSent DEF AddFact
  <2>3. QED
    BY <1>1, <2>1, <2>2 DEF AddFact, NoDuplicateChunks
<1>2. ASSUME NEW d \in Documents, CreateDocument(d) PROVE NoDuplicateChunks'
  <2>1. ScopeOf[d] \in Scopes
    BY <1>2, ScopesAssumption DEF Sources
  <2>2. RequestOnly(ScopeOf[d])
    BY <1>2, <2>1, RequestIsSent DEF CreateDocument
  <2>3. QED
    BY <1>2, <2>1, <2>2 DEF CreateDocument, NoDuplicateChunks
<1>3. ASSUME NEW d \in Documents, UpdateDocument(d) PROVE NoDuplicateChunks'
  <2>1. ScopeOf[d] \in Scopes
    BY <1>3, ScopesAssumption DEF Sources
  <2>2. RequestOnly(ScopeOf[d])
    BY <1>3, <2>1, RequestIsSent DEF UpdateDocument
  <2>3. QED
    BY <1>3, <2>1, <2>2 DEF UpdateDocument, NoDuplicateChunks
<1>4. ASSUME NEW d \in Documents, DeleteDocument(d) PROVE NoDuplicateChunks'
  <2>1. ScopeOf[d] \in Scopes
    BY <1>4, ScopesAssumption DEF Sources
  <2>2. RequestOnly(ScopeOf[d])
    BY <1>4, <2>1, RequestIsSent DEF DeleteDocument
  <2>3. QED
    BY <1>4, <2>1, <2>2 DEF DeleteDocument, NoDuplicateChunks
<1>5. ASSUME NEW j \in Jobs, NEW u \in Units, ReindexUnit(j, u)
      PROVE  NoDuplicateChunks'
  <2>1. u \in Scopes
    BY <1>5 DEF Scopes
  <2>2. RequestOnly(u)
    BY <1>5, <2>1, RequestIsSent DEF ReindexUnit
  <2>3. QED
    BY <1>5, <2>1, <2>2 DEF ReindexUnit, base, NoDuplicateChunks
<1>6. ASSUME NEW j \in Jobs, ReindexOrg(j) PROVE NoDuplicateChunks'
  BY <1>6 DEF ReindexOrg, base, NoDuplicateChunks
<1>7. ASSUME NEW j \in Jobs, Walk(j) PROVE NoDuplicateChunks'
  BY <1>7 DEF Walk, base, NoDuplicateChunks
<1>8. ASSUME NEW j \in Jobs, Lock(j) PROVE NoDuplicateChunks'
  BY <1>8 DEF Lock, base, NoDuplicateChunks
<1>9. ASSUME NEW j \in Jobs, GatherFacts(j) PROVE NoDuplicateChunks'
  BY <1>9 DEF GatherFacts, base, NoDuplicateChunks
<1>10. ASSUME NEW j \in Jobs, GatherDocuments(j) PROVE NoDuplicateChunks'
  BY <1>10 DEF GatherDocuments, base, NoDuplicateChunks
<1>11. ASSUME NEW j \in Jobs, Erase(j) PROVE NoDuplicateChunks'
  BY <1>11 DEF Erase, base, NoDuplicateChunks
<1>12. ASSUME NEW j \in Jobs, Write(j) PROVE NoDuplicateChunks'
  BY <1>12 DEF Write, Written, ReadsAreTrue, ErasedAll, NoDuplicateChunks
<1>13. ASSUME NEW j \in Jobs, WriteRefused(j) PROVE NoDuplicateChunks'
  BY <1>13 DEF WriteRefused, base, NoDuplicateChunks
<1>14. ASSUME NEW j \in Jobs, Lose(j) PROVE NoDuplicateChunks'
  BY <1>14 DEF Lose, base, NoDuplicateChunks
<1>15. CASE UNCHANGED vars
  BY <1>15 DEF vars, base, NoDuplicateChunks
<1>16. QED
  BY <1>1, <1>2, <1>3, <1>4, <1>5, <1>6, <1>7, <1>8, <1>9, <1>10, <1>11,
     <1>12, <1>13, <1>14, <1>15
  DEF Next, Edit, Reindex

(* An edit starts a rebuild, and only a deletion dooms one. *)
LEMMA FreshStep ==
  ASSUME TypeOK, OneInside, ReadsAreTrue, ChunksAreTrue, ErasedAll, ReadCovers,
         StaleOnlyInTransit, [Next]_vars
  PROVE  StaleOnlyInTransit'
<1>1. ASSUME NEW f \in Facts, AddFact(f) PROVE StaleOnlyInTransit'
  <2>1. ScopeOf[f] \in Scopes
    BY <1>1, ScopesAssumption DEF Scopes
  <2>2. RequestOnly(ScopeOf[f])
    BY <1>1, <2>1, RequestIsSent DEF AddFact
  <2>3. QED
    BY <1>1, <2>1, <2>2
    DEF RequestOnly, AddFact, Live, ReadsAreTrue, StaleOnlyInTransit, Indexed,
        WillIndex, Reading
<1>2. ASSUME NEW d \in Documents, CreateDocument(d) PROVE StaleOnlyInTransit'
  <2>1. ScopeOf[d] \in Scopes
    BY <1>2, ScopesAssumption DEF Sources
  <2>2. RequestOnly(ScopeOf[d])
    BY <1>2, <2>1, RequestIsSent DEF CreateDocument
  <2>3. QED
    BY <1>2, <2>1, <2>2
    DEF RequestOnly, CreateDocument, Live, ReadsAreTrue, StaleOnlyInTransit,
        Indexed, WillIndex, Reading
<1>3. ASSUME NEW d \in Documents, UpdateDocument(d) PROVE StaleOnlyInTransit'
  <2>1. ScopeOf[d] \in Scopes
    BY <1>3, ScopesAssumption DEF Sources
  <2>2. RequestOnly(ScopeOf[d])
    BY <1>3, <2>1, RequestIsSent DEF UpdateDocument
  <2>3. QED
    BY <1>3, <2>1, <2>2
    DEF RequestOnly, UpdateDocument, Live, ReadsAreTrue, StaleOnlyInTransit,
        Indexed, WillIndex, Reading
<1>4. ASSUME NEW d \in Documents, DeleteDocument(d) PROVE StaleOnlyInTransit'
  <2>1. SUFFICES ASSUME faults' = 0, NEW e \in Sources, Live(e)', ScopeOf[e] # Shared,
                        ~ Indexed(e)'
                 PROVE  \E k \in Jobs : WillIndex(k, e)'
    BY DEF StaleOnlyInTransit
  <2>2. ScopeOf[d] \in Scopes
    BY <1>4, ScopesAssumption DEF Sources
  <2>3. RequestOnly(ScopeOf[d])
    BY <1>4, <2>2, RequestIsSent DEF DeleteDocument
  <2>4. CASE ScopeOf[e] = ScopeOf[d]
    <3>1. PICK k \in Jobs : at[k] = "idle" /\ at'[k] = "sent" /\ scope'[k] = ScopeOf[d]
      BY <2>1, <2>3, <2>4 DEF RequestOnly
    <3>2. read'[k] = {}
      BY <2>3, <3>1 DEF RequestOnly, ReadsAreTrue, Reading
    <3>3. QED
      BY <2>4, <3>1, <3>2 DEF WillIndex
  <2>5. CASE ScopeOf[e] # ScopeOf[d]
    <3>1. Live(e) /\ ~ Indexed(e) /\ faults = 0 /\ version' = version
      BY <1>4, <2>1, <2>5, ScopesAssumption DEF DeleteDocument, Live, Indexed
    <3>2. PICK k \in Jobs : WillIndex(k, e)
      BY <2>1, <3>1 DEF StaleOnlyInTransit
    <3>3. at[k] # "idle" /\ scope[k] = ScopeOf[e]
      BY <3>2 DEF WillIndex, ReadsAreTrue, Reading
    <3>4. at'[k] = at[k] /\ scope'[k] = scope[k] /\ read'[k] = read[k]
      BY <2>3, <3>3 DEF RequestOnly
    <3>5. \A p \in read[k] : p.source \notin gone'
      BY <1>4, <2>5, <3>2, <3>3 DEF DeleteDocument, ReadsAreTrue, WillIndex
    <3>6. QED
      BY <3>1, <3>2, <3>4, <3>5 DEF WillIndex
  <2>6. QED
    BY <2>4, <2>5
<1>5. ASSUME NEW j \in Jobs, NEW u \in Units, ReindexUnit(j, u)
      PROVE  StaleOnlyInTransit'
  <2>1. u \in Scopes
    BY <1>5 DEF Scopes
  <2>2. RequestOnly(u)
    BY <1>5, <2>1, RequestIsSent DEF ReindexUnit
  <2>3. QED
    BY <1>5, <2>1, <2>2
    DEF RequestOnly, ReindexUnit, base, Live, ReadsAreTrue, StaleOnlyInTransit,
        Indexed, WillIndex, Reading
<1>6. ASSUME NEW j \in Jobs, ReindexOrg(j) PROVE StaleOnlyInTransit'
  BY <1>6 DEF ReindexOrg, base, Live, StaleOnlyInTransit, Indexed, WillIndex
<1>7. ASSUME NEW j \in Jobs, Walk(j) PROVE StaleOnlyInTransit'
  BY <1>7
  DEF Walk, base, Live, ReadsAreTrue, StaleOnlyInTransit, Indexed, WillIndex,
      Reading
<1>8. ASSUME NEW j \in Jobs, Lock(j) PROVE StaleOnlyInTransit'
  BY <1>8 DEF Lock, base, Live, StaleOnlyInTransit, Indexed, WillIndex
<1>9. ASSUME NEW j \in Jobs, GatherFacts(j) PROVE StaleOnlyInTransit'
  BY <1>9
  DEF GatherFacts, Passages, base, TypeOK, Live, ReadCovers, StaleOnlyInTransit,
      Indexed, WillIndex, Sources
<1>10. ASSUME NEW j \in Jobs, GatherDocuments(j) PROVE StaleOnlyInTransit'
  BY <1>10, ScopesAssumption
  DEF GatherDocuments, Passages, base, TypeOK, Live, Row, StaleOnlyInTransit,
      Indexed, WillIndex
<1>11. ASSUME NEW j \in Jobs, Erase(j) PROVE StaleOnlyInTransit'
  BY <1>11 DEF Erase, base, Live, StaleOnlyInTransit, Indexed, WillIndex
<1>12. ASSUME NEW j \in Jobs, Write(j) PROVE StaleOnlyInTransit'
  <2>1. SUFFICES ASSUME faults' = 0, NEW e \in Sources, Live(e)', ScopeOf[e] # Shared,
                        ~ Indexed(e)'
                 PROVE  \E k \in Jobs : WillIndex(k, e)'
    BY DEF StaleOnlyInTransit
  <2>2. Live(e) /\ faults = 0 /\ UNCHANGED <<version, gone, scope>>
    BY <1>12, <2>1 DEF Write, Leave, Live
  <2>3. ScopeOf[e] \in Scopes /\ scope[j] \in Scopes /\ version[e] \in Nat
    BY <2>2, ScopesAssumption DEF TypeOK
  <2>4. \A p \in read[j] : p.source = e => p.version # version[e]
    <3>1. SUFFICES ASSUME NEW p \in read[j], p.source = e, p.version = version[e]
                   PROVE  FALSE
      OBVIOUS
    <3>2. [source |-> e, version |-> version[e], by |-> j] \in Written(j)
      BY <3>1 DEF Written
    <3>3. scope[j] = ScopeOf[e]
      BY <3>1 DEF ReadsAreTrue
    <3>4. QED
      BY <1>12, <2>1, <2>2, <2>3, <3>2, <3>3 DEF Write, Indexed, TypeOK
  <2>5. ~ Indexed(e)
    <3>1. SUFFICES ASSUME NEW c \in chunks[ScopeOf[e]], c.source = e, c.version = version[e]
                   PROVE  FALSE
      BY DEF Indexed
    <3>2. CASE scope[j] = ScopeOf[e]
      <4>1. PICK p \in read[j] : p.source = e /\ p.version >= version[e]
        BY <1>12, <3>1, <3>2 DEF Write, ReadCovers
      <4>2. p.version <= version[e] /\ p.version \in Nat
        BY <4>1, BoundsAssumption DEF ReadsAreTrue, TypeOK, Passage
      <4>3. QED
        BY <2>3, <2>4, <4>1, <4>2
    <3>3. CASE scope[j] # ScopeOf[e]
      BY <1>12, <2>1, <2>2, <2>3, <3>1, <3>3 DEF Write, Indexed
    <3>4. QED
      BY <3>2, <3>3
  <2>6. PICK k \in Jobs : WillIndex(k, e)
    BY <2>1, <2>2, <2>5 DEF StaleOnlyInTransit
  <2>7. k # j
    BY <1>12, <2>4, <2>6 DEF WillIndex, Write
  <2>8. at'[k] = at[k] /\ read'[k] = read[k]
    BY <1>12, <2>7 DEF Write, Leave
  <2>9. QED
    BY <2>2, <2>6, <2>8 DEF WillIndex
<1>13. ASSUME NEW j \in Jobs, WriteRefused(j) PROVE StaleOnlyInTransit'
  BY <1>13
  DEF WriteRefused, Leave, base, Live, StaleOnlyInTransit, Indexed, WillIndex
<1>14. ASSUME NEW j \in Jobs, Lose(j) PROVE StaleOnlyInTransit'
  BY <1>14 DEF Lose, TypeOK, StaleOnlyInTransit
<1>15. CASE UNCHANGED vars
  BY <1>15 DEF vars, base, jobs, Live, StaleOnlyInTransit, Indexed, WillIndex
<1>16. QED
  BY <1>1, <1>2, <1>3, <1>4, <1>5, <1>6, <1>7, <1>8, <1>9, <1>10, <1>11,
     <1>12, <1>13, <1>14, <1>15
  DEF Next, Edit, Reindex

----------------------------------------------------------------------------
(* What a write puts in the place of the rows it erased is no older. *)
LEMMA ForwardStep ==
  ASSUME TypeOK, ErasedAll, ReadCovers, [Next]_vars
  PROVE  \A s \in Scopes : \A c \in chunks[s] :
           c.source \notin gone' =>
             \E b \in chunks'[s] : b.source = c.source /\ b.version >= c.version
<1> SUFFICES ASSUME NEW s \in Scopes, NEW c \in chunks[s], c.source \notin gone'
             PROVE  \E b \in chunks'[s] : b.source = c.source /\ b.version >= c.version
  OBVIOUS
<1>0. c.version >= c.version
  BY BoundsAssumption DEF TypeOK, Row
<1>1. ASSUME NEW d \in Documents, DeleteDocument(d) PROVE c \in chunks'[s]
  BY <1>1 DEF DeleteDocument
<1>2. ASSUME NEW j \in Jobs, Write(j)
      PROVE  \E b \in chunks'[s] : b.source = c.source /\ b.version >= c.version
  <2>1. CASE s # scope[j]
    BY <1>0, <1>2, <2>1 DEF Write, TypeOK
  <2>2. CASE s = scope[j]
    <3>1. PICK p \in read[j] : p.source = c.source /\ p.version >= c.version
      BY <1>2, <2>2 DEF Write, ReadCovers
    <3>2. [source |-> p.source, version |-> p.version, by |-> j] \in chunks'[s]
      BY <1>2, <2>2 DEF Write, Written, TypeOK
    <3>3. QED
      BY <3>1, <3>2
  <2>3. QED
    BY <2>1, <2>2
<1>3. UNCHANGED chunks
        \/ (\E d \in Documents : DeleteDocument(d)) \/ (\E j \in Jobs : Write(j))
  BY DEF Next, Edit, Reindex, AddFact, CreateDocument, UpdateDocument,
     ReindexUnit,
         ReindexOrg, Walk, Lock, GatherFacts, GatherDocuments, Erase, WriteRefused, Lose,
         base, vars
<1>4. QED
  BY <1>0, <1>1, <1>2, <1>3

(* Nothing is stored and nobody is inside before the first request. *)
LEMMA KnowledgeInit == Init => KnowledgeInv
<1> SUFFICES ASSUME Init PROVE KnowledgeInv
  OBVIOUS
<1> USE BoundsAssumption DEF Init, Inside, Reading
<1>1. TypeOK
  BY DEF TypeOK, Scopes
<1>2. OneInside /\ ReadsAreTrue /\ ChunksAreTrue /\ ErasedAll
  BY DEF OneInside, ReadsAreTrue, ChunksAreTrue, ErasedAll
<1>3. ReadCovers
  BY DEF ReadCovers
<1>4. NoDuplicateChunks
  BY DEF NoDuplicateChunks
<1>5. StaleOnlyInTransit
  BY DEF StaleOnlyInTransit, Live
<1>6. QED
  BY <1>1, <1>2, <1>3, <1>4, <1>5 DEF KnowledgeInv

(* No step leaves the invariant. *)
LEMMA KnowledgeStep == KnowledgeInv /\ [Next]_vars => KnowledgeInv'
  BY TypeStep, InsideStep, ReadStep, ChunkStep, ErasedStep, CoverStep,
     SingleStep, FreshStep
  DEF KnowledgeInv

(* The invariant holds in every state of every behaviour. *)
LEMMA KnowledgeAlways == Spec => []KnowledgeInv
<1>1. Init => KnowledgeInv
  BY KnowledgeInit
<1>2. KnowledgeInv /\ [Next]_vars => KnowledgeInv'
  BY KnowledgeStep
<1>3. QED
  BY <1>1, <1>2, PTL DEF Spec

(* Sources, rows and reindexes keep the shapes of the schema and the service. *)
THEOREM KnowledgeTypes == Spec => []TypeOK
<1>1. KnowledgeInv => TypeOK
  BY DEF KnowledgeInv
<1>2. QED
  BY <1>1, KnowledgeAlways, PTL

(* However many rebuilds of a unit run at once, no passage is stored twice. *)
THEOREM ChunksNotDuplicated == Spec => []NoDuplicateChunks
<1>1. KnowledgeInv => NoDuplicateChunks
  BY DEF KnowledgeInv
<1>2. QED
  BY <1>1, KnowledgeAlways, PTL

(* The passage of a source that is still there stays, no older. *)
IndexMovesForward ==
  [][\A s \in Scopes : \A c \in chunks[s] :
       c.source \notin gone' =>
         \E b \in chunks'[s] : b.source = c.source /\ b.version >= c.version]_vars

(* A rebuild that read early never takes back what a later one has stored. *)
THEOREM IndexNeverRegresses == Spec => IndexMovesForward
<1>1. KnowledgeInv /\ [Next]_vars =>
        [\A s \in Scopes : \A c \in chunks[s] :
           c.source \notin gone' =>
             \E b \in chunks'[s] : b.source = c.source /\ b.version >= c.version]_vars
  BY ForwardStep DEF KnowledgeInv
<1>2. QED
  BY <1>1, KnowledgeAlways, PTL DEF Spec, IndexMovesForward

(* While no request is lost, an outdated index has a rebuild on its way to it. *)
THEOREM StaleHasARebuild == Spec => []StaleOnlyInTransit
<1>1. KnowledgeInv => StaleOnlyInTransit
  BY DEF KnowledgeInv
<1>2. QED
  BY <1>1, KnowledgeAlways, PTL

----------------------------------------------------------------------------
(* The shelf: what a search finds. *)

LEMMA ShelfOfRows ==
  ASSUME NEW d \in Sources
  PROVE  /\ Shelf[d] = {c.version : c \in {c \in chunks[ScopeOf[d]] : c.source = d}}
         /\ Shelf'[d] = {c.version : c \in {c \in chunks'[ScopeOf[d]] : c.source = d}}
BY DEF Shelf

LEMMA SameRowsSameShelf == UNCHANGED chunks => Shelf' = Shelf
BY DEF Shelf

(* Only what was there is deleted, so that what is created was never gone. *)
GoneWereThere == \A d \in gone : version[d] > 0

LEMMA GoneStep == TypeOK /\ GoneWereThere /\ [Next]_vars => GoneWereThere'
<1> SUFFICES ASSUME TypeOK, GoneWereThere, [Next]_vars, NEW d \in gone'
             PROVE  version'[d] > 0
  BY DEF GoneWereThere
<1>1. d \in gone \/ (version' = version /\ version[d] > 0)
  BY DEF Next, Edit, Reindex, AddFact, CreateDocument, UpdateDocument, DeleteDocument, Live,
         ReindexUnit, ReindexOrg, Walk, Lock, GatherFacts, GatherDocuments, Erase, Write,
         WriteRefused, Lose, base, vars
<1>2. \/ version' = version
      \/ \E e \in Sources : version' = [version EXCEPT ![e] = 1] \/ version' = [version EXCEPT ![e] = @ + 1]
  BY DEF Next, Edit, Reindex, AddFact, CreateDocument, UpdateDocument, DeleteDocument, Sources,
         ReindexUnit, ReindexOrg, Walk, Lock, GatherFacts, GatherDocuments, Erase, Write,
         WriteRefused, Lose, base, vars
<1> QED
  BY <1>1, <1>2 DEF TypeOK, GoneWereThere, Sources

(* An edit touches no row. *)
LEMMA EditsShelve ==
  ASSUME KnowledgeInv, NEW d \in Sources, version' = [version EXCEPT ![d] = @ + 1],
         d \notin gone, UNCHANGED <<gone, chunks>>
  PROVE  S!Edit(d)
BY SameRowsSameShelf DEF S!Edit

LEMMA DeletionTakesAway ==
  ASSUME KnowledgeInv, NEW d \in Documents, DeleteDocument(d)
  PROVE  S!TakeAway(d)
<1>1. d \in Sources /\ d \notin gone /\ gone' = gone \cup {d} /\ version' = version
  BY DEF DeleteDocument, Live, Sources
<1>2. \A s \in Scopes : chunks'[s] = {c \in chunks[s] : c.source # d}
  BY DEF DeleteDocument
<1>3. ASSUME NEW e \in Sources
      PROVE  Shelf'[e] = IF e = d THEN {} ELSE Shelf[e]
  <2>1. ScopeOf[e] \in Scopes
    BY ScopesAssumption
  <2>2. chunks'[ScopeOf[e]] = {c \in chunks[ScopeOf[e]] : c.source # d}
    BY <1>2, <2>1
  <2>3. Shelf'[e] = {c.version : c \in {c \in chunks'[ScopeOf[e]] : c.source = e}}
    BY ShelfOfRows
  <2>4. CASE e = d
    <3>1. {c \in chunks'[ScopeOf[e]] : c.source = e} = {}
      BY <2>2, <2>4
    <3> QED
      BY <2>3, <2>4, <3>1
  <2>5. CASE e # d
    <3>1. {c \in chunks'[ScopeOf[e]] : c.source = e} = {c \in chunks[ScopeOf[e]] : c.source = e}
      BY <2>2, <2>5
    <3> QED
      BY <2>3, <2>5, <3>1, ShelfOfRows
  <2> QED
    BY <2>4, <2>5
<1>4. Shelf' = [Shelf EXCEPT ![d] = {}]
  <2>1. DOMAIN Shelf = Sources /\ DOMAIN Shelf' = Sources
    BY DEF Shelf
  <2>2. Shelf' = [e \in Sources |-> Shelf'[e]] /\ Shelf = [e \in Sources |-> Shelf[e]]
    BY DEF Shelf
  <2> QED
    BY <1>3, <2>1, <2>2
<1> QED
  BY <1>1, <1>4 DEF S!TakeAway

(* The commit of a rebuild puts one row of a source in the place of the rows
   there were, or leaves the source alone. *)
LEMMA WriteRebuilds ==
  ASSUME KnowledgeInv, NEW j \in Jobs, Write(j)
  PROVE  S!Rebuild(scope[j])
<1> USE DEF KnowledgeInv
<1>1. UNCHANGED <<version, gone>> /\ scope[j] \in Scopes
  BY DEF Write, TypeOK
<1>2. chunks'[scope[j]] = Written(j) /\ \A s \in Scopes : s # scope[j] => chunks'[s] = chunks[s]
  <2>1. chunks[scope[j]] \subseteq erased[j]
    BY DEF Write, ErasedAll
  <2> QED
    BY <1>1, <2>1 DEF Write, TypeOK
<1>3. ASSUME NEW d \in Sources
      PROVE  \/ Shelf'[d] = Shelf[d]
             \/ /\ ScopeOf[d] = scope[j] /\ d \notin gone
                /\ \E v \in 1 .. version[d] : Shelf'[d] = {v} /\ \A old \in Shelf[d] : old <= v
  <2>1. ScopeOf[d] \in Scopes
    BY ScopesAssumption
  <2>2. CASE ScopeOf[d] # scope[j]
    <3>1. chunks'[ScopeOf[d]] = chunks[ScopeOf[d]]
      BY <1>2, <2>1, <2>2
    <3> QED
      BY <3>1, ShelfOfRows
  <2>3. CASE ScopeOf[d] = scope[j] /\ \E p \in read[j] : p.source = d
    <3>1. PICK p \in read[j] : p.source = d
      BY <2>3
    <3>2. /\ p.version \in 1 .. MaxVersion /\ version[d] \in Nat /\ p.version <= version[d]
          /\ \A q \in read[j] : q.source = d => q = p
      BY <3>1 DEF TypeOK, Passage, ReadsAreTrue
    <3>3. {c \in chunks'[ScopeOf[d]] : c.source = d} = {[source |-> d, version |-> p.version, by |-> j]}
      BY <1>2, <2>3, <3>1, <3>2 DEF Written
    <3>4. Shelf'[d] = {p.version}
      <4> DEFINE row == [source |-> d, version |-> p.version, by |-> j]
      <4>1. row.version = p.version /\ {c.version : c \in {row}} = {row.version}
        OBVIOUS
      <4> HIDE DEF row
      <4>2. Shelf'[d] = {c.version : c \in {c \in chunks'[ScopeOf[d]] : c.source = d}}
        BY ShelfOfRows
      <4>3. {c \in chunks'[ScopeOf[d]] : c.source = d} = {row}
        BY <3>3 DEF row
      <4> QED
        BY <4>1, <4>2, <4>3
    <3>5. d \notin gone
      BY <3>1 DEF Write
    <3>6. ASSUME NEW old \in Shelf[d] PROVE old <= p.version
      <4>1. PICK c \in chunks[ScopeOf[d]] : c.source = d /\ c.version = old
        BY <3>6, ShelfOfRows
      <4>2. \E q \in read[j] : q.source = c.source /\ q.version >= c.version
        BY <2>3, <4>1 DEF Write, ReadCovers
      <4>3. p.version >= c.version /\ c.version \in Nat
        BY <2>1, <3>2, <4>1, <4>2 DEF TypeOK, Row
      <4> QED
        BY <3>2, <4>1, <4>3
    <3>7. p.version \in 1 .. version[d]
      BY <3>2
    <3> QED
      BY <2>3, <3>4, <3>5, <3>6, <3>7
  <2>4. CASE ScopeOf[d] = scope[j] /\ \A p \in read[j] : p.source # d
    <3>1. {c \in chunks'[ScopeOf[d]] : c.source = d} = {}
      BY <1>2, <2>4 DEF Written
    <3>2. {c \in chunks[ScopeOf[d]] : c.source = d} = {}
      BY <2>4 DEF Write, ReadCovers
    <3> QED
      BY <3>1, <3>2, ShelfOfRows
  <2> QED
    BY <2>2, <2>3, <2>4
<1>4. Shelf' = [d \in Sources |-> Shelf'[d]]
  BY DEF Shelf
<1> QED
  BY <1>1, <1>3, <1>4 DEF S!Rebuild, S!Replaced

LEMMA ShelfStep == KnowledgeInv /\ GoneWereThere /\ [Next]_vars => [S!Next]_(S!shelfVars)
<1> SUFFICES ASSUME KnowledgeInv, GoneWereThere, [Next]_vars
             PROVE  S!Next \/ UNCHANGED <<version, gone, Shelf>>
  BY DEF S!shelfVars
<1>1. ASSUME NEW f \in Facts, AddFact(f) PROVE S!Next
  <2>1. f \in Sources /\ f \notin gone /\ version' = [version EXCEPT ![f] = @ + 1]
    BY <1>1, ScopesAssumption DEF AddFact, KnowledgeInv, TypeOK, Sources
  <2> QED
    BY <1>1, <2>1, EditsShelve DEF AddFact, S!Next
<1>2. ASSUME NEW d \in Documents, CreateDocument(d) \/ UpdateDocument(d) PROVE S!Next
  <2>1. d \in Sources /\ d \notin gone /\ version' = [version EXCEPT ![d] = @ + 1] /\ UNCHANGED <<gone, chunks>>
    BY <1>2 DEF CreateDocument, UpdateDocument, Live, GoneWereThere, KnowledgeInv, TypeOK, Sources
  <2> QED
    BY <2>1, EditsShelve DEF S!Next
<1>3. ASSUME NEW d \in Documents, DeleteDocument(d) PROVE S!Next
  BY <1>3, DeletionTakesAway DEF S!Next, Sources
<1>4. ASSUME NEW j \in Jobs, Write(j) PROVE S!Next
  <2>1. scope[j] \in Scopes
    BY DEF KnowledgeInv, TypeOK
  <2> QED
    BY <1>4, <2>1, WriteRebuilds DEF S!Next
<1>5. ASSUME NEW j \in Jobs,
             \/ \E u \in Units : ReindexUnit(j, u)
             \/ ReindexOrg(j) \/ Walk(j) \/ Lock(j) \/ GatherFacts(j) \/ GatherDocuments(j)
             \/ Erase(j) \/ WriteRefused(j) \/ Lose(j)
      PROVE  UNCHANGED base
  BY <1>5 DEF ReindexUnit, ReindexOrg, Walk, Lock, GatherFacts, GatherDocuments, Erase,
              WriteRefused, Lose
<1>6. UNCHANGED vars => UNCHANGED base
  BY DEF vars
<1>7. UNCHANGED base => UNCHANGED <<version, gone, Shelf>>
  BY SameRowsSameShelf DEF base
<1> QED
  BY <1>1, <1>2, <1>3, <1>4, <1>5, <1>6, <1>7 DEF Next, Edit, Reindex

LEMMA ShelfInit == Init => S!Init
<1> SUFFICES ASSUME Init PROVE Shelf = [d \in Sources |-> {}]
  BY DEF Init, S!Init
<1>1. \A d \in Sources : {c \in chunks[ScopeOf[d]] : c.source = d} = {}
  BY ScopesAssumption DEF Init
<1> QED
  BY <1>1 DEF Shelf

(* To those who search, a rebuild is one step: every behaviour of edits,
   deletions and rebuilds is one of the shelf. *)
THEOREM ShelfImplemented == Spec => ImplementsShelf
<1>1. Init => GoneWereThere
  BY DEF Init, GoneWereThere
<1>2. KnowledgeInv => TypeOK
  BY DEF KnowledgeInv
<1> QED
  BY <1>1, <1>2, KnowledgeAlways, GoneStep, ShelfInit, ShelfStep, PTL DEF Spec, ImplementsShelf, S!Spec

(* A search finds one text of a source at most, and none of a deleted one. *)
THEOREM OneTextFound == Spec => []S!OneText
<1>1. ASSUME KnowledgeInv PROVE S!OneText
  <2> SUFFICES ASSUME NEW d \in Sources
               PROVE  /\ \A v, w \in Shelf[d] : v = w
                      /\ d \in gone => Shelf[d] = {}
    BY DEF S!OneText
  <2>1. ScopeOf[d] \in Scopes
    BY ScopesAssumption
  <2>2. \A b, c \in chunks[ScopeOf[d]] : b.source = d /\ c.source = d => b = c /\ d \notin gone
    BY <1>1, <2>1 DEF KnowledgeInv, NoDuplicateChunks, ChunksAreTrue
  <2> QED
    BY <2>2, ShelfOfRows
<1> QED
  BY <1>1, KnowledgeAlways, PTL
=============================================================================
