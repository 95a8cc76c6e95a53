----------------------- MODULE CatalogPipelineProofs ------------------------
(***************************************************************************)
(* Proofs about CatalogPipeline, for any anime, any number of publishers   *)
(* and indexers, any batch size and any number of faults.                  *)
(*                                                                         *)
(* StaleIsPending is not inductive twice over.  A row may sit in the       *)
(* outbox although its message was already consumed (the flush has not     *)
(* committed yet), so the row that covers a stale document has to be one   *)
(* no open flush has sent: Fresh.  And the indexer may hold a document     *)
(* older than the row; the write that overtook it left a fresh row other   *)
(* than the one being consumed: NewerWaits.                                *)
(***************************************************************************)
EXTENDS CatalogPipeline, TLAPS

\* Rows in use have an anime, rows to come have no message.
RowsOK ==
    /\ \A r \in 1 .. rows : rowAnime[r] \in Animes
    /\ \A r \in outbox : r <= rows
    /\ \A r \in Rows : r > rows => publishes[r] = 0 /\ late[r] = 0
    /\ \A m \in stream : m[1] <= rows

\* A row is locked by at most one publisher, which marks what it has sent.
LocksOK ==
    /\ \A p \in Publishers : sent[p] \subseteq items[p] /\ items[p] \subseteq outbox
    /\ \A p \in Publishers : ppc[p] = "idle" => items[p] = {}
    /\ \A p \in Publishers : ppc[p] = "mark" => items[p] = sent[p]
    /\ \A p, q \in Publishers : p # q => items[p] \cap items[q] = {}

\* A row that waits for a flush has been tried once per fault at most.
Waiting(r) == r \in outbox /\ \A p \in Publishers : r \notin sent[p]

AttemptsOK ==
    /\ \A r \in Rows : publishes[r] + late[r] <= 1 + faults
    /\ \A r \in Rows : Waiting(r) => publishes[r] + late[r] <= faults

\* What an indexer works on; a document it holds is no newer than the row.
IndexersOK ==
    /\ \A i \in Indexers : pc[i] \in {"read", "write", "ack"} => cur[i] \in Animes
    /\ \A i \in Indexers : pc[i] \in {"read", "write", "ack"} => doc[i] <= version[cur[i]]
    /\ \A d \in lateDocs : d[2] <= version[d[1]]
    /\ \A a \in Animes : index[a] <= version[a]
    /\ \A c \in Consumers : pc[c] # "pick"
    /\ \A c \in Consumers : pc[c] # "idle" =>
        /\ msg[c] \in Messages
        /\ msg[c][1] <= rows
        /\ cur[c] = rowAnime[msg[c][1]]

\* The document a single writer holds is at least as new as the index.
Forward ==
    SingleWriter =>
        /\ \A i \in Reindexers : pc[i] = "idle"
        /\ lateDocs = {}
        /\ \A c \in Consumers : pc[c] = "write" => index[cur[c]] <= doc[c]
        /\ \A c \in Consumers : pc[c] = "ack" => index[cur[c]] = doc[c]

Fresh(r) == InStream(r) \/ Waiting(r)
FreshRows(a) == {r \in 1 .. rows : rowAnime[r] = a /\ Fresh(r)}

Covered ==
    SingleWriter => \A a \in Animes : index[a] < version[a] => \E r \in FreshRows(a) : TRUE

NewerWaits ==
    SingleWriter => \A c \in Consumers :
        pc[c] \in {"write", "ack"} /\ doc[c] < version[cur[c]] =>
            \E r \in FreshRows(cur[c]) : r # msg[c][1]

IInv ==
    /\ TypeOK /\ RowsOK /\ LocksOK /\ AttemptsOK /\ IndexersOK
    /\ Forward /\ Covered /\ NewerWaits

\* A deployment allows no more rows than MaxRows and does not change.
LEMMA SetupRows == CatalogTypes => setup.rows \in Nat /\ setup.rows <= MaxRows
  BY CatalogAssumption DEF CatalogAssumption, Deployments, CatalogTypes

\* InsertOutboxEvent runs only while there is room for a row.
LEMMA InsertBound == ASSUME CatalogTypes, NEW a, InsertOutboxEvent(a) PROVE rows < MaxRows
  BY SetupRows, CatalogAssumption DEF CatalogAssumption, CatalogTypes, InsertOutboxEvent

\* No action changes the deployment,
LEMMA SetupFixed == [Next]_vars => setup' = setup
  BY DEF Next, vars, UpsertJikanAnime, UpsertHiAnimeEpisodes, Flush, Select, PublishAsync, PublishError,
     Mark, MarkError, Land, Redeliver, Expire, LandDoc, Consume, Fetch, IndexStep, ReadAnime, WriteDoc,
     Ack, Reindex, ReindexAll, ReindexNext, IndexError, Crash

\* or how many write an anime at once.
LEMMA SingleWriterFixed == [Next]_vars => (SingleWriter' <=> SingleWriter)
  BY SetupFixed DEF SingleWriter

\* Nothing is written yet and everyone is idle.
LEMMA InitInv == Init => IInv
  BY CatalogAssumption DEF CatalogAssumption, Init, IInv, TypeOK, CatalogTypes, PublisherTypes,
     StreamTypes, IndexTypes, IndexerTypes, RowsOK, LocksOK, AttemptsOK,
     Waiting, IndexersOK, Forward, Covered, NewerWaits, Rows, Versions, Indexers

\* The rows of a batch are rows of the outbox that nobody has locked.
LEMMA BatchUnlocked ==
  ASSUME NEW p \in Publishers
  PROVE  /\ Oldest(Selectable(p)) \subseteq outbox
         /\ \A q \in Publishers : Oldest(Selectable(p)) \cap items[q] = {}
  BY DEF Oldest, Selectable

\* Tables and counters.
LEMMA CatalogTypesStep == IInv /\ [Next]_vars => CatalogTypes'
<1>0. SUFFICES ASSUME IInv, [Next]_vars PROVE CatalogTypes'
  OBVIOUS
<1> USE CatalogAssumption DEF CatalogAssumption, IInv, TypeOK, CatalogTypes,
        Rows, Versions, Indexers, Messages, catalogVars, publisherVars, streamVars, indexVars,
        indexerVars, Goto, Fault, At
<1>1. CASE UNCHANGED vars
  BY <1>0, <1>1 DEF vars
<1>2. ASSUME NEW a \in Animes, UpsertJikanAnime(a)
      PROVE  CatalogTypes'
  BY <1>0, <1>2, SetupRows DEF UpsertJikanAnime, InsertOutboxEvent
<1>3. ASSUME NEW a \in Animes, UpsertHiAnimeEpisodes(a)
      PROVE  CatalogTypes'
  BY <1>0, <1>3, SetupRows DEF UpsertHiAnimeEpisodes, InsertOutboxEvent
<1>4. ASSUME NEW p \in Publishers, Select(p)
      PROVE  CatalogTypes'
  BY <1>0, <1>4 DEF Select
<1>5. ASSUME NEW p \in Publishers, NEW r \in Rows, PublishAsync(p, r)
      PROVE  CatalogTypes'
  BY <1>0, <1>5 DEF PublishAsync, Store
<1>6. ASSUME NEW p \in Publishers, PublishError(p)
      PROVE  CatalogTypes'
  BY <1>0, <1>6 DEF PublishError, EndFlush
<1>7. ASSUME NEW p \in Publishers, Mark(p)
      PROVE  CatalogTypes'
  BY <1>0, <1>7 DEF Mark, MarkPublished, EndFlush
<1>8. ASSUME NEW p \in Publishers, MarkError(p)
      PROVE  CatalogTypes'
  BY <1>0, <1>8 DEF MarkError, MarkPublished, EndFlush
<1>9. ASSUME NEW r \in Rows, Land(r)
      PROVE  CatalogTypes'
  BY <1>0, <1>9 DEF Land, Store
<1>10. ASSUME NEW m \in stream, Redeliver(m)
      PROVE  CatalogTypes'
  BY <1>0, <1>10 DEF Redeliver
<1>11. ASSUME NEW m \in stream, Expire(m)
      PROVE  CatalogTypes'
  BY <1>0, <1>11 DEF Expire
<1>12. ASSUME NEW d \in lateDocs, LandDoc(d)
      PROVE  CatalogTypes'
  BY <1>0, <1>12 DEF LandDoc
<1>13. ASSUME NEW c \in Consumers, NEW m \in ready, Fetch(c, m)
      PROVE  CatalogTypes'
  BY <1>0, <1>13 DEF Fetch
<1>14. ASSUME NEW c \in Consumers, Ack(c)
      PROVE  CatalogTypes'
  BY <1>0, <1>14 DEF Ack, Idle
<1>15. ASSUME NEW i \in Reindexers, ReindexAll(i)
      PROVE  CatalogTypes'
  BY <1>0, <1>15 DEF ReindexAll
<1>16. ASSUME NEW i \in Reindexers, ReindexNext(i)
      PROVE  CatalogTypes'
  BY <1>0, <1>16 DEF ReindexNext, Idle
<1>17. ASSUME NEW i \in Indexers, ReadAnime(i)
      PROVE  CatalogTypes'
  BY <1>0, <1>17 DEF ReadAnime
<1>18. ASSUME NEW i \in Indexers, WriteDoc(i)
      PROVE  CatalogTypes'
  BY <1>0, <1>18 DEF WriteDoc, AddDocuments
<1>19. ASSUME NEW i \in Indexers, IndexError(i)
      PROVE  CatalogTypes'
  BY <1>0, <1>19 DEF IndexError, Nak, AddDocumentsError, AddDocuments, Idle
<1>20. ASSUME NEW i \in Indexers, Crash(i)
      PROVE  CatalogTypes'
  BY <1>0, <1>20 DEF Crash, AddDocumentsError, AddDocuments, Idle
<1>21. QED
  BY <1>0, <1>1, <1>2, <1>3, <1>4, <1>5, <1>6, <1>7, <1>8, <1>9, <1>10,
     <1>11, <1>12, <1>13, <1>14, <1>15, <1>16, <1>17, <1>18, <1>19, <1>20
     DEF Next, Flush, Consume, Reindex, IndexStep

\* Publishers lock and send rows of the outbox.
LEMMA PublisherTypesStep == IInv /\ [Next]_vars => PublisherTypes'
<1>0. SUFFICES ASSUME IInv, [Next]_vars PROVE PublisherTypes'
  OBVIOUS
<1> USE CatalogAssumption DEF CatalogAssumption, IInv, TypeOK, CatalogTypes, PublisherTypes,
        Rows, Versions, Indexers, Messages, catalogVars, publisherVars, streamVars, indexVars,
        indexerVars, Goto, Fault, At
<1>1. CASE UNCHANGED vars
  BY <1>0, <1>1 DEF vars
<1>2. ASSUME NEW a \in Animes, UpsertJikanAnime(a)
      PROVE  PublisherTypes'
  <2>1. rows < setup.rows /\ outbox' = outbox \cup {rows + 1}
    BY <1>2 DEF UpsertJikanAnime, InsertOutboxEvent
  <2>2. rows + 1 \in Rows
    BY <1>0, <2>1, SetupRows
  <2>3. QED
    BY <1>0, <1>2, <2>1, <2>2 DEF UpsertJikanAnime
<1>3. ASSUME NEW a \in Animes, UpsertHiAnimeEpisodes(a)
      PROVE  PublisherTypes'
  <2>1. rows < setup.rows /\ outbox' = outbox \cup {rows + 1}
    BY <1>3 DEF UpsertHiAnimeEpisodes, InsertOutboxEvent
  <2>2. rows + 1 \in Rows
    BY <1>0, <2>1, SetupRows
  <2>3. QED
    BY <1>0, <1>3, <2>1, <2>2 DEF UpsertHiAnimeEpisodes
<1>4. ASSUME NEW p \in Publishers, Select(p)
      PROVE  PublisherTypes'
  BY <1>0, <1>4, BatchUnlocked DEF Select
<1>5. ASSUME NEW p \in Publishers, NEW r \in Rows, PublishAsync(p, r)
      PROVE  PublisherTypes'
  BY <1>0, <1>5 DEF PublishAsync, Store
<1>6. ASSUME NEW p \in Publishers, PublishError(p)
      PROVE  PublisherTypes'
  BY <1>0, <1>6 DEF PublishError, EndFlush
<1>7. ASSUME NEW p \in Publishers, Mark(p)
      PROVE  PublisherTypes'
  BY <1>0, <1>7 DEF Mark, MarkPublished, EndFlush
<1>8. ASSUME NEW p \in Publishers, MarkError(p)
      PROVE  PublisherTypes'
  BY <1>0, <1>8 DEF MarkError, MarkPublished, EndFlush
<1>9. ASSUME NEW r \in Rows, Land(r)
      PROVE  PublisherTypes'
  BY <1>0, <1>9 DEF Land, Store
<1>10. ASSUME NEW m \in stream, Redeliver(m)
      PROVE  PublisherTypes'
  BY <1>0, <1>10 DEF Redeliver
<1>11. ASSUME NEW m \in stream, Expire(m)
      PROVE  PublisherTypes'
  BY <1>0, <1>11 DEF Expire
<1>12. ASSUME NEW d \in lateDocs, LandDoc(d)
      PROVE  PublisherTypes'
  BY <1>0, <1>12 DEF LandDoc
<1>13. ASSUME NEW c \in Consumers, NEW m \in ready, Fetch(c, m)
      PROVE  PublisherTypes'
  BY <1>0, <1>13 DEF Fetch
<1>14. ASSUME NEW c \in Consumers, Ack(c)
      PROVE  PublisherTypes'
  BY <1>0, <1>14 DEF Ack, Idle
<1>15. ASSUME NEW i \in Reindexers, ReindexAll(i)
      PROVE  PublisherTypes'
  BY <1>0, <1>15 DEF ReindexAll
<1>16. ASSUME NEW i \in Reindexers, ReindexNext(i)
      PROVE  PublisherTypes'
  BY <1>0, <1>16 DEF ReindexNext, Idle
<1>17. ASSUME NEW i \in Indexers, ReadAnime(i)
      PROVE  PublisherTypes'
  BY <1>0, <1>17 DEF ReadAnime
<1>18. ASSUME NEW i \in Indexers, WriteDoc(i)
      PROVE  PublisherTypes'
  BY <1>0, <1>18 DEF WriteDoc, AddDocuments
<1>19. ASSUME NEW i \in Indexers, IndexError(i)
      PROVE  PublisherTypes'
  BY <1>0, <1>19 DEF IndexError, Nak, AddDocumentsError, AddDocuments, Idle
<1>20. ASSUME NEW i \in Indexers, Crash(i)
      PROVE  PublisherTypes'
  BY <1>0, <1>20 DEF Crash, AddDocumentsError, AddDocuments, Idle
<1>21. QED
  BY <1>0, <1>1, <1>2, <1>3, <1>4, <1>5, <1>6, <1>7, <1>8, <1>9, <1>10,
     <1>11, <1>12, <1>13, <1>14, <1>15, <1>16, <1>17, <1>18, <1>19, <1>20
     DEF Next, Flush, Consume, Reindex, IndexStep

\* Messages are made of rows.
LEMMA StreamTypesStep == IInv /\ [Next]_vars => StreamTypes'
<1>0. SUFFICES ASSUME IInv, [Next]_vars PROVE StreamTypes'
  OBVIOUS
<1> USE CatalogAssumption DEF CatalogAssumption, IInv, TypeOK, CatalogTypes, PublisherTypes, StreamTypes,
        Rows, Versions, Indexers, Messages, catalogVars, publisherVars, streamVars, indexVars,
        indexerVars, Goto, Fault, At
<1>1. CASE UNCHANGED vars
  BY <1>0, <1>1 DEF vars
<1>2. ASSUME NEW a \in Animes, UpsertJikanAnime(a)
      PROVE  StreamTypes'
  BY <1>0, <1>2, SetupRows DEF UpsertJikanAnime, InsertOutboxEvent
<1>3. ASSUME NEW a \in Animes, UpsertHiAnimeEpisodes(a)
      PROVE  StreamTypes'
  BY <1>0, <1>3, SetupRows DEF UpsertHiAnimeEpisodes, InsertOutboxEvent
<1>4. ASSUME NEW p \in Publishers, Select(p)
      PROVE  StreamTypes'
  BY <1>0, <1>4 DEF Select
<1>5. ASSUME NEW p \in Publishers, NEW r \in Rows, PublishAsync(p, r)
      PROVE  StreamTypes'
  BY <1>0, <1>5 DEF PublishAsync, Store
<1>6. ASSUME NEW p \in Publishers, PublishError(p)
      PROVE  StreamTypes'
  BY <1>0, <1>6 DEF PublishError, EndFlush
<1>7. ASSUME NEW p \in Publishers, Mark(p)
      PROVE  StreamTypes'
  BY <1>0, <1>7 DEF Mark, MarkPublished, EndFlush
<1>8. ASSUME NEW p \in Publishers, MarkError(p)
      PROVE  StreamTypes'
  BY <1>0, <1>8 DEF MarkError, MarkPublished, EndFlush
<1>9. ASSUME NEW r \in Rows, Land(r)
      PROVE  StreamTypes'
  BY <1>0, <1>9 DEF Land, Store
<1>10. ASSUME NEW m \in stream, Redeliver(m)
      PROVE  StreamTypes'
  BY <1>0, <1>10 DEF Redeliver
<1>11. ASSUME NEW m \in stream, Expire(m)
      PROVE  StreamTypes'
  BY <1>0, <1>11 DEF Expire
<1>12. ASSUME NEW d \in lateDocs, LandDoc(d)
      PROVE  StreamTypes'
  BY <1>0, <1>12 DEF LandDoc
<1>13. ASSUME NEW c \in Consumers, NEW m \in ready, Fetch(c, m)
      PROVE  StreamTypes'
  BY <1>0, <1>13 DEF Fetch
<1>14. ASSUME NEW c \in Consumers, Ack(c)
      PROVE  StreamTypes'
  BY <1>0, <1>14 DEF Ack, Idle
<1>15. ASSUME NEW i \in Reindexers, ReindexAll(i)
      PROVE  StreamTypes'
  BY <1>0, <1>15 DEF ReindexAll
<1>16. ASSUME NEW i \in Reindexers, ReindexNext(i)
      PROVE  StreamTypes'
  BY <1>0, <1>16 DEF ReindexNext, Idle
<1>17. ASSUME NEW i \in Indexers, ReadAnime(i)
      PROVE  StreamTypes'
  BY <1>0, <1>17 DEF ReadAnime
<1>18. ASSUME NEW i \in Indexers, WriteDoc(i)
      PROVE  StreamTypes'
  BY <1>0, <1>18 DEF WriteDoc, AddDocuments
<1>19. ASSUME NEW i \in Indexers, IndexError(i)
      PROVE  StreamTypes'
  BY <1>0, <1>19 DEF IndexError, Nak, AddDocumentsError, AddDocuments, Idle
<1>20. ASSUME NEW i \in Indexers, Crash(i)
      PROVE  StreamTypes'
  BY <1>0, <1>20 DEF Crash, AddDocumentsError, AddDocuments, Idle
<1>21. QED
  BY <1>0, <1>1, <1>2, <1>3, <1>4, <1>5, <1>6, <1>7, <1>8, <1>9, <1>10,
     <1>11, <1>12, <1>13, <1>14, <1>15, <1>16, <1>17, <1>18, <1>19, <1>20
     DEF Next, Flush, Consume, Reindex, IndexStep

\* Documents are versions of rows.
LEMMA IndexTypesStep == IInv /\ [Next]_vars => IndexTypes'
<1>0. SUFFICES ASSUME IInv, [Next]_vars PROVE IndexTypes'
  OBVIOUS
<1> USE CatalogAssumption DEF CatalogAssumption, IInv, TypeOK, CatalogTypes, IndexTypes, IndexerTypes, IndexersOK,
        Rows, Versions, Indexers, Messages, catalogVars, publisherVars, streamVars, indexVars,
        indexerVars, Goto, Fault, At
<1>1. CASE UNCHANGED vars
  BY <1>0, <1>1 DEF vars
<1>2. ASSUME NEW a \in Animes, UpsertJikanAnime(a)
      PROVE  IndexTypes'
  BY <1>0, <1>2, SetupRows DEF UpsertJikanAnime, InsertOutboxEvent
<1>3. ASSUME NEW a \in Animes, UpsertHiAnimeEpisodes(a)
      PROVE  IndexTypes'
  BY <1>0, <1>3, SetupRows DEF UpsertHiAnimeEpisodes, InsertOutboxEvent
<1>4. ASSUME NEW p \in Publishers, Select(p)
      PROVE  IndexTypes'
  BY <1>0, <1>4 DEF Select
<1>5. ASSUME NEW p \in Publishers, NEW r \in Rows, PublishAsync(p, r)
      PROVE  IndexTypes'
  BY <1>0, <1>5 DEF PublishAsync, Store
<1>6. ASSUME NEW p \in Publishers, PublishError(p)
      PROVE  IndexTypes'
  BY <1>0, <1>6 DEF PublishError, EndFlush
<1>7. ASSUME NEW p \in Publishers, Mark(p)
      PROVE  IndexTypes'
  BY <1>0, <1>7 DEF Mark, MarkPublished, EndFlush
<1>8. ASSUME NEW p \in Publishers, MarkError(p)
      PROVE  IndexTypes'
  BY <1>0, <1>8 DEF MarkError, MarkPublished, EndFlush
<1>9. ASSUME NEW r \in Rows, Land(r)
      PROVE  IndexTypes'
  BY <1>0, <1>9 DEF Land, Store
<1>10. ASSUME NEW m \in stream, Redeliver(m)
      PROVE  IndexTypes'
  BY <1>0, <1>10 DEF Redeliver
<1>11. ASSUME NEW m \in stream, Expire(m)
      PROVE  IndexTypes'
  BY <1>0, <1>11 DEF Expire
<1>12. ASSUME NEW d \in lateDocs, LandDoc(d)
      PROVE  IndexTypes'
  BY <1>0, <1>12 DEF LandDoc
<1>13. ASSUME NEW c \in Consumers, NEW m \in ready, Fetch(c, m)
      PROVE  IndexTypes'
  BY <1>0, <1>13 DEF Fetch
<1>14. ASSUME NEW c \in Consumers, Ack(c)
      PROVE  IndexTypes'
  BY <1>0, <1>14 DEF Ack, Idle
<1>15. ASSUME NEW i \in Reindexers, ReindexAll(i)
      PROVE  IndexTypes'
  BY <1>0, <1>15 DEF ReindexAll
<1>16. ASSUME NEW i \in Reindexers, ReindexNext(i)
      PROVE  IndexTypes'
  BY <1>0, <1>16 DEF ReindexNext, Idle
<1>17. ASSUME NEW i \in Indexers, ReadAnime(i)
      PROVE  IndexTypes'
  BY <1>0, <1>17 DEF ReadAnime
<1>18. ASSUME NEW i \in Indexers, WriteDoc(i)
      PROVE  IndexTypes'
  BY <1>0, <1>18 DEF WriteDoc, AddDocuments
<1>19. ASSUME NEW i \in Indexers, IndexError(i)
      PROVE  IndexTypes'
  <2>1. CASE pc[i] = "write"
    <3>1. /\ index' \in {index, [index EXCEPT ![cur[i]] = doc[i]]}
          /\ lateDocs' \in {lateDocs, lateDocs \cup {<<cur[i], doc[i]>>}}
      BY <1>19, <2>1 DEF IndexError, AddDocumentsError, AddDocuments
    <3>2. cur[i] \in Animes /\ doc[i] \in Versions /\ doc[i] <= version[cur[i]]
      BY <1>0, <2>1
    <3>3. index' \in [Animes -> Versions]
      BY <1>0, <3>1, <3>2
    <3>4. <<cur[i], doc[i]>> \in Animes \X Versions
      BY <3>2
    <3>5. lateDocs' \subseteq Animes \X Versions
      BY <1>0, <3>1, <3>4
    <3>6. QED
      BY <3>3, <3>5
  <2>2. CASE pc[i] # "write"
    BY <1>0, <1>19, <2>2 DEF IndexError, Nak, Idle
  <2>3. QED
    BY <2>1, <2>2
<1>20. ASSUME NEW i \in Indexers, Crash(i)
      PROVE  IndexTypes'
  <2>1. CASE pc[i] = "write"
    <3>1. /\ index' \in {index, [index EXCEPT ![cur[i]] = doc[i]]}
          /\ lateDocs' \in {lateDocs, lateDocs \cup {<<cur[i], doc[i]>>}}
      BY <1>20, <2>1 DEF Crash, AddDocumentsError, AddDocuments
    <3>2. cur[i] \in Animes /\ doc[i] \in Versions /\ doc[i] <= version[cur[i]]
      BY <1>0, <2>1
    <3>3. index' \in [Animes -> Versions]
      BY <1>0, <3>1, <3>2
    <3>4. <<cur[i], doc[i]>> \in Animes \X Versions
      BY <3>2
    <3>5. lateDocs' \subseteq Animes \X Versions
      BY <1>0, <3>1, <3>4
    <3>6. QED
      BY <3>3, <3>5
  <2>2. CASE pc[i] # "write"
    BY <1>0, <1>20, <2>2 DEF Crash, Idle
  <2>3. QED
    BY <2>1, <2>2
<1>21. QED
  BY <1>0, <1>1, <1>2, <1>3, <1>4, <1>5, <1>6, <1>7, <1>8, <1>9, <1>10,
     <1>11, <1>12, <1>13, <1>14, <1>15, <1>16, <1>17, <1>18, <1>19, <1>20
     DEF Next, Flush, Consume, Reindex, IndexStep

\* Locals of the indexers.
LEMMA IndexerTypesStep == IInv /\ [Next]_vars => IndexerTypes'
<1>0. SUFFICES ASSUME IInv, [Next]_vars PROVE IndexerTypes'
  OBVIOUS
<1> USE CatalogAssumption DEF CatalogAssumption, IInv, TypeOK, CatalogTypes, StreamTypes, IndexerTypes, IndexersOK,
        Rows, Versions, Indexers, Messages, catalogVars, publisherVars, streamVars, indexVars,
        indexerVars, Goto, Fault, At
<1>1. CASE UNCHANGED vars
  BY <1>0, <1>1 DEF vars
<1>2. ASSUME NEW a \in Animes, UpsertJikanAnime(a)
      PROVE  IndexerTypes'
  BY <1>0, <1>2, SetupRows DEF UpsertJikanAnime, InsertOutboxEvent
<1>3. ASSUME NEW a \in Animes, UpsertHiAnimeEpisodes(a)
      PROVE  IndexerTypes'
  BY <1>0, <1>3, SetupRows DEF UpsertHiAnimeEpisodes, InsertOutboxEvent
<1>4. ASSUME NEW p \in Publishers, Select(p)
      PROVE  IndexerTypes'
  BY <1>0, <1>4 DEF Select
<1>5. ASSUME NEW p \in Publishers, NEW r \in Rows, PublishAsync(p, r)
      PROVE  IndexerTypes'
  BY <1>0, <1>5 DEF PublishAsync, Store
<1>6. ASSUME NEW p \in Publishers, PublishError(p)
      PROVE  IndexerTypes'
  BY <1>0, <1>6 DEF PublishError, EndFlush
<1>7. ASSUME NEW p \in Publishers, Mark(p)
      PROVE  IndexerTypes'
  BY <1>0, <1>7 DEF Mark, MarkPublished, EndFlush
<1>8. ASSUME NEW p \in Publishers, MarkError(p)
      PROVE  IndexerTypes'
  BY <1>0, <1>8 DEF MarkError, MarkPublished, EndFlush
<1>9. ASSUME NEW r \in Rows, Land(r)
      PROVE  IndexerTypes'
  BY <1>0, <1>9 DEF Land, Store
<1>10. ASSUME NEW m \in stream, Redeliver(m)
      PROVE  IndexerTypes'
  BY <1>0, <1>10 DEF Redeliver
<1>11. ASSUME NEW m \in stream, Expire(m)
      PROVE  IndexerTypes'
  BY <1>0, <1>11 DEF Expire
<1>12. ASSUME NEW d \in lateDocs, LandDoc(d)
      PROVE  IndexerTypes'
  BY <1>0, <1>12 DEF LandDoc
<1>13. ASSUME NEW c \in Consumers, NEW m \in ready, Fetch(c, m)
      PROVE  IndexerTypes'
  BY <1>0, <1>13 DEF Fetch
<1>14. ASSUME NEW c \in Consumers, Ack(c)
      PROVE  IndexerTypes'
  BY <1>0, <1>14 DEF Ack, Idle
<1>15. ASSUME NEW i \in Reindexers, ReindexAll(i)
      PROVE  IndexerTypes'
  BY <1>0, <1>15 DEF ReindexAll
<1>16. ASSUME NEW i \in Reindexers, ReindexNext(i)
      PROVE  IndexerTypes'
  <2>1. CASE todo[i] = {} /\ Idle(i)
    BY <1>0, <1>16, <2>1 DEF ReindexNext, Idle
  <2>2. CASE \E a \in todo[i] : At(i, "read", None, todo[i] \ {a}, a, 0)
    <3>1. PICK a \in todo[i] : At(i, "read", None, todo[i] \ {a}, a, 0)
      BY <2>2
    <3>2. a \in Animes
      BY <1>0, <3>1
    <3>3. QED
      BY <1>0, <1>16, <3>1, <3>2 DEF ReindexNext
  <2>3. QED
    BY <1>16, <2>1, <2>2 DEF ReindexNext
<1>17. ASSUME NEW i \in Indexers, ReadAnime(i)
      PROVE  IndexerTypes'
  BY <1>0, <1>17 DEF ReadAnime
<1>18. ASSUME NEW i \in Indexers, WriteDoc(i)
      PROVE  IndexerTypes'
  BY <1>0, <1>18 DEF WriteDoc, AddDocuments
<1>19. ASSUME NEW i \in Indexers, IndexError(i)
      PROVE  IndexerTypes'
  BY <1>0, <1>19 DEF IndexError, Nak, AddDocumentsError, AddDocuments, Idle
<1>20. ASSUME NEW i \in Indexers, Crash(i)
      PROVE  IndexerTypes'
  BY <1>0, <1>20 DEF Crash, AddDocumentsError, AddDocuments, Idle
<1>21. QED
  BY <1>0, <1>1, <1>2, <1>3, <1>4, <1>5, <1>6, <1>7, <1>8, <1>9, <1>10,
     <1>11, <1>12, <1>13, <1>14, <1>15, <1>16, <1>17, <1>18, <1>19, <1>20
     DEF Next, Flush, Consume, Reindex, IndexStep

\* Rows and messages.
LEMMA RowsStep == IInv /\ [Next]_vars => RowsOK'
<1>0. SUFFICES ASSUME IInv, [Next]_vars PROVE RowsOK'
  OBVIOUS
<1> USE CatalogAssumption DEF CatalogAssumption, IInv, TypeOK, CatalogTypes, PublisherTypes, StreamTypes, RowsOK, LocksOK,
        Rows, Versions, Indexers, Messages, catalogVars, publisherVars, streamVars, indexVars,
        indexerVars, Goto, Fault, At
<1>1. CASE UNCHANGED vars
  BY <1>0, <1>1 DEF vars
<1>2. ASSUME NEW a \in Animes, UpsertJikanAnime(a)
      PROVE  RowsOK'
  BY <1>0, <1>2, SetupRows DEF UpsertJikanAnime, InsertOutboxEvent
<1>3. ASSUME NEW a \in Animes, UpsertHiAnimeEpisodes(a)
      PROVE  RowsOK'
  BY <1>0, <1>3, SetupRows DEF UpsertHiAnimeEpisodes, InsertOutboxEvent
<1>4. ASSUME NEW p \in Publishers, Select(p)
      PROVE  RowsOK'
  BY <1>0, <1>4, BatchUnlocked DEF Select
<1>5. ASSUME NEW p \in Publishers, NEW r \in Rows, PublishAsync(p, r)
      PROVE  RowsOK'
  <2>1. r <= rows
    BY <1>0, <1>5 DEF PublishAsync
  <2>2. \A m \in stream' : m \in stream \/ m[1] = r
    BY <1>5 DEF PublishAsync, Store
  <2>3. \A q \in Rows : q > rows => publishes'[q] = publishes[q]
    BY <1>0, <1>5, <2>1 DEF PublishAsync, Store
  <2>4. UNCHANGED <<rows, rowAnime, outbox, late>>
    BY <1>5 DEF PublishAsync
  <2>5. QED
    BY <1>0, <2>1, <2>2, <2>3, <2>4
<1>6. ASSUME NEW p \in Publishers, PublishError(p)
      PROVE  RowsOK'
  BY <1>0, <1>6 DEF PublishError, EndFlush
<1>7. ASSUME NEW p \in Publishers, Mark(p)
      PROVE  RowsOK'
  BY <1>0, <1>7 DEF Mark, MarkPublished, EndFlush
<1>8. ASSUME NEW p \in Publishers, MarkError(p)
      PROVE  RowsOK'
  BY <1>0, <1>8 DEF MarkError, MarkPublished, EndFlush
<1>9. ASSUME NEW r \in Rows, Land(r)
      PROVE  RowsOK'
  <2>1. late[r] > 0
    BY <1>9 DEF Land
  <2>2. r <= rows
    BY <1>0, <2>1
  <2>3. \A m \in stream' : m \in stream \/ m[1] = r
    BY <1>9 DEF Land, Store
  <2>4. \A q \in Rows : q > rows => publishes'[q] = publishes[q] /\ late'[q] = late[q]
    BY <1>0, <1>9, <2>2 DEF Land, Store
  <2>5. UNCHANGED <<rows, rowAnime, outbox>>
    BY <1>9 DEF Land
  <2>6. QED
    BY <1>0, <2>2, <2>3, <2>4, <2>5
<1>10. ASSUME NEW m \in stream, Redeliver(m)
      PROVE  RowsOK'
  BY <1>0, <1>10 DEF Redeliver
<1>11. ASSUME NEW m \in stream, Expire(m)
      PROVE  RowsOK'
  BY <1>0, <1>11 DEF Expire
<1>12. ASSUME NEW d \in lateDocs, LandDoc(d)
      PROVE  RowsOK'
  BY <1>0, <1>12 DEF LandDoc
<1>13. ASSUME NEW c \in Consumers, NEW m \in ready, Fetch(c, m)
      PROVE  RowsOK'
  BY <1>0, <1>13 DEF Fetch
<1>14. ASSUME NEW c \in Consumers, Ack(c)
      PROVE  RowsOK'
  BY <1>0, <1>14 DEF Ack, Idle
<1>15. ASSUME NEW i \in Reindexers, ReindexAll(i)
      PROVE  RowsOK'
  BY <1>0, <1>15 DEF ReindexAll
<1>16. ASSUME NEW i \in Reindexers, ReindexNext(i)
      PROVE  RowsOK'
  BY <1>0, <1>16 DEF ReindexNext, Idle
<1>17. ASSUME NEW i \in Indexers, ReadAnime(i)
      PROVE  RowsOK'
  BY <1>0, <1>17 DEF ReadAnime
<1>18. ASSUME NEW i \in Indexers, WriteDoc(i)
      PROVE  RowsOK'
  BY <1>0, <1>18 DEF WriteDoc, AddDocuments
<1>19. ASSUME NEW i \in Indexers, IndexError(i)
      PROVE  RowsOK'
  BY <1>0, <1>19 DEF IndexError, Nak, AddDocumentsError, AddDocuments, Idle
<1>20. ASSUME NEW i \in Indexers, Crash(i)
      PROVE  RowsOK'
  BY <1>0, <1>20 DEF Crash, AddDocumentsError, AddDocuments, Idle
<1>21. QED
  BY <1>0, <1>1, <1>2, <1>3, <1>4, <1>5, <1>6, <1>7, <1>8, <1>9, <1>10,
     <1>11, <1>12, <1>13, <1>14, <1>15, <1>16, <1>17, <1>18, <1>19, <1>20
     DEF Next, Flush, Consume, Reindex, IndexStep

\* Locks of the publishers.
LEMMA LocksStep == IInv /\ [Next]_vars => LocksOK'
<1>0. SUFFICES ASSUME IInv, [Next]_vars PROVE LocksOK'
  OBVIOUS
<1> USE CatalogAssumption DEF CatalogAssumption, IInv, TypeOK, CatalogTypes, PublisherTypes, LocksOK, RowsOK,
        Rows, Versions, Indexers, Messages, catalogVars, publisherVars, streamVars, indexVars,
        indexerVars, Goto, Fault, At
<1>1. CASE UNCHANGED vars
  BY <1>0, <1>1 DEF vars
<1>2. ASSUME NEW a \in Animes, UpsertJikanAnime(a)
      PROVE  LocksOK'
  BY <1>0, <1>2, SetupRows DEF UpsertJikanAnime, InsertOutboxEvent
<1>3. ASSUME NEW a \in Animes, UpsertHiAnimeEpisodes(a)
      PROVE  LocksOK'
  BY <1>0, <1>3, SetupRows DEF UpsertHiAnimeEpisodes, InsertOutboxEvent
<1>4. ASSUME NEW p \in Publishers, Select(p)
      PROVE  LocksOK'
  BY <1>0, <1>4, BatchUnlocked DEF Select
<1>5. ASSUME NEW p \in Publishers, NEW r \in Rows, PublishAsync(p, r)
      PROVE  LocksOK'
  BY <1>0, <1>5 DEF PublishAsync, Store
<1>6. ASSUME NEW p \in Publishers, PublishError(p)
      PROVE  LocksOK'
  BY <1>0, <1>6 DEF PublishError, EndFlush
<1>7. ASSUME NEW p \in Publishers, Mark(p)
      PROVE  LocksOK'
  BY <1>0, <1>7 DEF Mark, MarkPublished, EndFlush
<1>8. ASSUME NEW p \in Publishers, MarkError(p)
      PROVE  LocksOK'
  BY <1>0, <1>8 DEF MarkError, MarkPublished, EndFlush
<1>9. ASSUME NEW r \in Rows, Land(r)
      PROVE  LocksOK'
  BY <1>0, <1>9 DEF Land, Store
<1>10. ASSUME NEW m \in stream, Redeliver(m)
      PROVE  LocksOK'
  BY <1>0, <1>10 DEF Redeliver
<1>11. ASSUME NEW m \in stream, Expire(m)
      PROVE  LocksOK'
  BY <1>0, <1>11 DEF Expire
<1>12. ASSUME NEW d \in lateDocs, LandDoc(d)
      PROVE  LocksOK'
  BY <1>0, <1>12 DEF LandDoc
<1>13. ASSUME NEW c \in Consumers, NEW m \in ready, Fetch(c, m)
      PROVE  LocksOK'
  BY <1>0, <1>13 DEF Fetch
<1>14. ASSUME NEW c \in Consumers, Ack(c)
      PROVE  LocksOK'
  BY <1>0, <1>14 DEF Ack, Idle
<1>15. ASSUME NEW i \in Reindexers, ReindexAll(i)
      PROVE  LocksOK'
  BY <1>0, <1>15 DEF ReindexAll
<1>16. ASSUME NEW i \in Reindexers, ReindexNext(i)
      PROVE  LocksOK'
  BY <1>0, <1>16 DEF ReindexNext, Idle
<1>17. ASSUME NEW i \in Indexers, ReadAnime(i)
      PROVE  LocksOK'
  BY <1>0, <1>17 DEF ReadAnime
<1>18. ASSUME NEW i \in Indexers, WriteDoc(i)
      PROVE  LocksOK'
  BY <1>0, <1>18 DEF WriteDoc, AddDocuments
<1>19. ASSUME NEW i \in Indexers, IndexError(i)
      PROVE  LocksOK'
  BY <1>0, <1>19 DEF IndexError, Nak, AddDocumentsError, AddDocuments, Idle
<1>20. ASSUME NEW i \in Indexers, Crash(i)
      PROVE  LocksOK'
  BY <1>0, <1>20 DEF Crash, AddDocumentsError, AddDocuments, Idle
<1>21. QED
  BY <1>0, <1>1, <1>2, <1>3, <1>4, <1>5, <1>6, <1>7, <1>8, <1>9, <1>10,
     <1>11, <1>12, <1>13, <1>14, <1>15, <1>16, <1>17, <1>18, <1>19, <1>20
     DEF Next, Flush, Consume, Reindex, IndexStep

\* One store per attempt.
LEMMA AttemptsStep == IInv /\ [Next]_vars => AttemptsOK'
<1>0. SUFFICES ASSUME IInv, [Next]_vars PROVE AttemptsOK'
  OBVIOUS
<1> USE CatalogAssumption DEF CatalogAssumption, IInv, TypeOK, CatalogTypes, PublisherTypes, StreamTypes, AttemptsOK, RowsOK, LocksOK,
        Rows, Versions, Indexers, Messages, catalogVars, publisherVars, streamVars, indexVars,
        indexerVars, Goto, Fault, At
<1>1. CASE UNCHANGED vars
  BY <1>0, <1>1 DEF vars, Waiting
<1>2. ASSUME NEW a \in Animes, UpsertJikanAnime(a)
      PROVE  AttemptsOK'
  <2>1. rows < setup.rows /\ outbox' = outbox \cup {rows + 1}
    BY <1>2 DEF UpsertJikanAnime, InsertOutboxEvent
  <2>2. UNCHANGED <<sent, publishes, late, faults>>
    BY <1>2 DEF UpsertJikanAnime
  <2>3. publishes[rows + 1] = 0 /\ late[rows + 1] = 0
    <3>1. rows \in Nat /\ rows + 1 \in Rows /\ ~(rows + 1 <= rows)
      BY <1>0, <2>1, SetupRows
    <3>2. QED
      BY <1>0, <3>1
  <2>4. \A r \in Rows : r # rows + 1 => (Waiting(r)' <=> Waiting(r))
    BY <2>1, <2>2 DEF Waiting
  <2>5. QED
    BY <1>0, <2>2, <2>3, <2>4
<1>3. ASSUME NEW a \in Animes, UpsertHiAnimeEpisodes(a)
      PROVE  AttemptsOK'
  <2>1. rows < setup.rows /\ outbox' = outbox \cup {rows + 1}
    BY <1>3 DEF UpsertHiAnimeEpisodes, InsertOutboxEvent
  <2>2. UNCHANGED <<sent, publishes, late, faults>>
    BY <1>3 DEF UpsertHiAnimeEpisodes
  <2>3. publishes[rows + 1] = 0 /\ late[rows + 1] = 0
    <3>1. rows \in Nat /\ rows + 1 \in Rows /\ ~(rows + 1 <= rows)
      BY <1>0, <2>1, SetupRows
    <3>2. QED
      BY <1>0, <3>1
  <2>4. \A r \in Rows : r # rows + 1 => (Waiting(r)' <=> Waiting(r))
    BY <2>1, <2>2 DEF Waiting
  <2>5. QED
    BY <1>0, <2>2, <2>3, <2>4
<1>4. ASSUME NEW p \in Publishers, Select(p)
      PROVE  AttemptsOK'
  BY <1>0, <1>4, BatchUnlocked DEF Select, Waiting
<1>5. ASSUME NEW p \in Publishers, NEW r \in Rows, PublishAsync(p, r)
      PROVE  AttemptsOK'
  <2>1. r \in items[p] \ sent[p]
    BY <1>5 DEF PublishAsync
  <2>2. Waiting(r)
    BY <1>0, <2>1 DEF Waiting
  <2>3. sent' = [sent EXCEPT ![p] = sent[p] \cup {r}] /\ outbox' = outbox /\ late' = late /\ faults' = faults
    BY <1>5 DEF PublishAsync
  <2>4. publishes' = [publishes EXCEPT ![r] = publishes[r] + 1]
    BY <1>5 DEF PublishAsync, Store
  <2>5. ~Waiting(r)' /\ \A q \in Rows \ {r} : Waiting(q)' <=> Waiting(q)
    <3>1. r \in sent'[p]
      BY <1>0, <2>3
    <3>2. \A q \in Rows \ {r}, k \in Publishers : q \in sent'[k] <=> q \in sent[k]
      BY <1>0, <2>3
    <3>3. QED
      BY <2>3, <3>1, <3>2 DEF Waiting
  <2>6. \A q \in Rows \ {r} : publishes'[q] = publishes[q] /\ late'[q] = late[q]
    BY <1>0, <2>3, <2>4
  <2>7. publishes'[r] + late'[r] <= 1 + faults
    BY <1>0, <2>2, <2>3, <2>4
  <2>8. QED
    BY <1>0, <2>3, <2>5, <2>6, <2>7
<1>6. ASSUME NEW p \in Publishers, PublishError(p)
      PROVE  AttemptsOK'
  <2>1. faults' = faults + 1 /\ publishes' = publishes
    BY <1>6 DEF PublishError
  <2>2. PICK L \in SUBSET (items[p] \ sent[p]) :
          late' = [r \in Rows |-> IF r \in L THEN late[r] + 1 ELSE late[r]]
    BY <1>6 DEF PublishError
  <2>3. \A r \in L : r \in Rows /\ Waiting(r)
    BY <1>0 DEF Waiting
  <2>4. \A r \in L : publishes'[r] + late'[r] <= faults'
    BY <1>0, <2>1, <2>2, <2>3
  <2>5. \A r \in Rows \ L : publishes'[r] + late'[r] <= faults'
    BY <1>0, <2>1, <2>2
  <2>6. \A r \in Rows : publishes'[r] \in Nat /\ late'[r] \in Nat /\ faults' \in Nat
    BY <1>0, <2>1, <2>2
  <2>7. QED
    BY <2>4, <2>5, <2>6
<1>7. ASSUME NEW p \in Publishers, Mark(p)
      PROVE  AttemptsOK'
  BY <1>0, <1>7 DEF Mark, MarkPublished, EndFlush, Waiting
<1>8. ASSUME NEW p \in Publishers, MarkError(p)
      PROVE  AttemptsOK'
  <2>1. UNCHANGED <<publishes, late>> /\ faults' = faults + 1
    BY <1>8 DEF MarkError
  <2>2. QED
    BY <1>0, <2>1
<1>9. ASSUME NEW r \in Rows, Land(r)
      PROVE  AttemptsOK'
  <2>1. UNCHANGED <<outbox, sent, faults>>
    BY <1>9 DEF Land
  <2>2. \A q \in Rows : Waiting(q)' <=> Waiting(q)
    BY <2>1 DEF Waiting
  <2>3. publishes' = [publishes EXCEPT ![r] = publishes[r] + 1] /\ late' = [late EXCEPT ![r] = late[r] - 1]
    BY <1>9 DEF Land, Store
  <2>4. \A q \in Rows : publishes'[q] + late'[q] = publishes[q] + late[q]
    BY <1>0, <2>3
  <2>5. QED
    BY <1>0, <2>1, <2>2, <2>4
<1>10. ASSUME NEW m \in stream, Redeliver(m)
      PROVE  AttemptsOK'
  BY <1>0, <1>10 DEF Redeliver, Waiting
<1>11. ASSUME NEW m \in stream, Expire(m)
      PROVE  AttemptsOK'
  BY <1>0, <1>11 DEF Expire, Waiting
<1>12. ASSUME NEW d \in lateDocs, LandDoc(d)
      PROVE  AttemptsOK'
  BY <1>0, <1>12 DEF LandDoc, Waiting
<1>13. ASSUME NEW c \in Consumers, NEW m \in ready, Fetch(c, m)
      PROVE  AttemptsOK'
  BY <1>0, <1>13 DEF Fetch, Waiting
<1>14. ASSUME NEW c \in Consumers, Ack(c)
      PROVE  AttemptsOK'
  BY <1>0, <1>14 DEF Ack, Idle, Waiting
<1>15. ASSUME NEW i \in Reindexers, ReindexAll(i)
      PROVE  AttemptsOK'
  BY <1>0, <1>15 DEF ReindexAll, Waiting
<1>16. ASSUME NEW i \in Reindexers, ReindexNext(i)
      PROVE  AttemptsOK'
  BY <1>0, <1>16 DEF ReindexNext, Idle, Waiting
<1>17. ASSUME NEW i \in Indexers, ReadAnime(i)
      PROVE  AttemptsOK'
  BY <1>0, <1>17 DEF ReadAnime, Waiting
<1>18. ASSUME NEW i \in Indexers, WriteDoc(i)
      PROVE  AttemptsOK'
  BY <1>0, <1>18 DEF WriteDoc, AddDocuments, Waiting
<1>19. ASSUME NEW i \in Indexers, IndexError(i)
      PROVE  AttemptsOK'
  <2>1. UNCHANGED <<publishes, late>> /\ faults' = faults + 1
    BY <1>19 DEF IndexError
  <2>2. QED
    BY <1>0, <2>1
<1>20. ASSUME NEW i \in Indexers, Crash(i)
      PROVE  AttemptsOK'
  <2>1. UNCHANGED <<publishes, late>> /\ faults' = faults + 1
    BY <1>20 DEF Crash
  <2>2. QED
    BY <1>0, <2>1
<1>21. QED
  BY <1>0, <1>1, <1>2, <1>3, <1>4, <1>5, <1>6, <1>7, <1>8, <1>9, <1>10,
     <1>11, <1>12, <1>13, <1>14, <1>15, <1>16, <1>17, <1>18, <1>19, <1>20
     DEF Next, Flush, Consume, Reindex, IndexStep

\* Documents come from rows.
LEMMA IndexersStep == IInv /\ [Next]_vars => IndexersOK'
<1>0. SUFFICES ASSUME IInv, [Next]_vars PROVE IndexersOK'
  OBVIOUS
<1> USE CatalogAssumption DEF CatalogAssumption, IInv, TypeOK, CatalogTypes, StreamTypes, IndexTypes, IndexerTypes, IndexersOK, RowsOK,
        Rows, Versions, Indexers, Messages, catalogVars, publisherVars, streamVars, indexVars,
        indexerVars, Goto, Fault, At
<1>1. CASE UNCHANGED vars
  BY <1>0, <1>1 DEF vars
<1>2. ASSUME NEW a \in Animes, UpsertJikanAnime(a)
      PROVE  IndexersOK'
  <2>1. rows' = rows + 1 /\ rowAnime' = [rowAnime EXCEPT ![rows + 1] = a] /\ rows < MaxRows
    BY <1>2, <1>0, InsertBound DEF UpsertJikanAnime, InsertOutboxEvent
  <2>2. UNCHANGED <<index, lateDocs, pc, msg, cur, doc>>
    BY <1>2 DEF UpsertJikanAnime
  <2>3. \A b \in Animes : version'[b] \in Nat /\ version[b] \in Nat /\ version[b] <= version'[b]
    BY <1>0, <1>2 DEF UpsertJikanAnime
  <2>4. \A r \in Rows : r <= rows => rowAnime'[r] = rowAnime[r]
    BY <1>0, <2>1
  <2>5. \A c \in Consumers : pc[c] # "idle" => rowAnime'[msg[c][1]] = rowAnime[msg[c][1]]
    BY <1>0, <2>4
  <2>6. \A i \in Indexers : pc[i] \in {"read", "write", "ack"} => doc[i] <= version'[cur[i]]
    BY <1>0, <2>3
  <2>7. \A d \in lateDocs : d[2] <= version'[d[1]]
    BY <1>0, <2>3
  <2>8. \A b \in Animes : index[b] <= version'[b]
    BY <1>0, <2>3
  <2>9. \A c \in Consumers : pc[c] # "idle" => msg[c][1] <= rows'
    BY <1>0, <2>1
  <2>10. QED
    BY <1>0, <2>2, <2>5, <2>6, <2>7, <2>8, <2>9
<1>3. ASSUME NEW a \in Animes, UpsertHiAnimeEpisodes(a)
      PROVE  IndexersOK'
  <2>1. rows' = rows + 1 /\ rowAnime' = [rowAnime EXCEPT ![rows + 1] = a] /\ rows < MaxRows
    BY <1>3, <1>0, InsertBound DEF UpsertHiAnimeEpisodes, InsertOutboxEvent
  <2>2. UNCHANGED <<index, lateDocs, pc, msg, cur, doc>>
    BY <1>3 DEF UpsertHiAnimeEpisodes
  <2>3. \A b \in Animes : version'[b] \in Nat /\ version[b] \in Nat /\ version[b] <= version'[b]
    BY <1>0, <1>3 DEF UpsertHiAnimeEpisodes
  <2>4. \A r \in Rows : r <= rows => rowAnime'[r] = rowAnime[r]
    BY <1>0, <2>1
  <2>5. \A c \in Consumers : pc[c] # "idle" => rowAnime'[msg[c][1]] = rowAnime[msg[c][1]]
    BY <1>0, <2>4
  <2>6. \A i \in Indexers : pc[i] \in {"read", "write", "ack"} => doc[i] <= version'[cur[i]]
    BY <1>0, <2>3
  <2>7. \A d \in lateDocs : d[2] <= version'[d[1]]
    BY <1>0, <2>3
  <2>8. \A b \in Animes : index[b] <= version'[b]
    BY <1>0, <2>3
  <2>9. \A c \in Consumers : pc[c] # "idle" => msg[c][1] <= rows'
    BY <1>0, <2>1
  <2>10. QED
    BY <1>0, <2>2, <2>5, <2>6, <2>7, <2>8, <2>9
<1>4. ASSUME NEW p \in Publishers, Select(p)
      PROVE  IndexersOK'
  BY <1>0, <1>4 DEF Select
<1>5. ASSUME NEW p \in Publishers, NEW r \in Rows, PublishAsync(p, r)
      PROVE  IndexersOK'
  BY <1>0, <1>5 DEF PublishAsync, Store
<1>6. ASSUME NEW p \in Publishers, PublishError(p)
      PROVE  IndexersOK'
  BY <1>0, <1>6 DEF PublishError, EndFlush
<1>7. ASSUME NEW p \in Publishers, Mark(p)
      PROVE  IndexersOK'
  BY <1>0, <1>7 DEF Mark, MarkPublished, EndFlush
<1>8. ASSUME NEW p \in Publishers, MarkError(p)
      PROVE  IndexersOK'
  BY <1>0, <1>8 DEF MarkError, MarkPublished, EndFlush
<1>9. ASSUME NEW r \in Rows, Land(r)
      PROVE  IndexersOK'
  BY <1>0, <1>9 DEF Land, Store
<1>10. ASSUME NEW m \in stream, Redeliver(m)
      PROVE  IndexersOK'
  BY <1>0, <1>10 DEF Redeliver
<1>11. ASSUME NEW m \in stream, Expire(m)
      PROVE  IndexersOK'
  BY <1>0, <1>11 DEF Expire
<1>12. ASSUME NEW d \in lateDocs, LandDoc(d)
      PROVE  IndexersOK'
  BY <1>0, <1>12 DEF LandDoc
<1>13. ASSUME NEW c \in Consumers, NEW m \in ready, Fetch(c, m)
      PROVE  IndexersOK'
  <2>1. m \in stream /\ m \in Messages
    BY <1>0
  <2>2. m[1] <= rows /\ m[1] \in 1 .. rows
    BY <1>0, <2>1
  <2>3. rowAnime[m[1]] \in Animes
    BY <1>0, <2>2
  <2>4. 0 <= version[rowAnime[m[1]]]
    BY <1>0, <2>3
  <2>5. /\ pc' = [pc EXCEPT ![c] = "read"] /\ msg' = [msg EXCEPT ![c] = m]
        /\ cur' = [cur EXCEPT ![c] = rowAnime[m[1]]] /\ doc' = [doc EXCEPT ![c] = 0]
        /\ UNCHANGED <<version, rows, rowAnime, index, lateDocs>>
    BY <1>13 DEF Fetch
  <2>6. QED
    BY <1>0, <2>1, <2>2, <2>3, <2>4, <2>5
<1>14. ASSUME NEW c \in Consumers, Ack(c)
      PROVE  IndexersOK'
  BY <1>0, <1>14 DEF Ack, Idle
<1>15. ASSUME NEW i \in Reindexers, ReindexAll(i)
      PROVE  IndexersOK'
  BY <1>0, <1>15 DEF ReindexAll
<1>16. ASSUME NEW i \in Reindexers, ReindexNext(i)
      PROVE  IndexersOK'
  <2>1. CASE todo[i] = {} /\ Idle(i)
    BY <1>0, <1>16, <2>1 DEF ReindexNext, Idle
  <2>2. CASE \E a \in todo[i] : At(i, "read", None, todo[i] \ {a}, a, 0)
    <3>1. PICK a \in todo[i] : At(i, "read", None, todo[i] \ {a}, a, 0)
      BY <2>2
    <3>2. a \in Animes
      BY <1>0, <3>1
    <3>3. QED
      BY <1>0, <1>16, <3>1, <3>2 DEF ReindexNext
  <2>3. QED
    BY <1>16, <2>1, <2>2 DEF ReindexNext
<1>17. ASSUME NEW i \in Indexers, ReadAnime(i)
      PROVE  IndexersOK'
  BY <1>0, <1>17 DEF ReadAnime
<1>18. ASSUME NEW i \in Indexers, WriteDoc(i)
      PROVE  IndexersOK'
  BY <1>0, <1>18 DEF WriteDoc, AddDocuments
<1>19. ASSUME NEW i \in Indexers, IndexError(i)
      PROVE  IndexersOK'
  <2>1. CASE pc[i] = "write"
    <3>1. /\ index' \in {index, [index EXCEPT ![cur[i]] = doc[i]]}
          /\ lateDocs' \in {lateDocs, lateDocs \cup {<<cur[i], doc[i]>>}}
      BY <1>19, <2>1 DEF IndexError, AddDocumentsError, AddDocuments
    <3>2. cur[i] \in Animes /\ doc[i] \in Versions /\ doc[i] <= version[cur[i]]
      BY <1>0, <2>1
    <3>3. \A a \in Animes : index'[a] <= version[a]
      BY <1>0, <3>1, <3>2
    <3>4. \A d \in lateDocs' : d[2] <= version[d[1]]
      BY <1>0, <3>1, <3>2
    <3>5. UNCHANGED <<version, rows, rowAnime>>
      BY <1>19 DEF IndexError
    <3>6. QED
      BY <1>0, <1>19, <3>3, <3>4, <3>5 DEF IndexError, Idle
  <2>2. CASE pc[i] # "write"
    BY <1>0, <1>19, <2>2 DEF IndexError, Nak, Idle
  <2>3. QED
    BY <2>1, <2>2
<1>20. ASSUME NEW i \in Indexers, Crash(i)
      PROVE  IndexersOK'
  <2>1. CASE pc[i] = "write"
    <3>1. /\ index' \in {index, [index EXCEPT ![cur[i]] = doc[i]]}
          /\ lateDocs' \in {lateDocs, lateDocs \cup {<<cur[i], doc[i]>>}}
      BY <1>20, <2>1 DEF Crash, AddDocumentsError, AddDocuments
    <3>2. cur[i] \in Animes /\ doc[i] \in Versions /\ doc[i] <= version[cur[i]]
      BY <1>0, <2>1
    <3>3. \A a \in Animes : index'[a] <= version[a]
      BY <1>0, <3>1, <3>2
    <3>4. \A d \in lateDocs' : d[2] <= version[d[1]]
      BY <1>0, <3>1, <3>2
    <3>5. UNCHANGED <<version, rows, rowAnime>>
      BY <1>20 DEF Crash
    <3>6. QED
      BY <1>0, <1>20, <3>3, <3>4, <3>5 DEF Crash, Idle
  <2>2. CASE pc[i] # "write"
    BY <1>0, <1>20, <2>2 DEF Crash, Idle
  <2>3. QED
    BY <2>1, <2>2
<1>21. QED
  BY <1>0, <1>1, <1>2, <1>3, <1>4, <1>5, <1>6, <1>7, <1>8, <1>9, <1>10,
     <1>11, <1>12, <1>13, <1>14, <1>15, <1>16, <1>17, <1>18, <1>19, <1>20
     DEF Next, Flush, Consume, Reindex, IndexStep

\* A single writer never holds a document older than the index.
LEMMA ForwardStep == IInv /\ [Next]_vars => Forward'
<1>0. SUFFICES ASSUME IInv, [Next]_vars PROVE Forward'
  OBVIOUS
<1> USE CatalogAssumption DEF CatalogAssumption, IInv, TypeOK, CatalogTypes, IndexTypes, IndexerTypes, Forward, SingleWriter, IndexersOK,
        Rows, Versions, Indexers, Messages, catalogVars, publisherVars, streamVars, indexVars,
        indexerVars, Goto, Fault, At
<1>1. CASE UNCHANGED vars
  BY <1>0, <1>1 DEF vars
<1>2. ASSUME NEW a \in Animes, UpsertJikanAnime(a)
      PROVE  Forward'
  BY <1>0, <1>2, SetupRows DEF UpsertJikanAnime, InsertOutboxEvent
<1>3. ASSUME NEW a \in Animes, UpsertHiAnimeEpisodes(a)
      PROVE  Forward'
  BY <1>0, <1>3, SetupRows DEF UpsertHiAnimeEpisodes, InsertOutboxEvent
<1>4. ASSUME NEW p \in Publishers, Select(p)
      PROVE  Forward'
  BY <1>0, <1>4 DEF Select
<1>5. ASSUME NEW p \in Publishers, NEW r \in Rows, PublishAsync(p, r)
      PROVE  Forward'
  BY <1>0, <1>5 DEF PublishAsync, Store
<1>6. ASSUME NEW p \in Publishers, PublishError(p)
      PROVE  Forward'
  BY <1>0, <1>6 DEF PublishError, EndFlush
<1>7. ASSUME NEW p \in Publishers, Mark(p)
      PROVE  Forward'
  BY <1>0, <1>7 DEF Mark, MarkPublished, EndFlush
<1>8. ASSUME NEW p \in Publishers, MarkError(p)
      PROVE  Forward'
  BY <1>0, <1>8 DEF MarkError, MarkPublished, EndFlush
<1>9. ASSUME NEW r \in Rows, Land(r)
      PROVE  Forward'
  BY <1>0, <1>9 DEF Land, Store
<1>10. ASSUME NEW m \in stream, Redeliver(m)
      PROVE  Forward'
  BY <1>0, <1>10 DEF Redeliver
<1>11. ASSUME NEW m \in stream, Expire(m)
      PROVE  Forward'
  BY <1>0, <1>11 DEF Expire
<1>12. ASSUME NEW d \in lateDocs, LandDoc(d)
      PROVE  Forward'
  BY <1>0, <1>12 DEF LandDoc
<1>13. ASSUME NEW c \in Consumers, NEW m \in ready, Fetch(c, m)
      PROVE  Forward'
  BY <1>0, <1>13 DEF Fetch
<1>14. ASSUME NEW c \in Consumers, Ack(c)
      PROVE  Forward'
  BY <1>0, <1>14 DEF Ack, Idle
<1>15. ASSUME NEW i \in Reindexers, ReindexAll(i)
      PROVE  Forward'
  BY <1>0, <1>15 DEF ReindexAll
<1>16. ASSUME NEW i \in Reindexers, ReindexNext(i)
      PROVE  Forward'
  BY <1>0, <1>16 DEF ReindexNext, Idle
<1>17. ASSUME NEW i \in Indexers, ReadAnime(i)
      PROVE  Forward'
  BY <1>0, <1>17 DEF ReadAnime
<1>18. ASSUME NEW i \in Indexers, WriteDoc(i)
      PROVE  Forward'
  BY <1>0, <1>18 DEF WriteDoc, AddDocuments
<1>19. ASSUME NEW i \in Indexers, IndexError(i)
      PROVE  Forward'
  BY <1>0, <1>19 DEF IndexError, Nak, AddDocumentsError, AddDocuments, Idle
<1>20. ASSUME NEW i \in Indexers, Crash(i)
      PROVE  Forward'
  BY <1>0, <1>20 DEF Crash, AddDocumentsError, AddDocuments, Idle
<1>21. QED
  BY <1>0, <1>1, <1>2, <1>3, <1>4, <1>5, <1>6, <1>7, <1>8, <1>9, <1>10,
     <1>11, <1>12, <1>13, <1>14, <1>15, <1>16, <1>17, <1>18, <1>19, <1>20
     DEF Next, Flush, Consume, Reindex, IndexStep

\* A row stays fresh until its message is acknowledged.
LEMMA FreshKept ==
  ASSUME IInv, [Next]_vars, SingleWriter, NEW q \in 1 .. rows, Fresh(q)
  PROVE  /\ q \in 1 .. rows' /\ rowAnime'[q] = rowAnime[q]
         /\ Fresh(q)' \/ \E c \in Consumers : Ack(c) /\ msg[c][1] = q
<1> DEFINE Kept == /\ q \in 1 .. rows' /\ rowAnime'[q] = rowAnime[q]
                   /\ Fresh(q)' \/ \E c \in Consumers : Ack(c) /\ msg[c][1] = q
<1> USE CatalogAssumption DEF CatalogAssumption, catalogVars, publisherVars, streamVars, indexVars,
        indexerVars, Rows
<1>0. q \in Rows /\ rows \in Nat /\ (InStream(q) \/ Waiting(q))
  BY DEF IInv, TypeOK, CatalogTypes, Fresh
\* Steps that leave rows, outbox, flushes and stream alone, or only add to them.
<1>1. ASSUME UNCHANGED <<rows, rowAnime, outbox>>, stream \subseteq stream',
             \A p \in Publishers : q \in sent'[p] => q \in sent[p]
      PROVE  Kept
  BY <1>0, <1>1 DEF Fresh, InStream, Waiting
<1>2. ASSUME UNCHANGED vars PROVE Kept
  BY <1>1, <1>2 DEF vars
<1>3. ASSUME NEW a \in Animes, UpsertJikanAnime(a)
      PROVE  Kept
  <2>1. rows' = rows + 1 /\ rowAnime' = [rowAnime EXCEPT ![rows + 1] = a] /\ outbox \subseteq outbox'
    BY <1>3 DEF UpsertJikanAnime, InsertOutboxEvent
  <2>2. UNCHANGED <<sent, stream>>
    BY <1>3 DEF UpsertJikanAnime
  <2>3. rowAnime'[q] = rowAnime[q]
    BY <1>0, <2>1 DEF IInv, TypeOK, CatalogTypes
  <2>4. QED
    BY <1>0, <2>1, <2>2, <2>3 DEF Fresh, InStream, Waiting
<1>4. ASSUME NEW a \in Animes, UpsertHiAnimeEpisodes(a)
      PROVE  Kept
  <2>1. rows' = rows + 1 /\ rowAnime' = [rowAnime EXCEPT ![rows + 1] = a] /\ outbox \subseteq outbox'
    BY <1>4 DEF UpsertHiAnimeEpisodes, InsertOutboxEvent
  <2>2. UNCHANGED <<sent, stream>>
    BY <1>4 DEF UpsertHiAnimeEpisodes
  <2>3. rowAnime'[q] = rowAnime[q]
    BY <1>0, <2>1 DEF IInv, TypeOK, CatalogTypes
  <2>4. QED
    BY <1>0, <2>1, <2>2, <2>3 DEF Fresh, InStream, Waiting
<1>5. ASSUME NEW p \in Publishers, Select(p)
      PROVE  Kept
  BY <1>1, <1>5 DEF Select
<1>6. ASSUME NEW p \in Publishers, NEW r \in Rows, PublishAsync(p, r)
      PROVE  Kept
  <2>1. stream' = stream \cup {<<r, publishes[r] + 1>>} /\ UNCHANGED <<rows, rowAnime, outbox>>
    BY <1>6 DEF PublishAsync, Store
  <2>2. sent' = [sent EXCEPT ![p] = sent[p] \cup {r}]
    BY <1>6 DEF PublishAsync
  <2>3. CASE q = r
    <3>1. <<r, publishes[r] + 1>> \in stream' /\ <<r, publishes[r] + 1>>[1] = q
      BY <2>1, <2>3
    <3>2. InStream(q)'
      BY <3>1 DEF InStream
    <3>3. QED
      BY <1>0, <2>1, <3>2 DEF Fresh
  <2>4. CASE q # r
    <3>1. \A k \in Publishers : q \in sent'[k] => q \in sent[k]
      BY <2>2, <2>4 DEF IInv, TypeOK, PublisherTypes
    <3>2. QED
      BY <1>1, <2>1, <3>1
  <2>5. QED
    BY <2>3, <2>4
<1>7. ASSUME NEW p \in Publishers, PublishError(p)
      PROVE  Kept
  BY <1>1, <1>7 DEF PublishError, EndFlush, IInv, TypeOK, PublisherTypes
<1>8. ASSUME NEW p \in Publishers, Mark(p)
      PROVE  Kept
  <2>1. ppc[p] = "mark" /\ outbox' \in {outbox, outbox \ items[p]} /\ sent' = [sent EXCEPT ![p] = {}]
    BY <1>8 DEF Mark, MarkPublished, EndFlush
  <2>2. UNCHANGED <<rows, rowAnime, stream>>
    BY <1>8 DEF Mark
  <2>3. Waiting(q) => Waiting(q)'
    BY <1>0, <2>1 DEF Waiting, IInv, LocksOK, TypeOK, PublisherTypes
  <2>4. QED
    BY <1>0, <2>2, <2>3 DEF Fresh, InStream
<1>9. ASSUME NEW p \in Publishers, MarkError(p)
      PROVE  Kept
  <2>1. ppc[p] = "mark" /\ outbox' \in {outbox, outbox \ items[p]} /\ sent' = [sent EXCEPT ![p] = {}]
    BY <1>9 DEF MarkError, MarkPublished, EndFlush
  <2>2. UNCHANGED <<rows, rowAnime, stream>>
    BY <1>9 DEF MarkError
  <2>3. Waiting(q) => Waiting(q)'
    BY <1>0, <2>1 DEF Waiting, IInv, LocksOK, TypeOK, PublisherTypes
  <2>4. QED
    BY <1>0, <2>2, <2>3 DEF Fresh, InStream
<1>10. ASSUME NEW r \in Rows, Land(r)
      PROVE  Kept
  BY <1>1, <1>10 DEF Land, Store
<1>11. ASSUME NEW m \in stream, Redeliver(m)
      PROVE  Kept
  BY <1>1, <1>11 DEF Redeliver
<1>12. ASSUME NEW m \in stream, Expire(m)
      PROVE  Kept
  BY <1>12 DEF Expire, SingleWriter, IInv, TypeOK, CatalogTypes
<1>13. ASSUME NEW d \in lateDocs, LandDoc(d)
      PROVE  Kept
  BY <1>1, <1>13 DEF LandDoc
<1>14. ASSUME NEW c \in Consumers, NEW m \in ready, Fetch(c, m)
      PROVE  Kept
  BY <1>1, <1>14 DEF Fetch
<1>15. ASSUME NEW c \in Consumers, Ack(c)
      PROVE  Kept
  <2>1. stream' = stream \ {msg[c]} /\ UNCHANGED <<rows, rowAnime, outbox, sent>>
    BY <1>15 DEF Ack
  <2>2. QED
    BY <1>0, <1>15, <2>1 DEF Fresh, InStream, Waiting
<1>16. ASSUME NEW i \in Reindexers, ReindexAll(i)
      PROVE  Kept
  BY <1>1, <1>16 DEF ReindexAll
<1>17. ASSUME NEW i \in Reindexers, ReindexNext(i)
      PROVE  Kept
  BY <1>1, <1>17 DEF ReindexNext
<1>18. ASSUME NEW i \in Indexers, ReadAnime(i)
      PROVE  Kept
  BY <1>1, <1>18 DEF ReadAnime
<1>19. ASSUME NEW i \in Indexers, WriteDoc(i)
      PROVE  Kept
  BY <1>1, <1>19 DEF WriteDoc
<1>20. ASSUME NEW i \in Indexers, IndexError(i)
      PROVE  Kept
  BY <1>1, <1>20 DEF IndexError, Nak
<1>21. ASSUME NEW i \in Indexers, Crash(i)
      PROVE  Kept
  BY <1>1, <1>21 DEF Crash
<1> HIDE DEF Kept
<1>22. Kept
  BY <1>2, <1>3, <1>4, <1>5, <1>6, <1>7, <1>8, <1>9, <1>10, <1>11,
     <1>12, <1>13, <1>14, <1>15, <1>16, <1>17, <1>18, <1>19, <1>20, <1>21
     DEF Next, Flush, Consume, Reindex, IndexStep, Indexers
<1>23. QED
  BY <1>22 DEF Kept

\* What one step does to rows, to the index and to the locals of the indexer.
LEMMA StepEffects ==
  ASSUME IInv, [Next]_vars, SingleWriter
  PROVE  /\ version' = version \/ \E a \in Animes : UpsertJikanAnime(a)
         /\ \/ index' = index
            \/ \E c \in Consumers : /\ pc[c] = "write" /\ version' = version
                                    /\ index' = [index EXCEPT ![cur[c]] = doc[c]]
         /\ \A c \in Consumers : pc'[c] \in {"write", "ack"} =>
              \/ pc[c] \in {"write", "ack"} /\ cur'[c] = cur[c] /\ msg'[c] = msg[c] /\ doc'[c] = doc[c]
              \/ doc'[c] = version'[cur'[c]]
<1> DEFINE Effects ==
         /\ version' = version \/ \E a \in Animes : UpsertJikanAnime(a)
         /\ \/ index' = index
            \/ \E c \in Consumers : /\ pc[c] = "write" /\ version' = version
                                    /\ index' = [index EXCEPT ![cur[c]] = doc[c]]
         /\ \A c \in Consumers : pc'[c] \in {"write", "ack"} =>
              \/ pc[c] \in {"write", "ack"} /\ cur'[c] = cur[c] /\ msg'[c] = msg[c] /\ doc'[c] = doc[c]
              \/ doc'[c] = version'[cur'[c]]
<1> USE DEF catalogVars, publisherVars, streamVars, indexVars, indexerVars, IInv, TypeOK, IndexerTypes
<1>1. ASSUME UNCHANGED <<index, indexerVars>>, version' = version \/ \E a \in Animes : UpsertJikanAnime(a)
      PROVE  Effects
  BY <1>1
<1>2. ASSUME UNCHANGED vars PROVE Effects
  BY <1>1, <1>2 DEF vars
<1>3. ASSUME NEW a \in Animes, UpsertJikanAnime(a)
      PROVE  Effects
  BY <1>1, <1>3 DEF UpsertJikanAnime
<1>4. ASSUME NEW a \in Animes, UpsertHiAnimeEpisodes(a)
      PROVE  Effects
  BY <1>1, <1>4 DEF UpsertHiAnimeEpisodes
<1>5. ASSUME NEW p \in Publishers, Select(p)
      PROVE  Effects
  BY <1>1, <1>5 DEF Select
<1>6. ASSUME NEW p \in Publishers, NEW r \in Rows, PublishAsync(p, r)
      PROVE  Effects
  BY <1>1, <1>6 DEF PublishAsync
<1>7. ASSUME NEW p \in Publishers, PublishError(p)
      PROVE  Effects
  BY <1>1, <1>7 DEF PublishError
<1>8. ASSUME NEW p \in Publishers, Mark(p)
      PROVE  Effects
  BY <1>1, <1>8 DEF Mark
<1>9. ASSUME NEW p \in Publishers, MarkError(p)
      PROVE  Effects
  BY <1>1, <1>9 DEF MarkError
<1>10. ASSUME NEW r \in Rows, Land(r)
      PROVE  Effects
  BY <1>1, <1>10 DEF Land
<1>11. ASSUME NEW m \in stream, Redeliver(m)
      PROVE  Effects
  BY <1>1, <1>11 DEF Redeliver
<1>12. ASSUME NEW m \in stream, Expire(m)
      PROVE  Effects
  BY <1>1, <1>12 DEF Expire
<1>13. ASSUME NEW d \in lateDocs, LandDoc(d)
      PROVE  Effects
  BY <1>13 DEF Forward
<1>14. ASSUME NEW c \in Consumers, NEW m \in ready, Fetch(c, m)
      PROVE  Effects
  BY <1>14 DEF Fetch, At, Indexers
<1>15. ASSUME NEW c \in Consumers, Ack(c)
      PROVE  Effects
  BY <1>15 DEF Ack, Idle, At, Indexers
<1>16. ASSUME NEW i \in Reindexers, ReindexAll(i)
      PROVE  Effects
  BY <1>16 DEF ReindexAll, SingleWriter
<1>17. ASSUME NEW i \in Reindexers, ReindexNext(i)
      PROVE  Effects
  BY <1>17 DEF ReindexNext, Forward
<1>18. ASSUME NEW i \in Indexers, ReadAnime(i)
      PROVE  Effects
  BY <1>18 DEF ReadAnime, At, Indexers
<1>19. ASSUME NEW i \in Indexers, WriteDoc(i)
      PROVE  Effects
  <2>1. i \in Consumers /\ version' = version
    BY <1>19 DEF WriteDoc, Forward, Indexers
  <2>2. index' = index \/ (pc[i] = "write" /\ index' = [index EXCEPT ![cur[i]] = doc[i]])
    BY <1>19 DEF WriteDoc, AddDocuments, SingleWriter
  <2>3. \A c \in Consumers : pc'[c] \in {"write", "ack"} =>
          pc[c] \in {"write", "ack"} /\ cur'[c] = cur[c] /\ msg'[c] = msg[c] /\ doc'[c] = doc[c]
    BY <1>19 DEF WriteDoc, Idle, At, Indexers
  <2>4. QED
    BY <2>1, <2>2, <2>3
<1>20. ASSUME NEW i \in Indexers, IndexError(i)
      PROVE  Effects
  <2>1. i \in Consumers /\ version' = version
    BY <1>20 DEF IndexError, Forward, Indexers
  <2>2. index' = index \/ (pc[i] = "write" /\ index' = [index EXCEPT ![cur[i]] = doc[i]])
    BY <1>20 DEF IndexError, AddDocumentsError, AddDocuments, Idle, SingleWriter
  <2>3. \A c \in Consumers : pc'[c] \in {"write", "ack"} =>
          pc[c] \in {"write", "ack"} /\ cur'[c] = cur[c] /\ msg'[c] = msg[c] /\ doc'[c] = doc[c]
    BY <1>20 DEF IndexError, Idle, At, Indexers
  <2>4. QED
    BY <2>1, <2>2, <2>3
<1>21. ASSUME NEW i \in Indexers, Crash(i)
      PROVE  Effects
  <2>1. i \in Consumers /\ version' = version
    BY <1>21 DEF Crash, Forward, Indexers
  <2>2. index' = index \/ (pc[i] = "write" /\ index' = [index EXCEPT ![cur[i]] = doc[i]])
    BY <1>21 DEF Crash, AddDocumentsError, AddDocuments, Idle, SingleWriter
  <2>3. \A c \in Consumers : pc'[c] \in {"write", "ack"} =>
          pc[c] \in {"write", "ack"} /\ cur'[c] = cur[c] /\ msg'[c] = msg[c] /\ doc'[c] = doc[c]
    BY <1>21 DEF Crash, Idle, At, Indexers
  <2>4. QED
    BY <2>1, <2>2, <2>3
<1> HIDE DEF Effects
<1>22. Effects
  BY <1>2, <1>3, <1>4, <1>5, <1>6, <1>7, <1>8, <1>9, <1>10, <1>11,
     <1>12, <1>13, <1>14, <1>15, <1>16, <1>17, <1>18, <1>19, <1>20, <1>21
     DEF Next, Flush, Consume, Reindex, IndexStep, Indexers
<1>23. QED
  BY <1>22 DEF Effects

\* The row a write inserts is fresh, and none of the rows before it.
LEMMA NewRowFresh ==
  ASSUME IInv, NEW a \in Animes, UpsertJikanAnime(a)
  PROVE  \E r \in FreshRows(a)' : r = rows + 1
<1>1. rows < MaxRows /\ rows' = rows + 1 /\ rowAnime' = [rowAnime EXCEPT ![rows + 1] = a]
  BY InsertBound DEF IInv, TypeOK, UpsertJikanAnime, InsertOutboxEvent
<1>2. outbox' = outbox \cup {rows + 1} /\ sent' = sent
  BY DEF UpsertJikanAnime, InsertOutboxEvent
<1>3. rows \in Nat /\ rows + 1 \in 1 .. rows' /\ rowAnime'[rows + 1] = a
  BY <1>1, CatalogAssumption DEF CatalogAssumption, IInv, TypeOK, CatalogTypes, Rows
<1>4. \A p \in Publishers : rows + 1 \notin sent[p]
  BY <1>3 DEF IInv, LocksOK, RowsOK
<1>5. PICK k \in Nat : k = rows + 1
  BY <1>3
<1>6. Waiting(k)'
  BY <1>2, <1>4, <1>5 DEF Waiting
<1>7. k \in FreshRows(a)'
  BY <1>3, <1>5, <1>6 DEF FreshRows, Fresh
<1>8. QED
  BY <1>5, <1>7

\* A stale document is always covered by a fresh row.
LEMMA CoveredStep == IInv /\ [Next]_vars => Covered'
<1> SUFFICES ASSUME IInv, [Next]_vars, SingleWriter, NEW a \in Animes, index'[a] < version'[a]
             PROVE  \E r \in FreshRows(a)' : TRUE
  BY SingleWriterFixed DEF Covered
<1>1. version[a] \in Nat /\ index[a] \in Nat /\ index[a] <= version[a]
  BY CatalogAssumption DEF CatalogAssumption, IInv, TypeOK, CatalogTypes, IndexTypes, IndexersOK, Versions
<1>2. CASE UpsertJikanAnime(a)
  BY <1>2, NewRowFresh
<1>3. CASE version'[a] = version[a] /\ index'[a] = index[a]
  <2>1. PICK r \in FreshRows(a) : TRUE
    BY <1>3 DEF IInv, Covered
  <2>2. r \in 1 .. rows /\ rowAnime[r] = a /\ Fresh(r)
    BY DEF FreshRows
  <2>3. CASE Fresh(r)'
    BY <2>2, <2>3, FreshKept DEF FreshRows
  <2>4. ASSUME NEW c \in Consumers, Ack(c), msg[c][1] = r
        PROVE  \E s \in FreshRows(a)' : TRUE
    <3>1. pc[c] = "ack" /\ cur[c] = a /\ index[a] = doc[c]
      BY <2>2, <2>4 DEF Ack, IInv, IndexersOK, Forward
    <3>2. PICK s \in FreshRows(a) : s # r
      BY <1>3, <2>4, <3>1 DEF IInv, NewerWaits
    <3>3. s \in 1 .. rows /\ rowAnime[s] = a /\ Fresh(s)
      BY DEF FreshRows
    <3>4. \A d \in Consumers : msg[d][1] # s
      BY <2>4, <3>2 DEF SingleWriter
    <3>5. QED
      BY <3>3, <3>4, FreshKept DEF FreshRows
  <2>5. QED
    BY <2>2, <2>3, <2>4, FreshKept
<1>4. CASE \E c \in Consumers : /\ pc[c] = "write" /\ cur[c] = a /\ version' = version
                                /\ index'[a] = doc[c]
  <2>1. PICK c \in Consumers : pc[c] = "write" /\ cur[c] = a /\ version' = version /\ index'[a] = doc[c]
    BY <1>4
  <2>2. PICK r \in FreshRows(a) : TRUE
    BY <2>1 DEF IInv, NewerWaits
  <2>3. r \in 1 .. rows /\ rowAnime[r] = a /\ Fresh(r)
    BY DEF FreshRows
  <2>4. \A d \in Consumers : ~Ack(d)
    BY <2>1 DEF Ack, SingleWriter
  <2>5. QED
    BY <2>3, <2>4, FreshKept DEF FreshRows
<1>5. CASE \E b \in Animes : UpsertJikanAnime(b)
  <2>1. PICK b \in Animes : UpsertJikanAnime(b)
    BY <1>5
  <2>2. CASE b = a
    BY <1>2, <2>1, <2>2
  <2>3. CASE b # a
    <3>1. version'[a] = version[a] /\ index'[a] = index[a]
      BY <2>1, <2>3 DEF UpsertJikanAnime, indexVars, IInv, TypeOK, CatalogTypes
    <3>2. QED
      BY <1>3, <3>1
  <2>4. QED
    BY <2>2, <2>3
<1>6. CASE version' = version
  <2>1. CASE index' = index
    BY <1>3, <1>6, <2>1
  <2>2. CASE \E c \in Consumers : pc[c] = "write" /\ index' = [index EXCEPT ![cur[c]] = doc[c]]
    <3>1. PICK c \in Consumers : pc[c] = "write" /\ index' = [index EXCEPT ![cur[c]] = doc[c]]
      BY <2>2
    <3>2. CASE cur[c] = a
      <4>1. index'[a] = doc[c]
        BY <3>1, <3>2 DEF IInv, TypeOK, IndexTypes
      <4>2. QED
        BY <1>4, <1>6, <3>1, <3>2, <4>1
    <3>3. CASE cur[c] # a
      <4>1. index'[a] = index[a]
        BY <3>1, <3>3 DEF IInv, TypeOK, IndexTypes
      <4>2. QED
        BY <1>3, <1>6, <4>1
    <3>4. QED
      BY <3>2, <3>3
  <2>3. QED
    BY <2>1, <2>2, StepEffects
<1>7. version' = version \/ \E b \in Animes : UpsertJikanAnime(b)
  BY StepEffects
<1>8. QED
  BY <1>5, <1>6, <1>7

\* A document that was overtaken while the indexer holds it has a successor.
LEMMA NewerWaitsStep == IInv /\ [Next]_vars => NewerWaits'
<1> SUFFICES ASSUME IInv, [Next]_vars, SingleWriter, NEW c \in Consumers,
                    pc'[c] \in {"write", "ack"}, doc'[c] < version'[cur'[c]]
             PROVE  \E r \in FreshRows(cur[c])' : r # msg'[c][1]
  BY SingleWriterFixed DEF NewerWaits
<1>1. /\ cur'[c] = cur[c] /\ msg'[c] = msg[c] /\ doc'[c] = doc[c] /\ pc[c] \in {"write", "ack"}
  <2>1. IndexersOK' /\ CatalogTypes' /\ IndexerTypes'
    BY IndexersStep, CatalogTypesStep, IndexerTypesStep
  <2>2. version'[cur'[c]] \in Nat
    BY <2>1, CatalogAssumption DEF CatalogAssumption, IndexersOK, CatalogTypes, Versions, Indexers
  <2>3. QED
    BY <2>2, StepEffects
<1> PICK a : a = cur[c]
  OBVIOUS
<1>2. /\ a \in Animes /\ version[a] \in Nat /\ doc[c] \in Nat /\ rows \in Nat
      /\ msg[c][1] \in Nat /\ msg[c][1] <= rows
  BY <1>1, CatalogAssumption DEF CatalogAssumption, IInv, TypeOK, CatalogTypes, IndexerTypes, IndexersOK,
     Versions, Indexers, Messages, Rows
<1>3. CASE UpsertJikanAnime(a)
  <2>1. rows + 1 # msg[c][1]
    BY <1>2
  <2>2. PICK r \in FreshRows(a)' : r = rows + 1
    BY <1>2, <1>3, NewRowFresh
  <2>3. r \in FreshRows(cur[c])'
    BY <1>1, <2>2 DEF FreshRows
  <2>4. QED
    BY <1>1, <2>1, <2>2, <2>3
<1>4. CASE version'[a] = version[a]
  <2>1. PICK r \in FreshRows(a) : r # msg[c][1]
    BY <1>1, <1>4 DEF IInv, NewerWaits
  <2>2. r \in 1 .. rows /\ rowAnime[r] = a /\ Fresh(r)
    BY <2>1 DEF FreshRows
  <2>3. \A d \in Consumers : msg[d][1] # r
    BY <2>1 DEF SingleWriter
  <2>4. r \in 1 .. rows' /\ rowAnime'[r] = a /\ Fresh(r)'
    BY <2>2, <2>3, FreshKept
  <2>5. QED
    BY <1>1, <2>1, <2>4 DEF FreshRows
<1>5. version'[a] = version[a] \/ UpsertJikanAnime(a)
  <2>1. ASSUME NEW b \in Animes, b # a, UpsertJikanAnime(b)
        PROVE  version'[a] = version[a]
    BY <2>1 DEF UpsertJikanAnime, IInv, TypeOK, CatalogTypes
  <2>2. version' = version \/ \E b \in Animes : UpsertJikanAnime(b)
    BY StepEffects
  <2>3. QED
    BY <2>1, <2>2
<1>6. QED
  BY <1>3, <1>4, <1>5

-----------------------------------------------------------------------------

\* IInv holds in every reachable state of the catalog, the stream and the index.
THEOREM Invariance == Spec => []IInv
<1>1. IInv /\ [Next]_vars => IInv'
  BY CatalogTypesStep, PublisherTypesStep, StreamTypesStep, IndexTypesStep, IndexerTypesStep,
     RowsStep, LocksStep, AttemptsStep, IndexersStep, ForwardStep, CoveredStep, NewerWaitsStep
     DEF IInv, TypeOK
<1>2. QED
  BY InitInv, <1>1, PTL DEF Spec

\* Messages are made of rows of the outbox, documents of rows of the catalog.
THEOREM TypeCorrect == Spec => []TypeOK
<1>1. IInv => TypeOK
  BY DEF IInv
<1>2. QED
  BY Invariance, <1>1, PTL

\* With one indexer no update is lost between the catalog and the index,
\* whatever fails, however many publishers run and however often a message is
\* delivered.
THEOREM NoLostUpdate == Spec => []StaleIsPending
<1>1. IInv => StaleIsPending
  BY DEF IInv, Covered, StaleIsPending, Outstanding, FreshRows, Fresh, Waiting
<1>2. QED
  BY Invariance, <1>1, PTL

\* FOR UPDATE SKIP LOCKED keeps the publishers apart: a row is published at most
\* once more than flushes failed.
THEOREM PublishedOnce == Spec => []PublishBound
<1>1. IInv => PublishBound
  BY CatalogAssumption DEF CatalogAssumption, IInv, TypeOK, CatalogTypes, StreamTypes, AttemptsOK, PublishBound
<1>2. QED
  BY Invariance, <1>1, PTL

\* The pipeline implements SearchView: with one indexer documents only move
\* forward, through versions the row has had.
THEOREM Refinement == Spec => IndexMovesForward
<1> DEFINE shown == IF SingleWriter THEN index ELSE [a \in Animes |-> 0]
<1>1. Init => View!Init
  BY DEF Init, View!Init
<1>2. IInv /\ [Next]_vars => [View!Next]_<<version, shown>>
  <2> SUFFICES ASSUME IInv, [Next]_vars PROVE [View!Next]_<<version, shown>>
    OBVIOUS
  <2>1. SingleWriter' <=> SingleWriter
    BY SingleWriterFixed
  <2>2. ASSUME NEW a \in Animes, UpsertJikanAnime(a)
        PROVE  View!Next
    <3>1. version[a] < MaxVersion /\ version' = [version EXCEPT ![a] = @ + 1] /\ shown' = shown
      BY <2>1, <2>2 DEF UpsertJikanAnime, indexVars
    <3>2. View!Upsert(a)
      BY <3>1 DEF View!Upsert
    <3>3. QED
      BY <3>2 DEF View!Next
  <2>3. ASSUME version' = version, SingleWriter, NEW c \in Consumers, pc[c] = "write",
               index' = [index EXCEPT ![cur[c]] = doc[c]]
        PROVE  View!Next \/ shown' = shown
    <3>1. cur[c] \in Animes /\ doc[c] \in Versions /\ index \in [Animes -> Versions]
      BY <2>3 DEF IInv, TypeOK, IndexTypes, IndexerTypes, IndexersOK, Indexers
    <3>2. index[cur[c]] <= doc[c] /\ doc[c] <= version[cur[c]]
      BY <2>3 DEF IInv, Forward, IndexersOK, Indexers
    <3>3. shown = index /\ shown' = index'
      BY <2>1, <2>3
    <3>4. CASE index[cur[c]] = doc[c]
      BY <2>3, <3>1, <3>3, <3>4
    <3>5. CASE index[cur[c]] # doc[c]
      <4>1. index[cur[c]] < doc[c]
        BY <3>1, <3>2, <3>5, CatalogAssumption DEF CatalogAssumption, Versions
      <4>2. View!Sync(cur[c])
        BY <2>3, <3>1, <3>2, <3>3, <4>1 DEF View!Sync, View!Versions, Versions
      <4>3. QED
        BY <3>1, <4>2 DEF View!Next
    <3>6. QED
      BY <3>4, <3>5
  <2>4. CASE SingleWriter
    BY <2>1, <2>2, <2>3, <2>4, StepEffects
  <2>5. CASE ~SingleWriter
    <3>1. shown' = shown
      BY <2>1, <2>5
    <3>2. version' = version \/ \E a \in Animes : UpsertJikanAnime(a)
      BY DEF Next, vars, catalogVars, UpsertHiAnimeEpisodes, Flush, Select, PublishAsync, PublishError,
         Mark, MarkError, Land, Redeliver, Expire, LandDoc, Consume, Fetch, IndexStep, ReadAnime,
         WriteDoc, Ack, Reindex, ReindexAll, ReindexNext, IndexError, Crash
    <3>3. QED
      BY <2>2, <3>1, <3>2
  <2>6. QED
    BY <2>4, <2>5
<1>3. QED
  BY <1>1, <1>2, Invariance, PTL DEF Spec, IndexMovesForward, View!Safety

=============================================================================
