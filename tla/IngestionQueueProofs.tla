------------------------ MODULE IngestionQueueProofs ------------------------
(***************************************************************************)
(* Proofs about IngestionQueue, for any anime, episodes, replicas, jobs,   *)
(* deliveries and faults.                                                  *)
(*                                                                         *)
(* None of the three safety properties is inductive.  Placed says where a  *)
(* session at each control point has its job, its argument and its         *)
(* transaction.  Exclusive is what row locks and keys give: two open       *)
(* transactions never write the same anime or slug, and what a transaction *)
(* found out before it wrote still holds when it commits.  Arrived says    *)
(* which part of a job is done at each point, so that a job about to be    *)
(* acknowledged is done; Agreed says that every list of episodes on its    *)
(* way to the catalog is part of what HiAnime lists now, as long as it     *)
(* never took a number back.                                               *)
(***************************************************************************)
EXTENDS IngestionQueue, TLAPS

\* The job a loop works on.
Serves(s) ==
    /\ msg[s] \in 1 .. last
    /\ arg[s] = malID[msg[s]]
    /\ subject[msg[s]] = s[2]

PlacedAt(s) ==
    /\ pc[s] \in {"run", "upsert", "publish", "episodes"} => arg[s] \in MalIds
    /\ pc[s] \in {"publish", "dlq", "ack"} => s \in Loops
    /\ s \in Loops /\ pc[s] \notin {"idle", "dead"} => Serves(s)
    /\ pc[s] \in {"upsert", "publish"} => IsJikan(s)
    /\ pc[s] = "upsert" => tx[s].at \in {"selected", "written"} /\ tx[s].id = arg[s]
    /\ pc[s] = "episodes" => ~IsJikan(s) /\ tx[s].at \in {"none", "stored"}
    /\ tx[s].at = "stored" => tx[s].id = arg[s]
    /\ pc[s] \notin {"upsert", "episodes"} => tx[s].at = "none"

Placed ==
    /\ \A m \in 1 .. last : malID[m] \in MalIds \cup Invalid
    /\ \A s \in Sessions : PlacedAt(s)

\* One writer of an anime and one of a slug.
OneWriter ==
    \A s, t \in Sessions :
        s # t /\ tx[s].at = tx[t].at /\ tx[s].at \in {"written", "stored"} => tx[s].id # tx[t].id

\* Conflict, of the numbers n of an anime.
Clash(n, list) ==
    \E e, f \in Episodes :
        /\ e # f /\ list[e] # 0
        /\ n[f] = list[e]
        /\ list[f] = 0 \/ list[f] > list[e]

\* What a transaction found still holds.
StillTrue(s) ==
    /\ tx[s].at = "selected" /\ tx[s].found => tx[s].id \in external
    /\ tx[s].at = "written" => (tx[s].found <=> tx[s].id \in external)
    /\ tx[s].at = "stored" => ~Clash(number[tx[s].id], tx[s].list)

Exclusive == OneWriter /\ \A s \in Sessions : StillTrue(s)

\* What is done of a job.
Arrived ==
    \A s \in Sessions :
        /\ pc[s] \in {"publish", "episodes"} => arg[s] \in external
        /\ pc[s] = "ack" => Synced(msg[s]) \/ msg[s] \in dlq \cup dropped

\* a is part of b.
PartOf(a, b) == \A e \in Episodes : a[e] \in {0, b[e]}

Agreed ==
    /\ EpisodesAccepted
    /\ ~renumbered =>
        /\ \A id \in MalIds : PartOf(number[id], listing[id])
        /\ \A s \in Sessions :
            /\ pc[s] = "episodes" => PartOf(listed[s], listing[arg[s]])
            /\ tx[s].at = "stored" => PartOf(tx[s].list, listing[tx[s].id])

IInv == TypeOK /\ Placed /\ Exclusive /\ Arrived /\ NoJobLost /\ OneAnimePerMalID /\ Agreed

-----------------------------------------------------------------------------
(* The steps.                                                              *)

\* A job is stored by someone other than a session: a job for episodes only with a
\* payload nobody can use.
Stored(q, id) ==
    /\ PublishJob(q, id)
    /\ q = "ingestion.hianime.sync" => id \in Invalid
    /\ UNCHANGED <<setup, catalogVars, providerVars, sessionVars, boundVars>>

\* The cases of a step.
LEMMA NextCases ==
    ASSUME [Next]_vars
    PROVE  \/ UNCHANGED vars
           \/ \E s \in Sessions :
                \/ JikanSync(s) \/ UpsertJikanAnime(s) \/ JikanPublish(s)
                \/ SyncEpisodesByMALID(s) \/ UpsertHiAnimeEpisodes(s)
                \/ DeadLetter(s) \/ Ack(s) \/ JobError(s)
                \/ \E m \in ready : Fetch(s, m)
                \/ s \notin Loops /\ \E id \in MalIds : Trigger(s, id)
           \/ \E s \in Loops : LoopError(s)
           \/ \E r \in Replicas : Restart(r)
           \/ \E q \in Subjects, id \in MalIds \cup Invalid : Stored(q, id)
           \/ \E m \in 1 .. last : Redeliver(m)
           \/ \E id \in MalIds, n \in Listings : ProviderChanges(id, n)
  <1>1. ASSUME NEW id \in MalIds, Enqueue(id) PROVE Stored("ingestion.jikan.sync", id)
    BY <1>1 DEF Enqueue, Stored
  <1>2. ASSUME NEW q \in Subjects, NEW id \in Invalid, ForeignJob(q, id) PROVE Stored(q, id)
    BY <1>2 DEF ForeignJob, Stored
  <1>3. "ingestion.jikan.sync" \in Subjects
    BY DEF Subjects
  <1>4. ASSUME NEW s \in Sessions, NEW id \in MalIds, JikanTrigger(s, id) \/ HiAnimeTrigger(s, id)
        PROVE  s \notin Loops /\ Trigger(s, id)
    BY <1>4 DEF JikanTrigger, HiAnimeTrigger, Loops, Subjects
  <1> QED
    BY <1>1, <1>2, <1>3, <1>4 DEF Next, Handle, JikanFallback, EnqueueJikanList, BulkImport, Cron,
       PublishJikanPages

\* Loops are sessions; what a listing is.
LEMMA Basics ==
    /\ Loops \subseteq Sessions
    /\ Nothing \in Listings
    /\ NoTx \in Transactions
    /\ \A s \in Setups : s.messages \in 0 .. MaxMessages /\ s.list \in Listings
  <1>1. Loops \subseteq Sessions
    BY DEF Loops, Sessions
  <1>2. Nothing \in Listings
    BY CatalogAssumption DEF CatalogAssumption, Nothing, Listings
  <1>3. NoTx \in Transactions
    BY <1>2 DEF NoTx, Transactions
  <1>4. \A s \in Setups : s.messages \in 0 .. MaxMessages /\ s.list \in Listings
    BY IngestionAssumption DEF IngestionAssumption
  <1> QED BY <1>1, <1>2, <1>3, <1>4

\* A job that is stored is the last one; the others keep their numbers.
LEMMA PublishedJob ==
    ASSUME TypeOK, NEW q \in Subjects, NEW id \in MalIds \cup Invalid, PublishJob(q, id)
    PROVE  /\ last' = last + 1 /\ last \in Nat
           /\ last' \in 0 .. setup.messages
           /\ 1 .. last' = (1 .. last) \cup {last'} /\ 0 .. last \subseteq 0 .. last'
           /\ subject'[last'] = q /\ malID'[last'] = id
           /\ \A m \in 1 .. last : subject'[m] = subject[m] /\ malID'[m] = malID[m]
           /\ subject' \in [Messages -> Subjects]
           /\ malID' \in [Messages -> MalIds \cup Invalid \cup {0}]
           /\ ready' = ready \cup {last'}
           /\ UNCHANGED <<settled, delivered, dlq, dropped>>
  <1>1. setup.messages \in Nat /\ setup.messages <= MaxMessages /\ MaxMessages \in Nat
    BY Basics, IngestionAssumption DEF IngestionAssumption, TypeOK
  <1>2. last \in Nat /\ last < setup.messages /\ last' = last + 1
    BY <1>1 DEF TypeOK, PublishJob
  <1>3. last' \in Messages /\ \A m \in 1 .. last : m \in Messages /\ m # last'
    BY <1>1, <1>2 DEF Messages
  <1>4. subject' = [subject EXCEPT ![last'] = q] /\ malID' = [malID EXCEPT ![last'] = id]
    BY <1>2 DEF PublishJob
  <1>5. subject \in [Messages -> Subjects] /\ malID \in [Messages -> MalIds \cup Invalid \cup {0}]
    BY DEF TypeOK
  <1>6. /\ subject'[last'] = q /\ malID'[last'] = id
        /\ \A m \in 1 .. last : subject'[m] = subject[m] /\ malID'[m] = malID[m]
        /\ subject' \in [Messages -> Subjects]
        /\ malID' \in [Messages -> MalIds \cup Invalid \cup {0}]
    BY <1>3, <1>4, <1>5
  <1>7. /\ last' \in 0 .. setup.messages
        /\ 1 .. last' = (1 .. last) \cup {last'} /\ 0 .. last \subseteq 0 .. last'
    BY <1>1, <1>2
  <1>8. ready' = ready \cup {last'} /\ UNCHANGED <<settled, delivered, dlq, dropped>>
    BY <1>2 DEF PublishJob
  <1> QED BY <1>2, <1>6, <1>7, <1>8

\* An empty stream, an empty catalog, idle sessions.
LEMMA InitInv == Init => IInv
  <1> SUFFICES ASSUME Init PROVE IInv
    OBVIOUS
  <1>1. TypeOK
    <2>1. CatalogTypes
      BY Basics DEF Init, CatalogInit, CatalogTypes
    <2>2. setup \in Setups /\ setup.messages \in Nat /\ setup.faults \in Nat /\ setup.changes \in Nat
      BY IngestionAssumption DEF IngestionAssumption, Init
    <2>3. listing \in [MalIds -> Listings] /\ listed \in [Sessions -> Listings]
      BY Basics, <2>2 DEF Init
    <2>4. /\ subject \in [Messages -> Subjects] /\ malID \in [Messages -> MalIds \cup Invalid \cup {0}]
          /\ delivered \in [Messages -> 0 .. MaxDeliver + 1]
      BY IngestionAssumption DEF IngestionAssumption, Init, Subjects
    <2>5. /\ pc \in [Sessions -> Controls] /\ msg \in [Sessions -> 0 .. last]
          /\ arg \in [Sessions -> MalIds \cup Invalid \cup {0}]
      BY DEF Init, Controls
    <2>6. /\ last = 0 /\ ready = {} /\ settled = {} /\ dlq = {} /\ dropped = {}
          /\ faults = 0 /\ changes = 0
      BY DEF Init
    <2>7. renumbered \in BOOLEAN /\ refused \in BOOLEAN
      BY Zenon DEF Init
    <2> QED
      BY <2>1, <2>2, <2>3, <2>4, <2>5, <2>6, <2>7 DEF TypeOK
  <1>2. Placed /\ Exclusive
    BY Basics DEF Init, CatalogInit, Placed, PlacedAt, Exclusive, OneWriter, StillTrue, NoTx
  <1>3. Arrived /\ NoJobLost /\ OneAnimePerMalID
    BY DEF Init, CatalogInit, Arrived, NoJobLost, OneAnimePerMalID
  <1>4. Agreed
    BY DEF Init, CatalogInit, Agreed, EpisodesAccepted, PartOf, Nothing, NoTx
  <1> QED BY <1>1, <1>2, <1>3, <1>4 DEF IInv

-----------------------------------------------------------------------------
(* The inductive step.                                                     *)

\* Where a session is with its job and its transaction.
LEMMA PlacedStep == IInv /\ [Next]_vars => Placed'
<1> SUFFICES ASSUME IInv, [Next]_vars PROVE Placed'
  OBVIOUS
<1> USE IngestionAssumption, CatalogAssumption DEF IInv, TypeOK, CatalogTypes, Placed, PlacedAt, Serves, Controls, streamVars,
   jobVars, providerVars, sessionVars, boundVars, catalogVars, tables, Goto, Done, Failed,
   Nak, Fault, Loops, NoTx
<1>1. CASE UNCHANGED vars
  BY <1>1 DEF vars
<1>2. ASSUME NEW s \in Sessions, JikanSync(s)
      PROVE  Placed'
  BY <1>2 DEF JikanSync, SelectAnime
<1>3. ASSUME NEW s \in Sessions, UpsertJikanAnime(s)
      PROVE  Placed'
  <2>1. CASE InsertOrUpdateAnime(s) /\ UNCHANGED <<streamVars, sessionVars>>
    BY <1>3, <2>1 DEF UpsertJikanAnime, InsertOrUpdateAnime
  <2>2. CASE CommitAnime(s) /\ Succeed(s, "publish") /\ UNCHANGED streamVars
    BY <1>3, <2>2 DEF UpsertJikanAnime, CommitAnime, Succeed, Rollback
  <2>3. CASE AnimeRefused(s) /\ Failed(s) /\ UNCHANGED streamVars
    BY <1>3, <2>3 DEF UpsertJikanAnime, AnimeRefused, Rollback
  <2> QED
    BY <1>3, <2>1, <2>2, <2>3 DEF UpsertJikanAnime
<1>4. ASSUME NEW s \in Sessions, JikanPublish(s)
      PROVE  Placed'
  <2>1. PublishJob("ingestion.hianime.sync", arg[s]) /\ arg[s] \in MalIds
    BY <1>4 DEF JikanPublish, PublishHiAnimeJob
  <2>2. "ingestion.hianime.sync" \in Subjects
    BY DEF Subjects
  <2> HIDE DEF TypeOK
  <2> QED
    BY <1>4, <2>1, <2>2, PublishedJob DEF JikanPublish
<1>5. ASSUME NEW s \in Sessions, SyncEpisodesByMALID(s)
      PROVE  Placed'
  BY <1>5 DEF SyncEpisodesByMALID
<1>6. ASSUME NEW s \in Sessions, UpsertHiAnimeEpisodes(s)
      PROVE  Placed'
  <2>1. CASE UpsertEpisodes(s, arg[s], listed[s]) /\ UNCHANGED <<streamVars, sessionVars, refused>>
    BY <1>6, <2>1 DEF UpsertHiAnimeEpisodes, UpsertEpisodes
  <2>2. CASE CommitEpisodes(s) /\ Succeed(s, "ack") /\ UNCHANGED <<streamVars, refused>>
    BY <1>6, <2>2 DEF UpsertHiAnimeEpisodes, CommitEpisodes, Succeed, Rollback
  <2>3. CASE EpisodesRefused(s, arg[s], listed[s]) /\ refused' = TRUE /\ Failed(s) /\ UNCHANGED streamVars
    BY <1>6, <2>3 DEF UpsertHiAnimeEpisodes, EpisodesRefused
  <2> QED
    BY <1>6, <2>1, <2>2, <2>3 DEF UpsertHiAnimeEpisodes
<1>7. ASSUME NEW s \in Sessions, DeadLetter(s)
      PROVE  Placed'
  BY <1>7 DEF DeadLetter
<1>8. ASSUME NEW s \in Sessions, Ack(s)
      PROVE  Placed'
  BY <1>8 DEF Ack, Settle
<1>9. ASSUME NEW s \in Sessions, JobError(s)
      PROVE  Placed'
  <2>1. CASE Rollback(s) /\ UNCHANGED <<tables, streamVars>>
    BY <1>9, <2>1 DEF JobError, Rollback
  <2>2. CASE pc[s] = "upsert" /\ CommitAnime(s) /\ UNCHANGED streamVars
    BY <1>9, <2>2 DEF JobError, CommitAnime, Rollback
  <2>3. CASE pc[s] = "episodes" /\ CommitEpisodes(s) /\ UNCHANGED streamVars
    BY <1>9, <2>3 DEF JobError, CommitEpisodes, Rollback
  <2>4. CASE pc[s] = "publish" /\ PublishHiAnimeJob(arg[s]) /\ UNCHANGED catalogVars
    <3>1. PublishJob("ingestion.hianime.sync", arg[s]) /\ arg[s] \in MalIds
      BY <1>9, <2>4 DEF PublishHiAnimeJob
    <3>2. "ingestion.hianime.sync" \in Subjects
      BY DEF Subjects
    <3>3. /\ pc \in [Sessions -> Controls] /\ msg \in [Sessions -> 0 .. last]
          /\ arg \in [Sessions -> MalIds \cup Invalid \cup {0}]
          /\ tx \in [Sessions -> Transactions]
      OBVIOUS
    <3> HIDE DEF TypeOK
    <3> QED
      BY <1>9, <2>4, <3>1, <3>2, <3>3, PublishedJob DEF JobError
  <2> QED
    BY <1>9, <2>1, <2>2, <2>3, <2>4 DEF JobError, Effect
<1>10. ASSUME NEW s \in Sessions, NEW m \in ready, Fetch(s, m)
      PROVE  Placed'
  BY <1>10 DEF Fetch
<1>11. ASSUME NEW s \in Loops, LoopError(s)
      PROVE  Placed'
  BY <1>11 DEF LoopError
<1>12. ASSUME NEW r \in Replicas, Restart(r)
      PROVE  Placed'
  BY <1>12 DEF Restart
<1>13. ASSUME NEW q \in Subjects, NEW id \in MalIds \cup Invalid, Stored(q, id)
      PROVE  Placed'
  <2>1. PublishJob(q, id) /\ (q = "ingestion.hianime.sync" => id \in Invalid)
    BY <1>13 DEF Stored
  <2> HIDE DEF TypeOK
  <2> QED
    BY <1>13, <2>1, PublishedJob DEF Stored
<1>14. ASSUME NEW s \in Sessions, NEW id \in MalIds, s \notin Loops, Trigger(s, id)
      PROVE  Placed'
  BY <1>14 DEF Trigger
<1>15. ASSUME NEW m \in 1 .. last, Redeliver(m)
      PROVE  Placed'
  BY <1>15 DEF Redeliver
<1>16. ASSUME NEW id \in MalIds, NEW n \in Listings, ProviderChanges(id, n)
      PROVE  Placed'
  BY <1>16 DEF ProviderChanges
<1> QED
  BY <1>1, <1>2, <1>3, <1>4, <1>5, <1>6, <1>7, <1>8, <1>9, <1>10, <1>11, <1>12, <1>13,
     <1>14, <1>15, <1>16, NextCases

\* The transactions a session may have open.
LEMMA TxTypes ==
    /\ \A id \in MalIds, b \in BOOLEAN :
          [NoTx EXCEPT !.at = "selected", !.id = id, !.found = b] \in Transactions
    /\ \A t \in Transactions : [t EXCEPT !.at = "written"] \in Transactions
    /\ \A id \in MalIds, l \in Listings :
          [NoTx EXCEPT !.at = "stored", !.id = id, !.list = l] \in Transactions
  BY Basics DEF NoTx, Transactions

\* The episodes of an anime and a list that does not clash with them.
Merged(n, list) == [e \in Episodes |-> IF list[e] # 0 THEN list[e] ELSE n[e]]

\* Together they have no number twice.
LEMMA MergedType ==
    ASSUME NEW n \in Listings, NEW list \in Listings, ~Clash(n, list)
    PROVE  Merged(n, list) \in Listings
  <1>1. n \in [Episodes -> 0 .. MaxNumber] /\ list \in [Episodes -> 0 .. MaxNumber]
    BY DEF Listings
  <1>2. Merged(n, list) \in [Episodes -> 0 .. MaxNumber]
    BY <1>1 DEF Merged
  <1>3. ASSUME NEW e \in Episodes, NEW f \in Episodes, e # f,
               Merged(n, list)[e] = Merged(n, list)[f]
        PROVE  Merged(n, list)[e] = 0
    BY <1>1, <1>3 DEF Merged, Clash, Listings
  <1> QED BY <1>2, <1>3 DEF Listings

\* CommitEpisodes stores a listing.
LEMMA CommitEpisodesType ==
    ASSUME IInv, NEW s \in Sessions, CommitEpisodes(s), pc[s] = "episodes"
    PROVE  /\ tx[s].id \in MalIds
           /\ number' \in [MalIds -> Listings]
           /\ number' = [number EXCEPT ![tx[s].id] = Merged(@, tx[s].list)]
  <1>1. tx[s].at = "stored" /\ tx[s].id \in MalIds
    BY DEF CommitEpisodes, IInv, Placed, PlacedAt
  <1>2. tx[s].list \in Listings /\ number[tx[s].id] \in Listings
    BY <1>1 DEF IInv, TypeOK, CatalogTypes, Transactions
  <1>3. ~Clash(number[tx[s].id], tx[s].list)
    BY <1>1 DEF IInv, Exclusive, StillTrue
  <1>4. number' = [number EXCEPT ![tx[s].id] = Merged(@, tx[s].list)]
    BY DEF CommitEpisodes, Merged
  <1>5. number \in [MalIds -> Listings]
    BY DEF IInv, TypeOK, CatalogTypes
  <1> QED BY <1>1, <1>2, <1>3, <1>4, <1>5, MergedType

\* The tables and the transactions of the catalog keep their types.
LEMMA CatalogTypesStep == IInv /\ [Next]_vars => CatalogTypes'
<1> SUFFICES ASSUME IInv, [Next]_vars PROVE CatalogTypes'
  OBVIOUS
<1> USE DEF CatalogTypes, catalogVars, tables, Rollback
<1>0. CatalogTypes
  BY DEF IInv, TypeOK
<1>1. CASE UNCHANGED catalogVars
  BY <1>0, <1>1
<1>2. ASSUME NEW s \in Sessions, JikanSync(s) PROVE CatalogTypes'
  <2>1. arg[s] \in MalIds
    BY <1>2 DEF JikanSync, IInv, Placed, PlacedAt
  <2>2. UNCHANGED tables
    BY <1>2 DEF JikanSync, SelectAnime
  <2>3. (arg[s] \in external) \in BOOLEAN
    BY SMT
  <2>4. \E b \in BOOLEAN :
          tx' = [tx EXCEPT ![s] = [NoTx EXCEPT !.at = "selected", !.id = arg[s], !.found = b]]
    BY <1>2, <2>3, Zenon DEF JikanSync, SelectAnime
  <2> QED BY <1>0, <2>1, <2>2, <2>4, TxTypes
<1>3. ASSUME NEW s \in Sessions, InsertOrUpdateAnime(s) PROVE CatalogTypes'
  BY <1>0, <1>3, TxTypes DEF InsertOrUpdateAnime
<1>4. ASSUME NEW s \in Sessions, CommitAnime(s), pc[s] = "upsert" PROVE CatalogTypes'
  <2>1. tx[s].id \in MalIds
    BY <1>4 DEF IInv, Placed, PlacedAt
  <2>2. external' \in SUBSET MalIds
    BY <1>0, <1>4, <2>1 DEF CommitAnime
  <2>3. anime' \in [MalIds -> Nat]
    <3>1. anime[tx[s].id] \in Nat /\ anime[tx[s].id] + 1 \in Nat
      BY <1>0, <2>1
    <3>2. \E n \in Nat : anime' = [anime EXCEPT ![tx[s].id] = n]
      BY <1>4, <3>1 DEF CommitAnime
    <3> QED BY <1>0, <2>1, <3>2
  <2>4. tx' \in [Sessions -> Transactions] /\ UNCHANGED <<slugs, number>>
    BY <1>0, <1>4, Basics DEF CommitAnime
  <2> QED
    BY <1>0, <2>2, <2>3, <2>4
<1>5. ASSUME NEW s \in Sessions, Rollback(s), UNCHANGED tables PROVE CatalogTypes'
  BY <1>0, <1>5, Basics
<1>6. ASSUME NEW s \in Sessions, UpsertEpisodes(s, arg[s], listed[s]), pc[s] = "episodes"
      PROVE  CatalogTypes'
  <2>1. arg[s] \in MalIds /\ listed[s] \in Listings
    BY <1>6 DEF IInv, TypeOK, Placed, PlacedAt
  <2> QED
    BY <1>0, <1>6, <2>1, TxTypes DEF UpsertEpisodes
<1>7. ASSUME NEW s \in Sessions, CommitEpisodes(s), pc[s] = "episodes" PROVE CatalogTypes'
  <2>1. number' \in [MalIds -> Listings] /\ tx[s].id \in MalIds
    BY <1>7, CommitEpisodesType
  <2>2. slugs' \in SUBSET MalIds
    BY <1>0, <1>7, <2>1 DEF CommitEpisodes
  <2>3. tx' = [tx EXCEPT ![s] = NoTx] /\ UNCHANGED <<anime, external>>
    BY <1>7 DEF CommitEpisodes
  <2>4. tx' \in [Sessions -> Transactions]
    BY <1>0, <2>3, Basics
  <2> QED
    BY <1>0, <2>1, <2>2, <2>3, <2>4
<1>8. ASSUME NEW r \in Replicas, Restart(r) PROVE CatalogTypes'
  BY <1>0, <1>8, Basics DEF Restart
<1>9. ASSUME NEW s \in Sessions, UpsertJikanAnime(s) PROVE CatalogTypes'
  BY <1>3, <1>4, <1>5, <1>9 DEF UpsertJikanAnime, AnimeRefused
<1>10. ASSUME NEW s \in Sessions, UpsertHiAnimeEpisodes(s) PROVE CatalogTypes'
  BY <1>1, <1>6, <1>7, <1>10 DEF UpsertHiAnimeEpisodes, EpisodesRefused
<1>11. ASSUME NEW s \in Sessions, JobError(s) PROVE CatalogTypes'
  BY <1>1, <1>4, <1>5, <1>7, <1>11 DEF JobError, Effect
<1> QED
  <2> HIDE DEF CatalogTypes
  <2> QED
    BY <1>1, <1>2, <1>8, <1>9, <1>10, <1>11, NextCases
       DEF vars, JikanPublish, SyncEpisodesByMALID, DeadLetter, Ack, Fetch, Trigger, LoopError,
           Stored, Redeliver, ProviderChanges

\* The parts of the type invariant besides the catalog.
StreamTypes ==
    /\ last \in 0 .. setup.messages
    /\ subject \in [Messages -> Subjects]
    /\ malID \in [Messages -> MalIds \cup Invalid \cup {0}]
    /\ ready \in SUBSET (1 .. last) /\ settled \in SUBSET (1 .. last)
    /\ delivered \in [Messages -> 0 .. MaxDeliver + 1]
    /\ dlq \in SUBSET (1 .. last) /\ dropped \in SUBSET (1 .. last)

SessionTypes ==
    /\ pc \in [Sessions -> Controls]
    /\ msg \in [Sessions -> 0 .. last]
    /\ arg \in [Sessions -> MalIds \cup Invalid \cup {0}]
    /\ listed \in [Sessions -> Listings]

OtherTypes ==
    /\ setup \in Setups
    /\ listing \in [MalIds -> Listings]
    /\ renumbered \in BOOLEAN /\ refused \in BOOLEAN
    /\ faults \in 0 .. setup.faults /\ changes \in 0 .. setup.changes

\* The type invariant is made of them.
LEMMA TypeParts == TypeOK <=> CatalogTypes /\ StreamTypes /\ SessionTypes /\ OtherTypes
  BY DEF TypeOK, StreamTypes, SessionTypes, OtherTypes

\* The setup never changes, and no job is taken out of the stream.
LEMMA StreamGrows ==
    ASSUME IInv, [Next]_vars
    PROVE  setup' = setup /\ last \in Nat /\ 0 .. last \subseteq 0 .. last'
<1> USE DEF streamVars, jobVars
<1>0. last \in Nat /\ TypeOK
  <2>1. setup.messages \in Nat
    BY Basics DEF IInv, TypeOK
  <2> QED BY <2>1 DEF IInv, TypeOK
<1>1. setup' = setup
  BY NextCases DEF vars, JikanSync, UpsertJikanAnime, JikanPublish, SyncEpisodesByMALID,
     UpsertHiAnimeEpisodes, DeadLetter, Ack, JobError, Fetch, Trigger, LoopError, Restart, Stored,
     Redeliver, ProviderChanges
<1>2. last' = last \/ last' = last + 1
  BY NextCases DEF vars, JikanSync, UpsertJikanAnime, JikanPublish, SyncEpisodesByMALID,
     UpsertHiAnimeEpisodes, DeadLetter, Ack, JobError, Effect, Fetch, Trigger, LoopError, Restart, Stored,
     Redeliver, ProviderChanges, PublishHiAnimeJob, PublishJob
<1> QED BY <1>0, <1>1, <1>2

\* The stream keeps its types: what is queued or settled is one of its jobs.
LEMMA StreamTypesStep == IInv /\ [Next]_vars => StreamTypes'
<1> SUFFICES ASSUME IInv, [Next]_vars PROVE StreamTypes'
  OBVIOUS
<1> USE DEF StreamTypes, streamVars, jobVars
<1>0. StreamTypes /\ setup' = setup /\ last \in Nat /\ TypeOK
  BY TypeParts, StreamGrows DEF IInv
<1>1. CASE UNCHANGED streamVars
  BY <1>0, <1>1
<1>2. ASSUME NEW q \in Subjects, NEW id \in MalIds \cup Invalid, PublishJob(q, id)
      PROVE  StreamTypes'
  BY <1>0, <1>2, PublishedJob
<1>3. ASSUME NEW s \in Sessions, JikanPublish(s) \/ JobError(s) PROVE StreamTypes'
  <2>1. pc[s] = "publish" /\ PublishHiAnimeJob(arg[s]) => StreamTypes'
    BY <1>2 DEF IInv, Placed, PlacedAt, PublishHiAnimeJob, Subjects
  <2> QED
    BY <1>1, <1>3, <2>1 DEF JikanPublish, JobError, Effect
<1>4. ASSUME NEW s \in Sessions, DeadLetter(s) \/ Ack(s) PROVE StreamTypes'
  <2>1. msg[s] \in 1 .. last
    BY <1>4 DEF DeadLetter, Ack, IInv, Placed, PlacedAt, Serves
  <2> QED
    BY <1>0, <1>4, <2>1 DEF DeadLetter, Ack, Settle
<1>5. ASSUME NEW s \in Sessions, NEW m \in ready, Fetch(s, m) PROVE StreamTypes'
  <2>1. MaxDeliver \in Nat
    BY IngestionAssumption DEF IngestionAssumption
  <2>2. setup.messages \in 0 .. MaxMessages /\ MaxMessages \in Nat
    BY Basics, IngestionAssumption DEF IngestionAssumption, IInv, TypeOK
  <2>3. m \in Messages
    BY <1>0, <2>2 DEF Messages
  <2>4. delivered' \in [Messages -> 0 .. MaxDeliver + 1]
    BY <1>0, <1>5, <2>1, <2>3 DEF Fetch
  <2> QED
    BY <1>0, <1>5, <2>4 DEF Fetch
<1>6. ASSUME NEW m \in 1 .. last, Redeliver(m) PROVE StreamTypes'
  BY <1>0, <1>6 DEF Redeliver
<1>7. ASSUME NEW q \in Subjects, NEW id \in MalIds \cup Invalid, Stored(q, id) PROVE StreamTypes'
  BY <1>2, <1>7 DEF Stored
<1> QED
  <2> HIDE DEF StreamTypes
  <2> QED
    BY <1>1, <1>3, <1>4, <1>5, <1>6, <1>7, NextCases
       DEF vars, JikanSync, UpsertJikanAnime, SyncEpisodesByMALID, UpsertHiAnimeEpisodes, Trigger,
           LoopError, Restart, ProviderChanges

\* So do the sessions.
LEMMA SessionTypesStep == IInv /\ [Next]_vars => SessionTypes'
<1> SUFFICES ASSUME IInv, [Next]_vars PROVE SessionTypes'
  OBVIOUS
<1> USE Basics DEF SessionTypes, sessionVars, Goto, Controls
<1>0. SessionTypes /\ last \in Nat /\ 0 .. last \subseteq 0 .. last' /\ 0 \in 0 .. last'
  BY TypeParts, StreamGrows DEF IInv
<1>1. CASE UNCHANGED sessionVars
  BY <1>0, <1>1
<1>2. ASSUME NEW s \in Sessions, Done(s) PROVE SessionTypes'
  BY <1>0, <1>2 DEF Done
<1>3. ASSUME NEW s \in Sessions, NEW p \in Controls, Goto(s, p), UNCHANGED <<msg, arg, listed>>
      PROVE  SessionTypes'
  BY <1>0, <1>3
<1>4. ASSUME NEW s \in Sessions, SyncEpisodesByMALID(s) PROVE SessionTypes'
  <2>1. arg[s] \in MalIds /\ listing \in [MalIds -> Listings]
    BY <1>4 DEF SyncEpisodesByMALID, IInv, TypeOK, Placed, PlacedAt
  <2> QED
    BY <1>0, <1>2, <1>4, <2>1 DEF SyncEpisodesByMALID, Failed
<1>5. ASSUME NEW s \in Sessions, NEW m \in ready, Fetch(s, m) PROVE SessionTypes'
  <2>1. m \in 0 .. last /\ malID[m] \in MalIds \cup Invalid
    BY DEF IInv, TypeOK, Placed
  <2> QED
    BY <1>0, <1>5, <2>1 DEF Fetch
<1>6. ASSUME NEW s \in Sessions, NEW id \in MalIds, Trigger(s, id) PROVE SessionTypes'
  BY <1>0, <1>6 DEF Trigger
<1>7. ASSUME NEW r \in Replicas, Restart(r) PROVE SessionTypes'
  BY <1>0, <1>7 DEF Restart
<1>8. ASSUME NEW s \in Sessions, UpsertJikanAnime(s) \/ UpsertHiAnimeEpisodes(s)
      PROVE  SessionTypes'
  <2> HIDE DEF SessionTypes
  <2> QED
    BY <1>1, <1>2, <1>3, <1>8 DEF UpsertJikanAnime, UpsertHiAnimeEpisodes, Succeed, Failed
<1> QED
  <2> HIDE DEF SessionTypes, Goto
  <2> QED
    BY <1>1, <1>2, <1>3, <1>4, <1>5, <1>6, <1>7, <1>8, NextCases
       DEF vars, JikanSync, JikanPublish, DeadLetter, Ack, JobError, Failed, LoopError, Stored,
           Redeliver, ProviderChanges

\* Every variable keeps its type.
LEMMA TypeStep == IInv /\ [Next]_vars => TypeOK'
<1> SUFFICES ASSUME IInv, [Next]_vars PROVE TypeOK'
  OBVIOUS
<1>1. OtherTypes'
  <2> USE DEF OtherTypes, providerVars, boundVars
  <2>0. OtherTypes /\ setup' = setup /\ setup.faults \in Nat /\ setup.changes \in Nat
    BY TypeParts, StreamGrows, IngestionAssumption DEF IInv, TypeOK, IngestionAssumption
  <2>1. ASSUME NEW s \in Sessions, UpsertHiAnimeEpisodes(s) PROVE OtherTypes'
    BY <2>0, <2>1 DEF UpsertHiAnimeEpisodes
  <2>2. ASSUME NEW s \in Loops, LoopError(s) PROVE OtherTypes'
    BY <2>0, <2>2 DEF LoopError, Fault
  <2>3. ASSUME NEW r \in Replicas, Restart(r) PROVE OtherTypes'
    BY <2>0, <2>3 DEF Restart, Fault
  <2>4. ASSUME NEW id \in MalIds, NEW n \in Listings, ProviderChanges(id, n) PROVE OtherTypes'
    BY <2>0, <2>4 DEF ProviderChanges
  <2>5. CASE UNCHANGED <<providerVars, boundVars>>
    BY <2>0, <2>5
  <2> QED
    <3> HIDE DEF OtherTypes
    <3> QED
      BY <2>1, <2>2, <2>3, <2>4, <2>5, NextCases
         DEF vars, JikanSync, UpsertJikanAnime, JikanPublish, SyncEpisodesByMALID, DeadLetter, Ack,
             JobError, Fetch, Trigger, Stored, Redeliver
<1> QED
  BY <1>1, CatalogTypesStep, StreamTypesStep, SessionTypesStep
     DEF TypeOK, StreamTypes, SessionTypes, OtherTypes

\* Locks keep the writers of an anime and of a slug apart, and what they found true.
LEMMA ExclusiveStep == IInv /\ [Next]_vars => Exclusive'
<1> SUFFICES ASSUME IInv, [Next]_vars PROVE Exclusive'
  OBVIOUS
<1> USE IngestionAssumption, CatalogAssumption DEF IInv, TypeOK, CatalogTypes, Placed, PlacedAt, Exclusive, OneWriter, StillTrue,
   streamVars, jobVars, providerVars, sessionVars, boundVars, catalogVars, tables, Goto,
   Done, Failed, Nak, Fault, NoTx
<1>1. CASE UNCHANGED vars
  BY <1>1 DEF vars
<1>2. ASSUME NEW s \in Sessions, JikanSync(s)
      PROVE  Exclusive'
  BY <1>2 DEF JikanSync, SelectAnime
<1>3. ASSUME NEW s \in Sessions, UpsertJikanAnime(s)
      PROVE  Exclusive'
  <2>1. CASE InsertOrUpdateAnime(s) /\ UNCHANGED <<streamVars, sessionVars>>
    <3>1. \A t \in Sessions \ {s} : tx[t].at = "written" => tx[t].id # tx[s].id
      BY <2>1 DEF InsertOrUpdateAnime, Written
    <3>2. tx[s].found <=> tx[s].id \in external
      BY <2>1 DEF InsertOrUpdateAnime, Taken
    <3> QED
      BY <1>3, <2>1, <3>1, <3>2 DEF UpsertJikanAnime, InsertOrUpdateAnime
  <2>2. CASE CommitAnime(s) /\ Succeed(s, "publish") /\ UNCHANGED streamVars
    BY <1>3, <2>2 DEF UpsertJikanAnime, CommitAnime, Succeed, Rollback
  <2>3. CASE AnimeRefused(s) /\ Failed(s) /\ UNCHANGED streamVars
    BY <1>3, <2>3 DEF UpsertJikanAnime, AnimeRefused, Rollback
  <2> QED
    BY <1>3, <2>1, <2>2, <2>3 DEF UpsertJikanAnime
<1>4. ASSUME NEW s \in Sessions, JikanPublish(s)
      PROVE  Exclusive'
  <2>1. PublishJob("ingestion.hianime.sync", arg[s]) /\ arg[s] \in MalIds
    BY <1>4 DEF JikanPublish, PublishHiAnimeJob
  <2>2. "ingestion.hianime.sync" \in Subjects
    BY DEF Subjects
  <2> HIDE DEF TypeOK
  <2> QED
    BY <1>4, <2>1, <2>2, PublishedJob DEF JikanPublish
<1>5. ASSUME NEW s \in Sessions, SyncEpisodesByMALID(s)
      PROVE  Exclusive'
  BY <1>5 DEF SyncEpisodesByMALID
<1>6. ASSUME NEW s \in Sessions, UpsertHiAnimeEpisodes(s)
      PROVE  Exclusive'
  <2>1. CASE UpsertEpisodes(s, arg[s], listed[s]) /\ UNCHANGED <<streamVars, sessionVars, refused>>
    <3>1. \A t \in Sessions \ {s} : tx[t].at = "stored" => tx[t].id # arg[s]
      BY <2>1 DEF UpsertEpisodes, Written
    <3>2. ~Clash(number[arg[s]], listed[s])
      BY <2>1 DEF UpsertEpisodes, Conflict, Clash
    <3> QED
      BY <1>6, <2>1, <3>1, <3>2 DEF UpsertHiAnimeEpisodes, UpsertEpisodes
  <2>2. CASE CommitEpisodes(s) /\ Succeed(s, "ack") /\ UNCHANGED <<streamVars, refused>>
    BY <1>6, <2>2 DEF UpsertHiAnimeEpisodes, CommitEpisodes, Succeed, Rollback
  <2>3. CASE EpisodesRefused(s, arg[s], listed[s]) /\ refused' = TRUE /\ Failed(s) /\ UNCHANGED streamVars
    BY <1>6, <2>3 DEF UpsertHiAnimeEpisodes, EpisodesRefused
  <2> QED
    BY <1>6, <2>1, <2>2, <2>3 DEF UpsertHiAnimeEpisodes
<1>7. ASSUME NEW s \in Sessions, DeadLetter(s)
      PROVE  Exclusive'
  BY <1>7 DEF DeadLetter
<1>8. ASSUME NEW s \in Sessions, Ack(s)
      PROVE  Exclusive'
  BY <1>8 DEF Ack, Settle
<1>9. ASSUME NEW s \in Sessions, JobError(s)
      PROVE  Exclusive'
  <2>1. CASE Rollback(s) /\ UNCHANGED <<tables, streamVars>>
    BY <1>9, <2>1 DEF JobError, Rollback
  <2>2. CASE pc[s] = "upsert" /\ CommitAnime(s) /\ UNCHANGED streamVars
    BY <1>9, <2>2 DEF JobError, CommitAnime, Rollback
  <2>3. CASE pc[s] = "episodes" /\ CommitEpisodes(s) /\ UNCHANGED streamVars
    BY <1>9, <2>3 DEF JobError, CommitEpisodes, Rollback
  <2>4. CASE pc[s] = "publish" /\ PublishHiAnimeJob(arg[s]) /\ UNCHANGED catalogVars
    <3>1. PublishJob("ingestion.hianime.sync", arg[s]) /\ arg[s] \in MalIds
      BY <1>9, <2>4 DEF PublishHiAnimeJob
    <3>2. "ingestion.hianime.sync" \in Subjects
      BY DEF Subjects
    <3>3. /\ pc \in [Sessions -> Controls] /\ msg \in [Sessions -> 0 .. last]
          /\ arg \in [Sessions -> MalIds \cup Invalid \cup {0}]
          /\ tx \in [Sessions -> Transactions]
      OBVIOUS
    <3> HIDE DEF TypeOK
    <3> QED
      BY <1>9, <2>4, <3>1, <3>2, <3>3, PublishedJob DEF JobError
  <2> QED
    BY <1>9, <2>1, <2>2, <2>3, <2>4 DEF JobError, Effect
<1>10. ASSUME NEW s \in Sessions, NEW m \in ready, Fetch(s, m)
      PROVE  Exclusive'
  BY <1>10 DEF Fetch
<1>11. ASSUME NEW s \in Loops, LoopError(s)
      PROVE  Exclusive'
  BY <1>11 DEF LoopError
<1>12. ASSUME NEW r \in Replicas, Restart(r)
      PROVE  Exclusive'
  BY <1>12 DEF Restart
<1>13. ASSUME NEW q \in Subjects, NEW id \in MalIds \cup Invalid, Stored(q, id)
      PROVE  Exclusive'
  <2>1. PublishJob(q, id) /\ (q = "ingestion.hianime.sync" => id \in Invalid)
    BY <1>13 DEF Stored
  <2> HIDE DEF TypeOK
  <2> QED
    BY <1>13, <2>1, PublishedJob DEF Stored
<1>14. ASSUME NEW s \in Sessions, NEW id \in MalIds, s \notin Loops, Trigger(s, id)
      PROVE  Exclusive'
  BY <1>14 DEF Trigger
<1>15. ASSUME NEW m \in 1 .. last, Redeliver(m)
      PROVE  Exclusive'
  BY <1>15 DEF Redeliver
<1>16. ASSUME NEW id \in MalIds, NEW n \in Listings, ProviderChanges(id, n)
      PROVE  Exclusive'
  BY <1>16 DEF ProviderChanges
<1> QED
  BY <1>1, <1>2, <1>3, <1>4, <1>5, <1>6, <1>7, <1>8, <1>9, <1>10, <1>11, <1>12, <1>13,
     <1>14, <1>15, <1>16, NextCases

\* What a loop's job is, by the kind of the loop.
LEMMA LoopJob ==
    ASSUME IInv, NEW s \in Loops, pc[s] \notin {"idle", "dead"}
    PROVE  /\ s \in Sessions /\ msg[s] \in 1 .. last /\ malID[msg[s]] = arg[s]
           /\ subject[msg[s]] = IF IsJikan(s) THEN "ingestion.jikan.sync"
                                ELSE "ingestion.hianime.sync"
  <1>1. s \in Sessions /\ s[2] \in Subjects
    BY Basics DEF Loops
  <1>2. Serves(s)
    BY <1>1 DEF IInv, Placed, PlacedAt
  <1> QED BY <1>1, <1>2 DEF Serves, IsJikan, Subjects

\* A job that is done stays done when another one is stored.
LEMMA SyncedKept ==
    ASSUME TypeOK, NEW q \in Subjects, NEW id \in MalIds \cup Invalid, PublishJob(q, id),
           UNCHANGED catalogVars
    PROVE  \A m \in 1 .. last : Synced(m) => Synced(m)'
  BY PublishedJob DEF Synced, Jobs, catalogVars, tables

\* What is done of a job stays done.
LEMMA ArrivedStep == IInv /\ [Next]_vars => Arrived'
<1> SUFFICES ASSUME IInv, [Next]_vars PROVE Arrived'
  OBVIOUS
<1> USE IngestionAssumption, CatalogAssumption DEF IInv, TypeOK, CatalogTypes, Placed, PlacedAt, Serves, Arrived, Synced, Jobs,
   streamVars, jobVars, providerVars, sessionVars, boundVars, catalogVars, tables, Goto,
   Done, Failed, Nak, Fault
<1>1. CASE UNCHANGED vars
  BY <1>1 DEF vars
<1>2. ASSUME NEW s \in Sessions, JikanSync(s)
      PROVE  Arrived'
  BY <1>2 DEF JikanSync, SelectAnime
<1>3. ASSUME NEW s \in Sessions, UpsertJikanAnime(s)
      PROVE  Arrived'
  <2>1. CASE InsertOrUpdateAnime(s) /\ UNCHANGED <<streamVars, sessionVars>>
    BY <1>3, <2>1 DEF UpsertJikanAnime, InsertOrUpdateAnime
  <2>2. CASE CommitAnime(s) /\ Succeed(s, "publish") /\ UNCHANGED streamVars
    BY <1>3, <2>2 DEF UpsertJikanAnime, CommitAnime, Succeed, Rollback
  <2>3. CASE AnimeRefused(s) /\ Failed(s) /\ UNCHANGED streamVars
    BY <1>3, <2>3 DEF UpsertJikanAnime, AnimeRefused, Rollback
  <2> QED
    BY <1>3, <2>1, <2>2, <2>3 DEF UpsertJikanAnime
<1>4. ASSUME NEW s \in Sessions, JikanPublish(s)
      PROVE  Arrived'
  <2>1. PublishJob("ingestion.hianime.sync", arg[s]) /\ arg[s] \in MalIds /\ UNCHANGED catalogVars
    BY <1>4 DEF JikanPublish, PublishHiAnimeJob
  <2>2. "ingestion.hianime.sync" \in Subjects /\ TypeOK
    BY DEF Subjects
  <2>3. /\ msg[s] \in 1 .. last /\ malID[msg[s]] = arg[s] /\ arg[s] \in external
        /\ subject[msg[s]] = "ingestion.jikan.sync"
    BY <1>4, LoopJob DEF JikanPublish
  <2>4. /\ \A m \in 1 .. last : subject'[m] = subject[m] /\ malID'[m] = malID[m]
        /\ last' \in 1 .. last' /\ subject'[last'] = "ingestion.hianime.sync"
        /\ malID'[last'] = arg[s] /\ UNCHANGED <<dlq, dropped>>
    BY <2>1, <2>2, PublishedJob
  <2>5. Synced(msg[s])'
    BY <1>4, <2>1, <2>3, <2>4 DEF JikanPublish
  <2>6. ASSUME NEW t \in Sessions, t # s, pc[t] = "ack"
        PROVE  Synced(msg[t])' \/ msg[t] \in (dlq \cup dropped)'
    <3>1. msg[t] \in 1 .. last /\ (Synced(msg[t]) \/ msg[t] \in dlq \cup dropped)
      BY <2>6
    <3>2. \A m \in 1 .. last : Synced(m) => Synced(m)'
      BY <2>1, <2>2, SyncedKept
    <3> QED
      BY <1>4, <2>4, <3>1, <3>2 DEF JikanPublish
  <2> QED
    <3>1. /\ pc' = [pc EXCEPT ![s] = "ack"] /\ UNCHANGED <<msg, arg, external>>
          /\ pc \in [Sessions -> Controls]
      BY <1>4, <2>1 DEF JikanPublish
    <3> HIDE DEF TypeOK, Synced
    <3> QED
      BY <1>4, <2>4, <2>5, <2>6, <3>1
<1>5. ASSUME NEW s \in Sessions, SyncEpisodesByMALID(s)
      PROVE  Arrived'
  BY <1>5 DEF SyncEpisodesByMALID
<1>6. ASSUME NEW s \in Sessions, UpsertHiAnimeEpisodes(s)
      PROVE  Arrived'
  <2>1. CASE UpsertEpisodes(s, arg[s], listed[s]) /\ UNCHANGED <<streamVars, sessionVars, refused>>
    BY <1>6, <2>1 DEF UpsertHiAnimeEpisodes, UpsertEpisodes
  <2>2. CASE CommitEpisodes(s) /\ Succeed(s, "ack") /\ UNCHANGED <<streamVars, refused>>
    <3>2. s \in Loops => /\ malID[msg[s]] = arg[s] /\ tx[s].id = arg[s]
                         /\ subject[msg[s]] = "ingestion.hianime.sync"
      BY <1>6, <2>2, LoopJob DEF UpsertHiAnimeEpisodes, CommitEpisodes
    <3>3. slugs' = slugs \cup {tx[s].id} /\ UNCHANGED <<external, streamVars>>
      BY <2>2 DEF CommitEpisodes
    <3>4. CASE s \in Loops
      BY <1>6, <2>2, <3>2, <3>3, <3>4 DEF Succeed
    <3>5. CASE s \notin Loops
      BY <1>6, <2>2, <3>3, <3>5 DEF Succeed
    <3> QED BY <3>4, <3>5
  <2>3. CASE EpisodesRefused(s, arg[s], listed[s]) /\ refused' = TRUE /\ Failed(s) /\ UNCHANGED streamVars
    BY <1>6, <2>3 DEF UpsertHiAnimeEpisodes, EpisodesRefused
  <2> QED
    BY <1>6, <2>1, <2>2, <2>3 DEF UpsertHiAnimeEpisodes
<1>7. ASSUME NEW s \in Sessions, DeadLetter(s)
      PROVE  Arrived'
  BY <1>7 DEF DeadLetter
<1>8. ASSUME NEW s \in Sessions, Ack(s)
      PROVE  Arrived'
  BY <1>8 DEF Ack, Settle
<1>9. ASSUME NEW s \in Sessions, JobError(s)
      PROVE  Arrived'
  <2>1. CASE Rollback(s) /\ UNCHANGED <<tables, streamVars>>
    BY <1>9, <2>1 DEF JobError, Rollback
  <2>2. CASE pc[s] = "upsert" /\ CommitAnime(s) /\ UNCHANGED streamVars
    BY <1>9, <2>2 DEF JobError, CommitAnime, Rollback
  <2>3. CASE pc[s] = "episodes" /\ CommitEpisodes(s) /\ UNCHANGED streamVars
    BY <1>9, <2>3 DEF JobError, CommitEpisodes, Rollback
  <2>4. CASE pc[s] = "publish" /\ PublishHiAnimeJob(arg[s]) /\ UNCHANGED catalogVars
    <3>1. PublishJob("ingestion.hianime.sync", arg[s]) /\ arg[s] \in MalIds
      BY <1>9, <2>4 DEF PublishHiAnimeJob
    <3>2. "ingestion.hianime.sync" \in Subjects
      BY DEF Subjects
    <3>3. /\ pc \in [Sessions -> Controls] /\ msg \in [Sessions -> 0 .. last]
          /\ arg \in [Sessions -> MalIds \cup Invalid \cup {0}]
          /\ tx \in [Sessions -> Transactions]
      OBVIOUS
    <3> HIDE DEF TypeOK
    <3> QED
      BY <1>9, <2>4, <3>1, <3>2, <3>3, PublishedJob DEF JobError
  <2> QED
    BY <1>9, <2>1, <2>2, <2>3, <2>4 DEF JobError, Effect
<1>10. ASSUME NEW s \in Sessions, NEW m \in ready, Fetch(s, m)
      PROVE  Arrived'
  BY <1>10 DEF Fetch
<1>11. ASSUME NEW s \in Loops, LoopError(s)
      PROVE  Arrived'
  BY <1>11 DEF LoopError
<1>12. ASSUME NEW r \in Replicas, Restart(r)
      PROVE  Arrived'
  BY <1>12 DEF Restart
<1>13. ASSUME NEW q \in Subjects, NEW id \in MalIds \cup Invalid, Stored(q, id)
      PROVE  Arrived'
  <2>1. PublishJob(q, id) /\ (q = "ingestion.hianime.sync" => id \in Invalid)
    BY <1>13 DEF Stored
  <2> HIDE DEF TypeOK
  <2> QED
    BY <1>13, <2>1, PublishedJob DEF Stored
<1>14. ASSUME NEW s \in Sessions, NEW id \in MalIds, s \notin Loops, Trigger(s, id)
      PROVE  Arrived'
  BY <1>14 DEF Trigger
<1>15. ASSUME NEW m \in 1 .. last, Redeliver(m)
      PROVE  Arrived'
  BY <1>15 DEF Redeliver
<1>16. ASSUME NEW id \in MalIds, NEW n \in Listings, ProviderChanges(id, n)
      PROVE  Arrived'
  BY <1>16 DEF ProviderChanges
<1> QED
  BY <1>1, <1>2, <1>3, <1>4, <1>5, <1>6, <1>7, <1>8, <1>9, <1>10, <1>11, <1>12, <1>13,
     <1>14, <1>15, <1>16, NextCases

\* One row for an anime; jobs for episodes and episodes are of anime that are there.
LEMMA OneAnimeStep == IInv /\ [Next]_vars => OneAnimePerMalID'
<1> SUFFICES ASSUME IInv, [Next]_vars PROVE OneAnimePerMalID'
  OBVIOUS
<1> USE IngestionAssumption, CatalogAssumption DEF IInv, TypeOK, CatalogTypes, Placed, PlacedAt, Exclusive, OneWriter, StillTrue,
   Arrived, OneAnimePerMalID, streamVars, jobVars, providerVars, sessionVars, boundVars,
   catalogVars, tables, Goto, Done, Failed, Nak, Fault
<1>1. CASE UNCHANGED vars
  BY <1>1 DEF vars
<1>2. ASSUME NEW s \in Sessions, JikanSync(s)
      PROVE  OneAnimePerMalID'
  BY <1>2 DEF JikanSync, SelectAnime
<1>3. ASSUME NEW s \in Sessions, UpsertJikanAnime(s)
      PROVE  OneAnimePerMalID'
  <2>1. CASE InsertOrUpdateAnime(s) /\ UNCHANGED <<streamVars, sessionVars>>
    BY <1>3, <2>1 DEF UpsertJikanAnime, InsertOrUpdateAnime
  <2>2. CASE CommitAnime(s) /\ Succeed(s, "publish") /\ UNCHANGED streamVars
    BY <1>3, <2>2 DEF UpsertJikanAnime, CommitAnime, Succeed, Rollback
  <2>3. CASE AnimeRefused(s) /\ Failed(s) /\ UNCHANGED streamVars
    BY <1>3, <2>3 DEF UpsertJikanAnime, AnimeRefused, Rollback
  <2> QED
    BY <1>3, <2>1, <2>2, <2>3 DEF UpsertJikanAnime
<1>4. ASSUME NEW s \in Sessions, JikanPublish(s)
      PROVE  OneAnimePerMalID'
  <2>1. PublishJob("ingestion.hianime.sync", arg[s]) /\ arg[s] \in MalIds
    BY <1>4 DEF JikanPublish, PublishHiAnimeJob
  <2>2. "ingestion.hianime.sync" \in Subjects
    BY DEF Subjects
  <2> HIDE DEF TypeOK
  <2> QED
    BY <1>4, <2>1, <2>2, PublishedJob DEF JikanPublish
<1>5. ASSUME NEW s \in Sessions, SyncEpisodesByMALID(s)
      PROVE  OneAnimePerMalID'
  BY <1>5 DEF SyncEpisodesByMALID
<1>6. ASSUME NEW s \in Sessions, UpsertHiAnimeEpisodes(s)
      PROVE  OneAnimePerMalID'
  <2>1. CASE UpsertEpisodes(s, arg[s], listed[s]) /\ UNCHANGED <<streamVars, sessionVars, refused>>
    BY <1>6, <2>1 DEF UpsertHiAnimeEpisodes, UpsertEpisodes
  <2>2. CASE CommitEpisodes(s) /\ Succeed(s, "ack") /\ UNCHANGED <<streamVars, refused>>
    BY <1>6, <2>2 DEF UpsertHiAnimeEpisodes, CommitEpisodes, Succeed, Rollback
  <2>3. CASE EpisodesRefused(s, arg[s], listed[s]) /\ refused' = TRUE /\ Failed(s) /\ UNCHANGED streamVars
    BY <1>6, <2>3 DEF UpsertHiAnimeEpisodes, EpisodesRefused
  <2> QED
    BY <1>6, <2>1, <2>2, <2>3 DEF UpsertHiAnimeEpisodes
<1>7. ASSUME NEW s \in Sessions, DeadLetter(s)
      PROVE  OneAnimePerMalID'
  BY <1>7 DEF DeadLetter
<1>8. ASSUME NEW s \in Sessions, Ack(s)
      PROVE  OneAnimePerMalID'
  BY <1>8 DEF Ack, Settle
<1>9. ASSUME NEW s \in Sessions, JobError(s)
      PROVE  OneAnimePerMalID'
  <2>1. CASE Rollback(s) /\ UNCHANGED <<tables, streamVars>>
    BY <1>9, <2>1 DEF JobError, Rollback
  <2>2. CASE pc[s] = "upsert" /\ CommitAnime(s) /\ UNCHANGED streamVars
    BY <1>9, <2>2 DEF JobError, CommitAnime, Rollback
  <2>3. CASE pc[s] = "episodes" /\ CommitEpisodes(s) /\ UNCHANGED streamVars
    BY <1>9, <2>3 DEF JobError, CommitEpisodes, Rollback
  <2>4. CASE pc[s] = "publish" /\ PublishHiAnimeJob(arg[s]) /\ UNCHANGED catalogVars
    <3>1. PublishJob("ingestion.hianime.sync", arg[s]) /\ arg[s] \in external
      BY <1>9, <2>4 DEF PublishHiAnimeJob
    <3>2. "ingestion.hianime.sync" \in Subjects /\ arg[s] \in MalIds /\ TypeOK
      BY <1>9, <2>4 DEF Subjects
    <3>3. /\ 1 .. last' = (1 .. last) \cup {last'} /\ malID'[last'] = arg[s]
          /\ \A m \in 1 .. last : subject'[m] = subject[m] /\ malID'[m] = malID[m]
      BY <3>1, <3>2, PublishedJob
    <3> HIDE DEF TypeOK
    <3> QED
      BY <2>4, <3>1, <3>3
  <2> QED
    BY <1>9, <2>1, <2>2, <2>3, <2>4 DEF JobError, Effect
<1>10. ASSUME NEW s \in Sessions, NEW m \in ready, Fetch(s, m)
      PROVE  OneAnimePerMalID'
  BY <1>10 DEF Fetch
<1>11. ASSUME NEW s \in Loops, LoopError(s)
      PROVE  OneAnimePerMalID'
  BY <1>11 DEF LoopError
<1>12. ASSUME NEW r \in Replicas, Restart(r)
      PROVE  OneAnimePerMalID'
  BY <1>12 DEF Restart
<1>13. ASSUME NEW q \in Subjects, NEW id \in MalIds \cup Invalid, Stored(q, id)
      PROVE  OneAnimePerMalID'
  <2>1. PublishJob(q, id) /\ (q = "ingestion.hianime.sync" => id \in Invalid)
    BY <1>13 DEF Stored
  <2> HIDE DEF TypeOK
  <2> QED
    BY <1>13, <2>1, PublishedJob DEF Stored
<1>14. ASSUME NEW s \in Sessions, NEW id \in MalIds, s \notin Loops, Trigger(s, id)
      PROVE  OneAnimePerMalID'
  BY <1>14 DEF Trigger
<1>15. ASSUME NEW m \in 1 .. last, Redeliver(m)
      PROVE  OneAnimePerMalID'
  BY <1>15 DEF Redeliver
<1>16. ASSUME NEW id \in MalIds, NEW n \in Listings, ProviderChanges(id, n)
      PROVE  OneAnimePerMalID'
  BY <1>16 DEF ProviderChanges
<1> QED
  BY <1>1, <1>2, <1>3, <1>4, <1>5, <1>6, <1>7, <1>8, <1>9, <1>10, <1>11, <1>12, <1>13,
     <1>14, <1>15, <1>16, NextCases

\* Storing a job loses none.
LEMMA LostPublish ==
    ASSUME IInv, NEW q \in Subjects, NEW id \in MalIds \cup Invalid, PublishJob(q, id),
           UNCHANGED catalogVars
    PROVE  NoJobLost'
  <1>1. \A m \in 1 .. last : Synced(m) => Synced(m)'
    BY SyncedKept DEF IInv
  <1>2. settled \subseteq 1 .. last /\ UNCHANGED <<settled, dlq, dropped>>
    BY PublishedJob DEF IInv, TypeOK
  <1> QED BY <1>1, <1>2 DEF IInv, NoJobLost

\* No job is lost.
LEMMA LostStep == IInv /\ [Next]_vars => NoJobLost'
<1> SUFFICES ASSUME IInv, [Next]_vars PROVE NoJobLost'
  OBVIOUS
<1> USE IngestionAssumption, CatalogAssumption DEF IInv, TypeOK, CatalogTypes, Placed, PlacedAt, Serves, Arrived, Synced, Jobs,
   NoJobLost, streamVars, jobVars, providerVars, sessionVars, boundVars, catalogVars,
   tables, Goto, Done, Failed, Nak, Fault
<1>1. CASE UNCHANGED vars
  BY <1>1 DEF vars
<1>2. ASSUME NEW s \in Sessions, JikanSync(s)
      PROVE  NoJobLost'
  BY <1>2 DEF JikanSync, SelectAnime
<1>3. ASSUME NEW s \in Sessions, UpsertJikanAnime(s)
      PROVE  NoJobLost'
  <2>1. CASE InsertOrUpdateAnime(s) /\ UNCHANGED <<streamVars, sessionVars>>
    BY <1>3, <2>1 DEF UpsertJikanAnime, InsertOrUpdateAnime
  <2>2. CASE CommitAnime(s) /\ Succeed(s, "publish") /\ UNCHANGED streamVars
    BY <1>3, <2>2 DEF UpsertJikanAnime, CommitAnime, Succeed, Rollback
  <2>3. CASE AnimeRefused(s) /\ Failed(s) /\ UNCHANGED streamVars
    BY <1>3, <2>3 DEF UpsertJikanAnime, AnimeRefused, Rollback
  <2> QED
    BY <1>3, <2>1, <2>2, <2>3 DEF UpsertJikanAnime
<1>4. ASSUME NEW s \in Sessions, JikanPublish(s)
      PROVE  NoJobLost'
  <2>1. PublishJob("ingestion.hianime.sync", arg[s]) /\ arg[s] \in MalIds /\ UNCHANGED catalogVars
    BY <1>4 DEF JikanPublish, PublishHiAnimeJob
  <2> QED
    BY <2>1, LostPublish DEF Subjects
<1>5. ASSUME NEW s \in Sessions, SyncEpisodesByMALID(s)
      PROVE  NoJobLost'
  <2>1. UNCHANGED <<streamVars, external, slugs>>
    BY <1>5 DEF SyncEpisodesByMALID
  <2> QED BY <2>1
<1>6. ASSUME NEW s \in Sessions, UpsertHiAnimeEpisodes(s)
      PROVE  NoJobLost'
  <2>1. CASE UpsertEpisodes(s, arg[s], listed[s]) /\ UNCHANGED <<streamVars, sessionVars, refused>>
    BY <1>6, <2>1 DEF UpsertHiAnimeEpisodes, UpsertEpisodes
  <2>2. CASE CommitEpisodes(s) /\ Succeed(s, "ack") /\ UNCHANGED <<streamVars, refused>>
    BY <1>6, <2>2 DEF UpsertHiAnimeEpisodes, CommitEpisodes, Succeed, Rollback
  <2>3. CASE EpisodesRefused(s, arg[s], listed[s]) /\ refused' = TRUE /\ Failed(s) /\ UNCHANGED streamVars
    BY <1>6, <2>3 DEF UpsertHiAnimeEpisodes, EpisodesRefused
  <2> QED
    BY <1>6, <2>1, <2>2, <2>3 DEF UpsertHiAnimeEpisodes
<1>7. ASSUME NEW s \in Sessions, DeadLetter(s)
      PROVE  NoJobLost'
  BY <1>7 DEF DeadLetter
<1>8. ASSUME NEW s \in Sessions, Ack(s)
      PROVE  NoJobLost'
  BY <1>8 DEF Ack, Settle
<1>9. ASSUME NEW s \in Sessions, JobError(s)
      PROVE  NoJobLost'
  <2>1. CASE Rollback(s) /\ UNCHANGED <<tables, streamVars>>
    BY <1>9, <2>1 DEF JobError, Rollback
  <2>2. CASE pc[s] = "upsert" /\ CommitAnime(s) /\ UNCHANGED streamVars
    BY <1>9, <2>2 DEF JobError, CommitAnime, Rollback
  <2>3. CASE pc[s] = "episodes" /\ CommitEpisodes(s) /\ UNCHANGED streamVars
    BY <1>9, <2>3 DEF JobError, CommitEpisodes, Rollback
  <2>4. CASE pc[s] = "publish" /\ PublishHiAnimeJob(arg[s]) /\ UNCHANGED catalogVars
    <3>1. PublishJob("ingestion.hianime.sync", arg[s]) /\ arg[s] \in MalIds
      BY <1>9, <2>4 DEF PublishHiAnimeJob
    <3> QED
      BY <2>4, <3>1, LostPublish DEF Subjects
  <2> QED
    BY <1>9, <2>1, <2>2, <2>3, <2>4 DEF JobError, Effect
<1>10. ASSUME NEW s \in Sessions, NEW m \in ready, Fetch(s, m)
      PROVE  NoJobLost'
  BY <1>10 DEF Fetch
<1>11. ASSUME NEW s \in Loops, LoopError(s)
      PROVE  NoJobLost'
  BY <1>11 DEF LoopError
<1>12. ASSUME NEW r \in Replicas, Restart(r)
      PROVE  NoJobLost'
  BY <1>12 DEF Restart
<1>13. ASSUME NEW q \in Subjects, NEW id \in MalIds \cup Invalid, Stored(q, id)
      PROVE  NoJobLost'
  BY <1>13, LostPublish DEF Stored
<1>14. ASSUME NEW s \in Sessions, NEW id \in MalIds, s \notin Loops, Trigger(s, id)
      PROVE  NoJobLost'
  BY <1>14 DEF Trigger
<1>15. ASSUME NEW m \in 1 .. last, Redeliver(m)
      PROVE  NoJobLost'
  BY <1>15 DEF Redeliver
<1>16. ASSUME NEW id \in MalIds, NEW n \in Listings, ProviderChanges(id, n)
      PROVE  NoJobLost'
  BY <1>16 DEF ProviderChanges
<1> QED
  BY <1>1, <1>2, <1>3, <1>4, <1>5, <1>6, <1>7, <1>8, <1>9, <1>10, <1>11, <1>12, <1>13,
     <1>14, <1>15, <1>16, NextCases

\* Parts of one list never clash.
LEMMA PartsAgree ==
    ASSUME NEW n \in Listings, NEW list \in Listings, NEW all \in Listings,
           PartOf(n, all), PartOf(list, all)
    PROVE  ~Clash(n, list) /\ PartOf(Merged(n, list), all)
  <1>1. \A e \in Episodes : /\ n[e] \in {0, all[e]} /\ list[e] \in {0, all[e]}
    BY DEF PartOf
  <1>2. \A e, f \in Episodes : e # f /\ all[e] = all[f] => all[e] = 0
    BY DEF Listings
  <1>3. ~Clash(n, list)
    BY <1>1, <1>2 DEF Clash
  <1>4. PartOf(Merged(n, list), all)
    BY <1>1 DEF PartOf, Merged
  <1> QED BY <1>3, <1>4

\* A commit of episodes stores a part of the list.
LEMMA AgreedCommit ==
    ASSUME IInv, NEW s \in Sessions, CommitEpisodes(s), pc[s] = "episodes",
           UNCHANGED <<listing, renumbered>>, ~renumbered
    PROVE  \A id \in MalIds : PartOf(number'[id], listing'[id])
  <1>1. /\ tx[s].id \in MalIds
        /\ number' = [number EXCEPT ![tx[s].id] = Merged(@, tx[s].list)]
    BY CommitEpisodesType
  <1>2. tx[s].at = "stored"
    BY DEF CommitEpisodes
  <1>3. /\ tx[s].list \in Listings /\ number[tx[s].id] \in Listings
        /\ listing[tx[s].id] \in Listings /\ number \in [MalIds -> Listings]
    BY <1>1 DEF IInv, TypeOK, CatalogTypes, Transactions
  <1>4. /\ PartOf(tx[s].list, listing[tx[s].id])
        /\ \A id \in MalIds : PartOf(number[id], listing[id])
    BY <1>1, <1>2 DEF IInv, Agreed
  <1>5. PartOf(Merged(number[tx[s].id], tx[s].list), listing[tx[s].id])
    BY <1>1, <1>3, <1>4, PartsAgree
  <1> QED BY <1>1, <1>3, <1>4, <1>5

\* Lists on their way stay parts of what HiAnime lists.
LEMMA AgreedStep == IInv /\ [Next]_vars => Agreed'
<1> SUFFICES ASSUME IInv, [Next]_vars PROVE Agreed'
  OBVIOUS
<1> USE IngestionAssumption, CatalogAssumption DEF IInv, TypeOK, CatalogTypes, Placed, PlacedAt, Agreed, EpisodesAccepted, NoTx,
   streamVars, jobVars, providerVars, sessionVars, boundVars, catalogVars, tables, Goto,
   Done, Failed, Nak, Fault
<1>1. CASE UNCHANGED vars
  BY <1>1 DEF vars
<1>2. ASSUME NEW s \in Sessions, JikanSync(s)
      PROVE  Agreed'
  BY <1>2 DEF JikanSync, SelectAnime
<1>3. ASSUME NEW s \in Sessions, UpsertJikanAnime(s)
      PROVE  Agreed'
  <2>1. CASE InsertOrUpdateAnime(s) /\ UNCHANGED <<streamVars, sessionVars>>
    BY <1>3, <2>1 DEF UpsertJikanAnime, InsertOrUpdateAnime
  <2>2. CASE CommitAnime(s) /\ Succeed(s, "publish") /\ UNCHANGED streamVars
    BY <1>3, <2>2 DEF UpsertJikanAnime, CommitAnime, Succeed, Rollback
  <2>3. CASE AnimeRefused(s) /\ Failed(s) /\ UNCHANGED streamVars
    BY <1>3, <2>3 DEF UpsertJikanAnime, AnimeRefused, Rollback
  <2> QED
    BY <1>3, <2>1, <2>2, <2>3 DEF UpsertJikanAnime
<1>4. ASSUME NEW s \in Sessions, JikanPublish(s)
      PROVE  Agreed'
  <2>1. PublishJob("ingestion.hianime.sync", arg[s]) /\ arg[s] \in MalIds
    BY <1>4 DEF JikanPublish, PublishHiAnimeJob
  <2>2. "ingestion.hianime.sync" \in Subjects
    BY DEF Subjects
  <2> HIDE DEF TypeOK
  <2> QED
    BY <1>4, <2>1, <2>2, PublishedJob DEF JikanPublish
<1>5. ASSUME NEW s \in Sessions, SyncEpisodesByMALID(s)
      PROVE  Agreed'
  <2>1. arg[s] \in MalIds
    BY <1>5 DEF SyncEpisodesByMALID
  <2>2. PartOf(listing[arg[s]], listing[arg[s]])
    BY DEF PartOf
  <2> QED
    BY <1>5, <2>1, <2>2 DEF SyncEpisodesByMALID
<1>6. ASSUME NEW s \in Sessions, UpsertHiAnimeEpisodes(s)
      PROVE  Agreed'
  <2>1. CASE UpsertEpisodes(s, arg[s], listed[s]) /\ UNCHANGED <<streamVars, sessionVars, refused>>
    BY <1>6, <2>1 DEF UpsertHiAnimeEpisodes, UpsertEpisodes
  <2>2. CASE CommitEpisodes(s) /\ Succeed(s, "ack") /\ UNCHANGED <<streamVars, refused>>
    <3>1. ~renumbered' => \A id \in MalIds : PartOf(number'[id], listing'[id])
      BY <1>6, <2>2, AgreedCommit DEF UpsertHiAnimeEpisodes
    <3> QED
      BY <1>6, <2>2, <3>1 DEF UpsertHiAnimeEpisodes, CommitEpisodes, Succeed, Rollback
  <2>3. CASE EpisodesRefused(s, arg[s], listed[s]) /\ refused' = TRUE /\ Failed(s) /\ UNCHANGED streamVars
    <3>1. Clash(number[arg[s]], listed[s])
      BY <2>3 DEF EpisodesRefused, Conflict, Clash
    <3>2. /\ number[arg[s]] \in Listings /\ listed[s] \in Listings
          /\ listing[arg[s]] \in Listings /\ arg[s] \in MalIds
      BY <1>6 DEF UpsertHiAnimeEpisodes
    <3>3. renumbered
      BY <1>6, <3>1, <3>2, PartsAgree DEF UpsertHiAnimeEpisodes
    <3> QED
      BY <1>6, <2>3, <3>3 DEF UpsertHiAnimeEpisodes
  <2> QED
    BY <1>6, <2>1, <2>2, <2>3 DEF UpsertHiAnimeEpisodes
<1>7. ASSUME NEW s \in Sessions, DeadLetter(s)
      PROVE  Agreed'
  BY <1>7 DEF DeadLetter
<1>8. ASSUME NEW s \in Sessions, Ack(s)
      PROVE  Agreed'
  BY <1>8 DEF Ack, Settle
<1>9. ASSUME NEW s \in Sessions, JobError(s)
      PROVE  Agreed'
  <2>1. CASE Rollback(s) /\ UNCHANGED <<tables, streamVars>>
    BY <1>9, <2>1 DEF JobError, Rollback
  <2>2. CASE pc[s] = "upsert" /\ CommitAnime(s) /\ UNCHANGED streamVars
    BY <1>9, <2>2 DEF JobError, CommitAnime, Rollback
  <2>3. CASE pc[s] = "episodes" /\ CommitEpisodes(s) /\ UNCHANGED streamVars
    <3>1. ~renumbered' => \A id \in MalIds : PartOf(number'[id], listing'[id])
      BY <1>9, <2>3, AgreedCommit DEF JobError
    <3> QED
      BY <1>9, <2>3, <3>1 DEF JobError, CommitEpisodes, Rollback
  <2>4. CASE pc[s] = "publish" /\ PublishHiAnimeJob(arg[s]) /\ UNCHANGED catalogVars
    <3>1. PublishJob("ingestion.hianime.sync", arg[s]) /\ arg[s] \in MalIds
      BY <1>9, <2>4 DEF PublishHiAnimeJob
    <3>2. "ingestion.hianime.sync" \in Subjects
      BY DEF Subjects
    <3>3. /\ pc \in [Sessions -> Controls] /\ msg \in [Sessions -> 0 .. last]
          /\ arg \in [Sessions -> MalIds \cup Invalid \cup {0}]
          /\ tx \in [Sessions -> Transactions]
      OBVIOUS
    <3> HIDE DEF TypeOK
    <3> QED
      BY <1>9, <2>4, <3>1, <3>2, <3>3, PublishedJob DEF JobError
  <2> QED
    BY <1>9, <2>1, <2>2, <2>3, <2>4 DEF JobError, Effect
<1>10. ASSUME NEW s \in Sessions, NEW m \in ready, Fetch(s, m)
      PROVE  Agreed'
  BY <1>10 DEF Fetch
<1>11. ASSUME NEW s \in Loops, LoopError(s)
      PROVE  Agreed'
  BY <1>11 DEF LoopError
<1>12. ASSUME NEW r \in Replicas, Restart(r)
      PROVE  Agreed'
  BY <1>12 DEF Restart
<1>13. ASSUME NEW q \in Subjects, NEW id \in MalIds \cup Invalid, Stored(q, id)
      PROVE  Agreed'
  <2>1. PublishJob(q, id) /\ (q = "ingestion.hianime.sync" => id \in Invalid)
    BY <1>13 DEF Stored
  <2> HIDE DEF TypeOK
  <2> QED
    BY <1>13, <2>1, PublishedJob DEF Stored
<1>14. ASSUME NEW s \in Sessions, NEW id \in MalIds, s \notin Loops, Trigger(s, id)
      PROVE  Agreed'
  BY <1>14 DEF Trigger
<1>15. ASSUME NEW m \in 1 .. last, Redeliver(m)
      PROVE  Agreed'
  BY <1>15 DEF Redeliver
<1>16. ASSUME NEW id \in MalIds, NEW n \in Listings, ProviderChanges(id, n)
      PROVE  Agreed'
  <2>1. CASE renumbered'
    BY <1>16, <2>1 DEF ProviderChanges
  <2>2. CASE ~renumbered'
    <3>1. ~renumbered /\ \A e \in Episodes : listing[id][e] \in {0, n[e]}
      BY <1>16, <2>2 DEF ProviderChanges
    <3>2. listing' = [listing EXCEPT ![id] = n] /\ UNCHANGED <<refused, catalogVars, sessionVars>>
      BY <1>16 DEF ProviderChanges
    <3>3. ASSUME NEW j \in MalIds, NEW l, PartOf(l, listing[j]) PROVE PartOf(l, listing'[j])
      BY <3>1, <3>2, <3>3 DEF PartOf
    <3>4. \A t \in Sessions : tx[t].at = "stored" => tx[t].id \in MalIds
      OBVIOUS
    <3>5. \A t \in Sessions : pc[t] = "episodes" => arg[t] \in MalIds
      OBVIOUS
    <3> QED
      BY <2>2, <3>1, <3>2, <3>3, <3>4, <3>5
  <2> QED BY <2>1, <2>2
<1> QED
  BY <1>1, <1>2, <1>3, <1>4, <1>5, <1>6, <1>7, <1>8, <1>9, <1>10, <1>11, <1>12, <1>13,
     <1>14, <1>15, <1>16, NextCases

\* A step keeps every part.
LEMMA StepInv == IInv /\ [Next]_vars => IInv'
  BY PlacedStep, TypeStep, ExclusiveStep, ArrivedStep, OneAnimeStep, LostStep, AgreedStep DEF IInv

\* All parts hold together in every reachable state.
LEMMA Invariant == Spec => []IInv
  BY InitInv, StepInv, PTL DEF Spec

-----------------------------------------------------------------------------
(* Theorems.                                                               *)

\* Stream, tables, transactions and sessions are well typed in every reachable
\* state; in particular no anime ever has two episodes with one number.
THEOREM TypeCorrect == Spec => []TypeOK
  BY Invariant, PTL DEF IInv

\* However many replicas handle a job at once, whatever call fails and wherever
\* one of them is restarted, a job leaves the queue done or for the DLQ.
THEOREM JobsKept == Spec => []NoJobLost
  BY Invariant, PTL DEF IInv

\* Syncs of one anime by any number of sessions leave one row of it, and nothing
\* in the catalog or in the queue is about an anime that is not there.
THEOREM OneAnime == Spec => []OneAnimePerMalID
  BY Invariant, PTL DEF IInv

\* Overlapping and outdated lists of episodes are refused only after HiAnime has
\* renumbered.
THEOREM EpisodesTaken == Spec => []EpisodesAccepted
  <1>1. IInv => EpisodesAccepted
    BY DEF IInv, Agreed
  <1> QED BY <1>1, Invariant, PTL

=============================================================================
