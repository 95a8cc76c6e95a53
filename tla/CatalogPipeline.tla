-------------------------- MODULE CatalogPipeline ---------------------------
(***************************************************************************)
(* From a catalog write to the search index: the catalog store writes the  *)
(* anime and a row of catalog_outbox in one transaction, the outbox        *)
(* publisher moves rows to the stream CATALOG_EVENTS, the search indexer   *)
(* reads the anime back from the catalog and writes the document to Meili  *)
(* (services/catalog/internal/store and outbox, services/search/indexer).  *)
(*                                                                         *)
(* An event carries only an anime id, so the document written is the row   *)
(* as it was when the indexer read it.  The k-th message stored for row r   *)
(* of the outbox is <<r, k>>.  JetStream (external) resolves every         *)
(* asynchronous publish, redelivers what is not acknowledged, and drops    *)
(* messages older than seven days.  Meili (external) applies document      *)
(* writes in the order it accepts them; a request the indexer gave up on   *)
(* may still be accepted later where the deployment says so.               *)
(***************************************************************************)
EXTENDS Integers, FiniteSets

CONSTANTS
    Animes,
    Publishers,   \* outbox publishers, one per catalog replica
    Consumers,    \* event loops of the indexer, one per search replica
    Reindexers,   \* reindex loops (REINDEX_INTERVAL > 0)
    BatchSize,    \* rows per flush
    MaxVersion,   \* bound on the writes of one anime
    MaxRows,      \* bound on the rows of the outbox
    MaxFaults,    \* bound on failing calls and crashes
    Setups,       \* the deployments considered
    None

\* What runs, how many rows and messages lost to retention there may be, and
\* whether an abandoned document write may land later.
Deployments ==
    [publishers : SUBSET Publishers, reindexers : SUBSET Reindexers, rows : 0 .. MaxRows,
     expired : Nat, late : BOOLEAN]

ASSUME CatalogAssumption ==
    /\ BatchSize \in Nat \ {0}
    /\ MaxVersion \in Nat
    /\ MaxRows \in Nat
    /\ MaxFaults \in Nat
    /\ Setups \subseteq Deployments
    /\ Consumers \cap Reindexers = {}
    /\ None \notin Animes \cup (Nat \X Nat)

Rows == 1 .. MaxRows
Indexers == Consumers \cup Reindexers
Versions == 0 .. MaxVersion
Messages == Rows \X (Nat \ {0})

VARIABLES
    version,    \* table anime: version of the row, 0 when there is none
    rows,       \* table catalog_outbox: rows inserted so far
    rowAnime,   \* the anime a row is about
    outbox,     \* rows with published_at IS NULL
    items,      \* rows a publisher has selected FOR UPDATE
    sent,       \* those of them it has published in this flush
    ppc,        \* control point of a publisher
    stream,     \* messages of CATALOG_EVENTS not acknowledged
    ready,      \* those that may be delivered now
    late,       \* publishes of a row abandoned by their flush, still in flight
    publishes,  \* times a row was stored in the stream
    index,      \* the search index
    lateDocs,   \* abandoned document writes still in flight
    pc, msg, todo, cur, doc, \* an indexer's control point and locals
    faults, expired,
    setup       \* the deployment, chosen once

catalogVars == <<version, rows, rowAnime>>
publisherVars == <<outbox, items, sent, ppc>>
streamVars == <<stream, ready, late, publishes>>
indexerVars == <<pc, msg, todo, cur, doc>>
indexVars == <<index, lateDocs>>
vars == <<catalogVars, publisherVars, streamVars, indexVars, indexerVars, faults, expired, setup>>

CatalogTypes ==
    /\ version \in [Animes -> Versions]
    /\ rows \in 0 .. MaxRows
    /\ rowAnime \in [Rows -> Animes \cup {None}]
    /\ faults \in 0 .. MaxFaults
    /\ expired \in Nat
    /\ setup \in Setups

PublisherTypes ==
    /\ outbox \in SUBSET Rows
    /\ items \in [Publishers -> SUBSET Rows]
    /\ sent \in [Publishers -> SUBSET Rows]
    /\ ppc \in [Publishers -> {"idle", "publish", "mark"}]

StreamTypes ==
    /\ stream \in SUBSET Messages
    /\ ready \in SUBSET stream
    /\ late \in [Rows -> Nat]
    /\ publishes \in [Rows -> Nat]

IndexTypes ==
    /\ index \in [Animes -> Versions]
    /\ lateDocs \in SUBSET (Animes \X Versions)

IndexerTypes ==
    /\ pc \in [Indexers -> {"idle", "pick", "read", "write", "ack"}]
    /\ msg \in [Indexers -> Messages \cup {None}]
    /\ todo \in [Indexers -> SUBSET Animes]
    /\ cur \in [Indexers -> Animes \cup {None}]
    /\ doc \in [Indexers -> Versions]

\* Every variable keeps its type; a message always carries the number of a row
\* of the outbox, and what may be delivered is in the stream.
TypeOK == CatalogTypes /\ PublisherTypes /\ StreamTypes /\ IndexTypes /\ IndexerTypes

Init ==
    /\ version = [a \in Animes |-> 0]
    /\ rows = 0
    /\ rowAnime = [r \in Rows |-> None]
    /\ outbox = {}
    /\ items = [p \in Publishers |-> {}]
    /\ sent = [p \in Publishers |-> {}]
    /\ ppc = [p \in Publishers |-> "idle"]
    /\ stream = {}
    /\ ready = {}
    /\ late = [r \in Rows |-> 0]
    /\ publishes = [r \in Rows |-> 0]
    /\ index = [a \in Animes |-> 0]
    /\ lateDocs = {}
    /\ pc = [i \in Indexers |-> "idle"]
    /\ msg = [i \in Indexers |-> None]
    /\ todo = [i \in Indexers |-> {}]
    /\ cur = [i \in Indexers |-> None]
    /\ doc = [i \in Indexers |-> 0]
    /\ faults = 0
    /\ expired = 0
    /\ setup \in Setups

Fault == faults < MaxFaults /\ faults' = faults + 1

At(i, l, m, d, c, v) ==
    /\ pc' = [pc EXCEPT ![i] = l]
    /\ msg' = [msg EXCEPT ![i] = m]
    /\ todo' = [todo EXCEPT ![i] = d]
    /\ cur' = [cur EXCEPT ![i] = c]
    /\ doc' = [doc EXCEPT ![i] = v]

-----------------------------------------------------------------------------
(* Plausible bugs, each a variant of the operator of the same name below.  *)

InsertOutboxEventForgotten(a) == UNCHANGED <<rows, rowAnime, outbox>>
SelectableIgnoresLocks(p) == outbox
OldestAfterFirst(S) == {r \in S : Cardinality({q \in S : q < r}) \in 1 .. BatchSize}
\* The document as it was when the event was made, not as it is now.
AddDocumentsOfEvent(i) ==
    LET v == IF msg[i] = None THEN doc[i]
             ELSE Cardinality({r \in 1 .. msg[i][1] : rowAnime[r] = cur[i]})
    IN  index' = [index EXCEPT ![cur[i]] = IF v < doc[i] THEN v ELSE doc[i]]

-----------------------------------------------------------------------------
(* Catalog store: the write and its event commit together or not at all.   *)

InsertOutboxEvent(a) ==
    /\ rows < setup.rows
    /\ rows' = rows + 1
    /\ rowAnime' = [rowAnime EXCEPT ![rows + 1] = a]
    /\ outbox' = outbox \cup {rows + 1}

UpsertJikanAnime(a) ==
    /\ version[a] < MaxVersion
    /\ version' = [version EXCEPT ![a] = @ + 1]
    /\ InsertOutboxEvent(a)
    /\ UNCHANGED <<items, sent, ppc, streamVars, indexVars, indexerVars, faults, expired, setup>>

\* Episodes are not part of the search document, but announce the anime too; a
\* foreign key refuses an anime that does not exist.
UpsertHiAnimeEpisodes(a) ==
    /\ version[a] > 0
    /\ InsertOutboxEvent(a)
    /\ UNCHANGED <<version, items, sent, ppc, streamVars, indexVars, indexerVars, faults, expired, setup>>

-----------------------------------------------------------------------------
(* Outbox publisher: flushOnce is one transaction.                         *)

\* WHERE published_at IS NULL ... FOR UPDATE SKIP LOCKED.
Selectable(p) == outbox \ UNION {items[q] : q \in Publishers}

\* ORDER BY created_at LIMIT BatchSize.
Oldest(S) == {r \in S : Cardinality({q \in S : q < r}) < BatchSize}

Goto(p, l) == ppc' = [ppc EXCEPT ![p] = l]

\* Ends a flush; the locks go with the transaction.
EndFlush(p) ==
    /\ Goto(p, "idle")
    /\ items' = [items EXCEPT ![p] = {}]
    /\ sent' = [sent EXCEPT ![p] = {}]

Select(p) ==
    /\ p \in setup.publishers
    /\ ppc[p] = "idle"
    /\ Selectable(p) # {}
    /\ items' = [items EXCEPT ![p] = Oldest(Selectable(p))]
    /\ Goto(p, "publish")
    /\ UNCHANGED <<catalogVars, outbox, sent, streamVars, indexVars, indexerVars, faults, expired, setup>>

Store(r) ==
    /\ stream' = stream \cup {<<r, publishes[r] + 1>>}
    /\ ready' = ready \cup {<<r, publishes[r] + 1>>}
    /\ publishes' = [publishes EXCEPT ![r] = @ + 1]

\* PublishAsync of the next row; the loop on the futures ends when all are in.
PublishAsync(p, r) ==
    /\ ppc[p] = "publish"
    /\ r \in items[p] \ sent[p]
    /\ \A q \in items[p] \ sent[p] : r <= q
    /\ Store(r)
    /\ sent' = [sent EXCEPT ![p] = @ \cup {r}]
    /\ Goto(p, IF items[p] \subseteq sent[p] \cup {r} THEN "mark" ELSE "publish")
    /\ UNCHANGED <<catalogVars, outbox, items, late, indexVars, indexerVars, faults, expired, setup>>

\* A publish fails or the service dies: the flush is abandoned and its locks
\* released, while any of the other rows may still be on its way to the stream.
PublishError(p) ==
    /\ ppc[p] = "publish"
    /\ Fault
    /\ \E L \in SUBSET (items[p] \ sent[p]) :
        late' = [r \in Rows |-> IF r \in L THEN late[r] + 1 ELSE late[r]]
    /\ EndFlush(p)
    /\ UNCHANGED <<catalogVars, outbox, stream, ready, publishes, indexVars, indexerVars, expired, setup>>

MarkPublished(p) == outbox' = outbox \ items[p]

Mark(p) ==
    /\ ppc[p] = "mark"
    /\ MarkPublished(p)
    /\ EndFlush(p)
    /\ UNCHANGED <<catalogVars, streamVars, indexVars, indexerVars, faults, expired, setup>>

\* UPDATE or COMMIT fails, the latter perhaps after it took effect; a crash of
\* the catalog service is the case where it did not.
MarkError(p) ==
    /\ ppc[p] = "mark"
    /\ Fault
    /\ MarkPublished(p) \/ UNCHANGED outbox
    /\ EndFlush(p)
    /\ UNCHANGED <<catalogVars, streamVars, indexVars, indexerVars, expired, setup>>

-----------------------------------------------------------------------------
(* JetStream.                                                              *)

Land(r) ==
    /\ late[r] > 0
    /\ late' = [late EXCEPT ![r] = @ - 1]
    /\ Store(r)
    /\ UNCHANGED <<catalogVars, publisherVars, indexVars, indexerVars, faults, expired, setup>>

Redeliver(m) ==
    /\ m \in stream \ ready
    /\ ready' = ready \cup {m}
    /\ UNCHANGED <<catalogVars, publisherVars, stream, late, publishes, indexVars, indexerVars,
                   faults, expired, setup>>

Expire(m) ==
    /\ m \in stream
    /\ expired < setup.expired
    /\ expired' = expired + 1
    /\ stream' = stream \ {m}
    /\ ready' = ready \ {m}
    /\ UNCHANGED <<catalogVars, publisherVars, late, publishes, indexVars, indexerVars, faults, setup>>

-----------------------------------------------------------------------------
(* Search indexer.                                                         *)

Idle(i) == At(i, "idle", None, {}, None, 0)

Fetch(c, m) ==
    /\ pc[c] = "idle"
    /\ m \in ready
    /\ ready' = ready \ {m}
    /\ At(c, "read", m, {}, rowAnime[m[1]], 0)
    /\ UNCHANGED <<catalogVars, publisherVars, stream, late, publishes, indexVars, faults, expired, setup>>

\* ReindexAll: the ids of all anime, indexed one after the other.
ReindexAll(i) ==
    /\ i \in setup.reindexers
    /\ pc[i] = "idle"
    /\ At(i, "pick", None, {a \in Animes : version[a] > 0}, None, 0)
    /\ UNCHANGED <<catalogVars, publisherVars, streamVars, indexVars, faults, expired, setup>>

ReindexNext(i) ==
    /\ pc[i] = "pick"
    /\ \/ \E a \in todo[i] : At(i, "read", None, todo[i] \ {a}, a, 0)
       \/ todo[i] = {} /\ Idle(i)
    /\ UNCHANGED <<catalogVars, publisherVars, streamVars, indexVars, faults, expired, setup>>

\* indexAnime: GetAnimeByIDs ...
ReadAnime(i) ==
    /\ pc[i] = "read"
    /\ At(i, "write", msg[i], todo[i], cur[i], version[cur[i]])
    /\ UNCHANGED <<catalogVars, publisherVars, streamVars, indexVars, faults, expired, setup>>

AddDocuments(i) == index' = [index EXCEPT ![cur[i]] = doc[i]]

\* ... then AddDocuments, then the next anime or the acknowledgement.
WriteDoc(i) ==
    /\ pc[i] = "write"
    /\ AddDocuments(i)
    /\ At(i, IF i \in Consumers THEN "ack" ELSE "pick", msg[i], todo[i], cur[i], doc[i])
    /\ UNCHANGED <<catalogVars, publisherVars, streamVars, lateDocs, faults, expired, setup>>

\* A nak of a message that has expired or was acknowledged has no effect.
Nak(i) ==
    /\ ready' = ready \cup ({msg[i]} \cap stream)
    /\ UNCHANGED stream

\* The request never arrives, arrives, or is still on its way when it is given up.
AddDocumentsError(i) ==
    \/ UNCHANGED indexVars
    \/ AddDocuments(i) /\ UNCHANGED lateDocs
    \/ setup.late /\ lateDocs' = lateDocs \cup {<<cur[i], doc[i]>>} /\ UNCHANGED index

\* The catalog or Meili fails: an event is nak'd, a reindex is given up until
\* the next tick.
IndexError(i) ==
    /\ pc[i] \in {"read", "write"}
    /\ Fault
    /\ IF pc[i] = "write" THEN AddDocumentsError(i) ELSE UNCHANGED indexVars
    /\ IF i \in Consumers THEN Nak(i) ELSE UNCHANGED <<stream, ready>>
    /\ Idle(i)
    /\ UNCHANGED <<catalogVars, publisherVars, late, publishes, expired, setup>>

LandDoc(d) ==
    /\ index' = [index EXCEPT ![d[1]] = d[2]]
    /\ lateDocs' = lateDocs \ {d}
    /\ UNCHANGED <<catalogVars, publisherVars, streamVars, indexerVars, faults, expired, setup>>

Ack(c) ==
    /\ pc[c] = "ack"
    /\ stream' = stream \ {msg[c]}
    /\ ready' = ready \ {msg[c]}
    /\ Idle(c)
    /\ UNCHANGED <<catalogVars, publisherVars, late, publishes, indexVars, faults, expired, setup>>

\* The search service dies, or the acknowledgement is lost.
Crash(i) ==
    /\ pc[i] # "idle"
    /\ Fault
    /\ IF pc[i] = "write" THEN AddDocumentsError(i) ELSE UNCHANGED indexVars
    /\ Idle(i)
    /\ UNCHANGED <<catalogVars, publisherVars, streamVars, expired, setup>>

-----------------------------------------------------------------------------

Flush(p) == Select(p) \/ (\E r \in Rows : PublishAsync(p, r)) \/ Mark(p)
IndexStep(i) == ReadAnime(i) \/ WriteDoc(i)
Consume(c) == (\E m \in ready : Fetch(c, m)) \/ IndexStep(c) \/ Ack(c)
Reindex(i) == ReindexAll(i) \/ ReindexNext(i) \/ IndexStep(i)

Next ==
    \/ \E a \in Animes : UpsertJikanAnime(a) \/ UpsertHiAnimeEpisodes(a)
    \/ \E p \in Publishers : Flush(p) \/ PublishError(p) \/ MarkError(p)
    \/ \E r \in Rows : Land(r)
    \/ \E m \in stream : Redeliver(m) \/ Expire(m)
    \/ \E d \in lateDocs : LandDoc(d)
    \/ \E c \in Consumers : Consume(c)
    \/ \E i \in Reindexers : Reindex(i)
    \/ \E i \in Indexers : IndexError(i) \/ Crash(i)

\* The tickers of the publisher and of the reindex loop, the fetch loop and
\* JetStream's redelivery never stop.
Fairness ==
    /\ \A p \in Publishers : WF_vars(Flush(p))
    /\ WF_vars(\E m \in stream : Redeliver(m))
    /\ \A c \in Consumers : WF_vars(Consume(c))
    /\ \A i \in Reindexers : WF_vars(Reindex(i))

Spec == Init /\ [][Next]_vars
FairSpec == Spec /\ Fairness

-----------------------------------------------------------------------------
(* Properties.                                                             *)

\* One search replica, no reindex loop, nothing lost to retention, no document
\* write that lands late.
SingleWriter ==
    /\ \A c, d \in Consumers : c = d
    /\ setup.reindexers = {}
    /\ setup.expired = 0
    /\ ~setup.late

InStream(r) == \E m \in stream : m[1] = r

Outstanding(a) == {r \in 1 .. rows : rowAnime[r] = a /\ (r \in outbox \/ InStream(r))}

\* No update is lost between the catalog and the index: while a document is
\* behind its row, a row of the outbox or a message about it is still to be
\* processed, whatever failed, crashed or was delivered twice.
StaleIsPending ==
    SingleWriter => \A a \in Animes : index[a] < version[a] => Outstanding(a) # {}

\* A row is published once, and once more at most for each flush that failed:
\* publishers of several replicas never pick the same row.
PublishBound == \A r \in Rows : publishes[r] <= 1 + faults

\* The document of an anime never goes back to an older version and was a state
\* of the row: what SearchView allows.  With several writers it may go back, so
\* there the view promises nothing and shows no document.
View == INSTANCE SearchView WITH
            Animes <- Animes, MaxVersion <- MaxVersion, version <- version,
            index <- IF SingleWriter THEN index ELSE [a \in Animes |-> 0]
IndexMovesForward == View!Safety

\* Once writes stop, every document catches up with its row and stays there;
\* several writers and an expired event may set it back, the next reindex
\* repairs it.
EventuallyIndexed == <>[](\A a \in Animes : index[a] = version[a])

=============================================================================
