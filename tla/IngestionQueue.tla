--------------------------- MODULE IngestionQueue ---------------------------
(***************************************************************************)
(* The ingestion service: jobs of the stream INGESTION_JOBS fill the       *)
(* catalog from Jikan and HiAnime (services/ingestion/internal/queue,      *)
(* jobs, cmd/ingestion), through the transactions of CatalogStore.         *)
(*                                                                         *)
(* A message is known by its sequence number in the stream.  Every replica *)
(* runs one loop per subject, each handling one message at a time; a       *)
(* Jikan job writes the anime and then publishes the HiAnime job that      *)
(* fetches its episodes.  A message delivered more than MaxDeliver times   *)
(* goes to ingestion.dlq.  JetStream (external) delivers again what is     *)
(* nak'd or not acknowledged in time, and counts the deliveries.  The      *)
(* debugging endpoints do the work of a job without the queue.             *)
(*                                                                         *)
(* The calls to Jikan, HiAnime and the catalog may fail at any time, with  *)
(* or without effect, and without limit.  Delays and the rate limiters are *)
(* abstracted.                                                             *)
(***************************************************************************)
EXTENDS CatalogStore

CONSTANTS
    Invalid,      \* payloads that do not parse or have mal_id <= 0
    MaxDeliver,   \* 5 in NewWorker
    MaxMessages,  \* bound on the jobs stored in the stream
    Setups        \* who is there, what HiAnime lists at first, and the bounds on jobs, on
                  \* faults (restarts and loops that end) and on changes of the listing

ASSUME IngestionAssumption ==
    /\ MalIds \cap Invalid = {}
    /\ MaxDeliver \in Nat \ {0}
    /\ MaxMessages \in Nat
    /\ Setups \subseteq
          [replicas : SUBSET Replicas, endpoints : BOOLEAN, invalid : BOOLEAN,
           list : Listings, messages : 0 .. MaxMessages, faults : Nat, changes : Nat]

Messages == 1 .. MaxMessages
Loops == Replicas \X Subjects

VARIABLES
    setup,      \* the setup of this behaviour
    last,       \* sequence number of the last job stored
    subject, malID,  \* the jobs
    ready,      \* jobs that may be delivered now
    settled,    \* jobs acknowledged for good
    delivered,  \* NumDelivered of a job, counted up to MaxDeliver + 1
    dlq,        \* jobs in ingestion.dlq
    dropped,    \* history: jobs whose publish to ingestion.dlq failed
    listing,    \* what HiAnime lists for an anime
    renumbered, \* history: an episode has been renumbered or taken from the list
    refused,    \* history: the catalog has refused the episodes of an anime
    pc, msg, arg, listed, \* a session: its control point, job (0 for none), mal_id
                \* and the episodes it was given by HiAnime
    faults, changes

jobVars == <<last, subject, malID>>
streamVars == <<jobVars, ready, settled, delivered, dlq, dropped>>
providerVars == <<listing, renumbered, refused>>
sessionVars == <<pc, msg, arg, listed>>
boundVars == <<faults, changes>>
vars == <<setup, streamVars, catalogVars, providerVars, sessionVars, boundVars>>

Controls == {"idle", "run", "upsert", "publish", "episodes", "dlq", "ack", "dead"}

\* Every variable keeps its type; what is queued, settled or in the DLQ is a job
\* of the stream, and what the catalog holds is an anime.
TypeOK ==
    /\ setup \in Setups
    /\ CatalogTypes
    /\ last \in 0 .. setup.messages
    /\ subject \in [Messages -> Subjects]
    /\ malID \in [Messages -> MalIds \cup Invalid \cup {0}]
    /\ ready \in SUBSET (1 .. last) /\ settled \in SUBSET (1 .. last)
    /\ delivered \in [Messages -> 0 .. MaxDeliver + 1]
    /\ dlq \in SUBSET (1 .. last) /\ dropped \in SUBSET (1 .. last)
    /\ listing \in [MalIds -> Listings]
    /\ renumbered \in BOOLEAN /\ refused \in BOOLEAN
    /\ pc \in [Sessions -> Controls]
    /\ msg \in [Sessions -> 0 .. last]
    /\ arg \in [Sessions -> MalIds \cup Invalid \cup {0}]
    /\ listed \in [Sessions -> Listings]
    /\ faults \in 0 .. setup.faults /\ changes \in 0 .. setup.changes

Init ==
    /\ setup \in Setups
    /\ CatalogInit
    /\ last = 0
    /\ subject = [m \in Messages |-> "ingestion.jikan.sync"]
    /\ malID = [m \in Messages |-> 0]
    /\ ready = {} /\ settled = {}
    /\ delivered = [m \in Messages |-> 0]
    /\ dlq = {} /\ dropped = {}
    /\ listing = [id \in MalIds |-> setup.list]
    /\ renumbered = FALSE /\ refused = FALSE
    /\ pc = [s \in Sessions |-> "idle"]
    /\ msg = [s \in Sessions |-> 0]
    /\ arg = [s \in Sessions |-> 0]
    /\ listed = [s \in Sessions |-> Nothing]
    /\ faults = 0 /\ changes = 0

Fault == faults < setup.faults /\ faults' = faults + 1 /\ UNCHANGED changes

-----------------------------------------------------------------------------
(* The stream.                                                             *)

\* js.Publish of a job.
PublishJob(s, id) ==
    /\ last < setup.messages
    /\ last' = last + 1
    /\ subject' = [subject EXCEPT ![last + 1] = s]
    /\ malID' = [malID EXCEPT ![last + 1] = id]
    /\ ready' = ready \cup {last + 1}
    /\ UNCHANGED <<settled, delivered, dlq, dropped>>

\* Plausible bugs, each a variant of the operator of the same name below.
PublishHiAnimeJobSkipped(id) == UNCHANGED streamVars
SettleForgotten(m) == UNCHANGED <<settled, ready>>

\* w.MaxDeliver > 0 && int(numDelivered) > w.MaxDeliver
Exhausted(n) == n > MaxDeliver

\* NakWithDelay: the job stays in the queue and is delivered again later.
Nak(m) == UNCHANGED settled

Settle(m) == settled' = settled \cup {m} /\ ready' = ready \ {m}

\* AckWait runs out, or the delay of a nak.
Redeliver(m) ==
    /\ m \in 1 .. last
    /\ m \notin ready \cup settled
    /\ ready' = ready \cup {m}
    /\ UNCHANGED <<setup, jobVars, settled, delivered, dlq, dropped, catalogVars, providerVars,
                   sessionVars, boundVars>>

\* A job some other program put in the stream.
ForeignJob(s, id) ==
    /\ setup.invalid
    /\ PublishJob(s, id)
    /\ UNCHANGED <<setup, catalogVars, providerVars, sessionVars, boundVars>>

-----------------------------------------------------------------------------
(* Who creates jobs.                                                       *)

Enqueue(id) ==
    /\ PublishJob("ingestion.jikan.sync", id)
    /\ UNCHANGED <<setup, catalogVars, providerVars, sessionVars, boundVars>>

\* The BFF publishes one id after the other and may stop anywhere: the hits of a
\* search it answered from Jikan, and a backfill an administrator asked for.
JikanFallback(id) == Enqueue(id)
EnqueueJikanList(id) == Enqueue(id)

\* It publishes the ids of the pages it could read one after the other and skips
\* a publish that fails.
PublishJikanPages(id) == Enqueue(id)

\* The bulk import of a process that found the catalog empty when it started:
\* when an id is published that look is long past, and nothing is left of it in
\* the guard.  The season and top tickers.
BulkImport(id) == PublishJikanPages(id)
Cron(id) == PublishJikanPages(id)

-----------------------------------------------------------------------------
(* consumeLoop and handleMsg.                                              *)

Goto(s, p) == pc' = [pc EXCEPT ![s] = p]

\* The handler returns: the session keeps nothing.
Done(s) ==
    /\ Goto(s, "idle")
    /\ msg' = [msg EXCEPT ![s] = 0]
    /\ arg' = [arg EXCEPT ![s] = 0]
    /\ listed' = [listed EXCEPT ![s] = Nothing]

\* One message, and the decision on its delivery count and its payload.
Fetch(l, m) ==
    LET n == IF delivered[m] > MaxDeliver THEN delivered[m] ELSE delivered[m] + 1 IN
    /\ l \in Loops /\ l[1] \in setup.replicas
    /\ pc[l] = "idle"
    /\ m \in ready /\ subject[m] = l[2]
    /\ ready' = ready \ {m}
    /\ delivered' = [delivered EXCEPT ![m] = n]
    /\ msg' = [msg EXCEPT ![l] = m]
    /\ arg' = [arg EXCEPT ![l] = malID[m]]
    /\ Goto(l, IF Exhausted(n) THEN "dlq" ELSE IF malID[m] \in Invalid THEN "ack" ELSE "run")
    /\ UNCHANGED <<setup, jobVars, settled, dlq, dropped, catalogVars, providerVars, listed, boundVars>>

\* publishDLQ, whose error is dropped.
DeadLetter(l) ==
    /\ pc[l] = "dlq"
    /\ \/ dlq' = dlq \cup {msg[l]} /\ UNCHANGED dropped
       \/ dropped' = dropped \cup {msg[l]} /\ UNCHANGED dlq
    /\ Goto(l, "ack")
    /\ UNCHANGED <<setup, jobVars, ready, settled, delivered, catalogVars, providerVars, msg, arg,
                   listed, boundVars>>

Ack(l) ==
    /\ pc[l] = "ack"
    /\ Settle(msg[l])
    /\ Done(l)
    /\ UNCHANGED <<setup, jobVars, delivered, dlq, dropped, catalogVars, providerVars, boundVars>>

-----------------------------------------------------------------------------
(* The handlers.                                                           *)

IsJikan(s) == s[2] \in {"ingestion.jikan.sync", "jikan.trigger"}

\* What follows a success: the endpoints answer, a loop goes on.
Succeed(s, p) == IF s \in Loops THEN Goto(s, p) /\ UNCHANGED <<msg, arg, listed>> ELSE Done(s)

\* A handler's error: the loop naks the message, an endpoint answers with it.
Failed(s) == Nak(msg[s]) /\ Done(s)

\* GetAnime answers, and UpsertJikanAnime begins ...
JikanSync(s) ==
    /\ pc[s] = "run" /\ IsJikan(s)
    /\ SelectAnime(s, arg[s])
    /\ Goto(s, "upsert")
    /\ UNCHANGED <<setup, streamVars, providerVars, msg, arg, listed, boundVars>>

UpsertJikanAnime(s) ==
    /\ pc[s] = "upsert"
    /\ \/ InsertOrUpdateAnime(s) /\ UNCHANGED <<streamVars, sessionVars>>
       \/ CommitAnime(s) /\ Succeed(s, "publish") /\ UNCHANGED streamVars
       \/ AnimeRefused(s) /\ Failed(s) /\ UNCHANGED streamVars
    /\ UNCHANGED <<setup, providerVars, boundVars>>

\* ... then the job for the episodes.
PublishHiAnimeJob(id) == PublishJob("ingestion.hianime.sync", id)

JikanPublish(s) ==
    /\ pc[s] = "publish"
    /\ PublishHiAnimeJob(arg[s])
    /\ Goto(s, "ack")
    /\ UNCHANGED <<setup, catalogVars, providerVars, msg, arg, listed, boundVars>>

\* SyncEpisodesByMALID up to GetEpisodes: ResolveAnimeIDByExternalID needs the
\* anime in the catalog.
SyncEpisodesByMALID(s) ==
    /\ pc[s] = "run" /\ ~IsJikan(s)
    /\ IF arg[s] \in external
       THEN /\ listed' = [listed EXCEPT ![s] = listing[arg[s]]]
            /\ Goto(s, "episodes")
            /\ UNCHANGED <<streamVars, msg, arg>>
       ELSE Failed(s) /\ UNCHANGED streamVars
    /\ UNCHANGED <<setup, catalogVars, providerVars, boundVars>>

UpsertHiAnimeEpisodes(s) ==
    /\ pc[s] = "episodes"
    /\ \/ UpsertEpisodes(s, arg[s], listed[s]) /\ UNCHANGED <<streamVars, sessionVars, refused>>
       \/ CommitEpisodes(s) /\ Succeed(s, "ack") /\ UNCHANGED <<streamVars, refused>>
       \/ /\ EpisodesRefused(s, arg[s], listed[s])
          /\ refused' = TRUE
          /\ Failed(s) /\ UNCHANGED streamVars
    /\ UNCHANGED <<setup, listing, renumbered, boundVars>>

\* A call fails, perhaps after it took effect; nothing on HiAnime matches.
Effect(s) ==
    \/ Rollback(s) /\ UNCHANGED <<tables, streamVars>>
    \/ pc[s] = "upsert" /\ CommitAnime(s) /\ UNCHANGED streamVars
    \/ pc[s] = "episodes" /\ CommitEpisodes(s) /\ UNCHANGED streamVars
    \/ pc[s] = "publish" /\ PublishHiAnimeJob(arg[s]) /\ UNCHANGED catalogVars

JobError(s) ==
    /\ pc[s] \in {"run", "upsert", "publish", "episodes"}
    /\ Effect(s)
    /\ Failed(s)
    /\ UNCHANGED <<setup, providerVars, boundVars>>

\* The debugging endpoints.
Trigger(s, id) ==
    /\ setup.endpoints /\ s[1] \in setup.replicas
    /\ pc[s] = "idle"
    /\ Goto(s, "run")
    /\ arg' = [arg EXCEPT ![s] = id]
    /\ UNCHANGED <<setup, streamVars, catalogVars, providerVars, msg, listed, boundVars>>
JikanTrigger(s, id) == s[2] = "jikan.trigger" /\ Trigger(s, id)
HiAnimeTrigger(s, id) == s[2] = "hianime.trigger" /\ Trigger(s, id)

-----------------------------------------------------------------------------
(* Faults and HiAnime.                                                     *)

\* Fetch fails: the loop returns for good, Run returns, the process stays up.
LoopError(l) ==
    /\ l[1] \in setup.replicas
    /\ pc[l] = "idle"
    /\ Fault
    /\ Goto(l, "dead")
    /\ UNCHANGED <<setup, streamVars, catalogVars, providerVars, msg, arg, listed>>

\* The process dies (also: loses the acknowledgement it is sending) and starts
\* again; what a handler or an import was doing is not resumed, its transactions
\* are rolled back.
Restart(r) ==
    /\ Fault
    /\ LET Of(f, v) == [s \in Sessions |-> IF s[1] = r THEN v ELSE f[s]] IN
       /\ pc' = Of(pc, "idle") /\ msg' = Of(msg, 0) /\ arg' = Of(arg, 0) /\ listed' = Of(listed, Nothing)
       /\ tx' = Of(tx, NoTx)
    /\ UNCHANGED <<setup, streamVars, tables, providerVars>>

ProviderChanges(id, n) ==
    /\ changes < setup.changes
    /\ changes' = changes + 1
    /\ listing' = [listing EXCEPT ![id] = n]
    /\ renumbered' = (renumbered \/ \E e \in Episodes : listing[id][e] \notin {0, n[e]})
    /\ UNCHANGED <<setup, streamVars, catalogVars, refused, sessionVars, faults>>

-----------------------------------------------------------------------------

\* What a session does next, unless a call fails.
Handle(s) ==
    \/ JikanSync(s) \/ UpsertJikanAnime(s) \/ JikanPublish(s)
    \/ SyncEpisodesByMALID(s) \/ UpsertHiAnimeEpisodes(s)
    \/ DeadLetter(s) \/ Ack(s)

Next ==
    \/ \E s \in Sessions : Handle(s) \/ JobError(s) \/ \E m \in ready : Fetch(s, m)
    \/ \E l \in Loops : LoopError(l)
    \/ \E r \in Replicas : Restart(r)
    \/ \E id \in MalIds : JikanFallback(id) \/ EnqueueJikanList(id)
    \/ \E id \in MalIds : BulkImport(id) \/ Cron(id)
    \/ \E s \in Sessions, id \in MalIds : JikanTrigger(s, id) \/ HiAnimeTrigger(s, id)
    \/ \E s \in Subjects, id \in Invalid : ForeignJob(s, id)
    \/ \E m \in 1 .. last : Redeliver(m)
    \/ \E id \in MalIds, n \in Listings : ProviderChanges(id, n)

\* The loops run on, a handler's step ends, well or with an error (Postgres serves
\* those who wait for a row in turn), and JetStream redelivers; that jobs are
\* created, that a handler ever succeeds and that the service is restarted is not
\* assumed.
Fairness ==
    /\ \A s \in Sessions : WF_vars(Handle(s) \/ JobError(s))
    /\ \A l \in Loops : WF_vars(\E m \in ready : Fetch(l, m))
    /\ WF_vars(\E m \in 1 .. last : Redeliver(m))

Spec == Init /\ [][Next]_vars
FairSpec == Spec /\ Fairness

-----------------------------------------------------------------------------
(* Properties.                                                             *)

Jobs(s, id) == {m \in 1 .. last : subject[m] = s /\ malID[m] = id}

Synced(m) ==
    \/ malID[m] \in Invalid
    \/ /\ subject[m] = "ingestion.jikan.sync"
       /\ malID[m] \in external
       /\ Jobs("ingestion.hianime.sync", malID[m]) # {}
    \/ subject[m] = "ingestion.hianime.sync" /\ malID[m] \in slugs

\* A job leaves the queue only when it is done (for a Jikan job: the anime is
\* stored and the job for its episodes is queued) or kept in the DLQ, whatever
\* call failed and however many replicas had the job at once.  The one exception
\* is a job whose publish to the DLQ failed: that error is dropped, and the job
\* with it.
NoJobLost == \A m \in settled : Synced(m) \/ m \in dlq \cup dropped

\* Two syncs of one anime at once, in two replicas or from an endpoint, leave one
\* row of it and its MAL id, and a sync that fails half way leaves neither; jobs
\* for episodes and episodes are of anime that are there.
OneAnimePerMalID ==
    /\ \A id \in MalIds : anime[id] = IF id \in external THEN 1 ELSE 0
    /\ \A m \in 1 .. last :
          subject[m] = "ingestion.hianime.sync" => malID[m] \in external \cup Invalid
    /\ slugs \subseteq external

\* As long as HiAnime only adds episodes, the catalog takes them, also when two
\* syncs run at once and the one with the older list comes last.
EpisodesAccepted == refused => renumbered

\* Every job is done or given up in the end, however often its handler fails,
\* unless a loop has ended for good.
EventuallySettled ==
    \A m \in Messages : m <= last ~> (m \in settled \/ \E l \in Loops : pc[l] = "dead")

=============================================================================
