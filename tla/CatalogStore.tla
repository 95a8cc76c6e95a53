---------------------------- MODULE CatalogStore ----------------------------
(***************************************************************************)
(* The catalog's tables and the two transactions that write them           *)
(* (services/catalog/internal/store): UpsertJikanAnime looks an anime up   *)
(* by its MAL id and inserts or updates it, UpsertHiAnimeEpisodes does the *)
(* same for the episodes HiAnime lists.  Both are called by the sessions   *)
(* of the ingestion service; the event each adds to the outbox is          *)
(* CatalogPipeline's.  Titles and the like are left out.                   *)
(*                                                                         *)
(* Transactions run at READ COMMITTED: a SELECT sees what is committed, a  *)
(* write waits for the transaction that has written the same key or row.   *)
(* A session keeps its writes to itself until it commits.  HiAnime has one *)
(* slug for an anime and lists its episodes by their numbers.              *)
(***************************************************************************)
EXTENDS Integers, FiniteSets

CONSTANTS
    MalIds,     \* anime on MyAnimeList
    Episodes,   \* provider_episode_id of an anime's episodes on HiAnime
    MaxNumber,  \* bound on the number of an episode
    Replicas    \* processes of the ingestion service

ASSUME CatalogAssumption == MaxNumber \in Nat

Subjects == {"ingestion.jikan.sync", "ingestion.hianime.sync"}
Endpoints == {"jikan.trigger", "hianime.trigger"}
Sessions == Replicas \X (Subjects \cup Endpoints)

\* What HiAnime may list: a number for each episode, 0 for an episode not listed.
Listings ==
    {n \in [Episodes -> 0 .. MaxNumber] :
        \A e, f \in Episodes : e # f /\ n[e] = n[f] => n[e] = 0}
Nothing == [e \in Episodes |-> 0]

VARIABLES
    anime,     \* table anime: how many rows were made for a MAL id
    external,  \* table external_anime_ids: the keys of provider "mal"
    slugs,     \* ... and of provider "hianime", by the anime they belong to
    number,    \* tables episodes, external_episode_ids: 0 for no row
    tx         \* the open transaction of a session

tables == <<anime, external, slugs, number>>
catalogVars == <<tables, tx>>

NoTx == [at |-> "none", id |-> 0, found |-> FALSE, list |-> Nothing]
Transactions ==
    [at : {"none", "selected", "written", "stored"}, id : MalIds \cup {0},
     found : BOOLEAN, list : Listings]

CatalogTypes ==
    /\ anime \in [MalIds -> Nat]
    /\ external \in SUBSET MalIds
    /\ slugs \in SUBSET MalIds
    /\ number \in [MalIds -> Listings]
    /\ tx \in [Sessions -> Transactions]

CatalogInit ==
    /\ anime = [id \in MalIds |-> 0]
    /\ external = {} /\ slugs = {}
    /\ number = [id \in MalIds |-> Nothing]
    /\ tx = [s \in Sessions |-> NoTx]

\* Another session has an uncommitted write of the anime, or of the slug.
Written(s, id, at) == \E t \in Sessions \ {s} : tx[t].at = at /\ tx[t].id = id

Rollback(s) == tx' = [tx EXCEPT ![s] = NoTx]

-----------------------------------------------------------------------------
(* Plausible bugs, each a variant of the operator of the same name below.  *)

\* No primary key on external_anime_ids.
TakenNever(s) == FALSE
\* upsertEpisodes never finds the episode it is looking for.
ConflictAlwaysInserts(id, list) == \E e \in Episodes : list[e] # 0 /\ number[id][e] # 0

-----------------------------------------------------------------------------
(* UpsertJikanAnime.                                                       *)

SelectAnime(s, id) ==
    /\ tx' = [tx EXCEPT ![s] = [NoTx EXCEPT !.at = "selected", !.id = id, !.found = id \in external]]
    /\ UNCHANGED tables

\* The key a session did not find has been committed since: the INSERT fails.
Taken(s) == ~tx[s].found /\ tx[s].id \in external

InsertOrUpdateAnime(s) ==
    /\ tx[s].at = "selected"
    /\ ~Written(s, tx[s].id, "written") /\ ~Taken(s)
    /\ tx' = [tx EXCEPT ![s].at = "written"]
    /\ UNCHANGED tables

AnimeRefused(s) ==
    /\ tx[s].at = "selected"
    /\ ~Written(s, tx[s].id, "written") /\ Taken(s)
    /\ Rollback(s)
    /\ UNCHANGED tables

CommitAnime(s) ==
    /\ tx[s].at = "written"
    /\ anime' = [anime EXCEPT ![tx[s].id] = IF tx[s].found THEN @ ELSE @ + 1]
    /\ external' = external \cup {tx[s].id}
    /\ Rollback(s)
    /\ UNCHANGED <<slugs, number>>

-----------------------------------------------------------------------------
(* UpsertHiAnimeEpisodes.  Its first statement writes the row of the slug, *)
(* so that two calls for one anime run one after the other.                *)

\* upsertEpisodes goes through the list by number.  An episode meets the unique
\* index on (anime_id, number) when another one still has the number it gets: one
\* that comes later in the list, or is not in it.
Conflict(id, list) ==
    \E e, f \in Episodes :
        /\ e # f /\ list[e] # 0
        /\ number[id][f] = list[e]
        /\ list[f] = 0 \/ list[f] > list[e]

UpsertEpisodes(s, id, list) ==
    /\ tx[s].at = "none"
    /\ ~Written(s, id, "stored") /\ ~Conflict(id, list)
    /\ tx' = [tx EXCEPT ![s] = [NoTx EXCEPT !.at = "stored", !.id = id, !.list = list]]
    /\ UNCHANGED tables

EpisodesRefused(s, id, list) ==
    /\ tx[s].at = "none"
    /\ ~Written(s, id, "stored") /\ Conflict(id, list)
    /\ UNCHANGED catalogVars

CommitEpisodes(s) ==
    LET id == tx[s].id
        list == tx[s].list
    IN
    /\ tx[s].at = "stored"
    /\ number' = [number EXCEPT ![id] = [e \in Episodes |-> IF list[e] # 0 THEN list[e] ELSE @[e]]]
    /\ slugs' = slugs \cup {id}
    /\ Rollback(s)
    /\ UNCHANGED <<anime, external>>
=============================================================================
