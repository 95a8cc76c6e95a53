------------------------------ MODULE Gateway -------------------------------
(***************************************************************************)
(* The public HTTP API (services/bff): rate limiters, authentication, the  *)
(* handlers with the calls they make to the other services, and the        *)
(* response cache with its invalidation over NATS.  The process itself is  *)
(* Lifecycle's; deployments of the other mains serve calls of no content.  *)
(*                                                                         *)
(* The state of the other services is what the answers are made of: the    *)
(* version of the catalog (0 while it is empty), the version the search    *)
(* index shows, which lags and may be set back (CatalogPipeline), and who  *)
(* has rated.  A call to them succeeds or fails with one of the codes      *)
(* their handlers return; when it fails in or behind its write, the write  *)
(* may have been done or not.  Every user makes one request at a time.     *)
(* Ages are kept instead of times, so that time needs no bound.            *)
(***************************************************************************)
EXTENDS Lifecycle

CONSTANTS
    TTL,              \* of a cached response, in ticks
    Peers,            \* keys of a limiter that requests come with
    Burst, Rate, Cost, \* a bucket: its size, its refill per tick, and what a
                      \* request takes from it
    Window,           \* the longest span, in ticks, that admitted requests are counted in
    MaxVersion,       \* bound on the changes of the catalog
    None

ASSUME GatewayAssumption ==
    /\ TTL \in Nat /\ MaxVersion \in Nat
    /\ Burst \in Nat /\ Rate \in Nat \ {0} /\ Cost \in Nat \ {0}
    /\ Window \in Nat \ {0}

-----------------------------------------------------------------------------
(* The routes: the group a handler is registered in, whether it decodes a  *)
(* body, whether it uses the cache, and the calls it makes one by one.     *)

Group(limited, user, admin) == [limited |-> limited, user |-> user, admin |-> admin]

AuthGroup == Group(TRUE, FALSE, FALSE)
PublicGroup == Group(TRUE, FALSE, FALSE)
UserGroup == Group(FALSE, TRUE, FALSE)
AdminGroup == Group(FALSE, TRUE, TRUE)

Handler(group, body, cached, calls) ==
    [group |-> group, body |-> body, cached |-> cached, calls |-> calls]

Register == Handler(AuthGroup, TRUE, FALSE, <<"write">>)
Login == Handler(AuthGroup, TRUE, FALSE, <<"write">>)
Refresh == Handler(AuthGroup, TRUE, FALSE, <<"write">>)
Logout == Handler(AuthGroup, TRUE, FALSE, <<"logout">>)

Search == Handler(PublicGroup, FALSE, TRUE, <<"search", "jikan">>)
ListAnime == Handler(PublicGroup, FALSE, TRUE, <<"ids", "page">>)
GetAnime == Handler(PublicGroup, FALSE, FALSE, <<"read">>)
GetEpisodesByAnime == Handler(PublicGroup, FALSE, FALSE, <<"read">>)
GetEpisode == Handler(PublicGroup, FALSE, FALSE, <<"read">>)
GetRating == Handler(PublicGroup, FALSE, FALSE, <<"summary">>)
ListComments == Handler(PublicGroup, FALSE, FALSE, <<"read">>)

Watch == Handler(UserGroup, FALSE, FALSE, <<"resolve">>)
Me == Handler(UserGroup, FALSE, FALSE, <<"me">>)
ContinueWatching == Handler(UserGroup, FALSE, FALSE, <<"read", "episodes">>)
UpsertProgress == Handler(UserGroup, TRUE, FALSE, <<"event">>)
CreateComment == Handler(UserGroup, TRUE, FALSE, <<"event">>)
VoteComment == Handler(UserGroup, TRUE, FALSE, <<"event">>)
UpdateComment == Handler(UserGroup, TRUE, FALSE, <<"event">>)
DeleteComment == Handler(UserGroup, FALSE, FALSE, <<"event">>)
RateAnime == Handler(UserGroup, TRUE, FALSE, <<"upsert", "summary">>)

Backfill == Handler(AdminGroup, FALSE, FALSE, <<"jobs">>)

Routes ==
    [Register |-> Register, Login |-> Login, Refresh |-> Refresh, Logout |-> Logout,
     Search |-> Search, ListAnime |-> ListAnime, GetAnime |-> GetAnime,
     GetEpisodesByAnime |-> GetEpisodesByAnime, GetEpisode |-> GetEpisode,
     GetRating |-> GetRating, ListComments |-> ListComments, Watch |-> Watch, Me |-> Me,
     ContinueWatching |-> ContinueWatching, UpsertProgress |-> UpsertProgress,
     CreateComment |-> CreateComment, VoteComment |-> VoteComment,
     UpdateComment |-> UpdateComment, DeleteComment |-> DeleteComment,
     RateAnime |-> RateAnime, Backfill |-> Backfill]

Keys == {k \in DOMAIN Routes : Routes[k].cached}
Tokens == {"none", "user", "admin"}  \* no valid token, or one with this role

VARIABLES
    version,  \* of the catalog
    indexed,  \* version the search index shows
    raters,   \* table ratings: who has rated the anime
    cache,    \* TTLCache.items, one key for each cached route
    bucket,   \* RateLimiter.buckets; one that is not there yet is full
    req,      \* a user's request: its locals and, at the end, its answer
    recent,   \* history: requests of a peer admitted in the last w ticks, this one included
    cleared   \* history: oldest version a key could be read with since its last invalidation

sourceVars == <<version, indexed, raters>>
limitVars == <<bucket, recent>>
gatewayVars == <<sourceVars, limitVars, cache, req, cleared>>
vars == <<lifeVars, gatewayVars>>

Idle ==
    [route |-> None, token |-> "none", at |-> 0, got |-> 0, seen |-> {}, floor |-> {},
     done |-> FALSE, overtaken |-> FALSE, status |-> "none"]
Requests ==
    [route : DOMAIN Routes \cup {None}, token : Tokens, at : 0 .. 2, got : 0 .. MaxVersion,
     seen : SUBSET Calls,       \* raters in the summary that was read
     floor : SUBSET Calls,      \* history: ratings acknowledged when the request began
     done : BOOLEAN,            \* history: the write it asked for has been done
     overtaken : BOOLEAN,       \* history: its key was invalidated since it began
     status : {"none", "ok", "refused", "failed"}]
Entries == [val : 0 .. MaxVersion, left : -1 .. TTL, overtaken : BOOLEAN]

\* Every variable keeps its type.
TypeOK ==
    /\ LifecycleTypes
    /\ version \in 0 .. MaxVersion /\ indexed \in 0 .. MaxVersion
    /\ raters \in SUBSET Calls
    /\ cache \in [Keys -> Entries \cup {None}]
    /\ bucket \in [Peers -> [tokens : 0 .. Burst, idle : 0 .. Burst]]
    /\ req \in [Calls -> Requests]
    /\ recent \in [Peers -> [1 .. Window -> Nat]]
    /\ cleared \in [Keys -> 0 .. MaxVersion]

\* The limiters, the cache and the requests of a new process.
Fresh ==
    [cache |-> [k \in Keys |-> None],
     bucket |-> [p \in Peers |-> [tokens |-> Burst, idle |-> 0]],
     req |-> [c \in Calls |-> Idle],
     recent |-> [p \in Peers |-> [w \in 1 .. Window |-> 0]]]

Init ==
    /\ LifecycleInit
    /\ version = 0 /\ indexed = 0 /\ raters = {}
    /\ cache = Fresh.cache /\ bucket = Fresh.bucket /\ req = Fresh.req /\ recent = Fresh.recent
    /\ cleared = [k \in Keys |-> 0]

-----------------------------------------------------------------------------
(* Plausible bugs, each a variant of the operator of the same name below.  *)

\* The cap on the tokens is missing.
RefilledUncapped(p) == bucket[p].tokens + bucket[p].idle * Rate
\* Get moves the expiry of what it returns.
GetExtends(k) ==
    /\ cache[k] # None /\ cache[k].left >= 0
    /\ cache' = [cache EXCEPT ![k].left = TTL]
\* "ALL" is taken for the name of a key.
InvalidatedByName(m) == {m} \cap Keys
\* Whatever goes wrong is the client's fault.
WriteGRPCErrorBadRequest(code) == "refused"

-----------------------------------------------------------------------------
(* Rate limiter, cache, error mapping.                                     *)

\* allow: the bucket is refilled for the time since it was used last.
Refilled(p) ==
    IF bucket[p].tokens + bucket[p].idle * Rate > Burst THEN Burst
    ELSE bucket[p].tokens + bucket[p].idle * Rate

Allow(p) == Refilled(p) >= Cost

\* Limiters count in every deployment, but only where it says so do requests
\* come fast enough to empty a bucket.
TakeToken(p) ==
    IF setup.limit
    THEN /\ bucket' = [bucket EXCEPT ![p] =
                 [tokens |-> IF Allow(p) THEN Refilled(p) - Cost ELSE Refilled(p), idle |-> 0]]
         /\ recent' = IF Allow(p)
                      THEN [recent EXCEPT ![p] = [w \in 1 .. Window |-> recent[p][w] + 1]]
                      ELSE recent
    ELSE UNCHANGED limitVars

Get(k) ==
    /\ cache[k] # None /\ cache[k].left >= 0
    /\ UNCHANGED cache

Set(k, v, o) == cache' = [cache EXCEPT ![k] = [val |-> v, left |-> TTL, overtaken |-> o]]

\* The subscription of NewTTLCache: one key, or "ALL".
Invalidated(m) == IF m = "ALL" THEN Keys ELSE {m} \cap Keys

WriteGRPCError(code) ==
    IF code \in {"InvalidArgument", "Unauthenticated", "PermissionDenied", "NotFound",
                "AlreadyExists", "ResourceExhausted"}
    THEN "refused" ELSE "failed"

-----------------------------------------------------------------------------
(* A request arrives.                                                      *)

IsGateway == main = BFFMain

RequireUser(h, token) == h.group.user => token # "none"
RequireAdmin(h, token) == h.group.admin => token = "admin"
Authorized(h, token) == RequireUser(h, token) /\ RequireAdmin(h, token)

\* Where a body is read it may be invalid or too long.
DecodeJSONFails(h) == h.body

Answered(r, token, status, got) ==
    [Idle EXCEPT !.route = r, !.token = token, !.status = status, !.got = got]
Started(r, token, floor) ==
    [Idle EXCEPT !.route = r, !.token = token, !.at = 1, !.floor = floor]

\* The middlewares and the checks of the handler; a cached answer ends it here.
\* The bucket is that of the key p the request comes with: the header
\* X-Forwarded-For or else RemoteAddr, port included, so that the requests of one
\* client may come with several.
Receive(c, r, token, p) ==
    /\ IsGateway /\ phase = "serving" /\ c \notin running
    /\ c \in setup.calls /\ r \in setup.routes
    /\ ~Routes[r].group.user => token = "none"  \* nobody looks at it
    /\ LET h == Routes[r]
           admitted == h.group.limited /\ setup.limit => Allow(p)
       IN  /\ IF h.group.limited THEN TakeToken(p) ELSE UNCHANGED limitVars
           /\ \/ /\ ~admitted \/ ~Authorized(h, token) \/ DecodeJSONFails(h)
                 /\ req' = [req EXCEPT ![c] = Answered(r, token, "refused", 0)]
                 /\ UNCHANGED <<running, cache>>
              \/ /\ admitted /\ h.cached /\ Get(r)
                 /\ req' = [req EXCEPT ![c] = Answered(r, token, "ok", cache[r].val)]
                 /\ UNCHANGED running
              \/ /\ admitted /\ Authorized(h, token)
                 /\ ~(h.cached /\ cache[r] # None /\ cache[r].left >= 0)
                 /\ req' = [req EXCEPT ![c] = Started(r, token,
                       {u \in raters : req[u].route = "RateAnime" /\ req[u].status = "ok"})]
                 /\ running' = running \cup {c}
                 /\ UNCHANGED cache
    /\ UNCHANGED <<setup, procVars, envVars, sourceVars, cleared>>

-----------------------------------------------------------------------------
(* The calls of a request.                                                 *)

Call(c) == Routes[req[c].route].calls[req[c].at]
Last(c) == req[c].at = Len(Routes[req[c].route].calls)

Continue(c, r) ==
    /\ req' = [req EXCEPT ![c] = [r EXCEPT !.at = @ + 1]]
    /\ UNCHANGED <<cache, running>>

\* An answer; a cached route stores it first when it may.
Finish(c, r, status, store) ==
    /\ IF store THEN Set(r.route, r.got, r.overtaken) ELSE UNCHANGED cache
    /\ req' = [req EXCEPT ![c] = [r EXCEPT !.status = status, !.at = 0]]
    /\ running' = running \ {c}

Proceed(c, r) == IF Last(c) THEN Finish(c, r, "ok", Routes[r.route].cached) ELSE Continue(c, r)

\* Where the data of a cached route comes from.
SourceOf(k) == IF k = "Search" THEN indexed ELSE version

\* SearchAnime, from the index.  Hits, an empty query or a later page are answered
\* at once; a first page without hits goes on to Jikan.
SearchAnime(c) ==
    LET r == [req[c] EXCEPT !.got = indexed]
    IN  Finish(c, r, "ok", TRUE) \/ Continue(c, r)

\* JikanFallback: its hits are not cached; without any, the empty result is.
JikanSearch(c) == \E hits \in BOOLEAN : Finish(c, req[c], "ok", ~hits)

\* GetAnimeIDs: an offset behind the end is answered at once.
GetAnimeIDs(c) ==
    LET r == [req[c] EXCEPT !.got = version]
    IN  Finish(c, r, "ok", TRUE) \/ (version > 0 /\ Continue(c, r))

\* Ratings: upsert, then the summary of all ratings.
GetSummary == raters
RateAnimeUpsert(c) ==
    /\ raters' = raters \cup {c}
    /\ Continue(c, [req[c] EXCEPT !.done = TRUE])

\* Logout drops the errors of the lookup and of the revocation: it succeeds with
\* the session revoked or not.
LogoutSession(c) == \E revoked \in BOOLEAN : Proceed(c, [req[c] EXCEPT !.done = revoked])

\* Events go to JetStream unless BFF_ASYNC_WRITES says otherwise; jobs always do.
Publishes(k) == k = "jobs" \/ (k = "event" /\ setup.async)

\* The call succeeds.
CallOk(c) ==
    /\ CASE Call(c) = "search" -> SearchAnime(c)
         [] Call(c) = "jikan" -> JikanSearch(c)
         [] Call(c) = "ids" -> GetAnimeIDs(c)
         [] Call(c) = "summary" -> Proceed(c, [req[c] EXCEPT !.seen = GetSummary])
         [] Call(c) = "upsert" -> RateAnimeUpsert(c)
         [] Call(c) = "write" -> Proceed(c, [req[c] EXCEPT !.done = TRUE])
         [] Call(c) = "logout" -> LogoutSession(c)
         [] Call(c) \in {"event", "jobs"} ->
              (Publishes(Call(c)) => conn = "open") /\ Proceed(c, [req[c] EXCEPT !.done = TRUE])
         [] OTHER -> Proceed(c, req[c])
    /\ Call(c) # "upsert" => UNCHANGED raters

\* Codes the services return before they write anything: an invalid request, a
\* wrong password or token, a row that is missing, someone else's or there already.
Rejections(k) ==
    CASE k = "write" -> {"InvalidArgument", "Unauthenticated", "AlreadyExists"}
      [] k = "logout" -> {"InvalidArgument"}
      [] k = "upsert" -> {"InvalidArgument", "Unauthenticated"}
      [] k = "event" /\ ~setup.async ->
           {"InvalidArgument", "Unauthenticated", "NotFound", "PermissionDenied"}
      [] k \in {"read", "resolve"} -> {"InvalidArgument", "NotFound"}
      [] OTHER -> {}

\* Codes of a statement or a later step that fails, and of a call that never comes
\* back: a write may have been done or not.
Breakdowns == {"Internal", "Unavailable"}

Writes == {"upsert", "write", "logout", "event", "jobs"}

\* Errors of a call, and whether what it asked for is done nevertheless.
Errors(k) ==
    (Rejections(k) \X {FALSE}) \cup (Breakdowns \X (IF k \in Writes THEN BOOLEAN ELSE {FALSE}))

\* What the client is told: Me ignores the error, a failed fallback leaves the
\* empty result, Watch and a failed publish have a status of their own.
CallFails(c) ==
    \E e \in Errors(Call(c)) :
        /\ e[2] /\ Publishes(Call(c)) => conn # "closed"
        /\ LET r == [req[c] EXCEPT !.done = @ \/ e[2]]
           IN  CASE Call(c) = "me" -> Finish(c, r, "ok", FALSE)
                 [] Call(c) = "jikan" -> Finish(c, r, "ok", TRUE)
                 [] Call(c) = "resolve" \/ Publishes(Call(c)) -> Finish(c, r, "failed", FALSE)
                 [] OTHER -> Finish(c, r, WriteGRPCError(e[1]), FALSE)
        /\ raters' = IF Call(c) = "upsert" /\ e[2] THEN raters \cup {c} ELSE raters

CallReturns(c) ==
    /\ IsGateway /\ c \in running
    /\ CallOk(c) \/ CallFails(c)
    /\ UNCHANGED <<setup, procVars, envVars, version, indexed, limitVars, cleared>>

-----------------------------------------------------------------------------
(* Around it.                                                              *)

\* The catalog changes.
Change ==
    /\ IsGateway /\ version < MaxVersion
    /\ \E k \in setup.routes : k \in Keys
    /\ version' = version + 1
    /\ UNCHANGED <<lifeVars, indexed, raters, limitVars, cache, req, cleared>>

\* The index follows, or is set back.
Index ==
    /\ IsGateway /\ "Search" \in setup.routes
    /\ \E v \in 0 .. version :
        /\ indexed' = v
        /\ cleared' = [cleared EXCEPT !["Search"] = IF v < @ THEN v ELSE @]
    /\ UNCHANGED <<lifeVars, version, raters, limitVars, cache, req>>

\* A message on the invalidation subject; without a connection it is lost.
Invalidate(m) ==
    /\ IsGateway /\ phase = "serving" /\ conn = "open"
    /\ m \in {"ALL"} \cup setup.routes
    /\ cache' = [k \in Keys |-> IF k \in Invalidated(m) THEN None ELSE cache[k]]
    /\ cleared' = [k \in Keys |-> IF m \in {k, "ALL"} THEN SourceOf(k) ELSE cleared[k]]
    /\ req' = [c \in Calls |-> IF c \in running /\ m \in {req[c].route, "ALL"}
                               THEN [req[c] EXCEPT !.overtaken = TRUE] ELSE req[c]]
    /\ UNCHANGED <<lifeVars, sourceVars, limitVars>>

Tick ==
    /\ IsGateway /\ phase = "serving"
    /\ cache' = [k \in Keys |->
                   IF cache[k] # None /\ cache[k].left >= 0 THEN [cache[k] EXCEPT !.left = @ - 1]
                   ELSE cache[k]]
    /\ IF setup.limit
       THEN /\ bucket' = [p \in Peers |->
                   [bucket[p] EXCEPT !.idle = IF @ < Burst THEN @ + 1 ELSE @]]
            /\ recent' = [p \in Peers |->
                   [w \in 1 .. Window |-> IF w = 1 THEN 0 ELSE recent[p][w - 1]]]
       ELSE UNCHANGED limitVars
    /\ UNCHANGED <<lifeVars, sourceVars, req, cleared>>

\* Calls of the other services.
OtherCall(c) ==
    /\ ~IsGateway /\ c \in setup.calls
    /\ (c \notin running /\ BeginCall(c)) \/ (c \in running /\ EndCall(c))
    /\ UNCHANGED gatewayVars

\* A step of the process; its end clears what it held.
KeepOrClear ==
    /\ IF phase' = "down"
       THEN /\ cache' = Fresh.cache /\ bucket' = Fresh.bucket /\ req' = Fresh.req
            /\ recent' = Fresh.recent
       ELSE UNCHANGED <<cache, limitVars, req>>
    /\ UNCHANGED <<sourceVars, cleared>>

ProcessStep == LifecycleNext /\ KeepOrClear

Next ==
    \/ ProcessStep
    \/ \E c \in Calls :
        \/ OtherCall(c)
        \/ \E r \in DOMAIN Routes, token \in Tokens, p \in Peers : Receive(c, r, token, p)
        \/ CallReturns(c)
    \/ Change \/ Index
    \/ \E m \in {"ALL"} \cup Keys : Invalidate(m)
    \/ Tick

\* Timers fire, the end of a stop comes and a closed connection fails.  Nothing is
\* assumed of a start, whose steps wait for others without a deadline, of calls, of
\* the index, of Postgres or of NATS.
Fairness ==
    /\ WF_vars(Stopped /\ KeepOrClear)
    /\ WF_vars(Elapse /\ KeepOrClear)
    /\ WF_vars(Reconnect /\ KeepOrClear)
    /\ WF_vars(conn = "closed" /\ WorkerReturns /\ KeepOrClear)
    /\ WF_vars(Tick)

Spec == Init /\ [][Next]_vars
FairSpec == Spec /\ Fairness

-----------------------------------------------------------------------------
(* Properties.                                                             *)

\* Once the catalog has stopped changing and the index has caught up with it, what
\* the cache answers becomes current: every stale entry goes within its TTL, also
\* one that a slow request stores after an invalidation.
EventuallyCurrent ==
    \A k \in Keys :
        <>[](SourceOf(k) = version)
        => <>[](cache[k] # None /\ cache[k].left >= 0 => cache[k].val = version)

\* After an invalidation nothing older comes into the cache than its source (the
\* catalog; for Search the index, which may still lag) has shown since, but by a
\* request that was already under way when the invalidation arrived.
InvalidationHolds ==
    \A k \in Keys : cache[k] # None /\ ~cache[k].overtaken => cache[k].val >= cleared[k]

\* In any span of time no more requests with one key get through a limiter than a
\* full bucket and the refill of the span allow.  Per key: see PerIPBound.
BucketBound ==
    \A p \in Peers, w \in 1 .. Window : Cost * recent[p][w] <= Burst + Rate * (w - 1)

\* What ratelimit.go says of itself: the limit is one per client address, here one
\* whose requests come with the keys in Peers (as they do from two connections).
PerIPBound ==
    \A p, q \in Peers, w \in 1 .. Window :
        p # q => Cost * (recent[p][w] + recent[q][w]) <= Burst + Rate * (w - 1)

\* The request is for a write; Logout promises none (see LogoutRevokes of AuthSessions).
Asks(c) ==
    \E i \in DOMAIN Routes[req[c].route].calls :
        Routes[req[c].route].calls[i] \in Writes \ {"logout"}

\* Answers tell the truth about writes.  But for Logout, after a success the write
\* is done.  After a refusal it is not: whatever may hide a write that was done is
\* answered as a failure, also where a call of the services breaks down behind the
\* write.  No protected write is done without a token, and the summary a rating is
\* answered with counts it and every rating acknowledged before.
AnswerTruthful ==
    \A c \in Calls : req[c].route # None =>
        /\ req[c].status = "ok" /\ Asks(c) => req[c].done
        /\ req[c].status = "refused" => ~req[c].done
        /\ req[c].done => Authorized(Routes[req[c].route], req[c].token)
        /\ req[c].status = "ok" /\ req[c].route = "RateAnime" => {c} \cup req[c].floor \subseteq req[c].seen
=============================================================================
