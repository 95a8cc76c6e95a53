------------------------------ MODULE Playback ------------------------------
(***************************************************************************)
(* Watching an episode: the BFF's Watch, the streaming resolver with its   *)
(* cache, retries and circuit breaker, and the HLS proxy that rewrites and *)
(* signs playlists.                                                        *)
(*                                                                         *)
(* One episode and one resolver replica.  Each user has one Watch or one   *)
(* playback at a time, and of the links of a playback the one used next.   *)
(* Times are relative to now: an age, or what is left of a lifetime, so    *)
(* that behaviours need no bound on the clock.  A tick is coarse: at most  *)
(* one passes between the answer of the provider or the cache and the      *)
(* signature (a write to Redis and a reply), while cache entries and links *)
(* live for many minutes.  The breaker's interval and timeout, of seconds, *)
(* may run out at any time.                                                *)
(***************************************************************************)
EXTENDS Integers

CONSTANTS
    Users, None,
    Empty,          \* a playback without sources
    Urls, Master,   \* what the provider serves; a source is a master playlist
    Children,       \* the references of a playlist, {} for a segment
    MaxRetries,     \* HIANIME_MAX_RETRIES
    Threshold,      \* CB_FAILURE_THRESHOLD
    MaxRequests,    \* CB_MAX_REQUESTS
    CacheTTL,       \* CACHE_TTL in ticks
    LinkLife        \* the 15 minutes of a signed URL in ticks

ASSUME PlaybackAssumption ==
    /\ None # Empty /\ {None, Empty} \cap Nat = {}
    /\ Master \in Urls
    /\ Children \in [Urls -> SUBSET Urls]
    /\ MaxRetries \in Nat
    /\ Threshold \in Nat \ {0}
    /\ MaxRequests \in Nat \ {0}
    /\ CacheTTL \in Nat \ {0}
    /\ LinkLife \in Nat

VARIABLES
    up,        \* the provider answers (external)
    cache,     \* the entry of the episode in Redis, or None
    breaker,   \* the gobreaker: state and counts of its generation
    pc,        \* where a user's Watch is
    gone,      \* the client has gone away: the context is cancelled
    ticked,    \* a tick has passed since this Watch has its playback
    calling,   \* a call is under way inside the breaker
    attempt,   \* of that call
    counted,   \* the breaker's generation is still that of the call
    src,       \* the age of the playback a Watch answers with or that is watched
    link,      \* a signed URL the user holds, or None
    watched    \* history: ticks since the Watch that led to the link

callVars == <<calling, attempt, counted>>
playbackVars == <<up, cache, breaker, pc, gone, ticked, callVars, src, link, watched>>

MaxAge == CacheTTL + LinkLife + 2   \* bound: ages are not counted further

Ages == 0 .. MaxAge
Sources == Ages \cup {Empty}
Exps == -1 .. LinkLife              \* -1: has passed
Links == [url : Urls, exp : Exps, sig : Urls \X Exps]

ASSUME LinkAssumption == None \notin Links

\* A closed breaker never holds as many failures as trip it.
PlaybackTypeOK ==
    /\ up \in BOOLEAN
    /\ cache \in {None} \cup [src : Sources, left : 1 .. CacheTTL]
    /\ breaker \in [state : {"closed", "open", "half"}, failures : 0 .. Threshold - 1,
                    requests : 0 .. MaxRequests, successes : 0 .. MaxRequests - 1]
    /\ pc \in [Users -> {"idle", "cache", "episode", "servers", "sources", "set", "sign", "view"}]
    /\ gone \in [Users -> BOOLEAN]
    /\ ticked \in [Users -> BOOLEAN]
    /\ calling \in [Users -> BOOLEAN]
    /\ attempt \in [Users -> 0 .. MaxRetries]
    /\ counted \in [Users -> BOOLEAN]
    /\ src \in [Users -> {None} \cup Sources]
    /\ link \in [Users -> {None} \cup Links]
    /\ watched \in [Users -> Ages]

NewGeneration(s) == [state |-> s, failures |-> 0, requests |-> 0, successes |-> 0]

PlaybackInit ==
    /\ up \in BOOLEAN
    /\ cache = None
    /\ breaker = NewGeneration("closed")
    /\ pc = [u \in Users |-> "idle"]
    /\ gone = [u \in Users |-> FALSE]
    /\ ticked = [u \in Users |-> FALSE]
    /\ calling = [u \in Users |-> FALSE]
    /\ attempt = [u \in Users |-> 0]
    /\ counted = [u \in Users |-> FALSE]
    /\ src = [u \in Users |-> None]
    /\ link = [u \in Users |-> None]
    /\ watched = [u \in Users |-> 0]

Resolving(u) == pc[u] \notin {"idle", "view"}
Holding(u) == pc[u] \in {"set", "sign"}

\* The call to the catalog has no deadline: it may last as long as the client waits.
Waits(u) == pc[u] = "episode" /\ ~gone[u]

\* With the link expired, nothing depends on its age any more.
Dead(u) == link[u] # None /\ link[u].exp = -1

Older(x) == IF x \in {None, Empty, MaxAge} THEN x ELSE x + 1
Sooner(x) == IF x = -1 THEN x ELSE x - 1

\* Plausible bugs, each a variant of the operator of the same name below.
RewriteExpRenewed(l) == LinkLife
GetRenewsEntry(entry) == [entry EXCEPT !.left = CacheTTL]
MayRetryForever(n) == TRUE
OnSuccessUncounted(b) == b

-----------------------------------------------------------------------------
(* Time.                                                                   *)

\* Redis drops an entry whose TTL has run out.
Expire(entry) ==
    IF entry = None \/ entry.left = 1 THEN None
    ELSE [src |-> Older(entry.src), left |-> entry.left - 1]

Tick ==
    /\ \A u \in Users : Holding(u) => ~ticked[u]
    /\ ticked' = [u \in Users |-> Holding(u)]
    /\ cache' = Expire(cache)
    /\ src' = [u \in Users |-> IF Dead(u) THEN src[u] ELSE Older(src[u])]
    /\ link' = [u \in Users |-> IF link[u] = None THEN None
                                ELSE [link[u] EXCEPT !.exp = Sooner(@), !.sig[2] = Sooner(@)]]
    /\ watched' = [u \in Users |-> IF link[u] = None \/ Dead(u) THEN watched[u]
                                   ELSE Older(watched[u])]
    /\ UNCHANGED <<up, breaker, pc, gone, callVars>>

-----------------------------------------------------------------------------
(* The circuit breaker (sony/gobreaker).                                   *)

\* ConsecutiveFailures >= CBFailureThreshold
ReadyToTrip(failures) == failures >= Threshold

\* What an outcome of the breaker's own generation does to it.
OnSuccess(b) ==
    IF b.state = "closed" THEN [b EXCEPT !.failures = 0]
    ELSE IF b.successes + 1 >= MaxRequests THEN NewGeneration("closed")
    ELSE [b EXCEPT !.successes = @ + 1]

OnFailure(b) ==
    IF b.state = "closed" /\ ~ReadyToTrip(b.failures + 1)
    THEN [b EXCEPT !.failures = @ + 1]
    ELSE NewGeneration("open")

Renewed(b) == breaker.state # b.state

\* The end of u's call; with a new generation the calls under way stop counting.
AfterRequest(u, b) ==
    /\ breaker' = IF counted[u] THEN b ELSE breaker
    /\ calling' = [calling EXCEPT ![u] = FALSE]
    /\ attempt' = [attempt EXCEPT ![u] = 0]
    /\ counted' = [v \in Users |-> /\ v # u
                                   /\ counted[v]
                                   /\ ~(counted[u] /\ Renewed(b))]

\* Interval and Timeout run out.
Renew(from, to) ==
    /\ breaker.state = from
    /\ breaker' = NewGeneration(to)
    /\ counted' = [u \in Users |-> FALSE]
    /\ UNCHANGED <<up, cache, pc, gone, ticked, calling, attempt, src, link, watched>>

ClearCounts == Renew("closed", "closed")
HalfOpen == Renew("open", "half")

Admits == /\ breaker.state # "open"
          /\ breaker.state = "half" => breaker.requests < MaxRequests

-----------------------------------------------------------------------------
(* Watch and GetPlayback.                                                  *)

\* Also by a user who is watching and reloads the page.
Watch(u) ==
    /\ ~Resolving(u)
    /\ pc' = [pc EXCEPT ![u] = "cache"]
    /\ gone' = [gone EXCEPT ![u] = FALSE]
    /\ ticked' = [ticked EXCEPT ![u] = FALSE]
    /\ src' = [src EXCEPT ![u] = None]
    /\ link' = [link EXCEPT ![u] = None]
    /\ watched' = [watched EXCEPT ![u] = 0]
    /\ UNCHANGED <<up, cache, breaker, callVars>>

GoAway(u) ==
    /\ Resolving(u) /\ ~gone[u]
    /\ gone' = [gone EXCEPT ![u] = TRUE]
    /\ UNCHANGED <<up, cache, breaker, pc, ticked, callVars, src, link, watched>>

\* The answer is an error.
Refused(u) == pc' = [pc EXCEPT ![u] = "idle"] /\ src' = [src EXCEPT ![u] = None]

\* What a read leaves of an entry.
Get(entry) == entry

CacheHit(u) ==
    /\ pc[u] = "cache"
    /\ ~gone[u] /\ cache # None
    /\ src' = [src EXCEPT ![u] = cache.src]
    /\ cache' = Get(cache)
    /\ pc' = [pc EXCEPT ![u] = "sign"]
    /\ UNCHANGED <<up, breaker, gone, ticked, callVars, link, watched>>

\* A miss, or an error of Redis or the end of the context, which count as one.
CacheMiss(u) ==
    /\ pc[u] = "cache"
    /\ pc' = [pc EXCEPT ![u] = "episode"]
    /\ UNCHANGED <<up, cache, breaker, gone, ticked, callVars, src, link, watched>>

\* resolveProviderEpisode
ResolveEpisode(u) ==
    /\ pc[u] = "episode"
    /\ ~gone[u]
    /\ pc' = [pc EXCEPT ![u] = "servers"]
    /\ UNCHANGED <<up, cache, breaker, gone, ticked, callVars, src, link, watched>>

\* The catalog fails or does not know the episode; or nobody waits any more.
NotFound(u) ==
    /\ pc[u] = "episode"
    /\ Refused(u)
    /\ UNCHANGED <<up, cache, breaker, gone, ticked, callVars, link, watched>>

\* CB.Execute of GetServers or GetSources.
Execute(u) ==
    /\ pc[u] \in {"servers", "sources"} /\ ~calling[u]
    /\ Admits
    /\ breaker' = IF breaker.state = "half" THEN [breaker EXCEPT !.requests = @ + 1] ELSE breaker
    /\ calling' = [calling EXCEPT ![u] = TRUE]
    /\ counted' = [counted EXCEPT ![u] = TRUE]
    /\ UNCHANGED <<up, cache, pc, gone, ticked, attempt, src, link, watched>>

\* ErrOpenState, ErrTooManyRequests
Rejected(u) ==
    /\ pc[u] \in {"servers", "sources"} /\ ~calling[u]
    /\ ~Admits
    /\ Refused(u)
    /\ UNCHANGED <<up, cache, breaker, gone, ticked, callVars, link, watched>>

\* doJSON succeeds.  The answer may still carry a status other than 200.
Answer(u) ==
    /\ calling[u]
    /\ up /\ ~gone[u]
    /\ AfterRequest(u, OnSuccess(breaker))
    /\ \/ /\ pc[u] = "servers"
          /\ pc' = [pc EXCEPT ![u] = "sources"]
          /\ UNCHANGED src
       \/ /\ pc[u] = "sources"
          /\ pc' = [pc EXCEPT ![u] = "set"]
          /\ \E s \in {0, Empty} : src' = [src EXCEPT ![u] = s]
       \/ Refused(u)
    /\ UNCHANGED <<up, cache, gone, ticked, link, watched>>

MayRetry(n) == n < MaxRetries

\* doJSON fails and the loop goes on after the delay.
Retry(u) ==
    /\ calling[u]
    /\ ~up /\ ~gone[u]
    /\ MayRetry(attempt[u])
    /\ attempt' = [attempt EXCEPT ![u] = IF @ < MaxRetries THEN @ + 1 ELSE @]
    /\ UNCHANGED <<up, cache, breaker, pc, gone, ticked, calling, counted, src, link, watched>>

\* The last attempt fails, or the context is done: either is a failure.
CallError(u) ==
    /\ calling[u]
    /\ gone[u] \/ (~up /\ ~MayRetry(attempt[u]))
    /\ AfterRequest(u, OnFailure(breaker))
    /\ Refused(u)
    /\ UNCHANGED <<up, cache, gone, ticked, link, watched>>

\* Cache.Set, whose error is ignored; a playback without sources is kept too.
Set(u) ==
    /\ pc[u] = "set"
    /\ \/ ~gone[u] /\ cache' = [src |-> src[u], left |-> CacheTTL]
       \/ UNCHANGED cache
    /\ pc' = [pc EXCEPT ![u] = "sign"]
    /\ UNCHANGED <<up, breaker, gone, ticked, callVars, src, link, watched>>

\* SignWithHeaders of the first source.
SignValue(url, exp) == <<url, exp>>

Sign(u) ==
    /\ pc[u] = "sign"
    /\ IF src[u] = Empty \/ gone[u]
       THEN Refused(u) /\ UNCHANGED link
       ELSE /\ pc' = [pc EXCEPT ![u] = "view"]
            /\ link' = [link EXCEPT ![u] = [url |-> Master, exp |-> LinkLife,
                                            sig |-> SignValue(Master, LinkLife)]]
            /\ UNCHANGED src
    /\ UNCHANGED <<up, cache, breaker, gone, ticked, callVars, watched>>

-----------------------------------------------------------------------------
(* The HLS proxy.                                                          *)

\* now > exp is refused.
Verify(l) == l.exp >= 0 /\ l.sig = SignValue(l.url, l.exp)

\* The rewriter has a signature of its own, made of the exp of the request.
RewriteExp(l) == l.exp
SignURL(l, target) == <<target, RewriteExp(l)>>

BuildProxyURL(l, target) ==
    [url |-> target, exp |-> RewriteExp(l), sig |-> SignURL(l, target)]

\* The lines and URI attributes of a playlist, resolved against its URL.
References(url) == Children[url]

Rewritten(l) == {BuildProxyURL(l, target) : target \in References(l.url)}

\* A playlist comes back with every reference rewritten, and the user goes on with
\* one of them; a segment comes as it is.
Proxy(u) ==
    /\ pc[u] = "view"
    /\ Verify(link[u])
    /\ \E l \in Rewritten(link[u]) : link' = [link EXCEPT ![u] = l]
    /\ UNCHANGED <<up, cache, breaker, pc, gone, ticked, callVars, src, watched>>

Forbidden(u) ==
    /\ pc[u] = "view"
    /\ ~Verify(link[u])
    /\ Refused(u)
    /\ link' = [link EXCEPT ![u] = None]
    /\ watched' = [watched EXCEPT ![u] = 0]
    /\ UNCHANGED <<up, cache, breaker, gone, ticked, callVars>>

\* The provider goes down or comes back.
ProviderChanges ==
    /\ up' = ~up
    /\ UNCHANGED <<cache, breaker, pc, gone, ticked, callVars, src, link, watched>>

-----------------------------------------------------------------------------

Step(u) ==
    \/ CacheHit(u) \/ CacheMiss(u) \/ ResolveEpisode(u) \/ NotFound(u)
    \/ Execute(u) \/ Rejected(u) \/ Answer(u) \/ Retry(u) \/ CallError(u)
    \/ Set(u) \/ Sign(u)

PlaybackNext ==
    \/ Tick \/ ClearCounts \/ HalfOpen \/ ProviderChanges
    \/ \E u \in Users : Watch(u) \/ GoAway(u) \/ Step(u) \/ Proxy(u) \/ Forbidden(u)

\* Calls to Redis and to the provider have timeouts and time passes; nothing is
\* assumed of the catalog while the client waits.
PlaybackFairness ==
    /\ \A u \in Users : WF_playbackVars(~Waits(u) /\ Step(u))
    /\ WF_playbackVars(HalfOpen)

PlaybackSpec == PlaybackInit /\ [][PlaybackNext]_playbackVars
FairPlaybackSpec == PlaybackSpec /\ PlaybackFairness

-----------------------------------------------------------------------------
(* Properties.                                                             *)

\* A link works for exactly LinkLife from the Watch it comes from, however many
\* playlists it was handed on through: rewriting inherits exp and never extends
\* it, and what the rewriter signs is what Verify, an independent implementation
\* of the signature, expects.
LinkLifetime ==
    \A u \in Users : pc[u] = "view" => (Verify(link[u]) <=> watched[u] <= LinkLife)

\* The two lifetimes add up and no more: whatever the proxy fetches goes back to
\* an answer of the provider of at most CacheTTL and LinkLife ago (and the tick
\* of the Watch), also when a slow Watch overwrites a younger cache entry.
SourceAge ==
    \A u \in Users :
        pc[u] = "view" /\ Verify(link[u]) => src[u] <= CacheTTL + LinkLife + 1

\* No Watch waits for anything but the catalog, however long the provider is down:
\* the retries end, nobody waits for the breaker, and a client that goes away ends
\* also the wait for the catalog.
EventuallyAnswered == \A u \in Users : Resolving(u) ~> ~Resolving(u) \/ Waits(u)

\* When the provider is back for good and the clients wait for their answers, the
\* breaker closes for good, as long as there are requests to probe with: no
\* generation is left half-open with its probes used up.
BreakerRecovers ==
    (/\ <>[](up /\ \A u \in Users : ~gone[u])
     /\ []<>(\E u \in Users : pc[u] = "servers"))
    => <>[](breaker.state = "closed")
=============================================================================
