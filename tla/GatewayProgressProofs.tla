----------------------- MODULE GatewayProgressProofs ------------------------
(***************************************************************************)
(* Proofs about Gateway, for any deployments, calls in progress, catalog   *)
(* versions, TTL, buckets and keys of a limiter, and about                 *)
(* ActivityProgress, the reports that one of its handlers accepts, for any *)
(* reports, workers, batch size and number of faults.                      *)
(*                                                                         *)
(* The inductive invariant of the gateway has a part for each of its       *)
(* properties.  Drawn adds what a bucket would hold now to what it has     *)
(* paid out, so that an admitted request moves its cost from the one to    *)
(* the other.  Active says what a request in progress has done and read:   *)
(* at its second call its write is done, its rating is in the table, and   *)
(* what it read is no older than what could be read since the last         *)
(* invalidation of its key, unless that invalidation came in between.  LifeInv is about the process: it has no  *)
(* calls before it serves, and is connected to NATS by one step of its     *)
(* start.                                                                  *)
(*                                                                         *)
(* That of ActivityProgress (ProgressInv) says where the reports of a      *)
(* batch are and what a transaction is about to write: rows that are the   *)
(* newest of what they were and of what it applied to them (DraftAt),      *)
(* which stays true because no other open transaction, and no upsert of    *)
(* one statement, touches the same row (Exclusive and the guards of the    *)
(* upserts).                                                               *)
(***************************************************************************)
EXTENDS Gateway, ActivityProgress, SequenceTheorems, TLAPS

\* The steps of a start that connect to NATS.
Attempts(k) == k \in {"nats", "natsprod", "natsopt"}

\* The process: nobody is served before it serves, it connects to NATS once, and
\* no call is cut off by a graceful stop within its time.
LifeInv ==
    /\ phase \in {"down", "starting"} => running = {}
    /\ phase = "down" => conn = "none"
    /\ phase = "starting" => step >= 1
    /\ conn # "none" => \A i \in 1 .. Len(main.start) : i >= step => ~Attempts(main.start[i])
    /\ conn # "closed" => attempts < MaxReconnects
    /\ main.stop = "graceful" => cut \notin {"start", "stop"}

\* A request in progress: what is done of it, and what it has read.
Active(c) ==
    /\ req[c].route \in DOMAIN Routes
    /\ req[c].status = "none"
    /\ req[c].at \in 1 .. Len(Routes[req[c].route].calls)
    /\ Authorized(Routes[req[c].route], req[c].token)
    /\ req[c].at = 1 => ~req[c].done
    /\ req[c].at = 2 => (req[c].done <=> Asks(c))
    /\ req[c].floor \subseteq raters
    /\ req[c].at = 2 /\ req[c].route = "RateAnime" => c \in raters
    /\ req[c].at = 2 /\ req[c].route \in Keys /\ ~req[c].overtaken
          => req[c].got >= cleared[req[c].route]

\* As long as it is the gateway that runs.
InProgress == IsGateway => \A c \in running : Active(c)

\* The source of a key shows nothing older than what it has shown since the last
\* invalidation.
Clean == \A k \in Keys : cleared[k] <= SourceOf(k)

\* Refilled, of a bucket b.
Fill(b) == IF b.tokens + b.idle * Rate > Burst THEN Burst ELSE b.tokens + b.idle * Rate

\* What the last w ticks have let through and what the bucket holds.
Paid(b, n) == \A w \in 1 .. Window : Cost * n[w] + Fill(b) <= Burst + Rate * (w - 1)
Drawn == \A p \in Peers : Paid(bucket[p], recent[p])

IInv == TypeOK /\ LifeInv /\ InProgress /\ Clean /\ Drawn /\ InvalidationHolds /\ AnswerTruthful

-----------------------------------------------------------------------------
(* The process.                                                            *)

\* A main connects to NATS at most once.
LEMMA MainFacts ==
    \A m \in Mains :
        /\ Len(m.start) \in Nat
        /\ \A i, j \in 1 .. Len(m.start) : i < j => ~(Attempts(m.start[i]) /\ Attempts(m.start[j]))
  <1> DEFINE Fine(m) ==
        /\ Len(m.start) \in Nat
        /\ \A i, j \in 1 .. Len(m.start) : i < j => ~(Attempts(m.start[i]) /\ Attempts(m.start[j]))
  <1> USE DEF Main, Attempts
  <1>1. Fine(AuthMain) /\ Fine(CatalogMain) /\ Fine(ActivityMain)
    BY DEF AuthMain, CatalogMain, ActivityMain
  <1>2. Fine(SearchMain) /\ Fine(ResolverMain) /\ Fine(SocialMain)
    BY DEF SearchMain, ResolverMain, SocialMain
  <1>3. Fine(BillingMain) /\ Fine(IngestionMain) /\ Fine(StreamingMain)
    BY DEF BillingMain, IngestionMain, StreamingMain
  <1>4. Fine(HLSProxyMain) /\ Fine(BFFMain) /\ Fine(AnalyticsMain)
    BY DEF HLSProxyMain, BFFMain, AnalyticsMain
  <1> QED
    <2> HIDE DEF Fine
    <2>1. \A m \in Mains : Fine(m)
      BY <1>1, <1>2, <1>3, <1>4 DEF Mains
    <2> QED BY <2>1 DEF Fine

\* What is known of the deployment.
LEMMA SetupFacts ==
    ASSUME LifecycleTypes
    PROVE  /\ main \in Mains /\ setup.outages \in Nat
           /\ Len(main.start) \in Nat
           /\ \A i, j \in 1 .. Len(main.start) :
                i < j => ~(Attempts(main.start[i]) /\ Attempts(main.start[j]))
  BY MainFacts, LifecycleAssumption DEF LifecycleTypes, LifecycleAssumption, main

\* The end of a process leaves nothing in progress.
LEMMA EndLife ==
    ASSUME LifecycleTypes, LifeInv, NEW why \in {"start", "stop", "timeout", "panic", "worker"},
           End(why), UNCHANGED <<setup, envVars>>,
           main.stop = "graceful" /\ running # {} => why \notin {"start", "stop"}
    PROVE  LifecycleTypes' /\ LifeInv'
  BY SetupFacts, LifecycleAssumption
     DEF LifecycleTypes, LifeInv, LifecycleAssumption, End, envVars, main

\* A step of the start.
LEMMA StartLife ==
    ASSUME LifecycleTypes, LifeInv, StartStep
    PROVE  LifecycleTypes' /\ LifeInv'
  <1> USE DEF LifecycleTypes, LifeInv, StartStep, envVars, main
  <1>1. /\ step \in Nat /\ step <= Len(main.start) /\ step' = step + 1 /\ setup' = setup
        /\ Len(main.start) \in Nat /\ step' \in 0 .. Len(main.start) + 1
    BY SetupFacts
  <1>2. \A i \in 1 .. Len(main.start) : i >= step' => i >= step /\ i # step
    BY <1>1
  <1>3. CASE Attempts(main.start[step])
    <2>1. conn' \in {"none", "open"} /\ stores' = stores
      BY <1>3 DEF Attempts, Succeeds, Connect
    <2>2. step \in 1 .. Len(main.start) \/ step = 0
      BY <1>1
    <2>3. step # 0
      BY <1>1
    <2>4. conn = "none" /\ attempts < MaxReconnects
      BY <1>1, <1>3, <2>2, <2>3
    <2>5. \A i \in 1 .. Len(main.start) : i >= step' => ~Attempts(main.start[i])
      BY <1>1, <1>3, <2>2, <2>3, SetupFacts
    <2> QED
      BY <1>1, <2>1, <2>4, <2>5
  <1>4. CASE ~Attempts(main.start[step])
    <2>1. conn' = conn /\ stores' \in SUBSET {"postgres", "memory", "nil"}
      BY <1>4 DEF Attempts, Succeeds, Open, OpenOrMemory
    <2> QED
      BY <1>1, <1>2, <2>1
  <1> QED BY <1>3, <1>4

\* A step of the process keeps both, and a process that is down serves nobody.
LEMMA ProcessLife ==
    ASSUME LifecycleTypes, LifeInv, LifecycleNext
    PROVE  LifecycleTypes' /\ LifeInv'
  <1> USE DEF envVars, procVars, main
  <1>1. CASE Start
    BY <1>1, SetupFacts DEF Start, LifecycleTypes, LifeInv
  <1>2. CASE StartStep
    BY <1>2, StartLife
  <1>3. CASE StartFails
    <2>1. running = {} /\ End("start") /\ UNCHANGED <<setup, envVars>>
      BY <1>3 DEF StartFails, LifeInv
    <2> QED BY <2>1, EndLife
  <1>4. CASE Serve
    <2>1. \A i \in 1 .. Len(main.start) : ~(i >= step)
      BY <1>4, SetupFacts DEF Serve, LifecycleTypes
    <2> QED
      BY <1>4, <2>1 DEF Serve, LifecycleTypes, LifeInv
  <1>5. CASE Panic
    BY <1>5, EndLife DEF Panic
  <1>6. CASE Reconnect
    BY <1>6, LifecycleAssumption DEF Reconnect, LifecycleTypes, LifeInv, LifecycleAssumption
  <1>7. CASE Break
    BY <1>7 DEF Break, LifecycleTypes, LifeInv
  <1>8. CASE WorkerStarts
    BY <1>8 DEF WorkerStarts, LifecycleTypes, LifeInv
  <1>9. CASE WorkerReturns
    <2>1. CASE End("worker")
      BY <1>9, <2>1, EndLife DEF WorkerReturns
    <2>2. CASE ~End("worker")
      BY <1>9, <2>2 DEF WorkerReturns, WorkerEnd, LifecycleTypes, LifeInv
    <2> QED BY <2>1, <2>2
  <1>10. CASE Signal
    <2>1. CASE main.stop = "exit"
      <3>1. End("stop") /\ UNCHANGED <<setup, envVars>> /\ main.stop # "graceful"
        BY <1>10, <2>1 DEF Signal
      <3> QED BY <3>1, EndLife
    <2>2. CASE main.stop # "exit"
      BY <1>10, <2>2 DEF Signal, LifecycleTypes, LifeInv
    <2> QED BY <2>1, <2>2
  <1>11. CASE Elapse
    BY <1>11, LifecycleAssumption DEF Elapse, LifecycleTypes, LifeInv, LifecycleAssumption
  <1>12. CASE Stopped
    <2>1. CASE waited = StopTimeout
      <3>1. End("timeout") /\ UNCHANGED <<setup, envVars>>
        BY <1>12, <2>1 DEF Stopped
      <3> QED BY <3>1, EndLife
    <2>2. CASE waited # StopTimeout
      <3>1. End("stop") /\ UNCHANGED <<setup, envVars>> /\ running = {}
        BY <1>12, <2>2 DEF Stopped, MayEnd
      <3> QED BY <3>1, EndLife
    <2> QED BY <2>1, <2>2
  <1>13. CASE Outage
    <2>1. natsUp' \in BOOLEAN /\ dbUp' \in BOOLEAN
      BY <1>13, Zenon DEF Outage, LifecycleTypes
    <2>2. outages' \in 0 .. setup.outages /\ UNCHANGED <<setup, procVars, running>>
      BY <1>13, SetupFacts DEF Outage, LifecycleTypes
    <2> QED
      BY <2>1, <2>2 DEF LifecycleTypes, LifeInv
  <1>14. CASE Recover
    BY <1>14 DEF Recover, LifecycleTypes, LifeInv
  <1> QED
    BY <1>1, <1>2, <1>3, <1>4, <1>5, <1>6, <1>7, <1>8, <1>9, <1>10, <1>11, <1>12, <1>13, <1>14
       DEF LifecycleNext

-----------------------------------------------------------------------------
(* The routes.                                                             *)

AsksOf(r) == \E i \in DOMAIN Routes[r].calls : Routes[r].calls[i] \in Writes \ {"logout"}

\* What the proofs use of a route: one or two calls, a cached one has two, a write
\* comes first and alone, except for the rating, which is read back.
Shape(r) ==
    LET calls == Routes[r].calls IN
    /\ Len(calls) \in {1, 2}
    /\ Routes[r].cached \in BOOLEAN
    /\ Routes[r].cached <=> calls[1] \in {"search", "ids"}
    /\ Routes[r].cached => Len(calls) = 2 /\ calls[2] \in {"jikan", "page"}
    /\ Len(calls) = 2 /\ ~Routes[r].cached => calls[2] \in {"episodes", "summary"}
    /\ calls[1] \notin {"jikan", "page", "episodes"}
    /\ calls[1] = "search" <=> r = "Search"
    /\ calls[1] = "upsert" <=> r = "RateAnime"
    /\ r = "RateAnime" => Len(calls) = 2 /\ calls[2] = "summary"
    /\ calls[1] \in Writes \ {"upsert"} => Len(calls) = 1
    /\ AsksOf(r) <=> calls[1] \in Writes \ {"logout"}

\* A route of one call, as most are.
LEMMA OneCall ==
    ASSUME NEW r, NEW g, NEW b, NEW k, Routes[r] = Handler(g, b, FALSE, <<k>>),
           r \notin {"RateAnime", "Search"},
           k \notin {"search", "ids", "jikan", "page", "episodes", "upsert"}
    PROVE  Shape(r)
  <1>1. /\ Routes[r].calls = <<k>> /\ Routes[r].cached = FALSE
        /\ Len(Routes[r].calls) = 1 /\ Routes[r].calls[1] = k /\ DOMAIN Routes[r].calls = {1}
    BY DEF Handler
  <1>2. AsksOf(r) <=> k \in Writes \ {"logout"}
    BY <1>1 DEF AsksOf
  <1>3. 1 # 2
    OBVIOUS
  <1>4. Len(Routes[r].calls) # 2
    BY <1>1, <1>3, Zenon
  <1> QED BY <1>1, <1>2, <1>4 DEF Shape

\* A route of two calls, as it is when the answer is cached, when what was written
\* is read back, and when episodes are looked up.
LEMMA TwoCalls ==
    ASSUME NEW r, NEW g, NEW b, NEW cached \in BOOLEAN, NEW k, NEW l,
           Routes[r] = Handler(g, b, cached, <<k, l>>),
           \/ /\ cached /\ r # "RateAnime" /\ k \in {"search", "ids"} /\ l \in {"jikan", "page"}
              /\ k = "search" <=> r = "Search"
           \/ ~cached /\ r \notin {"RateAnime", "Search"} /\ k = "read" /\ l = "episodes"
           \/ ~cached /\ r = "RateAnime" /\ k = "upsert" /\ l = "summary"
    PROVE  Shape(r)
  <1>1. /\ Routes[r].calls = <<k, l>> /\ Routes[r].cached = cached
        /\ Len(Routes[r].calls) = 2 /\ Routes[r].calls[1] = k /\ Routes[r].calls[2] = l
        /\ DOMAIN Routes[r].calls = {1, 2}
    BY DEF Handler
  <1>2. AsksOf(r) <=> k \in Writes \ {"logout"}
    BY <1>1 DEF AsksOf, Writes
  <1> QED BY <1>1, <1>2 DEF Shape, Writes

\* Every route has this shape.
LEMMA RouteShape == \A r \in DOMAIN Routes : Shape(r)
  <1>1. DOMAIN Routes =
          {"Register", "Login", "Refresh", "Logout", "Search", "ListAnime",
           "GetAnime", "GetEpisodesByAnime", "GetEpisode", "GetRating", "ListComments", "Watch",
           "Me", "ContinueWatching", "UpsertProgress", "CreateComment", "VoteComment", "UpdateComment",
           "DeleteComment", "RateAnime", "Backfill"}
    BY DEF Routes
  <1>2. /\ Routes["Register"] = Register
        /\ Routes["Login"] = Login
        /\ Routes["Refresh"] = Refresh
        /\ Routes["Logout"] = Logout
        /\ Routes["GetAnime"] = GetAnime
        /\ Routes["GetEpisodesByAnime"] = GetEpisodesByAnime
    BY DEF Routes
  <1>3. /\ Routes["GetEpisode"] = GetEpisode
        /\ Routes["GetRating"] = GetRating
        /\ Routes["ListComments"] = ListComments
        /\ Routes["Watch"] = Watch
        /\ Routes["Me"] = Me
        /\ Routes["UpsertProgress"] = UpsertProgress
    BY DEF Routes
  <1>4. /\ Routes["CreateComment"] = CreateComment
        /\ Routes["VoteComment"] = VoteComment
        /\ Routes["UpdateComment"] = UpdateComment
        /\ Routes["DeleteComment"] = DeleteComment
        /\ Routes["Backfill"] = Backfill
    BY DEF Routes
  <1>5. /\ Routes["Search"] = Search
        /\ Routes["ListAnime"] = ListAnime
        /\ Routes["ContinueWatching"] = ContinueWatching
        /\ Routes["RateAnime"] = RateAnime
    BY DEF Routes
  <1>6. /\ Shape("Register")
        /\ Shape("Login")
        /\ Shape("Refresh")
        /\ Shape("Logout")
        /\ Shape("GetAnime")
        /\ Shape("GetEpisodesByAnime")
    BY <1>2, OneCall DEF Register, Login, Refresh, Logout, GetAnime, GetEpisodesByAnime
  <1>7. /\ Shape("GetEpisode")
        /\ Shape("GetRating")
        /\ Shape("ListComments")
        /\ Shape("Watch")
        /\ Shape("Me")
        /\ Shape("UpsertProgress")
    BY <1>3, OneCall DEF GetEpisode, GetRating, ListComments, Watch, Me, UpsertProgress
  <1>8. /\ Shape("CreateComment")
        /\ Shape("VoteComment")
        /\ Shape("UpdateComment")
        /\ Shape("DeleteComment")
        /\ Shape("Backfill")
    BY <1>4, OneCall DEF CreateComment, VoteComment, UpdateComment, DeleteComment, Backfill
  <1>9. /\ Shape("Search")
        /\ Shape("ListAnime")
        /\ Shape("ContinueWatching")
        /\ Shape("RateAnime")
    BY <1>5, TwoCalls DEF Search, ListAnime, ContinueWatching, RateAnime
  <1> QED
    BY <1>1, <1>6, <1>7, <1>8, <1>9

\* What AnswerTruthful says of one request.
Truthful(c) ==
    /\ req[c].status = "ok" /\ Asks(c) => req[c].done
    /\ req[c].status = "refused" => ~req[c].done
    /\ req[c].done => Authorized(Routes[req[c].route], req[c].token)
    /\ req[c].status = "ok" /\ req[c].route = "RateAnime" => {c} \cup req[c].floor \subseteq req[c].seen

-----------------------------------------------------------------------------
(* The calls of a request.                                                 *)

\* A position in a sequence of one or two elements.
LEMMA UpTo == \A n \in {1, 2} : \A i \in 1 .. n : i \in {1, 2} /\ i <= n
  OBVIOUS

\* Where a request is that makes a call.
LEMMA CallKinds ==
    ASSUME NEW c \in running, Active(c)
    PROVE  /\ Call(c) \in {"search", "ids"} =>
                req[c].at = 1 /\ ~Last(c) /\ req[c].route \in Keys
           /\ Call(c) \in {"jikan", "page"} =>
                req[c].at = 2 /\ Last(c) /\ req[c].route \in Keys
           /\ req[c].route \in Keys => Call(c) \in {"search", "ids", "jikan", "page"}
           /\ Call(c) = "upsert" => req[c].at = 1 /\ ~Last(c)
           /\ Call(c) \in Writes \ {"upsert"} => req[c].at = 1 /\ Last(c)
           /\ Call(c) = "search" => req[c].route = "Search"
           /\ Call(c) = "ids" => req[c].route # "Search"
           /\ Call(c) \in Writes => ~req[c].done
           /\ Call(c) \in Writes \ {"logout"} => Asks(c)
           /\ Call(c) = "logout" => ~Asks(c) /\ req[c].route # "RateAnime"
           /\ Call(c) \notin Writes => (req[c].done <=> Asks(c))
           /\ Call(c) \notin Writes /\ Asks(c) => Call(c) = "summary"
           /\ req[c].route = "RateAnime" =>
                Call(c) = "upsert" \/ (Call(c) = "summary" /\ req[c].at = 2)
           /\ Call(c) = "upsert" => req[c].route = "RateAnime"
           /\ ~Last(c) => req[c].at = 1
  <1> DEFINE r == req[c].route
             calls == Routes[r].calls
  <1>1. r \in DOMAIN Routes /\ Shape(r)
    BY RouteShape DEF Active
  <1>2. Asks(c) <=> AsksOf(r)
    BY DEF Asks, AsksOf
  <1>3. r \in Keys <=> Routes[r].cached
    BY <1>1 DEF Keys
  <1>4. req[c].at \in {1, 2} /\ req[c].at <= Len(calls) /\ Len(calls) \in {1, 2}
    <2>1. Len(calls) \in {1, 2}
      BY <1>1 DEF Shape
    <2>2. req[c].at \in 1 .. Len(calls)
      BY DEF Active
    <2> QED BY <2>1, <2>2, UpTo
  <1>5. Call(c) = calls[req[c].at] /\ (Last(c) <=> req[c].at = Len(calls))
    BY DEF Call, Last
  <1>6. /\ req[c].at = 1 => ~req[c].done
        /\ req[c].at = 2 => (req[c].done <=> Asks(c))
    BY DEF Active
  <1>7. CASE req[c].at = 1
    BY <1>1, <1>2, <1>3, <1>5, <1>6, <1>7 DEF Shape, Writes
  <1>8. CASE req[c].at = 2
    <2>1. Len(calls) = 2 /\ Call(c) = calls[2] /\ Last(c)
      BY <1>4, <1>5, <1>8
    <2>2. calls[2] \in {"jikan", "page", "episodes", "summary"}
      BY <1>1, <2>1 DEF Shape
    <2>3. /\ r \in Keys <=> calls[2] \in {"jikan", "page"}
          /\ r = "RateAnime" => calls[2] \notin {"jikan", "page"}
      BY <1>1, <1>3, <2>1 DEF Shape
    <2>4. r = "RateAnime" => calls[2] = "summary"
      BY <1>1, <2>1 DEF Shape
    <2>5. Asks(c) => r = "RateAnime"
      BY <1>1, <1>2, <2>1 DEF Shape, Writes
    <2> QED
      BY <1>6, <1>8, <2>1, <2>2, <2>3, <2>4, <2>5 DEF Writes
  <1> QED BY <1>4, <1>7, <1>8

\* What a call does to its request, the cache and the ratings.
Outcome(c) ==
    /\ \E r \in Requests : req' = [req EXCEPT ![c] = r]
    /\ \/ cache' = cache
       \/ /\ req[c].route \in Keys
          /\ \E e \in Entries :
               /\ cache' = [cache EXCEPT ![req[c].route] = e]
               /\ ~e.overtaken => e.val >= cleared[req[c].route]
    /\ running' \in {running, running \ {c}}
    /\ c \in running' => Active(c)'
    /\ c \notin running' => Truthful(c)'

\* r is the request as a call leaves it before it goes on or ends.
Successor(c, r) ==
    /\ r \in Requests
    /\ r.route = req[c].route /\ r.token = req[c].token /\ r.floor = req[c].floor
    /\ r.overtaken = req[c].overtaken /\ r.status = "none" /\ r.at = req[c].at

\* The fields of a request may be set one by one.
LEMMA RequestFields ==
    /\ \A r \in Requests, k \in DOMAIN Routes : [r EXCEPT !.route = k] \in Requests
    /\ \A r \in Requests, t \in Tokens : [r EXCEPT !.token = t] \in Requests
    /\ \A r \in Requests, i \in 0 .. 2 : [r EXCEPT !.at = i] \in Requests
    /\ \A r \in Requests, v \in 0 .. MaxVersion : [r EXCEPT !.got = v] \in Requests
    /\ \A r \in Requests, q \in SUBSET Calls : [r EXCEPT !.seen = q] \in Requests
    /\ \A r \in Requests, q \in SUBSET Calls : [r EXCEPT !.floor = q] \in Requests
    /\ \A r \in Requests, b \in BOOLEAN : [r EXCEPT !.done = b] \in Requests
    /\ \A r \in Requests, b \in BOOLEAN : [r EXCEPT !.overtaken = b] \in Requests
    /\ \A r \in Requests, s \in {"none", "ok", "refused", "failed"} : [r EXCEPT !.status = s] \in Requests
  <1>1. \A r \in Requests, k \in DOMAIN Routes : [r EXCEPT !.route = k] \in Requests
    BY DEF Requests
  <1>2. \A r \in Requests, t \in Tokens : [r EXCEPT !.token = t] \in Requests
    BY DEF Requests
  <1>3. \A r \in Requests, i \in 0 .. 2 : [r EXCEPT !.at = i] \in Requests
    BY DEF Requests
  <1>4. \A r \in Requests, v \in 0 .. MaxVersion : [r EXCEPT !.got = v] \in Requests
    BY DEF Requests
  <1>5. \A r \in Requests, q \in SUBSET Calls : [r EXCEPT !.seen = q] \in Requests
    BY DEF Requests
  <1>6. \A r \in Requests, q \in SUBSET Calls : [r EXCEPT !.floor = q] \in Requests
    BY DEF Requests
  <1>7. \A r \in Requests, b \in BOOLEAN : [r EXCEPT !.done = b] \in Requests
    BY DEF Requests
  <1>8. \A r \in Requests, b \in BOOLEAN : [r EXCEPT !.overtaken = b] \in Requests
    BY DEF Requests
  <1>9. \A r \in Requests, s \in {"none", "ok", "refused", "failed"} : [r EXCEPT !.status = s] \in Requests
    BY DEF Requests
  <1> QED BY <1>1, <1>2, <1>3, <1>4, <1>5, <1>6, <1>7, <1>8, <1>9

\* It keeps the type of a request when it ends.
LEMMA RequestTypes ==
    \A r \in Requests, status \in {"ok", "refused", "failed"} :
        [r EXCEPT !.status = status, !.at = 0] \in Requests
  <1> SUFFICES ASSUME NEW r \in Requests, NEW status \in {"ok", "refused", "failed"}
        PROVE [r EXCEPT !.status = status, !.at = 0] \in Requests
    OBVIOUS
  <1> DEFINE s == [r EXCEPT !.status = status]
  <1>1. s \in Requests
    BY RequestFields
  <1>2. [s EXCEPT !.at = 0] \in Requests
    <2>1. 0 \in 0 .. 2
      OBVIOUS
    <2> HIDE DEF s
    <2> QED BY <1>1, <2>1, RequestFields, Zenon
  <1> QED BY <1>2

\* It ends.
LEMMA FinishOutcome ==
    ASSUME IInv, NEW c \in running, Active(c), NEW r, Successor(c, r),
           NEW status \in {"ok", "refused", "failed"}, NEW store \in BOOLEAN,
           Finish(c, r, status, store), cleared' = cleared,
           store => r.route \in Keys /\ (~r.overtaken => r.got >= cleared[r.route]),
           status = "ok" /\ Asks(c) => r.done,
           status = "refused" => ~r.done,
           status = "ok" /\ r.route = "RateAnime" => {c} \cup r.floor \subseteq r.seen
    PROVE  Outcome(c)
  <1> DEFINE a == [r EXCEPT !.status = status, !.at = 0]
  <1>1. a \in Requests
    BY RequestTypes DEF Successor
  <1>2. req' = [req EXCEPT ![c] = a] /\ running' = running \ {c}
    BY DEF Finish
  <1>3. c \in DOMAIN req /\ req'[c] = a
    BY <1>2 DEF IInv, TypeOK, LifecycleTypes
  <1>4. \/ cache' = cache
        \/ /\ req[c].route \in Keys
           /\ \E e \in Entries :
                /\ cache' = [cache EXCEPT ![req[c].route] = e]
                /\ ~e.overtaken => e.val >= cleared[req[c].route]
    <2>1. CASE ~store
      BY <2>1 DEF Finish
    <2>2. CASE store
      <3> DEFINE e == [val |-> r.got, left |-> TTL, overtaken |-> r.overtaken]
      <3>1. e \in Entries
        BY GatewayAssumption DEF Successor, Requests, Entries, GatewayAssumption
      <3>2. cache' = [cache EXCEPT ![req[c].route] = e] /\ req[c].route \in Keys
        BY <2>2 DEF Finish, Set, Successor
      <3>3. ~e.overtaken => e.val >= cleared[req[c].route]
        BY <2>2 DEF Successor
      <3> QED BY <3>1, <3>2, <3>3
    <2> QED BY <2>1, <2>2
  <1>5. Truthful(c)'
    <2>1. /\ a.route = req[c].route /\ a.token = req[c].token /\ a.status = status
          /\ a.done = r.done /\ a.seen = r.seen /\ a.floor = r.floor
      BY DEF Successor, Requests
    <2>2. Authorized(Routes[req[c].route], req[c].token)
      BY DEF Active
    <2> QED
      BY <1>3, <2>1, <2>2 DEF Truthful, Asks, Successor
  <1> QED
    BY <1>1, <1>2, <1>4, <1>5 DEF Outcome

\* It goes on to its second call.
LEMMA ContinueOutcome ==
    ASSUME IInv, NEW c \in running, Active(c), NEW r, Successor(c, r),
           Continue(c, r), cleared' = cleared, ~Last(c),
           raters \subseteq raters',
           r.done <=> Asks(c),
           r.route = "RateAnime" => c \in raters',
           r.route \in Keys /\ ~r.overtaken => r.got >= cleared[r.route]
    PROVE  Outcome(c)
  <1> DEFINE a == [r EXCEPT !.at = @ + 1]
  <1>1. req[c].at = 1 /\ Len(Routes[req[c].route].calls) \in {1, 2}
    BY CallKinds, RouteShape DEF Active, Shape
  <1>2. Len(Routes[req[c].route].calls) = 2
    BY <1>1 DEF Last
  <1>3. a \in Requests /\ a.at = 2
    BY <1>1 DEF Successor, Requests
  <1>4. req' = [req EXCEPT ![c] = a] /\ running' = running /\ cache' = cache
    BY DEF Continue
  <1>5. req'[c] = a
    BY <1>4 DEF IInv, TypeOK, LifecycleTypes
  <1>6. /\ a.route = req[c].route /\ a.token = req[c].token /\ a.status = "none"
        /\ a.done = r.done /\ a.floor = req[c].floor /\ a.got = r.got
        /\ a.overtaken = r.overtaken /\ r.route = req[c].route
    BY DEF Successor, Requests
  <1>7. Active(c)'
    <2>1. req'[c].at \in 1 .. Len(Routes[req'[c].route].calls)
      <3>1. 2 \in 1 .. Len(Routes[req[c].route].calls)
        BY <1>2
      <3> QED BY <1>3, <1>5, <1>6, <3>1
    <2>2. req'[c].done <=> Asks(c)'
      BY <1>5, <1>6 DEF Asks
    <2>3. Authorized(Routes[req'[c].route], req'[c].token) /\ req'[c].route \in DOMAIN Routes
      BY <1>5, <1>6 DEF Active
    <2>4. req'[c].floor \subseteq raters' /\ (req'[c].route = "RateAnime" => c \in raters')
      BY <1>5, <1>6 DEF Active
    <2>5. req'[c].route \in Keys /\ ~req'[c].overtaken => req'[c].got >= cleared'[req'[c].route]
      BY <1>5, <1>6
    <2> QED
      BY <1>3, <1>5, <1>6, <2>1, <2>2, <2>3, <2>4, <2>5 DEF Active
  <1> QED
    BY <1>3, <1>4, <1>7 DEF Outcome

\* It is answered after its last call, or goes on.
LEMMA ProceedOutcome ==
    ASSUME IInv, NEW c \in running, Active(c), NEW r, Successor(c, r), Proceed(c, r),
           cleared' = cleared, raters \subseteq raters', Call(c) \notin {"search", "ids", "upsert"},
           r.done <=> Asks(c), r.got = req[c].got,
           r.route = "RateAnime" => {c} \cup r.floor \subseteq r.seen
    PROVE  Outcome(c)
  <1>1. /\ r.route = req[c].route /\ r.overtaken = req[c].overtaken /\ r.route \in DOMAIN Routes
        /\ Routes[r.route].cached \in BOOLEAN /\ (Routes[r.route].cached <=> r.route \in Keys)
    BY RouteShape DEF Successor, Active, Shape, Keys
  <1>2. r.route \in Keys => Last(c) /\ (~r.overtaken => r.got >= cleared[r.route])
    BY <1>1, CallKinds DEF Active
  <1>3. CASE Last(c)
    <2>1. Finish(c, r, "ok", Routes[r.route].cached)
      BY <1>3 DEF Proceed
    <2> QED BY <1>1, <1>2, <2>1, FinishOutcome
  <1>4. CASE ~Last(c)
    <2>1. Continue(c, r) /\ r.route \notin Keys /\ r.route # "RateAnime"
      BY <1>1, <1>2, <1>4, CallKinds DEF Proceed
    <2> QED BY <1>4, <2>1, ContinueOutcome
  <1> QED BY <1>3, <1>4

\* What calls leave of a request.
LEMMA Successors ==
    ASSUME IInv, NEW c \in running, Active(c)
    PROVE  /\ Successor(c, req[c])
           /\ \A v \in 0 .. MaxVersion : Successor(c, [req[c] EXCEPT !.got = v])
           /\ Successor(c, [req[c] EXCEPT !.seen = raters])
           /\ \A b \in BOOLEAN : Successor(c, [req[c] EXCEPT !.done = b])
  <1>1. req[c] \in Requests /\ raters \in SUBSET Calls
    BY DEF IInv, TypeOK, LifecycleTypes
  <1>2. req[c].status = "none"
    BY DEF Active
  <1>3. /\ \A v \in 0 .. MaxVersion : [req[c] EXCEPT !.got = v] \in Requests
        /\ [req[c] EXCEPT !.seen = raters] \in Requests
        /\ \A b \in BOOLEAN : [req[c] EXCEPT !.done = b] \in Requests
    BY <1>1, RequestFields
  <1>4. Successor(c, req[c])
    BY <1>1, <1>2 DEF Successor
  <1>5. ASSUME NEW v \in 0 .. MaxVersion PROVE Successor(c, [req[c] EXCEPT !.got = v])
    BY <1>1, <1>2, <1>3 DEF Successor, Requests
  <1>6. Successor(c, [req[c] EXCEPT !.seen = raters])
    BY <1>1, <1>2, <1>3 DEF Successor, Requests
  <1>7. ASSUME NEW b \in BOOLEAN PROVE Successor(c, [req[c] EXCEPT !.done = b])
    BY <1>1, <1>2, <1>3 DEF Successor, Requests
  <1> QED BY <1>4, <1>5, <1>6, <1>7

\* A call that succeeds.
LEMMA OkOutcome ==
    ASSUME IInv, NEW c \in running, Active(c), CallOk(c), cleared' = cleared
    PROVE  Outcome(c) /\ raters \subseteq raters' /\ raters' \in SUBSET Calls
  <1> DEFINE q == req[c]
  <1>1. /\ q \in Requests /\ SourceOf(q.route) \in 0 .. MaxVersion
        /\ raters \in SUBSET Calls /\ c \in Calls
    BY DEF IInv, TypeOK, LifecycleTypes, SourceOf
  <1>2. q.route \in Keys => SourceOf(q.route) >= cleared[q.route]
    <2>1. q.route \in Keys => cleared[q.route] \in Int /\ SourceOf(q.route) \in Int
      BY <1>1 DEF IInv, TypeOK
    <2>2. q.route \in Keys => cleared[q.route] <= SourceOf(q.route)
      BY DEF IInv, Clean
    <2> QED BY <2>1, <2>2
  <1>3. q.floor \subseteq raters /\ (q.at = 2 /\ q.route = "RateAnime" => c \in raters)
    BY DEF Active
  <1>4. Call(c) # "upsert" => raters' = raters
    BY DEF CallOk
  <1>5. CASE Call(c) = "search" \/ Call(c) = "ids"
    <2> DEFINE r == [q EXCEPT !.got = SourceOf(q.route)]
    <2>1. /\ Successor(c, r) /\ r.got = SourceOf(q.route)
          /\ r.done = q.done /\ r.route = q.route
      BY <1>1, Successors DEF Requests
    <2>2. Finish(c, r, "ok", TRUE) \/ Continue(c, r)
      <3>1. CASE Call(c) = "search"
        <4>1. SourceOf(q.route) = indexed
          BY <3>1, CallKinds DEF SourceOf
        <4> QED BY <3>1, <4>1 DEF CallOk, SearchAnime
      <3>2. CASE Call(c) = "ids"
        <4>1. SourceOf(q.route) = version
          BY <3>2, CallKinds DEF SourceOf
        <4> QED BY <3>2, <4>1 DEF CallOk, GetAnimeIDs
      <3> QED BY <1>5, <3>1, <3>2
    <2>3. q.route \in Keys /\ q.route # "RateAnime" /\ ~Last(c) /\ (r.done <=> Asks(c))
      BY <1>5, <2>1, CallKinds DEF Writes
    <2>4. raters' = raters
      BY <1>4, <1>5
    <2>7. /\ r.route \in Keys /\ r.route # "RateAnime" /\ r.got >= cleared[r.route]
      BY <1>2, <2>1, <2>3
    <2> HIDE DEF r
    <2>5. CASE Finish(c, r, "ok", TRUE)
      BY <1>1, <2>1, <2>3, <2>4, <2>5, <2>7, FinishOutcome
    <2>6. CASE Continue(c, r)
      BY <1>1, <2>1, <2>3, <2>4, <2>6, <2>7, ContinueOutcome
    <2> QED BY <1>1, <2>2, <2>4, <2>5, <2>6
  <1>6. CASE Call(c) = "jikan"
    <2>1. PICK hits \in BOOLEAN : Finish(c, q, "ok", ~hits)
      BY <1>6 DEF CallOk, JikanSearch
    <2>2. /\ q.route \in Keys /\ q.route # "RateAnime" /\ (q.done <=> Asks(c))
          /\ ~q.overtaken => q.got >= cleared[q.route]
      BY <1>6, CallKinds DEF Writes, Active
    <2>3. (~hits) \in BOOLEAN
      BY SMT
    <2>4. Outcome(c)
      BY <2>1, <2>2, <2>3, Successors, FinishOutcome
    <2> QED BY <1>1, <1>4, <1>6, <2>4
  <1>7. CASE Call(c) = "summary"
    <2> DEFINE r == [q EXCEPT !.seen = raters]
    <2>1. Successor(c, r) /\ r.seen = raters /\ r.done = q.done /\ r.got = q.got /\ r.floor = q.floor
                          /\ r.route = q.route
      BY <1>1, Successors DEF Requests
    <2>2. Proceed(c, r)
      BY <1>7 DEF CallOk, GetSummary
    <2>3. (r.done <=> Asks(c)) /\ (r.route = "RateAnime" => {c} \cup r.floor \subseteq r.seen)
      BY <1>3, <1>7, <2>1, CallKinds DEF Writes
    <2>4. raters' = raters
      BY <1>4, <1>7
    <2> HIDE DEF r
    <2>5. Outcome(c)
      BY <1>7, <2>1, <2>2, <2>3, <2>4, ProceedOutcome
    <2> QED BY <1>1, <2>4, <2>5
  <1>8. CASE Call(c) = "upsert"
    <2> DEFINE r == [q EXCEPT !.done = TRUE]
    <2>1. Successor(c, r) /\ r.done /\ r.route = q.route
      BY <1>1, Successors DEF Requests
    <2>2. Continue(c, r) /\ raters' = raters \cup {c}
      BY <1>8 DEF CallOk, RateAnimeUpsert
    <2>3. r.route = "RateAnime" /\ r.route \notin Keys /\ ~Last(c) /\ Asks(c)
      BY <1>8, <2>1, CallKinds DEF Writes
    <2> HIDE DEF r
    <2>4. Outcome(c)
      BY <2>1, <2>2, <2>3, ContinueOutcome
    <2> QED BY <1>1, <2>2, <2>4
  <1>9. CASE Call(c) \in {"write", "event", "jobs"}
    <2> DEFINE r == [q EXCEPT !.done = TRUE]
    <2>1. Successor(c, r) /\ r.done /\ r.got = q.got /\ r.route = q.route
      BY <1>1, Successors DEF Requests
    <2>2. Proceed(c, r)
      BY <1>9 DEF CallOk
    <2>3. r.route # "RateAnime" /\ Asks(c)
      BY <1>9, <2>1, CallKinds DEF Writes
    <2>4. raters' = raters
      BY <1>4, <1>9
    <2> HIDE DEF r
    <2>5. Outcome(c)
      BY <1>9, <2>1, <2>2, <2>3, <2>4, ProceedOutcome
    <2> QED BY <1>1, <2>4, <2>5
  <1>11. CASE Call(c) = "logout"
    <2>1. PICK revoked \in BOOLEAN : Proceed(c, [q EXCEPT !.done = revoked])
      BY <1>11 DEF CallOk, LogoutSession
    <2> DEFINE r == [q EXCEPT !.done = revoked]
    <2>2. Successor(c, r) /\ r.route = q.route
      BY <1>1, Successors DEF Requests
    <2>3. q.route # "RateAnime" /\ q.route \notin Keys /\ Last(c) /\ ~Asks(c)
      BY <1>11, CallKinds DEF Writes
    <2>4. Routes[q.route].cached = FALSE
      BY <2>3, RouteShape DEF Active, Keys, Shape
    <2>5. Finish(c, r, "ok", FALSE)
      BY <2>1, <2>2, <2>3, <2>4 DEF Proceed
    <2>6. raters' = raters
      BY <1>4, <1>11
    <2> HIDE DEF r
    <2>7. Outcome(c)
      BY <2>2, <2>3, <2>5, FinishOutcome
    <2> QED BY <1>1, <2>6, <2>7
  <1>10. CASE Call(c) \notin {"search", "jikan", "ids", "summary", "upsert", "write", "logout",
                             "event", "jobs"}
    <2>1. Proceed(c, q)
      BY <1>10 DEF CallOk
    <2>2. q.route # "RateAnime" /\ (q.done <=> Asks(c))
      BY <1>10, CallKinds DEF Writes
    <2>3. raters' = raters
      BY <1>4, <1>10
    <2>4. Outcome(c)
      BY <1>10, <2>1, <2>2, <2>3, Successors, ProceedOutcome
    <2> QED BY <1>1, <2>3, <2>4
  <1> QED BY <1>5, <1>6, <1>7, <1>8, <1>9, <1>10, <1>11

\* A call that fails: a write that may have been done is never called refused.
LEMMA FailedOutcome ==
    ASSUME IInv, NEW c \in running, Active(c), CallFails(c), cleared' = cleared
    PROVE  Outcome(c) /\ raters \subseteq raters' /\ raters' \in SUBSET Calls
  <1> DEFINE q == req[c]
  <1>1. q \in Requests /\ raters \in SUBSET Calls /\ c \in Calls
    BY DEF IInv, TypeOK, LifecycleTypes
  <1>2. PICK e \in Errors(Call(c)) :
          /\ LET r == [req[c] EXCEPT !.done = @ \/ e[2]]
             IN  CASE Call(c) = "me" -> Finish(c, r, "ok", FALSE)
                   [] Call(c) = "jikan" -> Finish(c, r, "ok", TRUE)
                   [] Call(c) = "resolve" \/ Publishes(Call(c)) -> Finish(c, r, "failed", FALSE)
                   [] OTHER -> Finish(c, r, WriteGRPCError(e[1]), FALSE)
          /\ raters' = IF Call(c) = "upsert" /\ e[2] THEN raters \cup {c} ELSE raters
    BY DEF CallFails
  <1>3. /\ e[2] \in BOOLEAN
        /\ e[2] => Call(c) \in Writes /\ WriteGRPCError(e[1]) = "failed"
        /\ WriteGRPCError(e[1]) \in {"refused", "failed"}
        /\ Call(c) = "summary" => WriteGRPCError(e[1]) = "failed"
    <2>1. CASE e \in Rejections(Call(c)) \X {FALSE}
      <3>1. e[1] \in Rejections(Call(c)) /\ e[2] = FALSE
        BY <2>1
      <3>2. e[2] = FALSE /\ Call(c) # "summary"
        BY <3>1 DEF Rejections
      <3>3. WriteGRPCError(e[1]) \in {"refused", "failed"}
        BY DEF WriteGRPCError
      <3> QED BY <3>2, <3>3
    <2>2. CASE e \in Breakdowns \X (IF Call(c) \in Writes THEN BOOLEAN ELSE {FALSE})
      <3>1. /\ e[1] \in Breakdowns /\ e[2] \in BOOLEAN
            /\ e[2] => Call(c) \in Writes
        BY <2>2
      <3>2. WriteGRPCError(e[1]) = "failed"
        BY <3>1 DEF WriteGRPCError, Breakdowns
      <3> QED BY <3>1, <3>2
    <2> QED BY <2>1, <2>2 DEF Errors
  <1>4. raters \subseteq raters' /\ raters' \in SUBSET Calls
    BY <1>1, <1>2
  <1> DEFINE r == [req[c] EXCEPT !.done = @ \/ e[2]]
  <1>5. q.done \in BOOLEAN /\ (q.done \/ e[2]) \in BOOLEAN
    <2>1. q.done \in BOOLEAN
      BY <1>1 DEF Requests
    <2> QED BY <1>3, <2>1
  <1>6. Successor(c, r)
    BY <1>5, Successors
  <1>7. /\ r.done = (q.done \/ e[2]) /\ r.got = q.got
        /\ r.route = q.route /\ r.overtaken = q.overtaken
    BY <1>1 DEF Requests
  <1>8. /\ Call(c) = "me" => Finish(c, r, "ok", FALSE)
        /\ Call(c) = "jikan" => Finish(c, r, "ok", TRUE)
        /\ Call(c) \notin {"me", "jikan"} =>
             \/ Finish(c, r, "failed", FALSE)
             \/ Finish(c, r, WriteGRPCError(e[1]), FALSE)
    <2>0. Call(c) \in {"me", "jikan"} => ~Publishes(Call(c)) /\ Call(c) # "resolve"
      BY DEF Publishes
    <2>1. ASSUME Call(c) = "me" PROVE Finish(c, r, "ok", FALSE)
      BY <1>2, <2>1, <2>0, Zenon
    <2>2. ASSUME Call(c) = "jikan" PROVE Finish(c, r, "ok", TRUE)
      BY <1>2, <2>2, <2>0, Zenon
    <2>3. ASSUME Call(c) \notin {"me", "jikan"}
          PROVE  Finish(c, r, "failed", FALSE) \/ Finish(c, r, WriteGRPCError(e[1]), FALSE)
      BY <1>2, <2>3, Zenon
    <2> QED BY <2>1, <2>2, <2>3, Zenon
  <1>9. Call(c) \notin Writes /\ Call(c) # "summary" =>
          (r.done <=> Asks(c)) /\ r.route # "RateAnime"
    BY <1>3, <1>7, CallKinds DEF Writes
  <1>10. WriteGRPCError(e[1]) = "refused" => ~r.done
    <2>1. WriteGRPCError(e[1]) = "refused" /\ q.done => FALSE
      BY <1>3, CallKinds
    <2> QED BY <1>3, <1>7, <2>1
  <1> HIDE DEF r
  <1>11. CASE Call(c) = "me"
    <2>1. (r.done <=> Asks(c)) /\ r.route # "RateAnime"
      BY <1>9, <1>11 DEF Writes
    <2> QED BY <1>4, <1>6, <1>8, <1>11, <2>1, FinishOutcome
  <1>12. CASE Call(c) = "jikan"
    <2>1. (r.done <=> Asks(c)) /\ r.route # "RateAnime"
      BY <1>9, <1>12 DEF Writes
    <2>2. r.route \in Keys /\ (~r.overtaken => r.got >= cleared[r.route])
      BY <1>7, <1>12, CallKinds DEF Active
    <2> QED BY <1>4, <1>6, <1>8, <1>12, <2>1, <2>2, FinishOutcome
  <1>13. CASE Finish(c, r, "failed", FALSE)
    BY <1>4, <1>6, <1>13, FinishOutcome
  <1>14. CASE Finish(c, r, WriteGRPCError(e[1]), FALSE)
    BY <1>3, <1>4, <1>6, <1>10, <1>14, FinishOutcome
  <1> QED BY <1>8, <1>11, <1>12, <1>13, <1>14

-----------------------------------------------------------------------------
(* The rate limiter.                                                       *)

Buckets == [tokens : 0 .. Burst, idle : 0 .. Burst]

\* A bucket never holds more than Burst; a tick adds at most Rate to it, also where
\* the idle time is not counted any further.
LEMMA FillFacts ==
    ASSUME NEW b \in Buckets
    PROVE  /\ Fill(b) \in 0 .. Burst
           /\ b.idle < Burst => Fill([b EXCEPT !.idle = @ + 1]) <= Fill(b) + Rate
           /\ b.idle = Burst => Fill(b) = Burst
           /\ b.idle = 0 => Fill(b) = b.tokens
  <1>1. Burst \in Nat /\ Rate \in Nat /\ Rate >= 1
    BY GatewayAssumption DEF GatewayAssumption
  <1>2. b.tokens \in 0 .. Burst /\ b.idle \in 0 .. Burst
    BY DEF Buckets
  <1>3. b.idle * Rate \in Nat
    BY <1>1, <1>2
  <1>4. Fill(b) \in 0 .. Burst
    BY <1>1, <1>2, <1>3 DEF Fill
  <1>5. ASSUME b.idle < Burst PROVE Fill([b EXCEPT !.idle = @ + 1]) <= Fill(b) + Rate
    <2> DEFINE n == [b EXCEPT !.idle = @ + 1]
    <2>1. n.tokens = b.tokens /\ n.idle = b.idle + 1
      BY DEF Buckets
    <2>2. n.idle * Rate = b.idle * Rate + Rate
      BY <1>1, <1>2, <2>1
    <2>3. PICK x \in Nat : x = b.idle * Rate
      BY <1>3
    <2> HIDE DEF n
    <2> QED
      BY <1>1, <1>2, <2>1, <2>2, <2>3 DEF Fill
  <1>6. ASSUME b.idle = Burst PROVE Fill(b) = Burst
    <2>1. Burst * Rate >= Burst
      BY <1>1
    <2>2. PICK x \in Nat : x = b.idle * Rate /\ x >= Burst
      BY <1>1, <1>6, <2>1
    <2> QED BY <1>1, <1>2, <2>2 DEF Fill
  <1>7. ASSUME b.idle = 0 PROVE Fill(b) = b.tokens
    <2>1. b.idle * Rate = 0
      BY <1>1, <1>7
    <2> QED BY <1>1, <1>2, <2>1 DEF Fill
  <1> QED BY <1>4, <1>5, <1>6, <1>7

\* The history of admitted requests.
Counts == [1 .. Window -> Nat]

\* A request that is let through pays for itself.
LEMMA TakePaid ==
    ASSUME NEW b \in Buckets, NEW n \in Counts, Paid(b, n), Fill(b) >= Cost
    PROVE  /\ [tokens |-> Fill(b) - Cost, idle |-> 0] \in Buckets
           /\ [w \in 1 .. Window |-> n[w] + 1] \in Counts
           /\ Paid([tokens |-> Fill(b) - Cost, idle |-> 0], [w \in 1 .. Window |-> n[w] + 1])
  <1> DEFINE d == [tokens |-> Fill(b) - Cost, idle |-> 0]
             m == [w \in 1 .. Window |-> n[w] + 1]
  <1>1. Burst \in Nat /\ Rate \in Nat /\ Cost \in Nat /\ Cost >= 1 /\ Window \in Nat
    BY GatewayAssumption DEF GatewayAssumption
  <1>2. Fill(b) \in 0 .. Burst
    BY FillFacts
  <1>3. d \in Buckets /\ d.idle = 0 /\ d.tokens = Fill(b) - Cost
    BY <1>1, <1>2 DEF Buckets
  <1>4. Fill(d) = Fill(b) - Cost
    <2> HIDE DEF d
    <2> QED BY <1>3, FillFacts
  <1>5. m \in Counts
    BY DEF Counts
  <1>6. ASSUME NEW w \in 1 .. Window
        PROVE  Cost * m[w] + Fill(d) <= Burst + Rate * (w - 1)
    <2>1. n[w] \in Nat /\ m[w] = n[w] + 1
      BY DEF Counts
    <2>2. Cost * m[w] = Cost * n[w] + Cost
      BY <1>1, <2>1
    <2>3. Cost * n[w] + Fill(b) <= Burst + Rate * (w - 1)
      BY DEF Paid
    <2>4. PICK x \in Int, y \in Int : x = Cost * n[w] /\ y = Burst + Rate * (w - 1)
      BY <1>1, <2>1
    <2> HIDE DEF m, d
    <2> QED BY <1>1, <1>2, <1>4, <2>2, <2>3, <2>4
  <1> QED
    <2> HIDE DEF m, d
    <2>1. d \in Buckets /\ m \in Counts /\ Paid(d, m)
      BY <1>3, <1>5, <1>6 DEF Paid
    <2> QED BY <2>1 DEF m, d

\* One that is not only moves the time of the last refill.
LEMMA KeepPaid ==
    ASSUME NEW b \in Buckets, NEW n \in Counts, Paid(b, n)
    PROVE  /\ [tokens |-> Fill(b), idle |-> 0] \in Buckets
           /\ Paid([tokens |-> Fill(b), idle |-> 0], n)
  <1> DEFINE d == [tokens |-> Fill(b), idle |-> 0]
  <1>1. Burst \in Nat /\ Fill(b) \in 0 .. Burst
    BY FillFacts, GatewayAssumption DEF GatewayAssumption
  <1>2. d \in Buckets /\ d.idle = 0 /\ d.tokens = Fill(b)
    BY <1>1 DEF Buckets
  <1>3. Fill(d) = Fill(b)
    <2> HIDE DEF d
    <2> QED BY <1>2, FillFacts
  <1> QED
    <2> HIDE DEF d
    <2>1. d \in Buckets /\ Paid(d, n)
      BY <1>2, <1>3 DEF Paid
    <2> QED BY <2>1 DEF d

\* A tick adds the refill of one tick to every span.
LEMMA TickPaid ==
    ASSUME NEW b \in Buckets, NEW n \in Counts, Paid(b, n), NEW d, NEW m,
           d = [b EXCEPT !.idle = IF @ < Burst THEN @ + 1 ELSE @],
           m = [w \in 1 .. Window |-> IF w = 1 THEN 0 ELSE n[w - 1]]
    PROVE  d \in Buckets /\ m \in Counts /\ Paid(d, m)
  <1>1. Burst \in Nat /\ Rate \in Nat /\ Cost \in Nat /\ Window \in Nat
    BY GatewayAssumption DEF GatewayAssumption
  <1>2. Fill(b) \in 0 .. Burst /\ b.idle \in 0 .. Burst
    BY FillFacts DEF Buckets
  <1>3. d \in Buckets /\ Fill(d) <= Fill(b) + Rate /\ Fill(d) \in 0 .. Burst
    <2>1. CASE b.idle < Burst
      <3>1. d = [b EXCEPT !.idle = @ + 1]
        BY <2>1
      <3>2. d \in Buckets
        BY <1>1, <1>2, <2>1, <3>1 DEF Buckets
      <3> QED BY <2>1, <3>1, <3>2, FillFacts
    <2>2. CASE ~(b.idle < Burst)
      <3>1. d = b
        BY <2>2 DEF Buckets
      <3> QED BY <1>1, <1>2, <3>1
    <2> QED BY <2>1, <2>2
  <1>4. \A w \in 1 .. Window : w # 1 => w - 1 \in 1 .. Window
    BY <1>1
  <1>5. m \in Counts
    BY <1>4 DEF Counts
  <1>6. ASSUME NEW w \in 1 .. Window
        PROVE  Cost * m[w] + Fill(d) <= Burst + Rate * (w - 1)
    <2>1. CASE w = 1
      <3>1. m[w] = 0 /\ Cost * m[w] = 0 /\ Rate * (w - 1) = 0
        BY <1>1, <2>1
      <3> QED BY <1>1, <1>3, <3>1
    <2>2. CASE w # 1
      <3>1. w - 1 \in 1 .. Window /\ m[w] = n[w - 1] /\ n[w - 1] \in Nat
        BY <1>4, <2>2 DEF Counts
      <3>2. Cost * n[w - 1] + Fill(b) <= Burst + Rate * ((w - 1) - 1)
        BY <3>1 DEF Paid
      <3>3. Rate * (w - 1) = Rate * ((w - 1) - 1) + Rate
        BY <1>1
      <3>4. PICK x \in Int, y \in Int : x = Cost * n[w - 1] /\ y = Rate * ((w - 1) - 1)
        BY <1>1, <3>1
      <3>5. \A f, g, u \in Int : x + f <= Burst + y /\ g <= f + Rate /\ u = y + Rate => x + g <= Burst + u
        BY <1>1
      <3>6. Rate * (w - 1) \in Int /\ Fill(b) \in Int /\ Fill(d) \in Int /\ Cost * m[w] = x
        BY <1>1, <1>2, <1>3, <3>1, <3>4
      <3> QED BY <1>3, <3>2, <3>3, <3>4, <3>5, <3>6
    <2> QED BY <2>1, <2>2
  <1> QED BY <1>3, <1>5, <1>6 DEF Paid

\* A new bucket is full and has paid for nothing.
LEMMA FreshPaid ==
    ASSUME NEW b, NEW n, b = Fresh.bucket, n = Fresh.recent
    PROVE  b \in [Peers -> Buckets] /\ n \in [Peers -> Counts] /\ \A p \in Peers : Paid(b[p], n[p])
  <1>1. Burst \in Nat /\ Rate \in Nat /\ Cost \in Nat /\ Window \in Nat
    BY GatewayAssumption DEF GatewayAssumption
  <1>2. /\ b = [p \in Peers |-> [tokens |-> Burst, idle |-> 0]]
        /\ n = [p \in Peers |-> [w \in 1 .. Window |-> 0]]
    BY DEF Fresh
  <1>3. [tokens |-> Burst, idle |-> 0] \in Buckets /\ [w \in 1 .. Window |-> 0] \in Counts
    BY <1>1 DEF Buckets, Counts
  <1>4. ASSUME NEW p \in Peers PROVE Paid(b[p], n[p])
    <2>1. Fill(b[p]) \in 0 .. Burst
      BY <1>2, <1>3, FillFacts
    <2>2. ASSUME NEW w \in 1 .. Window
          PROVE  Cost * n[p][w] + Fill(b[p]) <= Burst + Rate * (w - 1)
      <3>1. n[p][w] = 0 /\ Cost * n[p][w] = 0 /\ Rate * (w - 1) \in Nat
        BY <1>1, <1>2
      <3> QED BY <1>1, <2>1, <3>1
    <2> QED BY <2>2 DEF Paid
  <1> QED BY <1>2, <1>3, <1>4

\* A request takes from the bucket of its key.
LEMMA TakeTokenStep ==
    ASSUME bucket \in [Peers -> Buckets], recent \in [Peers -> Counts], Drawn,
           NEW p \in Peers, TakeToken(p)
    PROVE  bucket' \in [Peers -> Buckets] /\ recent' \in [Peers -> Counts] /\ Drawn'
  <1>1. /\ bucket[p] \in Buckets /\ recent[p] \in Counts /\ Paid(bucket[p], recent[p])
        /\ Refilled(p) = Fill(bucket[p])
    BY DEF Drawn, Refilled, Fill
  <1>2. CASE ~setup.limit
    BY <1>2 DEF TakeToken, limitVars, Drawn
  <1>3. ASSUME NEW d \in Buckets, NEW m \in Counts, Paid(d, m),
               bucket' = [bucket EXCEPT ![p] = d], recent' = [recent EXCEPT ![p] = m]
        PROVE  bucket' \in [Peers -> Buckets] /\ recent' \in [Peers -> Counts] /\ Drawn'
    <2>1. \A q \in Peers : \/ q = p /\ bucket'[q] = d /\ recent'[q] = m
                           \/ q # p /\ bucket'[q] = bucket[q] /\ recent'[q] = recent[q]
      BY <1>3
    <2>2. ASSUME NEW q \in Peers PROVE Paid(bucket'[q], recent'[q])
      BY <1>3, <2>1 DEF Drawn
    <2>3. Drawn'
      BY <2>2 DEF Drawn, Paid, Fill
    <2> QED BY <1>3, <2>3
  <1>4. CASE setup.limit /\ Allow(p)
    <2>1. /\ bucket' = [bucket EXCEPT ![p] = [tokens |-> Fill(bucket[p]) - Cost, idle |-> 0]]
          /\ recent' = [recent EXCEPT ![p] = [w \in 1 .. Window |-> recent[p][w] + 1]]
          /\ Fill(bucket[p]) >= Cost
      BY <1>1, <1>4 DEF TakeToken, Allow
    <2> QED BY <1>1, <1>3, <2>1, TakePaid
  <1>5. CASE setup.limit /\ ~Allow(p)
    <2>1. /\ bucket' = [bucket EXCEPT ![p] = [tokens |-> Fill(bucket[p]), idle |-> 0]]
          /\ recent' = [recent EXCEPT ![p] = recent[p]]
      BY <1>1, <1>5 DEF TakeToken
    <2> QED BY <1>1, <1>3, <2>1, KeepPaid
  <1> QED BY <1>2, <1>4, <1>5

\* Time passes for all of them.
LEMMA TickBucket ==
    ASSUME bucket \in [Peers -> Buckets], recent \in [Peers -> Counts], Drawn, Tick
    PROVE  bucket' \in [Peers -> Buckets] /\ recent' \in [Peers -> Counts] /\ Drawn'
  <1>1. CASE ~setup.limit
    BY <1>1 DEF Tick, limitVars, Drawn
  <1>2. CASE setup.limit
    <2>1. /\ bucket' = [p \in Peers |->
                 [bucket[p] EXCEPT !.idle = IF @ < Burst THEN @ + 1 ELSE @]]
          /\ recent' = [p \in Peers |->
                 [w \in 1 .. Window |-> IF w = 1 THEN 0 ELSE recent[p][w - 1]]]
      BY <1>2 DEF Tick
    <2>2. ASSUME NEW p \in Peers
          PROVE  bucket'[p] \in Buckets /\ recent'[p] \in Counts /\ Paid(bucket'[p], recent'[p])
      <3>1. bucket[p] \in Buckets /\ recent[p] \in Counts /\ Paid(bucket[p], recent[p])
        BY DEF Drawn
      <3>2. /\ bucket'[p] = [bucket[p] EXCEPT !.idle = IF @ < Burst THEN @ + 1 ELSE @]
            /\ recent'[p] = [w \in 1 .. Window |-> IF w = 1 THEN 0 ELSE recent[p][w - 1]]
        BY <2>1
      <3> QED BY <3>1, <3>2, TickPaid
    <2>3. Drawn'
      BY <2>2 DEF Drawn, Paid, Fill
    <2> QED BY <2>1, <2>2, <2>3
  <1> QED BY <1>1, <1>2

-----------------------------------------------------------------------------
(* The inductive step.                                                     *)

GatewayTypes ==
    /\ version \in 0 .. MaxVersion /\ indexed \in 0 .. MaxVersion
    /\ raters \in SUBSET Calls
    /\ cache \in [Keys -> Entries \cup {None}]
    /\ bucket \in [Peers -> Buckets]
    /\ req \in [Calls -> Requests]
    /\ recent \in [Peers -> Counts]
    /\ cleared \in [Keys -> 0 .. MaxVersion]

\* The type invariant is made of two.
LEMMA TypeParts == TypeOK <=> LifecycleTypes /\ GatewayTypes
  BY DEF TypeOK, GatewayTypes, Buckets, Counts

\* A request nobody has made.
LEMMA IdleRequest == Idle \in Requests
  BY GatewayAssumption DEF Idle, Requests, Tokens, GatewayAssumption

\* The fields of a request that is answered at once, and of one that is not.
LEMMA AnsweredFields ==
    ASSUME NEW r, NEW token, NEW s, NEW g, NEW a, a = Answered(r, token, s, g)
    PROVE  a = [route |-> r, token |-> token, at |-> 0, got |-> g, seen |-> {}, floor |-> {},
                done |-> FALSE, overtaken |-> FALSE, status |-> s]
  BY DEF Answered, Idle

\* The fields of a request that begins.
LEMMA StartedFields ==
    ASSUME NEW r, NEW token, NEW f, NEW a,
           a = Started(r, token, f)
    PROVE  a = [route |-> r, token |-> token, at |-> 1, got |-> 0, seen |-> {}, floor |-> f,
                done |-> FALSE, overtaken |-> FALSE, status |-> "none"]
  BY DEF Started, Idle

\* Both are requests.
LEMMA AnsweredRequest ==
    \A r \in DOMAIN Routes, token \in Tokens, g \in 0 .. MaxVersion, s \in {"ok", "refused"} :
        /\ Answered(r, token, s, g) \in Requests
        /\ Answered(r, token, s, g).route = r
        /\ Answered(r, token, s, g).status = s
        /\ Answered(r, token, s, g).done = FALSE
  <1> SUFFICES ASSUME NEW r \in DOMAIN Routes, NEW token \in Tokens, NEW g \in 0 .. MaxVersion,
                      NEW s \in {"ok", "refused"}
               PROVE  /\ Answered(r, token, s, g) \in Requests
                      /\ Answered(r, token, s, g).route = r
                      /\ Answered(r, token, s, g).status = s
                      /\ Answered(r, token, s, g).done = FALSE
    OBVIOUS
  <1>0. PICK a : a = Answered(r, token, s, g)
    OBVIOUS
  <1>1. a = [route |-> r, token |-> token, at |-> 0, got |-> g, seen |-> {}, floor |-> {},
             done |-> FALSE, overtaken |-> FALSE, status |-> s]
    BY <1>0, AnsweredFields
  <1>2. a \in Requests /\ a.route = r /\ a.status = s /\ a.done = FALSE
    BY <1>1 DEF Requests
  <1> QED BY <1>0, <1>2

\* A request that begins has its type, and has done nothing yet.
LEMMA StartedRequest ==
    \A r \in DOMAIN Routes, token \in Tokens, f \in SUBSET Calls :
        /\ Started(r, token, f) \in Requests
        /\ Started(r, token, f).route = r /\ Started(r, token, f).token = token
        /\ Started(r, token, f).status = "none" /\ Started(r, token, f).at = 1
        /\ Started(r, token, f).floor = f /\ Started(r, token, f).done = FALSE
  <1> SUFFICES ASSUME NEW r \in DOMAIN Routes, NEW token \in Tokens, NEW f \in SUBSET Calls
               PROVE  /\ Started(r, token, f) \in Requests
                      /\ Started(r, token, f).route = r /\ Started(r, token, f).token = token
                      /\ Started(r, token, f).status = "none" /\ Started(r, token, f).at = 1
                      /\ Started(r, token, f).floor = f /\ Started(r, token, f).done = FALSE
    OBVIOUS
  <1>0. PICK a : a = Started(r, token, f)
    OBVIOUS
  <1>1. a = [route |-> r, token |-> token, at |-> 1, got |-> 0, seen |-> {}, floor |-> f,
             done |-> FALSE, overtaken |-> FALSE, status |-> "none"]
    BY <1>0, StartedFields
  <1>2. 0 \in 0 .. MaxVersion
    BY GatewayAssumption DEF GatewayAssumption
  <1>3. a \in Requests
    BY <1>1, <1>2 DEF Requests
  <1>4. /\ a.route = r /\ a.token = token /\ a.status = "none"
        /\ a.at = 1 /\ a.floor = f /\ a.done = FALSE
    BY <1>1
  <1> QED BY <1>0, <1>3, <1>4

\* Nothing is claimed of a request in progress.
LEMMA ActiveTruthful == ASSUME NEW c, Active(c) PROVE Truthful(c)
  BY DEF Active, Truthful

\* One request changes.
LEMMA OneRequest ==
    ASSUME IInv, NEW c \in Calls, NEW a \in Requests, req' = [req EXCEPT ![c] = a],
           raters \subseteq raters', cleared' = cleared, setup' = setup,
           running' \ {c} \subseteq running,
           IsGateway /\ c \in running' => Active(c)',
           Truthful(c)'
    PROVE  InProgress' /\ AnswerTruthful' /\ req' \in [Calls -> Requests]
  <1>1. req \in [Calls -> Requests]
    BY DEF IInv, TypeOK
  <1>2. req' \in [Calls -> Requests] /\ \A d \in Calls \ {c} : req'[d] = req[d]
    BY <1>1
  <1>3. IsGateway' <=> IsGateway
    BY DEF IsGateway, main
  <1>4. ASSUME NEW d \in running', IsGateway, d # c PROVE Active(d)'
    <2>1. d \in running /\ d \in Calls /\ req'[d] = req[d] /\ Active(d)
      BY <1>2, <1>4 DEF IInv, TypeOK, LifecycleTypes, InProgress
    <2> QED BY <2>1 DEF Active, Asks
  <1>5. InProgress'
    BY <1>3, <1>4 DEF InProgress
  <1>6. ASSUME NEW d \in Calls, d # c, req'[d].route # None PROVE Truthful(d)'
    <2>1. req'[d] = req[d]
      BY <1>2, <1>6
    <2>2. Truthful(d)
      BY <1>6, <2>1 DEF IInv, AnswerTruthful, Truthful
    <2> QED BY <2>1, <2>2 DEF Truthful, Asks
  <1>7. AnswerTruthful'
    BY <1>6 DEF AnswerTruthful, Truthful
  <1> QED BY <1>2, <1>5, <1>7

\* A request arrives.
LEMMA ReceiveStep ==
    ASSUME IInv, NEW c \in Calls, NEW r \in DOMAIN Routes, NEW token \in Tokens, NEW p \in Peers,
           Receive(c, r, token, p)
    PROVE  IInv'
  <1>1. /\ phase = "serving" /\ c \notin running /\ IsGateway
        /\ UNCHANGED <<setup, procVars, envVars, version, indexed, raters, cleared>>
    BY DEF Receive, sourceVars
  <1>2. LifecycleTypes /\ LifeInv /\ GatewayTypes /\ Drawn /\ Clean /\ InvalidationHolds
    BY TypeParts DEF IInv
  <1>3. bucket' \in [Peers -> Buckets] /\ recent' \in [Peers -> Counts] /\ Drawn'
    <2>1. CASE TakeToken(p)
      BY <1>2, <2>1, TakeTokenStep DEF GatewayTypes
    <2>2. CASE UNCHANGED limitVars
      BY <1>2, <2>2 DEF GatewayTypes, Drawn, limitVars
    <2> QED BY <2>1, <2>2 DEF Receive
  <1>4. cache' = cache
    BY DEF Receive, Get
  <1>5. \E a \in Requests :
          /\ req' = [req EXCEPT ![c] = a]
          /\ running' \in {running, running \cup {c}}
          /\ IsGateway /\ c \in running' => Active(c)'
          /\ Truthful(c)'
    <2>1. req \in [Calls -> Requests] /\ cache \in [Keys -> Entries \cup {None}]
          /\ raters \in SUBSET Calls
      BY <1>2 DEF GatewayTypes
    <2>2. CASE req' = [req EXCEPT ![c] = Answered(r, token, "refused", 0)] /\ running' = running
      <3>0. PICK a : a = Answered(r, token, "refused", 0)
        OBVIOUS
      <3>1. 0 \in 0 .. MaxVersion
        BY GatewayAssumption DEF GatewayAssumption
      <3>2. a \in Requests /\ a.route = r /\ a.status = "refused" /\ a.done = FALSE
        BY <3>0, <3>1, AnsweredRequest
      <3>3. req'[c] = a
        BY <2>1, <2>2, <3>0
      <3>4. Truthful(c)'
        BY <3>2, <3>3 DEF Truthful
      <3> QED BY <1>1, <2>2, <3>0, <3>2, <3>4
    <2>3. CASE /\ Routes[r].cached /\ cache[r] # None
               /\ req' = [req EXCEPT ![c] = Answered(r, token, "ok", cache[r].val)]
               /\ running' = running
      <3>0. PICK a : a = Answered(r, token, "ok", cache[r].val)
        OBVIOUS
      <3>1. r \in Keys /\ cache[r].val \in 0 .. MaxVersion
        BY <2>1, <2>3 DEF Keys, Entries
      <3>2. a \in Requests /\ a.route = r /\ a.status = "ok" /\ a.done = FALSE
        BY <3>0, <3>1, AnsweredRequest
      <3>3. req'[c] = a
        BY <2>1, <2>3, <3>0
      <3>4. ~AsksOf(r) /\ r # "RateAnime"
        BY <2>3, RouteShape DEF Shape, Writes
      <3>5. Truthful(c)'
        BY <3>2, <3>3, <3>4 DEF Truthful, Asks, AsksOf
      <3> QED BY <1>1, <2>3, <3>0, <3>2, <3>5
    <2>4. CASE /\ Authorized(Routes[r], token)
               /\ req' = [req EXCEPT ![c] = Started(r, token,
                     {u \in raters : req[u].route = "RateAnime" /\ req[u].status = "ok"})]
               /\ running' = running \cup {c}
      <3> DEFINE f == {u \in raters : req[u].route = "RateAnime" /\ req[u].status = "ok"}
      <3>0. PICK a : a = Started(r, token, f)
        OBVIOUS
      <3>1. f \subseteq raters /\ f \in SUBSET Calls
        BY <2>1
      <3>2. req' = [req EXCEPT ![c] = a]
        BY <2>4, <3>0
      <3> HIDE DEF f
      <3>3. /\ a \in Requests /\ a.route = r /\ a.token = token /\ a.status = "none"
            /\ a.at = 1 /\ a.floor = f /\ a.done = FALSE
        BY <3>0, <3>1, StartedRequest
      <3>4. req'[c] = a
        BY <2>1, <3>2
      <3>5. 1 \in 1 .. Len(Routes[r].calls)
        <4>1. Len(Routes[r].calls) \in {1, 2}
          BY RouteShape DEF Shape
        <4>2. \A n \in {1, 2} : 1 \in 1 .. n
          OBVIOUS
        <4> QED BY <4>1, <4>2
      <3>6. Active(c)'
        <4>1. Authorized(Routes[req'[c].route], req'[c].token)
          BY <2>4, <3>3, <3>4
        <4>2. req'[c].floor \subseteq raters'
          BY <1>1, <3>1, <3>3, <3>4
        <4> QED BY <3>3, <3>4, <3>5, <4>1, <4>2 DEF Active
      <3>7. Truthful(c)'
        BY <3>3, <3>4 DEF Truthful
      <3> QED BY <2>4, <3>2, <3>3, <3>6, <3>7
    <2> QED BY <2>2, <2>3, <2>4 DEF Receive, Get
  <1>6. InProgress' /\ AnswerTruthful' /\ req' \in [Calls -> Requests]
    BY <1>1, <1>5, OneRequest
  <1>7. LifecycleTypes' /\ LifeInv'
    BY <1>1, <1>2, <1>5 DEF LifecycleTypes, LifeInv, procVars, envVars, main
  <1>8. GatewayTypes'
    BY <1>1, <1>2, <1>3, <1>4, <1>6 DEF GatewayTypes
  <1>9. Clean' /\ InvalidationHolds'
    BY <1>1, <1>2, <1>4 DEF Clean, SourceOf, InvalidationHolds
  <1>10. TypeOK'
    BY <1>7, <1>8 DEF LifecycleTypes, GatewayTypes, TypeOK, Buckets, Counts
  <1> QED BY <1>3, <1>6, <1>7, <1>9, <1>10 DEF IInv

\* A call returns.
LEMMA CallReturnsStep ==
    ASSUME IInv, NEW c \in Calls, CallReturns(c)
    PROVE  IInv'
  <1>1. /\ c \in running /\ IsGateway
        /\ UNCHANGED <<setup, procVars, envVars, version, indexed, bucket, recent, cleared>>
    BY DEF CallReturns, limitVars
  <1>2. LifecycleTypes /\ LifeInv /\ GatewayTypes /\ Drawn /\ Clean /\ InvalidationHolds
    BY TypeParts DEF IInv
  <1>3. Active(c)
    BY <1>1 DEF IInv, InProgress
  <1>4. Outcome(c) /\ raters \subseteq raters' /\ raters' \in SUBSET Calls
    BY <1>1, <1>3, OkOutcome, FailedOutcome DEF CallReturns
  <1>5. PICK a \in Requests : req' = [req EXCEPT ![c] = a]
    BY <1>4 DEF Outcome
  <1>6. Truthful(c)'
    <2>1. CASE c \in running'
      <3>1. Active(c)'
        BY <1>4, <2>1 DEF Outcome
      <3> QED BY <3>1 DEF Active, Truthful
    <2>2. CASE c \notin running'
      BY <1>4, <2>2 DEF Outcome
    <2> QED BY <2>1, <2>2
  <1>7. running' \in {running, running \ {c}} /\ (c \in running' => Active(c)')
    BY <1>4 DEF Outcome
  <1>8. InProgress' /\ AnswerTruthful' /\ req' \in [Calls -> Requests]
    BY <1>1, <1>4, <1>5, <1>6, <1>7, OneRequest
  <1>9. LifecycleTypes' /\ LifeInv'
    BY <1>1, <1>2, <1>7 DEF LifecycleTypes, LifeInv, procVars, envVars, main
  <1>10. cache' \in [Keys -> Entries \cup {None}] /\ InvalidationHolds'
    <2>1. cache \in [Keys -> Entries \cup {None}]
      BY <1>2 DEF GatewayTypes
    <2>2. CASE cache' = cache
      BY <1>1, <1>2, <2>1, <2>2 DEF InvalidationHolds
    <2>3. ASSUME req[c].route \in Keys, NEW e \in Entries,
                 cache' = [cache EXCEPT ![req[c].route] = e],
                 ~e.overtaken => e.val >= cleared[req[c].route]
          PROVE  cache' \in [Keys -> Entries \cup {None}] /\ InvalidationHolds'
      <3>1. /\ cache'[req[c].route] = e
            /\ \A k \in Keys : k # req[c].route => cache'[k] = cache[k]
        BY <2>1, <2>3
      <3> QED BY <1>1, <1>2, <2>1, <2>3, <3>1 DEF InvalidationHolds
    <2> QED BY <1>4, <2>2, <2>3 DEF Outcome
  <1>11. TypeOK'
    BY <1>1, <1>2, <1>4, <1>8, <1>9, <1>10
       DEF LifecycleTypes, GatewayTypes, TypeOK, Buckets, Counts
  <1>12. Clean' /\ Drawn'
    BY <1>1, <1>2 DEF Clean, SourceOf, Drawn
  <1> QED BY <1>8, <1>9, <1>10, <1>11, <1>12 DEF IInv

\* A step of the process: what a process held ends with it.
LEMMA ProcessStepStep ==
    ASSUME IInv, ProcessStep
    PROVE  IInv'
  <1>1. LifecycleTypes /\ LifeInv /\ GatewayTypes /\ Drawn /\ Clean /\ InvalidationHolds
    BY TypeParts DEF IInv
  <1>2. LifecycleTypes' /\ LifeInv'
    BY <1>1, ProcessLife DEF ProcessStep
  <1>3. UNCHANGED <<setup, version, indexed, raters, cleared>>
    BY DEF ProcessStep, KeepOrClear, sourceVars, LifecycleNext, Start, StartStep, StartFails, Serve, Panic,
           Reconnect, Break, WorkerStarts, WorkerReturns, Signal, Elapse, Stopped, Outage, Recover
  <1>4. CASE phase' = "down"
    <2>1. /\ cache' = Fresh.cache /\ bucket' = Fresh.bucket /\ req' = Fresh.req
          /\ recent' = Fresh.recent /\ running' = {}
      BY <1>2, <1>4 DEF ProcessStep, KeepOrClear, LifeInv
    <2>2. cache' = [k \in Keys |-> None] /\ req' = [c \in Calls |-> Idle]
      BY <2>1 DEF Fresh
    <2>4. bucket' \in [Peers -> Buckets] /\ recent' \in [Peers -> Counts] /\ Drawn'
      BY <2>1, FreshPaid DEF Drawn, Paid, Fill
    <2>3. GatewayTypes'
      BY <1>1, <1>3, <2>2, <2>4, IdleRequest DEF GatewayTypes
    <2>5. Clean' /\ InvalidationHolds'
      BY <1>1, <1>3, <2>2 DEF Clean, SourceOf, InvalidationHolds
    <2>6. InProgress'
      BY <2>1 DEF InProgress
    <2>7. AnswerTruthful'
      BY <2>2 DEF AnswerTruthful, Idle
    <2>8. TypeOK'
      BY <1>2, <2>3 DEF LifecycleTypes, GatewayTypes, TypeOK, Buckets, Counts
    <2> QED BY <1>2, <2>4, <2>5, <2>6, <2>7, <2>8 DEF IInv
  <1>5. CASE phase' # "down"
    <2>1. UNCHANGED <<cache, bucket, req, recent>>
      BY <1>5 DEF ProcessStep, KeepOrClear, limitVars
    <2>2. running' \in {running, {}}
      BY <1>5 DEF ProcessStep, LifecycleNext, Start, StartStep, StartFails, Serve, Panic, Reconnect,
         Break, WorkerStarts, WorkerReturns, WorkerEnd, Signal, Elapse, Stopped, Outage, Recover, End
    <2>3. TypeOK'
      BY <1>1, <1>2, <1>3, <2>1 DEF LifecycleTypes, GatewayTypes, TypeOK, Buckets, Counts
    <2>4. Clean' /\ Drawn' /\ InvalidationHolds'
      BY <1>1, <1>3, <2>1 DEF Clean, SourceOf, Drawn, InvalidationHolds
    <2>5. InProgress' /\ AnswerTruthful'
      BY <1>3, <2>1, <2>2
         DEF IInv, InProgress, AnswerTruthful, Active, Asks, IsGateway, main
    <2> QED BY <1>2, <2>3, <2>4, <2>5 DEF IInv
  <1> QED BY <1>4, <1>5

\* A message on the invalidation subject.
LEMMA InvalidateStep ==
    ASSUME IInv, NEW m \in {"ALL"} \cup Keys, Invalidate(m)
    PROVE  IInv'
  <1>1. LifecycleTypes /\ LifeInv /\ GatewayTypes /\ Drawn /\ Clean /\ InvalidationHolds
    BY TypeParts DEF IInv
  <1>2. UNCHANGED <<lifeVars, version, indexed, raters, bucket, recent>> /\ IsGateway
    BY DEF Invalidate, sourceVars, limitVars
  <1>3. /\ cache' = [k \in Keys |-> IF k \in Invalidated(m) THEN None ELSE cache[k]]
        /\ cleared' = [k \in Keys |-> IF m \in {k, "ALL"} THEN SourceOf(k) ELSE cleared[k]]
        /\ req' = [c \in Calls |-> IF c \in running /\ m \in {req[c].route, "ALL"}
                                   THEN [req[c] EXCEPT !.overtaken = TRUE] ELSE req[c]]
    BY DEF Invalidate
  <1>4. LifecycleTypes' /\ LifeInv'
    BY <1>1, <1>2 DEF LifecycleTypes, LifeInv, lifeVars, procVars, envVars, main
  <1>5. \A c \in Calls : req[c] \in Requests /\ [req[c] EXCEPT !.overtaken = TRUE] \in Requests
    BY <1>1, RequestFields DEF GatewayTypes
  <1>6. GatewayTypes'
    <2>1. \A k \in Keys : SourceOf(k) \in 0 .. MaxVersion
      BY <1>1 DEF GatewayTypes, SourceOf
    <2> QED BY <1>1, <1>2, <1>3, <1>5, <2>1 DEF GatewayTypes
  <1>7. Clean'
    <2>1. \A k \in Keys : SourceOf(k)' = SourceOf(k) /\ SourceOf(k) \in Int
      BY <1>1, <1>2 DEF GatewayTypes, SourceOf
    <2>2. \A k \in Keys : cleared'[k] = SourceOf(k) \/ cleared'[k] = cleared[k]
      BY <1>3
    <2>3. \A k \in Keys : cleared[k] <= SourceOf(k)
      BY <1>1 DEF Clean
    <2> QED BY <2>1, <2>2, <2>3 DEF Clean
  <1>8. Drawn'
    BY <1>1, <1>2 DEF Drawn
  <1>9. InvalidationHolds'
    <2>1. \A k \in Keys : m \in {k, "ALL"} => k \in Invalidated(m)
      BY DEF Invalidated
    <2> QED BY <1>1, <1>3, <2>1 DEF InvalidationHolds
  <1>10. \A c \in Calls :
            /\ req'[c].route = req[c].route /\ req'[c].token = req[c].token
            /\ req'[c].at = req[c].at /\ req'[c].got = req[c].got /\ req'[c].seen = req[c].seen
            /\ req'[c].floor = req[c].floor /\ req'[c].done = req[c].done
            /\ req'[c].status = req[c].status
    BY <1>3, <1>5 DEF Requests
  <1>11. AnswerTruthful'
    BY <1>10 DEF IInv, AnswerTruthful, Asks
  <1>12. InProgress'
    <2>1. ASSUME NEW c \in running' PROVE Active(c)'
      <3>1. c \in running /\ c \in Calls /\ Active(c)
        BY <1>1, <1>2, <2>1 DEF IInv, InProgress, LifecycleTypes, lifeVars
      <3>2. ASSUME req'[c].at = 2, req'[c].route \in Keys, ~req'[c].overtaken
            PROVE  req'[c].got >= cleared'[req'[c].route]
        <4>1. m \notin {req[c].route, "ALL"}
          <5>1. SUFFICES ASSUME m \in {req[c].route, "ALL"} PROVE FALSE
            OBVIOUS
          <5>2. req'[c] = [req[c] EXCEPT !.overtaken = TRUE]
            BY <1>3, <3>1, <5>1
          <5>3. req'[c].overtaken = TRUE
            BY <1>5, <3>1, <5>2 DEF Requests
          <5> QED BY <3>2, <5>3
        <4>2. req'[c] = req[c] /\ cleared'[req[c].route] = cleared[req[c].route]
          BY <1>3, <3>1, <3>2, <4>1, <1>10
        <4> QED BY <3>1, <3>2, <4>2 DEF Active
      <3> QED BY <1>2, <1>10, <3>1, <3>2 DEF Active, Asks
    <2> QED BY <2>1 DEF InProgress
  <1>13. TypeOK'
    BY <1>4, <1>6 DEF LifecycleTypes, GatewayTypes, TypeOK, Buckets, Counts
  <1> QED BY <1>4, <1>7, <1>8, <1>9, <1>11, <1>12, <1>13 DEF IInv

\* Time passes.
LEMMA TickStep ==
    ASSUME IInv, Tick
    PROVE  IInv'
  <1>1. LifecycleTypes /\ LifeInv /\ GatewayTypes /\ Drawn /\ Clean /\ InvalidationHolds
    BY TypeParts DEF IInv
  <1>2. UNCHANGED <<lifeVars, version, indexed, raters, req, cleared>>
    BY DEF Tick, sourceVars
  <1>3. LifecycleTypes' /\ LifeInv'
    BY <1>1, <1>2 DEF LifecycleTypes, LifeInv, lifeVars, procVars, envVars, main
  <1>4. bucket' \in [Peers -> Buckets] /\ recent' \in [Peers -> Counts] /\ Drawn'
    BY <1>1, TickBucket DEF GatewayTypes
  <1>5. cache' \in [Keys -> Entries \cup {None}] /\ InvalidationHolds'
    <2>1. cache' = [k \in Keys |->
                      IF cache[k] # None /\ cache[k].left >= 0 THEN [cache[k] EXCEPT !.left = @ - 1]
                      ELSE cache[k]]
      BY DEF Tick
    <2>2. ASSUME NEW k \in Keys, cache[k] # None, cache[k].left >= 0
          PROVE  /\ [cache[k] EXCEPT !.left = @ - 1] \in Entries
                 /\ [cache[k] EXCEPT !.left = @ - 1].val = cache[k].val
                 /\ [cache[k] EXCEPT !.left = @ - 1].overtaken = cache[k].overtaken
      <3>1. cache[k] \in Entries
        BY <1>1, <2>2 DEF GatewayTypes
      <3> QED BY <2>2, <3>1, GatewayAssumption DEF Entries, GatewayAssumption
    <2>3. ASSUME NEW k \in Keys
          PROVE  /\ cache'[k] \in Entries \cup {None}
                 /\ cache'[k] # None =>
                      /\ cache[k] # None
                      /\ cache'[k].val = cache[k].val /\ cache'[k].overtaken = cache[k].overtaken
      BY <1>1, <2>1, <2>2 DEF GatewayTypes
    <2> QED BY <1>1, <1>2, <2>1, <2>3 DEF InvalidationHolds
  <1>6. Clean' /\ InProgress' /\ AnswerTruthful'
    BY <1>2 DEF IInv, Clean, SourceOf, InProgress, AnswerTruthful, Active, Asks, IsGateway,
       lifeVars, main
  <1>7. TypeOK'
    BY <1>1, <1>2, <1>3, <1>4, <1>5 DEF LifecycleTypes, GatewayTypes, TypeOK, Buckets, Counts
  <1> QED BY <1>3, <1>4, <1>5, <1>6, <1>7 DEF IInv

\* The index follows the catalog or is set back: what could be read since the last
\* invalidation is as old as that.
LEMMA IndexStep ==
    ASSUME IInv, Index
    PROVE  IInv'
  <1>1. LifecycleTypes /\ LifeInv /\ GatewayTypes /\ Drawn /\ Clean /\ InvalidationHolds
    BY TypeParts DEF IInv
  <1>2. UNCHANGED <<lifeVars, version, raters, bucket, recent, cache, req>>
    BY DEF Index, limitVars
  <1>3. PICK v \in 0 .. version :
          /\ indexed' = v
          /\ cleared' = [cleared EXCEPT !["Search"] = IF v < @ THEN v ELSE @]
    BY DEF Index
  <1>4. v \in 0 .. MaxVersion /\ version \in 0 .. MaxVersion /\ cleared \in [Keys -> 0 .. MaxVersion]
    BY <1>1, <1>3, GatewayAssumption DEF GatewayTypes, GatewayAssumption
  <1>5. /\ cleared' \in [Keys -> 0 .. MaxVersion]
        /\ \A k \in Keys : cleared'[k] <= cleared[k] /\ (k = "Search" => cleared'[k] <= v)
        /\ \A k \in Keys : k # "Search" => cleared'[k] = cleared[k]
    <2>1. PICK u : u = IF v < cleared["Search"] THEN v ELSE cleared["Search"]
      OBVIOUS
    <2>2. cleared' = [cleared EXCEPT !["Search"] = u]
      BY <1>3, <2>1
    <2>3. "Search" \in Keys => u \in 0 .. MaxVersion /\ u <= cleared["Search"] /\ u <= v
      BY <1>4, <2>1
    <2>4. \A k \in Keys : cleared'[k] = IF k = "Search" THEN u ELSE cleared[k]
      BY <1>4, <2>2
    <2>5. \A k \in Keys : cleared[k] \in 0 .. MaxVersion /\ cleared[k] <= cleared[k]
      BY <1>4
    <2> QED BY <1>4, <2>2, <2>3, <2>4, <2>5
  <1>6. LifecycleTypes' /\ LifeInv'
    BY <1>1, <1>2 DEF LifecycleTypes, LifeInv, lifeVars, procVars, envVars, main
  <1>7. TypeOK'
    BY <1>1, <1>2, <1>3, <1>4, <1>5, <1>6
       DEF LifecycleTypes, GatewayTypes, TypeOK, Buckets, Counts
  <1>8. Clean'
    <2>1. ASSUME NEW k \in Keys PROVE cleared'[k] <= SourceOf(k)'
      BY <1>1, <1>2, <1>3, <1>5 DEF Clean, SourceOf
    <2> QED BY <2>1 DEF Clean
  <1>9. Drawn' /\ AnswerTruthful'
    BY <1>1, <1>2 DEF IInv, Drawn, AnswerTruthful, Asks
  <1>10. InvalidationHolds'
    <2>1. ASSUME NEW k \in Keys, cache[k] # None, ~cache[k].overtaken
          PROVE  cache[k].val >= cleared'[k]
      <3>1. cache[k] \in Entries
        BY <1>1, <2>1 DEF GatewayTypes
      <3>2. cache[k].val \in 0 .. MaxVersion /\ cache[k].val >= cleared[k]
        BY <1>1, <2>1, <3>1 DEF InvalidationHolds, Entries
      <3> QED BY <1>4, <1>5, <3>2
    <2> QED BY <1>2, <2>1 DEF InvalidationHolds
  <1>11. InProgress'
    <2>1. ASSUME NEW c \in running, IsGateway PROVE Active(c)'
      <3>1. c \in Calls /\ Active(c) /\ req[c].got \in 0 .. MaxVersion
        BY <1>1, <2>1 DEF IInv, InProgress, LifecycleTypes, GatewayTypes, Requests
      <3>2. ASSUME req[c].at = 2, req[c].route \in Keys, ~req[c].overtaken
            PROVE  req[c].got >= cleared'[req[c].route]
        <4>1. req[c].got >= cleared[req[c].route]
          BY <3>1, <3>2 DEF Active
        <4> QED BY <1>4, <1>5, <3>1, <3>2, <4>1
      <3> QED BY <1>2, <3>1, <3>2 DEF Active, Asks
    <2> QED BY <1>2, <2>1 DEF InProgress, IsGateway, lifeVars, main
  <1> QED BY <1>6, <1>7, <1>8, <1>9, <1>10, <1>11 DEF IInv

\* Every step keeps all parts.
LEMMA StepInv == IInv /\ [Next]_vars => IInv'
  <1> SUFFICES ASSUME IInv, [Next]_vars PROVE IInv'
    OBVIOUS
  <1>1. CASE UNCHANGED vars
    <2>1. TypeOK' /\ LifeInv'
      BY <1>1 DEF vars, lifeVars, procVars, envVars, gatewayVars, sourceVars, limitVars, IInv, TypeOK,
         LifecycleTypes, LifeInv, main
    <2>2. InProgress' /\ AnswerTruthful'
      BY <1>1 DEF vars, lifeVars, procVars, envVars, gatewayVars, sourceVars, limitVars, IInv,
         InProgress, Active, Asks, AnswerTruthful, IsGateway, main
    <2>3. Clean' /\ Drawn' /\ InvalidationHolds'
      BY <1>1 DEF vars, gatewayVars, sourceVars, limitVars, IInv, Clean, SourceOf, Drawn,
         InvalidationHolds
    <2> QED BY <2>1, <2>2, <2>3 DEF IInv
  <1>2. ASSUME NEW c \in Calls, OtherCall(c) PROVE IInv'
    <2>1. UNCHANGED gatewayVars /\ ~IsGateway /\ UNCHANGED <<setup, procVars, envVars>>
      BY <1>2 DEF OtherCall, BeginCall, EndCall
    <2>2. \/ phase = "serving" /\ running' = running \cup {c}
          \/ running' = running \ {c}
      BY <1>2 DEF OtherCall, BeginCall, EndCall
    <2>3. LifecycleTypes' /\ LifeInv'
      BY <2>1, <2>2 DEF IInv, TypeOK, LifecycleTypes, LifeInv, procVars, envVars, main
    <2>4. TypeOK' /\ Clean' /\ Drawn' /\ InvalidationHolds' /\ AnswerTruthful'
      BY <2>1, <2>3 DEF gatewayVars, sourceVars, limitVars, IInv, TypeOK, LifecycleTypes, Clean,
         SourceOf, Drawn, InvalidationHolds, AnswerTruthful, Asks
    <2>5. InProgress'
      BY <2>1 DEF InProgress, IsGateway, main
    <2> QED BY <2>3, <2>4, <2>5 DEF IInv
  <1>3. CASE Change
    <2>1. /\ UNCHANGED <<lifeVars, indexed, raters, cache, bucket, req, recent, cleared>>
          /\ version < MaxVersion /\ version' = version + 1
      BY <1>3 DEF Change, limitVars
    <2>2. version' \in 0 .. MaxVersion /\ version' >= version
      BY <2>1, GatewayAssumption DEF IInv, TypeOK, GatewayAssumption
    <2>3. LifecycleTypes' /\ LifeInv'
      BY <2>1 DEF IInv, TypeOK, LifecycleTypes, LifeInv, lifeVars, procVars, envVars, main
    <2>4. Clean'
      BY <2>1, <2>2 DEF IInv, TypeOK, Clean, SourceOf
    <2>5. TypeOK'
      BY <2>1, <2>2, <2>3 DEF IInv, TypeOK, LifecycleTypes
    <2>6. Drawn' /\ InvalidationHolds' /\ AnswerTruthful' /\ InProgress'
      BY <2>1 DEF lifeVars, IInv, Drawn, InvalidationHolds, AnswerTruthful, InProgress,
         Active, Asks, IsGateway, main
    <2> QED BY <2>3, <2>4, <2>5, <2>6 DEF IInv
  <1> QED
    BY <1>1, <1>2, <1>3, IndexStep, ProcessStepStep, ReceiveStep, CallReturnsStep, InvalidateStep,
       TickStep DEF Next

\* No process, an empty catalog, full buckets.
LEMMA InitInv == Init => IInv
  <1> SUFFICES ASSUME Init PROVE IInv
    OBVIOUS
  <1>1. LifecycleTypes /\ LifeInv
    <2>1. setup \in Setups
      BY DEF Init, LifecycleInit
    <2>2. main \in Mains /\ Len(main.start) \in Nat /\ setup.outages \in Nat
      BY <2>1, MainFacts, LifecycleAssumption DEF LifecycleAssumption, main
    <2> QED
      BY <2>1, <2>2, LifecycleAssumption
         DEF Init, LifecycleInit, LifecycleTypes, LifeInv, LifecycleAssumption
  <1>2. /\ version = 0 /\ indexed = 0 /\ raters = {} /\ running = {}
        /\ cache = [k \in Keys |-> None] /\ cleared = [k \in Keys |-> 0]
        /\ req = [c \in Calls |-> Idle]
    BY DEF Init, LifecycleInit, Fresh
  <1>3. bucket \in [Peers -> Buckets] /\ recent \in [Peers -> Counts] /\ Drawn
    BY FreshPaid DEF Init, Drawn
  <1>4. GatewayTypes
    BY <1>2, <1>3, IdleRequest, GatewayAssumption DEF GatewayTypes, GatewayAssumption
  <1>5. Clean /\ InvalidationHolds /\ InProgress /\ AnswerTruthful
    BY <1>2 DEF Clean, SourceOf, InvalidationHolds, InProgress, AnswerTruthful, Idle
  <1> QED BY <1>1, <1>3, <1>4, <1>5, TypeParts DEF IInv

\* All parts hold together in every reachable state.
LEMMA Invariant == Spec => []IInv
  BY InitInv, StepInv, PTL DEF Spec

-----------------------------------------------------------------------------
(* Theorems.                                                               *)

\* Every variable of the process and of the gateway keeps its type; no main ever
\* connects twice, so that reconnects stay within NATS_MAX_RECONNECTS.
THEOREM TypeCorrect == Spec => []TypeOK
  BY Invariant, PTL DEF IInv

\* However requests, changes of the catalog and of the lagging index, and
\* invalidations interleave, an entry older than all its source has shown since the
\* last invalidation of its key was stored by a request that it overtook.
THEOREM InvalidationKept == Spec => []InvalidationHolds
  BY Invariant, PTL DEF IInv

\* For every burst, refill and cost, any number of keys and every span of time, no
\* more requests with one key get through a limiter than its bucket and its refill
\* pay for.  Nothing is said of a client with several keys.
THEOREM LimitKept == Spec => []BucketBound
  <1>1. IInv => BucketBound
    <2> SUFFICES ASSUME IInv, NEW p \in Peers, NEW w \in 1 .. Window
                 PROVE  Cost * recent[p][w] <= Burst + Rate * (w - 1)
      BY DEF BucketBound
    <2>1. bucket[p] \in Buckets /\ recent[p] \in Counts
      BY TypeParts DEF IInv, GatewayTypes
    <2>2. Fill(bucket[p]) \in 0 .. Burst
      BY <2>1, FillFacts
    <2>3. Cost * recent[p][w] + Fill(bucket[p]) <= Burst + Rate * (w - 1)
      BY DEF IInv, Drawn, Paid
    <2>4. Burst \in Nat /\ Rate \in Nat /\ Cost \in Nat /\ recent[p][w] \in Nat
      BY <2>1, GatewayAssumption DEF GatewayAssumption, Counts
    <2>5. PICK x \in Int, y \in Int : x = Cost * recent[p][w] /\ y = Burst + Rate * (w - 1)
      BY <2>4
    <2> QED BY <2>2, <2>3, <2>4, <2>5
  <1> QED BY <1>1, Invariant, PTL

\* No interleaving of requests, failed calls and restarts makes an answer lie
\* about a write other than Logout's, or do a protected write without a token.
THEOREM AnswersTrue == Spec => []AnswerTruthful
  BY Invariant, PTL DEF IInv

\* A service that stops gracefully never cuts a call off by stopping, except after
\* its timeout.
THEOREM CallsFinish == Spec => [](main.stop = "graceful" => cut \notin {"start", "stop"})
  <1>1. IInv => (main.stop = "graceful" => cut \notin {"start", "stop"})
    BY DEF IInv, LifeInv
  <1> QED BY <1>1, Invariant, PTL

-----------------------------------------------------------------------------
(* ActivityProgress.                                                       *)

\* Where a worker can be.
Controls == {"idle", "begin", "run", "wait", "fallback", "ack"}

\* What has been sent has a time.
Sent == \A e \in published \cup applied : ts[e] # 0

\* Row locks: two open transactions never write the same row.
Exclusive ==
    \A v, w \in Workers : v # w => \A c \in claims[v], d \in claims[w] : Key[c] # Key[d]

\* A worker and its batch: what is done of it is claimed or applied.
HeldAt(w) ==
    /\ Members(batch[w]) \subseteq published /\ Members(todo[w]) \subseteq published
    /\ pc[w] \in {"wait", "fallback"} => todo[w] # <<>>
    /\ ~migrated \/ pc[w] \in {"idle", "begin", "fallback", "ack"} => claims[w] = {}
    /\ pc[w] \in {"run", "wait", "fallback"} /\ ~failed[w] =>
          Members(batch[w]) \subseteq Members(todo[w]) \cup claims[w] \cup applied
    /\ pc[w] = "ack" => Members(batch[w]) \subseteq applied

\* A row written by an open transaction: the newest of what the transaction has
\* applied to it and of what it was.
DraftAt(w, k) ==
    /\ draft[w][k] = NoReport => \A c \in claims[w] : Key[c] # k
    /\ draft[w][k] # NoReport =>
         /\ \E c \in claims[w] : Key[c] = k
         /\ draft[w][k] \in claims[w] \cup applied /\ Key[draft[w][k]] = k
         /\ \A c \in claims[w] : Key[c] = k => ts[c] <= ts[draft[w][k]]
         /\ row[k] # NoReport => ts[row[k]] <= ts[draft[w][k]]

\* All rows of all open transactions.
Drafted == \A w \in Workers, k \in RowKeys : DraftAt(w, k)

\* What RowIsNewest says of one row.
RowAt(k) ==
    /\ row[k] = NoReport => \A e \in applied : Key[e] # k
    /\ row[k] # NoReport =>
         /\ row[k] \in applied /\ Key[row[k]] = k
         /\ \A e \in applied : Key[e] = k => ts[e] <= ts[row[k]]

\* The inductive invariant.
ProgressInv ==
    /\ ProgressTypeOK /\ Sent /\ Exclusive
    /\ \A w \in Workers : HeldAt(w)
    /\ Drafted
    /\ processed \subseteq applied /\ acked \subseteq applied
    /\ \A k \in RowKeys : RowAt(k)

-----------------------------------------------------------------------------
(* Batches.                                                                *)

\* A batch is a sequence of reports.
LEMMA BatchSeq ==
    ASSUME NEW b \in Batches
    PROVE  b \in Seq(Reports) /\ Len(b) \in 0 .. BatchSize /\ Members(b) \subseteq Reports
  <1>1. BatchSize \in Nat
    BY ProgressAssumption DEF ProgressAssumption
  <1>2. PICK n \in 0 .. BatchSize : b \in [1 .. n -> Reports]
    BY DEF Batches
  <1>3. n \in Nat
    BY <1>1, <1>2
  <1>4. b \in Seq(Reports)
    BY <1>2, <1>3, SeqDef
  <1>5. Len(b) \in Nat /\ b \in [1 .. Len(b) -> Reports] /\ DOMAIN b = 1 .. Len(b)
    BY <1>4, LenProperties
  <1>6. 1 .. Len(b) = 1 .. n
    BY <1>2, <1>5
  <1>7. Len(b) = n
    <2>1. PICK m \in Nat : m = Len(b)
      BY <1>5
    <2>2. 1 .. m = 1 .. n
      BY <1>6, <2>1
    <2>3. m = n
      <3>1. n >= 1 => n \in 1 .. m
        BY <1>3, <2>2
      <3>2. m >= 1 => m \in 1 .. n
        BY <2>2
      <3> QED BY <1>3, <3>1, <3>2
    <2> QED BY <2>1, <2>3
  <1> QED BY <1>2, <1>4, <1>5, <1>7 DEF Members

\* The first report of a batch and the rest.
LEMMA BatchHead ==
    ASSUME NEW b \in Batches, b # <<>>
    PROVE  /\ Head(b) \in Reports /\ Head(b) \in Members(b)
           /\ Tail(b) \in Batches
           /\ Members(b) = {Head(b)} \cup Members(Tail(b))
  <1>1. b \in Seq(Reports) /\ Len(b) \in 0 .. BatchSize /\ BatchSize \in Nat
    BY BatchSeq, ProgressAssumption DEF ProgressAssumption
  <1>2. /\ Head(b) \in Reports /\ Tail(b) \in Seq(Reports)
        /\ Len(Tail(b)) = Len(b) - 1
        /\ \A i \in 1 .. Len(Tail(b)) : Tail(b)[i] = b[i + 1]
    BY <1>1, HeadTailProperties
  <1>3. Len(b) \in Nat /\ Len(b) >= 1
    BY <1>1, EmptySeq
  <1>4. Head(b) = b[1]
    BY <1>1
  <1>5. Len(Tail(b)) \in 0 .. BatchSize /\ Tail(b) \in [1 .. Len(Tail(b)) -> Reports]
    <2>1. Len(Tail(b)) \in 0 .. BatchSize
      BY <1>1, <1>2, <1>3
    <2>2. Tail(b) \in [1 .. Len(Tail(b)) -> Reports]
      BY <1>2, LenProperties
    <2> QED BY <2>1, <2>2
  <1>6. Tail(b) \in Batches
    BY <1>5 DEF Batches
  <1>7. Members(b) \subseteq {Head(b)} \cup Members(Tail(b))
    <2> SUFFICES ASSUME NEW i \in 1 .. Len(b), b[i] # Head(b)
                 PROVE  b[i] \in Members(Tail(b))
      BY DEF Members
    <2>1. i # 1
      BY <1>4
    <2>2. i - 1 \in 1 .. Len(Tail(b)) /\ (i - 1) + 1 = i
      BY <1>2, <1>3, <2>1
    <2>3. Tail(b)[i - 1] = b[i]
      BY <1>2, <2>2
    <2> QED BY <2>2, <2>3 DEF Members
  <1>8. Members(Tail(b)) \subseteq Members(b)
    <2> SUFFICES ASSUME NEW i \in 1 .. Len(Tail(b))
                 PROVE  Tail(b)[i] \in Members(b)
      BY DEF Members
    <2>1. i + 1 \in 1 .. Len(b)
      BY <1>2, <1>3
    <2> QED BY <1>2, <2>1 DEF Members
  <1>9. Head(b) \in Members(b)
    <2>1. 1 \in 1 .. Len(b)
      BY <1>3
    <2> QED BY <1>4, <2>1 DEF Members
  <1> QED BY <1>2, <1>6, <1>7, <1>8, <1>9

\* The empty batch.
LEMMA NoBatch == <<>> \in Batches /\ Members(<<>>) = {}
  <1>1. BatchSize \in Nat /\ Len(<<>>) = 0
    BY EmptySeq, ProgressAssumption DEF ProgressAssumption
  <1>2. Members(<<>>) = {}
    BY <1>1 DEF Members
  <1>3. <<>> \in [1 .. 0 -> Reports] /\ 0 \in 0 .. BatchSize
    BY <1>1
  <1> QED BY <1>2, <1>3 DEF Batches

-----------------------------------------------------------------------------
(* What steps leave alone.                                                 *)

\* The types of the stream and the database.
StreamTypes ==
    /\ ts \in [Reports -> 0 .. MaxTs]
    /\ published \in SUBSET Reports
    /\ ready \in SUBSET published
    /\ acked \in SUBSET published
    /\ migrated \in BOOLEAN
    /\ processed \in SUBSET published
    /\ row \in [RowKeys -> Reports \cup {NoReport}]
    /\ applied \in SUBSET Reports
    /\ faults \in 0 .. MaxFaults

\* The workers.
WorkerTypes ==
    /\ pc \in [Workers -> {"idle", "begin", "run", "wait", "fallback", "ack"}]
    /\ batch \in [Workers -> Batches]
    /\ todo \in [Workers -> Batches]
    /\ failed \in [Workers -> BOOLEAN]
    /\ claims \in [Workers -> SUBSET published]
    /\ draft \in [Workers -> [RowKeys -> Reports \cup {NoReport}]]

\* The type invariant is made of them.
LEMMA ProgressTypes == ProgressTypeOK <=> StreamTypes /\ WorkerTypes
  BY DEF ProgressTypeOK, StreamTypes, WorkerTypes

\* A worker to whom nothing happens keeps its batch, while others publish and apply.
LEMMA HeldKept ==
    ASSUME NEW w \in Workers, HeldAt(w),
           pc'[w] = pc[w], batch'[w] = batch[w], todo'[w] = todo[w],
           failed'[w] = failed[w], claims'[w] = claims[w],
           published \subseteq published', applied \subseteq applied',
           migrated => migrated'
    PROVE  HeldAt(w)'
  BY DEF HeldAt, Members

\* A draft stays the newest, as long as the row and its times stay as they are.
LEMMA DraftKept ==
    ASSUME NEW w \in Workers, NEW k \in RowKeys, DraftAt(w, k),
           draft'[w][k] = draft[w][k], claims'[w] = claims[w], applied \subseteq applied',
           row'[k] = row[k] \/ (\A c \in claims[w] : Key[c] # k),
           row[k] # NoReport => ts'[row[k]] = ts[row[k]],
           \A c \in claims[w] \cup applied : ts'[c] = ts[c]
    PROVE  DraftAt(w, k)'
  BY DEF DraftAt

\* A row stays the newest, as long as nothing is applied to it.
LEMMA RowKept ==
    ASSUME NEW k \in RowKeys, RowAt(k), row'[k] = row[k], applied \subseteq applied',
           \A e \in applied' \ applied : Key[e] # k,
           \A e \in applied : ts'[e] = ts[e]
    PROVE  RowAt(k)'
  BY DEF RowAt

\* One worker takes a step that leaves the rows alone.
LEMMA WorkerMoves ==
    ASSUME ProgressInv, NEW w \in Workers, StreamTypes', WorkerTypes',
           UNCHANGED <<ts, published, migrated, processed, row, applied>>,
           acked' \subseteq applied,
           \A v \in Workers : v # w =>
                /\ pc'[v] = pc[v] /\ batch'[v] = batch[v] /\ todo'[v] = todo[v]
                /\ failed'[v] = failed[v] /\ claims'[v] = claims[v] /\ draft'[v] = draft[v],
           HeldAt(w)', \A k \in RowKeys : DraftAt(w, k)',
           \A v \in Workers : v # w =>
                \A c \in claims'[w], d \in claims[v] : Key[c] # Key[d]
    PROVE  ProgressInv'
  <1>1. ProgressTypeOK'
    BY DEF StreamTypes, WorkerTypes, ProgressTypeOK
  <1>2. Sent'
    BY DEF ProgressInv, Sent
  <1>3. Exclusive'
    BY DEF ProgressInv, Exclusive
  <1>4. \A v \in Workers : HeldAt(v)'
    BY HeldKept DEF ProgressInv
  <1>5. Drafted'
    <2> SUFFICES ASSUME NEW v \in Workers, NEW k \in RowKeys, v # w PROVE DraftAt(v, k)'
      BY DEF Drafted
    <2>1. DraftAt(v, k)
      BY DEF ProgressInv, Drafted
    <2> QED BY <2>1, DraftKept
  <1>6. \A k \in RowKeys : RowAt(k)'
    BY RowKept DEF ProgressInv
  <1>7. processed' \subseteq applied' /\ acked' \subseteq applied'
    BY DEF ProgressInv
  <1> QED BY <1>1, <1>2, <1>3, <1>4, <1>5, <1>6, <1>7 DEF ProgressInv

-----------------------------------------------------------------------------
(* The BFF and the stream.                                                 *)

\* A report is published, redelivered, or the table is migrated.
LEMMA StreamStep ==
    ASSUME ProgressInv,
           Migrate \/ \E e \in Reports : PublishProgress(e) \/ Redeliver(e)
    PROVE  ProgressInv'
  <1>1. StreamTypes /\ WorkerTypes
    BY ProgressTypes DEF ProgressInv
  <1>2. /\ UNCHANGED <<acked, processed, row, applied, workerVars, faults>>
        /\ published \subseteq published' /\ (migrated => migrated')
    BY DEF Migrate, PublishProgress, Redeliver, dbVars, streamVars
  <1>3. StreamTypes' /\ Sent' /\ \A x \in published \cup applied : ts'[x] = ts[x]
    <2>1. CASE Migrate \/ \E e \in Reports : Redeliver(e)
      <3>1. UNCHANGED <<ts, published>> /\ ready' \in SUBSET published /\ migrated' \in BOOLEAN
        BY <1>1, <2>1 DEF Migrate, Redeliver, streamVars, dbVars, StreamTypes
      <3> QED BY <1>1, <1>2, <3>1 DEF StreamTypes, ProgressInv, Sent
    <2>2. CASE \E e \in Reports : PublishProgress(e)
      <3>1. PICK e \in Reports : PublishProgress(e)
        BY <2>2
      <3>2. PICK t \in TsOf(e) : ts' = [ts EXCEPT ![e] = t]
        BY <3>1 DEF PublishProgress
      <3>3. t \in 0 .. MaxTs
        BY ProgressAssumption DEF TsOf, ProgressAssumption
      <3>4. t # 0
        BY <3>2, <3>3, ProgressAssumption DEF TsOf, ProgressAssumption
      <3>5. e \notin published \cup applied
        BY <3>1 DEF PublishProgress, ProgressInv, Sent
      <3>6. /\ published' = published \cup {e} /\ ready' = ready \cup {e}
            /\ migrated' = migrated
        BY <3>1 DEF PublishProgress, dbVars
      <3>7. \A x \in published \cup applied : ts'[x] = ts[x]
        BY <1>1, <3>2, <3>5 DEF StreamTypes
      <3>8. ts'[e] = t /\ ts' \in [Reports -> 0 .. MaxTs]
        BY <1>1, <3>2, <3>3 DEF StreamTypes
      <3>9. StreamTypes'
        BY <1>1, <1>2, <3>6, <3>8 DEF StreamTypes
      <3>10. Sent'
        BY <1>2, <3>4, <3>6, <3>7, <3>8 DEF ProgressInv, Sent
      <3> QED BY <3>7, <3>9, <3>10
    <2> QED BY <2>1, <2>2
  <1>4. WorkerTypes'
    BY <1>1, <1>2 DEF WorkerTypes, workerVars
  <1>5. ProgressTypeOK'
    BY <1>3, <1>4 DEF StreamTypes, WorkerTypes, ProgressTypeOK
  <1>6. Exclusive' /\ \A w \in Workers : HeldAt(w)'
    BY <1>2, HeldKept DEF ProgressInv, Exclusive, workerVars
  <1>7. ASSUME NEW k \in RowKeys PROVE RowAt(k)'
    <2>1. RowAt(k)
      BY DEF ProgressInv
    <2> QED BY <1>2, <1>3, <2>1, RowKept
  <1>8. Drafted'
    <2> SUFFICES ASSUME NEW w \in Workers, NEW k \in RowKeys PROVE DraftAt(w, k)'
      BY DEF Drafted
    <2>1. DraftAt(w, k) /\ RowAt(k)
      BY DEF ProgressInv, Drafted
    <2>2. claims[w] \subseteq published
      BY <1>1 DEF WorkerTypes
    <2>3. row[k] # NoReport => row[k] \in applied
      BY <2>1 DEF RowAt
    <2> QED BY <1>2, <1>3, <2>1, <2>2, <2>3, DraftKept DEF workerVars
  <1> QED BY <1>2, <1>5, <1>3, <1>6, <1>7, <1>8 DEF ProgressInv

\* A report is applied to a row that no open transaction has written.
LEMMA RowWritten ==
    ASSUME ProgressInv, NEW e \in Reports, NEW t \in 1 .. MaxTs,
           ts'[e] = t, \A x \in published \cup applied : ts'[x] = ts[x],
           row' = [row EXCEPT ![Key[e]] = Upsert(@, e, t)],
           applied' = applied \cup {e}, UNCHANGED <<published, claims, draft>>,
           \A v \in Workers : \A c \in claims[v] : Key[c] # Key[e]
    PROVE  /\ row' \in [RowKeys -> Reports \cup {NoReport}]
           /\ Sent' /\ Exclusive' /\ Drafted' /\ \A k \in RowKeys : RowAt(k)'
  <1>1. StreamTypes /\ WorkerTypes
    BY ProgressTypes DEF ProgressInv
  <1>2. Key[e] \in RowKeys /\ NoReport \notin Reports
    BY ProgressAssumption DEF ProgressAssumption
  <1>3. Sent' /\ Exclusive'
    BY DEF ProgressInv, Sent, Exclusive
  <1>4. Upsert(row[Key[e]], e, t) \in Reports \cup {NoReport}
    BY <1>1, <1>2 DEF Upsert, StreamTypes
  <1>5. /\ row' \in [RowKeys -> Reports \cup {NoReport}]
        /\ row'[Key[e]] = Upsert(row[Key[e]], e, t)
        /\ \A k \in RowKeys : k # Key[e] => row'[k] = row[k]
    BY <1>1, <1>2, <1>4 DEF StreamTypes
  <1>6. ASSUME NEW k \in RowKeys PROVE RowAt(k)'
    <2>1. RowAt(k)
      BY DEF ProgressInv
    <2>2. CASE k # Key[e]
      BY <1>5, <2>1, <2>2, RowKept
    <2>3. CASE k = Key[e]
      <3>1. \A x \in applied : ts'[x] = ts[x] /\ ts[x] \in 0 .. MaxTs
        BY <1>1 DEF StreamTypes
      <3>2. MaxTs \in Nat
        BY ProgressAssumption DEF ProgressAssumption
      <3>3. CASE row[k] = NoReport
        <4>1. row'[k] = e
          BY <1>5, <2>3, <3>3 DEF Upsert, Newer
        <4>2. \A x \in applied : Key[x] # k
          BY <2>1, <3>3 DEF RowAt
        <4> QED BY <1>2, <2>3, <3>2, <4>1, <4>2 DEF RowAt
      <3>4. CASE row[k] # NoReport /\ ts[row[k]] <= t
        <4>1. row'[k] = e
          BY <1>5, <2>3, <3>4 DEF Upsert, Newer
        <4>2. row[k] \in applied /\ \A x \in applied : Key[x] = k => ts[x] <= ts[row[k]]
          BY <2>1, <3>4 DEF RowAt
        <4>3. \A x \in applied : Key[x] = k => ts'[x] <= t
          BY <3>1, <3>2, <3>4, <4>2
        <4> QED BY <1>2, <2>3, <3>2, <4>1, <4>3 DEF RowAt
      <3>5. CASE row[k] # NoReport /\ ~(ts[row[k]] <= t)
        <4>1. row'[k] = row[k]
          BY <1>5, <2>3, <3>5 DEF Upsert, Newer
        <4>2. /\ row[k] \in applied /\ Key[row[k]] = k
              /\ \A x \in applied : Key[x] = k => ts[x] <= ts[row[k]]
          BY <2>1, <3>5 DEF RowAt
        <4>3. t <= ts'[row[k]]
          BY <3>1, <3>2, <3>5, <4>2
        <4>4. \A x \in applied : Key[x] = k => ts'[x] <= ts'[row[k]]
          BY <3>1, <4>2
        <4> QED BY <3>5, <4>1, <4>2, <4>3, <4>4 DEF RowAt
      <3> QED BY <3>3, <3>4, <3>5
    <2> QED BY <2>2, <2>3
  <1>7. Drafted'
    <2> SUFFICES ASSUME NEW w \in Workers, NEW k \in RowKeys PROVE DraftAt(w, k)'
      BY DEF Drafted
    <2>1. DraftAt(w, k) /\ RowAt(k)
      BY DEF ProgressInv, Drafted
    <2>2. claims[w] \subseteq published
      BY <1>1 DEF WorkerTypes
    <2>3. row[k] # NoReport => row[k] \in applied
      BY <2>1 DEF RowAt
    <2>4. row'[k] = row[k] \/ \A c \in claims[w] : Key[c] # k
      BY <1>5
    <2> QED BY <2>1, <2>2, <2>3, <2>4, DraftKept
  <1> QED BY <1>3, <1>5, <1>6, <1>7

\* A report is upserted by gRPC.
LEMMA SyncStep ==
    ASSUME ProgressInv, NEW e \in Reports, UpsertEpisodeProgress(e)
    PROVE  ProgressInv'
  <1>1. StreamTypes /\ WorkerTypes
    BY ProgressTypes DEF ProgressInv
  <1>2. PICK t \in TsOf(e) : /\ ts' = [ts EXCEPT ![e] = t]
                             /\ row' = [row EXCEPT ![Key[e]] = Upsert(@, e, t)]
    BY DEF UpsertEpisodeProgress
  <1>3. t \in 1 .. MaxTs
    BY <1>2, ProgressAssumption DEF TsOf, ProgressAssumption
  <1>4. e \notin published \cup applied
    BY DEF UpsertEpisodeProgress, ProgressInv, Sent
  <1>5. /\ ts'[e] = t /\ ts' \in [Reports -> 0 .. MaxTs]
        /\ \A x \in published \cup applied : ts'[x] = ts[x]
    <2>1. t \in 0 .. MaxTs
      BY <1>3, ProgressAssumption DEF ProgressAssumption
    <2> QED BY <1>1, <1>2, <1>4, <2>1 DEF StreamTypes
  <1>6. /\ applied' = applied \cup {e}
        /\ UNCHANGED <<streamVars, migrated, processed, workerVars, faults>>
        /\ \A v \in Workers : \A c \in claims[v] : Key[c] # Key[e]
    BY DEF UpsertEpisodeProgress, Blocks
  <1>7. /\ row' \in [RowKeys -> Reports \cup {NoReport}]
        /\ Sent' /\ Exclusive' /\ Drafted' /\ \A k \in RowKeys : RowAt(k)'
    BY <1>2, <1>3, <1>5, <1>6, RowWritten DEF streamVars, workerVars
  <1>8. StreamTypes' /\ WorkerTypes'
    BY <1>1, <1>5, <1>6, <1>7 DEF StreamTypes, WorkerTypes, streamVars, workerVars
  <1>9. ProgressTypeOK'
    BY <1>8 DEF StreamTypes, WorkerTypes, ProgressTypeOK
  <1>10. \A w \in Workers : HeldAt(w)'
    BY <1>6, HeldKept DEF ProgressInv, workerVars, streamVars
  <1>11. processed' \subseteq applied' /\ acked' \subseteq applied'
    BY <1>6 DEF ProgressInv, streamVars
  <1> QED BY <1>7, <1>9, <1>10, <1>11 DEF ProgressInv

-----------------------------------------------------------------------------
(* The workers.                                                            *)

\* Of what the workers have failed at, only w's changes,
FailedAt(w) ==
    failed' \in [Workers -> BOOLEAN] /\ \A v \in Workers : v # w => failed'[v] = failed[v]

\* and of the open transactions.
TransactionAt(w) ==
    /\ claims' \in [Workers -> SUBSET published]
    /\ draft' \in [Workers -> [RowKeys -> Reports \cup {NoReport}]]
    /\ \A v \in Workers : v # w => claims'[v] = claims[v] /\ draft'[v] = draft[v]

\* One worker's control point, locals and transaction change.
LEMMA WorkerSet ==
    ASSUME WorkerTypes, NEW w \in Workers,
           NEW p \in Controls,
           NEW b \in Batches, NEW t \in Batches,
           pc' = [pc EXCEPT ![w] = p], batch' = [batch EXCEPT ![w] = b],
           todo' = [todo EXCEPT ![w] = t], FailedAt(w), TransactionAt(w), UNCHANGED published
    PROVE  /\ WorkerTypes'
           /\ pc'[w] = p /\ batch'[w] = b /\ todo'[w] = t
           /\ \A v \in Workers : v # w =>
                /\ pc'[v] = pc[v] /\ batch'[v] = batch[v] /\ todo'[v] = todo[v]
                /\ failed'[v] = failed[v] /\ claims'[v] = claims[v] /\ draft'[v] = draft[v]
  <1>1. /\ pc' \in [Workers -> {"idle", "begin", "run", "wait", "fallback", "ack"}]
        /\ batch' \in [Workers -> Batches] /\ todo' \in [Workers -> Batches]
    BY DEF WorkerTypes, Controls
  <1>2. WorkerTypes'
    BY <1>1 DEF WorkerTypes, FailedAt, TransactionAt
  <1>3. pc'[w] = p /\ batch'[w] = b /\ todo'[w] = t
    BY DEF WorkerTypes
  <1>4. \A v \in Workers : v # w =>
          /\ pc'[v] = pc[v] /\ batch'[v] = batch[v] /\ todo'[v] = todo[v]
          /\ failed'[v] = failed[v] /\ claims'[v] = claims[v] /\ draft'[v] = draft[v]
    BY DEF WorkerTypes, FailedAt, TransactionAt
  <1> QED BY <1>2, <1>3, <1>4

\* A transaction ends.
LEMMA TransactionEnds ==
    ASSUME WorkerTypes, NEW w \in Workers,
           claims' = [claims EXCEPT ![w] = {}], draft' = [draft EXCEPT ![w] = NoDraft]
    PROVE  TransactionAt(w) /\ claims'[w] = {} /\ draft'[w] = NoDraft
  BY DEF TransactionAt, WorkerTypes, NoDraft

\* A worker gives its batch up or has done it: nothing of it is left.
LEMMA WorkerReset ==
    ASSUME ProgressInv, NEW w \in Workers, Reset(w), StreamTypes',
           UNCHANGED <<ts, published, migrated, processed, row, applied>>,
           acked' \subseteq applied
    PROVE  ProgressInv'
  <1>1. WorkerTypes
    BY ProgressTypes DEF ProgressInv
  <1>2. /\ pc' = [pc EXCEPT ![w] = "idle"] /\ batch' = [batch EXCEPT ![w] = <<>>]
        /\ todo' = [todo EXCEPT ![w] = <<>>] /\ failed' = [failed EXCEPT ![w] = FALSE]
        /\ claims' = [claims EXCEPT ![w] = {}] /\ draft' = [draft EXCEPT ![w] = NoDraft]
    BY DEF Reset, Goto
  <1>3. FailedAt(w)
    BY <1>1, <1>2, Zenon DEF FailedAt, WorkerTypes
  <1>4. TransactionAt(w) /\ claims'[w] = {} /\ draft'[w] = NoDraft
    BY <1>1, <1>2, TransactionEnds
  <1>5. /\ WorkerTypes'
        /\ pc'[w] = "idle" /\ batch'[w] = <<>> /\ todo'[w] = <<>>
        /\ \A v \in Workers : v # w =>
             /\ pc'[v] = pc[v] /\ batch'[v] = batch[v] /\ todo'[v] = todo[v]
             /\ failed'[v] = failed[v] /\ claims'[v] = claims[v] /\ draft'[v] = draft[v]
    BY <1>1, <1>2, <1>3, <1>4, NoBatch, WorkerSet DEF Controls
  <1>6. HeldAt(w)'
    BY <1>4, <1>5, NoBatch DEF HeldAt, Members
  <1>7. \A k \in RowKeys : DraftAt(w, k)'
    BY <1>4 DEF DraftAt, NoDraft
  <1> QED BY <1>4, <1>5, <1>6, <1>7, WorkerMoves

\* A worker moves on within its batch, its transaction as it is or rolled back.
LEMMA WorkerGoes ==
    ASSUME ProgressInv, NEW w \in Workers,
           NEW p \in Controls,
           NEW b \in Batches, NEW t \in Batches,
           pc' = [pc EXCEPT ![w] = p], batch' = [batch EXCEPT ![w] = b],
           todo' = [todo EXCEPT ![w] = t], FailedAt(w),
           \/ UNCHANGED <<claims, draft>> /\ p \in {"run", "wait"} /\ migrated
           \/ claims' = [claims EXCEPT ![w] = {}] /\ draft' = [draft EXCEPT ![w] = NoDraft],
           UNCHANGED <<ts, published, acked, dbVars>>, StreamTypes',
           Members(b) \subseteq published, Members(t) \subseteq published,
           p \in {"wait", "fallback"} => t # <<>>,
           p \in {"run", "wait", "fallback"} /\ ~failed'[w] =>
               Members(b) \subseteq Members(t) \cup claims'[w] \cup applied,
           p # "ack"
    PROVE  ProgressInv'
  <1>1. WorkerTypes
    BY ProgressTypes DEF ProgressInv
  <1>2. /\ TransactionAt(w)
        /\ \/ claims'[w] = claims[w] /\ draft'[w] = draft[w] /\ p \in {"run", "wait"} /\ migrated
           \/ claims'[w] = {} /\ draft'[w] = NoDraft
    <2>1. CASE UNCHANGED <<claims, draft>> /\ p \in {"run", "wait"} /\ migrated
      BY <1>1, <2>1 DEF WorkerTypes, TransactionAt
    <2>2. CASE claims' = [claims EXCEPT ![w] = {}] /\ draft' = [draft EXCEPT ![w] = NoDraft]
      BY <1>1, <2>2, TransactionEnds
    <2> QED BY <2>1, <2>2
  <1>3. /\ WorkerTypes'
        /\ pc'[w] = p /\ batch'[w] = b /\ todo'[w] = t
        /\ \A v \in Workers : v # w =>
             /\ pc'[v] = pc[v] /\ batch'[v] = batch[v] /\ todo'[v] = todo[v]
             /\ failed'[v] = failed[v] /\ claims'[v] = claims[v] /\ draft'[v] = draft[v]
    BY <1>1, <1>2, WorkerSet
  <1>4. UNCHANGED <<ts, published, migrated, processed, row, applied, acked>>
    BY DEF dbVars
  <1>5. HeldAt(w)'
    BY <1>2, <1>3, <1>4 DEF HeldAt, Members
  <1>6. ASSUME NEW k \in RowKeys PROVE DraftAt(w, k)'
    <2>1. DraftAt(w, k)
      BY DEF ProgressInv, Drafted
    <2>2. CASE claims'[w] = claims[w] /\ draft'[w] = draft[w]
      BY <1>3, <1>4, <2>1, <2>2 DEF DraftAt
    <2>3. CASE claims'[w] = {} /\ draft'[w] = NoDraft
      BY <1>3, <2>3 DEF DraftAt, NoDraft
    <2> QED BY <1>2, <2>2, <2>3
  <1>7. \A v \in Workers : v # w => \A x \in claims'[w], y \in claims[v] : Key[x] # Key[y]
    BY <1>2, <1>3 DEF ProgressInv, Exclusive
  <1>8. acked' \subseteq applied
    BY <1>4 DEF ProgressInv
  <1> QED BY <1>3, <1>4, <1>5, <1>6, <1>7, <1>8, WorkerMoves

\* A failing statement keeps the bound on faults.
LEMMA FaultBound == ASSUME StreamTypes, Fault PROVE faults' \in 0 .. MaxFaults
  BY ProgressAssumption DEF ProgressAssumption, StreamTypes, Fault

\* The steps that end a batch without applying anything.
LEMMA EndStep ==
    ASSUME ProgressInv, NEW w \in Workers,
           BeginError(w) \/ Rollback(w) \/ Ack(w) \/ Crash(w)
    PROVE  ProgressInv'
  <1>1. StreamTypes /\ WorkerTypes /\ HeldAt(w) /\ acked \subseteq applied
    BY ProgressTypes DEF ProgressInv
  <1>2. Reset(w) /\ UNCHANGED <<ts, published, dbVars>>
    BY DEF BeginError, Rollback, Ack, Crash, streamVars
  <1>3. faults' \in 0 .. MaxFaults
    BY <1>1, FaultBound DEF BeginError, Rollback, Ack, Crash, StreamTypes
  <1>4. Members(batch[w]) \subseteq published
    BY <1>1 DEF HeldAt
  <1>5. ready' \subseteq published /\ acked' \subseteq published /\ acked' \subseteq applied
    <2>1. CASE BeginError(w) \/ Rollback(w)
      BY <1>1, <1>4, <2>1 DEF BeginError, Rollback, NakAll, StreamTypes
    <2>2. CASE Crash(w)
      BY <1>1, <2>2 DEF Crash, streamVars, StreamTypes
    <2>3. CASE Ack(w)
      <3>1. Members(batch[w]) \subseteq applied
        BY <1>1, <2>3 DEF Ack, HeldAt
      <3> QED BY <1>1, <1>4, <2>3, <3>1 DEF Ack, AckAll, StreamTypes
    <2> QED BY <2>1, <2>2, <2>3
  <1>6. StreamTypes'
    BY <1>1, <1>2, <1>3, <1>5 DEF StreamTypes, dbVars
  <1> QED BY <1>2, <1>5, <1>6, WorkerReset DEF dbVars

\* A transaction that has claimed nothing has written nothing.
LEMMA NoClaims ==
    ASSUME ProgressInv, NEW w \in Workers, claims[w] = {}, UNCHANGED <<claims, draft>>
    PROVE  claims' = [claims EXCEPT ![w] = {}] /\ draft' = [draft EXCEPT ![w] = NoDraft]
  <1>1. WorkerTypes
    BY ProgressTypes DEF ProgressInv
  <1>2. \A k \in RowKeys : draft[w][k] = NoReport
    BY DEF ProgressInv, Drafted, DraftAt
  <1>3. draft[w] = NoDraft
    BY <1>1, <1>2 DEF WorkerTypes, NoDraft
  <1> QED BY <1>1, <1>3 DEF WorkerTypes

\* The steps that take a batch and begin its transaction.
LEMMA BeginStep ==
    ASSUME ProgressInv, NEW w \in Workers, Fetch(w) \/ Begin(w)
    PROVE  ProgressInv'
  <1>1. StreamTypes /\ WorkerTypes /\ HeldAt(w)
    BY ProgressTypes DEF ProgressInv
  <1>2. batch[w] \in Batches /\ todo[w] \in Batches
    BY <1>1 DEF WorkerTypes
  <1>3. /\ UNCHANGED <<ts, published, acked, dbVars, failed, claims, draft, faults>>
        /\ claims[w] = {}
    BY <1>1 DEF Fetch, Begin, streamVars, HeldAt
  <1>5. claims' = [claims EXCEPT ![w] = {}] /\ draft' = [draft EXCEPT ![w] = NoDraft]
    BY <1>3, NoClaims
  <1>6. FailedAt(w)
    BY <1>1, <1>3 DEF WorkerTypes, FailedAt
  <1>7. CASE Fetch(w)
    <2>1. PICK b \in Batches : /\ Members(b) \subseteq ready
                               /\ batch' = [batch EXCEPT ![w] = b]
                               /\ ready' = ready \ Members(b)
      BY <1>7 DEF Fetch
    <2>2. pc' = [pc EXCEPT ![w] = "begin"] /\ todo' = [todo EXCEPT ![w] = todo[w]]
      BY <1>1, <1>7 DEF Fetch, Goto, WorkerTypes
    <2>3. Members(b) \subseteq published /\ Members(todo[w]) \subseteq published
      BY <1>1, <2>1 DEF StreamTypes, HeldAt
    <2>4. StreamTypes'
      BY <1>1, <1>3, <2>1 DEF StreamTypes, dbVars
    <2> QED BY <1>2, <1>3, <1>5, <1>6, <2>1, <2>2, <2>3, <2>4, WorkerGoes DEF Controls
  <1>8. CASE Begin(w)
    <2>1. /\ pc' = [pc EXCEPT ![w] = "run"] /\ todo' = [todo EXCEPT ![w] = batch[w]]
          /\ batch' = [batch EXCEPT ![w] = batch[w]]
      BY <1>1, <1>8 DEF Begin, Goto, WorkerTypes
    <2>2. Members(batch[w]) \subseteq published
      BY <1>1 DEF HeldAt
    <2>3. StreamTypes'
      BY <1>1, <1>3, <1>8 DEF StreamTypes, dbVars, Begin, streamVars
    <2> QED BY <1>2, <1>3, <1>5, <1>6, <2>1, <2>2, <2>3, WorkerGoes DEF Controls
  <1> QED BY <1>7, <1>8

\* A worker waits, loses its transaction, or finds no table.
LEMMA WaitStep ==
    ASSUME ProgressInv, NEW w \in Workers,
           Wait(w) \/ StatementError(w) \/ NoTable(w)
    PROVE  ProgressInv'
  <1>1. StreamTypes /\ WorkerTypes /\ HeldAt(w)
    BY ProgressTypes DEF ProgressInv
  <1>2. batch[w] \in Batches /\ todo[w] \in Batches
    BY <1>1 DEF WorkerTypes
  <1>3. /\ UNCHANGED <<ts, streamVars, dbVars, batch>>
        /\ Members(batch[w]) \subseteq published /\ Members(todo[w]) \subseteq published
        /\ batch' = [batch EXCEPT ![w] = batch[w]]
    BY <1>1 DEF Wait, StatementError, NoTable, HeldAt, WorkerTypes
  <1>4. faults' \in 0 .. MaxFaults
    BY <1>1, FaultBound DEF Wait, StatementError, NoTable, StreamTypes
  <1>5. StreamTypes'
    BY <1>1, <1>3, <1>4 DEF StreamTypes, streamVars, dbVars
  <1>6. CASE Wait(w)
    <2>1. /\ pc' = [pc EXCEPT ![w] = "wait"] /\ todo' = [todo EXCEPT ![w] = todo[w]]
          /\ UNCHANGED <<claims, draft>> /\ migrated /\ todo[w] # <<>> /\ pc[w] = "run"
      BY <1>1, <1>6 DEF Wait, Goto, WorkerTypes
    <2>2. FailedAt(w) /\ failed' = failed
      BY <1>1, <1>6 DEF Wait, WorkerTypes, FailedAt
    <2>3. ~failed'[w] =>
            Members(batch[w]) \subseteq Members(todo[w]) \cup claims'[w] \cup applied
      BY <1>1, <2>1, <2>2 DEF HeldAt
    <2> QED BY <1>2, <1>3, <1>5, <2>1, <2>2, <2>3, WorkerGoes DEF streamVars, Controls
  <1>7. CASE StatementError(w)
    <2>1. /\ pc' = [pc EXCEPT ![w] = "run"] /\ todo' = [todo EXCEPT ![w] = <<>>]
          /\ failed' = [failed EXCEPT ![w] = TRUE]
          /\ claims' = [claims EXCEPT ![w] = {}] /\ draft' = [draft EXCEPT ![w] = NoDraft]
      BY <1>7 DEF StatementError, Goto
    <2>2. <<>> \in Batches /\ Members(<<>>) \subseteq published
      BY NoBatch
    <2>3. FailedAt(w) /\ failed'[w]
      BY <1>1, <2>1, Zenon DEF WorkerTypes, FailedAt
    <2> QED BY <1>2, <1>3, <1>5, <2>1, <2>2, <2>3, WorkerGoes DEF streamVars, Controls
  <1>8. CASE NoTable(w)
    <2>1. /\ pc' = [pc EXCEPT ![w] = "fallback"] /\ todo' = [todo EXCEPT ![w] = todo[w]]
          /\ claims' = [claims EXCEPT ![w] = {}] /\ draft' = [draft EXCEPT ![w] = NoDraft]
          /\ ~migrated /\ todo[w] # <<>> /\ pc[w] \in {"run", "wait"}
      BY <1>1, <1>8 DEF NoTable, Working, Goto, WorkerTypes
    <2>2. FailedAt(w) /\ failed' = failed
      BY <1>1, <1>8 DEF NoTable, WorkerTypes, FailedAt
    <2>3. claims'[w] = {} /\ claims[w] = {}
      BY <1>1, <2>1 DEF HeldAt, WorkerTypes
    <2>4. ~failed'[w] =>
            Members(batch[w]) \subseteq Members(todo[w]) \cup claims'[w] \cup applied
      BY <1>1, <2>1, <2>2, <2>3 DEF HeldAt
    <2> QED BY <1>2, <1>3, <1>5, <2>1, <2>2, <2>4, WorkerGoes DEF streamVars, Controls
  <1> QED BY <1>6, <1>7, <1>8

\* The row a transaction goes on from: the newest of what it knows of.
LEMMA DraftUpsert ==
    ASSUME ProgressInv, NEW w \in Workers, NEW e \in published, NEW k, k = Key[e],
           claims'[w] = claims[w] \cup {e}, UNCHANGED <<ts, row, applied>>,
           draft'[w][k] =
               Upsert(IF draft[w][k] # NoReport THEN draft[w][k] ELSE row[k], e, ts[e])
    PROVE  DraftAt(w, k)' /\ draft'[w][k] \in Reports
  <1>1. StreamTypes /\ WorkerTypes
    BY ProgressTypes DEF ProgressInv
  <1>2. e \in Reports /\ k \in RowKeys /\ NoReport \notin Reports
    BY <1>1, ProgressAssumption DEF StreamTypes, ProgressAssumption
  <1>3. DraftAt(w, k) /\ RowAt(k)
    BY <1>2 DEF ProgressInv, Drafted
  <1>4. PICK r : r = IF draft[w][k] # NoReport THEN draft[w][k] ELSE row[k]
    OBVIOUS
  <1>5. r = NoReport => row[k] = NoReport /\ \A c \in claims[w] : Key[c] # k
    BY <1>3, <1>4 DEF DraftAt
  <1>6. r # NoReport =>
          /\ r \in claims[w] \cup applied /\ Key[r] = k
          /\ \A c \in claims[w] : Key[c] = k => ts[c] <= ts[r]
          /\ row[k] # NoReport => ts[row[k]] <= ts[r]
    <2>1. CASE draft[w][k] # NoReport
      BY <1>3, <1>4, <2>1 DEF DraftAt
    <2>2. CASE draft[w][k] = NoReport /\ row[k] # NoReport
      <3>1. r = row[k] /\ r \in applied /\ Key[r] = k /\ \A c \in claims[w] : Key[c] # k
        BY <1>3, <1>4, <2>2 DEF DraftAt, RowAt
      <3>2. ts[r] <= ts[r]
        BY <1>1, <3>1 DEF StreamTypes
      <3> QED BY <3>1, <3>2
    <2>3. CASE draft[w][k] = NoReport /\ row[k] = NoReport
      BY <1>4, <2>3
    <2> QED BY <2>1, <2>2, <2>3
  <1>7. claims[w] \cup applied \subseteq Reports
    BY <1>1 DEF StreamTypes, WorkerTypes
  <1>8. \A x \in Reports : ts[x] \in Int
    BY <1>1, ProgressAssumption DEF StreamTypes, ProgressAssumption
  <1>9. row[k] # NoReport => row[k] \in Reports
    BY <1>1, <1>2 DEF StreamTypes
  <1>10. CASE r = NoReport \/ ts[r] <= ts[e]
    <2>1. draft'[w][k] = e
      BY <1>4, <1>10 DEF Upsert, Newer
    <2>2. \A c \in claims[w] \cup {e} : Key[c] = k => ts[c] <= ts[e]
      BY <1>2, <1>5, <1>6, <1>7, <1>8, <1>10
    <2>3. row[k] # NoReport => ts[row[k]] <= ts[e]
      BY <1>2, <1>5, <1>6, <1>7, <1>8, <1>9, <1>10
    <2> QED BY <1>2, <2>1, <2>2, <2>3 DEF DraftAt
  <1>11. CASE ~(r = NoReport \/ ts[r] <= ts[e])
    <2>1. draft'[w][k] = r
      BY <1>4, <1>11 DEF Upsert, Newer
    <2>2. r \in Reports
      BY <1>6, <1>7, <1>11
    <2>3. ts[e] <= ts[r]
      BY <1>2, <1>8, <1>11, <2>2
    <2> QED BY <1>2, <1>6, <1>11, <2>1, <2>2, <2>3 DEF DraftAt
  <1> QED BY <1>10, <1>11

\* A report is applied within the transaction of its batch, or was already.
LEMMA ApplyStep ==
    ASSUME ProgressInv, NEW w \in Workers, Apply(w)
    PROVE  ProgressInv'
  <1>1. StreamTypes /\ WorkerTypes /\ HeldAt(w) /\ processed \subseteq applied
    BY ProgressTypes DEF ProgressInv
  <1>2. PICK e : e = Head(todo[w])
    OBVIOUS
  <1>3. /\ pc[w] \in {"run", "wait"} /\ todo[w] # <<>> /\ migrated /\ Free(w, e)
        /\ todo' = [todo EXCEPT ![w] = Tail(todo[w])] /\ pc' = [pc EXCEPT ![w] = "run"]
        /\ UNCHANGED <<ts, streamVars, dbVars, batch, failed, faults>>
    BY <1>2 DEF Apply, Working, Advance, Goto
  <1>4. batch[w] \in Batches /\ todo[w] \in Batches
    BY <1>1 DEF WorkerTypes
  <1>5. /\ e \in Members(todo[w]) /\ Tail(todo[w]) \in Batches
        /\ Members(todo[w]) = {e} \cup Members(Tail(todo[w]))
    BY <1>2, <1>3, <1>4, BatchHead
  <1>6. /\ Members(batch[w]) \subseteq published /\ Members(Tail(todo[w])) \subseteq published
        /\ e \in published
    BY <1>1, <1>5 DEF HeldAt
  <1>7. FailedAt(w) /\ batch' = [batch EXCEPT ![w] = batch[w]]
    BY <1>1, <1>3 DEF WorkerTypes, FailedAt
  <1>8. StreamTypes'
    BY <1>1, <1>3 DEF StreamTypes, streamVars, dbVars
  <1>9. ~failed[w] => Members(batch[w]) \subseteq Members(todo[w]) \cup claims[w] \cup applied
    BY <1>1, <1>3 DEF HeldAt
  <1>10. CASE e \in processed
    <2>1. UNCHANGED <<claims, draft>>
      BY <1>2, <1>10 DEF Apply
    <2>2. ~failed'[w] =>
            Members(batch[w]) \subseteq Members(Tail(todo[w])) \cup claims'[w] \cup applied
      BY <1>1, <1>3, <1>5, <1>9, <1>10, <2>1
    <2> QED BY <1>3, <1>4, <1>5, <1>6, <1>7, <1>8, <2>1, <2>2, WorkerGoes DEF streamVars, Controls
  <1>11. CASE e \notin processed
    <2> DEFINE k == Key[e]
               r == IF draft[w][k] # NoReport THEN draft[w][k] ELSE row[k]
    <2>1. /\ claims' = [claims EXCEPT ![w] = claims[w] \cup {e}]
          /\ draft' = [draft EXCEPT ![w][k] = Upsert(r, e, ts[e])]
      BY <1>2, <1>11 DEF Apply
    <2>2. k \in RowKeys
      BY <1>1, <1>6, ProgressAssumption DEF StreamTypes, ProgressAssumption
    <2> HIDE DEF k, r
    <2>3. /\ claims'[w] = claims[w] \cup {e} /\ claims' \in [Workers -> SUBSET published]
          /\ \A v \in Workers : v # w => claims'[v] = claims[v]
      BY <1>1, <1>6, <2>1 DEF WorkerTypes
    <2>4. /\ draft'[w][k] = Upsert(r, e, ts[e])
          /\ \A j \in RowKeys : j # k => draft'[w][j] = draft[w][j]
          /\ \A v \in Workers : v # w => draft'[v] = draft[v]
      BY <1>1, <2>1, <2>2 DEF WorkerTypes
    <2>5. UNCHANGED <<ts, published, migrated, processed, row, applied, acked>>
      BY <1>3 DEF streamVars, dbVars
    <2>6. DraftAt(w, k)' /\ draft'[w][k] \in Reports
      BY <1>6, <2>3, <2>4, <2>5, DraftUpsert DEF k, r
    <2>7. draft' \in [Workers -> [RowKeys -> Reports \cup {NoReport}]]
      <3>1. Upsert(r, e, ts[e]) \in Reports \cup {NoReport}
        BY <2>4, <2>6
      <3> QED BY <1>1, <2>1, <2>2, <3>1 DEF WorkerTypes
    <2>8. TransactionAt(w)
      BY <2>3, <2>4, <2>7 DEF TransactionAt
    <2>9. /\ WorkerTypes'
          /\ pc'[w] = "run" /\ batch'[w] = batch[w] /\ todo'[w] = Tail(todo[w])
          /\ \A v \in Workers : v # w =>
               /\ pc'[v] = pc[v] /\ batch'[v] = batch[v] /\ todo'[v] = todo[v]
               /\ failed'[v] = failed[v] /\ claims'[v] = claims[v] /\ draft'[v] = draft[v]
      BY <1>1, <1>3, <1>4, <1>5, <1>7, <2>5, <2>8, WorkerSet DEF Controls
    <2>10. HeldAt(w)'
      <3>1. ~failed[w] =>
              Members(batch[w]) \subseteq Members(Tail(todo[w])) \cup claims'[w] \cup applied
        BY <1>5, <1>9, <2>3
      <3>2. failed'[w] = failed[w] /\ migrated'
        BY <1>3, <2>5
      <3> QED BY <1>6, <2>5, <2>9, <3>1, <3>2 DEF HeldAt
    <2>11. ASSUME NEW j \in RowKeys PROVE DraftAt(w, j)'
      <3>1. CASE j = k
        BY <2>6, <3>1
      <3>2. CASE j # k
        <4>1. DraftAt(w, j)
          BY DEF ProgressInv, Drafted
        <4> QED BY <2>3, <2>4, <2>5, <3>2, <4>1 DEF DraftAt, k
      <3> QED BY <3>1, <3>2
    <2>12. ASSUME NEW v \in Workers, v # w, NEW x \in claims'[w], NEW y \in claims[v]
           PROVE  Key[x] # Key[y]
      <3>1. CASE x \in claims[w]
        BY <2>12, <3>1 DEF ProgressInv, Exclusive
      <3>2. CASE x = e
        BY <1>3, <2>12, <3>2 DEF Free, Blocks
      <3> QED BY <2>3, <3>1, <3>2
    <2>13. acked' \subseteq applied
      BY <2>5 DEF ProgressInv
    <2> QED BY <1>8, <2>5, <2>9, <2>10, <2>11, <2>12, <2>13, WorkerMoves
  <1> QED BY <1>10, <1>11

\* One worker applies reports to rows.
LEMMA RowsMove ==
    ASSUME ProgressInv, NEW w \in Workers, StreamTypes', WorkerTypes',
           Sent', Exclusive', Drafted', \A k \in RowKeys : RowAt(k)',
           processed' \subseteq applied', acked' \subseteq applied',
           UNCHANGED <<published, migrated>>, applied \subseteq applied', HeldAt(w)',
           \A v \in Workers : v # w =>
                /\ pc'[v] = pc[v] /\ batch'[v] = batch[v] /\ todo'[v] = todo[v]
                /\ failed'[v] = failed[v] /\ claims'[v] = claims[v] /\ draft'[v] = draft[v]
    PROVE  ProgressInv'
  <1>1. ProgressTypeOK'
    BY DEF StreamTypes, WorkerTypes, ProgressTypeOK
  <1>2. \A v \in Workers : HeldAt(v)'
    BY HeldKept DEF ProgressInv
  <1> QED BY <1>1, <1>2 DEF ProgressInv

\* A report is applied in a transaction of its own, before the table exists.
LEMMA FallbackStep ==
    ASSUME ProgressInv, NEW w \in Workers, Fallback(w) \/ FallbackError(w)
    PROVE  ProgressInv'
  <1>1. /\ StreamTypes /\ WorkerTypes /\ HeldAt(w) /\ Sent
        /\ processed \subseteq applied /\ acked \subseteq applied
    BY ProgressTypes DEF ProgressInv
  <1>2. PICK e : e = Head(todo[w])
    OBVIOUS
  <1>3. /\ pc[w] = "fallback" /\ todo[w] # <<>> /\ claims[w] = {}
        /\ todo' = [todo EXCEPT ![w] = Tail(todo[w])] /\ pc' = [pc EXCEPT ![w] = "run"]
        /\ UNCHANGED <<ts, published, migrated, processed, batch, claims, draft>>
    BY <1>1 DEF Fallback, FallbackError, Advance, Goto, HeldAt, streamVars
  <1>4. batch[w] \in Batches /\ todo[w] \in Batches
    BY <1>1 DEF WorkerTypes
  <1>5. /\ e \in Members(todo[w]) /\ Tail(todo[w]) \in Batches
        /\ Members(todo[w]) = {e} \cup Members(Tail(todo[w]))
    BY <1>2, <1>3, <1>4, BatchHead
  <1>6. /\ Members(batch[w]) \subseteq published /\ Members(Tail(todo[w])) \subseteq published
        /\ e \in published /\ e \in Reports
    BY <1>1, <1>5 DEF HeldAt, StreamTypes
  <1>7. FailedAt(w) /\ (~failed'[w] => ~failed[w])
    <2>1. CASE Fallback(w)
      BY <1>1, <2>1 DEF Fallback, WorkerTypes, FailedAt
    <2>2. CASE FallbackError(w)
      <3>1. failed' = [failed EXCEPT ![w] = TRUE]
        BY <2>2 DEF FallbackError
      <3> QED BY <1>1, <3>1, Zenon DEF WorkerTypes, FailedAt
    <2> QED BY <2>1, <2>2
  <1>8. batch' = [batch EXCEPT ![w] = batch[w]]
    BY <1>1, <1>3 DEF WorkerTypes
  <1>9. /\ claims' = [claims EXCEPT ![w] = {}] /\ draft' = [draft EXCEPT ![w] = NoDraft]
    BY <1>3, NoClaims
  <1>10. TransactionAt(w) /\ claims'[w] = {} /\ draft'[w] = NoDraft
    BY <1>1, <1>9, TransactionEnds
  <1>11. /\ WorkerTypes'
         /\ pc'[w] = "run" /\ batch'[w] = batch[w] /\ todo'[w] = Tail(todo[w])
         /\ \A v \in Workers : v # w =>
              /\ pc'[v] = pc[v] /\ batch'[v] = batch[v] /\ todo'[v] = todo[v]
              /\ failed'[v] = failed[v] /\ claims'[v] = claims[v] /\ draft'[v] = draft[v]
    BY <1>1, <1>3, <1>4, <1>5, <1>7, <1>8, <1>10, WorkerSet DEF Controls
  <1>12. ~failed[w] => Members(batch[w]) \subseteq Members(todo[w]) \cup applied
    BY <1>1, <1>3 DEF HeldAt
  <1>13. faults' \in 0 .. MaxFaults
    BY <1>1, FaultBound DEF Fallback, FallbackError, StreamTypes
  <1>14. CASE FallbackError(w) /\ UNCHANGED <<row, applied>>
    <2>1. UNCHANGED <<ts, published, acked, dbVars>> /\ StreamTypes'
      BY <1>1, <1>3, <1>13, <1>14 DEF FallbackError, streamVars, dbVars, StreamTypes
    <2>2. failed'[w]
      BY <1>1, <1>14, Zenon DEF FallbackError, WorkerTypes
    <2> QED BY <1>3, <1>4, <1>5, <1>6, <1>7, <1>8, <1>9, <2>1, <2>2, WorkerGoes DEF Controls
  <1>15. CASE /\ Free(w, e) /\ row' = [row EXCEPT ![Key[e]] = Upsert(@, e, ts[e])]
              /\ applied' = applied \cup {e}
    <2>1. ts[e] \in 1 .. MaxTs
      BY <1>1, <1>6, ProgressAssumption DEF StreamTypes, Sent, ProgressAssumption
    <2>2. \A v \in Workers : \A c \in claims[v] : Key[c] # Key[e]
      BY <1>3, <1>15 DEF Free, Blocks
    <2>3. /\ row' \in [RowKeys -> Reports \cup {NoReport}]
          /\ Sent' /\ Exclusive' /\ Drafted' /\ \A k \in RowKeys : RowAt(k)'
      BY <1>3, <1>6, <1>15, <2>1, <2>2, RowWritten
    <2>4. /\ acked' \subseteq acked \cup {e} /\ ready' \subseteq ready
      BY <1>2 DEF Fallback, FallbackError, streamVars
    <2>5. StreamTypes'
      BY <1>1, <1>3, <1>6, <1>13, <1>15, <2>3, <2>4 DEF StreamTypes
    <2>6. HeldAt(w)'
      <3>1. ~failed'[w] =>
              Members(batch[w]) \subseteq Members(Tail(todo[w])) \cup claims'[w] \cup applied'
        BY <1>5, <1>7, <1>12, <1>15
      <3> QED BY <1>3, <1>6, <1>10, <1>11, <3>1 DEF HeldAt
    <2>7. processed' \subseteq applied' /\ acked' \subseteq applied' /\ applied \subseteq applied'
      BY <1>1, <1>3, <1>15, <2>4
    <2> QED BY <1>3, <1>11, <2>3, <2>5, <2>6, <2>7, RowsMove
  <1> QED BY <1>2, <1>14, <1>15 DEF Fallback, FallbackError

\* A COMMIT makes the newest rows visible.
LEMMA CommittedRows ==
    ASSUME ProgressInv, NEW w \in Workers, Committed(w),
           UNCHANGED <<ts, published>>, TransactionAt(w), claims'[w] = {}, draft'[w] = NoDraft
    PROVE  /\ row' \in [RowKeys -> Reports \cup {NoReport}]
           /\ processed' \subseteq applied' /\ applied \subseteq applied'
           /\ processed' \subseteq published /\ applied' \subseteq Reports
           /\ Sent' /\ Exclusive' /\ Drafted' /\ \A k \in RowKeys : RowAt(k)'
  <1>1. StreamTypes /\ WorkerTypes /\ processed \subseteq applied
    BY ProgressTypes DEF ProgressInv
  <1>2. /\ processed' = processed \cup claims[w] /\ applied' = applied \cup claims[w]
        /\ row' = [k \in RowKeys |-> IF draft[w][k] # NoReport THEN draft[w][k] ELSE row[k]]
        /\ claims[w] \subseteq published /\ claims[w] \subseteq Reports
    BY <1>1 DEF Committed, StreamTypes, WorkerTypes
  <1>3. row' \in [RowKeys -> Reports \cup {NoReport}]
    BY <1>1, <1>2 DEF StreamTypes, WorkerTypes
  <1>4. Sent' /\ Exclusive'
    <2>1. Sent'
      BY <1>2 DEF ProgressInv, Sent
    <2>2. Exclusive'
      BY DEF ProgressInv, Exclusive, TransactionAt
    <2> QED BY <2>1, <2>2
  <1>5. ASSUME NEW k \in RowKeys PROVE RowAt(k)'
    <2>1. DraftAt(w, k) /\ RowAt(k)
      BY DEF ProgressInv, Drafted
    <2>2. CASE draft[w][k] = NoReport
      <3>1. row'[k] = row[k] /\ \A c \in claims[w] : Key[c] # k
        BY <1>2, <2>1, <2>2 DEF DraftAt
      <3> QED BY <1>2, <2>1, <3>1, RowKept
    <2>3. CASE draft[w][k] # NoReport
      <3>1. PICK d : d = draft[w][k]
        OBVIOUS
      <3>2. /\ row'[k] = d /\ d # NoReport /\ d \in claims[w] \cup applied /\ Key[d] = k
            /\ \A c \in claims[w] : Key[c] = k => ts[c] <= ts[d]
            /\ row[k] # NoReport => ts[row[k]] <= ts[d]
        BY <1>2, <2>1, <2>3, <3>1 DEF DraftAt
      <3>3. \A x \in Reports : ts[x] \in Int
        BY <1>1, ProgressAssumption DEF StreamTypes, ProgressAssumption
      <3>4. claims[w] \cup applied \subseteq Reports
        BY <1>1, <1>2 DEF StreamTypes
      <3>5. \A e \in applied : Key[e] = k =>
               row[k] \in applied /\ ts[e] <= ts[row[k]] /\ row[k] # NoReport
        BY <2>1 DEF RowAt
      <3>6. \A e \in applied : Key[e] = k => ts[e] <= ts[d]
        BY <3>2, <3>3, <3>4, <3>5
      <3> QED BY <1>2, <3>2, <3>6 DEF RowAt
    <2> QED BY <2>2, <2>3
  <1>6. Drafted'
    <2> SUFFICES ASSUME NEW v \in Workers, NEW k \in RowKeys PROVE DraftAt(v, k)'
      BY DEF Drafted
    <2>1. CASE v = w
      BY <2>1 DEF DraftAt, NoDraft
    <2>2. CASE v # w
      <3>1. claims'[v] = claims[v] /\ draft'[v] = draft[v]
        BY <2>2 DEF TransactionAt
      <3>2. DraftAt(v, k) /\ DraftAt(w, k)
        BY DEF ProgressInv, Drafted
      <3>3. row'[k] = row[k] \/ \A c \in claims[v] : Key[c] # k
        <4>1. CASE draft[w][k] = NoReport
          BY <1>2, <4>1
        <4>2. CASE draft[w][k] # NoReport
          BY <2>2, <3>2, <4>2 DEF DraftAt, ProgressInv, Exclusive
        <4> QED BY <4>1, <4>2
      <3> QED BY <1>2, <3>1, <3>2, <3>3, DraftKept
    <2> QED BY <2>1, <2>2
  <1>7. /\ processed' \subseteq applied' /\ applied \subseteq applied'
        /\ processed' \subseteq published /\ applied' \subseteq Reports
    BY <1>1, <1>2 DEF StreamTypes
  <1> QED BY <1>3, <1>4, <1>5, <1>6, <1>7

\* The batch is committed.
LEMMA CommitStep ==
    ASSUME ProgressInv, NEW w \in Workers, Commit(w)
    PROVE  ProgressInv'
  <1>1. StreamTypes /\ WorkerTypes /\ HeldAt(w) /\ acked \subseteq applied
    BY ProgressTypes DEF ProgressInv
  <1>2. /\ pc[w] = "run" /\ todo[w] = <<>> /\ ~failed[w]
        /\ Committed(w) /\ pc' = [pc EXCEPT ![w] = "ack"]
        /\ claims' = [claims EXCEPT ![w] = {}] /\ draft' = [draft EXCEPT ![w] = NoDraft]
        /\ UNCHANGED <<ts, streamVars, migrated, batch, todo, failed, faults>>
    BY DEF Commit, EndOfBatch, Goto
  <1>3. TransactionAt(w) /\ claims'[w] = {} /\ draft'[w] = NoDraft
    BY <1>1, <1>2, TransactionEnds
  <1>4. UNCHANGED <<ts, published>>
    BY <1>2 DEF streamVars
  <1>5. /\ row' \in [RowKeys -> Reports \cup {NoReport}]
        /\ processed' \subseteq applied' /\ applied \subseteq applied'
        /\ processed' \subseteq published /\ applied' \subseteq Reports
        /\ Sent' /\ Exclusive' /\ Drafted' /\ \A k \in RowKeys : RowAt(k)'
    BY <1>2, <1>3, <1>4, CommittedRows
  <1>6. StreamTypes'
    BY <1>1, <1>2, <1>5 DEF StreamTypes, streamVars
  <1>7. /\ batch' = [batch EXCEPT ![w] = batch[w]] /\ todo' = [todo EXCEPT ![w] = todo[w]]
        /\ FailedAt(w) /\ batch[w] \in Batches /\ todo[w] \in Batches
    BY <1>1, <1>2 DEF WorkerTypes, FailedAt
  <1>8. /\ WorkerTypes'
        /\ pc'[w] = "ack" /\ batch'[w] = batch[w] /\ todo'[w] = todo[w]
        /\ \A v \in Workers : v # w =>
             /\ pc'[v] = pc[v] /\ batch'[v] = batch[v] /\ todo'[v] = todo[v]
             /\ failed'[v] = failed[v] /\ claims'[v] = claims[v] /\ draft'[v] = draft[v]
    <2>1. "ack" \in Controls
      BY DEF Controls
    <2>2. pc' = [pc EXCEPT ![w] = "ack"] /\ TransactionAt(w) /\ UNCHANGED published
      BY <1>2, <1>3, <1>4
    <2> QED BY <1>1, <1>7, <2>1, <2>2, WorkerSet
  <1>9. Members(batch[w]) \subseteq applied'
    <2>1. Members(batch[w]) \subseteq Members(todo[w]) \cup claims[w] \cup applied
      BY <1>1, <1>2 DEF HeldAt
    <2>2. Members(todo[w]) = {}
      BY <1>2, NoBatch
    <2>3. applied' = applied \cup claims[w]
      BY <1>2 DEF Committed
    <2> QED BY <2>1, <2>2, <2>3
  <1>10. Members(batch[w]) \subseteq published /\ Members(todo[w]) \subseteq published
    BY <1>1 DEF HeldAt
  <1>11. HeldAt(w)'
    BY <1>3, <1>4, <1>8, <1>9, <1>10 DEF HeldAt
  <1>12. acked' \subseteq applied'
    BY <1>1, <1>2, <1>5 DEF streamVars
  <1> QED BY <1>2, <1>4, <1>5, <1>6, <1>8, <1>11, <1>12, RowsMove

\* The COMMIT reports an error, whether it has happened or not.
LEMMA CommitErrorStep ==
    ASSUME ProgressInv, NEW w \in Workers, CommitError(w)
    PROVE  ProgressInv'
  <1>1. StreamTypes /\ WorkerTypes /\ HeldAt(w) /\ acked \subseteq applied
    BY ProgressTypes DEF ProgressInv
  <1>2. Reset(w) /\ UNCHANGED <<ts, published, migrated>> /\ Fault /\ NakAll(w)
    BY DEF CommitError
  <1>3. faults' \in 0 .. MaxFaults
    BY <1>1, <1>2, FaultBound
  <1>4. ready' \subseteq published /\ acked' = acked
    BY <1>1, <1>2 DEF NakAll, HeldAt, StreamTypes
  <1>5. CASE UNCHANGED <<processed, row, applied>>
    <2>1. StreamTypes'
      BY <1>1, <1>2, <1>3, <1>4, <1>5 DEF StreamTypes
    <2> QED BY <1>1, <1>2, <1>4, <1>5, <2>1, WorkerReset
  <1>6. CASE Committed(w)
    <2>1. /\ pc' = [pc EXCEPT ![w] = "idle"] /\ batch' = [batch EXCEPT ![w] = <<>>]
          /\ todo' = [todo EXCEPT ![w] = <<>>] /\ failed' = [failed EXCEPT ![w] = FALSE]
          /\ claims' = [claims EXCEPT ![w] = {}] /\ draft' = [draft EXCEPT ![w] = NoDraft]
      BY <1>2 DEF Reset, Goto
    <2>2. FailedAt(w)
      BY <1>1, <2>1, Zenon DEF FailedAt, WorkerTypes
    <2>3. TransactionAt(w) /\ claims'[w] = {} /\ draft'[w] = NoDraft
      BY <1>1, <2>1, TransactionEnds
    <2>4. /\ row' \in [RowKeys -> Reports \cup {NoReport}]
          /\ processed' \subseteq applied' /\ applied \subseteq applied'
          /\ processed' \subseteq published /\ applied' \subseteq Reports
          /\ Sent' /\ Exclusive' /\ Drafted' /\ \A k \in RowKeys : RowAt(k)'
      BY <1>2, <1>6, <2>3, CommittedRows
    <2>5. StreamTypes'
      BY <1>1, <1>2, <1>3, <1>4, <2>4 DEF StreamTypes
    <2>6. /\ WorkerTypes'
          /\ pc'[w] = "idle" /\ batch'[w] = <<>> /\ todo'[w] = <<>>
          /\ \A v \in Workers : v # w =>
               /\ pc'[v] = pc[v] /\ batch'[v] = batch[v] /\ todo'[v] = todo[v]
               /\ failed'[v] = failed[v] /\ claims'[v] = claims[v] /\ draft'[v] = draft[v]
      BY <1>1, <1>2, <2>1, <2>2, <2>3, NoBatch, WorkerSet DEF Controls
    <2>7. HeldAt(w)'
      BY <2>3, <2>6, NoBatch DEF HeldAt
    <2>8. acked' \subseteq applied'
      BY <1>1, <1>4, <2>4
    <2> QED BY <1>2, <2>4, <2>5, <2>6, <2>7, <2>8, RowsMove
  <1> QED BY <1>5, <1>6 DEF CommitError

-----------------------------------------------------------------------------
(* The invariant.                                                          *)

\* Nothing is sent and the workers are idle.
LEMMA ProgressInvInit ==
    ASSUME ProgressInit
    PROVE  ProgressInv
  <1>1. /\ ts = [e \in Reports |-> 0] /\ published = {} /\ ready = {} /\ acked = {}
        /\ processed = {} /\ row = NoDraft /\ applied = {} /\ faults = 0
        /\ migrated \in BOOLEAN
    BY DEF ProgressInit
  <1>2. StreamTypes
    <2>1. MaxTs \in Nat /\ MaxFaults \in Nat
      BY ProgressAssumption DEF ProgressAssumption
    <2>2. ts \in [Reports -> 0 .. MaxTs] /\ faults \in 0 .. MaxFaults
      BY <1>1, <2>1
    <2> QED BY <1>1, <2>2 DEF StreamTypes, NoDraft
  <1>3. WorkerTypes
    <2>1. failed \in [Workers -> BOOLEAN]
      BY DEF ProgressInit
    <2> QED BY <2>1, NoBatch DEF ProgressInit, WorkerTypes, NoDraft
  <1>4. \A w \in Workers : HeldAt(w)
    BY NoBatch DEF ProgressInit, HeldAt
  <1>5. Sent /\ Exclusive /\ processed \subseteq applied /\ acked \subseteq applied
    BY DEF ProgressInit, Sent, Exclusive
  <1>6. Drafted /\ \A k \in RowKeys : RowAt(k)
    BY DEF ProgressInit, Drafted, DraftAt, RowAt, NoDraft
  <1> QED BY <1>2, <1>3, <1>4, <1>5, <1>6, ProgressTypes DEF ProgressInv

\* Nothing changes.
LEMMA ProgressStutter ==
    ASSUME ProgressInv, UNCHANGED progressVars
    PROVE  ProgressInv'
  <1>1. UNCHANGED <<ts, published, ready, acked, migrated, processed, row, applied,
                    pc, batch, todo, failed, claims, draft, faults>>
    BY DEF progressVars, streamVars, dbVars, workerVars
  <1>2. ProgressTypeOK'
    BY <1>1 DEF ProgressInv, ProgressTypeOK
  <1>3. Sent' /\ Exclusive' /\ \A w \in Workers : HeldAt(w)'
    BY <1>1, HeldKept DEF ProgressInv, Sent, Exclusive
  <1>4. Drafted' /\ \A k \in RowKeys : RowAt(k)'
    BY <1>1, DraftKept, RowKept DEF ProgressInv, Drafted
  <1> QED BY <1>1, <1>2, <1>3, <1>4 DEF ProgressInv

\* Every step preserves the invariant.
LEMMA ProgressStep ==
    ASSUME ProgressInv, [ProgressNext]_progressVars
    PROVE  ProgressInv'
  <1>1. CASE \E e \in Reports : PublishProgress(e) \/ Redeliver(e)
    BY <1>1, StreamStep
  <1>2. CASE Migrate
    BY <1>2, StreamStep
  <1>3. CASE \E e \in Reports : UpsertEpisodeProgress(e)
    BY <1>3, SyncStep
  <1>4. ASSUME NEW w \in Workers, Step(w) \/ Crash(w)
        PROVE  ProgressInv'
    <2>1. CASE BeginError(w) \/ Rollback(w) \/ Ack(w) \/ Crash(w)
      BY <2>1, EndStep
    <2>2. CASE Fetch(w) \/ Begin(w)
      BY <2>2, BeginStep
    <2>3. CASE Wait(w) \/ StatementError(w) \/ NoTable(w)
      BY <2>3, WaitStep
    <2>4. CASE Apply(w)
      BY <2>4, ApplyStep
    <2>5. CASE Fallback(w) \/ FallbackError(w)
      BY <2>5, FallbackStep
    <2>6. CASE Commit(w)
      BY <2>6, CommitStep
    <2>7. CASE CommitError(w)
      BY <2>7, CommitErrorStep
    <2> QED BY <1>4, <2>1, <2>2, <2>3, <2>4, <2>5, <2>6, <2>7 DEF Step
  <1>5. CASE UNCHANGED progressVars
    BY <1>5, ProgressStutter
  <1> QED BY <1>1, <1>2, <1>3, <1>4, <1>5 DEF ProgressNext

\* The invariant holds in every reachable state.
LEMMA ProgressInvariant ==
    ProgressSpec => []ProgressInv
  <1>1. ProgressInit => ProgressInv
    BY ProgressInvInit
  <1>2. ProgressInv /\ [ProgressNext]_progressVars => ProgressInv'
    BY ProgressStep
  <1> QED BY <1>1, <1>2, PTL DEF ProgressSpec

\* What the invariant says of the rows.
LEMMA ProgressInvRows ==
    ASSUME ProgressInv
    PROVE  RowIsNewest /\ AckedIsReflected
  <1>1. StreamTypes
    BY ProgressTypes DEF ProgressInv
  <1>2. RowIsNewest
    <2> SUFFICES ASSUME NEW k \in RowKeys
                 PROVE  /\ row[k] = NoReport <=> AppliedTo(k) = {}
                        /\ row[k] # NoReport => row[k] \in applied /\ Key[row[k]] = k
                        /\ \A e \in AppliedTo(k) : ts[e] <= ts[row[k]]
      BY DEF RowIsNewest
    <2>1. RowAt(k)
      BY DEF ProgressInv
    <2> QED BY <2>1 DEF RowAt, AppliedTo
  <1>3. AckedIsReflected
    <2> SUFFICES ASSUME NEW e \in acked
                 PROVE  row[Key[e]] # NoReport /\ ts[e] <= ts[row[Key[e]]]
      BY DEF AckedIsReflected
    <2>1. e \in applied /\ Key[e] \in RowKeys
      BY <1>1, ProgressAssumption DEF ProgressInv, StreamTypes, ProgressAssumption
    <2>2. RowAt(Key[e])
      BY <2>1 DEF ProgressInv
    <2> QED BY <2>1, <2>2 DEF RowAt
  <1> QED BY <1>2, <1>3

-----------------------------------------------------------------------------
(* ActivityProgress: the theorems.                                         *)

\* For any reports, episodes, workers and faults, every variable keeps its type;
\* an open transaction only has ids of reports that came through the stream.
THEOREM ProgressTypeCorrect == ProgressSpec => []ProgressTypeOK
  <1> QED BY ProgressInvariant, PTL DEF ProgressInv

\* The last writer by client_ts_ms wins for any number of workers: whatever the
\* order of deliveries, transactions, gRPC calls, crashes and lost commits, a row
\* holds the newest report that was ever applied to it.
THEOREM RowsNewest == ProgressSpec => []RowIsNewest
  <1>1. ProgressInv => RowIsNewest
    BY ProgressInvRows
  <1> QED BY <1>1, ProgressInvariant, PTL

\* No accepted report leaves the queue before its row is at least as new.
THEOREM AckedReportsKept == ProgressSpec => []AckedIsReflected
  <1>1. ProgressInv => AckedIsReflected
    BY ProgressInvRows
  <1> QED BY <1>1, ProgressInvariant, PTL

=============================================================================
