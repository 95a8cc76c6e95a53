----------------------------- MODULE MCGateway ------------------------------
(* Gateway, and the life of every service, on small instances for TLC. *)
EXTENDS Gateway

CONSTANTS c1, c2, p1, p2

Deployment(m, p, o, calls, routes, async, limit) ==
    [main |-> m, prod |-> p, outages |-> o, calls |-> calls, routes |-> routes,
     async |-> async, limit |-> limit]

GatewayOf(o, calls, routes, async, limit) == Deployment(BFFMain, TRUE, o, calls, routes, async, limit)

\* Two requests at once where they meet in the cache or in a table.
MCSetups ==
    {Deployment(m, p, 2, Calls, {}, TRUE, FALSE) : m \in Mains \ {BFFMain}, p \in BOOLEAN}
    \cup
    {GatewayOf(0, Calls, {"ListAnime"}, TRUE, FALSE),
     GatewayOf(0, Calls, {"Search"}, TRUE, FALSE),
     GatewayOf(0, {c1}, {"ListAnime", "Search"}, TRUE, FALSE),
     GatewayOf(0, Calls, {"RateAnime", "GetRating"}, TRUE, FALSE),
     GatewayOf(0, {c1}, {"Register", "Login", "Refresh", "Logout"}, TRUE, FALSE),
     GatewayOf(0, {c1}, {"Login"}, TRUE, TRUE),
     GatewayOf(0, {c1}, {"GetAnime", "GetEpisodesByAnime", "GetEpisode", "ListComments"}, TRUE, FALSE),
     GatewayOf(0, {c1}, {"Watch", "Me", "ContinueWatching"}, TRUE, FALSE),
     GatewayOf(2, {c1}, {"UpsertProgress", "CreateComment", "Backfill"}, TRUE, FALSE),
     GatewayOf(0, {c1}, {"VoteComment", "UpdateComment", "DeleteComment"}, FALSE, FALSE)}

\* One route of a limiter.
LimitSetups == {GatewayOf(0, {c1}, {"Login"}, TRUE, TRUE)}
=============================================================================
