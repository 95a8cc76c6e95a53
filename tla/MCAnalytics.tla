----------------------------- MODULE MCAnalytics ----------------------------
(* Analytics on small instances for TLC. *)
EXTENDS Analytics

CONSTANTS u1, m1, m2, m3

Feed(s1, s2, s3, users, malformed, notable) ==
    [subject |-> [m \in Messages |-> CASE m = m1 -> s1 [] m = m2 -> s2 [] OTHER -> s3],
     user |-> [m \in Messages |-> IF m \in users THEN u1 ELSE NoUser],
     malformed |-> malformed, notable |-> notable]

\* A new user, a visitor and a payment that does not parse; what a user does,
\* with an e-mail for the only name of the payer; what is not counted.
MCFeeds ==
    {Feed("analytics.auth.registered", "analytics.search.performed",
          "billing.payment.completed", {m1}, {m3}, {}),
     Feed("analytics.auth.logged_in", "analytics.catalog.anime_viewed",
          "billing.payment.completed", {m1}, {}, {m3}),
     Feed("analytics.streaming.started", "billing.subscription.updated",
          "social.comments.create", {m1, m2, m3}, {}, {m2}),
     Feed("activity.progress", "social.comments.vote", "other", {m1, m2}, {}, {})}
=============================================================================
