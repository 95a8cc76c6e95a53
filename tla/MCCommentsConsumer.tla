------------------------- MODULE MCCommentsConsumer -------------------------
(* CommentsConsumer on small instances for TLC. *)
EXTENDS CommentsConsumer

CONSTANTS w1, w2, create, vote, update

\* The table is there or is migrated later; one event may be one that does not
\* parse or one that Postgres refuses.
MCSettings ==
    {[malformed |-> {}, rejected |-> {update}, table |-> TRUE],
     [malformed |-> {update}, rejected |-> {}, table |-> FALSE]}

MCAction == [e \in Events |-> CASE e = create -> "create"
                                [] e = vote -> "vote"
                                [] OTHER -> "update"]
=============================================================================
