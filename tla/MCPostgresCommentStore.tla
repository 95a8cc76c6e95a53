----------------------- MODULE MCPostgresCommentStore -----------------------
(* PostgresCommentStore on small instances for TLC. *)
EXTENDS PostgresCommentStore

CONSTANTS c1, u1, u2, b1, s1, s2

\* -1, 1, a vote to refuse, and one that int16 turns into 1.
MCVoteInputs == {-1, 1, 2, 65537}
=============================================================================
