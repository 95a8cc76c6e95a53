------------------------ MODULE PostgresCommentStore ------------------------
(***************************************************************************)
(* The comment store on Postgres (services/social/internal/store,          *)
(* comments_postgres.go) under the calls of the gRPC service, the REST     *)
(* handlers and the comments worker, whose vote runs the same statements.  *)
(*                                                                         *)
(* Create, UpdateBody and SoftDelete are one statement each.  Vote is a    *)
(* transaction of four: does the comment exist, which vote has the user,   *)
(* write the vote, add the difference to the score.  Transactions run at   *)
(* READ COMMITTED: a SELECT sees what is committed, an INSERT or UPDATE    *)
(* waits for the transaction that has written the same row and then goes   *)
(* by the committed row.  A session keeps its writes to itself until it    *)
(* commits; the rows it has locked follow from how far it has come.        *)
(*                                                                         *)
(* Two votes of one user on one comment may overlap (a double click, a     *)
(* retry, an event delivered twice): both read the old vote before either  *)
(* writes, and both add their difference to the score.                     *)
(***************************************************************************)
EXTENDS Integers, FiniteSets

CONSTANTS
    Comments, Users, Bodies, None,
    VoteInputs, \* what clients send as a vote, an int32
    Sessions,   \* database connections in use by Vote
    MaxDrift    \* bound: votes overlap only while the drift of the score is within it

ASSUME CommentAssumption ==
    /\ None \notin Users \cup Bodies
    /\ "[deleted]" \notin Bodies
    /\ IsFiniteSet(Users)
    /\ VoteInputs \subseteq Int
    /\ MaxDrift \in Nat

VARIABLES
    author, body, deleted, votes, score,  \* the tables comments and comment_votes
    pc,                                   \* how far a session's Vote has come
    comment, user, vote,                  \* its arguments
    oldVote,                              \* the vote it has read, 0 for no row
    overlapped,  \* history: comments on which two votes of one user have overlapped
    drift        \* history: what a score has been given for votes that were not
                 \* the user's any more

storeVars == <<author, body, deleted, votes, score>>
sessionVars == <<pc, comment, user, vote, oldVote>>
histVars == <<overlapped, drift>>
vars == <<storeVars, sessionVars, histVars>>

Controls == {"idle", "read", "write", "score", "commit"}
VoteValues == {-1, 0, 1}

\* Every variable keeps its type; a stored vote is -1 or 1 although int16 cuts
\* what the client sends.
TypeOK ==
    /\ author \in [Comments -> Users \cup {None}]
    /\ body \in [Comments -> Bodies \cup {None, "[deleted]"}]
    /\ deleted \in SUBSET Comments
    /\ votes \in [Comments \X Users -> VoteValues]
    /\ score \in [Comments -> Int]
    /\ pc \in [Sessions -> Controls]
    /\ comment \in [Sessions -> Comments \cup {None}]
    /\ user \in [Sessions -> Users \cup {None}]
    /\ vote \in [Sessions -> VoteValues]
    /\ oldVote \in [Sessions -> VoteValues]
    /\ overlapped \in SUBSET Comments
    /\ drift \in [Comments -> Int]

\* The tables themselves implement the promise, the score but for its drift; the
\* locals are hidden.
Store == INSTANCE CommentStore WITH
             Comments <- Comments, Users <- Users, Bodies <- Bodies, None <- None,
             author <- author, body <- body, deleted <- deleted, votes <- votes,
             score <- [c \in Comments |-> score[c] - drift[c]]

Init ==
    /\ author = [c \in Comments |-> None] /\ body = [c \in Comments |-> None]
    /\ deleted = {}
    /\ votes = [p \in Comments \X Users |-> 0] /\ score = [c \in Comments |-> 0]
    /\ overlapped = {} /\ drift = [c \in Comments |-> 0]
    /\ pc = [s \in Sessions |-> "idle"]
    /\ comment = [s \in Sessions |-> None]
    /\ user = [s \in Sessions |-> None]
    /\ vote = [s \in Sessions |-> 0]
    /\ oldVote = [s \in Sessions |-> 0]

Pair(s) == <<comment[s], user[s]>>

\* The primary key (comment_id, user_id) is taken by an uncommitted write.
VoteLocked(s) ==
    \E t \in Sessions \ {s} : pc[t] \in {"score", "commit"} /\ Pair(t) = Pair(s)

\* Plausible bugs, each a variant of the operator of the same name below.
DeltaIgnoresOld(s) == vote[s]
EditableAfterDelete(c, u) == author[c] = u
ScoreLockedBySelf(c) == \E t \in Sessions : pc[t] \in {"score", "commit"} /\ comment[t] = c

\* SELECT vote FROM comment_votes: the committed row, 0 for no row.
OldVote(s) == votes[Pair(s)]

\* delta: the new vote less the one that was read.
Delta(s) == vote[s] - oldVote[s]

\* The row of the comment is locked by an uncommitted UPDATE of its score.
ScoreLocked(c) ==
    \E t \in Sessions : pc[t] = "commit" /\ comment[t] = c /\ Delta(t) # 0

-----------------------------------------------------------------------------
(* The single statements.  One that fails changes nothing, or is done all  *)
(* the same.                                                               *)

Create(c, u, b) ==
    /\ author[c] = None
    /\ author' = [author EXCEPT ![c] = u]
    /\ body' = [body EXCEPT ![c] = b]
    /\ UNCHANGED <<deleted, votes, score, sessionVars, histVars>>

\* WHERE id = $1 AND user_id = $2 AND deleted_at IS NULL
Editable(c, u) == author[c] = u /\ c \notin deleted

UpdateBody(c, u, b) ==
    /\ Editable(c, u)
    /\ ~ScoreLocked(c)
    /\ body' = [body EXCEPT ![c] = b]
    /\ UNCHANGED <<author, deleted, votes, score, sessionVars, histVars>>

SoftDelete(c, u) ==
    /\ Editable(c, u)
    /\ ~ScoreLocked(c)
    /\ body' = [body EXCEPT ![c] = "[deleted]"]
    /\ deleted' = deleted \cup {c}
    /\ UNCHANGED <<author, votes, score, sessionVars, histVars>>

-----------------------------------------------------------------------------
(* Vote.                                                                   *)

Goto(s, p) == pc' = [pc EXCEPT ![s] = p]

\* The deferred Rollback, also after a Commit, and the end of the call.
Rollback(s) ==
    /\ Goto(s, "idle")
    /\ comment' = [comment EXCEPT ![s] = None]
    /\ user' = [user EXCEPT ![s] = None]
    /\ vote' = [vote EXCEPT ![s] = 0]
    /\ oldVote' = [oldVote EXCEPT ![s] = 0]

\* int16(req.GetVote()), and the check that follows it.
Int16(w) == ((w + 2^15) % 2^16) - 2^15
ValidVote(v) == v \in {-1, 1}

\* The user has another vote on the comment under way.
Overlaps(c, u) == \E t \in Sessions : pc[t] # "idle" /\ Pair(t) = <<c, u>>

\* SELECT EXISTS: the comment is there.
VoteComment(s, c, u, v) ==
    /\ pc[s] = "idle"
    /\ Overlaps(c, u) => drift[c] \in -MaxDrift .. MaxDrift
    /\ author[c] # None
    /\ Goto(s, "read")
    /\ comment' = [comment EXCEPT ![s] = c]
    /\ user' = [user EXCEPT ![s] = u]
    /\ vote' = [vote EXCEPT ![s] = v]
    /\ overlapped' = IF Overlaps(c, u) THEN overlapped \cup {c} ELSE overlapped
    /\ UNCHANGED <<storeVars, oldVote, drift>>

\* The REST handlers run the same statements after the same checks, but decode a
\* vote into an int16 and so refuse what does not fit.
RestCreateComment(c, u, b) == Create(c, u, b)
RestEditComment(c, u, b) == UpdateBody(c, u, b) \/ SoftDelete(c, u)
RestVoteComment(s, c, u, w) == Int16(w) = w /\ ValidVote(w) /\ VoteComment(s, c, u, w)

SelectVote(s) ==
    /\ pc[s] = "read"
    /\ oldVote' = [oldVote EXCEPT ![s] = OldVote(s)]
    /\ Goto(s, "write")
    /\ UNCHANGED <<storeVars, comment, user, vote, histVars>>

\* INSERT after no row, else UPDATE, once no other session holds the row.  An
\* INSERT finds the row of a session that has committed since: unique violation.
WriteVote(s) ==
    /\ pc[s] = "write"
    /\ ~VoteLocked(s)
    /\ IF oldVote[s] = 0 /\ votes[Pair(s)] # 0
       THEN Rollback(s)
       ELSE /\ Goto(s, IF Delta(s) # 0 THEN "score" ELSE "commit")
            /\ UNCHANGED <<comment, user, vote, oldVote>>
    /\ UNCHANGED <<storeVars, histVars>>

\* UPDATE comments SET score = score + delta, once the row is free.
UpdateScore(s) ==
    /\ pc[s] = "score"
    /\ ~ScoreLocked(comment[s])
    /\ Goto(s, "commit")
    /\ UNCHANGED <<storeVars, comment, user, vote, oldVote, histVars>>

\* What the two writes have left when they become visible.  A COMMIT that
\* reports an error and is done all the same ends in the same state.
Commit(s) ==
    /\ pc[s] = "commit"
    /\ votes' = [votes EXCEPT ![Pair(s)] = vote[s]]
    /\ score' = [score EXCEPT ![comment[s]] = @ + Delta(s)]
    /\ drift' = [drift EXCEPT ![comment[s]] = @ + (votes[Pair(s)] - oldVote[s])]
    /\ Rollback(s)
    /\ UNCHANGED <<author, body, deleted, overlapped>>

\* A statement fails, the client is gone, the process dies.
VoteError(s) ==
    /\ pc[s] # "idle"
    /\ Rollback(s)
    /\ UNCHANGED <<storeVars, histVars>>

-----------------------------------------------------------------------------

VoteStep(s) == SelectVote(s) \/ WriteVote(s) \/ UpdateScore(s) \/ Commit(s)

Next ==
    \/ \E c \in Comments, u \in Users :
        \/ \E b \in Bodies :
              \/ Create(c, u, b) \/ UpdateBody(c, u, b)
              \/ RestCreateComment(c, u, b) \/ RestEditComment(c, u, b)
        \/ SoftDelete(c, u)
        \/ \E s \in Sessions, w \in VoteInputs :
              \/ ValidVote(Int16(w)) /\ VoteComment(s, c, u, Int16(w))
              \/ RestVoteComment(s, c, u, w)
    \/ \E s \in Sessions : VoteStep(s) \/ VoteError(s)

\* Postgres serves the sessions that wait for a row in turn, so that one whose
\* row is free again and again does get it.
Fairness == \A s \in Sessions : SF_vars(VoteStep(s))

Spec == Init /\ [][Next]_vars
FairSpec == Spec /\ Fairness

-----------------------------------------------------------------------------
(* Properties.                                                             *)

Voters(c, v) == {u \in Users : votes[<<c, u>>] = v}

\* The score of a comment is its upvotes less its downvotes, whatever votes of
\* different users, edits and failures come between the statements of a vote, as
\* long as no user has had two votes on that comment under way at once.
ScoreIsSum ==
    \A c \in Comments \ overlapped :
        score[c] = Cardinality(Voters(c, 1)) - Cardinality(Voters(c, -1))

\* The Postgres store behaves as the in-memory store: every call takes effect at
\* one instant, as a call on the maps under the mutex would.  Overlapping votes of
\* one user change nothing but the score, by the old votes they took for current.
MatchesContract == Store!Spec

\* No vote waits for ever for a row another session has locked.
EventuallyAnswered == \A s \in Sessions : pc[s] # "idle" ~> pc[s] = "idle"

=============================================================================
