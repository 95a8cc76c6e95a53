--------------------- MODULE PostgresCommentStoreProofs ---------------------
(***************************************************************************)
(* Proofs about PostgresCommentStore, for any comments, finite set of      *)
(* users and number of sessions.                                           *)
(*                                                                         *)
(* A vote adds to the score the difference to a vote it read two           *)
(* statements earlier.  Fresh says that this vote is still the one in the  *)
(* table; it is inductive because of Exclusive: unless votes of one user   *)
(* on the comment have overlapped, no other session writes that row.       *)
(***************************************************************************)
EXTENDS PostgresCommentStore, FiniteSetTheorems, TLAPS

Active(s) == pc[s] # "idle"

Located ==
    \A s \in Sessions : Active(s) =>
        /\ comment[s] \in Comments
        /\ user[s] \in Users
        /\ vote[s] \in {-1, 1}
        /\ author[comment[s]] # None

Exclusive ==
    \A s, t \in Sessions :
        s # t /\ Active(s) /\ Active(t) /\ Pair(s) = Pair(t) => comment[s] \in overlapped

Fresh ==
    \A s \in Sessions :
        pc[s] \in {"write", "score", "commit"} /\ comment[s] \notin overlapped =>
            oldVote[s] = votes[Pair(s)]

IInv == TypeOK /\ Located /\ Exclusive /\ Fresh

\* Nothing is stored and no vote is under way.
LEMMA InitInv == Init => IInv
  BY CommentAssumption DEF CommentAssumption, Init, IInv, TypeOK, Located, Exclusive, Fresh, Active,
     Controls, VoteValues

\* The single statements write neither votes nor what a session holds.
LEMMA StatementStep ==
  ASSUME IInv, NEW c \in Comments, NEW u \in Users, NEW b \in Bodies,
         Create(c, u, b) \/ UpdateBody(c, u, b) \/ SoftDelete(c, u)
  PROVE  IInv'
<1> USE CommentAssumption DEF CommentAssumption, sessionVars, histVars
<1>1. /\ votes' = votes /\ score' = score
      /\ UNCHANGED <<sessionVars, histVars>>
  BY DEF Create, UpdateBody, SoftDelete
<1>2. TypeOK'
  BY <1>1 DEF IInv, TypeOK, Create, UpdateBody, SoftDelete
<1>3. Located'
  BY <1>1 DEF IInv, TypeOK, Located, Active, Create, UpdateBody, SoftDelete
<1>4. (Exclusive /\ Fresh)'
  BY <1>1 DEF IInv, Exclusive, Fresh, Active, Pair
<1>5. QED
  BY <1>2, <1>3, <1>4 DEF IInv

\* A session that has ended holds no row.
LEMMA RollbackStep ==
  ASSUME IInv, NEW s \in Sessions, Rollback(s), UNCHANGED <<storeVars, histVars>>
  PROVE  IInv'
<1> USE CommentAssumption DEF CommentAssumption, storeVars, histVars
<1>1. TypeOK'
  BY DEF IInv, TypeOK, Rollback, Goto, Controls, VoteValues
<1>2. Located'
  BY DEF IInv, TypeOK, Located, Active, Rollback, Goto
<1>3. (Exclusive /\ Fresh)'
  BY DEF IInv, TypeOK, Exclusive, Fresh, Active, Pair, Rollback, Goto
<1>4. QED
  BY <1>1, <1>2, <1>3 DEF IInv

\* A vote that starts: if another session has the same pair, they overlap.
LEMMA VoteCommentStep ==
  ASSUME IInv, NEW s \in Sessions, NEW c \in Comments, NEW u \in Users, NEW v \in {-1, 1},
         VoteComment(s, c, u, v)
  PROVE  IInv'
<1> USE CommentAssumption DEF CommentAssumption, storeVars, histVars
<1>1. TypeOK'
  BY DEF IInv, TypeOK, VoteComment, Goto, Controls, VoteValues
<1>2. Located'
  BY DEF IInv, TypeOK, Located, Active, VoteComment, Goto
<1>3. Exclusive'
  BY DEF IInv, TypeOK, Located, Exclusive, Active, Pair, VoteComment, Overlaps, Goto
<1>4. Fresh'
  BY DEF IInv, TypeOK, Fresh, Pair, VoteComment, Goto
<1>5. QED
  BY <1>1, <1>2, <1>3, <1>4 DEF IInv, VoteComment

\* The statements of a vote up to its commit.
LEMMA WritingStep ==
  ASSUME IInv, NEW s \in Sessions, SelectVote(s) \/ WriteVote(s) \/ UpdateScore(s)
  PROVE  IInv'
<1> USE CommentAssumption DEF CommentAssumption, storeVars, histVars
<1>1. CASE SelectVote(s)
  <2>1. votes[Pair(s)] \in VoteValues
    BY <1>1 DEF IInv, TypeOK, Located, Active, SelectVote, Pair
  <2>2. TypeOK'
    BY <1>1, <2>1 DEF IInv, TypeOK, SelectVote, OldVote, Goto, Controls
  <2>3. Located'
    BY <1>1 DEF IInv, TypeOK, Located, Active, SelectVote, Goto
  <2>4. (Exclusive /\ Fresh)'
    BY <1>1 DEF IInv, TypeOK, Exclusive, Fresh, Active, Pair, SelectVote, OldVote, Goto
  <2>5. QED
    BY <2>2, <2>3, <2>4 DEF IInv
<1>2. CASE WriteVote(s) /\ Rollback(s)
  BY <1>2, RollbackStep DEF WriteVote
<1>3. ASSUME NEW p \in Controls, pc[s] \in {"write", "score"}, p \in {"score", "commit"}, Goto(s, p),
             UNCHANGED <<storeVars, comment, user, vote, oldVote, histVars>>
      PROVE  IInv'
  <2>1. TypeOK'
    BY <1>3 DEF IInv, TypeOK, Goto
  <2>2. Located'
    BY <1>3 DEF IInv, TypeOK, Located, Active, Goto
  <2>3. (Exclusive /\ Fresh)'
    BY <1>3 DEF IInv, TypeOK, Exclusive, Fresh, Active, Pair, Goto
  <2>4. QED
    BY <2>1, <2>2, <2>3 DEF IInv
<1>4. QED
  BY <1>1, <1>2, <1>3 DEF WriteVote, UpdateScore, Controls

\* A commit writes a row no other session under way has read.
LEMMA CommitStep ==
  ASSUME IInv, NEW s \in Sessions, Commit(s)
  PROVE  IInv'
<1> USE CommentAssumption DEF CommentAssumption
<1>1. Active(s) /\ comment[s] \in Comments /\ user[s] \in Users /\ vote[s] \in {-1, 1}
  BY DEF IInv, Located, Active, Commit
<1>2. TypeOK'
  BY <1>1 DEF IInv, TypeOK, Commit, Rollback, Goto, Delta, Pair, Controls, VoteValues
<1>3. Located'
  BY DEF IInv, TypeOK, Located, Active, Commit, Rollback, Goto
<1>4. Exclusive'
  BY DEF IInv, TypeOK, Exclusive, Active, Pair, Commit, Rollback, Goto
<1>5. Fresh'
  <2> SUFFICES ASSUME NEW t \in Sessions, pc'[t] \in {"write", "score", "commit"},
                      comment'[t] \notin overlapped'
               PROVE  oldVote'[t] = votes'[Pair(t)']
    BY DEF Fresh, Pair
  <2>1. /\ t # s /\ pc[t] = pc'[t] /\ oldVote'[t] = oldVote[t] /\ Pair(t)' = Pair(t)
        /\ comment[t] \notin overlapped
    BY DEF IInv, TypeOK, Commit, Rollback, Goto, Pair
  <2>2. Pair(t) # Pair(s) /\ Pair(t) \in Comments \X Users
    BY <1>1, <2>1 DEF IInv, Exclusive, Active, Located, Pair
  <2>3. votes'[Pair(t)] = votes[Pair(t)]
    BY <2>2 DEF IInv, TypeOK, Commit
  <2>4. QED
    BY <2>1, <2>3 DEF IInv, Fresh
<1>6. QED
  BY <1>2, <1>3, <1>4, <1>5 DEF IInv

\* One step of any call.
LEMMA StepInv == IInv /\ [Next]_vars => IInv'
<1> SUFFICES ASSUME IInv, [Next]_vars PROVE IInv'
  OBVIOUS
<1>1. CASE UNCHANGED vars
  BY <1>1 DEF vars, storeVars, sessionVars, histVars, IInv, TypeOK, Located, Exclusive, Fresh, Active, Pair
<1>2. ASSUME NEW c \in Comments, NEW u \in Users, NEW b \in Bodies,
             \/ Create(c, u, b) \/ UpdateBody(c, u, b)
             \/ RestCreateComment(c, u, b) \/ RestEditComment(c, u, b)
      PROVE  IInv'
  BY <1>2, StatementStep DEF RestCreateComment, RestEditComment
<1>3. ASSUME NEW c \in Comments, NEW u \in Users, SoftDelete(c, u)
      PROVE  IInv'
  <2> USE CommentAssumption DEF CommentAssumption, sessionVars, histVars
  <2>1. TypeOK'
    BY <1>3 DEF IInv, TypeOK, SoftDelete
  <2>2. Located'
    BY <1>3 DEF IInv, TypeOK, Located, Active, SoftDelete
  <2>3. (Exclusive /\ Fresh)'
    BY <1>3 DEF IInv, Exclusive, Fresh, Active, Pair, SoftDelete
  <2>4. QED
    BY <2>1, <2>2, <2>3 DEF IInv
<1>4. ASSUME NEW c \in Comments, NEW u \in Users, NEW s \in Sessions, NEW v \in {-1, 1},
             VoteComment(s, c, u, v)
      PROVE  IInv'
  BY <1>4, VoteCommentStep
<1>5. ASSUME NEW s \in Sessions, VoteStep(s) \/ VoteError(s)
      PROVE  IInv'
  BY <1>5, WritingStep, CommitStep, RollbackStep DEF VoteStep, VoteError
<1>6. QED
  BY <1>1, <1>2, <1>3, <1>4, <1>5 DEF Next, ValidVote, RestVoteComment

\* The inductive invariant holds in every reachable state.
LEMMA Invariance == Spec => []IInv
  BY InitInv, StepInv, PTL DEF Spec

\* Every reachable state is well typed, also when votes of one user overlap.
THEOREM TypeCorrect == Spec => []TypeOK
<1>1. IInv => TypeOK
  BY DEF IInv
<1>2. QED
  BY Invariance, <1>1, PTL

-----------------------------------------------------------------------------

\* The users with a given vote are finitely many.
LEMMA VotersFinite ==
  ASSUME NEW c \in Comments, NEW v \in VoteValues
  PROVE  IsFiniteSet(Voters(c, v)) /\ Cardinality(Voters(c, v)) \in Nat
  BY CommentAssumption, FS_Subset, FS_CardinalityType DEF CommentAssumption, Voters

\* A commit moves one user between the upvoters and the downvoters and the score
\* by the same amount.
LEMMA CommitScore ==
  ASSUME IInv, ScoreIsSum, NEW s \in Sessions, Commit(s)
  PROVE  ScoreIsSum'
<1> SUFFICES ASSUME NEW c \in Comments, c \notin overlapped
             PROVE  score'[c] = Cardinality(Voters(c, 1)') - Cardinality(Voters(c, -1)')
  BY DEF ScoreIsSum, Commit
<1> DEFINE u == user[s]
<1>1. /\ comment[s] \in Comments /\ u \in Users /\ vote[s] \in {-1, 1}
      /\ comment[s] \notin overlapped => oldVote[s] = votes[<<comment[s], u>>]
      /\ votes \in [Comments \X Users -> VoteValues]
      /\ score \in [Comments -> Int]
  BY DEF IInv, TypeOK, Located, Fresh, Active, Commit, Pair
<1>2. /\ votes' = [votes EXCEPT ![<<comment[s], u>>] = vote[s]]
      /\ score' = [score EXCEPT ![comment[s]] = @ + (vote[s] - oldVote[s])]
  BY DEF Commit, Pair, Delta
<1>3. score[c] = Cardinality(Voters(c, 1)) - Cardinality(Voters(c, -1))
  BY DEF ScoreIsSum
<1>4. CASE c # comment[s]
  <2>1. Voters(c, 1)' = Voters(c, 1) /\ Voters(c, -1)' = Voters(c, -1)
    BY <1>1, <1>2, <1>4 DEF Voters
  <2>2. score'[c] = score[c]
    BY <1>1, <1>2, <1>4
  <2>3. QED
    BY <1>3, <2>1, <2>2
<1>5. CASE c = comment[s]
  <2>1. /\ IsFiniteSet(Voters(c, 1)) /\ Cardinality(Voters(c, 1)) \in Nat
        /\ IsFiniteSet(Voters(c, -1)) /\ Cardinality(Voters(c, -1)) \in Nat
    BY VotersFinite DEF VoteValues
  <2>2. score'[c] = score[c] + (vote[s] - votes[<<c, u>>])
    BY <1>1, <1>2, <1>5
  <2>3. votes[<<c, u>>] \in VoteValues
    BY <1>1
  <2>4. /\ u \in Voters(c, 1) <=> votes[<<c, u>>] = 1
        /\ u \in Voters(c, -1) <=> votes[<<c, u>>] = -1
    BY <1>1 DEF Voters
  <2>5. CASE vote[s] = 1
    <3>1. Voters(c, 1)' = Voters(c, 1) \cup {u} /\ Voters(c, -1)' = Voters(c, -1) \ {u}
      BY <1>1, <1>2, <1>5, <2>5 DEF Voters
    <3>2. /\ Cardinality(Voters(c, 1)') =
               IF u \in Voters(c, 1) THEN Cardinality(Voters(c, 1)) ELSE Cardinality(Voters(c, 1)) + 1
          /\ Cardinality(Voters(c, -1)') =
               IF u \in Voters(c, -1) THEN Cardinality(Voters(c, -1)) - 1 ELSE Cardinality(Voters(c, -1))
      BY <2>1, <3>1, FS_AddElement, FS_RemoveElement
    <3>3. QED
      BY <1>3, <2>1, <2>2, <2>3, <2>4, <2>5, <3>2 DEF VoteValues
  <2>6. CASE vote[s] = -1
    <3>1. Voters(c, 1)' = Voters(c, 1) \ {u} /\ Voters(c, -1)' = Voters(c, -1) \cup {u}
      BY <1>1, <1>2, <1>5, <2>6 DEF Voters
    <3>2. /\ Cardinality(Voters(c, 1)') =
               IF u \in Voters(c, 1) THEN Cardinality(Voters(c, 1)) - 1 ELSE Cardinality(Voters(c, 1))
          /\ Cardinality(Voters(c, -1)') =
               IF u \in Voters(c, -1) THEN Cardinality(Voters(c, -1)) ELSE Cardinality(Voters(c, -1)) + 1
      BY <2>1, <3>1, FS_AddElement, FS_RemoveElement
    <3>3. QED
      BY <1>3, <2>1, <2>2, <2>3, <2>4, <2>6, <3>2 DEF VoteValues
  <2>7. QED
    BY <1>1, <2>5, <2>6
<1>6. QED
  BY <1>4, <1>5

\* The score of a comment on which no votes of one user have overlapped is its
\* upvotes less its downvotes, for every number of users, sessions and failures.
THEOREM ScoreCorrect == Spec => []ScoreIsSum
<1>1. Init => ScoreIsSum
  <2> SUFFICES ASSUME Init, NEW c \in Comments
               PROVE  score[c] = Cardinality(Voters(c, 1)) - Cardinality(Voters(c, -1))
    BY DEF ScoreIsSum
  <2>1. Voters(c, 1) = {} /\ Voters(c, -1) = {}
    BY DEF Init, Voters
  <2>2. score[c] = 0
    BY DEF Init
  <2>3. Cardinality({}) = 0
    BY FS_EmptySet
  <2>4. QED
    BY <2>1, <2>2, <2>3
<1>2. IInv /\ ScoreIsSum /\ [Next]_vars => ScoreIsSum'
  <2> SUFFICES ASSUME IInv, ScoreIsSum, [Next]_vars PROVE ScoreIsSum'
    OBVIOUS
  <2>1. ASSUME NEW s \in Sessions, Commit(s)
        PROVE  ScoreIsSum'
    BY <2>1, CommitScore
  <2>2. CASE UNCHANGED <<votes, score>> /\ overlapped \subseteq overlapped'
    BY <2>2 DEF ScoreIsSum, Voters
  <2>3. QED
    BY <2>1, <2>2 DEF Next, vars, storeVars, histVars, Create, UpdateBody, SoftDelete,
       RestCreateComment, RestEditComment, RestVoteComment, VoteComment, VoteStep,
       SelectVote, WriteVote, UpdateScore, VoteError
<1>3. QED
  BY <1>1, <1>2, Invariance, PTL DEF Spec

\* The Postgres store implements the contract: the four statements of a vote take
\* effect as the one call of the in-memory store, at the commit; where votes of
\* one user overlap, the score is the contract's but for the drift.
THEOREM Refinement == Spec => MatchesContract
<1>1. Init => Store!Init
  BY DEF Init, Store!Init
<1>2. IInv /\ [Next]_vars => [Store!Next]_(Store!storeVars)
  <2> SUFFICES ASSUME IInv, [Next]_vars
               PROVE  Store!Next \/ UNCHANGED <<storeVars, drift>>
    BY DEF storeVars, Store!storeVars
  <2>1. ASSUME NEW c \in Comments, NEW u \in Users, NEW b \in Bodies, Create(c, u, b)
        PROVE  Store!Next
    BY <2>1 DEF Create, histVars, Store!Next, Store!Create
  <2>2. ASSUME NEW c \in Comments, NEW u \in Users, NEW b \in Bodies, UpdateBody(c, u, b)
        PROVE  Store!Next
    BY <2>2 DEF UpdateBody, Editable, histVars, Store!Next, Store!UpdateBody, Store!Editable
  <2>3. ASSUME NEW c \in Comments, NEW u \in Users, SoftDelete(c, u)
        PROVE  Store!Next
    BY <2>3 DEF SoftDelete, Editable, histVars, Store!Next, Store!SoftDelete, Store!Editable
  <2>4. ASSUME NEW s \in Sessions, Commit(s)
        PROVE  Store!Next
    <3> DEFINE c == comment[s]
    <3> DEFINE u == user[s]
    <3>1. /\ c \in Comments /\ u \in Users /\ vote[s] \in {-1, 1} /\ author[c] # None
          /\ oldVote[s] \in Int /\ votes[<<c, u>>] \in Int
          /\ score \in [Comments -> Int] /\ drift \in [Comments -> Int]
      BY <2>4 DEF IInv, TypeOK, Located, Active, Commit, VoteValues
    <3>2. /\ score' = [score EXCEPT ![c] = @ + (vote[s] - oldVote[s])]
          /\ drift' = [drift EXCEPT ![c] = @ + (votes[<<c, u>>] - oldVote[s])]
          /\ votes' = [votes EXCEPT ![<<c, u>>] = vote[s]]
          /\ UNCHANGED <<author, body, deleted>>
      BY <2>4 DEF Commit, Pair, Delta
    <3>3. [d \in Comments |-> score'[d] - drift'[d]] =
          [[d \in Comments |-> score[d] - drift[d]] EXCEPT ![c] = @ + (vote[s] - votes[<<c, u>>])]
      <4>1. ASSUME NEW d \in Comments
            PROVE  score'[d] - drift'[d] =
                     [[e \in Comments |-> score[e] - drift[e]]
                         EXCEPT ![c] = @ + (vote[s] - votes[<<c, u>>])][d]
        BY <3>1, <3>2
      <4>2. QED
        BY <4>1
    <3>4. Store!Vote(c, u, vote[s])
      BY <3>1, <3>2, <3>3 DEF Store!Vote
    <3>5. QED
      BY <3>1, <3>4 DEF Store!Next, Store!Vote
  <2>5. QED
    BY <2>1, <2>2, <2>3, <2>4 DEF Next, vars, histVars, RestCreateComment, RestEditComment,
       RestVoteComment, VoteComment, VoteStep, SelectVote, WriteVote, UpdateScore, VoteError
<1>3. QED
  BY <1>1, <1>2, Invariance, PTL DEF Spec, MatchesContract, Store!Spec

=============================================================================
