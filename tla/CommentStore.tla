----------------------------- MODULE CommentStore ---------------------------
(***************************************************************************)
(* What a comment store promises (services/social/internal/store): the     *)
(* interface CommentStore with the behaviour of InMemoryCommentStore, whose *)
(* operations each run under its mutex.                                    *)
(*                                                                         *)
(* A vote of 0 is no vote.  A refused call (not found, not the author,     *)
(* already deleted) changes nothing and is a stuttering step.  A deleted   *)
(* comment can still be voted on.                                          *)
(***************************************************************************)
EXTENDS Integers

CONSTANTS Comments, Users, Bodies, None

VARIABLES author, body, deleted, votes, score

storeVars == <<author, body, deleted, votes, score>>

Init ==
    /\ author = [c \in Comments |-> None]
    /\ body = [c \in Comments |-> None]
    /\ deleted = {}
    /\ votes = [p \in Comments \X Users |-> 0]
    /\ score = [c \in Comments |-> 0]

Create(c, u, b) ==
    /\ author[c] = None
    /\ author' = [author EXCEPT ![c] = u]
    /\ body' = [body EXCEPT ![c] = b]
    /\ UNCHANGED <<deleted, votes, score>>

Editable(c, u) == author[c] = u /\ c \notin deleted

UpdateBody(c, u, b) ==
    /\ Editable(c, u)
    /\ body' = [body EXCEPT ![c] = b]
    /\ UNCHANGED <<author, deleted, votes, score>>

SoftDelete(c, u) ==
    /\ Editable(c, u)
    /\ body' = [body EXCEPT ![c] = "[deleted]"]
    /\ deleted' = deleted \cup {c}
    /\ UNCHANGED <<author, votes, score>>

Vote(c, u, v) ==
    /\ author[c] # None
    /\ votes' = [votes EXCEPT ![<<c, u>>] = v]
    /\ score' = [score EXCEPT ![c] = @ + (v - votes[<<c, u>>])]
    /\ UNCHANGED <<author, body, deleted>>

Next ==
    \E c \in Comments, u \in Users :
        \/ \E b \in Bodies : Create(c, u, b) \/ UpdateBody(c, u, b)
        \/ SoftDelete(c, u)
        \/ \E v \in {-1, 1} : Vote(c, u, v)

Spec == Init /\ [][Next]_storeVars
=============================================================================
