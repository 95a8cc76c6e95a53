------------------------------ MODULE Pagination ----------------------------
(***************************************************************************)
(* A client pages through a listing while others write to it: the comments *)
(* of an anime sorted by time ("new") or by score ("top"), and the         *)
(* episodes a user is watching ("continue").                               *)
(*                                                                         *)
(* All three order the rows by a key that ends in the id, take the rows    *)
(* below the cursor, and return the key of the last row as the next        *)
(* cursor.  The cursor of "continue" keeps updated_at in milliseconds, the *)
(* column has microseconds.  Ids are compared as UUIDs are, any total      *)
(* order does.  Edited and deleted comments keep their place.              *)
(***************************************************************************)
EXTENDS Integers, FiniteSets

CONSTANTS
    Kinds,           \* the listings a client may ask for
    Ids,             \* rows that may come to exist
    MaxTime,         \* bound on times, in microseconds
    Millisecond,     \* microseconds in a millisecond
    MaxScore,        \* bound on scores
    Limits, DefaultLimit, MaxLimit

ASSUME PaginationAssumption ==
    /\ Kinds \subseteq {"new", "top", "continue"}
    /\ Ids \subseteq Int /\ IsFiniteSet(Ids)
    /\ MaxTime \in Nat \ {0}
    /\ Millisecond \in Nat \ {0}
    /\ MaxScore \in Nat
    /\ Limits \subseteq Int
    /\ MaxLimit \in Nat \ {0} /\ DefaultLimit \in 1 .. MaxLimit

VARIABLES
    kind,         \* the listing: "new", "top" or "continue"
    rows,         \* ids of the rows
    time, score,  \* created_at or updated_at, and score, of each row
    client,       \* what it is doing: "idle", "reading", "done"
    cursor,       \* the cursor of its next page, NoCursor for none
    seen,         \* how often each row was returned to it
    stable        \* history: rows there when it began and not moved since

tableVars == <<kind, rows, time, score>>
clientVars == <<client, cursor, seen>>
vars == <<tableVars, clientVars, stable>>

Scores == -MaxScore .. MaxScore
NoCursor == <<>>

\* Rows, client and cursor are well typed: a cursor has all the parts of a key.
TypeOK ==
    /\ kind \in Kinds
    /\ rows \in SUBSET Ids
    /\ time \in [Ids -> 0 .. MaxTime]
    /\ score \in [Ids -> Scores]
    /\ client \in {"idle", "reading", "done"}
    /\ cursor \in {NoCursor} \cup (Scores \X (0 .. MaxTime) \X Ids)
    /\ seen \in [Ids -> Nat]
    /\ stable \in SUBSET rows

Init ==
    /\ kind \in Kinds
    /\ rows = {}
    /\ time = [i \in Ids |-> 0]
    /\ score = [i \in Ids |-> 0]
    /\ client = "idle"
    /\ cursor = NoCursor
    /\ seen = [i \in Ids |-> 0]
    /\ stable = {}

-----------------------------------------------------------------------------
(* Keys and cursors.                                                       *)

\* What the listing is sorted by, largest first.
Key(i) == <<IF kind = "top" THEN score[i] ELSE 0, time[i], i>>

\* The comparison of rows in SQL.
Less(a, b) ==
    \/ a[1] < b[1]
    \/ a[1] = b[1] /\ a[2] < b[2]
    \/ a[1] = b[1] /\ a[2] = b[2] /\ a[3] < b[3]

\* Plausible bugs, each a variant of the operator of the same name below.
MoreAlways(P, n) == TRUE
EncodeCursorEarlier(i) == <<Key(i)[1], Key(i)[2] - 1, i>>

\* encodeNewCursor, encodeTopCursor, encodeCursor and their decoders: the key,
\* in "continue" with updated_at cut to milliseconds.
EncodeCursor(i) ==
    IF kind = "continue" THEN <<0, time[i] - (time[i] % Millisecond), i>> ELSE Key(i)

\* The row comparison of the query.
Below(k) == cursor = NoCursor \/ Less(k, cursor)

\* The limit of a request as the BFF and the service make it; a request without
\* one has DefaultLimit.
Clamp(l) ==
    IF l \in 1 .. MaxLimit THEN l
    ELSE IF kind # "continue" THEN DefaultLimit
    ELSE IF l < 1 THEN 1 ELSE MaxLimit

\* ORDER BY key DESC LIMIT n of the rows below the cursor.
IsPage(P, n) ==
    LET found == {i \in rows : Below(Key(i))} IN
    /\ P \subseteq found
    /\ \A i \in P, j \in found \ P : Less(Key(j), Key(i))
    /\ Cardinality(P) <= n
    /\ P # found => Cardinality(P) = n

\* Whether there is a next page: one row more was asked for, or the page is full.
More(P, n) ==
    IF kind = "continue" THEN Cardinality(P) = n
    ELSE \E i \in rows \ P : Below(Key(i))

-----------------------------------------------------------------------------
(* The writers.                                                            *)

\* A comment is created or an episode started.  now() is the beginning of the
\* transaction, so a row may come in behind younger ones.
Create(i, t) ==
    /\ i \notin rows
    /\ rows' = rows \cup {i}
    /\ time' = [time EXCEPT ![i] = t]
    /\ UNCHANGED <<kind, score, clientVars, stable>>

\* A vote moves a comment in "top".
Vote(i, d) ==
    /\ kind # "continue"
    /\ i \in rows /\ score[i] + d \in Scores
    /\ score' = [score EXCEPT ![i] = @ + d]
    /\ stable' = IF kind = "top" THEN stable \ {i} ELSE stable
    /\ UNCHANGED <<kind, rows, time, clientVars>>

\* A progress report sets updated_at.
Upsert(i, t) ==
    /\ kind = "continue"
    /\ i \in rows
    /\ time' = [time EXCEPT ![i] = t]
    /\ stable' = stable \ {i}
    /\ UNCHANGED <<kind, rows, score, clientVars>>

-----------------------------------------------------------------------------
(* The client.                                                             *)

Start ==
    /\ client = "idle"
    /\ client' = "reading"
    /\ stable' = rows
    /\ UNCHANGED <<tableVars, cursor, seen>>

\* ListComments and GetContinueWatching.
List(l) ==
    /\ client = "reading"
    /\ \E P \in SUBSET rows :
        /\ IsPage(P, Clamp(l))
        /\ seen' = [i \in Ids |-> IF i \in P THEN seen[i] + 1 ELSE seen[i]]
        /\ IF More(P, Clamp(l))
           THEN /\ \E i \in P :
                    /\ \A j \in P \ {i} : Less(Key(i), Key(j))
                    /\ cursor' = EncodeCursor(i)
                /\ UNCHANGED client
           ELSE client' = "done" /\ cursor' = NoCursor
    /\ UNCHANGED <<tableVars, stable>>

Next ==
    \/ \E i \in Ids, t \in 1 .. MaxTime : Create(i, t) \/ Upsert(i, t)
    \/ \E i \in Ids, d \in {-1, 1} : Vote(i, d)
    \/ Start
    \/ \E l \in Limits : List(l)

\* A client that follows next_cursor.
Fairness == WF_vars(\E l \in Limits : List(l))

Spec == Init /\ [][Next]_vars
FairSpec == Spec /\ Fairness

-----------------------------------------------------------------------------
(* Properties.                                                             *)

\* However pages and writes interleave, a row that was there when the client
\* began and has kept its place since is never returned to it twice, and in both
\* listings of comments it is in one of the pages.  (Continue watching may skip
\* a row of the millisecond its cursor was cut to.)
PagedOnce ==
    \A i \in stable : seen[i] <= 1 /\ (client = "done" /\ kind # "continue" => seen[i] = 1)

\* Every page takes the client further down the listing: next_cursor is below
\* the cursor it was asked with, so that following it comes to an end.
CursorDescends ==
    [][cursor # NoCursor /\ cursor' # NoCursor /\ seen' # seen => Less(cursor', cursor)]_vars

\* A client that follows next_cursor comes to the last page while others write.
EventuallyDone == client = "reading" ~> client = "done"

=============================================================================
