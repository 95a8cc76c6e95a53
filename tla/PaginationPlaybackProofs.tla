---------------------- MODULE PaginationPlaybackProofs ----------------------
(***************************************************************************)
(* Proofs about what a viewer gets: Pagination, for any set of rows, any   *)
(* limits and any granularity of time, and Playback, for any users,        *)
(* playlists, retries and lifetimes.                                       *)
(*                                                                         *)
(* PagedOnce is not inductive: while the client reads, what matters is     *)
(* that the rows that have kept their place are split by the cursor into   *)
(* those at or above it, returned once, and those below it, not returned   *)
(* yet.  The cut of the cursor to milliseconds may leave rows above it     *)
(* that were not returned, so "once" is weakened for continue watching.    *)
(*                                                                         *)
(* The invariant of Playback (PlayInv) is about ages.  What a link has     *)
(* left and what has passed since its Watch make up LinkLife, and what an  *)
(* entry has left and its age make up CacheTTL, or a tick more.            *)
(***************************************************************************)
EXTENDS Pagination, Playback, TLAPS

\* At most once, and once where the cursor is exact.
Returned(i) == seen[i] \in {0, 1} /\ (kind # "continue" => seen[i] = 1)

\* The part of the listing above the cursor is what the client has seen.
SplitByCursor ==
    /\ client = "idle" => cursor = NoCursor /\ seen = [i \in Ids |-> 0] /\ stable = {}
    /\ \A i \in stable :
        /\ client = "reading" /\ Below(Key(i)) => seen[i] = 0
        /\ client = "reading" /\ ~Below(Key(i)) => Returned(i)
        /\ client = "done" => Returned(i)

Keys == Int \X Int \X Int

-----------------------------------------------------------------------------
(* The order of keys.                                                      *)

\* The row comparison of SQL is transitive.
LEMMA LessTransitive ==
    ASSUME NEW a \in Keys, NEW b \in Keys, NEW c \in Keys, Less(a, b), Less(b, c)
    PROVE  Less(a, c)
  BY DEF Less, Keys

\* It is asymmetric, so no row is below its own cursor.
LEMMA LessAsymmetric ==
    ASSUME NEW a \in Keys, NEW b \in Keys, Less(a, b)
    PROVE  ~Less(b, a)
  BY DEF Less, Keys

\* The key of a row is a triple of integers.
LEMMA KeyType == ASSUME TypeOK, NEW i \in Ids PROVE Key(i) \in Keys
  BY PaginationAssumption DEF TypeOK, Key, Keys, Scores, PaginationAssumption

\* A cursor never lies above the row it was made from.
LEMMA CursorNotAbove ==
    ASSUME TypeOK, NEW i \in Ids
    PROVE  /\ EncodeCursor(i) \in Keys
           /\ EncodeCursor(i) = Key(i) \/ Less(EncodeCursor(i), Key(i))
  <1> DEFINE r == time[i] % Millisecond
  <1>1. time[i] \in Int /\ i \in Int /\ r \in Int /\ r >= 0
    BY PaginationAssumption DEF TypeOK, PaginationAssumption
  <1>2. CASE kind = "continue"
    <2>1. EncodeCursor(i) = <<0, time[i] - r, i>> /\ Key(i) = <<0, time[i], i>>
      BY <1>2 DEF EncodeCursor, Key
    <2>2. CASE r = 0
      BY <1>1, <2>1, <2>2 DEF Keys
    <2>3. CASE r > 0
      <3> HIDE DEF r
      <3> QED BY <1>1, <2>1, <2>3 DEF Keys, Less
    <2> QED BY <1>1, <2>2, <2>3
  <1>3. CASE kind # "continue"
    BY <1>3, KeyType DEF EncodeCursor
  <1> QED BY <1>2, <1>3

\* A cursor that is not NoCursor is a key.
LEMMA CursorType == ASSUME TypeOK, cursor # NoCursor PROVE cursor \in Keys
  <1>1. Scores \subseteq Int /\ 0 .. MaxTime \subseteq Int /\ Ids \subseteq Int
    BY PaginationAssumption DEF Scores, PaginationAssumption
  <1>2. cursor \in Scores \X (0 .. MaxTime) \X Ids
    BY DEF TypeOK
  <1> HIDE DEF Scores
  <1> QED BY <1>1, <1>2 DEF Keys

-----------------------------------------------------------------------------
(* The type invariant.                                                     *)

\* An empty listing.
LEMMA TypeInit == Init => TypeOK
  BY PaginationAssumption DEF Init, TypeOK, Scores, PaginationAssumption

\* A page of the listing keeps the types, the cursor included.
LEMMA TypeList == ASSUME TypeOK, NEW l \in Limits, List(l) PROVE TypeOK'
  <1>1. PICK P \in SUBSET rows :
          /\ seen' = [i \in Ids |-> IF i \in P THEN seen[i] + 1 ELSE seen[i]]
          /\ \/ \E i \in P : cursor' = EncodeCursor(i) /\ client' = client
             \/ client' = "done" /\ cursor' = NoCursor
    BY DEF List
  <1>2. seen' \in [Ids -> Nat]
    BY <1>1 DEF TypeOK
  <1>3. ASSUME NEW i \in Ids
        PROVE  EncodeCursor(i) \in Scores \X (0 .. MaxTime) \X Ids
    <2>1. Key(i) \in Scores \X (0 .. MaxTime) \X Ids
      BY PaginationAssumption DEF TypeOK, Key, Scores, PaginationAssumption
    <2>2. CASE kind = "continue"
      <3>1. 0 \in Scores
        BY PaginationAssumption DEF Scores, PaginationAssumption
      <3>2. time[i] \in 0 .. MaxTime /\ time[i] \in Nat
        BY PaginationAssumption DEF TypeOK, PaginationAssumption
      <3>3. time[i] - (time[i] % Millisecond) \in 0 .. MaxTime
        BY <3>2, PaginationAssumption DEF PaginationAssumption
      <3> QED BY <2>2, <3>1, <3>3 DEF EncodeCursor
    <2> QED BY <2>1, <2>2 DEF EncodeCursor
  <1>4. cursor' \in {NoCursor} \cup (Scores \X (0 .. MaxTime) \X Ids)
    BY <1>1, <1>3 DEF TypeOK
  <1>5. client' \in {"idle", "reading", "done"}
    BY <1>1 DEF TypeOK
  <1> QED BY <1>2, <1>4, <1>5 DEF List, TypeOK, tableVars, Scores

\* Every step keeps the types.
LEMMA TypeStep == TypeOK /\ [Next]_vars => TypeOK'
  <1> SUFFICES ASSUME TypeOK, [Next]_vars PROVE TypeOK'
    OBVIOUS
  <1> USE PaginationAssumption DEF PaginationAssumption
  <1>1. ASSUME NEW i \in Ids, NEW t \in 1 .. MaxTime, Create(i, t) PROVE TypeOK'
    BY <1>1 DEF Create, TypeOK, clientVars, Scores
  <1>2. ASSUME NEW i \in Ids, NEW t \in 1 .. MaxTime, Upsert(i, t) PROVE TypeOK'
    BY <1>2 DEF Upsert, TypeOK, clientVars, Scores
  <1>3. ASSUME NEW i \in Ids, NEW d \in {-1, 1}, Vote(i, d) PROVE TypeOK'
    BY <1>3 DEF Vote, TypeOK, clientVars, Scores
  <1>4. CASE Start
    BY <1>4 DEF Start, TypeOK, tableVars, Scores
  <1>5. ASSUME NEW l \in Limits, List(l) PROVE TypeOK'
    BY <1>5, TypeList
  <1>6. CASE UNCHANGED vars
    BY <1>6 DEF vars, tableVars, clientVars, TypeOK, Scores
  <1> QED BY <1>1, <1>2, <1>3, <1>4, <1>5, <1>6 DEF Next

\* Tables, cursors and the client are well typed in every reachable state.
THEOREM TypeCorrect == Spec => []TypeOK
  BY TypeInit, TypeStep, PTL DEF Spec

-----------------------------------------------------------------------------
(* The cursor moves down.                                                  *)

\* What a page and its last row are, relative to the cursor.
LEMMA PageFacts ==
    ASSUME TypeOK, NEW l \in Limits, List(l)
    PROVE  \E P \in SUBSET rows :
             /\ \A i \in P : Below(Key(i))
             /\ \A i \in P, j \in rows \ P : Below(Key(j)) => Less(Key(j), Key(i))
             /\ seen' = [i \in Ids |-> IF i \in P THEN seen[i] + 1 ELSE seen[i]]
             /\ \/ /\ client' = "reading"
                   /\ \E i \in P : /\ \A j \in P \ {i} : Less(Key(i), Key(j))
                                   /\ cursor' = EncodeCursor(i)
                \/ /\ client' = "done" /\ cursor' = NoCursor
                   /\ kind # "continue" => \A i \in rows \ P : ~Below(Key(i))
  BY DEF List, IsPage, More

\* Each page of any of the three listings takes the cursor strictly down.
THEOREM CursorsDescend == Spec => CursorDescends
  <1>1. TypeOK /\ [Next]_vars =>
          [cursor # NoCursor /\ cursor' # NoCursor /\ seen' # seen => Less(cursor', cursor)]_vars
    <2> SUFFICES ASSUME TypeOK, [Next]_vars, cursor # NoCursor, cursor' # NoCursor, seen' # seen
                 PROVE  Less(cursor', cursor)
      OBVIOUS
    <2>1. PICK l \in Limits : List(l)
      BY DEF Next, vars, clientVars, Create, Upsert, Vote, Start
    <2>2. PICK i \in rows : Below(Key(i)) /\ cursor' = EncodeCursor(i)
      BY <2>1, PageFacts
    <2>3. i \in Ids
      BY DEF TypeOK
    <2>4. Less(Key(i), cursor)
      BY <2>2 DEF Below
    <2> QED BY <2>2, <2>3, <2>4, CursorNotAbove, CursorType, KeyType, LessTransitive
  <1> QED BY <1>1, TypeCorrect, PTL DEF Spec, CursorDescends

-----------------------------------------------------------------------------
(* Every row once.                                                         *)

\* A write keeps the split: the rows it leaves in their place have their key.
LEMMA SplitWrite ==
    ASSUME TypeOK, SplitByCursor,
           NEW i \in Ids, NEW t \in 1 .. MaxTime, NEW d \in {-1, 1},
           Create(i, t) \/ Upsert(i, t) \/ Vote(i, d)
    PROVE  SplitByCursor'
  <1>1. UNCHANGED <<kind, client, cursor, seen>> /\ stable' \subseteq stable
    BY DEF Create, Upsert, Vote, clientVars
  <1>2. ASSUME NEW j \in stable' PROVE Key(j)' = Key(j)
    BY <1>2 DEF Create, Upsert, Vote, Key, TypeOK
  <1>3. ASSUME NEW j \in stable' PROVE Below(Key(j))' = Below(Key(j))
    BY <1>1, <1>2, <1>3 DEF Below
  <1> QED BY <1>1, <1>3 DEF SplitByCursor, Returned

\* A page moves the rows it returns across the cursor, and with them only rows
\* that an exact cursor would have left below it.
LEMMA SplitList ==
    ASSUME TypeOK, SplitByCursor, NEW l \in Limits, List(l)
    PROVE  SplitByCursor'
  <1> DEFINE Counted(P) == [i \in Ids |-> IF i \in P THEN seen[i] + 1 ELSE seen[i]]
  <1>1. PICK P \in SUBSET rows :
             /\ \A i \in P : Below(Key(i))
             /\ \A i \in P, j \in rows \ P : Below(Key(j)) => Less(Key(j), Key(i))
             /\ seen' = Counted(P)
             /\ \/ /\ client' = "reading"
                   /\ \E i \in P : /\ \A j \in P \ {i} : Less(Key(i), Key(j))
                                   /\ cursor' = EncodeCursor(i)
                \/ /\ client' = "done" /\ cursor' = NoCursor
                   /\ kind # "continue" => \A i \in rows \ P : ~Below(Key(i))
    BY PageFacts
  <1>2. client = "reading" /\ stable' = stable /\ stable \subseteq rows /\ rows \subseteq Ids
    BY DEF List, TypeOK
  <1>3. UNCHANGED <<kind, rows, time, score>>
    BY DEF List, tableVars
  \* What the page does to the counts.
  <1>4. ASSUME NEW i \in stable
        PROVE  /\ i \in P => Below(Key(i)) /\ seen'[i] = 1
               /\ i \notin P /\ Below(Key(i)) => seen'[i] = 0
               /\ ~Below(Key(i)) => Returned(i)'
    BY <1>1, <1>2, <1>3 DEF SplitByCursor, Returned
  <1>5. CASE client' = "done"
    <2>1. ASSUME NEW i \in stable PROVE Returned(i)'
      BY <1>1, <1>2, <1>3, <1>4, <1>5 DEF Returned
    <2> QED BY <1>2, <1>5, <2>1 DEF SplitByCursor
  <1>6. CASE client' = "reading"
    <2>1. PICK m \in P : /\ \A j \in P \ {m} : Less(Key(m), Key(j))
                         /\ cursor' = EncodeCursor(m)
      BY <1>1, <1>6
    <2>2. \A i \in Ids : Key(i) \in Keys /\ Key(i)' = Key(i)
      BY <1>3, KeyType DEF Key
    <2>3. m \in Ids /\ cursor' # NoCursor /\ cursor' \in Keys
          /\ (cursor' = Key(m) \/ Less(cursor', Key(m)))
      BY <1>2, <2>1, CursorNotAbove DEF EncodeCursor, Key, NoCursor
    <2>4. ASSUME NEW i \in stable
          PROVE  Below(Key(i))' <=> Less(Key(i), cursor')
      BY <1>2, <2>2, <2>3 DEF Below
    \* Below the new cursor: not in the page, and below the old cursor.
    <2>5. ASSUME NEW i \in stable, Less(Key(i), cursor')
          PROVE  i \notin P /\ Below(Key(i))
      <3>1. i \in Ids /\ Less(Key(i), Key(m))
        BY <1>2, <2>2, <2>3, <2>5, LessTransitive
      <3>2. i \notin P
        BY <2>1, <2>2, <2>3, <3>1, LessAsymmetric
      <3>3. Below(Key(i))
        BY <1>1, <2>2, <2>3, <3>1, CursorType, LessTransitive DEF Below
      <3> QED BY <3>2, <3>3
    \* Not below it: in the page, above the old cursor, or cut off.
    <2>6. ASSUME NEW i \in stable, ~Less(Key(i), cursor')
          PROVE  Returned(i)'
      <3>1. CASE i \in P \/ ~Below(Key(i))
        BY <1>4, <3>1 DEF Returned
      <3>2. CASE i \notin P /\ Below(Key(i))
        <4>1. Less(Key(i), Key(m))
          BY <1>1, <1>2, <3>2
        <4>2. kind = "continue"
          BY <2>1, <2>6, <4>1 DEF EncodeCursor
        <4> QED BY <1>3, <1>4, <3>2, <4>2 DEF Returned
      <3> QED BY <3>1, <3>2
    <2>7. ASSUME NEW i \in stable
          PROVE  /\ Below(Key(i))' => seen'[i] = 0
                 /\ ~Below(Key(i))' => Returned(i)'
      BY <1>4, <2>4, <2>5, <2>6
    <2> QED BY <1>2, <1>6, <2>7 DEF SplitByCursor
  <1> QED BY <1>1, <1>5, <1>6

\* Whatever is written meanwhile, a row that was there and has kept its place is
\* returned exactly once by both listings of comments, and never twice by
\* continue watching.
THEOREM EveryRowOnce == Spec => []PagedOnce
  <1>1. Init => SplitByCursor
    BY DEF Init, SplitByCursor
  <1>2. TypeOK /\ SplitByCursor /\ [Next]_vars => SplitByCursor'
    <2> SUFFICES ASSUME TypeOK, SplitByCursor, [Next]_vars PROVE SplitByCursor'
      OBVIOUS
    <2>1. CASE Start
      <3>1. \A i \in Ids : seen[i] = 0 /\ (Below(Key(i)))'
        BY <2>1 DEF Start, SplitByCursor, Below
      <3> QED BY <2>1, <3>1 DEF Start, SplitByCursor, TypeOK
    <2>2. CASE UNCHANGED vars
      BY <2>2 DEF vars, tableVars, clientVars, SplitByCursor, Returned, Below, Key
    <2>3. ASSUME NEW i \in Ids, NEW t \in 1 .. MaxTime, Create(i, t) \/ Upsert(i, t)
          PROVE  SplitByCursor'
      BY <2>3, SplitWrite
    <2>4. ASSUME NEW i \in Ids, NEW d \in {-1, 1}, Vote(i, d) PROVE SplitByCursor'
      <3>1. 1 \in 1 .. MaxTime
        BY PaginationAssumption DEF PaginationAssumption
      <3> QED BY <2>4, <3>1, SplitWrite
    <2>5. ASSUME NEW l \in Limits, List(l) PROVE SplitByCursor'
      BY <2>5, SplitList
    <2> QED BY <2>1, <2>2, <2>3, <2>4, <2>5 DEF Next
  <1>3. TypeOK /\ SplitByCursor => PagedOnce
    BY DEF SplitByCursor, Returned, PagedOnce, TypeOK
  <1> QED BY <1>1, <1>2, <1>3, TypeCorrect, PTL DEF Spec

-----------------------------------------------------------------------------
(* Playback.                                                               *)

\* At most one tick passes while a Watch has a playback to sign.
Late(u) == IF ticked[u] THEN 1 ELSE 0

\* An entry of the cache and the TTL it has left make up the TTL, or a tick more.
CacheAge == cache # None /\ cache.src # Empty => cache.src + cache.left <= CacheTTL + 1

\* What a Watch or a playback holds, and how old it is.  Only a Watch that waits
\* for the provider has a call inside the breaker.
AgesAt(u) ==
    /\ calling[u] => pc[u] \in {"servers", "sources"}
    /\ pc[u] # "view" => link[u] = None /\ watched[u] = 0
    /\ pc[u] \in {"idle", "cache", "episode", "servers", "sources"} => src[u] = None
    /\ pc[u] = "set" => src[u] # None /\ (src[u] # Empty => src[u] <= Late(u))
    /\ pc[u] = "sign" => src[u] # None /\ (src[u] # Empty => src[u] <= CacheTTL + Late(u))
    /\ pc[u] = "view" =>
        /\ link[u] # None /\ src[u] \in Ages
        /\ link[u].sig = <<link[u].url, link[u].exp>>
        /\ watched[u] = LinkLife - link[u].exp
        /\ link[u].exp >= 0 => src[u] <= CacheTTL + 1 + watched[u]

PlayInv == PlaybackTypeOK /\ CacheAge /\ \A u \in Users : AgesAt(u)

\* The states of the breaker.
Breakers == [state : {"closed", "open", "half"}, failures : 0 .. Threshold - 1,
             requests : 0 .. MaxRequests, successes : 0 .. MaxRequests - 1]

\* The types of the breaker and of what a Watch holds.
BreakerTypes ==
    /\ up \in BOOLEAN
    /\ breaker \in Breakers
    /\ gone \in [Users -> BOOLEAN]
    /\ calling \in [Users -> BOOLEAN]
    /\ attempt \in [Users -> 0 .. MaxRetries]
    /\ counted \in [Users -> BOOLEAN]

WatchTypes ==
    /\ cache \in {None} \cup [src : Sources, left : 1 .. CacheTTL]
    /\ pc \in [Users -> {"idle", "cache", "episode", "servers", "sources", "set", "sign", "view"}]
    /\ ticked \in [Users -> BOOLEAN]
    /\ src \in [Users -> {None} \cup Sources]
    /\ link \in [Users -> {None} \cup Links]
    /\ watched \in [Users -> Ages]

\* The type invariant is made of them.
LEMMA PlayTypes == PlaybackTypeOK <=> BreakerTypes /\ WatchTypes
  BY DEF PlaybackTypeOK, BreakerTypes, WatchTypes, Breakers

\* The constants.
LEMMA PlayConstants ==
    /\ CacheTTL \in Nat /\ CacheTTL >= 1 /\ LinkLife \in Nat /\ MaxAge \in Nat
    /\ MaxAge = CacheTTL + LinkLife + 2 /\ Ages = 0 .. MaxAge /\ 0 \in Ages
    /\ None \notin Ages /\ Empty \notin Ages /\ None # Empty /\ None \notin Links
    /\ MaxRetries \in Nat /\ Threshold \in Nat /\ Threshold >= 1
    /\ MaxRequests \in Nat /\ MaxRequests >= 1
    /\ Master \in Urls /\ Children \in [Urls -> SUBSET Urls]
  BY PlaybackAssumption, LinkAssumption DEF PlaybackAssumption, LinkAssumption, MaxAge, Ages

\* A tick makes an age one larger, as long as it is counted.
LEMMA OlderAge ==
    /\ \A x \in Ages : Older(x) \in Ages /\ Older(x) <= x + 1
    /\ \A x \in Ages : x # MaxAge => Older(x) = x + 1
    /\ Older(None) = None /\ Older(Empty) = Empty
  <1>1. ASSUME NEW x \in Ages
        PROVE  Older(x) \in Ages /\ Older(x) <= x + 1 /\ (x # MaxAge => Older(x) = x + 1)
    <2>1. x # None /\ x # Empty /\ x \in 0 .. MaxAge /\ MaxAge \in Nat /\ Ages = 0 .. MaxAge
      BY PlayConstants
    <2>2. CASE x = MaxAge
      BY <2>1, <2>2 DEF Older
    <2>3. CASE x # MaxAge
      BY <2>1, <2>3 DEF Older
    <2> QED BY <2>2, <2>3
  <1>2. Older(None) = None /\ Older(Empty) = Empty
    BY DEF Older
  <1> QED BY <1>1, <1>2

\* A tick brings the expiry of a link nearer, until it has passed.
LEMMA SoonerExp ==
    ASSUME NEW x \in Exps
    PROVE  /\ Sooner(x) \in Exps /\ x \in Int /\ x <= LinkLife
           /\ x # -1 => Sooner(x) = x - 1 /\ x >= 0
           /\ x = -1 => Sooner(x) = -1
  <1>1. x \in Int /\ x <= LinkLife /\ -1 <= x /\ LinkLife \in Nat
    BY PlayConstants DEF Exps
  <1>2. CASE x = -1
    BY <1>1, <1>2 DEF Sooner, Exps
  <1>3. CASE x # -1
    BY <1>1, <1>3 DEF Sooner, Exps
  <1> QED BY <1>2, <1>3

\* What a tick makes of a link that is signed.
LEMMA SoonerLink ==
    ASSUME NEW l \in Links, l.sig = <<l.url, l.exp>>,
           NEW m, m = [l EXCEPT !.exp = Sooner(@), !.sig[2] = Sooner(@)]
    PROVE  /\ m.url = l.url /\ m.exp = Sooner(l.exp) /\ m.sig = <<l.url, Sooner(l.exp)>>
           /\ m = [url |-> l.url, exp |-> Sooner(l.exp), sig |-> <<l.url, Sooner(l.exp)>>]
  <1> DEFINE e == Sooner(l.exp)
             f == [l EXCEPT !.exp = e]
  <1>1. l = [url |-> l.url, exp |-> l.exp, sig |-> l.sig]
    BY DEF Links
  <1>2. f = [url |-> l.url, exp |-> e, sig |-> l.sig]
    BY <1>1
  <1>3. f.sig = <<l.url, l.exp>>
    BY <1>2
  <1>4. m = [f EXCEPT !.sig = [f.sig EXCEPT ![2] = Sooner(f.sig[2])]]
    OBVIOUS
  <1>5. f.sig[2] = l.exp
    BY <1>3
  <1>6. [f.sig EXCEPT ![2] = Sooner(f.sig[2])] = <<l.url, e>>
    BY <1>3, <1>5
  <1>7. m = [f EXCEPT !.sig = <<l.url, e>>]
    BY <1>4, <1>6
  <1>8. m = [url |-> l.url, exp |-> e, sig |-> <<l.url, e>>]
    BY <1>2, <1>7
  <1> HIDE DEF e
  <1>9. \A a, b, c, r : r = [url |-> a, exp |-> b, sig |-> c] =>
                        r.url = a /\ r.exp = b /\ r.sig = c
    OBVIOUS
  <1>10. m.url = l.url /\ m.exp = e /\ m.sig = <<l.url, e>>
    BY ONLY <1>8, <1>9
  <1> QED BY <1>8, <1>10 DEF e

\* What a tick makes of an entry of the cache that is not at its end.
LEMMA OlderEntry ==
    ASSUME NEW c \in [src : Sources, left : 1 .. CacheTTL], c.left # 1,
           NEW d, d = [src |-> Older(c.src), left |-> c.left - 1]
    PROVE  /\ d \in [src : Sources, left : 1 .. CacheTTL]
           /\ c.src = Empty => d.src = Empty
           /\ c.src # Empty => c.src \in Ages /\ d.src \in Ages /\ d.src <= c.src + 1
           /\ c.left \in Int /\ d.left = c.left - 1
  <1>1. c.src \in Sources /\ c.left \in 1 .. CacheTTL /\ CacheTTL \in Nat
    BY PlayConstants
  <1>2. d.src = Older(c.src) /\ d.left = c.left - 1
    OBVIOUS
  <1>3. Older(c.src) \in Sources
    BY <1>1, OlderAge DEF Sources
  <1>4. c.left - 1 \in 1 .. CacheTTL /\ c.left \in Int
    BY <1>1
  <1>5. d \in [src : Sources, left : 1 .. CacheTTL]
    BY <1>3, <1>4
  <1>6. c.src = Empty => d.src = Empty
    BY <1>2, OlderAge
  <1>7. c.src # Empty => c.src \in Ages /\ d.src \in Ages /\ d.src <= c.src + 1
    BY <1>1, <1>2, OlderAge DEF Sources
  <1> QED BY <1>2, <1>4, <1>5, <1>6, <1>7

\* A user to whom nothing happens.
LEMMA Untouched ==
    ASSUME NEW v \in Users, AgesAt(v), pc'[v] = pc[v], ticked'[v] = ticked[v],
           src'[v] = src[v], link'[v] = link[v], watched'[v] = watched[v],
           calling'[v] = calling[v]
    PROVE  AgesAt(v)'
  BY DEF AgesAt, Late

\* Nothing happens to anybody's Watch.
LEMMA NobodyTouched ==
    ASSUME PlayInv, BreakerTypes', UNCHANGED <<cache, pc, ticked, calling, src, link, watched>>
    PROVE  PlayInv'
  <1>1. WatchTypes'
    BY PlayTypes DEF PlayInv, WatchTypes
  <1>2. PlaybackTypeOK'
    BY <1>1 DEF BreakerTypes, WatchTypes, PlaybackTypeOK, Breakers
  <1>3. CacheAge'
    BY DEF PlayInv, CacheAge
  <1>4. \A v \in Users : AgesAt(v)'
    BY Untouched DEF PlayInv
  <1> QED BY <1>2, <1>3, <1>4 DEF PlayInv

\* One user's Watch takes a step.
LEMMA OneTouched ==
    ASSUME PlayInv, NEW u \in Users, BreakerTypes', WatchTypes', CacheAge', AgesAt(u)',
           \A v \in Users : v # u =>
                /\ pc'[v] = pc[v] /\ ticked'[v] = ticked[v] /\ src'[v] = src[v]
                /\ link'[v] = link[v] /\ watched'[v] = watched[v] /\ calling'[v] = calling[v]
    PROVE  PlayInv'
  <1>1. PlaybackTypeOK'
    BY DEF BreakerTypes, WatchTypes, PlaybackTypeOK, Breakers
  <1>2. \A v \in Users : AgesAt(v)'
    BY Untouched DEF PlayInv
  <1> QED BY <1>1, <1>2 DEF PlayInv

-----------------------------------------------------------------------------
(* Playback: the steps.                                                    *)

\* Time passes.
LEMMA TickPlay ==
    ASSUME PlayInv, Tick
    PROVE  PlayInv'
  <1>1. BreakerTypes /\ WatchTypes
    BY PlayTypes DEF PlayInv
  <1>2. UNCHANGED <<up, breaker, pc, gone, callVars>>
    BY DEF Tick
  <1>3. BreakerTypes'
    BY <1>1, <1>2 DEF BreakerTypes, callVars
  <1>4. /\ ticked' = [u \in Users |-> Holding(u)]
        /\ cache' = Expire(cache)
        /\ src' = [u \in Users |-> IF Dead(u) THEN src[u] ELSE Older(src[u])]
        /\ link' = [u \in Users |-> IF link[u] = None THEN None
                       ELSE [link[u] EXCEPT !.exp = Sooner(@), !.sig[2] = Sooner(@)]]
        /\ watched' = [u \in Users |-> IF link[u] = None \/ Dead(u) THEN watched[u]
                                       ELSE Older(watched[u])]
        /\ \A u \in Users : Holding(u) => ~ticked[u]
    BY DEF Tick
  <1>5. cache' \in {None} \cup [src : Sources, left : 1 .. CacheTTL] /\ CacheAge'
    <2>1. CASE cache = None \/ cache.left = 1
      BY <1>4, <2>1 DEF Expire, CacheAge
    <2>2. CASE cache # None /\ cache.left # 1
      <3>1. cache \in [src : Sources, left : 1 .. CacheTTL]
        BY <1>1, <2>2 DEF WatchTypes
      <3>2. cache' = [src |-> Older(cache.src), left |-> cache.left - 1]
        BY <1>4, <2>2 DEF Expire
      <3>3. /\ cache' \in [src : Sources, left : 1 .. CacheTTL]
            /\ cache.src = Empty => cache'.src = Empty
            /\ cache.src # Empty =>
                  cache.src \in Ages /\ cache'.src \in Ages /\ cache'.src <= cache.src + 1
            /\ cache.left \in Int /\ cache'.left = cache.left - 1
        BY <2>2, <3>1, <3>2, OlderEntry
      <3>4. cache.src # Empty => cache.src + cache.left <= CacheTTL + 1
        BY <2>2 DEF PlayInv, CacheAge
      <3>5. cache.src # Empty => cache'.src + cache'.left <= CacheTTL + 1
        <4>1. \A a, b \in Ages, n, k \in Int : b <= a + 1 /\ a + n <= k => b + (n - 1) <= k
          BY DEF Ages
        <4>2. CacheTTL + 1 \in Int
          BY PlayConstants
        <4> QED BY <3>3, <3>4, <4>1, <4>2
      <3> QED BY <3>3, <3>5 DEF CacheAge
    <2> QED BY <2>1, <2>2
  <1>6. ASSUME NEW u \in Users
        PROVE  /\ AgesAt(u)' /\ src'[u] \in {None} \cup Sources
               /\ link'[u] \in {None} \cup Links /\ watched'[u] \in Ages
               /\ ticked'[u] \in BOOLEAN
    <2>1. AgesAt(u)
      BY DEF PlayInv
    <2>2. ticked'[u] = Holding(u) /\ pc'[u] = pc[u] /\ calling'[u] = calling[u]
      BY <1>2, <1>4 DEF callVars
    <2>. (calling[u] => pc[u] \in {"servers", "sources"})'
      BY <2>1, <2>2 DEF AgesAt
    <2>3. ticked'[u] \in BOOLEAN
      BY <2>2 DEF Holding
    <2>4. CASE pc[u] # "view"
      <3>1. link[u] = None /\ watched[u] = 0 /\ ~Dead(u)
        BY <2>1, <2>4 DEF AgesAt, Dead
      <3>2. link'[u] = None /\ watched'[u] = 0 /\ src'[u] = Older(src[u])
        BY <1>4, <3>1
      <3>3. src[u] \in {None} \cup Sources
        BY <1>1 DEF WatchTypes
      <3>4. src'[u] \in {None} \cup Sources
        BY <3>2, <3>3, OlderAge DEF Sources
      <3>5. CASE src[u] \in {None, Empty}
        <4>1. src'[u] = src[u]
          BY <3>2, <3>5, OlderAge
        <4>2. AgesAt(u)'
          BY <2>1, <2>2, <2>4, <3>2, <3>5, <4>1, PlayConstants DEF AgesAt
        <4> QED BY <2>3, <3>2, <3>4, <4>2, PlayConstants
      <3>6. CASE src[u] \notin {None, Empty}
        <4>1. src[u] \in Ages /\ pc[u] \in {"set", "sign"}
          BY <1>1, <2>1, <2>4, <3>3, <3>6 DEF Sources, AgesAt, WatchTypes
        <4>2. src'[u] \in Ages /\ src'[u] <= src[u] + 1
          BY <3>2, <4>1, OlderAge
        <4>3. Holding(u)
          BY <4>1 DEF Holding
        <4>4. Late(u) = 0 /\ Late(u)' = 1
          BY <1>4, <2>2, <4>3 DEF Late
        <4>5. /\ pc[u] = "set" => src'[u] <= Late(u)'
              /\ pc[u] = "sign" => src'[u] <= CacheTTL + Late(u)'
          BY <2>1, <3>6, <4>1, <4>2, <4>4, PlayConstants DEF AgesAt
        <4>6. src'[u] # None /\ src'[u] # Empty
          BY <4>2, PlayConstants
        <4>7. AgesAt(u)'
          BY <2>2, <3>2, <4>1, <4>5, <4>6 DEF AgesAt
        <4> QED BY <2>3, <3>2, <3>4, <4>7, PlayConstants
      <3> QED BY <3>5, <3>6
    <2>5. CASE pc[u] = "view"
      <3>1. PICK l : l = link[u]
        OBVIOUS
      <3>2. /\ l # None /\ src[u] \in Ages /\ l.sig = <<l.url, l.exp>>
            /\ watched[u] = LinkLife - l.exp
            /\ l.exp >= 0 => src[u] <= CacheTTL + 1 + watched[u]
        BY <2>1, <2>5, <3>1 DEF AgesAt
      <3>3. l \in Links /\ watched[u] \in Ages
        BY <1>1, <3>1, <3>2 DEF WatchTypes
      <3>4. l.exp \in Exps /\ l.url \in Urls
        BY <3>3 DEF Links
      <3>5. PICK m : m = link'[u]
        OBVIOUS
      <3>6. m = [l EXCEPT !.exp = Sooner(@), !.sig[2] = Sooner(@)]
        BY <1>4, <3>1, <3>2, <3>5
      <3>7. /\ m.url = l.url /\ m.exp = Sooner(l.exp) /\ m.sig = <<m.url, m.exp>>
            /\ m = [url |-> l.url, exp |-> Sooner(l.exp), sig |-> <<l.url, Sooner(l.exp)>>]
        BY <3>2, <3>3, <3>6, SoonerLink
      <3>8. /\ Sooner(l.exp) \in Exps /\ l.exp \in Int /\ l.exp <= LinkLife
            /\ l.exp # -1 => Sooner(l.exp) = l.exp - 1 /\ l.exp >= 0
            /\ l.exp = -1 => Sooner(l.exp) = -1
        BY <3>4, SoonerExp
      <3>9. m \in Links /\ m # None
        BY <3>4, <3>7, <3>8, PlayConstants DEF Links
      <3>10. CASE l.exp = -1
        <4>1. src'[u] = src[u] /\ watched'[u] = watched[u]
          BY <1>4, <3>1, <3>2, <3>10 DEF Dead
        <4>2. m.exp = l.exp /\ ~(m.exp >= 0)
          BY <3>7, <3>8, <3>10
        <4>3. AgesAt(u)'
          BY <2>2, <2>5, <3>2, <3>5, <3>7, <3>9, <4>1, <4>2 DEF AgesAt
        <4> QED BY <2>3, <3>2, <3>3, <3>5, <3>9, <4>1, <4>3 DEF Sources
      <3>11. CASE l.exp # -1
        <4>1. src'[u] = Older(src[u]) /\ watched'[u] = Older(watched[u])
          BY <1>4, <3>1, <3>2, <3>11 DEF Dead
        <4>2. watched[u] <= LinkLife /\ watched[u] # MaxAge
          BY <3>2, <3>8, <3>11, PlayConstants
        <4>3. /\ watched'[u] = watched[u] + 1 /\ watched'[u] \in Ages
              /\ src'[u] \in Ages /\ src'[u] <= src[u] + 1
          BY <3>2, <3>3, <4>1, <4>2, OlderAge
        <4>4. watched'[u] = LinkLife - m.exp
          BY <3>2, <3>7, <3>8, <3>11, <4>3, PlayConstants
        <4>5. src'[u] <= CacheTTL + 1 + watched'[u]
          <5>1. src[u] <= CacheTTL + 1 + watched[u]
            BY <3>2, <3>8, <3>11
          <5>2. \A a, b, w \in Ages, k \in Int :
                   b <= a + 1 /\ a <= k + w => b <= k + (w + 1)
            BY DEF Ages
          <5>3. CacheTTL + 1 \in Int
            BY PlayConstants
          <5> QED BY <3>2, <3>3, <4>3, <5>1, <5>2, <5>3
        <4>6. AgesAt(u)'
          BY <2>2, <2>5, <3>5, <3>7, <3>9, <4>3, <4>4, <4>5 DEF AgesAt
        <4> QED BY <2>3, <3>5, <3>9, <4>3, <4>6 DEF Sources
      <3> QED BY <3>10, <3>11
    <2> QED BY <2>4, <2>5
  <1>7. WatchTypes'
    BY <1>1, <1>2, <1>4, <1>5, <1>6 DEF WatchTypes
  <1>8. PlaybackTypeOK'
    BY <1>3, <1>7 DEF BreakerTypes, WatchTypes, PlaybackTypeOK, Breakers
  <1> QED BY <1>5, <1>6, <1>8 DEF PlayInv

\* The breaker stays within its type, whatever becomes of a call.
LEMMA BreakerOutcome ==
    ASSUME NEW b \in Breakers
    PROVE  /\ OnSuccess(b) \in Breakers /\ OnFailure(b) \in Breakers
           /\ \A s \in {"closed", "open", "half"} : NewGeneration(s) \in Breakers
  <1>1. /\ b.state \in {"closed", "open", "half"} /\ b.failures \in 0 .. Threshold - 1
        /\ b.requests \in 0 .. MaxRequests /\ b.successes \in 0 .. MaxRequests - 1
        /\ b = [state |-> b.state, failures |-> b.failures,
                requests |-> b.requests, successes |-> b.successes]
    BY DEF Breakers
  <1>2. Threshold \in Nat /\ Threshold >= 1 /\ MaxRequests \in Nat /\ MaxRequests >= 1
    BY PlayConstants
  <1>3. \A s \in {"closed", "open", "half"} : NewGeneration(s) \in Breakers
    BY <1>2 DEF NewGeneration, Breakers
  <1>4. \A n \in 0 .. Threshold - 1 : [b EXCEPT !.failures = n] \in Breakers
    BY DEF Breakers
  <1>5. \A n \in 0 .. MaxRequests - 1 : [b EXCEPT !.successes = n] \in Breakers
    BY DEF Breakers
  <1>6. OnSuccess(b) \in Breakers
    <2>1. 0 \in 0 .. Threshold - 1
      BY <1>2
    <2>2. b.successes + 1 >= MaxRequests \/ b.successes + 1 \in 0 .. MaxRequests - 1
      BY <1>1, <1>2
    <2> QED BY <1>3, <1>4, <1>5, <2>1, <2>2 DEF OnSuccess
  <1>7. OnFailure(b) \in Breakers
    <2>1. ReadyToTrip(b.failures + 1) \/ b.failures + 1 \in 0 .. Threshold - 1
      BY <1>1, <1>2 DEF ReadyToTrip
    <2> QED BY <1>3, <1>4, <2>1 DEF OnFailure
  <1> QED BY <1>3, <1>6, <1>7

\* A call ends.
LEMMA AfterRequestTypes ==
    ASSUME BreakerTypes, NEW u \in Users, NEW b \in Breakers, AfterRequest(u, b),
           UNCHANGED <<up, gone>>
    PROVE  /\ BreakerTypes' /\ ~calling'[u]
           /\ \A v \in Users : v # u => calling'[v] = calling[v]
  <1>1. breaker' \in Breakers
    BY DEF AfterRequest, BreakerTypes
  <1>2. calling' = [calling EXCEPT ![u] = FALSE]
    BY DEF AfterRequest
  <1>3. calling' \in [Users -> BOOLEAN]
    BY <1>2, Zenon DEF BreakerTypes
  <1>4. ~calling'[u] /\ \A v \in Users : v # u => calling'[v] = calling[v]
    BY <1>2 DEF BreakerTypes
  <1>5. attempt' \in [Users -> 0 .. MaxRetries]
    BY PlayConstants DEF AfterRequest, BreakerTypes
  <1>6. counted' \in [Users -> BOOLEAN]
    BY DEF AfterRequest
  <1> QED BY <1>1, <1>3, <1>4, <1>5, <1>6 DEF BreakerTypes

\* An interval of the breaker runs out.
LEMMA RenewPlay ==
    ASSUME PlayInv, ClearCounts \/ HalfOpen
    PROVE  PlayInv'
  <1>1. BreakerTypes
    BY PlayTypes DEF PlayInv
  <1>2. PICK s \in {"closed", "half"} :
            /\ breaker' = NewGeneration(s)
            /\ counted' = [u \in Users |-> FALSE]
            /\ UNCHANGED <<up, cache, pc, gone, ticked, calling, attempt, src, link, watched>>
    BY DEF ClearCounts, HalfOpen, Renew
  <1>3. breaker' \in Breakers
    BY <1>1, <1>2, BreakerOutcome DEF BreakerTypes
  <1>4. counted' \in [Users -> BOOLEAN]
    BY <1>2
  <1>5. BreakerTypes'
    BY <1>1, <1>2, <1>3, <1>4 DEF BreakerTypes
  <1> QED BY <1>2, <1>5, NobodyTouched

\* The provider goes down or comes back.
LEMMA ProviderPlay ==
    ASSUME PlayInv, ProviderChanges
    PROVE  PlayInv'
  <1>1. BreakerTypes
    BY PlayTypes DEF PlayInv
  <1>2. up' = ~up /\ UNCHANGED <<cache, breaker, pc, gone, ticked, callVars, src, link, watched>>
    BY DEF ProviderChanges
  <1>3. up' \in BOOLEAN
    BY <1>2
  <1>4. BreakerTypes'
    BY <1>1, <1>2, <1>3 DEF BreakerTypes, callVars
  <1> QED BY <1>2, <1>4, NobodyTouched DEF callVars

\* A client goes away.
LEMMA GoAwayPlay ==
    ASSUME PlayInv, NEW u \in Users, GoAway(u)
    PROVE  PlayInv'
  <1>1. BreakerTypes
    BY PlayTypes DEF PlayInv
  <1>2. /\ gone' = [gone EXCEPT ![u] = TRUE]
        /\ UNCHANGED <<up, cache, breaker, pc, ticked, callVars, src, link, watched>>
    BY DEF GoAway
  <1>3. gone' \in [Users -> BOOLEAN]
    BY <1>1, <1>2, Zenon DEF BreakerTypes
  <1>4. BreakerTypes'
    BY <1>1, <1>2, <1>3 DEF BreakerTypes, callVars
  <1> QED BY <1>2, <1>4, NobodyTouched DEF callVars

\* A call is tried again.
LEMMA RetryPlay ==
    ASSUME PlayInv, NEW u \in Users, Retry(u)
    PROVE  PlayInv'
  <1>1. BreakerTypes
    BY PlayTypes DEF PlayInv
  <1>2. /\ attempt' = [attempt EXCEPT ![u] = IF @ < MaxRetries THEN @ + 1 ELSE @]
        /\ UNCHANGED <<up, cache, breaker, pc, gone, ticked, calling, counted, src, link, watched>>
    BY DEF Retry
  <1>3. attempt' \in [Users -> 0 .. MaxRetries]
    BY <1>1, <1>2, PlayConstants DEF BreakerTypes
  <1>4. BreakerTypes'
    BY <1>1, <1>2, <1>3 DEF BreakerTypes
  <1> QED BY <1>2, <1>4, NobodyTouched

\* A call enters the breaker.
LEMMA ExecutePlay ==
    ASSUME PlayInv, NEW u \in Users, Execute(u)
    PROVE  PlayInv'
  <1>1. BreakerTypes /\ WatchTypes /\ AgesAt(u) /\ CacheAge
    BY PlayTypes DEF PlayInv
  <1>2. /\ pc[u] \in {"servers", "sources"}
        /\ calling' = [calling EXCEPT ![u] = TRUE]
        /\ counted' = [counted EXCEPT ![u] = TRUE]
        /\ UNCHANGED <<up, cache, pc, gone, ticked, attempt, src, link, watched>>
    BY DEF Execute
  <1>3. breaker' \in Breakers
    <2>1. breaker \in Breakers /\ MaxRequests \in Nat
      BY <1>1, PlayConstants DEF BreakerTypes
    <2>2. CASE breaker.state = "half"
      <3>1. breaker' = [breaker EXCEPT !.requests = @ + 1] /\ breaker.requests < MaxRequests
        BY <2>2 DEF Execute, Admits
      <3>2. breaker.requests \in 0 .. MaxRequests
        BY <2>1 DEF Breakers
      <3>3. breaker.requests + 1 \in 0 .. MaxRequests
        BY <2>1, <3>1, <3>2
      <3>4. \A n \in 0 .. MaxRequests : [breaker EXCEPT !.requests = n] \in Breakers
        BY <2>1 DEF Breakers
      <3> QED BY <3>1, <3>3, <3>4
    <2>3. CASE breaker.state # "half"
      BY <2>1, <2>3 DEF Execute
    <2> QED BY <2>2, <2>3
  <1>4. calling' \in [Users -> BOOLEAN] /\ counted' \in [Users -> BOOLEAN]
    BY <1>1, <1>2, Zenon DEF BreakerTypes
  <1>5. BreakerTypes' /\ WatchTypes' /\ CacheAge'
    BY <1>1, <1>2, <1>3, <1>4 DEF BreakerTypes, WatchTypes, CacheAge
  <1>6. AgesAt(u)'
    BY <1>1, <1>2 DEF AgesAt, Late
  <1>7. \A v \in Users : v # u => calling'[v] = calling[v]
    BY <1>1, <1>2 DEF BreakerTypes
  <1> QED BY <1>2, <1>5, <1>6, <1>7, OneTouched

\* A Watch begins.
LEMMA WatchPlay ==
    ASSUME PlayInv, NEW u \in Users, Watch(u)
    PROVE  PlayInv'
  <1>1. BreakerTypes /\ WatchTypes /\ AgesAt(u) /\ CacheAge
    BY PlayTypes DEF PlayInv
  <1>2. /\ pc' = [pc EXCEPT ![u] = "cache"] /\ gone' = [gone EXCEPT ![u] = FALSE]
        /\ ticked' = [ticked EXCEPT ![u] = FALSE] /\ src' = [src EXCEPT ![u] = None]
        /\ link' = [link EXCEPT ![u] = None] /\ watched' = [watched EXCEPT ![u] = 0]
        /\ UNCHANGED <<up, cache, breaker, callVars>>
    BY DEF Watch
  <1>3. gone' \in [Users -> BOOLEAN] /\ ticked' \in [Users -> BOOLEAN]
    BY <1>1, <1>2, Zenon DEF BreakerTypes, WatchTypes
  <1>4. BreakerTypes' /\ CacheAge'
    BY <1>1, <1>2, <1>3 DEF BreakerTypes, CacheAge, callVars
  <1>5. WatchTypes'
    BY <1>1, <1>2, <1>3, PlayConstants DEF WatchTypes
  <1>6. pc'[u] = "cache" /\ src'[u] = None /\ link'[u] = None /\ watched'[u] = 0
    BY <1>1, <1>2 DEF WatchTypes
  <1>7. ~calling'[u]
    BY <1>1, <1>2 DEF Watch, Resolving, AgesAt, callVars
  <1>8. AgesAt(u)'
    BY <1>6, <1>7 DEF AgesAt
  <1>9. \A v \in Users : v # u =>
          /\ pc'[v] = pc[v] /\ ticked'[v] = ticked[v] /\ src'[v] = src[v]
          /\ link'[v] = link[v] /\ watched'[v] = watched[v] /\ calling'[v] = calling[v]
    BY <1>1, <1>2 DEF WatchTypes, callVars
  <1> QED BY <1>4, <1>5, <1>8, <1>9, OneTouched

\* A Watch goes on, or ends with an error: what it holds is one playback or none.
LEMMA WatchMoves ==
    ASSUME PlayInv, NEW u \in Users, pc[u] # "view",
           NEW p \in {"idle", "cache", "episode", "servers", "sources", "set", "sign"},
           NEW s \in {None} \cup Sources,
           pc' = [pc EXCEPT ![u] = p], src' = [src EXCEPT ![u] = s],
           UNCHANGED <<ticked, link, watched>>,
           BreakerTypes', CacheAge',
           cache' \in {None} \cup [src : Sources, left : 1 .. CacheTTL],
           ~calling'[u], \A v \in Users : v # u => calling'[v] = calling[v],
           p \notin {"set", "sign"} => s = None,
           p = "set" => s # None /\ (s # Empty => s = 0),
           p = "sign" => s # None /\ (s # Empty => s <= CacheTTL + Late(u))
    PROVE  PlayInv'
  <1>1. WatchTypes /\ AgesAt(u)
    BY PlayTypes DEF PlayInv
  <1>2. WatchTypes'
    BY <1>1 DEF WatchTypes
  <1>3. pc'[u] = p /\ src'[u] = s /\ link'[u] = None /\ watched'[u] = 0
    BY <1>1 DEF WatchTypes, AgesAt
  <1>4. Late(u)' = Late(u) /\ 0 <= Late(u)
    BY DEF Late
  <1>5. AgesAt(u)'
    BY <1>3, <1>4 DEF AgesAt
  <1>6. \A v \in Users : v # u =>
          /\ pc'[v] = pc[v] /\ ticked'[v] = ticked[v] /\ src'[v] = src[v]
          /\ link'[v] = link[v] /\ watched'[v] = watched[v] /\ calling'[v] = calling[v]
    BY <1>1 DEF WatchTypes
  <1> QED BY <1>2, <1>5, <1>6, OneTouched

\* The Watch reads the cache and asks the catalog.
LEMMA CachePlay ==
    ASSUME PlayInv, NEW u \in Users,
           CacheHit(u) \/ CacheMiss(u) \/ ResolveEpisode(u) \/ NotFound(u)
    PROVE  PlayInv'
  <1>1. BreakerTypes /\ WatchTypes /\ AgesAt(u) /\ CacheAge
    BY PlayTypes DEF PlayInv
  <1>2. /\ pc[u] \in {"cache", "episode"} /\ src[u] = None /\ ~calling[u]
        /\ UNCHANGED <<up, breaker, gone, ticked, callVars, link, watched>>
    BY <1>1 DEF CacheHit, CacheMiss, ResolveEpisode, NotFound, AgesAt
  <1>3. /\ BreakerTypes' /\ ~calling'[u]
        /\ \A v \in Users : v # u => calling'[v] = calling[v]
    BY <1>1, <1>2 DEF BreakerTypes, callVars
  <1>4. cache' = cache
    BY DEF CacheHit, CacheMiss, ResolveEpisode, NotFound, Get
  <1>5. CacheAge' /\ cache' \in {None} \cup [src : Sources, left : 1 .. CacheTTL]
    BY <1>1, <1>4 DEF CacheAge, WatchTypes
  <1>6. CASE CacheHit(u)
    <2>1. /\ cache # None /\ src' = [src EXCEPT ![u] = cache.src]
          /\ pc' = [pc EXCEPT ![u] = "sign"]
      BY <1>6 DEF CacheHit
    <2>2. PICK s : s = cache.src
      OBVIOUS
    <2>3. cache \in [src : Sources, left : 1 .. CacheTTL]
      BY <1>1, <2>1 DEF WatchTypes
    <2>4. s \in Sources /\ cache.left \in 1 .. CacheTTL
      BY <2>2, <2>3
    <2>5. s # None
      BY <2>4, PlayConstants DEF Sources
    <2>6. s # Empty => s <= CacheTTL + Late(u)
      <3>1. s # Empty => s \in Ages /\ s + cache.left <= CacheTTL + 1
        BY <1>1, <2>1, <2>2, <2>4 DEF CacheAge, Sources
      <3>2. Late(u) \in {0, 1}
        BY DEF Late
      <3> QED BY <2>4, <3>1, <3>2, PlayConstants
    <2> QED BY <1>2, <1>3, <1>5, <2>1, <2>2, <2>4, <2>5, <2>6, WatchMoves
  <1>7. CASE CacheMiss(u)
    <2>1. pc' = [pc EXCEPT ![u] = "episode"] /\ src' = [src EXCEPT ![u] = None]
      BY <1>1, <1>2, <1>7 DEF CacheMiss, WatchTypes
    <2> QED BY <1>2, <1>3, <1>5, <2>1, WatchMoves
  <1>9. CASE ResolveEpisode(u)
    <2>1. pc' = [pc EXCEPT ![u] = "servers"] /\ src' = [src EXCEPT ![u] = None]
      BY <1>1, <1>2, <1>9 DEF ResolveEpisode, WatchTypes
    <2> QED BY <1>2, <1>3, <1>5, <2>1, WatchMoves
  <1>8. CASE NotFound(u)
    <2>1. pc' = [pc EXCEPT ![u] = "idle"] /\ src' = [src EXCEPT ![u] = None]
      BY <1>8 DEF NotFound, Refused
    <2> QED BY <1>2, <1>3, <1>5, <2>1, WatchMoves
  <1> QED BY <1>6, <1>7, <1>8, <1>9

\* The breaker rejects a call.
LEMMA RejectedPlay ==
    ASSUME PlayInv, NEW u \in Users, Rejected(u)
    PROVE  PlayInv'
  <1>1. BreakerTypes /\ WatchTypes /\ AgesAt(u) /\ CacheAge
    BY PlayTypes DEF PlayInv
  <1>2. /\ pc[u] # "view" /\ ~calling[u]
        /\ UNCHANGED <<up, cache, breaker, gone, ticked, callVars, link, watched>>
        /\ pc' = [pc EXCEPT ![u] = "idle"] /\ src' = [src EXCEPT ![u] = None]
    BY DEF Rejected, Refused
  <1>3. /\ BreakerTypes' /\ ~calling'[u]
        /\ \A v \in Users : v # u => calling'[v] = calling[v]
    BY <1>1, <1>2 DEF BreakerTypes, callVars
  <1>4. CacheAge' /\ cache' \in {None} \cup [src : Sources, left : 1 .. CacheTTL]
    BY <1>1, <1>2 DEF CacheAge, WatchTypes
  <1> QED BY <1>2, <1>3, <1>4, WatchMoves

\* A call to the provider ends.
LEMMA CallEndsPlay ==
    ASSUME PlayInv, NEW u \in Users, Answer(u) \/ CallError(u)
    PROVE  PlayInv'
  <1>1. BreakerTypes /\ WatchTypes /\ AgesAt(u) /\ CacheAge
    BY PlayTypes DEF PlayInv
  <1>2. /\ pc[u] \in {"servers", "sources"} /\ src[u] = None
        /\ UNCHANGED <<up, cache, gone, ticked, link, watched>>
    BY <1>1 DEF Answer, CallError, AgesAt
  <1>3. PICK b \in Breakers : AfterRequest(u, b)
    BY <1>1, BreakerOutcome DEF Answer, CallError, BreakerTypes
  <1>4. /\ BreakerTypes' /\ ~calling'[u]
        /\ \A v \in Users : v # u => calling'[v] = calling[v]
    BY <1>1, <1>2, <1>3, AfterRequestTypes
  <1>5. CacheAge' /\ cache' \in {None} \cup [src : Sources, left : 1 .. CacheTTL]
    BY <1>1, <1>2 DEF CacheAge, WatchTypes
  <1>6. CASE pc' = [pc EXCEPT ![u] = "idle"] /\ src' = [src EXCEPT ![u] = None]
    BY <1>2, <1>4, <1>5, <1>6, WatchMoves
  <1>7. CASE pc' = [pc EXCEPT ![u] = "sources"] /\ UNCHANGED src
    <2>1. src' = [src EXCEPT ![u] = None]
      BY <1>1, <1>2, <1>7 DEF WatchTypes
    <2> QED BY <1>2, <1>4, <1>5, <1>7, <2>1, WatchMoves
  <1>8. CASE /\ pc' = [pc EXCEPT ![u] = "set"]
             /\ \E s \in {0, Empty} : src' = [src EXCEPT ![u] = s]
    <2>1. PICK s \in {0, Empty} : src' = [src EXCEPT ![u] = s]
      BY <1>8
    <2>2. s \in Sources /\ s # None
      BY PlayConstants DEF Sources
    <2> QED BY <1>2, <1>4, <1>5, <1>8, <2>1, <2>2, WatchMoves
  <1> QED BY <1>6, <1>7, <1>8 DEF Answer, CallError, Refused

\* The playback goes into the cache.
LEMMA SetPlay ==
    ASSUME PlayInv, NEW u \in Users, Set(u)
    PROVE  PlayInv'
  <1>1. BreakerTypes /\ WatchTypes /\ AgesAt(u) /\ CacheAge
    BY PlayTypes DEF PlayInv
  <1>2. /\ pc[u] = "set" /\ ~calling[u] /\ pc' = [pc EXCEPT ![u] = "sign"]
        /\ UNCHANGED <<up, breaker, gone, ticked, callVars, src, link, watched>>
    BY <1>1 DEF Set, AgesAt
  <1>3. /\ BreakerTypes' /\ ~calling'[u]
        /\ \A v \in Users : v # u => calling'[v] = calling[v]
    BY <1>1, <1>2 DEF BreakerTypes, callVars
  <1>4. PICK s : s = src[u]
    OBVIOUS
  <1>5. s # None /\ (s # Empty => s <= Late(u)) /\ s \in Sources
    BY <1>1, <1>2, <1>4 DEF AgesAt, WatchTypes
  <1>6. src' = [src EXCEPT ![u] = s]
    BY <1>1, <1>2, <1>4 DEF WatchTypes
  <1>7. s # Empty => s \in Ages /\ s <= 1
    <2>1. s # Empty => s \in Ages
      BY <1>5 DEF Sources
    <2>2. Late(u) \in {0, 1}
      BY DEF Late
    <2> QED BY <1>5, <2>1, <2>2, PlayConstants
  <1>8. s # Empty => s <= CacheTTL + Late(u)
    <2>1. Late(u) \in {0, 1}
      BY DEF Late
    <2> QED BY <1>5, <1>7, <2>1, PlayConstants
  <1>9. CacheAge' /\ cache' \in {None} \cup [src : Sources, left : 1 .. CacheTTL]
    <2>1. CASE cache' = cache
      BY <1>1, <2>1 DEF CacheAge, WatchTypes
    <2>2. CASE cache' = [src |-> s, left |-> CacheTTL]
      <3>1. cache'.src = s /\ cache'.left = CacheTTL /\ CacheTTL \in 1 .. CacheTTL
        BY <2>2, PlayConstants
      <3>2. cache' \in [src : Sources, left : 1 .. CacheTTL]
        BY <1>5, <2>2, <3>1
      <3>3. s # Empty => s + CacheTTL <= CacheTTL + 1
        BY <1>7, PlayConstants
      <3> QED BY <3>1, <3>2, <3>3 DEF CacheAge
    <2> QED BY <1>4, <2>1, <2>2 DEF Set
  <1> QED BY <1>2, <1>3, <1>5, <1>6, <1>8, <1>9, WatchMoves

\* One user's link changes.
LEMMA LinkMoves ==
    ASSUME PlayInv, NEW u \in Users, ~calling[u],
           NEW p \in {"idle", "view"}, NEW s \in {None} \cup Ages,
           NEW l \in {None} \cup Links, NEW w \in Ages,
           pc' = [pc EXCEPT ![u] = p], src' = [src EXCEPT ![u] = s],
           link' = [link EXCEPT ![u] = l], watched' = [watched EXCEPT ![u] = w],
           UNCHANGED <<up, cache, breaker, gone, ticked, callVars>>,
           p = "idle" => s = None /\ l = None /\ w = 0,
           p = "view" => /\ s \in Ages /\ l # None /\ l.sig = <<l.url, l.exp>>
                         /\ w = LinkLife - l.exp
                         /\ l.exp >= 0 => s <= CacheTTL + 1 + w
    PROVE  PlayInv'
  <1>1. BreakerTypes /\ WatchTypes /\ AgesAt(u) /\ CacheAge
    BY PlayTypes DEF PlayInv
  <1>2. BreakerTypes' /\ CacheAge'
    BY <1>1 DEF BreakerTypes, CacheAge, callVars
  <1>3. WatchTypes'
    BY <1>1 DEF WatchTypes, Sources
  <1>4. pc'[u] = p /\ src'[u] = s /\ link'[u] = l /\ watched'[u] = w /\ ~calling'[u]
    BY <1>1 DEF WatchTypes, callVars
  <1>5. AgesAt(u)'
    BY <1>4 DEF AgesAt
  <1>6. \A v \in Users : v # u =>
          /\ pc'[v] = pc[v] /\ ticked'[v] = ticked[v] /\ src'[v] = src[v]
          /\ link'[v] = link[v] /\ watched'[v] = watched[v] /\ calling'[v] = calling[v]
    BY <1>1 DEF WatchTypes, callVars
  <1> QED BY <1>2, <1>3, <1>5, <1>6, OneTouched

\* The link is signed and the playback begins.
LEMMA SignPlay ==
    ASSUME PlayInv, NEW u \in Users, Sign(u)
    PROVE  PlayInv'
  <1>1. BreakerTypes /\ WatchTypes /\ AgesAt(u) /\ CacheAge
    BY PlayTypes DEF PlayInv
  <1>2. /\ pc[u] = "sign" /\ ~calling[u]
        /\ UNCHANGED <<up, cache, breaker, gone, ticked, callVars, watched>>
    BY <1>1 DEF Sign, AgesAt
  <1>3. /\ src[u] # None /\ (src[u] # Empty => src[u] <= CacheTTL + Late(u))
        /\ link[u] = None /\ watched[u] = 0 /\ src[u] \in Sources
    BY <1>1, <1>2 DEF AgesAt, WatchTypes
  <1>4. CASE src[u] = Empty \/ gone[u]
    <2>1. /\ pc' = [pc EXCEPT ![u] = "idle"] /\ src' = [src EXCEPT ![u] = None]
          /\ UNCHANGED <<ticked, link, watched>>
      BY <1>2, <1>4 DEF Sign, Refused
    <2>2. /\ BreakerTypes' /\ CacheAge' /\ ~calling'[u]
          /\ \A v \in Users : v # u => calling'[v] = calling[v]
      BY <1>1, <1>2 DEF BreakerTypes, CacheAge, callVars
    <2>3. cache' \in {None} \cup [src : Sources, left : 1 .. CacheTTL]
      BY <1>1, <1>2 DEF WatchTypes
    <2> QED BY <1>2, <2>1, <2>2, <2>3, WatchMoves
  <1>5. CASE ~(src[u] = Empty \/ gone[u])
    <2>1. PICK l : l = [url |-> Master, exp |-> LinkLife, sig |-> <<Master, LinkLife>>]
      OBVIOUS
    <2>2. /\ pc' = [pc EXCEPT ![u] = "view"] /\ UNCHANGED src
          /\ link' = [link EXCEPT ![u] = l]
      BY <1>5, <2>1 DEF Sign, SignValue
    <2>3. LinkLife \in Exps /\ Master \in Urls
      BY PlayConstants DEF Exps
    <2>4. l \in Links /\ l # None
      BY <2>1, <2>3, PlayConstants DEF Links
    <2>5. l.sig = <<l.url, l.exp>> /\ 0 = LinkLife - l.exp /\ l.exp >= 0
      BY <2>1, PlayConstants
    <2>6. PICK s : s = src[u]
      OBVIOUS
    <2>7. s \in Ages
      BY <1>3, <1>5, <2>6 DEF Sources
    <2>8. s <= CacheTTL + 1 + 0
      <3>1. Late(u) \in {0, 1}
        BY DEF Late
      <3> QED BY <1>3, <1>5, <2>6, <2>7, <3>1, PlayConstants
    <2>9. src' = [src EXCEPT ![u] = s] /\ watched' = [watched EXCEPT ![u] = 0]
      BY <1>1, <1>2, <1>3, <2>2, <2>6 DEF WatchTypes
    <2> QED BY <1>2, <2>2, <2>4, <2>5, <2>7, <2>8, <2>9, PlayConstants, LinkMoves
  <1> QED BY <1>4, <1>5

\* The proxy serves a link.
LEMMA ProxyPlay ==
    ASSUME PlayInv, NEW u \in Users, Proxy(u)
    PROVE  PlayInv'
  <1>1. BreakerTypes /\ WatchTypes /\ AgesAt(u)
    BY PlayTypes DEF PlayInv
  <1>2. /\ pc[u] = "view" /\ ~calling[u]
        /\ UNCHANGED <<up, cache, breaker, pc, gone, ticked, callVars, src, watched>>
    BY <1>1 DEF Proxy, AgesAt
  <1>3. PICK l : l = link[u]
    OBVIOUS
  <1>4. PICK s, w : s = src[u] /\ w = watched[u]
    OBVIOUS
  <1>5. /\ l # None /\ s \in Ages
        /\ w = LinkLife - l.exp
        /\ l.exp >= 0 => s <= CacheTTL + 1 + w
    BY <1>1, <1>2, <1>3, <1>4 DEF AgesAt
  <1>6. l \in Links /\ w \in Ages
    BY <1>1, <1>3, <1>4, <1>5 DEF WatchTypes
  <1>7. l.url \in Urls /\ l.exp \in Exps
    BY <1>6 DEF Links
  <1>8. PICK t \in Children[l.url] :
            link' = [link EXCEPT ![u] = [url |-> t, exp |-> l.exp, sig |-> <<t, l.exp>>]]
    BY <1>3 DEF Proxy, Rewritten, References, BuildProxyURL, SignURL, RewriteExp
  <1>9. t \in Urls
    BY <1>7, PlayConstants
  <1>10. PICK m : m = [url |-> t, exp |-> l.exp, sig |-> <<t, l.exp>>]
    OBVIOUS
  <1>11. m \in Links /\ m # None
    BY <1>7, <1>9, <1>10, PlayConstants DEF Links
  <1>12. m.sig = <<m.url, m.exp>> /\ m.exp = l.exp
    BY <1>10
  <1>13. /\ pc' = [pc EXCEPT ![u] = "view"] /\ src' = [src EXCEPT ![u] = s]
         /\ watched' = [watched EXCEPT ![u] = w] /\ link' = [link EXCEPT ![u] = m]
    BY <1>1, <1>2, <1>4, <1>8, <1>10 DEF WatchTypes
  <1> QED BY <1>2, <1>5, <1>6, <1>11, <1>12, <1>13, LinkMoves

\* The proxy refuses a link.
LEMMA ForbiddenPlay ==
    ASSUME PlayInv, NEW u \in Users, Forbidden(u)
    PROVE  PlayInv'
  <1>1. AgesAt(u)
    BY DEF PlayInv
  <1>2. /\ pc[u] = "view" /\ ~calling[u]
        /\ pc' = [pc EXCEPT ![u] = "idle"] /\ src' = [src EXCEPT ![u] = None]
        /\ link' = [link EXCEPT ![u] = None] /\ watched' = [watched EXCEPT ![u] = 0]
        /\ UNCHANGED <<up, cache, breaker, gone, ticked, callVars>>
    BY <1>1 DEF Forbidden, Refused, AgesAt
  <1> QED BY <1>2, PlayConstants, LinkMoves

-----------------------------------------------------------------------------
(* Playback: the theorems.                                                 *)

\* The initial states satisfy the invariant.
LEMMA PlayInit ==
    ASSUME PlaybackInit
    PROVE  PlayInv
  <1>1. breaker \in Breakers
    BY PlayConstants DEF PlaybackInit, NewGeneration, Breakers
  <1>2. up \in BOOLEAN /\ gone \in [Users -> BOOLEAN] /\ calling \in [Users -> BOOLEAN]
        /\ counted \in [Users -> BOOLEAN] /\ ticked \in [Users -> BOOLEAN]
    BY DEF PlaybackInit
  <1>3. attempt \in [Users -> 0 .. MaxRetries]
    BY PlayConstants DEF PlaybackInit
  <1>4. WatchTypes /\ CacheAge
    BY <1>2, PlayConstants DEF PlaybackInit, WatchTypes, CacheAge
  <1>5. \A u \in Users : AgesAt(u)
    BY DEF PlaybackInit, AgesAt
  <1> QED BY <1>1, <1>2, <1>3, <1>4, <1>5, PlayTypes DEF PlayInv, BreakerTypes

\* Every step preserves the invariant.
LEMMA PlayStep ==
    ASSUME PlayInv, [PlaybackNext]_playbackVars
    PROVE  PlayInv'
  <1>1. CASE Tick
    BY <1>1, TickPlay
  <1>2. CASE ClearCounts \/ HalfOpen
    BY <1>2, RenewPlay
  <1>3. CASE ProviderChanges
    BY <1>3, ProviderPlay
  <1>4. ASSUME NEW u \in Users, Watch(u) \/ GoAway(u) \/ Proxy(u) \/ Forbidden(u)
        PROVE  PlayInv'
    BY <1>4, WatchPlay, GoAwayPlay, ProxyPlay, ForbiddenPlay
  <1>5. ASSUME NEW u \in Users, Step(u)
        PROVE  PlayInv'
    <2>1. CASE CacheHit(u) \/ CacheMiss(u) \/ ResolveEpisode(u) \/ NotFound(u)
      BY <2>1, CachePlay
    <2>2. CASE Execute(u) \/ Rejected(u)
      BY <2>2, ExecutePlay, RejectedPlay
    <2>3. CASE Answer(u) \/ CallError(u)
      BY <2>3, CallEndsPlay
    <2>4. CASE Retry(u)
      BY <2>4, RetryPlay
    <2>5. CASE Set(u) \/ Sign(u)
      BY <2>5, SetPlay, SignPlay
    <2> QED BY <1>5, <2>1, <2>2, <2>3, <2>4, <2>5 DEF Step
  <1>6. CASE UNCHANGED playbackVars
    <2>1. BreakerTypes'
      BY <1>6, PlayTypes DEF PlayInv, BreakerTypes, playbackVars, callVars
    <2> QED BY <1>6, <2>1, NobodyTouched DEF playbackVars, callVars
  <1> QED BY <1>1, <1>2, <1>3, <1>4, <1>5, <1>6 DEF PlaybackNext

\* A link that is signed verifies as long as its time has not passed, and its time
\* is what is left of LinkLife since the Watch.
LEMMA PlayInvLink ==
    ASSUME PlayInv
    PROVE  LinkLifetime /\ SourceAge
  <1>1. SUFFICES ASSUME NEW u \in Users, pc[u] = "view"
                 PROVE  /\ Verify(link[u]) <=> watched[u] <= LinkLife
                        /\ Verify(link[u]) => src[u] <= CacheTTL + LinkLife + 1
    BY DEF LinkLifetime, SourceAge
  <1>2. PICK l : l = link[u]
    OBVIOUS
  <1>3. PICK s, w : s = src[u] /\ w = watched[u]
    OBVIOUS
  <1>4. /\ l # None /\ s \in Ages /\ l.sig = <<l.url, l.exp>> /\ w = LinkLife - l.exp
        /\ l.exp >= 0 => s <= CacheTTL + 1 + w
    BY <1>1, <1>2, <1>3 DEF PlayInv, AgesAt
  <1>5. l \in Links
    BY <1>2, <1>4, PlayTypes DEF PlayInv, WatchTypes
  <1>6. l.exp \in Int
    BY <1>5, PlayConstants DEF Links, Exps
  <1>7. Verify(l) <=> l.exp >= 0
    BY <1>4 DEF Verify, SignValue
  <1>8. l.exp >= 0 <=> w <= LinkLife
    BY <1>4, <1>6, PlayConstants
  <1>9. l.exp >= 0 => s <= CacheTTL + LinkLife + 1
    BY <1>4, <1>6, PlayConstants
  <1> QED BY <1>2, <1>3, <1>7, <1>8, <1>9

\* The invariant holds in every reachable state.
LEMMA PlayInvariant ==
    PlaybackSpec => []PlayInv
  <1>1. PlaybackInit => PlayInv
    BY PlayInit
  <1>2. PlayInv /\ [PlaybackNext]_playbackVars => PlayInv'
    BY PlayStep
  <1> QED BY <1>1, <1>2, PTL DEF PlaybackSpec

\* For every retry limit, threshold, TTL and lifetime, the breaker's counts, the
\* attempts and what every Watch holds keep their types.
THEOREM PlaybackTypes == PlaybackSpec => []PlaybackTypeOK
  <1> QED BY PlayInvariant, PTL DEF PlayInv

\* However many playlists a link is handed on through and whatever the graph of
\* the playlists is, it verifies until LinkLife after its Watch and not longer.
THEOREM LinksExpire == PlaybackSpec => []LinkLifetime
  <1>1. PlayInv => LinkLifetime
    BY PlayInvLink
  <1> QED BY <1>1, PlayInvariant, PTL

\* Whatever is fetched through a link goes back to an answer of the provider of at
\* most CacheTTL and LinkLife ago, for every interleaving of slow Watches, cache
\* hits and overwritten entries.
THEOREM SourcesExpire == PlaybackSpec => []SourceAge
  <1>1. PlayInv => SourceAge
    BY PlayInvLink
  <1> QED BY <1>1, PlayInvariant, PTL

=============================================================================
