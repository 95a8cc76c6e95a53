----------------------------- MODULE SearchView -----------------------------
(***************************************************************************)
(* What the catalog promises its readers about the search index, without   *)
(* outbox, streams or retries: the document of an anime only ever moves    *)
(* forward through the states the catalog row went through, and catches up *)
(* with it.                                                                *)
(***************************************************************************)
EXTENDS Integers

CONSTANTS Animes, MaxVersion

VARIABLES
    version,  \* version of the catalog row, 0 when there is none
    index     \* version the search document was built from

Versions == 0 .. MaxVersion

Init ==
    /\ version = [a \in Animes |-> 0]
    /\ index = [a \in Animes |-> 0]

Upsert(a) ==
    /\ version[a] < MaxVersion
    /\ version' = [version EXCEPT ![a] = @ + 1]
    /\ UNCHANGED index

Sync(a) ==
    /\ \E v \in Versions :
        /\ index[a] < v
        /\ v <= version[a]
        /\ index' = [index EXCEPT ![a] = v]
    /\ UNCHANGED version

Next == \E a \in Animes : Upsert(a) \/ Sync(a)

Safety == Init /\ [][Next]_<<version, index>>
Spec == Safety /\ \A a \in Animes : WF_<<version, index>>(Sync(a))
=============================================================================
