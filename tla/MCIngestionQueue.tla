-------------------------- MODULE MCIngestionQueue --------------------------
(* IngestionQueue on small instances for TLC. *)
EXTENDS IngestionQueue

CONSTANTS m1, bad, r1, r2, e1, e2

Setup(rs, ends, inv, m, f, c) ==
    [replicas |-> rs, endpoints |-> ends, invalid |-> inv,
     list |-> [e \in Episodes |-> IF e = e1 THEN 1 ELSE 0],
     messages |-> m, faults |-> f, changes |-> c]

\* Two replicas that share the jobs; one that fails or meets what it cannot parse;
\* one with jobs and endpoints; the endpoints of two, while HiAnime changes its list.
MCSetups ==
    {Setup(Replicas, FALSE, FALSE, 2, 0, 0),
     Setup({r1}, FALSE, TRUE, 2, 1, 0),
     Setup({r1}, TRUE, FALSE, 2, 0, 0),
     Setup(Replicas, TRUE, FALSE, 0, 0, 1)}
=============================================================================
