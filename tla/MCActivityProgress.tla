-------------------------- MODULE MCActivityProgress ------------------------
(* ActivityProgress on small instances for TLC. *)
EXTENDS ActivityProgress

CONSTANTS e1, e2, e3, k1, k2, w1, w2

\* Two episodes, so that two workers can wait for one another.  The first has a
\* report on the queue and one sent by gRPC without a client time, which may be
\* the older one.
MCKey == [e \in Reports |-> IF e = e2 THEN k2 ELSE k1]
MCClientTs == [e \in Reports |-> CASE e = e1 -> 2 [] e = e2 -> 1 [] OTHER -> 0]
MCPath == [e \in Reports |-> IF e = e3 THEN "sync" ELSE "async"]
=============================================================================
