-------------------------- MODULE MCBillingWebhook --------------------------
(* BillingWebhook on small instances for TLC. *)
EXTENDS BillingWebhook, TLC

CONSTANTS h1, h2, pay, sub, ping

\* Production on Redis and on Postgres, and two development machines.
MCSetups ==
    {[idem |-> "redis", db |-> TRUE, nats |-> TRUE],
     [idem |-> "postgres", db |-> TRUE, nats |-> TRUE],
     [idem |-> "memory", db |-> FALSE, nats |-> TRUE],
     [idem |-> "postgres", db |-> TRUE, nats |-> FALSE]}

MCPostgres == {[idem |-> "postgres", db |-> TRUE, nats |-> TRUE]}

MCSymmetry == Permutations(Handlers)

MCType == [e \in Events |-> CASE e = pay -> "checkout.session.completed"
                              [] e = sub -> "invoice.paid"
                              [] OTHER -> "other"]
=============================================================================
