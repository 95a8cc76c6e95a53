--------------------------- MODULE BillingWebhook ---------------------------
(***************************************************************************)
(* The billing service: Stripe webhooks, deduplicated by event id, stored  *)
(* in Postgres and then published to the JetStream stream BILLING          *)
(* (services/billing/internal/handlers, idempotency, store, publisher).    *)
(*                                                                         *)
(* Every POST is served by its own goroutine; between two calls to Redis,  *)
(* Postgres or NATS any other one may run.  Stripe is external: it         *)
(* redelivers an event until it sees a 2xx, and may deliver it again even  *)
(* then.  A request with a bad signature, bad JSON or no id is refused     *)
(* before it touches any state, so it is a stuttering step.                *)
(*                                                                         *)
(* A fault is a call that fails, with or without its effect applied, a     *)
(* crash of a process, or a reply that Stripe never sees.                  *)
(***************************************************************************)
EXTENDS Integers, FiniteSets

CONSTANTS
    Events,        \* Stripe event ids
    Type,          \* their "type" field
    Handlers,      \* goroutines serving webhooks
    Setups,        \* the ways main may start the service
    MaxFaults,     \* bound on failing calls, lost replies and crashes
    MaxForgotten,  \* bound on the times an event's mark is lost
    None

EventTypes == {"checkout.session.completed", "invoice.paid", "other"}

\* What main finds: the idempotency store of NewStore, a Postgres pool or none,
\* and a NATS connection or the stub publisher.  The store falls back to memory
\* only where no database is configured at all.
Startups ==
    {s \in [idem : {"redis", "postgres", "memory"}, db : BOOLEAN, nats : BOOLEAN] :
        s.idem = "memory" => ~s.db}

ASSUME BillingAssumption ==
    /\ IsFiniteSet(Handlers)
    /\ Type \in [Events -> EventTypes]
    /\ Setups \subseteq Startups
    /\ MaxFaults \in Nat
    /\ MaxForgotten \in Nat
    /\ None \notin Events

VARIABLES
    setup,         \* how the service was started
    pc,            \* control point of each handler
    event,         \* the event it serves
    seen,          \* event ids marked in the idempotency store
    payments,      \* table payments (event_id)
    subscriptions, \* table subscriptions (event_id)
    published,     \* messages in the stream BILLING, per event
    acked,         \* events for which Stripe got a 2xx
    forgotten,     \* history: times the mark of an event was lost
    faults         \* faults so far

vars == <<setup, pc, event, seen, payments, subscriptions, published, acked, forgotten, faults>>

Controls == {"idle", "check", "save", "publish", "ok", "fail"}

Backend == setup.idem
Persistent == setup.db       \* BillingStore.Available
JetStream == setup.nats

\* Every variable keeps its type: each table holds only the events it is for.
TypeOK ==
    /\ setup \in Setups
    /\ pc \in [Handlers -> Controls]
    /\ event \in [Handlers -> Events \cup {None}]
    /\ seen \in SUBSET Events
    /\ payments \in SUBSET {e \in Events : Type[e] = "checkout.session.completed"}
    /\ subscriptions \in SUBSET {e \in Events : Type[e] = "invoice.paid"}
    /\ published \in [Events -> Nat]
    /\ acked \in SUBSET Events
    /\ forgotten \in [Events -> 0 .. MaxForgotten]
    /\ faults \in 0 .. MaxFaults

Init ==
    /\ setup \in Setups
    /\ pc = [h \in Handlers |-> "idle"]
    /\ event = [h \in Handlers |-> None]
    /\ seen = {}
    /\ payments = {}
    /\ subscriptions = {}
    /\ published = [e \in Events |-> 0]
    /\ acked = {}
    /\ forgotten = [e \in Events |-> 0]
    /\ faults = 0

-----------------------------------------------------------------------------
(* The stores.                                                             *)

Goto(h, l) == pc' = [pc EXCEPT ![h] = l]
Fault == faults < MaxFaults /\ faults' = faults + 1

\* Plausible bugs: a mark that is read but not written, a check that answers
\* "duplicate" with an error, a commit that is forgotten, a message not stored.
CheckWithoutMark(h) ==
    /\ UNCHANGED seen
    /\ Goto(h, IF event[h] \in seen THEN "ok"
               ELSE IF Type[event[h]] = "other" THEN "ok"
               ELSE IF Persistent THEN "save" ELSE "publish")
CheckDuplicateIsError(h) ==
    /\ seen' = seen \cup {event[h]}
    /\ Goto(h, IF event[h] \in seen THEN "fail"
               ELSE IF Type[event[h]] = "other" THEN "ok"
               ELSE IF Persistent THEN "save" ELSE "publish")
CommitIgnored(h) == UNCHANGED <<payments, subscriptions>>
AppendMessageLost(e) == UNCHANGED published

\* idempotency.Store.Check and the dispatch on its answer: SETNX, INSERT ... ON
\* CONFLICT DO NOTHING or a map under a mutex, one atomic test-and-mark each.
Check(h) ==
    /\ seen' = seen \cup {event[h]}
    /\ Goto(h, IF event[h] \in seen \/ Type[event[h]] = "other" THEN "ok"
               ELSE IF Persistent THEN "save" ELSE "publish")

\* SavePayment and SaveSubscription leave one row per event id.
Commit(h) ==
    IF Type[event[h]] = "invoice.paid"
    THEN subscriptions' = subscriptions \cup {event[h]} /\ UNCHANGED payments
    ELSE payments' = payments \cup {event[h]} /\ UNCHANGED subscriptions

-----------------------------------------------------------------------------
(* ServeHTTP.                                                              *)

\* A request whose signature verifies and which carries an event id.
Deliver(h, e) ==
    /\ pc[h] = "idle"
    /\ event' = [event EXCEPT ![h] = e]
    /\ Goto(h, "check")
    /\ UNCHANGED <<setup, seen, payments, subscriptions, published, acked, forgotten, faults>>

CheckOK(h) ==
    /\ pc[h] = "check"
    /\ Check(h)
    /\ UNCHANGED <<setup, event, payments, subscriptions, published, acked, forgotten, faults>>

\* Redis or Postgres answers with an error, the mark written or not.
CheckError(h) ==
    /\ pc[h] = "check"
    /\ Backend # "memory"
    /\ Fault
    /\ seen' \in {seen, seen \cup {event[h]}}
    /\ Goto(h, "fail")
    /\ UNCHANGED <<setup, event, payments, subscriptions, published, acked, forgotten>>

\* The transaction of handleCheckoutCompleted or handleInvoicePaid.
Save(h) ==
    /\ pc[h] = "save"
    /\ Commit(h)
    /\ Goto(h, "publish")
    /\ UNCHANGED <<setup, event, seen, published, acked, forgotten, faults>>

\* BeginTx, the INSERT or Commit fails; a failed Commit may have committed.
SaveError(h) ==
    /\ pc[h] = "save"
    /\ Fault
    /\ Commit(h) \/ UNCHANGED <<payments, subscriptions>>
    /\ Goto(h, "fail")
    /\ UNCHANGED <<setup, event, seen, published, acked, forgotten>>

AppendMessage(e) == published' = [published EXCEPT ![e] = @ + 1]

Publish(h) ==
    /\ pc[h] = "publish"
    /\ IF JetStream THEN AppendMessage(event[h]) ELSE UNCHANGED published
    /\ Goto(h, "ok")
    /\ UNCHANGED <<setup, event, seen, payments, subscriptions, acked, forgotten, faults>>

\* js.Publish fails: the message is not stored, or stored with its ack lost.
PublishError(h) ==
    /\ pc[h] = "publish"
    /\ JetStream
    /\ Fault
    /\ AppendMessage(event[h]) \/ UNCHANGED published
    /\ Goto(h, "fail")
    /\ UNCHANGED <<setup, event, seen, payments, subscriptions, acked, forgotten>>

Finish(h) ==
    /\ Goto(h, "idle")
    /\ event' = [event EXCEPT ![h] = None]

\* 200, or 500, which Stripe answers by delivering the event again.
Reply(h) ==
    /\ pc[h] \in {"ok", "fail"}
    /\ acked' = IF pc[h] = "ok" THEN acked \cup {event[h]} ELSE acked
    /\ Finish(h)
    /\ UNCHANGED <<setup, seen, payments, subscriptions, published, forgotten, faults>>

-----------------------------------------------------------------------------
(* The environment.                                                        *)

Forget(lost) ==
    /\ \A e \in lost : forgotten[e] < MaxForgotten
    /\ seen' = seen \ lost
    /\ forgotten' = [e \in Events |-> IF e \in lost THEN forgotten[e] + 1 ELSE forgotten[e]]

\* Stripe never sees the reply: it is lost on the way, or the replica that
\* serves the request dies.  What the handler did is done.
Crash(h) ==
    /\ pc[h] \in {"ok", "fail"} \/ (Backend # "memory" /\ pc[h] # "idle")
    /\ Fault
    /\ Finish(h)
    /\ UNCHANGED <<setup, seen, payments, subscriptions, published, acked, forgotten>>

\* With the in-memory store there is one process, and its marks die with it.
Restart ==
    /\ Backend = "memory"
    /\ Fault
    /\ Forget(seen)
    /\ pc' = [h \in Handlers |-> "idle"]
    /\ event' = [h \in Handlers |-> None]
    /\ UNCHANGED <<setup, payments, subscriptions, published, acked>>

\* The TTL of a Redis mark runs out.
Expire(e) ==
    /\ Backend = "redis"
    /\ e \in seen
    /\ Forget({e})
    /\ UNCHANGED <<setup, pc, event, payments, subscriptions, published, acked, faults>>

Step(h) == CheckOK(h) \/ Save(h) \/ Publish(h) \/ Reply(h)

Next ==
    \/ \E h \in Handlers :
        \/ \E e \in Events : Deliver(h, e)
        \/ Step(h)
        \/ CheckError(h) \/ SaveError(h) \/ PublishError(h) \/ Crash(h)
    \/ \E e \in Events : Expire(e)
    \/ Restart

\* Goroutines run to completion, and Stripe retries an event until it is acked;
\* net/http starts a goroutine for every request, so a retry is never starved
\* by the size of Handlers.
Fairness ==
    /\ \A h \in Handlers : WF_vars(Step(h))
    /\ \A e \in Events :
          SF_vars(e \notin acked /\ \E h \in Handlers : Deliver(h, e))

Spec == Init /\ [][Next]_vars
FairSpec == Spec /\ Fairness

-----------------------------------------------------------------------------
(* Properties.                                                             *)

Working(e) == {h \in Handlers : pc[h] \in {"save", "publish"} /\ event[h] = e}
Saved(e) == e \in payments \cup subscriptions
Marked(e) == IF e \in seen THEN 1 ELSE 0

\* Nothing is announced on NATS that is not durably stored: the publish comes
\* after the commit, on every path and whatever fails.
PublishedIsSaved == Persistent => \A e \in Events : published[e] > 0 => Saved(e)

\* However many handlers race on deliveries of one event, and whatever is
\* retried, it is published at most once for each mark the idempotency store
\* ever kept for it: duplicates come only from lost marks.
PublishBound == \A e \in Events : published[e] <= forgotten[e] + Marked(e)

\* An event Stripe need not send again was processed, or a handler is still
\* processing it ("Check returns true if eventID was already processed").
AckedIsProcessed ==
    \A e \in acked : Type[e] # "other" /\ Persistent => Saved(e) \/ Working(e) # {}

\* Every event is eventually answered with a 2xx, and once it is, Stripe is not
\* asked for it again.
EventuallyAcked == \A e \in Events : <>(e \in acked)

\* Unless something fails, every payment and subscription event is stored and
\* announced, however its deliveries race.
EventuallyProcessed ==
    \A e \in Events : Type[e] # "other" =>
        <>(\/ faults > 0
           \/ (Persistent => Saved(e)) /\ (JetStream => published[e] > 0))

=============================================================================
