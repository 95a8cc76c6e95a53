------------------------------ MODULE Analytics -----------------------------
(***************************************************************************)
(* Business events on their way to PostHog: the fire-and-forget publisher  *)
(* (internal/platform/analytics) the services call, the stream ANALYTICS   *)
(* that also sources the operational streams, and the consumer that turns  *)
(* messages into calls of the PostHog client (services/analytics).         *)
(*                                                                         *)
(* The consumer acknowledges every message, whatever became of it.  The    *)
(* PostHog client keeps events in memory and uploads them in the           *)
(* background, and drops what it could not upload after its retries.  Its  *)
(* buffer ends with the process, also on SIGTERM: main leaves through      *)
(* os.Exit, which does not run the deferred Close.                         *)
(***************************************************************************)
EXTENDS Integers, FiniteSets, Sequences

CONSTANTS
    Messages, Users,
    NoUser,           \* no user_id in the payload
    Feeds,            \* what the messages may be
    BatchSize,        \* WORKER_BATCH_SIZE
    MaxEarly,         \* bound on redeliveries of a message still being worked on
    MaxFaults         \* bound on lost publishes, acks, calls, uploads and processes

AnalyticsSubjects ==
    {"analytics.auth.registered", "analytics.auth.logged_in", "analytics.streaming.started",
     "analytics.catalog.anime_viewed", "analytics.search.performed"}

\* Of ACTIVITY, BILLING and SOCIAL; "other" stands for what has no handler.
SourcedSubjects ==
    {"activity.progress", "social.comments.create", "social.comments.vote",
     "billing.payment.completed", "billing.subscription.updated", "other"}

ASSUME AnalyticsAssumption ==
    /\ NoUser \notin Users
    /\ \A f \in Feeds :
        /\ f.subject \in [Messages -> AnalyticsSubjects \cup SourcedSubjects]
        /\ f.user \in [Messages -> Users \cup {NoUser}]
        /\ f.malformed \subseteq Messages
        /\ f.notable \subseteq Messages
    /\ BatchSize \in Nat \ {0}
    /\ MaxEarly \in Nat
    /\ MaxFaults \in Nat

VARIABLES
    feed,        \* which messages there are; never changes
    exists,      \* the stream ANALYTICS
    operational, \* messages in ACTIVITY, BILLING and SOCIAL
    lost,        \* published on analytics.* and never stored
    ready, acked,
    delivered,   \* delivered at least once
    up,          \* the consumer runs
    batch,       \* what is left of the fetched batch
    out,         \* calls still to make for the first message of it, or <<>>
    busy,        \* the first message of the batch has been dispatched
    buffer,      \* the PostHog client's memory: calls not uploaded yet
    received,    \* what PostHog has got
    missed,      \* history: messages of calls that were lost and are not made again
    early, faults

streamVars == <<feed, exists, operational, lost, ready, acked, delivered>>
consumerVars == <<up, batch, out, busy>>
posthogVars == <<buffer, received, missed>>
vars == <<streamVars, consumerVars, posthogVars, early, faults>>

Subject(m) == feed.subject[m]
User(m) == feed.user[m]             \* its user_id
Malformed == feed.malformed         \* does not unmarshal
Notable == feed.notable             \* completed, active, or paid with an e-mail

\* Calls of the PostHog client: the method, the message and the distinct id.
Anonymous == "anonymous"
Email == "email"
Calls == {"identify", "capture"} \X Messages \X (Users \cup {NoUser, Anonymous, Email})

\* Plausible bugs, each a variant of the operator of the same name below.
AckUnlessMalformed(m) == IF m \in Malformed THEN {} ELSE {m}
DueWhenFull(n) == n >= 2

-----------------------------------------------------------------------------
(* The dispatcher: which calls a message leads to.                         *)

\* anime_viewed and search_performed come from visitors too.
DistinctID(m) == IF User(m) = NoUser THEN Anonymous ELSE User(m)

Capture(m, id) == <<<<"capture", m, id>>>>

HandleAuthRegistered(m) == <<<<"identify", m, User(m)>>>> \o Capture(m, User(m))

\* Only completed episodes count.
HandleActivityProgress(m) == IF m \in Notable THEN Capture(m, User(m)) ELSE <<>>

HandleBillingPayment(m) ==
    IF User(m) # NoUser THEN Capture(m, User(m))
    ELSE IF m \in Notable THEN Capture(m, Email) ELSE <<>>

HandleBillingSubscription(m) ==
    IF User(m) = NoUser \/ m \notin Notable THEN <<>> ELSE Capture(m, User(m))

Dispatch(m) ==
    IF m \in Malformed THEN <<>>
    ELSE CASE Subject(m) = "analytics.auth.registered" -> HandleAuthRegistered(m)
           [] Subject(m) \in {"analytics.auth.logged_in", "analytics.streaming.started",
                              "social.comments.create"} -> Capture(m, User(m))
           [] Subject(m) \in {"analytics.catalog.anime_viewed", "analytics.search.performed"}
                -> Capture(m, DistinctID(m))
           [] Subject(m) = "activity.progress" -> HandleActivityProgress(m)
           [] Subject(m) = "billing.payment.completed" -> HandleBillingPayment(m)
           [] Subject(m) = "billing.subscription.updated" -> HandleBillingSubscription(m)
           [] OTHER -> <<>>

\* The client refuses an empty distinct id.
Valid(c) == c[3] # NoUser

Batches == UNION {[1 .. n -> Messages] : n \in 0 .. BatchSize}

\* Every variable keeps its type; no call without a distinct id is in the buffer.
TypeOK ==
    /\ feed \in Feeds
    /\ exists \in BOOLEAN
    /\ operational \in SUBSET Messages
    /\ lost \in SUBSET Messages
    /\ ready \in SUBSET Messages
    /\ acked \in SUBSET Messages
    /\ delivered \in SUBSET Messages
    /\ up \in BOOLEAN
    /\ batch \in Batches
    /\ \A i \in 1 .. Len(out) : out[i] \in Calls
    /\ busy \in BOOLEAN
    /\ \A i \in 1 .. Len(buffer) : buffer[i] \in Calls /\ Valid(buffer[i])
    /\ received \in SUBSET Calls
    /\ missed \in SUBSET Messages
    /\ early \in 0 .. MaxEarly
    /\ faults \in 0 .. MaxFaults

Init ==
    /\ feed \in Feeds
    /\ exists = FALSE
    /\ operational = {}
    /\ lost = {}
    /\ ready = {}
    /\ acked = {}
    /\ delivered = {}
    /\ up = FALSE
    /\ batch = <<>>
    /\ out = <<>>
    /\ busy = FALSE
    /\ buffer = <<>>
    /\ received = {}
    /\ missed = {}
    /\ early = 0
    /\ faults = 0

Fault == faults < MaxFaults /\ faults' = faults + 1

Members(b) == {b[i] : i \in 1 .. Len(b)}

-----------------------------------------------------------------------------
(* The producers and the stream.                                           *)

Delivering == delivered \ (acked \cup ready)
Stored == ready \cup acked \cup Delivering
New(m) == m \notin Stored \cup lost \cup operational

\* PublishAsync: nobody waits for the outcome.  Without the stream, or with a
\* failing connection, the event is gone; the caller goes on all the same.
Publish(m) ==
    /\ New(m)
    /\ Subject(m) \in AnalyticsSubjects
    /\ IF exists
       THEN \/ ready' = ready \cup {m} /\ UNCHANGED <<lost, faults>>
            \/ lost' = lost \cup {m} /\ Fault /\ UNCHANGED ready
       ELSE lost' = lost \cup {m} /\ UNCHANGED <<ready, faults>>
    /\ UNCHANGED <<feed, exists, operational, acked, delivered, consumerVars, posthogVars, early>>

\* A message of an operational stream, whether ANALYTICS exists or not.
Operate(m) ==
    /\ New(m)
    /\ Subject(m) \in SourcedSubjects
    /\ operational' = operational \cup {m}
    /\ UNCHANGED <<feed, exists, lost, ready, acked, delivered, consumerVars, posthogVars, early, faults>>

\* ANALYTICS sources it, from the beginning of the operational stream.
Source(m) ==
    /\ exists
    /\ m \in operational \ Stored
    /\ ready' = ready \cup {m}
    /\ UNCHANGED <<feed, exists, operational, lost, acked, delivered, consumerVars, posthogVars, early, faults>>

\* AckWait runs out, also while the consumer still has the message in its batch.
Redeliver(m) ==
    /\ m \in Delivering
    /\ IF m \in Members(batch) THEN early < MaxEarly /\ early' = early + 1
       ELSE UNCHANGED early
    /\ ready' = ready \cup {m}
    /\ UNCHANGED <<feed, exists, operational, lost, acked, delivered, consumerVars, posthogVars, faults>>

-----------------------------------------------------------------------------
(* The consumer.                                                           *)

\* ensureStream and PullSubscribe.
Start ==
    /\ ~up
    /\ up' = TRUE
    /\ exists' = TRUE
    /\ UNCHANGED <<feed, operational, lost, ready, acked, delivered, batch, out, busy, posthogVars, early, faults>>

Fetch ==
    /\ up /\ batch = <<>>
    /\ \E b \in Batches :
        /\ b # <<>> /\ Members(b) \subseteq ready
        /\ Cardinality(Members(b)) = Len(b)
        /\ Len(b) = BatchSize \/ Members(b) = ready
        /\ batch' = b
        /\ ready' = ready \ Members(b)
        /\ delivered' = delivered \cup Members(b)
    /\ UNCHANGED <<feed, exists, operational, lost, acked, up, out, busy, posthogVars, early, faults>>

DispatchNext ==
    /\ up /\ batch # <<>> /\ ~busy
    /\ out' = Dispatch(Head(batch))
    /\ busy' = TRUE
    /\ UNCHANGED <<streamVars, up, batch, posthogVars, early, faults>>

\* The buffer after ph.Enqueue.
Enqueue(c) == Append(buffer, c)

\* Identify or Capture; a refused call is logged and forgotten.
Call ==
    /\ up /\ out # <<>>
    /\ IF Valid(Head(out))
       THEN \/ buffer' = Enqueue(Head(out)) /\ UNCHANGED <<missed, faults>>
            \/ Fault /\ missed' = missed \cup {Head(batch)} /\ UNCHANGED buffer
       ELSE UNCHANGED <<buffer, missed, faults>>
    /\ out' = Tail(out)
    /\ UNCHANGED <<streamVars, up, batch, busy, received, early>>

Acks(m) == {m}

\* msg.Ack: a message that was redelivered meanwhile is acknowledged as well; an
\* ack that is lost is logged.
Ack ==
    /\ up /\ busy /\ out = <<>>
    /\ \/ /\ acked' = acked \cup Acks(Head(batch))
          /\ ready' = ready \ Acks(Head(batch))
          /\ UNCHANGED faults
       \/ Fault /\ UNCHANGED <<acked, ready>>
    /\ batch' = Tail(batch)
    /\ busy' = FALSE
    /\ UNCHANGED <<feed, exists, operational, lost, delivered, up, out, posthogVars, early>>

\* The messages of the calls in the buffer.
Buffered == {c[2] : c \in Members(buffer)}

\* The process is gone and its buffer with it; what is not acknowledged comes again.
Ended ==
    /\ up' = FALSE
    /\ batch' = <<>>
    /\ out' = <<>>
    /\ busy' = FALSE
    /\ buffer' = <<>>
    /\ missed' = missed \cup (Buffered \cap acked)
    /\ UNCHANGED <<streamVars, received, early>>

\* A crash, at any point.
Crash == up /\ Fault /\ Ended

\* SIGTERM, which Run sees between two batches: the deferred Close is not called.
Stop == up /\ batch = <<>> /\ Fault /\ Ended

\* The client uploads by size or by interval: whatever it has is due in the end.
Due(n) == n > 0

\* A batch that still fails after the client's retries is dropped.
Flush ==
    /\ up /\ Due(Len(buffer))
    /\ \/ received' = received \cup Members(buffer) /\ UNCHANGED <<missed, faults>>
       \/ Fault /\ missed' = missed \cup Buffered /\ UNCHANGED received
    /\ buffer' = <<>>
    /\ UNCHANGED <<streamVars, consumerVars, early>>

-----------------------------------------------------------------------------

Step == Fetch \/ DispatchNext \/ Call \/ Ack

Next ==
    \/ \E m \in Messages : Publish(m) \/ Operate(m) \/ Source(m) \/ Redeliver(m)
    \/ Start \/ Step \/ Crash \/ Stop \/ Flush

\* The loop never ends, JetStream sources and redelivers, the client uploads, and
\* the process is started again.
Fairness ==
    /\ WF_vars(Start) /\ WF_vars(Step) /\ WF_vars(Flush)
    /\ \A m \in Messages : WF_vars(Source(m)) /\ WF_vars(Redeliver(m))

Spec == Init /\ [][Next]_vars
FairSpec == Spec /\ Fairness

-----------------------------------------------------------------------------
(* Properties.                                                             *)

\* No message stays in the stream: not one that does not parse, nor one nobody
\* handles, nor one whose ack was lost.
EventuallyAcked ==
    \A m \in Messages :
        m \in Stored \cup operational ~> m \in acked

\* Every call of a stored event reaches PostHog, what operational streams held
\* before ANALYTICS existed included, unless that very call was lost: refused by the
\* client, dropped with its upload, or in the buffer of a process that ended after
\* the ack.  A crash before the ack, a lost ack or the loss of another event loses
\* nothing.
EventuallyReceived ==
    \A m \in Messages :
        (m \in Stored \cup operational) ~>
            (\/ m \in missed
             \/ \A i \in 1 .. Len(Dispatch(m)) :
                    Valid(Dispatch(m)[i]) => Dispatch(m)[i] \in received)

\* What main's deferred Close is for ("Close flushes buffered events"): a stop of the
\* service uploads what it has acknowledged.
StopFlushes == [][Stop => Members(buffer) \subseteq received']_vars
=============================================================================
