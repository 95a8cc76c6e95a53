-------------------------- MODULE CommentsConsumer --------------------------
(***************************************************************************)
(* The comments worker of the social service: comment events, accepted by  *)
(* the BFF with a 202 and put in the stream SOCIAL, are applied to         *)
(* Postgres in batches (services/social/internal/worker).                  *)
(*                                                                         *)
(* Every replica runs one worker on the durable pull consumer              *)
(* social_comments.  A batch is one transaction: each event first inserts  *)
(* its id in processed_events (ON CONFLICT DO NOTHING), then applies its   *)
(* effect.  JetStream (external) delivers a message again when it is       *)
(* negatively acknowledged or its AckWait runs out, without limit.         *)
(*                                                                         *)
(* A message and its event id are one identifier; effects are counted,     *)
(* what they write is abstracted.  The order inside a batch is left open.  *)
(***************************************************************************)
EXTENDS Integers, FiniteSets

CONSTANTS
    Events,      \* messages of the stream SOCIAL
    Action,      \* create, update, delete or vote, the last token of the subject
    Settings,    \* what the workers may find: see Malformed, Rejected, TableExists
    Workers,     \* one per replica
    BatchSize,   \* WORKER_BATCH_SIZE
    MaxFaults,   \* bound on failing statements, lost replies and crashes
    None

Actions == {"create", "update", "delete", "vote"}

ASSUME CommentsAssumption ==
    /\ Action \in [Events -> Actions]
    /\ Settings \subseteq
          [malformed : SUBSET Events, rejected : SUBSET Events, table : BOOLEAN]
    /\ BatchSize \in Nat \ {0}
    /\ MaxFaults \in Nat
    /\ None \notin Events

VARIABLES
    setting,     \* the setting of this behaviour
    published,   \* messages stored in the stream
    ready,       \* messages the consumer may deliver now
    acked,       \* messages acknowledged for good
    migrated,    \* the table processed_events exists
    processed,   \* table processed_events
    applied,     \* times the effect of an event was committed
    pc, batch, todo, cur, failed, \* a worker's control point and locals
    claims,      \* the worker's open transaction: events inserted and applied
    faults

streamVars == <<published, ready, acked>>
dbVars == <<migrated, processed, applied>>
workerVars == <<pc, batch, todo, cur, failed, claims>>
vars == <<setting, streamVars, dbVars, workerVars, faults>>

Controls == {"idle", "begin", "run", "wait", "fallback", "ack"}

Malformed == setting.malformed \* payloads json.Unmarshal refuses, unknown subjects
Rejected == setting.rejected   \* effects Postgres refuses (CHECK, bad uuid, parent)
TableExists == setting.table   \* processed_events is older than the workers

\* Every variable keeps its type; ids in processed_events, in a batch or in an
\* open transaction are those of messages that were published.
TypeOK ==
    /\ setting \in Settings
    /\ published \in SUBSET Events
    /\ ready \in SUBSET published
    /\ acked \in SUBSET published
    /\ migrated \in BOOLEAN
    /\ processed \in SUBSET published
    /\ applied \in [Events -> Nat]
    /\ pc \in [Workers -> Controls]
    /\ batch \in [Workers -> SUBSET published]
    /\ todo \in [Workers -> SUBSET published]
    /\ cur \in [Workers -> published \cup {None}]
    /\ failed \in [Workers -> BOOLEAN]
    /\ claims \in [Workers -> SUBSET published]
    /\ faults \in 0 .. MaxFaults

Init ==
    /\ setting \in Settings
    /\ published = {}
    /\ ready = {}
    /\ acked = {}
    /\ migrated = TableExists
    /\ processed = {}
    /\ applied = [e \in Events |-> 0]
    /\ pc = [w \in Workers |-> "idle"]
    /\ batch = [w \in Workers |-> {}]
    /\ todo = [w \in Workers |-> {}]
    /\ cur = [w \in Workers |-> None]
    /\ failed = [w \in Workers |-> FALSE]
    /\ claims = [w \in Workers |-> {}]
    /\ faults = 0

Fault == faults < MaxFaults /\ faults' = faults + 1
Goto(w, l) == pc' = [pc EXCEPT ![w] = l]

\* Ends an iteration of the worker's loop; an open transaction is rolled back.
Reset(w) ==
    /\ Goto(w, "idle")
    /\ batch' = [batch EXCEPT ![w] = {}]
    /\ todo' = [todo EXCEPT ![w] = {}]
    /\ cur' = [cur EXCEPT ![w] = None]
    /\ failed' = [failed EXCEPT ![w] = FALSE]
    /\ claims' = [claims EXCEPT ![w] = {}]

-----------------------------------------------------------------------------
(* Plausible bugs, each a variant of the operator of the same name below.  *)

AckAllForgotten(w) == UNCHANGED streamVars
NakAllAcknowledges(w) ==
    /\ acked' = acked \cup batch[w]
    /\ ready' = ready \ batch[w]
    /\ UNCHANGED published
HeldNever(w, e) == FALSE

-----------------------------------------------------------------------------
(* The stream.                                                             *)

Publish(e) ==
    /\ e \notin published
    /\ published' = published \cup {e}
    /\ ready' = ready \cup {e}
    /\ UNCHANGED <<setting, acked, dbVars, workerVars, faults>>

\* AckWait runs out, also while a worker is still busy with the message.
Redeliver(e) ==
    /\ e \in published \ (ready \cup acked)
    /\ ready' = ready \cup {e}
    /\ UNCHANGED <<setting, published, acked, dbVars, workerVars, faults>>

AckAll(w) ==
    /\ acked' = acked \cup batch[w]
    /\ ready' = ready \ batch[w]
    /\ UNCHANGED published

\* A nak of a message acknowledged in the meantime has no effect.
NakAll(w) ==
    /\ ready' = ready \cup (batch[w] \ acked)
    /\ UNCHANGED <<published, acked>>

\* Fetch returns what is available, up to BatchSize messages.
Batches ==
    {B \in SUBSET ready : Cardinality(B) = BatchSize} \cup
        (IF Cardinality(ready) <= BatchSize THEN {ready} ELSE {})

-----------------------------------------------------------------------------
(* The worker.                                                             *)

Fetch(w) ==
    /\ pc[w] = "idle"
    /\ ready # {}
    /\ \E B \in Batches :
        /\ batch' = [batch EXCEPT ![w] = B]
        /\ ready' = ready \ B
    /\ Goto(w, "begin")
    /\ UNCHANGED <<setting, published, acked, dbVars, todo, cur, failed, claims, faults>>

Begin(w) ==
    /\ pc[w] = "begin"
    /\ todo' = [todo EXCEPT ![w] = batch[w]]
    /\ Goto(w, "run")
    /\ UNCHANGED <<setting, streamVars, dbVars, batch, cur, failed, claims, faults>>

BeginError(w) ==
    /\ pc[w] = "begin"
    /\ Fault
    /\ NakAll(w)
    /\ Reset(w)
    /\ UNCHANGED <<setting, dbVars>>

Advance(w, e) == todo' = [todo EXCEPT ![w] = @ \ {e}]

\* A statement failed: Postgres aborts the transaction and releases its locks,
\* and every later statement of the batch fails too.
Abort(w) ==
    /\ failed' = [failed EXCEPT ![w] = TRUE]
    /\ todo' = [todo EXCEPT ![w] = {}]
    /\ claims' = [claims EXCEPT ![w] = {}]

\* A payload that does not parse: the transaction stays usable.
Skip(w, e) ==
    /\ pc[w] = "run" /\ e \in todo[w]
    /\ e \in Malformed
    /\ failed' = [failed EXCEPT ![w] = TRUE]
    /\ Advance(w, e)
    /\ UNCHANGED <<setting, streamVars, dbVars, pc, batch, cur, claims, faults>>

\* What the statements of one event do to the open transaction: ON CONFLICT DO
\* NOTHING, or the mark and the effect, or a refusal.
Execute(w, e) ==
    \/ /\ e \in processed
       /\ Advance(w, e)
       /\ UNCHANGED <<failed, claims>>
    \/ /\ e \notin processed \cup Rejected
       /\ claims' = [claims EXCEPT ![w] = @ \cup {e}]
       /\ Advance(w, e)
       /\ UNCHANGED failed
    \/ /\ e \in Rejected \ processed
       /\ Abort(w)

\* Another open transaction holds the event id; Postgres serves waiters first.
Held(w, e) == \E v \in Workers \ {w} : e \in claims[v]
Awaited(w, e) == \E v \in Workers \ {w} : pc[v] = "wait" /\ cur[v] = e

Apply(w, e) ==
    /\ pc[w] = "run" /\ e \in todo[w]
    /\ e \notin Malformed
    /\ migrated
    /\ ~Held(w, e) /\ ~Awaited(w, e)
    /\ Execute(w, e)
    /\ UNCHANGED <<setting, streamVars, dbVars, pc, batch, cur, faults>>

\* The INSERT into processed_events waits for the transaction that has inserted
\* the same id, and is a conflict if that one commits.
Wait(w, e) ==
    /\ pc[w] = "run" /\ e \in todo[w]
    /\ e \notin Malformed
    /\ migrated
    /\ Held(w, e)
    /\ cur' = [cur EXCEPT ![w] = e]
    /\ Goto(w, "wait")
    /\ UNCHANGED <<setting, streamVars, dbVars, batch, todo, failed, claims, faults>>

Granted(w) ==
    /\ pc[w] = "wait"
    /\ ~Held(w, cur[w])
    /\ Execute(w, cur[w])
    /\ cur' = [cur EXCEPT ![w] = None]
    /\ Goto(w, "run")
    /\ UNCHANGED <<setting, streamVars, dbVars, batch, faults>>

\* Postgres breaks a cycle of transactions waiting for one another.
WaitsFor(w, v) == pc[w] = "wait" /\ w # v /\ cur[w] \in claims[v]
Deadlocked(w) ==
    \E D \in SUBSET Workers : w \in D /\ \A x \in D : \E y \in D : WaitsFor(x, y)

StatementError(w) ==
    /\ pc[w] = "wait" \/ (pc[w] = "run" /\ todo[w] # {})
    /\ Fault \/ (Deadlocked(w) /\ UNCHANGED faults)
    /\ Abort(w)
    /\ cur' = [cur EXCEPT ![w] = None]
    /\ Goto(w, "run")
    /\ UNCHANGED <<setting, streamVars, dbVars, batch>>

\* "does not exist": the transaction is rolled back, the event is handled in a
\* transaction of its own.
NoTable(w, e) ==
    /\ pc[w] = "run" /\ e \in todo[w]
    /\ e \notin Malformed
    /\ ~migrated
    /\ claims' = [claims EXCEPT ![w] = {}]
    /\ cur' = [cur EXCEPT ![w] = e]
    /\ Advance(w, e)
    /\ Goto(w, "fallback")
    /\ UNCHANGED <<setting, streamVars, dbVars, batch, failed, faults>>

ApplyNow(e) == applied' = [applied EXCEPT ![e] = @ + 1]

\* handleCreate inserts the id again, waiting like any other INSERT of it.  If
\* the table is still missing its transaction is aborted, and the INSERT into
\* comments that follows in the same transaction fails with it.
HandleCreate(w, e) ==
    /\ migrated
    /\ ~Held(w, e)
    /\ e \notin Rejected \/ e \in processed
    /\ IF e \in processed THEN UNCHANGED applied ELSE ApplyNow(e)
    /\ processed' = processed \cup {e}

AckOne(w) ==
    /\ acked' = acked \cup {cur[w]}
    /\ ready' = ready \ {cur[w]}
    /\ UNCHANGED published

\* The event is applied by a transaction of handleCreate or by one statement.
FallbackEffect(w, e) ==
    \/ Action[e] = "create" /\ HandleCreate(w, e)
    \/ Action[e] # "create" /\ e \notin Rejected /\ ApplyNow(e) /\ UNCHANGED processed

Fallback(w) ==
    LET e == cur[w] IN
    /\ pc[w] = "fallback"
    /\ FallbackEffect(w, e)
    /\ IF failed[w] /\ Action[e] # "vote" THEN UNCHANGED streamVars ELSE AckOne(w)
    /\ cur' = [cur EXCEPT ![w] = None]
    /\ Goto(w, "run")
    /\ UNCHANGED <<setting, migrated, batch, todo, failed, claims, faults>>

\* An error, also one after the effect: the reply of the commit or of the statement
\* is lost.  create, update, delete: the next event gets a new transaction.  vote:
\* the loop goes on with the closed one, every statement of which fails.
FallbackError(w) ==
    LET e == cur[w] IN
    /\ pc[w] = "fallback"
    /\ \/ /\ UNCHANGED <<applied, processed, faults>>
          /\ e \in Rejected \/ (Action[e] = "create" /\ ~migrated)
       \/ Fault /\ (UNCHANGED <<applied, processed>> \/ FallbackEffect(w, e))
    /\ failed' = [failed EXCEPT ![w] = TRUE]
    /\ todo' = IF Action[e] = "vote" THEN [todo EXCEPT ![w] = {}] ELSE todo
    /\ cur' = [cur EXCEPT ![w] = None]
    /\ Goto(w, "run")
    /\ UNCHANGED <<setting, streamVars, migrated, batch, claims>>

Rollback(w) ==
    /\ pc[w] = "run" /\ todo[w] = {}
    /\ failed[w]
    /\ NakAll(w)
    /\ Reset(w)
    /\ UNCHANGED <<setting, dbVars, faults>>

\* What a COMMIT makes visible.
Committed(w) ==
    /\ applied' = [e \in Events |-> IF e \in claims[w] THEN applied[e] + 1 ELSE applied[e]]
    /\ processed' = processed \cup claims[w]

Commit(w) ==
    /\ pc[w] = "run" /\ todo[w] = {}
    /\ ~failed[w]
    /\ Committed(w)
    /\ claims' = [claims EXCEPT ![w] = {}]
    /\ Goto(w, "ack")
    /\ UNCHANGED <<setting, streamVars, migrated, batch, todo, cur, failed, faults>>

\* A COMMIT that reports an error may have happened.
CommitError(w) ==
    /\ pc[w] = "run" /\ todo[w] = {}
    /\ ~failed[w]
    /\ Fault
    /\ Committed(w) \/ UNCHANGED <<processed, applied>>
    /\ NakAll(w)
    /\ Reset(w)
    /\ UNCHANGED <<setting, migrated>>

Ack(w) ==
    /\ pc[w] = "ack"
    /\ AckAll(w)
    /\ Reset(w)
    /\ UNCHANGED <<setting, dbVars, faults>>

\* The process dies, or (pc = "ack") its acknowledgements are lost.  A failed
\* pool.Begin in a fallback leaves a nil transaction, which panics: also this.
Crash(w) ==
    /\ pc[w] # "idle"
    /\ Fault
    /\ Reset(w)
    /\ UNCHANGED <<setting, streamVars, dbVars>>

Migrate ==
    /\ migrated' = TRUE
    /\ UNCHANGED <<setting, streamVars, processed, applied, workerVars, faults>>

Step(w) ==
    \/ Fetch(w) \/ Begin(w) \/ Rollback(w) \/ Commit(w) \/ Ack(w)
    \/ Fallback(w) \/ FallbackError(w)
    \/ \E e \in Events : Skip(w, e) \/ Apply(w, e) \/ Wait(w, e) \/ NoTable(w, e)
    \/ Granted(w) \/ StatementError(w)

Next ==
    \/ \E e \in Events : Publish(e) \/ Redeliver(e)
    \/ \E w \in Workers : Step(w) \/ BeginError(w) \/ CommitError(w) \/ Crash(w)
    \/ Migrate

\* Workers loop for ever and JetStream redelivers for ever; whether anything is
\* published, and whether a migration is ever run, is not assumed.
Fairness ==
    /\ \A w \in Workers : WF_vars(Step(w))
    /\ \A e \in Events : WF_vars(Redeliver(e))

Spec == Init /\ [][Next]_vars
FairSpec == Spec /\ Fairness

-----------------------------------------------------------------------------
(* Properties.                                                             *)

\* Exactly-once effects: with the table of event ids in place, no effect is
\* committed twice and none without its mark, however often a message is
\* delivered, to however many replicas at once, and wherever a worker dies.
ExactlyOnce ==
    TableExists => \A e \in Events : applied[e] = IF e \in processed THEN 1 ELSE 0

\* A message leaves the queue only after its effect is committed, with or
\* without the table.
AckedIsApplied == \A e \in acked : applied[e] >= 1

\* Two open transactions never hold the same event, and none holds one that is
\* already committed: the second INSERT of an id waits for the first.
NoDoubleClaim ==
    \A w, v \in Workers :
        /\ w # v => claims[w] \cap claims[v] = {}
        /\ claims[w] \cap processed = {}

\* Some event that is in the stream cannot be applied.
Poisoned == published \cap (Malformed \cup Rejected) # {}

\* With the table in place and no event in the stream that cannot be applied,
\* every event is eventually applied and leaves the queue: two replicas that
\* wait for each other's event ids, lost commits and crashes included.
EventuallySettled ==
    TableExists => \A e \in Events :
        e \in published ~> ((applied[e] >= 1 /\ e \in acked) \/ Poisoned)

=============================================================================
