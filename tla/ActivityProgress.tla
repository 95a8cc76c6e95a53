--------------------------- MODULE ActivityProgress -------------------------
(***************************************************************************)
(* Watch progress (services/activity, services/bff handlers/activity.go):  *)
(* one row per user and episode, last writer by client_ts_ms wins.         *)
(*                                                                         *)
(* The BFF either publishes a report on activity.progress and answers 202, *)
(* or calls UpsertEpisodeProgress; which one is the setting of the BFF     *)
(* replica that got the report.  Workers take batches from the stream and  *)
(* apply a batch in one transaction: per report its id into                *)
(* processed_events, then the upsert.  The first failure ends the loop and *)
(* the whole batch is nak'd.  Until the table is migrated each report is   *)
(* applied in a transaction of its own.                                    *)
(*                                                                         *)
(* A row is represented by the report whose values it holds.  The two      *)
(* statements of a report are one step; the row it writes and its id stay  *)
(* locked until the transaction ends (READ COMMITTED, external).           *)
(***************************************************************************)
EXTENDS Integers, FiniteSets, Sequences

CONSTANTS
    Reports, RowKeys, NoReport,
    Key,                 \* user and episode of a report
    ClientTs,            \* client_ts_ms, 0 when the client sends none
    Path,                \* "async" or "sync": how the BFF that gets it writes
    Rejected,            \* reports of the async path with an id that is no UUID
    Workers, BatchSize,
    MaxTs,               \* bound on the clock
    MaxFaults            \* bound on crashes and failing statements

ASSUME ProgressAssumption ==
    /\ NoReport \notin Reports
    /\ Key \in [Reports -> RowKeys]
    /\ MaxTs \in Nat \ {0}
    /\ ClientTs \in [Reports -> 0 .. MaxTs]
    /\ Path \in [Reports -> {"async", "sync"}]
    /\ Rejected \subseteq {e \in Reports : Path[e] = "async"}
    /\ BatchSize \in Nat \ {0}
    /\ MaxFaults \in Nat

VARIABLES
    ts,         \* client_ts_ms of a report once the BFF has it, 0 before
    published, ready, acked,  \* the stream activity.progress
    migrated,   \* processed_events exists
    processed,  \* committed event ids
    row,        \* user_episode_progress, NoReport for no row
    applied,    \* history: reports whose upsert is committed
    pc, batch, todo,  \* a worker, its batch and what is left of it
    failed,
    claims,     \* ids its open transaction has inserted
    draft,      \* rows its open transaction has written, NoReport for none
    faults

streamVars == <<published, ready, acked>>
dbVars == <<migrated, processed, row, applied>>
workerVars == <<pc, batch, todo, failed, claims, draft>>
progressVars == <<ts, streamVars, dbVars, workerVars, faults>>

Batches == UNION {[1 .. n -> Reports] : n \in 0 .. BatchSize}

\* Every variable keeps its type; ids in processed_events and in an open
\* transaction are those of reports that came through the stream.
ProgressTypeOK ==
    /\ ts \in [Reports -> 0 .. MaxTs]
    /\ published \in SUBSET Reports
    /\ ready \in SUBSET published
    /\ acked \in SUBSET published
    /\ migrated \in BOOLEAN
    /\ processed \in SUBSET published
    /\ row \in [RowKeys -> Reports \cup {NoReport}]
    /\ applied \in SUBSET Reports
    /\ pc \in [Workers -> {"idle", "begin", "run", "wait", "fallback", "ack"}]
    /\ batch \in [Workers -> Batches]
    /\ todo \in [Workers -> Batches]
    /\ failed \in [Workers -> BOOLEAN]
    /\ claims \in [Workers -> SUBSET published]
    /\ draft \in [Workers -> [RowKeys -> Reports \cup {NoReport}]]
    /\ faults \in 0 .. MaxFaults

NoDraft == [k \in RowKeys |-> NoReport]

ProgressInit ==
    /\ ts = [e \in Reports |-> 0]
    /\ published = {}
    /\ ready = {}
    /\ acked = {}
    /\ migrated \in BOOLEAN
    /\ processed = {}
    /\ row = NoDraft
    /\ applied = {}
    /\ pc = [w \in Workers |-> "idle"]
    /\ batch = [w \in Workers |-> <<>>]
    /\ todo = [w \in Workers |-> <<>>]
    /\ failed = [w \in Workers |-> FALSE]
    /\ claims = [w \in Workers |-> {}]
    /\ draft = [w \in Workers |-> NoDraft]
    /\ faults = 0

Fault == faults < MaxFaults /\ faults' = faults + 1

Goto(w, p) == pc' = [pc EXCEPT ![w] = p]

Members(b) == {b[i] : i \in 1 .. Len(b)}

\* Plausible bugs, each a variant of the operator of the same name below.
NewerAlways(cur, t) == TRUE
NakAllAcknowledges(w) ==
    acked' = acked \cup Members(batch[w]) /\ ready' = ready \ Members(batch[w])
AckAllForgotten(w) == UNCHANGED <<acked, ready>>

-----------------------------------------------------------------------------
(* The upsert.                                                             *)

\* ON CONFLICT ... WHERE client_ts_ms <= EXCLUDED.client_ts_ms
Newer(cur, t) == cur = NoReport \/ ts[cur] <= t

\* The row after the upsert of a report sent at t.
Upsert(cur, e, t) == IF Newer(cur, t) THEN e ELSE cur

\* Another transaction has inserted the id or written the row.
Blocks(v, e) == \E c \in claims[v] : c = e \/ Key[c] = Key[e]

\* Free for w: Postgres serves those who wait for a lock before newcomers.
Awaits(v, e) == pc[v] = "wait" /\ Key[Head(todo[v])] = Key[e]
Free(w, e) ==
    \A v \in Workers \ {w} : ~Blocks(v, e) /\ (pc[w] = "wait" \/ ~Awaits(v, e))

-----------------------------------------------------------------------------
(* The BFF.                                                                *)

\* A report without client_ts_ms gets the time of the BFF.
TsOf(e) == IF ClientTs[e] = 0 THEN 1 .. MaxTs ELSE {ClientTs[e]}

PublishProgress(e) ==
    /\ ts[e] = 0 /\ Path[e] = "async"
    /\ \E t \in TsOf(e) : ts' = [ts EXCEPT ![e] = t]
    /\ published' = published \cup {e}
    /\ ready' = ready \cup {e}
    /\ UNCHANGED <<acked, dbVars, workerVars, faults>>

\* The gRPC path: one statement, which waits for a transaction on the same row.
UpsertEpisodeProgress(e) ==
    /\ ts[e] = 0 /\ Path[e] = "sync"
    /\ \A v \in Workers : ~Blocks(v, e)
    /\ \E t \in TsOf(e) :
        /\ ts' = [ts EXCEPT ![e] = t]
        /\ row' = [row EXCEPT ![Key[e]] = Upsert(@, e, t)]
    /\ applied' = applied \cup {e}
    /\ UNCHANGED <<streamVars, migrated, processed, workerVars, faults>>

Migrate ==
    /\ ~migrated
    /\ migrated' = TRUE
    /\ UNCHANGED <<ts, streamVars, processed, row, applied, workerVars, faults>>

-----------------------------------------------------------------------------
(* The stream.                                                             *)

\* AckWait runs out.
Redeliver(e) ==
    /\ e \in published \ (ready \cup acked)
    /\ ready' = ready \cup {e}
    /\ UNCHANGED <<ts, published, acked, dbVars, workerVars, faults>>

NakAll(w) == ready' = ready \cup (Members(batch[w]) \ acked) /\ UNCHANGED acked
AckAll(w) == acked' = acked \cup Members(batch[w]) /\ ready' = ready \ Members(batch[w])

-----------------------------------------------------------------------------
(* The worker.                                                             *)

Reset(w) ==
    /\ Goto(w, "idle")
    /\ batch' = [batch EXCEPT ![w] = <<>>]
    /\ todo' = [todo EXCEPT ![w] = <<>>]
    /\ failed' = [failed EXCEPT ![w] = FALSE]
    /\ claims' = [claims EXCEPT ![w] = {}]
    /\ draft' = [draft EXCEPT ![w] = NoDraft]

\* Up to BatchSize messages in the order they are delivered.
Fetch(w) ==
    /\ pc[w] = "idle"
    /\ \E b \in Batches :
        /\ b # <<>> /\ Members(b) \subseteq ready
        /\ Cardinality(Members(b)) = Len(b)
        /\ Len(b) = BatchSize \/ Members(b) = ready
        /\ batch' = [batch EXCEPT ![w] = b]
        /\ ready' = ready \ Members(b)
    /\ Goto(w, "begin")
    /\ UNCHANGED <<ts, published, acked, dbVars, todo, failed, claims, draft, faults>>

Begin(w) ==
    /\ pc[w] = "begin"
    /\ todo' = [todo EXCEPT ![w] = batch[w]]
    /\ Goto(w, "run")
    /\ UNCHANGED <<ts, streamVars, dbVars, batch, failed, claims, draft, faults>>

BeginError(w) ==
    /\ pc[w] = "begin"
    /\ Fault
    /\ NakAll(w)
    /\ Reset(w)
    /\ UNCHANGED <<ts, published, dbVars>>

Working(w) == pc[w] \in {"run", "wait"} /\ todo[w] # <<>>
Advance(w) == todo' = [todo EXCEPT ![w] = Tail(@)]

\* The INSERT into processed_events and applyProgressUpsert.
Apply(w) ==
    LET e == Head(todo[w])
        k == Key[e]
        cur == IF draft[w][k] # NoReport THEN draft[w][k] ELSE row[k]
    IN
    /\ Working(w)
    /\ migrated
    /\ e \notin Rejected
    /\ Free(w, e)
    /\ IF e \in processed
       THEN UNCHANGED <<claims, draft>>
       ELSE /\ claims' = [claims EXCEPT ![w] = @ \cup {e}]
            /\ draft' = [draft EXCEPT ![w][k] = Upsert(cur, e, ts[e])]
    /\ Advance(w)
    /\ Goto(w, "run")
    /\ UNCHANGED <<ts, streamVars, dbVars, batch, failed, faults>>

\* The statement waits for a transaction that has the row or the id.
Wait(w) ==
    /\ pc[w] = "run" /\ todo[w] # <<>>
    /\ migrated
    /\ Head(todo[w]) \notin Rejected
    /\ \E v \in Workers \ {w} : Blocks(v, Head(todo[w]))
    /\ Goto(w, "wait")
    /\ UNCHANGED <<ts, streamVars, dbVars, batch, todo, failed, claims, draft, faults>>

\* A cycle of transactions waiting for one another; Postgres ends one of them.
WaitsFor(w, v) == w # v /\ pc[w] = "wait" /\ Blocks(v, Head(todo[w]))
Deadlocked(w) ==
    \E D \in SUBSET Workers : w \in D /\ \A x \in D : \E y \in D : WaitsFor(x, y)

\* A payload that does not parse, a refused value, a failed statement: failed,
\* break.
StatementError(w) ==
    /\ Working(w)
    /\ migrated
    /\ IF Head(todo[w]) \in Rejected \/ Deadlocked(w) THEN UNCHANGED faults ELSE Fault
    /\ failed' = [failed EXCEPT ![w] = TRUE]
    /\ todo' = [todo EXCEPT ![w] = <<>>]
    /\ claims' = [claims EXCEPT ![w] = {}]
    /\ draft' = [draft EXCEPT ![w] = NoDraft]
    /\ Goto(w, "run")
    /\ UNCHANGED <<ts, streamVars, dbVars, batch>>

\* "does not exist": rollback, and applyProgressWithoutIdempotency.
NoTable(w) ==
    /\ Working(w)
    /\ ~migrated
    /\ claims' = [claims EXCEPT ![w] = {}]
    /\ draft' = [draft EXCEPT ![w] = NoDraft]
    /\ Goto(w, "fallback")
    /\ UNCHANGED <<ts, streamVars, dbVars, batch, todo, failed, faults>>

Fallback(w) ==
    LET e == Head(todo[w]) IN
    /\ pc[w] = "fallback"
    /\ e \notin Rejected
    /\ Free(w, e)
    /\ row' = [row EXCEPT ![Key[e]] = Upsert(@, e, ts[e])]
    /\ applied' = applied \cup {e}
    /\ IF failed[w]
       THEN UNCHANGED <<acked, ready>>
       ELSE acked' = acked \cup {e} /\ ready' = ready \ {e}
    /\ Advance(w)
    /\ Goto(w, "run")
    /\ UNCHANGED <<ts, published, migrated, processed, batch, failed, claims, draft, faults>>

\* The fallback fails, possibly in a COMMIT that happened; the loop goes on with
\* the next report.
FallbackError(w) ==
    LET e == Head(todo[w]) IN
    /\ pc[w] = "fallback"
    /\ IF e \in Rejected THEN UNCHANGED faults ELSE Fault
    /\ \/ UNCHANGED <<row, applied>>
       \/ /\ e \notin Rejected /\ Free(w, e)
          /\ row' = [row EXCEPT ![Key[e]] = Upsert(@, e, ts[e])]
          /\ applied' = applied \cup {e}
    /\ failed' = [failed EXCEPT ![w] = TRUE]
    /\ Advance(w)
    /\ Goto(w, "run")
    /\ UNCHANGED <<ts, streamVars, migrated, processed, batch, claims, draft>>

EndOfBatch(w) == pc[w] = "run" /\ todo[w] = <<>>

Rollback(w) ==
    /\ EndOfBatch(w)
    /\ failed[w]
    /\ NakAll(w)
    /\ Reset(w)
    /\ UNCHANGED <<ts, published, dbVars, faults>>

\* What a COMMIT makes visible.
Committed(w) ==
    /\ processed' = processed \cup claims[w]
    /\ row' = [k \in RowKeys |-> IF draft[w][k] # NoReport THEN draft[w][k] ELSE row[k]]
    /\ applied' = applied \cup claims[w]

Commit(w) ==
    /\ EndOfBatch(w)
    /\ ~failed[w]
    /\ Committed(w)
    /\ Goto(w, "ack")
    /\ claims' = [claims EXCEPT ![w] = {}]
    /\ draft' = [draft EXCEPT ![w] = NoDraft]
    /\ UNCHANGED <<ts, streamVars, migrated, batch, todo, failed, faults>>

\* A COMMIT that reports an error may have happened.
CommitError(w) ==
    /\ EndOfBatch(w)
    /\ ~failed[w]
    /\ Fault
    /\ Committed(w) \/ UNCHANGED <<processed, row, applied>>
    /\ NakAll(w)
    /\ Reset(w)
    /\ UNCHANGED <<ts, published, migrated>>

Ack(w) ==
    /\ pc[w] = "ack"
    /\ AckAll(w)
    /\ Reset(w)
    /\ UNCHANGED <<ts, published, dbVars, faults>>

\* The process dies, also because Begin failed after a fallback and the nil
\* transaction is used; Postgres rolls back.
Crash(w) ==
    /\ pc[w] # "idle"
    /\ Fault
    /\ Reset(w)
    /\ UNCHANGED <<ts, streamVars, dbVars>>

-----------------------------------------------------------------------------

Step(w) ==
    \/ Fetch(w) \/ Begin(w) \/ BeginError(w) \/ Apply(w) \/ Wait(w)
    \/ StatementError(w)
    \/ NoTable(w) \/ Fallback(w) \/ FallbackError(w)
    \/ Rollback(w) \/ Commit(w) \/ CommitError(w) \/ Ack(w)

ProgressNext ==
    \/ \E e \in Reports : PublishProgress(e) \/ UpsertEpisodeProgress(e) \/ Redeliver(e)
    \/ Migrate
    \/ \E w \in Workers : Step(w) \/ Crash(w)

\* The loop never ends; JetStream redelivers; Postgres serves those who wait for
\* a row in turn.
ProgressFairness ==
    /\ \A w \in Workers : WF_progressVars(Step(w)) /\ SF_progressVars(Apply(w) \/ Fallback(w))
    /\ \A e \in Reports : WF_progressVars(Redeliver(e))

ProgressSpec == ProgressInit /\ [][ProgressNext]_progressVars
FairProgressSpec == ProgressSpec /\ ProgressFairness

-----------------------------------------------------------------------------
(* Properties.                                                             *)

AppliedTo(k) == {e \in applied : Key[e] = k}

\* The row of an episode holds the report with the largest client_ts_ms of all
\* that were ever applied to it, in whatever order, on whichever path and by
\* however many workers they were.
RowIsNewest ==
    \A k \in RowKeys :
        /\ row[k] = NoReport <=> AppliedTo(k) = {}
        /\ row[k] # NoReport => row[k] \in applied /\ Key[row[k]] = k
        /\ \A e \in AppliedTo(k) : ts[e] <= ts[row[k]]

\* A report leaves the queue only when the row is at least as new as it, so that
\* no accepted report is lost to a failed batch, a crash or a lost commit.
AckedIsReflected ==
    \A e \in acked : row[Key[e]] # NoReport /\ ts[e] <= ts[row[Key[e]]]

\* Every accepted report leaves the queue in the end, as long as every report in
\* it can be applied: also when two workers lock two rows in opposite order.
EventuallySettled ==
    Rejected = {} => \A e \in Reports : e \in published ~> e \in acked

=============================================================================
