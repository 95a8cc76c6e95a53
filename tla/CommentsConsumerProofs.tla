----------------------- MODULE CommentsConsumerProofs -----------------------
(***************************************************************************)
(* Proofs about CommentsConsumer, for any events, replicas, batch size and *)
(* number of faults.                                                       *)
(*                                                                         *)
(* The inductive invariant accounts for every event of a batch (Batching): *)
(* it is still to do, or it was skipped because the batch has failed, or   *)
(* it is claimed by the open transaction, or its effect is committed.  So  *)
(* a worker about to acknowledge has only committed effects in its batch.  *)
(* Marks says that marks and effects are committed together.               *)
(***************************************************************************)
EXTENDS CommentsConsumer, TLAPS

Batching ==
    \A w \in Workers :
        /\ todo[w] \subseteq batch[w]
        /\ claims[w] \subseteq batch[w]
        /\ claims[w] \cap todo[w] = {}
        /\ ~migrated => claims[w] = {}
        /\ pc[w] \in {"wait", "fallback"} => cur[w] \in Events
        /\ pc[w] = "wait" => migrated /\ cur[w] \in todo[w]
        /\ pc[w] \in {"idle", "begin"} => ~failed[w]
        /\ pc[w] \in {"idle", "begin"} => todo[w] = {}
        /\ pc[w] \in {"idle", "begin", "fallback", "ack"} => claims[w] = {}
        /\ pc[w] \in {"run", "wait"} /\ ~failed[w] =>
              \A e \in batch[w] \ (todo[w] \cup claims[w]) : applied[e] >= 1
        /\ pc[w] = "fallback" /\ ~failed[w] =>
              \A e \in batch[w] \ (todo[w] \cup claims[w] \cup {cur[w]}) : applied[e] >= 1
        /\ pc[w] = "ack" => \A e \in batch[w] : applied[e] >= 1

Marks ==
    /\ \A e \in processed : applied[e] >= 1
    /\ TableExists =>
        /\ migrated
        /\ \A w \in Workers : pc[w] # "fallback"
        /\ \A e \in Events : applied[e] = IF e \in processed THEN 1 ELSE 0

IInv == TypeOK /\ Batching /\ Marks /\ NoDoubleClaim /\ AckedIsApplied

\* An empty stream, no marks, idle workers.
LEMMA InitInv == Init => IInv
  BY CommentsAssumption DEF CommentsAssumption, Init, IInv, TypeOK, Batching, Marks,
     TableExists, NoDoubleClaim, AckedIsApplied, Controls

\* The statements of one event keep the worker's locals in range.
LEMMA ExecuteType ==
  ASSUME TypeOK, NEW w \in Workers, NEW e \in published, Execute(w, e)
  PROVE  /\ todo' \in [Workers -> SUBSET published]
         /\ failed' \in [Workers -> BOOLEAN]
         /\ claims' \in [Workers -> SUBSET published]
<1> USE DEF TypeOK, Execute, Advance, Abort
<1>1. CASE e \in processed
  BY <1>1
<1>2. CASE e \notin processed \cup Rejected
  BY <1>2
<1>3. CASE e \in Rejected \ processed
  BY <1>3
<1>4. QED
  BY <1>1, <1>2, <1>3

\* Types.
LEMMA TypeStep == IInv /\ [Next]_vars => TypeOK'
<1> SUFFICES ASSUME IInv, [Next]_vars PROVE TypeOK'
  OBVIOUS
<1> USE CommentsAssumption DEF CommentsAssumption, IInv, TypeOK, Batching,
        Controls, streamVars, dbVars, workerVars, Goto, Fault
<1>1. CASE UNCHANGED vars
  BY <1>1 DEF vars
<1>2. ASSUME NEW e \in Events, Publish(e) \/ Redeliver(e)
      PROVE  TypeOK'
  BY <1>2 DEF Publish, Redeliver
<1>3. CASE Migrate
  BY <1>3 DEF Migrate
<1>4. ASSUME NEW w \in Workers, Fetch(w)
      PROVE  TypeOK'
  BY <1>4 DEF Fetch, Batches
<1>5. ASSUME NEW w \in Workers, Begin(w)
      PROVE  TypeOK'
  BY <1>5 DEF Begin
<1>6. ASSUME NEW w \in Workers, BeginError(w)
      PROVE  TypeOK'
  BY <1>6 DEF BeginError, NakAll, Reset
<1>7. ASSUME NEW w \in Workers, NEW e \in Events, Skip(w, e)
      PROVE  TypeOK'
  BY <1>7 DEF Skip, Advance
<1>8. ASSUME NEW w \in Workers, NEW e \in Events, Apply(w, e)
      PROVE  TypeOK'
  <2>1. e \in published /\ Execute(w, e)
    BY <1>8 DEF Apply
  <2>2. QED
    BY <1>8, <2>1, ExecuteType DEF Apply
<1>9. ASSUME NEW w \in Workers, NEW e \in Events, Wait(w, e)
      PROVE  TypeOK'
  BY <1>9 DEF Wait
<1>10. ASSUME NEW w \in Workers, Granted(w)
      PROVE  TypeOK'
  <2>1. cur[w] \in published /\ Execute(w, cur[w])
    BY <1>10 DEF Granted
  <2>2. QED
    BY <1>10, <2>1, ExecuteType DEF Granted
<1>11. ASSUME NEW w \in Workers, StatementError(w)
      PROVE  TypeOK'
  BY <1>11 DEF StatementError, Abort
<1>12. ASSUME NEW w \in Workers, NEW e \in Events, NoTable(w, e)
      PROVE  TypeOK'
  BY <1>12 DEF NoTable, Advance
<1>13. ASSUME NEW w \in Workers, Fallback(w)
      PROVE  TypeOK'
  BY <1>13 DEF Fallback, FallbackEffect, HandleCreate, Held, ApplyNow, AckOne
<1>14. ASSUME NEW w \in Workers, FallbackError(w)
      PROVE  TypeOK'
  BY <1>14 DEF FallbackError, FallbackEffect, HandleCreate, Held, ApplyNow
<1>15. ASSUME NEW w \in Workers, Rollback(w)
      PROVE  TypeOK'
  BY <1>15 DEF Rollback, NakAll, Reset
<1>16. ASSUME NEW w \in Workers, Commit(w)
      PROVE  TypeOK'
  BY <1>16 DEF Commit, Committed
<1>17. ASSUME NEW w \in Workers, CommitError(w)
      PROVE  TypeOK'
  BY <1>17 DEF CommitError, Committed, NakAll, Reset
<1>18. ASSUME NEW w \in Workers, Ack(w)
      PROVE  TypeOK'
  BY <1>18 DEF Ack, AckAll, Reset
<1>19. ASSUME NEW w \in Workers, Crash(w)
      PROVE  TypeOK'
  BY <1>19 DEF Crash, Reset
<1>20. QED
  BY <1>1, <1>2, <1>3, <1>4, <1>5, <1>6, <1>7, <1>8, <1>9, <1>10,
     <1>11, <1>12, <1>13, <1>14, <1>15, <1>16, <1>17, <1>18, <1>19
     DEF Next, Step

\* Where each event of a batch is.
LEMMA BatchingStep == IInv /\ [Next]_vars => Batching'
<1> SUFFICES ASSUME IInv, [Next]_vars PROVE Batching'
  OBVIOUS
<1> USE CommentsAssumption DEF CommentsAssumption, IInv, TypeOK, Batching, Marks, TableExists,
        Controls, streamVars, dbVars, workerVars, Goto, Fault
<1>1. CASE UNCHANGED vars
  BY <1>1 DEF vars
<1>2. ASSUME NEW e \in Events, Publish(e) \/ Redeliver(e)
      PROVE  Batching'
  BY <1>2 DEF Publish, Redeliver
<1>3. CASE Migrate
  BY <1>3 DEF Migrate
<1>4. ASSUME NEW w \in Workers, Fetch(w)
      PROVE  Batching'
  BY <1>4 DEF Fetch, Batches
<1>5. ASSUME NEW w \in Workers, Begin(w)
      PROVE  Batching'
  BY <1>5 DEF Begin
<1>6. ASSUME NEW w \in Workers, BeginError(w)
      PROVE  Batching'
  BY <1>6 DEF BeginError, NakAll, Reset
<1>7. ASSUME NEW w \in Workers, NEW e \in Events, Skip(w, e)
      PROVE  Batching'
  BY <1>7 DEF Skip, Advance
<1>8. ASSUME NEW w \in Workers, NEW e \in Events, Apply(w, e)
      PROVE  Batching'
  BY <1>8 DEF Apply, Execute, Advance, Abort, Held
<1>9. ASSUME NEW w \in Workers, NEW e \in Events, Wait(w, e)
      PROVE  Batching'
  BY <1>9 DEF Wait
<1>10. ASSUME NEW w \in Workers, Granted(w)
      PROVE  Batching'
  <2> DEFINE e == cur[w]
  <2>1. e \in Events /\ e \in todo[w] /\ Execute(w, e) /\ pc[w] = "wait"
    BY <1>10 DEF Granted
  <2>2. /\ pc' = [pc EXCEPT ![w] = "run"] /\ cur' = [cur EXCEPT ![w] = None]
        /\ UNCHANGED <<applied, batch, migrated>>
    BY <1>10 DEF Granted
  <2> HIDE DEF e
  <2>3. CASE e \in processed
    BY <2>1, <2>2, <2>3 DEF Execute, Advance
  <2>4. CASE e \notin processed \cup Rejected
    BY <2>1, <2>2, <2>4 DEF Execute, Advance
  <2>5. CASE e \in Rejected \ processed
    BY <2>1, <2>2, <2>5 DEF Execute, Abort
  <2>6. QED
    BY <2>3, <2>4, <2>5
<1>11. ASSUME NEW w \in Workers, StatementError(w)
      PROVE  Batching'
  BY <1>11 DEF StatementError, Abort
<1>12. ASSUME NEW w \in Workers, NEW e \in Events, NoTable(w, e)
      PROVE  Batching'
  BY <1>12 DEF NoTable, Advance
<1>13. ASSUME NEW w \in Workers, Fallback(w)
      PROVE  Batching'
  BY <1>13 DEF Fallback, FallbackEffect, HandleCreate, Held, ApplyNow, AckOne
<1>14. ASSUME NEW w \in Workers, FallbackError(w)
      PROVE  Batching'
  BY <1>14 DEF FallbackError, FallbackEffect, HandleCreate, Held, ApplyNow
<1>15. ASSUME NEW w \in Workers, Rollback(w)
      PROVE  Batching'
  BY <1>15 DEF Rollback, NakAll, Reset
<1>16. ASSUME NEW w \in Workers, Commit(w)
      PROVE  Batching'
  BY <1>16 DEF Commit, Committed
<1>17. ASSUME NEW w \in Workers, CommitError(w)
      PROVE  Batching'
  BY <1>17 DEF CommitError, Committed, NakAll, Reset
<1>18. ASSUME NEW w \in Workers, Ack(w)
      PROVE  Batching'
  BY <1>18 DEF Ack, AckAll, Reset
<1>19. ASSUME NEW w \in Workers, Crash(w)
      PROVE  Batching'
  BY <1>19 DEF Crash, Reset
<1>20. QED
  BY <1>1, <1>2, <1>3, <1>4, <1>5, <1>6, <1>7, <1>8, <1>9, <1>10,
     <1>11, <1>12, <1>13, <1>14, <1>15, <1>16, <1>17, <1>18, <1>19
     DEF Next, Step

\* Marks and effects are committed together.
LEMMA MarksStep == IInv /\ [Next]_vars => Marks'
<1> SUFFICES ASSUME IInv, [Next]_vars PROVE Marks'
  OBVIOUS
<1> USE CommentsAssumption DEF CommentsAssumption, IInv, TypeOK, Batching, Marks, TableExists, TableExists, NoDoubleClaim,
        Controls, streamVars, dbVars, workerVars, Goto, Fault
<1>1. CASE UNCHANGED vars
  BY <1>1 DEF vars
<1>2. ASSUME NEW e \in Events, Publish(e) \/ Redeliver(e)
      PROVE  Marks'
  BY <1>2 DEF Publish, Redeliver
<1>3. CASE Migrate
  BY <1>3 DEF Migrate
<1>4. ASSUME NEW w \in Workers, Fetch(w)
      PROVE  Marks'
  BY <1>4 DEF Fetch, Batches
<1>5. ASSUME NEW w \in Workers, Begin(w)
      PROVE  Marks'
  BY <1>5 DEF Begin
<1>6. ASSUME NEW w \in Workers, BeginError(w)
      PROVE  Marks'
  BY <1>6 DEF BeginError, NakAll, Reset
<1>7. ASSUME NEW w \in Workers, NEW e \in Events, Skip(w, e)
      PROVE  Marks'
  BY <1>7 DEF Skip, Advance
<1>8. ASSUME NEW w \in Workers, NEW e \in Events, Apply(w, e)
      PROVE  Marks'
  BY <1>8 DEF Apply, Execute, Advance, Abort, Held
<1>9. ASSUME NEW w \in Workers, NEW e \in Events, Wait(w, e)
      PROVE  Marks'
  BY <1>9 DEF Wait
<1>10. ASSUME NEW w \in Workers, Granted(w)
      PROVE  Marks'
  BY <1>10 DEF Granted, Execute, Advance, Abort, Held
<1>11. ASSUME NEW w \in Workers, StatementError(w)
      PROVE  Marks'
  BY <1>11 DEF StatementError, Abort
<1>12. ASSUME NEW w \in Workers, NEW e \in Events, NoTable(w, e)
      PROVE  Marks'
  BY <1>12 DEF NoTable, Advance
<1>13. ASSUME NEW w \in Workers, Fallback(w)
      PROVE  Marks'
  BY <1>13 DEF Fallback, FallbackEffect, HandleCreate, Held, ApplyNow, AckOne
<1>14. ASSUME NEW w \in Workers, FallbackError(w)
      PROVE  Marks'
  BY <1>14 DEF FallbackError, FallbackEffect, HandleCreate, Held, ApplyNow
<1>15. ASSUME NEW w \in Workers, Rollback(w)
      PROVE  Marks'
  BY <1>15 DEF Rollback, NakAll, Reset
<1>16. ASSUME NEW w \in Workers, Commit(w)
      PROVE  Marks'
  BY <1>16 DEF Commit, Committed
<1>17. ASSUME NEW w \in Workers, CommitError(w)
      PROVE  Marks'
  BY <1>17 DEF CommitError, Committed, NakAll, Reset
<1>18. ASSUME NEW w \in Workers, Ack(w)
      PROVE  Marks'
  BY <1>18 DEF Ack, AckAll, Reset
<1>19. ASSUME NEW w \in Workers, Crash(w)
      PROVE  Marks'
  BY <1>19 DEF Crash, Reset
<1>20. QED
  BY <1>1, <1>2, <1>3, <1>4, <1>5, <1>6, <1>7, <1>8, <1>9, <1>10,
     <1>11, <1>12, <1>13, <1>14, <1>15, <1>16, <1>17, <1>18, <1>19
     DEF Next, Step

\* The unique index on event_id.
LEMMA ClaimStep == IInv /\ [Next]_vars => NoDoubleClaim'
<1> SUFFICES ASSUME IInv, [Next]_vars PROVE NoDoubleClaim'
  OBVIOUS
<1> USE CommentsAssumption DEF CommentsAssumption, IInv, TypeOK, Batching, NoDoubleClaim,
        Controls, streamVars, dbVars, workerVars, Goto, Fault
<1>1. CASE UNCHANGED vars
  BY <1>1 DEF vars
<1>2. ASSUME NEW e \in Events, Publish(e) \/ Redeliver(e)
      PROVE  NoDoubleClaim'
  BY <1>2 DEF Publish, Redeliver
<1>3. CASE Migrate
  BY <1>3 DEF Migrate
<1>4. ASSUME NEW w \in Workers, Fetch(w)
      PROVE  NoDoubleClaim'
  BY <1>4 DEF Fetch, Batches
<1>5. ASSUME NEW w \in Workers, Begin(w)
      PROVE  NoDoubleClaim'
  BY <1>5 DEF Begin
<1>6. ASSUME NEW w \in Workers, BeginError(w)
      PROVE  NoDoubleClaim'
  BY <1>6 DEF BeginError, NakAll, Reset
<1>7. ASSUME NEW w \in Workers, NEW e \in Events, Skip(w, e)
      PROVE  NoDoubleClaim'
  BY <1>7 DEF Skip, Advance
<1>8. ASSUME NEW w \in Workers, NEW e \in Events, Apply(w, e)
      PROVE  NoDoubleClaim'
  BY <1>8 DEF Apply, Execute, Advance, Abort, Held
<1>9. ASSUME NEW w \in Workers, NEW e \in Events, Wait(w, e)
      PROVE  NoDoubleClaim'
  BY <1>9 DEF Wait
<1>10. ASSUME NEW w \in Workers, Granted(w)
      PROVE  NoDoubleClaim'
  BY <1>10 DEF Granted, Execute, Advance, Abort, Held
<1>11. ASSUME NEW w \in Workers, StatementError(w)
      PROVE  NoDoubleClaim'
  BY <1>11 DEF StatementError, Abort
<1>12. ASSUME NEW w \in Workers, NEW e \in Events, NoTable(w, e)
      PROVE  NoDoubleClaim'
  BY <1>12 DEF NoTable, Advance
<1>13. ASSUME NEW w \in Workers, Fallback(w)
      PROVE  NoDoubleClaim'
  BY <1>13 DEF Fallback, FallbackEffect, HandleCreate, Held, ApplyNow, AckOne
<1>14. ASSUME NEW w \in Workers, FallbackError(w)
      PROVE  NoDoubleClaim'
  BY <1>14 DEF FallbackError, FallbackEffect, HandleCreate, Held, ApplyNow
<1>15. ASSUME NEW w \in Workers, Rollback(w)
      PROVE  NoDoubleClaim'
  BY <1>15 DEF Rollback, NakAll, Reset
<1>16. ASSUME NEW w \in Workers, Commit(w)
      PROVE  NoDoubleClaim'
  BY <1>16 DEF Commit, Committed
<1>17. ASSUME NEW w \in Workers, CommitError(w)
      PROVE  NoDoubleClaim'
  BY <1>17 DEF CommitError, Committed, NakAll, Reset
<1>18. ASSUME NEW w \in Workers, Ack(w)
      PROVE  NoDoubleClaim'
  BY <1>18 DEF Ack, AckAll, Reset
<1>19. ASSUME NEW w \in Workers, Crash(w)
      PROVE  NoDoubleClaim'
  BY <1>19 DEF Crash, Reset
<1>20. QED
  BY <1>1, <1>2, <1>3, <1>4, <1>5, <1>6, <1>7, <1>8, <1>9, <1>10,
     <1>11, <1>12, <1>13, <1>14, <1>15, <1>16, <1>17, <1>18, <1>19
     DEF Next, Step

\* Acknowledge after commit.
LEMMA AckedStep == IInv /\ [Next]_vars => AckedIsApplied'
<1> SUFFICES ASSUME IInv, [Next]_vars PROVE AckedIsApplied'
  OBVIOUS
<1> USE CommentsAssumption DEF CommentsAssumption, IInv, TypeOK, Batching, Marks, TableExists, AckedIsApplied,
        Controls, streamVars, dbVars, workerVars, Goto, Fault
<1>1. CASE UNCHANGED vars
  BY <1>1 DEF vars
<1>2. ASSUME NEW e \in Events, Publish(e) \/ Redeliver(e)
      PROVE  AckedIsApplied'
  BY <1>2 DEF Publish, Redeliver
<1>3. CASE Migrate
  BY <1>3 DEF Migrate
<1>4. ASSUME NEW w \in Workers, Fetch(w)
      PROVE  AckedIsApplied'
  BY <1>4 DEF Fetch, Batches
<1>5. ASSUME NEW w \in Workers, Begin(w)
      PROVE  AckedIsApplied'
  BY <1>5 DEF Begin
<1>6. ASSUME NEW w \in Workers, BeginError(w)
      PROVE  AckedIsApplied'
  BY <1>6 DEF BeginError, NakAll, Reset
<1>7. ASSUME NEW w \in Workers, NEW e \in Events, Skip(w, e)
      PROVE  AckedIsApplied'
  BY <1>7 DEF Skip, Advance
<1>8. ASSUME NEW w \in Workers, NEW e \in Events, Apply(w, e)
      PROVE  AckedIsApplied'
  BY <1>8 DEF Apply, Execute, Advance, Abort, Held
<1>9. ASSUME NEW w \in Workers, NEW e \in Events, Wait(w, e)
      PROVE  AckedIsApplied'
  BY <1>9 DEF Wait
<1>10. ASSUME NEW w \in Workers, Granted(w)
      PROVE  AckedIsApplied'
  BY <1>10 DEF Granted, Execute, Advance, Abort, Held
<1>11. ASSUME NEW w \in Workers, StatementError(w)
      PROVE  AckedIsApplied'
  BY <1>11 DEF StatementError, Abort
<1>12. ASSUME NEW w \in Workers, NEW e \in Events, NoTable(w, e)
      PROVE  AckedIsApplied'
  BY <1>12 DEF NoTable, Advance
<1>13. ASSUME NEW w \in Workers, Fallback(w)
      PROVE  AckedIsApplied'
  BY <1>13 DEF Fallback, FallbackEffect, HandleCreate, Held, ApplyNow, AckOne
<1>14. ASSUME NEW w \in Workers, FallbackError(w)
      PROVE  AckedIsApplied'
  BY <1>14 DEF FallbackError, FallbackEffect, HandleCreate, Held, ApplyNow
<1>15. ASSUME NEW w \in Workers, Rollback(w)
      PROVE  AckedIsApplied'
  BY <1>15 DEF Rollback, NakAll, Reset
<1>16. ASSUME NEW w \in Workers, Commit(w)
      PROVE  AckedIsApplied'
  BY <1>16 DEF Commit, Committed
<1>17. ASSUME NEW w \in Workers, CommitError(w)
      PROVE  AckedIsApplied'
  BY <1>17 DEF CommitError, Committed, NakAll, Reset
<1>18. ASSUME NEW w \in Workers, Ack(w)
      PROVE  AckedIsApplied'
  BY <1>18 DEF Ack, AckAll, Reset
<1>19. ASSUME NEW w \in Workers, Crash(w)
      PROVE  AckedIsApplied'
  BY <1>19 DEF Crash, Reset
<1>20. QED
  BY <1>1, <1>2, <1>3, <1>4, <1>5, <1>6, <1>7, <1>8, <1>9, <1>10,
     <1>11, <1>12, <1>13, <1>14, <1>15, <1>16, <1>17, <1>18, <1>19
     DEF Next, Step

-----------------------------------------------------------------------------

\* IInv holds in every reachable state of the workers, the stream and the
\* database.
THEOREM Invariance == Spec => []IInv
<1>1. IInv /\ [Next]_vars => IInv'
  BY TypeStep, BatchingStep, MarksStep, ClaimStep, AckedStep DEF IInv
<1>2. QED
  BY InitInv, <1>1, PTL DEF Spec

\* Workers only ever hold, mark and acknowledge messages that were published.
THEOREM TypeCorrect == Spec => []TypeOK
<1>1. IInv => TypeOK
  BY DEF IInv
<1>2. QED
  BY Invariance, <1>1, PTL

\* However often JetStream delivers a message, its effect is committed once and
\* together with its mark, provided processed_events was migrated first.
THEOREM EffectsExactlyOnce == Spec => []ExactlyOnce
<1>1. IInv => ExactlyOnce
  BY DEF IInv, Marks, ExactlyOnce
<1>2. QED
  BY Invariance, <1>1, PTL

\* No message is acknowledged before its effect is committed, also on the
\* fallback paths.
THEOREM NoLostEvent == Spec => []AckedIsApplied
<1>1. IInv => AckedIsApplied
  BY DEF IInv
<1>2. QED
  BY Invariance, <1>1, PTL

\* Open transactions never overlap on an event id.
THEOREM ClaimsDisjoint == Spec => []NoDoubleClaim
<1>1. IInv => NoDoubleClaim
  BY DEF IInv
<1>2. QED
  BY Invariance, <1>1, PTL

=============================================================================
