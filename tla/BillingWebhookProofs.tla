------------------------ MODULE BillingWebhookProofs ------------------------
(***************************************************************************)
(* Proofs about BillingWebhook, for any events, any number of concurrent   *)
(* handlers, any of the three idempotency backends and any number of       *)
(* faults and lost marks.                                                  *)
(*                                                                         *)
(* PublishBound is not inductive: a handler that has marked an event and   *)
(* not yet published it holds a claim on one publish.  ClaimBound counts   *)
(* the publishes already made and the claims still held together, and      *)
(* bounds the sum by the marks the idempotency store ever kept.            *)
(***************************************************************************)
EXTENDS BillingWebhook, FiniteSetTheorems, TLAPS

Serving ==
    \A h \in Handlers :
        /\ pc[h] # "idle" => event[h] \in Events
        /\ pc[h] \in {"save", "publish"} => Type[event[h]] # "other"
        /\ pc[h] = "publish" /\ Persistent => Saved(event[h])

ClaimBound ==
    \A e \in Events : published[e] + Cardinality(Working(e)) <= forgotten[e] + Marked(e)

IInv == TypeOK /\ Serving /\ PublishedIsSaved /\ ClaimBound

\* Working(e) is finite, so its cardinality is a number.
LEMMA WorkingFinite ==
  ASSUME NEW e \in Events
  PROVE  IsFiniteSet(Working(e)) /\ Cardinality(Working(e)) \in Nat
  BY BillingAssumption, FS_Subset, FS_CardinalityType DEF BillingAssumption, Working

\* A subset of a finite set is no larger.
LEMMA SubsetCardinality ==
  ASSUME NEW S, IsFiniteSet(S), NEW T, T \subseteq S
  PROVE  Cardinality(T) \in Nat /\ Cardinality(T) <= Cardinality(S)
<1>1. IsFiniteSet(T) /\ Cardinality(T) <= Cardinality(S)
  BY FS_Subset
<1>2. QED
  BY <1>1, FS_CardinalityType

\* No request and no mark: nothing is saved, published or claimed.
LEMMA InitInv == Init => IInv
<1> SUFFICES ASSUME Init PROVE IInv
  OBVIOUS
<1>1. TypeOK /\ Serving /\ PublishedIsSaved
  BY BillingAssumption DEF BillingAssumption, Init, TypeOK, Serving, PublishedIsSaved, Controls,
                               Persistent
<1>2. \A e \in Events : Working(e) = {}
  BY DEF Init, Working
<1>3. ClaimBound
  BY <1>2, FS_EmptySet DEF ClaimBound, Marked, Init
<1>4. QED
  BY <1>1, <1>3 DEF IInv

\* Types, the handlers' locals, and publish after commit.
LEMMA SavedStep == IInv /\ [Next]_vars => (TypeOK /\ Serving /\ PublishedIsSaved)'
<1> SUFFICES ASSUME IInv, [Next]_vars PROVE (TypeOK /\ Serving /\ PublishedIsSaved)'
  OBVIOUS
<1> USE BillingAssumption DEF BillingAssumption, IInv, TypeOK, Serving, PublishedIsSaved, Saved,
        Controls, EventTypes, Goto, Fault, Finish, Persistent
<1>1. CASE UNCHANGED vars
  BY <1>1 DEF vars
<1>2. ASSUME NEW h \in Handlers, NEW e \in Events, Deliver(h, e)
      PROVE  (TypeOK /\ Serving /\ PublishedIsSaved)'
  BY <1>2 DEF Deliver
<1>3. ASSUME NEW h \in Handlers, CheckOK(h)
      PROVE  (TypeOK /\ Serving /\ PublishedIsSaved)'
  BY <1>3 DEF CheckOK, Check
<1>4. ASSUME NEW h \in Handlers, CheckError(h)
      PROVE  (TypeOK /\ Serving /\ PublishedIsSaved)'
  BY <1>4 DEF CheckError
<1>5. ASSUME NEW h \in Handlers, Save(h)
      PROVE  (TypeOK /\ Serving /\ PublishedIsSaved)'
  BY <1>5 DEF Save, Commit
<1>6. ASSUME NEW h \in Handlers, SaveError(h)
      PROVE  (TypeOK /\ Serving /\ PublishedIsSaved)'
  BY <1>6 DEF SaveError, Commit
<1>7. ASSUME NEW h \in Handlers, Publish(h)
      PROVE  (TypeOK /\ Serving /\ PublishedIsSaved)'
  BY <1>7 DEF Publish, AppendMessage
<1>8. ASSUME NEW h \in Handlers, PublishError(h)
      PROVE  (TypeOK /\ Serving /\ PublishedIsSaved)'
  BY <1>8 DEF PublishError, AppendMessage
<1>9. ASSUME NEW h \in Handlers, Reply(h)
      PROVE  (TypeOK /\ Serving /\ PublishedIsSaved)'
  BY <1>9 DEF Reply
<1>10. ASSUME NEW h \in Handlers, Crash(h)
      PROVE  (TypeOK /\ Serving /\ PublishedIsSaved)'
  BY <1>10 DEF Crash
<1>11. ASSUME NEW e \in Events, Expire(e)
      PROVE  (TypeOK /\ Serving /\ PublishedIsSaved)'
  BY <1>11 DEF Expire, Forget
<1>12. CASE Restart
  BY <1>12 DEF Restart, Forget
<1>13. QED
  BY <1>1, <1>2, <1>3, <1>4, <1>5, <1>6, <1>7, <1>8, <1>9, <1>10, <1>11, <1>12 DEF Next, Step

\* One claim per mark.  CheckOK turns a new mark into a claim, Publish turns a
\* claim into a publish, errors and crashes only drop claims.
LEMMA ClaimStep == IInv /\ [Next]_vars => ClaimBound'
<1> SUFFICES ASSUME IInv, [Next]_vars, NEW e \in Events
             PROVE  (published[e] + Cardinality(Working(e)) <= forgotten[e] + Marked(e))'
  BY DEF ClaimBound
<1> DEFINE W == Working(e)
           Goal == published'[e] + Cardinality(W') <= forgotten'[e] + Marked(e)'
<1>1. /\ IsFiniteSet(W) /\ Cardinality(W) \in Nat /\ published[e] \in Nat /\ forgotten[e] \in Nat
      /\ Marked(e) \in {0, 1} /\ published[e] + Cardinality(W) <= forgotten[e] + Marked(e)
  BY WorkingFinite, BillingAssumption DEF BillingAssumption, IInv, TypeOK, ClaimBound, Marked
\* Steps that claim nothing, publish nothing and lose no mark.
<1>2. ASSUME W' \subseteq W, seen \subseteq seen', published'[e] = published[e],
             forgotten'[e] = forgotten[e]
      PROVE  Goal
  <2>1. Cardinality(W') \in Nat /\ Cardinality(W') <= Cardinality(W)
    BY <1>1, <1>2, SubsetCardinality
  <2>2. Marked(e)' \in Nat /\ Marked(e) <= Marked(e)'
    BY <1>2 DEF Marked
  <2>3. QED
    BY <1>1, <1>2, <2>1, <2>2
\* Steps of a handler that leaves save or publish for ok or fail.
<1>3. ASSUME NEW h \in Handlers, h \in W, W' = W \ {h}, seen' = seen,
             published'[e] \in {published[e], published[e] + 1}, forgotten' = forgotten
      PROVE  Goal
  <2>1. Cardinality(W') = Cardinality(W) - 1
    BY <1>1, <1>3, FS_RemoveElement
  <2>2. Marked(e)' = Marked(e)
    BY <1>3 DEF Marked
  <2>3. QED
    BY <1>1, <1>3, <2>1, <2>2
<1> USE DEF IInv, TypeOK, Serving, Working, Goto, Fault, Finish, Controls
<1>4. CASE UNCHANGED vars
  BY <1>2, <1>4 DEF vars
<1>5. ASSUME NEW h \in Handlers, CheckOK(h)
      PROVE  Goal
  <2>1. published' = published /\ forgotten' = forgotten /\ seen' = seen \cup {event[h]}
    BY <1>5 DEF CheckOK, Check
  <2>2. CASE event[h] = e /\ e \notin seen
    <3>1. W' \in {W, W \cup {h}} /\ h \notin W
      BY <1>5, <2>2 DEF CheckOK, Check
    <3>2. Cardinality(W') \in {Cardinality(W), Cardinality(W) + 1}
      <4>1. Cardinality(W \cup {h}) = Cardinality(W) + 1
        BY <1>1, <3>1, FS_AddElement
      <4>2. QED
        BY <3>1, <4>1
    <3>3. Marked(e) = 0 /\ Marked(e)' = 1
      BY <2>1, <2>2 DEF Marked
    <3>4. QED
      BY <1>1, <2>1, <3>2, <3>3
  <2>3. CASE ~(event[h] = e /\ e \notin seen)
    <3>1. W' = W
      BY <1>5, <2>3 DEF CheckOK, Check
    <3>2. QED
      BY <1>2, <2>1, <3>1
  <2>4. QED
    BY <2>2, <2>3
<1>6. ASSUME NEW h \in Handlers, NEW f \in Events, Deliver(h, f)
      PROVE  Goal
  <2>1. W' \subseteq W /\ UNCHANGED <<seen, published, forgotten>>
    BY <1>6 DEF Deliver
  <2>2. QED
    BY <1>2, <2>1
<1>7. ASSUME NEW h \in Handlers, CheckError(h) \/ Save(h) \/ SaveError(h) \/ Reply(h) \/ Crash(h)
      PROVE  Goal
  <2>1. W' \subseteq W
    BY <1>7 DEF CheckError, Save, SaveError, Reply, Crash
  <2>2. seen \subseteq seen' /\ UNCHANGED <<published, forgotten>>
    BY <1>7 DEF CheckError, Save, SaveError, Reply, Crash
  <2>3. QED
    BY <1>2, <2>1, <2>2
<1>8. ASSUME NEW h \in Handlers, Publish(h) \/ PublishError(h)
      PROVE  Goal
  <2>1. UNCHANGED <<seen, forgotten>>
    BY <1>8 DEF Publish, PublishError
  <2>2. CASE event[h] = e
    <3>1. h \in W /\ W' = W \ {h}
      BY <1>8, <2>2 DEF Publish, PublishError
    <3>2. published'[e] \in {published[e], published[e] + 1}
      BY <1>8, <2>2 DEF Publish, PublishError, AppendMessage
    <3>3. QED
      BY <1>3, <2>1, <3>1, <3>2
  <2>3. CASE event[h] # e
    <3>1. W' = W /\ published'[e] = published[e]
      BY <1>8, <2>3 DEF Publish, PublishError, AppendMessage
    <3>2. QED
      BY <1>2, <2>1, <3>1
  <2>4. QED
    BY <2>2, <2>3
<1>9. ASSUME NEW f \in Events, Expire(f)
      PROVE  Goal
  <2>1. W' = W /\ published' = published
    BY <1>9 DEF Expire
  <2>2. forgotten'[e] + Marked(e)' = forgotten[e] + Marked(e)
    BY <1>1, <1>9 DEF Expire, Forget, Marked
  <2>3. QED
    BY <1>1, <2>1, <2>2
<1>10. CASE Restart
  <2>1. W' = {} /\ published' = published
    BY <1>10 DEF Restart
  <2>2. forgotten'[e] + Marked(e)' = forgotten[e] + Marked(e)
    BY <1>1, <1>10 DEF Restart, Forget, Marked
  <2>3. Cardinality(W') = 0
    BY <2>1, FS_EmptySet
  <2>4. QED
    BY <1>1, <2>1, <2>2, <2>3
<1>11. QED
  BY <1>4, <1>5, <1>6, <1>7, <1>8, <1>9, <1>10 DEF Next, Step

-----------------------------------------------------------------------------

\* IInv holds in every reachable state of the billing service.
THEOREM Invariance == Spec => []IInv
<1>1. IInv /\ [Next]_vars => IInv'
  BY SavedStep, ClaimStep DEF IInv
<1>2. QED
  BY InitInv, <1>1, PTL DEF Spec

\* payments holds only checkouts, subscriptions only invoices, and every
\* handler is at a control point of ServeHTTP.
THEOREM TypeCorrect == Spec => []TypeOK
<1>1. IInv => TypeOK
  BY DEF IInv
<1>2. QED
  BY Invariance, <1>1, PTL

\* No message in the stream BILLING is about an event that is not in its table.
THEOREM PublishAfterCommit == Spec => []PublishedIsSaved
<1>1. IInv => PublishedIsSaved
  BY DEF IInv
<1>2. QED
  BY Invariance, <1>1, PTL

\* An event is published at most once per mark of the idempotency store; with
\* Postgres, which loses none, at most once.
THEOREM AtMostOncePerMark == Spec => []PublishBound
<1>1. IInv => PublishBound
  <2> SUFFICES ASSUME IInv, NEW e \in Events
               PROVE  published[e] <= forgotten[e] + Marked(e)
    BY DEF PublishBound
  <2>1. published[e] \in Nat /\ forgotten[e] \in Nat /\ Marked(e) \in Nat
    BY BillingAssumption DEF BillingAssumption, IInv, TypeOK, Marked
  <2>2. published[e] + Cardinality(Working(e)) <= forgotten[e] + Marked(e)
    BY DEF IInv, ClaimBound
  <2>3. QED
    BY <2>1, <2>2, WorkingFinite
<1>2. QED
  BY Invariance, <1>1, PTL

=============================================================================
