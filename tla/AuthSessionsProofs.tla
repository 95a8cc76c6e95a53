------------------------- MODULE AuthSessionsProofs -------------------------
(***************************************************************************)
(* Proofs about AuthSessions, for any number of handlers, users, sessions  *)
(* and clock ticks.                                                        *)
(*                                                                         *)
(* The inductive invariant is IInv.  Its parts say what a handler may      *)
(* still rely on when it resumes after a Store call:                       *)
(*   ReqOK       which locals are set at each control point, and that the  *)
(*               user they name is a row of the users table;               *)
(*   Fresh       a uuid drawn for a session that is not yet stored belongs *)
(*               to one handler only and names no row;                     *)
(*   Lineage     the parent of a stored session is stored, dead, and was   *)
(*               alive when the session was created;                       *)
(*   Exchange    a handler past ReplaceRefreshSession has a dead old       *)
(*               token, one past the checks an unexpired one.              *)
(***************************************************************************)
EXTENDS AuthSessions, TLAPS

ReqOK ==
    /\ \A s \in sessions : userId[s] \in UserIds
    /\ \A r \in Reqs :
        /\ req[r].pc # "idle" /\ req[r].pc # "revoke" => req[r].user \in UserIds
        /\ req[r].pc \in {"get_user", "replace", "create", "revoke"} => req[r].old \in sessions
        /\ req[r].pc = "create" => req[r].new \in SessionIds

Fresh ==
    /\ sessions \subseteq minted
    /\ \A r \in Reqs : req[r].pc = "create" =>
        /\ req[r].new \in minted \ sessions
        /\ \A q \in Reqs : req[q].pc = "create" /\ q # r => req[q].new # req[r].new

Exchange ==
    \A r \in Reqs :
        /\ req[r].pc \in {"get_user", "replace", "create"} =>
              req[r].now <= expiresAt[req[r].old]
        /\ req[r].pc = "create" => Revoked(req[r].old)

Lineage ==
    \A c \in sessions : parent[c] # None =>
        /\ parent[c] \in sessions
        /\ Revoked(parent[c])
        /\ expiresAt[c] - RefreshTokenTTL <= expiresAt[parent[c]]

IInv == TypeOK /\ ReqOK /\ Fresh /\ Exchange /\ Lineage /\ IssuedTokensExist

-----------------------------------------------------------------------------

\* The empty database with no request in flight satisfies the invariant.
LEMMA InitInv == Init => IInv
  BY AuthAssumption DEF AuthAssumption, Init, IInv, TypeOK, ReqOK, Fresh, Exchange, Lineage,
     IssuedTokensExist, Idle, At, ReqState, Controls, Roles, Time

\* Types.  ReqOK is what makes a response well typed.
LEMMA TypeStep == IInv /\ [Next]_vars => TypeOK'
<1> SUFFICES ASSUME IInv, [Next]_vars PROVE TypeOK'
  OBVIOUS
<1> USE AuthAssumption DEF AuthAssumption, IInv, TypeOK, ReqOK, ReqState, Controls, Roles, Time, Claims,
        Idle, At, userVars, sessionVars, clientVars, Goto, Return
<1>1. CASE UNCHANGED vars
  BY <1>1 DEF vars
<1>2. ASSUME NEW r \in Reqs, NEW u \in UserIds, NEW e \in Emails, NEW n \in Usernames,
             NEW p \in Passwords, Register(r, u, e, n, p)
      PROVE  TypeOK'
  BY <1>2 DEF Register, CreateUser
<1>3. ASSUME NEW r \in Reqs, NEW l \in Emails \cup Usernames, NEW p \in Passwords, Login(r, l, p)
      PROVE  TypeOK'
  BY <1>3 DEF Login, FindUserByLogin
<1>4. ASSUME NEW r \in Reqs, NEW s \in held, RefreshRead(r, s)
      PROVE  TypeOK'
  BY <1>4 DEF RefreshRead, Refreshable
<1>5. ASSUME NEW r \in Reqs, NEW s \in held, LogoutRead(r, s)
      PROVE  TypeOK'
  BY <1>5 DEF LogoutRead
<1>6. ASSUME NEW r \in Reqs, SetUserRole(r)
      PROVE  TypeOK'
  BY <1>6 DEF SetUserRole
<1>7. ASSUME NEW r \in Reqs, IssueTokens(r)
      PROVE  TypeOK'
  <2>1. PICK s \in SessionIds \ minted :
          /\ minted' = minted \cup {s}
          /\ \/ /\ CreateRefreshSession(s, req[r].user, clock, None)
                /\ Respond(r, s) \/ UNCHANGED clientVars
             \/ UNCHANGED <<sessionVars, clientVars>>
    BY <1>7 DEF IssueTokens
  <2>2. req[r].user \in UserIds /\ req[r].role \in Roles
    BY <1>7 DEF IssueTokens
  <2>3. clock + RefreshTokenTTL \in Time
    OBVIOUS
  <2>4. CASE UNCHANGED <<sessionVars, clientVars>>
    BY <1>7, <2>1, <2>4 DEF IssueTokens
  <2>5. CASE CreateRefreshSession(s, req[r].user, clock, None)
    BY <1>7, <2>1, <2>2, <2>3, <2>5 DEF IssueTokens, CreateRefreshSession, Respond
  <2>6. QED
    BY <2>1, <2>4, <2>5
<1>8. ASSUME NEW r \in Reqs, RefreshGetUser(r)
      PROVE  TypeOK'
  BY <1>8 DEF RefreshGetUser
<1>9. ASSUME NEW r \in Reqs, RefreshReplace(r)
      PROVE  TypeOK'
  <2>1. PICK n \in SessionIds \ minted :
          /\ minted' = minted \cup {n}
          /\ \/ /\ ReplaceRefreshSession(req[r].old, n, req[r].now)
                /\ \/ Goto(r, At("create", req[r].user, req[r].role, req[r].old, n,
                                  req[r].now))
                   \/ Return(r)
             \/ /\ UNCHANGED <<revokedAt, replacedBy>>
                /\ Return(r)
    BY <1>9 DEF RefreshReplace
  <2>2. revokedAt' \in [SessionIds -> (0 .. MaxTime) \cup {None}]
        /\ replacedBy' \in [SessionIds -> SessionIds \cup {None}]
    BY <1>9, <2>1 DEF RefreshReplace, ReplaceRefreshSession
  <2>3. req' \in [Reqs -> ReqState]
    BY <1>9, <2>1 DEF RefreshReplace
  <2>4. QED
    BY <1>9, <2>1, <2>2, <2>3 DEF RefreshReplace
<1>10. ASSUME NEW r \in Reqs, RefreshCreate(r)
      PROVE  TypeOK'
  BY <1>10 DEF RefreshCreate, CreateRefreshSession, Respond
<1>11. ASSUME NEW r \in Reqs, LogoutRevoke(r)
      PROVE  TypeOK'
  BY <1>11 DEF LogoutRevoke, RevokeRefreshSession
<1>12. CASE Restart
  BY <1>12 DEF Restart
<1>13. CASE Tick
  BY <1>13 DEF Tick
<1>14. QED
  BY <1>1, <1>2, <1>3, <1>4, <1>5, <1>6, <1>7,
     <1>8, <1>9, <1>10, <1>11, <1>12, <1>13 DEF Next

\* What the locals of a handler name.
LEMMA ReqOKStep == IInv /\ [Next]_vars => ReqOK'
<1> SUFFICES ASSUME IInv, [Next]_vars PROVE ReqOK'
  OBVIOUS
<1> USE AuthAssumption DEF AuthAssumption, IInv, TypeOK, ReqOK, ReqState, Idle, At,
        userVars, sessionVars, clientVars, Goto, Return
<1>1. CASE UNCHANGED vars
  BY <1>1 DEF vars
<1>2. ASSUME NEW r \in Reqs, NEW u \in UserIds, NEW e \in Emails, NEW n \in Usernames,
             NEW p \in Passwords, Register(r, u, e, n, p)
      PROVE  ReqOK'
  BY <1>2 DEF Register, CreateUser
<1>3. ASSUME NEW r \in Reqs, NEW l \in Emails \cup Usernames, NEW p \in Passwords, Login(r, l, p)
      PROVE  ReqOK'
  BY <1>3 DEF Login, FindUserByLogin
<1>4. ASSUME NEW r \in Reqs, NEW s \in held, RefreshRead(r, s)
      PROVE  ReqOK'
  BY <1>4 DEF RefreshRead, Refreshable
<1>5. ASSUME NEW r \in Reqs, NEW s \in held, LogoutRead(r, s)
      PROVE  ReqOK'
  BY <1>5 DEF LogoutRead
<1>6. ASSUME NEW r \in Reqs, SetUserRole(r)
      PROVE  ReqOK'
  BY <1>6 DEF SetUserRole
<1>7. ASSUME NEW r \in Reqs, IssueTokens(r)
      PROVE  ReqOK'
  BY <1>7 DEF IssueTokens, CreateRefreshSession, Respond
<1>8. ASSUME NEW r \in Reqs, RefreshGetUser(r)
      PROVE  ReqOK'
  BY <1>8 DEF RefreshGetUser
<1>9. ASSUME NEW r \in Reqs, RefreshReplace(r)
      PROVE  ReqOK'
  BY <1>9 DEF RefreshReplace, ReplaceRefreshSession
<1>10. ASSUME NEW r \in Reqs, RefreshCreate(r)
      PROVE  ReqOK'
  BY <1>10 DEF RefreshCreate, CreateRefreshSession, Respond
<1>11. ASSUME NEW r \in Reqs, LogoutRevoke(r)
      PROVE  ReqOK'
  BY <1>11 DEF LogoutRevoke, RevokeRefreshSession
<1>12. CASE Restart
  BY <1>12 DEF Restart
<1>13. CASE Tick
  BY <1>13 DEF Tick
<1>14. QED
  BY <1>1, <1>2, <1>3, <1>4, <1>5, <1>6, <1>7,
     <1>8, <1>9, <1>10, <1>11, <1>12, <1>13 DEF Next

\* Uuids drawn and not yet stored.
LEMMA FreshStep == IInv /\ [Next]_vars => Fresh'
<1> SUFFICES ASSUME IInv, [Next]_vars PROVE Fresh'
  OBVIOUS
<1> USE AuthAssumption DEF AuthAssumption, IInv, TypeOK, ReqOK, Fresh, ReqState, Idle, At,
        userVars, sessionVars, clientVars, Goto, Return
<1>1. CASE UNCHANGED vars
  BY <1>1 DEF vars
<1>2. ASSUME NEW r \in Reqs, NEW u \in UserIds, NEW e \in Emails, NEW n \in Usernames,
             NEW p \in Passwords, Register(r, u, e, n, p)
      PROVE  Fresh'
  <2>1. req' = [req EXCEPT ![r] = req'[r]] /\ req'[r].pc # "create"
    BY <1>2 DEF Register
  <2>2. UNCHANGED <<sessions, minted>>
    BY <1>2 DEF Register
  <2>3. QED
    BY <2>1, <2>2
<1>3. ASSUME NEW r \in Reqs, NEW l \in Emails \cup Usernames, NEW p \in Passwords, Login(r, l, p)
      PROVE  Fresh'
  BY <1>3 DEF Login, FindUserByLogin
<1>4. ASSUME NEW r \in Reqs, NEW s \in held, RefreshRead(r, s)
      PROVE  Fresh'
  BY <1>4 DEF RefreshRead, Refreshable
<1>5. ASSUME NEW r \in Reqs, NEW s \in held, LogoutRead(r, s)
      PROVE  Fresh'
  BY <1>5 DEF LogoutRead
<1>6. ASSUME NEW r \in Reqs, SetUserRole(r)
      PROVE  Fresh'
  BY <1>6 DEF SetUserRole
<1>7. ASSUME NEW r \in Reqs, IssueTokens(r)
      PROVE  Fresh'
  BY <1>7 DEF IssueTokens, CreateRefreshSession, Respond
<1>8. ASSUME NEW r \in Reqs, RefreshGetUser(r)
      PROVE  Fresh'
  BY <1>8 DEF RefreshGetUser
<1>9. ASSUME NEW r \in Reqs, RefreshReplace(r)
      PROVE  Fresh'
  BY <1>9 DEF RefreshReplace, ReplaceRefreshSession
<1>10. ASSUME NEW r \in Reqs, RefreshCreate(r)
      PROVE  Fresh'
  BY <1>10 DEF RefreshCreate, CreateRefreshSession, Respond
<1>11. ASSUME NEW r \in Reqs, LogoutRevoke(r)
      PROVE  Fresh'
  BY <1>11 DEF LogoutRevoke, RevokeRefreshSession
<1>12. CASE Restart
  BY <1>12 DEF Restart
<1>13. CASE Tick
  BY <1>13 DEF Tick
<1>14. QED
  BY <1>1, <1>2, <1>3, <1>4, <1>5, <1>6, <1>7,
     <1>8, <1>9, <1>10, <1>11, <1>12, <1>13 DEF Next

\* The old token of a Refresh in progress.
LEMMA ExchangeStep == IInv /\ [Next]_vars => Exchange'
<1> SUFFICES ASSUME IInv, [Next]_vars PROVE Exchange'
  OBVIOUS
<1> USE AuthAssumption DEF AuthAssumption, IInv, TypeOK, ReqOK, Fresh, Exchange, Revoked, ReqState, Idle, At,
        Time, userVars, sessionVars, clientVars, Goto, Return
<1>1. CASE UNCHANGED vars
  BY <1>1 DEF vars
<1>2. ASSUME NEW r \in Reqs, NEW u \in UserIds, NEW e \in Emails, NEW n \in Usernames,
             NEW p \in Passwords, Register(r, u, e, n, p)
      PROVE  Exchange'
  BY <1>2 DEF Register, CreateUser
<1>3. ASSUME NEW r \in Reqs, NEW l \in Emails \cup Usernames, NEW p \in Passwords, Login(r, l, p)
      PROVE  Exchange'
  BY <1>3 DEF Login, FindUserByLogin
<1>4. ASSUME NEW r \in Reqs, NEW s \in held, RefreshRead(r, s)
      PROVE  Exchange'
  BY <1>4 DEF RefreshRead, Refreshable
<1>5. ASSUME NEW r \in Reqs, NEW s \in held, LogoutRead(r, s)
      PROVE  Exchange'
  BY <1>5 DEF LogoutRead
<1>6. ASSUME NEW r \in Reqs, SetUserRole(r)
      PROVE  Exchange'
  BY <1>6 DEF SetUserRole
<1>7. ASSUME NEW r \in Reqs, IssueTokens(r)
      PROVE  Exchange'
  BY <1>7 DEF IssueTokens, CreateRefreshSession, Respond
<1>8. ASSUME NEW r \in Reqs, RefreshGetUser(r)
      PROVE  Exchange'
  BY <1>8 DEF RefreshGetUser
<1>9. ASSUME NEW r \in Reqs, RefreshReplace(r)
      PROVE  Exchange'
  BY <1>9 DEF RefreshReplace, ReplaceRefreshSession
<1>10. ASSUME NEW r \in Reqs, RefreshCreate(r)
      PROVE  Exchange'
  BY <1>10 DEF RefreshCreate, CreateRefreshSession, Respond
<1>11. ASSUME NEW r \in Reqs, LogoutRevoke(r)
      PROVE  Exchange'
  BY <1>11 DEF LogoutRevoke, RevokeRefreshSession
<1>12. CASE Restart
  BY <1>12 DEF Restart
<1>13. CASE Tick
  BY <1>13 DEF Tick
<1>14. QED
  BY <1>1, <1>2, <1>3, <1>4, <1>5, <1>6, <1>7,
     <1>8, <1>9, <1>10, <1>11, <1>12, <1>13 DEF Next

\* Parents of stored sessions.
LEMMA LineageStep == IInv /\ [Next]_vars => Lineage'
<1> SUFFICES ASSUME IInv, [Next]_vars PROVE Lineage'
  OBVIOUS
<1> USE AuthAssumption DEF AuthAssumption, IInv, TypeOK, ReqOK, Fresh, Exchange, Lineage, Revoked, ReqState, Idle,
        At, Time, userVars, sessionVars, clientVars, Goto, Return
<1>1. CASE UNCHANGED vars
  BY <1>1 DEF vars
<1>2. ASSUME NEW r \in Reqs, NEW u \in UserIds, NEW e \in Emails, NEW n \in Usernames,
             NEW p \in Passwords, Register(r, u, e, n, p)
      PROVE  Lineage'
  BY <1>2 DEF Register, CreateUser
<1>3. ASSUME NEW r \in Reqs, NEW l \in Emails \cup Usernames, NEW p \in Passwords, Login(r, l, p)
      PROVE  Lineage'
  BY <1>3 DEF Login, FindUserByLogin
<1>4. ASSUME NEW r \in Reqs, NEW s \in held, RefreshRead(r, s)
      PROVE  Lineage'
  BY <1>4 DEF RefreshRead, Refreshable
<1>5. ASSUME NEW r \in Reqs, NEW s \in held, LogoutRead(r, s)
      PROVE  Lineage'
  BY <1>5 DEF LogoutRead
<1>6. ASSUME NEW r \in Reqs, SetUserRole(r)
      PROVE  Lineage'
  BY <1>6 DEF SetUserRole
<1>7. ASSUME NEW r \in Reqs, IssueTokens(r)
      PROVE  Lineage'
  <2>1. CASE UNCHANGED sessionVars
    BY <1>7, <2>1
  <2>2. CASE \E s \in SessionIds \ minted : CreateRefreshSession(s, req[r].user, clock, None)
    <3>1. PICK s \in SessionIds \ sessions :
            /\ sessions' = sessions \cup {s} /\ revokedAt' = revokedAt
            /\ parent' = [parent EXCEPT ![s] = None]
            /\ expiresAt' = [expiresAt EXCEPT ![s] = clock + RefreshTokenTTL]
      BY <2>2 DEF CreateRefreshSession
    <3>2. QED
      BY <3>1
  <2>3. QED
    BY <1>7, <2>1, <2>2 DEF IssueTokens
<1>8. ASSUME NEW r \in Reqs, RefreshGetUser(r)
      PROVE  Lineage'
  BY <1>8 DEF RefreshGetUser
<1>9. ASSUME NEW r \in Reqs, RefreshReplace(r)
      PROVE  Lineage'
  BY <1>9 DEF RefreshReplace, ReplaceRefreshSession
<1>10. ASSUME NEW r \in Reqs, RefreshCreate(r)
      PROVE  Lineage'
  BY <1>10 DEF RefreshCreate, CreateRefreshSession, Respond
<1>11. ASSUME NEW r \in Reqs, LogoutRevoke(r)
      PROVE  Lineage'
  BY <1>11 DEF LogoutRevoke, RevokeRefreshSession
<1>12. CASE Restart
  BY <1>12 DEF Restart
<1>13. CASE Tick
  BY <1>13 DEF Tick
<1>14. QED
  BY <1>1, <1>2, <1>3, <1>4, <1>5, <1>6, <1>7,
     <1>8, <1>9, <1>10, <1>11, <1>12, <1>13 DEF Next

\* Tokens handed out.
LEMMA IssuedStep == IInv /\ [Next]_vars => IssuedTokensExist'
<1> SUFFICES ASSUME IInv, [Next]_vars PROVE IssuedTokensExist'
  OBVIOUS
<1> USE AuthAssumption DEF AuthAssumption, IInv, TypeOK, ReqOK, IssuedTokensExist,
        userVars, sessionVars, clientVars
<1>1. CASE UNCHANGED vars
  BY <1>1 DEF vars
<1>2. ASSUME NEW r \in Reqs, NEW u \in UserIds, NEW e \in Emails, NEW n \in Usernames,
             NEW p \in Passwords, Register(r, u, e, n, p)
      PROVE  IssuedTokensExist'
  BY <1>2 DEF Register, CreateUser
<1>3. ASSUME NEW r \in Reqs, NEW l \in Emails \cup Usernames, NEW p \in Passwords, Login(r, l, p)
      PROVE  IssuedTokensExist'
  BY <1>3 DEF Login, FindUserByLogin
<1>4. ASSUME NEW r \in Reqs, NEW s \in held, RefreshRead(r, s)
      PROVE  IssuedTokensExist'
  BY <1>4 DEF RefreshRead, Refreshable
<1>5. ASSUME NEW r \in Reqs, NEW s \in held, LogoutRead(r, s)
      PROVE  IssuedTokensExist'
  BY <1>5 DEF LogoutRead
<1>6. ASSUME NEW r \in Reqs, SetUserRole(r)
      PROVE  IssuedTokensExist'
  BY <1>6 DEF SetUserRole
<1>7. ASSUME NEW r \in Reqs, IssueTokens(r)
      PROVE  IssuedTokensExist'
  BY <1>7 DEF IssueTokens, CreateRefreshSession, Respond
<1>8. ASSUME NEW r \in Reqs, RefreshGetUser(r)
      PROVE  IssuedTokensExist'
  BY <1>8 DEF RefreshGetUser
<1>9. ASSUME NEW r \in Reqs, RefreshReplace(r)
      PROVE  IssuedTokensExist'
  BY <1>9 DEF RefreshReplace, ReplaceRefreshSession
<1>10. ASSUME NEW r \in Reqs, RefreshCreate(r)
      PROVE  IssuedTokensExist'
  BY <1>10 DEF RefreshCreate, CreateRefreshSession, Respond
<1>11. ASSUME NEW r \in Reqs, LogoutRevoke(r)
      PROVE  IssuedTokensExist'
  BY <1>11 DEF LogoutRevoke, RevokeRefreshSession
<1>12. CASE Restart
  BY <1>12 DEF Restart
<1>13. CASE Tick
  BY <1>13 DEF Tick
<1>14. QED
  BY <1>1, <1>2, <1>3, <1>4, <1>5, <1>6, <1>7,
     <1>8, <1>9, <1>10, <1>11, <1>12, <1>13 DEF Next

-----------------------------------------------------------------------------

\* IInv holds in every reachable state of the auth service.
THEOREM Invariance == Spec => []IInv
<1>1. IInv /\ [Next]_vars => IInv'
  BY TypeStep, ReqOKStep, FreshStep, ExchangeStep, LineageStep, IssuedStep DEF IInv
<1>2. QED
  BY InitInv, <1>1, PTL DEF Spec

\* The tables, the handlers' locals and the clients' tokens keep their types.
THEOREM TypeCorrect == Spec => []TypeOK
<1>1. IInv => TypeOK
  BY DEF IInv
<1>2. QED
  BY Invariance, <1>1, PTL

\* Rotation: whatever statements fail and however handlers interleave, a
\* session obtained by Refresh exists only if the token it replaced is dead.
THEOREM Rotation == Spec => []ParentDead
<1>1. IInv => ParentDead
  BY DEF IInv, Lineage, ParentDead
<1>2. QED
  BY Invariance, <1>1, PTL

\* Refresh never extends a token past its lifetime: the exchange was decided
\* while the old token was unexpired.
THEOREM Lifetime == Spec => []ChildWithinParentLifetime
<1>1. IInv => ChildWithinParentLifetime
  BY DEF IInv, Lineage, ChildWithinParentLifetime
<1>2. QED
  BY Invariance, <1>1, PTL

\* No client holds a refresh token that is not the token of a stored session.
THEOREM Issued == Spec => []IssuedTokensExist
<1>1. IInv => IssuedTokensExist
  BY DEF IInv
<1>2. QED
  BY Invariance, <1>1, PTL

\* revoked_at and replaced_by_session_id are written once.
THEOREM Finality == Spec => RevocationFinal
<1> DEFINE A == \A s \in SessionIds : Revoked(s) =>
                  revokedAt'[s] = revokedAt[s] /\ replacedBy'[s] = replacedBy[s]
<1>1. IInv /\ [Next]_vars => [A]_vars
  <2> SUFFICES ASSUME IInv, Next, NEW s \in SessionIds, Revoked(s)
               PROVE  revokedAt'[s] = revokedAt[s] /\ replacedBy'[s] = replacedBy[s]
    OBVIOUS
  <2> USE DEF IInv, TypeOK, Revoked, sessionVars, Next
  <2>1. CASE UNCHANGED <<revokedAt, replacedBy>>
    BY <2>1
  <2>2. ASSUME NEW r \in Reqs, RefreshReplace(r)
        PROVE  revokedAt'[s] = revokedAt[s] /\ replacedBy'[s] = replacedBy[s]
    BY <2>2 DEF RefreshReplace, ReplaceRefreshSession
  <2>3. ASSUME NEW r \in Reqs, LogoutRevoke(r)
        PROVE  revokedAt'[s] = revokedAt[s] /\ replacedBy'[s] = replacedBy[s]
    BY <2>3 DEF LogoutRevoke, RevokeRefreshSession
  <2>4. QED
    BY <2>1, <2>2, <2>3 DEF Register, Login, SetUserRole, IssueTokens, RefreshRead, LogoutRead,
       RefreshGetUser, RefreshCreate, CreateRefreshSession, Restart, Tick
<1>2. QED
  BY Invariance, <1>1, PTL DEF Spec, RevocationFinal

\* A dead token that no handler is exchanging stays that way: its successors
\* are fixed and no later Refresh of it gets past the checks.
THEOREM Frozen == Spec => FamilyFrozen
<1> DEFINE Out(s) == Revoked(s) /\ (\A r \in Reqs : ~Exchanging(r, s))
           A == \A s \in sessions : Revoked(s) /\ (\A r \in Reqs : ~Exchanging(r, s)) =>
                  Children(s)' = Children(s) /\ (\A r \in Reqs : ~Exchanging(r, s)')
<1>1. IInv /\ [Next]_vars => [A]_vars
  <2> SUFFICES ASSUME IInv, Next, NEW s \in sessions, Out(s)
               PROVE  Children(s)' = Children(s) /\ (\A r \in Reqs : ~Exchanging(r, s)')
    OBVIOUS
  <2> USE AuthAssumption DEF AuthAssumption, IInv, TypeOK, ReqState, Fresh, Revoked, Exchanging,
          sessionVars, Goto, Return, At, Idle
  <2>1. \A r \in Reqs : ~Exchanging(r, s)'
    <3>1. ASSUME NEW r \in Reqs, NEW t \in held, RefreshRead(r, t)
          PROVE  \A q \in Reqs : ~Exchanging(q, s)'
      BY <3>1 DEF RefreshRead, Refreshable
    <3>2. ASSUME NEW r \in Reqs, RefreshGetUser(r) \/ RefreshReplace(r) \/ RefreshCreate(r)
          PROVE  \A q \in Reqs : ~Exchanging(q, s)'
      BY <3>2 DEF RefreshGetUser, RefreshReplace, RefreshCreate
    <3>3. ASSUME NEW r \in Reqs, NEW u \in UserIds, NEW e \in Emails, NEW n \in Usernames,
                 NEW p \in Passwords, Register(r, u, e, n, p)
          PROVE  \A q \in Reqs : ~Exchanging(q, s)'
      BY <3>3 DEF Register
    <3>4. ASSUME NEW r \in Reqs, NEW l \in Emails \cup Usernames, NEW p \in Passwords,
                 Login(r, l, p)
          PROVE  \A q \in Reqs : ~Exchanging(q, s)'
      BY <3>4 DEF Login
    <3>5. ASSUME NEW r \in Reqs, SetUserRole(r) \/ IssueTokens(r) \/ LogoutRevoke(r)
          PROVE  \A q \in Reqs : ~Exchanging(q, s)'
      BY <3>5 DEF SetUserRole, IssueTokens, LogoutRevoke
    <3>6. ASSUME NEW r \in Reqs, NEW t \in held, LogoutRead(r, t)
          PROVE  \A q \in Reqs : ~Exchanging(q, s)'
      BY <3>6 DEF LogoutRead
    <3>7. CASE Restart \/ Tick
      BY <3>7 DEF Restart, Tick
    <3>8. QED
      BY <3>1, <3>2, <3>3, <3>4, <3>5, <3>6, <3>7 DEF Next
  <2>2. Children(s)' = Children(s)
    <3> USE DEF Children
    <3>1. CASE UNCHANGED <<sessions, parent>>
      BY <3>1
    <3>2. ASSUME NEW r \in Reqs, IssueTokens(r)
          PROVE  Children(s)' = Children(s)
      BY <3>2 DEF IssueTokens, CreateRefreshSession
    <3>3. ASSUME NEW r \in Reqs, RefreshCreate(r)
          PROVE  Children(s)' = Children(s)
      BY <3>3 DEF RefreshCreate, CreateRefreshSession, ReqOK
    <3>4. QED
      BY <3>1, <3>2, <3>3 DEF Next, Register, Login, SetUserRole, RefreshRead, LogoutRead,
         RefreshGetUser, RefreshReplace, LogoutRevoke, Restart, Tick
  <2>3. QED
    BY <2>1, <2>2
<1>2. QED
  BY Invariance, <1>1, PTL DEF Spec, FamilyFrozen

-----------------------------------------------------------------------------
(* Accounts.                                                               *)

BootstrapAdmin(u) == u \in users /\ IsBootstrapAdmin(username[u])

\* The rows of users have values and are told apart by either column; the role
\* admin, in the table, in a handler or in a token, belongs to the bootstrap
\* administrator; the user a handler works for is a row.
AccountsInv ==
    /\ \A u \in users : email[u] \in Emails /\ username[u] \in Usernames
    /\ \A u, v \in users : u # v =>
          Lower[email[u]] # Lower[email[v]] /\ Lower[username[u]] # Lower[username[v]]
    /\ \A u \in users : role[u] = "admin" => BootstrapAdmin(u)
    /\ \A r \in Reqs :
        /\ req[r].pc \in {"set_role", "issue", "replace", "create"} => req[r].user \in users
        /\ req[r].pc = "set_role" => BootstrapAdmin(req[r].user)
        /\ req[r].pc \in {"issue", "replace", "create"} /\ req[r].role = "admin" =>
              BootstrapAdmin(req[r].user)
    /\ \A a \in access : a.role = "admin" => BootstrapAdmin(a.sub)

\* No account, no handler, no token.
LEMMA AccountsInit == Init => AccountsInv
  BY DEF Init, AccountsInv, Idle, At

\* Every Store call of every handler, and a restart, preserve AccountsInv.
LEMMA AccountsStep == IInv /\ AccountsInv /\ [Next]_vars => AccountsInv'
<1> SUFFICES ASSUME IInv, AccountsInv, [Next]_vars PROVE AccountsInv'
  OBVIOUS
<1> USE AuthAssumption DEF AuthAssumption, IInv, TypeOK, ReqState, AccountsInv, BootstrapAdmin,
        IsBootstrapAdmin, Idle, At, userVars, clientVars, Goto, Return
<1>1. CASE UNCHANGED vars
  BY <1>1 DEF vars
<1>2. ASSUME NEW r \in Reqs, NEW u \in UserIds, NEW e \in Emails, NEW n \in Usernames,
             NEW p \in Passwords, Register(r, u, e, n, p)
      PROVE  AccountsInv'
  BY <1>2 DEF Register, CreateUser, UniqueViolation
<1>3. ASSUME NEW r \in Reqs, NEW l \in Emails \cup Usernames, NEW p \in Passwords, Login(r, l, p)
      PROVE  AccountsInv'
  BY <1>3 DEF Login, FindUserByLogin
<1>4. ASSUME NEW r \in Reqs, NEW s \in held, RefreshRead(r, s) \/ LogoutRead(r, s)
      PROVE  AccountsInv'
  BY <1>4 DEF RefreshRead, LogoutRead
<1>5. ASSUME NEW r \in Reqs, SetUserRole(r)
      PROVE  AccountsInv'
  BY <1>5 DEF SetUserRole
<1>6. ASSUME NEW r \in Reqs, IssueTokens(r)
      PROVE  AccountsInv'
  BY <1>6 DEF IssueTokens, Respond
<1>7. ASSUME NEW r \in Reqs, RefreshGetUser(r)
      PROVE  AccountsInv'
  BY <1>7 DEF RefreshGetUser
<1>8. ASSUME NEW r \in Reqs, RefreshReplace(r)
      PROVE  AccountsInv'
  BY <1>8 DEF RefreshReplace
<1>9. ASSUME NEW r \in Reqs, RefreshCreate(r)
      PROVE  AccountsInv'
  BY <1>9 DEF RefreshCreate, Respond
<1>10. ASSUME NEW r \in Reqs, LogoutRevoke(r)
      PROVE  AccountsInv'
  BY <1>10 DEF LogoutRevoke
<1>11. CASE Restart
  BY <1>11 DEF Restart
<1>12. CASE Tick
  BY <1>12 DEF Tick
<1>13. QED
  BY <1>1, <1>2, <1>3, <1>4, <1>5, <1>6, <1>7, <1>8, <1>9, <1>10, <1>11, <1>12 DEF Next

\* AccountsInv holds in every reachable state of the auth service.
THEOREM AccountsInvariance == Spec => []AccountsInv
  BY Invariance, AccountsInit, AccountsStep, PTL DEF Spec

\* LIMIT 1 in FindUserByLogin never has two rows to choose from.
THEOREM UnambiguousLogin == Spec => []LoginUnambiguous
<1>1. AccountsInv => LoginUnambiguous
  BY AuthAssumption DEF AuthAssumption, AccountsInv, LoginUnambiguous, FindUserByLogin
<1>2. QED
  BY AccountsInvariance, <1>1, PTL

\* The role admin never appears in a token of anyone but the bootstrap
\* administrator, although Register and Restart write it behind the table.
THEOREM AdminIsBootstrap == Spec => []AdminClaimsBootstrap
<1>1. AccountsInv => AdminClaimsBootstrap
  BY DEF AccountsInv, AdminClaimsBootstrap, BootstrapAdmin, IsBootstrapAdmin
<1>2. QED
  BY AccountsInvariance, <1>1, PTL

=============================================================================
