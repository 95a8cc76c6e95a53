---------------------------- MODULE AuthSessions ----------------------------
(***************************************************************************)
(* The auth service: accounts, password login and refresh-token rotation   *)
(* (services/auth/internal/grpc, services/auth/internal/store).            *)
(*                                                                         *)
(* Every gRPC handler is a process; each of its Store calls is one SQL     *)
(* statement in autocommit mode, hence one atomic step, and handlers       *)
(* interleave between their Store calls.  A statement that writes has      *)
(* three outcomes: applied and acknowledged, applied with the reply lost   *)
(* (deadline, broken connection), not applied.  The last two end the       *)
(* handler with an error, which is also what a crash of the process        *)
(* between two statements leaves behind.  Requests refused by validation,  *)
(* by a missing row or by a wrong password change nothing: they are        *)
(* stuttering steps.                                                       *)
(*                                                                         *)
(* A refresh token and its session row are drawn together (uuid.New and    *)
(* tokens.NewRefreshToken, token_hash unique), so one identifier stands    *)
(* for both; the SHA-256 lookup finds exactly that row.                    *)
(***************************************************************************)
EXTENDS Integers, FiniteSets

CONSTANTS
    Reqs,            \* handler goroutines
    UserIds,         \* pool of user uuids
    SessionIds,      \* pool of refresh tokens / session uuids
    Emails,          \* strings isValidEmail accepts (they contain an @)
    Usernames,       \* strings isValidUsername accepts (they contain no @)
    Lower,           \* SQL lower(), strings.EqualFold compares its values
    Passwords,       \* passwords of at least 8 bytes
    BootstrapAdminUsername,  \* BOOTSTRAP_ADMIN_USERNAME, None when empty
    RefreshTokenTTL, \* in clock ticks
    MaxTime,         \* bound on the clock
    None             \* SQL NULL

ASSUME AuthAssumption ==
    /\ RefreshTokenTTL \in Nat
    /\ MaxTime \in Nat
    /\ None \notin UserIds \cup SessionIds \cup Usernames \cup Nat
    /\ Lower \in [Emails \cup Usernames -> Emails \cup Usernames]
    \* An address contains an @ and a username does not, in either case.
    /\ \A e \in Emails, n \in Usernames : Lower[e] # Lower[n]
    /\ BootstrapAdminUsername \in Usernames \cup {None}

VARIABLES
    users,        \* table users: ids present
    email, username, password, role,       \* its columns
    sessions,     \* table refresh_sessions: ids present
    userId, expiresAt, revokedAt, replacedBy, \* its columns
    req,          \* control state and locals of each handler
    minted,       \* uuids drawn so far
    held,         \* refresh tokens returned to clients
    access,       \* claims of the access tokens returned to clients
    parent,       \* history: the token a session was exchanged for
    clock

userVars == <<users, email, username, password, role>>
sessionVars == <<sessions, userId, expiresAt, revokedAt, replacedBy, parent>>
clientVars == <<held, access>>
vars == <<userVars, sessionVars, req, minted, clientVars, clock>>

Roles == {"user", "admin"}
Time == 0 .. (MaxTime + RefreshTokenTTL)
Controls == {"idle", "set_role", "issue", "get_user", "replace", "create",
             "revoke"}
ReqState == [pc : Controls, user : UserIds \cup {None}, role : Roles,
             old : SessionIds \cup {None}, new : SessionIds \cup {None},
             now : 0 .. MaxTime]
Claims == [sub : UserIds, role : Roles]

\* A handler at control point pc with its live locals.
At(pc, user, r, old, new, now) ==
    [pc |-> pc, user |-> user, role |-> r, old |-> old, new |-> new, now |-> now]
Idle == At("idle", None, "user", None, None, 0)

\* The tables and the handlers are well typed: a revoked_at is a time that has
\* come, and an expiry no further ahead than RefreshTokenTTL.
TypeOK ==
    /\ users \in SUBSET UserIds
    /\ email \in [UserIds -> Emails \cup {None}]
    /\ username \in [UserIds -> Usernames \cup {None}]
    /\ password \in [UserIds -> Passwords \cup {None}]
    /\ role \in [UserIds -> Roles]
    /\ sessions \in SUBSET SessionIds
    /\ userId \in [SessionIds -> UserIds \cup {None}]
    /\ expiresAt \in [SessionIds -> Time]
    /\ revokedAt \in [SessionIds -> (0 .. MaxTime) \cup {None}]
    /\ replacedBy \in [SessionIds -> SessionIds \cup {None}]
    /\ req \in [Reqs -> ReqState]
    /\ minted \in SUBSET SessionIds
    /\ held \in SUBSET SessionIds
    /\ access \in SUBSET Claims
    /\ parent \in [SessionIds -> SessionIds \cup {None}]
    /\ clock \in 0 .. MaxTime

Init ==
    /\ users = {}
    /\ email = [u \in UserIds |-> None]
    /\ username = [u \in UserIds |-> None]
    /\ password = [u \in UserIds |-> None]
    /\ role = [u \in UserIds |-> "user"]
    /\ sessions = {}
    /\ userId = [s \in SessionIds |-> None]
    /\ expiresAt = [s \in SessionIds |-> 0]
    /\ revokedAt = [s \in SessionIds |-> None]
    /\ replacedBy = [s \in SessionIds |-> None]
    /\ req = [r \in Reqs |-> Idle]
    /\ minted = {}
    /\ held = {}
    /\ access = {}
    /\ parent = [s \in SessionIds |-> None]
    /\ clock = 0

-----------------------------------------------------------------------------
(* Plausible bugs, each a variant of the operator of the same name below. *)

UniqueViolationEmailOnly(e, n) == \E u \in users : Lower[email[u]] = Lower[e]
IsBootstrapAdminAlways(n) == TRUE
RefreshableIgnoresRevoked(s, now) == ~(now > expiresAt[s])
RefreshableIgnoresExpiry(s, now) == revokedAt[s] = None
ReplaceRefreshSessionNever(s, n, now) == UNCHANGED <<revokedAt, replacedBy>>

-----------------------------------------------------------------------------
(* The Store.                                                              *)

\* CreateUser fails with 23505 on users_email_uidx or users_username_uidx.
UniqueViolation(e, n) ==
    \E u \in users : Lower[email[u]] = Lower[e] \/ Lower[username[u]] = Lower[n]

CreateUser(u, e, n, p) ==
    /\ u \notin users
    /\ ~UniqueViolation(e, n)
    /\ users' = users \cup {u}
    /\ email' = [email EXCEPT ![u] = e]
    /\ username' = [username EXCEPT ![u] = n]
    /\ password' = [password EXCEPT ![u] = p]
    /\ role' = [role EXCEPT ![u] = "user"]

\* The rows FindUserByLogin may return; LIMIT 1 picks one of them.
FindUserByLogin(login) ==
    {u \in users : Lower[email[u]] = Lower[login] \/ Lower[username[u]] = Lower[login]}

\* sess.RevokedAt == nil and not now.After(sess.ExpiresAt).
Refreshable(s, now) == revokedAt[s] = None /\ ~(now > expiresAt[s])

\* UPDATE ... WHERE id = $1 AND revoked_at IS NULL: no effect on a revoked row.
RevokeRefreshSession(s, now) ==
    revokedAt' = IF revokedAt[s] = None THEN [revokedAt EXCEPT ![s] = now]
                                        ELSE revokedAt

ReplaceRefreshSession(s, n, now) ==
    IF revokedAt[s] = None
    THEN /\ revokedAt' = [revokedAt EXCEPT ![s] = now]
         /\ replacedBy' = [replacedBy EXCEPT ![s] = n]
    ELSE UNCHANGED <<revokedAt, replacedBy>>

CreateRefreshSession(s, u, now, p) ==
    /\ sessions' = sessions \cup {s}
    /\ userId' = [userId EXCEPT ![s] = u]
    /\ expiresAt' = [expiresAt EXCEPT ![s] = now + RefreshTokenTTL]
    /\ parent' = [parent EXCEPT ![s] = p]
    /\ UNCHANGED <<revokedAt, replacedBy>>

-----------------------------------------------------------------------------
(* Handlers.                                                               *)

Goto(r, state) == req' = [req EXCEPT ![r] = state]
Return(r) == Goto(r, Idle)

\* The tokens in a successful response: the access token carries the role the
\* handler has in hand, not the one in the table.
Respond(r, s) ==
    /\ held' = held \cup {s}
    /\ access' = access \cup {[sub |-> req[r].user, role |-> req[r].role]}

IsBootstrapAdmin(n) ==
    BootstrapAdminUsername # None /\ Lower[BootstrapAdminUsername] = Lower[n]

\* Register up to CreateUser.
Register(r, u, e, n, p) ==
    /\ req[r].pc = "idle"
    /\ CreateUser(u, e, n, p)
    /\ \/ Goto(r, At(IF IsBootstrapAdmin(n) THEN "set_role" ELSE "issue",
                      u, "user", None, None, 0))
       \/ Return(r)
    /\ UNCHANGED <<sessionVars, minted, clientVars, clock>>

\* Best effort: the error of SetUserRoleByID is dropped, u.Role is set anyway.
SetUserRole(r) ==
    /\ req[r].pc = "set_role"
    /\ \/ role' = [role EXCEPT ![req[r].user] = "admin"]
       \/ UNCHANGED role
    /\ Goto(r, At("issue", req[r].user, "admin", None, None, 0))
    /\ UNCHANGED <<users, email, username, password, sessionVars, minted,
                   clientVars, clock>>

Login(r, login, p) ==
    /\ req[r].pc = "idle"
    /\ \E u \in FindUserByLogin(login) :
        /\ password[u] = p
        /\ Goto(r, At("issue", u, role[u], None, None, 0))
    /\ UNCHANGED <<userVars, sessionVars, minted, clientVars, clock>>

\* issueTokens, the common tail of Register and Login.
IssueTokens(r) ==
    /\ req[r].pc = "issue"
    /\ \E s \in SessionIds \ minted :
        /\ minted' = minted \cup {s}
        /\ \/ /\ CreateRefreshSession(s, req[r].user, clock, None)
              /\ Respond(r, s) \/ UNCHANGED clientVars
           \/ UNCHANGED <<sessionVars, clientVars>>
    /\ Return(r)
    /\ UNCHANGED <<userVars, clock>>

\* Refresh: the session read and the two checks that follow it.
RefreshRead(r, s) ==
    /\ req[r].pc = "idle"
    /\ s \in sessions
    /\ Refreshable(s, clock)
    /\ Goto(r, At("get_user", userId[s], "user", s, None, clock))
    /\ UNCHANGED <<userVars, sessionVars, minted, clientVars, clock>>

RefreshGetUser(r) ==
    /\ req[r].pc = "get_user"
    /\ \/ /\ req[r].user \in users
          /\ Goto(r, At("replace", req[r].user, role[req[r].user], req[r].old, None,
                        req[r].now))
       \/ Return(r)
    /\ UNCHANGED <<userVars, sessionVars, minted, clientVars, clock>>

\* ReplaceRefreshSession does not report how many rows it changed.
RefreshReplace(r) ==
    /\ req[r].pc = "replace"
    /\ \E n \in SessionIds \ minted :
        /\ minted' = minted \cup {n}
        /\ \/ /\ ReplaceRefreshSession(req[r].old, n, req[r].now)
              /\ \/ Goto(r, At("create", req[r].user, req[r].role, req[r].old, n,
                                req[r].now))
                 \/ Return(r)
           \/ /\ UNCHANGED <<revokedAt, replacedBy>>
              /\ Return(r)
    /\ UNCHANGED <<userVars, sessions, userId, expiresAt, parent, clientVars, clock>>

RefreshCreate(r) ==
    /\ req[r].pc = "create"
    /\ \/ /\ CreateRefreshSession(req[r].new, req[r].user, req[r].now, req[r].old)
          /\ Respond(r, req[r].new) \/ UNCHANGED clientVars
       \/ UNCHANGED <<sessionVars, clientVars>>
    /\ Return(r)
    /\ UNCHANGED <<userVars, minted, clock>>

LogoutRead(r, s) ==
    /\ req[r].pc = "idle"
    /\ s \in sessions
    /\ Goto(r, At("revoke", None, "user", s, None, 0))
    /\ UNCHANGED <<userVars, sessionVars, minted, clientVars, clock>>

\* The error of RevokeRefreshSession is dropped: Logout answers OK either way.
LogoutRevoke(r) ==
    /\ req[r].pc = "revoke"
    /\ RevokeRefreshSession(req[r].old, clock) \/ UNCHANGED revokedAt
    /\ Return(r)
    /\ UNCHANGED <<userVars, sessions, userId, expiresAt, replacedBy, parent,
                   minted, clientVars, clock>>

\* A new process: the handlers of the old one are gone, main promotes the
\* bootstrap admin before it serves.
Restart ==
    /\ req' = [r \in Reqs |-> Idle]
    /\ role' = [u \in UserIds |->
                  IF u \in users /\ IsBootstrapAdmin(username[u]) THEN "admin" ELSE role[u]]
    /\ UNCHANGED <<users, email, username, password, sessionVars, minted,
                   clientVars, clock>>

Tick ==
    /\ clock < MaxTime
    /\ clock' = clock + 1
    /\ UNCHANGED <<userVars, sessionVars, req, minted, clientVars>>

Next ==
    \/ \E r \in Reqs :
        \/ \E u \in UserIds, e \in Emails, n \in Usernames, p \in Passwords :
              Register(r, u, e, n, p)
        \/ \E login \in Emails \cup Usernames, p \in Passwords : Login(r, login, p)
        \/ \E s \in held : RefreshRead(r, s) \/ LogoutRead(r, s)
        \/ SetUserRole(r) \/ IssueTokens(r)
        \/ RefreshGetUser(r) \/ RefreshReplace(r) \/ RefreshCreate(r)
        \/ LogoutRevoke(r)
    \/ Restart
    \/ Tick

Spec == Init /\ [][Next]_vars

-----------------------------------------------------------------------------
(* Properties.                                                             *)

Revoked(s) == revokedAt[s] # None
Children(s) == {c \in sessions : parent[c] = s}
Exchanging(r, s) == req[r].pc \in {"get_user", "replace", "create"} /\ req[r].old = s

\* Rotation: a session obtained by Refresh exists only if the token it was
\* exchanged for is dead, whatever statement of whichever handler failed
\* (Refresh replaces the old session before it creates the new one).
ParentDead == \A c \in sessions : parent[c] # None => Revoked(parent[c])

\* Every refresh token a client was given is the token of a stored session:
\* no response is sent when CreateRefreshSession failed.
IssuedTokensExist == held \subseteq sessions

\* A session obtained by Refresh was created inside the lifetime of the token
\* it was exchanged for, even when the clock moved while the handler ran; the
\* expiry instant itself still counts (now.After).
ChildWithinParentLifetime ==
    \A c \in sessions : parent[c] # None =>
        expiresAt[c] - RefreshTokenTTL <= expiresAt[parent[c]]

\* A login string names at most one account: the two case-insensitive unique
\* indexes and the disjoint alphabets of emails and usernames make the LIMIT 1
\* of FindUserByLogin deterministic.
LoginUnambiguous ==
    \A login \in Emails \cup Usernames :
        \A u, v \in FindUserByLogin(login) : u = v

\* Only the bootstrap administrator ever holds an access token with role admin.
AdminClaimsBootstrap ==
    \A a \in access : a.role = "admin" =>
        /\ BootstrapAdminUsername # None
        /\ Lower[username[a.sub]] = Lower[BootstrapAdminUsername]

\* A revoked session stays exactly as it was revoked: neither a second Refresh
\* nor a Logout of the same token moves revoked_at or replaced_by.
RevocationFinal ==
    [][\A s \in SessionIds : Revoked(s) =>
          revokedAt'[s] = revokedAt[s] /\ replacedBy'[s] = replacedBy[s]]_vars

\* Once a token is dead and no handler is in the middle of exchanging it, its
\* descendants are frozen: reuse of the token is refused for ever after.
FamilyFrozen ==
    [][\A s \in sessions : Revoked(s) /\ (\A r \in Reqs : ~Exchanging(r, s)) =>
          Children(s)' = Children(s) /\ (\A r \in Reqs : ~Exchanging(r, s)')]_vars

\* What openapi.yaml says of the route: a Logout that is answered (204) has revoked
\* the refresh token it was given.
LogoutRevokes ==
    [][\A r \in Reqs, s \in sessions :
          LogoutRevoke(r) /\ req[r].old = s => revokedAt'[s] # None]_vars
=============================================================================
