--------------------------------- MODULE Auth ---------------------------------
(***************************************************************************)
(* The auth service (src/apps/auth-service/src/auth/auth.service.ts):      *)
(* accounts and their roles, login sessions per device, refresh tokens and *)
(* their rotation, and the administrator's operations on accounts, which   *)
(* the gateway lets through for a caller it has just seen to be staff.     *)
(*                                                                         *)
(* A database transaction that takes every lock it needs is one action,    *)
(* taken when the locks are free.  Four are split, because others can run  *)
(* between their reads and their commit: login (the list of sessions is    *)
(* read under the user's lock only), refresh (it holds its session while   *)
(* the clock runs on), revokeAllSessions (two UPDATEs, no user lock), and  *)
(* removeStaff (the count of administrators is read without a lock).       *)
(* The audit row is written in each transaction and left out here.         *)
(***************************************************************************)
EXTENDS Integers, FiniteSets

CONSTANTS
    Users,          \* accounts, one per e-mail
    FirstAdmins,    \* the administrators of the initial database
    StaffRole,      \* the roles above "user", "admin" among them
    Devices,        \* device ids
    Handlers,       \* concurrent refresh requests
    None,           \* SQL NULL, or no row
    MaxDevices,     \* AUTH_MAX_DEVICES
    TTL,            \* AUTH_REFRESH_TTL_DAYS
    MaxSessions, MaxTokens, MaxTime,    \* bounds of the finite instance
    MaxRequests     \* bound: requests of administrators in one behaviour

SessionIds == 1..MaxSessions    \* in order of creation
TokenIds == 1..MaxTokens        \* in order of creation

ASSUME AuthAssumption ==
    /\ FirstAdmins \subseteq Users
    /\ "admin" \in StaffRole /\ "user" \notin StaffRole
    /\ MaxDevices \in Nat \ {0}
    /\ TTL \in Nat \ {0}
    /\ MaxSessions \in Nat /\ MaxTokens \in Nat /\ MaxTime \in Nat /\ MaxRequests \in Nat
    /\ None \notin TokenIds /\ None \notin SessionIds

VARIABLES
    account,    \* users: status and role
    session,    \* auth_sessions
    token,      \* refresh_tokens
    login,      \* login[u]: the login that holds the lock of u, None if there is none
    refresh,    \* refresh[h]: the token being exchanged; its session is locked
    revokeAll,  \* revokeAll[u]: the sessions the first UPDATE of revokeAllSessions locked
    removal,    \* removal[u]: removeStaff holds the row of u and is past its checks
    authorised, \* requests the gateway let through: the caller and the role it then had
    requests,   \* how many it has let through, to bound them
    now

vars == <<account, session, token, login, refresh, revokeAll, removal, authorised,
          requests, now>>
sessionVars == <<session, token>>
lockVars == <<login, refresh, revokeAll, removal>>

Status == {"none", "active", "banned", "deleted"}
Role == StaffRole \union {"user"}
Account == [status: Status, role: Role]
Session == [user: Users, device: Devices, expires: Nat, revoked: BOOLEAN]
Token == [session: SessionIds, expires: Nat, used: BOOLEAN, revoked: BOOLEAN,
          replacedBy: TokenIds \union {None}]
Login == [device: Devices, revoke: SUBSET SessionIds]

ASSUME NoneAssumption == None \notin Session /\ None \notin Token

TypeOK ==
    /\ account \in [Users -> Account]
    /\ session \in [SessionIds -> Session \union {None}]
    /\ token \in [TokenIds -> Token \union {None}]
    /\ login \in [Users -> Login \union {None}]
    /\ refresh \in [Handlers -> TokenIds \union {None}]
    /\ revokeAll \in [Users -> (SUBSET SessionIds) \union {None}]
    /\ removal \in [Users -> BOOLEAN]
    /\ authorised \subseteq Users \X StaffRole
    /\ requests \in Nat
    /\ now \in Nat

Init ==
    /\ account = [u \in Users |-> IF u \in FirstAdmins THEN [status |-> "active", role |-> "admin"]
                                  ELSE [status |-> "none", role |-> "user"]]
    /\ session = [s \in SessionIds |-> None]
    /\ token = [t \in TokenIds |-> None]
    /\ login = [u \in Users |-> None]
    /\ refresh = [h \in Handlers |-> None]
    /\ revokeAll = [u \in Users |-> None]
    /\ removal = [u \in Users |-> FALSE]
    /\ authorised = {}
    /\ requests = 0
    /\ now = 0

(***************************************************************************)
(* Rows and locks.                                                         *)
(***************************************************************************)
SessionsOf(u) == {s \in SessionIds : session[s] # None /\ session[s].user = u}

LiveSession(s) == session[s] # None /\ ~session[s].revoked /\ session[s].expires > now

LiveSessionsOf(u) == {s \in SessionsOf(u) : LiveSession(s)}

\* Mutant of UserFree: the user row is read without a lock.
UserUnlocked(u) == TRUE

\* SELECT ... FROM users ... FOR UPDATE
UserFree(u) == login[u] = None /\ ~removal[u]

\* Mutant of SessionFree: the session row is read without a lock.
SessionUnlocked(s) == TRUE

SessionFree(s) ==
    /\ \A h \in Handlers : refresh[h] # None => token[refresh[h]].session # s
    /\ \A u \in Users : revokeAll[u] # None => s \notin revokeAll[u]

\* UPDATE auth_sessions SET revoked_at=... for the sessions in set.
SessionsRevoked(set) ==
    [s \in SessionIds |-> IF s \in set /\ session[s] # None THEN [session[s] EXCEPT !.revoked = TRUE]
                          ELSE session[s]]

\* Mutant of TokensRevoked: only the tokens already exchanged are revoked.
UsedTokensRevoked(set) ==
    [t \in TokenIds |-> IF token[t] # None /\ token[t].session \in set /\ token[t].used
                        THEN [token[t] EXCEPT !.revoked = TRUE] ELSE token[t]]

\* UPDATE refresh_tokens SET revoked_at=... for the tokens of the sessions in set.
TokensRevoked(set) ==
    [t \in TokenIds |-> IF token[t] # None /\ token[t].session \in set
                        THEN [token[t] EXCEPT !.revoked = TRUE] ELSE token[t]]

\* A transaction that revokes sessions together with every token of them.
Revoke(set) ==
    /\ \A s \in set : SessionFree(s)
    /\ session' = SessionsRevoked(set)
    /\ token' = TokensRevoked(set)

NextSession(s) == s \in SessionIds /\ session[s] = None /\ \A x \in 1..(s - 1) : session[x] # None
NextToken(t) == t \in TokenIds /\ token[t] = None /\ \A x \in 1..(t - 1) : token[x] # None

(***************************************************************************)
(* Registration and login.                                                 *)
(***************************************************************************)
Register(u) ==
    /\ account[u].status = "none"
    /\ account' = [account EXCEPT ![u] = [status |-> "active", role |-> "user"]]
    /\ UNCHANGED <<sessionVars, lockVars, authorised, requests, now>>

\* What a login revokes: the sessions of the device, and the oldest others until there is
\* room for one more under the limit.
Evicted(u, d) ==
    LET live == LiveSessionsOf(u)
        same == {s \in live : session[s].device = d}
        others == live \ same
    IN same \union {s \in others : Cardinality({x \in others : x >= s}) >= MaxDevices}

\* The lock is taken, the account is read again, the sessions are listed without a lock.
LoginBegin(u, d) ==
    /\ UserFree(u)
    /\ account[u].status = "active"
    /\ login' = [login EXCEPT ![u] = [device |-> d, revoke |-> Evicted(u, d)]]
    /\ UNCHANGED <<account, sessionVars, refresh, revokeAll, removal, authorised, requests, now>>

LoginCommit(u, s, t) ==
    /\ login[u] # None
    /\ \A x \in login[u].revoke : SessionFree(x)
    /\ NextSession(s)
    /\ NextToken(t)
    /\ session' = [SessionsRevoked(login[u].revoke) EXCEPT ![s] =
          [user |-> u, device |-> login[u].device, expires |-> now + TTL, revoked |-> FALSE]]
    /\ token' = [TokensRevoked(login[u].revoke) EXCEPT ![t] =
          [session |-> s, expires |-> now + TTL, used |-> FALSE, revoked |-> FALSE,
           replacedBy |-> None]]
    /\ login' = [login EXCEPT ![u] = None]
    /\ UNCHANGED <<account, refresh, revokeAll, removal, authorised, requests, now>>

\* The transaction rolls back.
LoginAbort(u) ==
    /\ login[u] # None
    /\ login' = [login EXCEPT ![u] = None]
    /\ UNCHANGED <<account, sessionVars, refresh, revokeAll, removal, authorised, requests, now>>

(***************************************************************************)
(* Refresh and logout.                                                     *)
(***************************************************************************)
Acceptable(t) ==
    /\ ~token[t].revoked /\ token[t].expires > now
    /\ LiveSession(token[t].session)

OwnerActive(t) == account[session[token[t].session].user].status = "active"

\* The session and the token are locked and acceptable, and the owner (read without a
\* lock) is active: the exchange will commit.
RefreshBegin(h, t) ==
    /\ refresh[h] = None
    /\ token[t] # None
    /\ SessionFree(token[t].session)
    /\ ~token[t].used
    /\ Acceptable(t)
    /\ OwnerActive(t)
    /\ refresh' = [refresh EXCEPT ![h] = t]
    /\ UNCHANGED <<account, sessionVars, login, revokeAll, removal, authorised, requests, now>>

\* createTokenPair: a new token, and the session lives as long as the token.
RefreshCommit(h, new) ==
    /\ refresh[h] # None
    /\ NextToken(new)
    /\ LET t == refresh[h]
           s == token[t].session
       IN /\ token' = [token EXCEPT ![t].used = TRUE, ![t].replacedBy = new,
                 ![new] = [session |-> s, expires |-> now + TTL, used |-> FALSE,
                           revoked |-> FALSE, replacedBy |-> None]]
          /\ session' = [session EXCEPT ![s].expires = now + TTL]
    /\ refresh' = [refresh EXCEPT ![h] = None]
    /\ UNCHANGED <<account, login, revokeAll, removal, authorised, requests, now>>

RefreshAbort(h) ==
    /\ refresh[h] # None
    /\ refresh' = [refresh EXCEPT ![h] = None]
    /\ UNCHANGED <<account, sessionVars, login, revokeAll, removal, authorised, requests, now>>

\* A token presented again after its exchange, or whose owner is no longer active, ends
\* its session.  Every other refusal changes nothing.
RefreshRevokes(t) ==
    /\ token[t] # None
    /\ token[t].used \/ (Acceptable(t) /\ ~OwnerActive(t))
    /\ Revoke({token[t].session})
    /\ UNCHANGED <<account, lockVars, authorised, requests, now>>

Logout(t) ==
    /\ token[t] # None
    /\ Revoke({token[t].session})
    /\ UNCHANGED <<account, lockVars, authorised, requests, now>>

(***************************************************************************)
(* The administrator's operations.  The gateway validates the caller's     *)
(* session and role and forwards; the service trusts the role it was told. *)
(***************************************************************************)
\* validateSession, for the session of some access token of the caller.
ValidateSession(a) == LiveSessionsOf(a) # {} /\ account[a].status = "active"

\* AccessAuthGuard, for a token that is signed and in time, on the way to an /admin route.
Authorize(a) ==
    /\ ValidateSession(a)
    /\ account[a].role # "user"
    /\ requests < MaxRequests
    /\ requests' = requests + 1
    /\ authorised' = authorised \union {<<a, account[a].role>>}
    /\ UNCHANGED <<account, sessionVars, lockVars, now>>

\* A request of caller a, let through with the role r, is served.
Served(a, r) ==
    /\ <<a, r>> \in authorised
    /\ authorised' = authorised \ {<<a, r>>}
    /\ UNCHANGED requests

EndUser(u) == account[u].status # "none" /\ account[u].role = "user"

\* The user endpoints work on end users only, never on the caller or on staff.
UserOperation(a, u) == UserFree(u) /\ a # u /\ EndUser(u)

\* Mutant of SuspendedStatus: a status that no check knows.
SuspendedAs == "suspended"

SuspendedStatus == "banned"

Suspend(a, r, u) ==
    /\ Served(a, r)
    /\ UserOperation(a, u)
    /\ account[u].status # "deleted"
    /\ account' = [account EXCEPT ![u].status = SuspendedStatus]
    /\ Revoke(SessionsOf(u))
    /\ UNCHANGED <<lockVars, now>>

Unsuspend(a, r, u) ==
    /\ Served(a, r)
    /\ UserOperation(a, u)
    /\ account[u].status # "deleted"
    /\ account' = [account EXCEPT ![u].status = "active"]
    /\ UNCHANGED <<sessionVars, lockVars, now>>

DeleteUser(a, u) ==
    /\ Served(a, "admin")
    /\ UserOperation(a, u)
    /\ account[u].status # "deleted"
    /\ account' = [account EXCEPT ![u].status = "deleted"]
    /\ Revoke(SessionsOf(u))
    /\ UNCHANGED <<lockVars, now>>

RevokeSession(a, r, s) ==
    /\ Served(a, r)
    /\ session[s] # None
    /\ EndUser(session[s].user)
    /\ Revoke({s})
    /\ UNCHANGED <<account, lockVars, now>>

\* revokeAllSessions: the first UPDATE locks the sessions it sees ...
RevokeAllSessions(a, r, u) ==
    /\ Served(a, r)
    /\ EndUser(u)
    /\ revokeAll[u] = None
    /\ \A s \in SessionsOf(u) : SessionFree(s)
    /\ revokeAll' = [revokeAll EXCEPT ![u] = SessionsOf(u)]
    /\ UNCHANGED <<account, sessionVars, login, refresh, removal, now>>

\* ... and the second revokes the tokens of every session it sees, then commits.
RevokeAllTokens(u) ==
    /\ revokeAll[u] # None
    /\ session' = SessionsRevoked(revokeAll[u])
    /\ token' = TokensRevoked(SessionsOf(u))
    /\ revokeAll' = [revokeAll EXCEPT ![u] = None]
    /\ UNCHANGED <<account, login, refresh, removal, authorised, requests, now>>

(***************************************************************************)
(* Staff accounts, for administrators only.                                *)
(***************************************************************************)
\* Nothing keeps a caller from promoting the own account, to a lower role.
PromoteStaff(a, u, role) ==
    /\ Served(a, "admin")
    /\ UserFree(u)
    /\ account[u].status = "active"
    /\ account' = [account EXCEPT ![u].role = role]
    /\ UNCHANGED <<sessionVars, lockVars, now>>

ChangeStaffRole(a, u, role) ==
    /\ Served(a, "admin")
    /\ a = u => role = "admin"
    /\ UserFree(u)
    /\ account[u].role # "user"
    /\ account' = [account EXCEPT ![u].role = role]
    /\ UNCHANGED <<sessionVars, lockVars, now>>

ActiveAdmins == {u \in Users : account[u].role = "admin" /\ account[u].status = "active"}

\* The row of u is locked; the other administrators are counted without a lock.
RemoveCheck(a, u) ==
    /\ Served(a, "admin")
    /\ a # u
    /\ UserFree(u)
    /\ account[u].role # "user"
    /\ account[u].role = "admin" => Cardinality(ActiveAdmins) > 1
    /\ removal' = [removal EXCEPT ![u] = TRUE]
    /\ UNCHANGED <<account, sessionVars, login, refresh, revokeAll, now>>

RemoveCommit(u) ==
    /\ removal[u]
    /\ account' = [account EXCEPT ![u].role = "user"]
    /\ removal' = [removal EXCEPT ![u] = FALSE]
    /\ UNCHANGED <<sessionVars, login, refresh, revokeAll, authorised, requests, now>>

Tick ==
    /\ now < MaxTime
    /\ now' = now + 1
    /\ UNCHANGED <<account, sessionVars, lockVars, authorised, requests>>

UserStep ==
    \/ \E u \in Users : Register(u) \/ LoginAbort(u) \/ \E d \in Devices : LoginBegin(u, d)
    \/ \E u \in Users, s \in SessionIds, t \in TokenIds : LoginCommit(u, s, t)
    \/ \E h \in Handlers, t \in TokenIds : RefreshBegin(h, t) \/ RefreshCommit(h, t)
    \/ \E h \in Handlers : RefreshAbort(h)
    \/ \E t \in TokenIds : RefreshRevokes(t) \/ Logout(t)

AdminStep ==
    \E a \in Users :
        \/ Authorize(a)
        \/ \E r \in StaffRole :
              \/ \E u \in Users : \/ Suspend(a, r, u)
                                  \/ Unsuspend(a, r, u)
                                  \/ RevokeAllSessions(a, r, u)
              \/ \E s \in SessionIds : RevokeSession(a, r, s)
        \/ \E u \in Users : DeleteUser(a, u) \/ RemoveCheck(a, u)
        \/ \E u \in Users, role \in StaffRole : PromoteStaff(a, u, role) \/ ChangeStaffRole(a, u, role)

Next ==
    \/ UserStep
    \/ AdminStep
    \/ \E u \in Users : RevokeAllTokens(u) \/ RemoveCommit(u)
    \/ Tick

Spec == Init /\ [][Next]_vars

-----------------------------------------------------------------------------
(***************************************************************************)
(* Safety.                                                                 *)
(***************************************************************************)
Usable(t) == token[t] # None /\ ~token[t].used /\ ~token[t].revoked

\* Whoever ends a session (logout, eviction by a login, reuse of a token, an administrator)
\* ends its refresh chain with it: no token of a revoked session can still be exchanged,
\* even one that a concurrent refresh was creating.
RevokedKeepsNoToken ==
    \A t \in TokenIds : Usable(t) => ~session[token[t].session].revoked

\* Rotation forms one chain: of all the tokens of a session exactly one has not been
\* exchanged, so of two refreshes that compete with one token only one wins.
OneChain ==
    \A s \in SessionIds : session[s] # None =>
        Cardinality({t \in TokenIds : /\ token[t] # None
                                      /\ token[t].session = s
                                      /\ token[t].replacedBy = None}) = 1

\* A banned or deleted account has no session left that could be refreshed, validated or
\* evicted: logins wait for the ban, and the ban waits for refreshes in flight.
InactiveKeepsNoSession ==
    \A u \in Users : account[u].status # "active" =>
        \A s \in SessionsOf(u) : session[s].revoked

\* A staff account is always active: the user endpoints never ban it, and no promotion
\* reaches a banned account, so counting active administrators counts them all.
StaffAreActive == \A u \in Users : account[u].role # "user" => account[u].status = "active"

\* At most one session of a user is live on a device: a login revokes the others of the
\* device under the lock of the user.
OneSessionPerDevice ==
    \A s1, s2 \in SessionIds :
        /\ LiveSession(s1) /\ LiveSession(s2)
        /\ session[s1].user = session[s2].user /\ session[s1].device = session[s2].device
        => s1 = s2

\* The system is never left without an active administrator.
AdminRemains == ActiveAdmins # {}
=============================================================================
