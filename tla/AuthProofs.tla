------------------------------ MODULE AuthProofs ------------------------------
(***************************************************************************)
(* Theorems about Auth, for any number of accounts, devices, sessions,     *)
(* tokens, refresh requests and administrators.                            *)
(*                                                                         *)
(* Two locks carry the argument.  The row of a session keeps an exchange   *)
(* apart from whoever revokes the session; the row of a user keeps a login *)
(* apart from a ban.                                                       *)
(***************************************************************************)
EXTENDS Auth, TLAPS, FiniteSetTheorems

(***************************************************************************)
(* The inductive invariant.                                                *)
(***************************************************************************)
TokensHaveSessions ==
    \A t \in TokenIds : token[t] # None => session[token[t].session] # None

\* An exchange in flight has the only lock of its session, which is not revoked and will
\* not be by the revocation in progress; its token has not been exchanged.
ExchangeHolds ==
    \A h \in Handlers : refresh[h] # None =>
        LET t == refresh[h]
            s == token[t].session
        IN  /\ token[t] # None /\ ~token[t].used
            /\ ~session[s].revoked
            /\ \A u \in Users : revokeAll[u] # None => s \notin revokeAll[u]
            /\ \A g \in Handlers \ {h} : refresh[g] # None => token[refresh[g]].session # s

RevokesOwn == \A u \in Users : revokeAll[u] # None => revokeAll[u] \subseteq SessionsOf(u)

UsedIsReplaced ==
    \A t \in TokenIds : token[t] # None => (token[t].used <=> token[t].replacedBy # None)

\* t is the token of session s that has not been exchanged.
LastOf(t, s) == token[t] # None /\ token[t].session = s /\ token[t].replacedBy = None

OneLast ==
    \A s \in SessionIds : session[s] # None =>
        \E t \in TokenIds : LastOf(t, s) /\ \A x \in TokenIds : LastOf(x, s) => x = t

Chains ==
    /\ TokensHaveSessions /\ ExchangeHolds /\ RevokesOwn /\ UsedIsReplaced /\ OneLast
    /\ RevokedKeepsNoToken

\* A login in flight keeps its account from being banned.
LoginIsActive == \A u \in Users : login[u] # None => account[u].status = "active"

Accounts == LoginIsActive /\ InactiveKeepsNoSession /\ StaffAreActive

IInv == TypeOK /\ Chains /\ Accounts

(***************************************************************************)
(* Rows.                                                                   *)
(***************************************************************************)
\* What the two UPDATEs that revoke do to a row.
LEMMA RowsRevoked ==
  ASSUME TypeOK, NEW set1, NEW set2
  PROVE  /\ SessionsRevoked(set1) \in [SessionIds -> Session \union {None}]
         /\ TokensRevoked(set2) \in [TokenIds -> Token \union {None}]
         /\ \A s \in SessionIds :
               /\ SessionsRevoked(set1)[s] = None <=> session[s] = None
               /\ session[s] # None =>
                     /\ SessionsRevoked(set1)[s].user = session[s].user
                     /\ SessionsRevoked(set1)[s].revoked <=> (session[s].revoked \/ s \in set1)
         /\ \A t \in TokenIds :
               /\ TokensRevoked(set2)[t] = None <=> token[t] = None
               /\ token[t] # None =>
                     /\ TokensRevoked(set2)[t].session = token[t].session
                     /\ TokensRevoked(set2)[t].used = token[t].used
                     /\ TokensRevoked(set2)[t].replacedBy = token[t].replacedBy
                     /\ TokensRevoked(set2)[t].revoked <=>
                            (token[t].revoked \/ token[t].session \in set2)
<1> USE NoneAssumption
<1>1. ASSUME NEW s \in SessionIds, session[s] # None
      PROVE  /\ [session[s] EXCEPT !.revoked = TRUE] \in Session
             /\ [session[s] EXCEPT !.revoked = TRUE].user = session[s].user
             /\ [session[s] EXCEPT !.revoked = TRUE].revoked
  <2>1. session[s] \in Session
    BY <1>1 DEF TypeOK
  <2> QED
    BY <2>1 DEF Session
<1>2. ASSUME NEW t \in TokenIds, token[t] # None
      PROVE  /\ [token[t] EXCEPT !.revoked = TRUE] \in Token
             /\ [token[t] EXCEPT !.revoked = TRUE].session = token[t].session
             /\ [token[t] EXCEPT !.revoked = TRUE].used = token[t].used
             /\ [token[t] EXCEPT !.revoked = TRUE].replacedBy = token[t].replacedBy
             /\ [token[t] EXCEPT !.revoked = TRUE].revoked
  <2>1. token[t] \in Token
    BY <1>2 DEF TypeOK
  <2> QED
    BY <2>1 DEF Token
<1>3. /\ SessionsRevoked(set1) \in [SessionIds -> Session \union {None}]
      /\ \A s \in SessionIds : SessionsRevoked(set1)[s] = None <=> session[s] = None
  BY <1>1 DEF SessionsRevoked, TypeOK
<1>4. /\ TokensRevoked(set2) \in [TokenIds -> Token \union {None}]
      /\ \A t \in TokenIds : TokensRevoked(set2)[t] = None <=> token[t] = None
  BY <1>2 DEF TokensRevoked, TypeOK
<1>5. ASSUME NEW s \in SessionIds, session[s] # None
      PROVE  /\ SessionsRevoked(set1)[s].user = session[s].user
             /\ SessionsRevoked(set1)[s].revoked <=> (session[s].revoked \/ s \in set1)
  <2>1. CASE s \in set1
    BY <1>1, <1>5, <2>1 DEF SessionsRevoked
  <2>2. CASE s \notin set1
    BY <1>5, <2>2 DEF SessionsRevoked
  <2> QED
    BY <2>1, <2>2
<1>6. ASSUME NEW t \in TokenIds, token[t] # None
      PROVE  /\ TokensRevoked(set2)[t].session = token[t].session
             /\ TokensRevoked(set2)[t].used = token[t].used
             /\ TokensRevoked(set2)[t].replacedBy = token[t].replacedBy
             /\ TokensRevoked(set2)[t].revoked <=> (token[t].revoked \/ token[t].session \in set2)
  <2>1. CASE token[t].session \in set2
    BY <1>2, <1>6, <2>1 DEF TokensRevoked
  <2>2. CASE token[t].session \notin set2
    BY <1>6, <2>2 DEF TokensRevoked
  <2> QED
    BY <2>1, <2>2
<1> QED
  BY <1>3, <1>4, <1>5, <1>6

LEMMA RowTyped ==
  ASSUME TypeOK
  PROVE  /\ \A s \in SessionIds : session[s] # None => session[s] \in Session
         /\ \A t \in TokenIds : token[t] # None => /\ token[t] \in Token
                                                   /\ token[t].session \in SessionIds
  BY DEF TypeOK, Token

\* Whoever revokes sessions that no exchange holds, and every token of them, keeps the chains.
LEMMA RevocationKeeps ==
  ASSUME TypeOK, Chains, NEW ended, NEW tokensOf, ended \subseteq tokensOf,
         session' = SessionsRevoked(ended), token' = TokensRevoked(tokensOf),
         \A h \in Handlers : refresh[h] # None => token[refresh[h]].session \notin ended,
         refresh' = refresh,
         \A u \in Users : revokeAll'[u] # None => revokeAll'[u] = revokeAll[u]
  PROVE  Chains'
<1> USE DEF Chains
<1>1. /\ \A s \in SessionIds :
            /\ session'[s] = None <=> session[s] = None
            /\ session[s] # None => /\ session'[s].user = session[s].user
                                    /\ session'[s].revoked <=> (session[s].revoked \/ s \in ended)
      /\ \A t \in TokenIds :
            /\ token'[t] = None <=> token[t] = None
            /\ token[t] # None =>
                  /\ token'[t].session = token[t].session
                  /\ token'[t].used = token[t].used
                  /\ token'[t].replacedBy = token[t].replacedBy
                  /\ token'[t].revoked <=> (token[t].revoked \/ token[t].session \in tokensOf)
  BY RowsRevoked
<1>2. \A h \in Handlers : refresh[h] # None => refresh[h] \in TokenIds
  BY DEF TypeOK
<1>3. TokensHaveSessions'
  BY <1>1, RowTyped DEF TokensHaveSessions
<1>4. ExchangeHolds'
  <2> SUFFICES ASSUME NEW h \in Handlers, refresh[h] # None
               PROVE  LET t == refresh[h]
                          s == token'[t].session
                      IN  /\ token'[t] # None /\ ~token'[t].used
                          /\ ~session'[s].revoked
                          /\ \A u \in Users : revokeAll'[u] # None => s \notin revokeAll'[u]
                          /\ \A g \in Handlers \ {h} :
                                refresh[g] # None => token'[refresh[g]].session # s
    BY DEF ExchangeHolds
  <2> DEFINE t == refresh[h]
             s == token[t].session
  <2>1. /\ t \in TokenIds /\ token[t] # None /\ ~token[t].used /\ ~session[s].revoked
        /\ \A u \in Users : revokeAll[u] # None => s \notin revokeAll[u]
        /\ \A g \in Handlers \ {h} :
              refresh[g] # None => token[refresh[g]] # None /\ token[refresh[g]].session # s
    BY <1>2 DEF ExchangeHolds
  <2>2. s \in SessionIds /\ session[s] # None /\ s \notin ended
    BY <2>1, RowTyped DEF TokensHaveSessions
  <2> QED
    BY <1>1, <1>2, <2>1, <2>2
<1>5. RevokesOwn'
  <2>1. \A u \in Users : SessionsOf(u)' = SessionsOf(u)
    BY <1>1 DEF SessionsOf
  <2> QED
    BY <2>1 DEF RevokesOwn
<1>6. UsedIsReplaced'
  BY <1>1 DEF UsedIsReplaced
<1>7. OneLast'
  BY <1>1 DEF OneLast, LastOf
<1>8. RevokedKeepsNoToken'
  BY <1>1, RowTyped DEF RevokedKeepsNoToken, Usable, TokensHaveSessions
<1> QED
  BY <1>3, <1>4, <1>5, <1>6, <1>7, <1>8

(***************************************************************************)
(* Types.                                                                  *)
(***************************************************************************)
LEMMA RevokeTyped ==
  ASSUME TypeOK, NEW set, Revoke(set)
  PROVE  session' \in [SessionIds -> Session \union {None}] /\ token' \in [TokenIds -> Token \union {None}]
  BY RowsRevoked DEF Revoke

LEMMA AccountTyped ==
  ASSUME TypeOK, NEW u \in Users
  PROVE  /\ \A status \in Status : [account EXCEPT ![u].status = status] \in [Users -> Account]
         /\ \A role \in Role : [account EXCEPT ![u].role = role] \in [Users -> Account]
<1>1. account[u] \in Account
  BY DEF TypeOK
<1>2. ASSUME NEW status \in Status
      PROVE  [account[u] EXCEPT !.status = status] \in Account
  BY <1>1, <1>2 DEF Account
<1>3. ASSUME NEW role \in Role
      PROVE  [account[u] EXCEPT !.role = role] \in Account
  BY <1>1, <1>3 DEF Account
<1> QED
  BY <1>2, <1>3 DEF TypeOK

\* What an exchange does to the rows.
LEMMA ExchangeRows ==
  ASSUME TypeOK, ExchangeHolds, TokensHaveSessions,
         NEW h \in Handlers, NEW new \in TokenIds, RefreshCommit(h, new)
  PROVE  LET t == refresh[h]
             s == token[t].session
         IN  /\ t \in TokenIds /\ s \in SessionIds /\ new # t /\ token[new] = None
             /\ token[t] # None /\ session[s] # None /\ ~session[s].revoked
             /\ token' \in [TokenIds -> Token \union {None}]
             /\ session' \in [SessionIds -> Session \union {None}]
             /\ token'[t] # None /\ token'[t].session = s
             /\ token'[t].used /\ token'[t].replacedBy = new
             /\ token'[new] # None /\ token'[new].session = s
             /\ ~token'[new].used /\ token'[new].replacedBy = None
             /\ \A x \in TokenIds \ {t, new} : token'[x] = token[x]
             /\ session'[s] # None /\ session'[s].user = session[s].user
             /\ ~session'[s].revoked
             /\ \A x \in SessionIds \ {s} : session'[x] = session[x]
<1> USE AuthAssumption, NoneAssumption
<1> DEFINE t == refresh[h]
           s == token[t].session
           exchanged == [token[t] EXCEPT !.used = TRUE, !.replacedBy = new]
           fresh == [session |-> s, expires |-> now + TTL, used |-> FALSE, revoked |-> FALSE,
                     replacedBy |-> None]
           extended == [session[s] EXCEPT !.expires = now + TTL]
<1>1. /\ t \in TokenIds /\ token[t] # None /\ ~session[s].revoked
      /\ token[new] = None /\ new # t
  BY DEF RefreshCommit, NextToken, TypeOK, ExchangeHolds
<1>2. token[t] \in Token /\ s \in SessionIds /\ session[s] # None /\ session[s] \in Session
      /\ now + TTL \in Nat
  BY <1>1, RowTyped DEF TokensHaveSessions, TypeOK
<1>3. /\ exchanged \in Token /\ exchanged.session = s /\ exchanged.used /\ exchanged.replacedBy = new
      /\ fresh \in Token /\ fresh.session = s /\ ~fresh.used /\ fresh.replacedBy = None
  BY <1>2 DEF Token
<1>4. /\ extended \in Session /\ extended.user = session[s].user
      /\ extended.revoked = session[s].revoked
  BY <1>2 DEF Session
<1>5. token' = [token EXCEPT ![t] = exchanged, ![new] = fresh] /\ session' = [session EXCEPT ![s] = extended]
  BY <1>1, <1>2 DEF RefreshCommit, TypeOK
<1> HIDE DEF exchanged, fresh, extended
<1>6. /\ token'[t] = exchanged /\ token'[new] = fresh
      /\ \A x \in TokenIds \ {t, new} : token'[x] = token[x]
      /\ session'[s] = extended
      /\ \A x \in SessionIds \ {s} : session'[x] = session[x]
  BY <1>1, <1>2, <1>5 DEF TypeOK
<1>7. /\ token' \in [TokenIds -> Token \union {None}]
      /\ session' \in [SessionIds -> Session \union {None}]
  BY <1>1, <1>2, <1>3, <1>4, <1>5 DEF TypeOK
<1> QED
  BY <1>1, <1>2, <1>3, <1>4, <1>6, <1>7

LEMMA UserTyped ==
  ASSUME TypeOK, ExchangeHolds, TokensHaveSessions, UserStep
  PROVE  TypeOK'
<1> USE AuthAssumption
<1>1. ASSUME NEW u \in Users, Register(u) PROVE TypeOK'
  <2>1. account' \in [Users -> Account]
    BY <1>1 DEF Register, TypeOK, Account, Status, Role
  <2> QED
    BY <1>1, <2>1 DEF Register, TypeOK, sessionVars, lockVars
<1>2. ASSUME NEW u \in Users, NEW d \in Devices, LoginBegin(u, d) PROVE TypeOK'
  <2>1. Evicted(u, d) \subseteq SessionIds
    BY DEF Evicted, LiveSessionsOf, SessionsOf
  <2>2. login' \in [Users -> Login \union {None}]
    BY <1>2, <2>1 DEF LoginBegin, TypeOK, Login
  <2> QED
    BY <1>2, <2>2 DEF LoginBegin, TypeOK, sessionVars
<1>3. ASSUME NEW u \in Users, LoginAbort(u) PROVE TypeOK'
  <2>1. login' \in [Users -> Login \union {None}]
    BY <1>3 DEF LoginAbort, TypeOK
  <2> QED
    BY <1>3, <2>1 DEF LoginAbort, TypeOK, sessionVars
<1>4. ASSUME NEW u \in Users, NEW s \in SessionIds, NEW t \in TokenIds, LoginCommit(u, s, t)
      PROVE TypeOK'
  <2>1. login[u] \in Login /\ now + TTL \in Nat
    BY <1>4 DEF LoginCommit, TypeOK
  <2>2. [user |-> u, device |-> login[u].device, expires |-> now + TTL, revoked |-> FALSE] \in Session
    BY <2>1 DEF Login, Session
  <2>3. [session |-> s, expires |-> now + TTL, used |-> FALSE, revoked |-> FALSE,
         replacedBy |-> None] \in Token
    BY <2>1 DEF Token
  <2>4. /\ SessionsRevoked(login[u].revoke) \in [SessionIds -> Session \union {None}]
        /\ TokensRevoked(login[u].revoke) \in [TokenIds -> Token \union {None}]
    BY RowsRevoked
  <2>5. session' \in [SessionIds -> Session \union {None}] /\ token' \in [TokenIds -> Token \union {None}]
    BY <1>4, <2>2, <2>3, <2>4 DEF LoginCommit
  <2>6. login' \in [Users -> Login \union {None}]
    BY <1>4 DEF LoginCommit, TypeOK
  <2> QED
    BY <1>4, <2>5, <2>6 DEF LoginCommit, TypeOK
<1>5. ASSUME NEW h \in Handlers, NEW t \in TokenIds, RefreshBegin(h, t) PROVE TypeOK'
  <2>1. refresh' \in [Handlers -> TokenIds \union {None}]
    BY <1>5 DEF RefreshBegin, TypeOK
  <2> QED
    BY <1>5, <2>1 DEF RefreshBegin, TypeOK, sessionVars
<1>6. ASSUME NEW h \in Handlers, RefreshAbort(h) PROVE TypeOK'
  <2>1. refresh' \in [Handlers -> TokenIds \union {None}]
    BY <1>6 DEF RefreshAbort, TypeOK
  <2> QED
    BY <1>6, <2>1 DEF RefreshAbort, TypeOK, sessionVars
<1>8. ASSUME NEW t \in TokenIds, RefreshRevokes(t) \/ Logout(t) PROVE TypeOK'
  BY <1>8, RevokeTyped DEF RefreshRevokes, Logout, TypeOK, lockVars
<1>9. ASSUME NEW h \in Handlers, NEW t \in TokenIds, RefreshCommit(h, t) PROVE TypeOK'
  <2>1. refresh' \in [Handlers -> TokenIds \union {None}]
    BY <1>9 DEF RefreshCommit, TypeOK
  <2>2. session' \in [SessionIds -> Session \union {None}] /\ token' \in [TokenIds -> Token \union {None}]
    BY <1>9, ExchangeRows
  <2> QED
    BY <1>9, <2>1, <2>2 DEF RefreshCommit, TypeOK
<1> QED
  BY <1>1, <1>2, <1>3, <1>4, <1>5, <1>6, <1>8, <1>9 DEF UserStep

LEMMA AdminTyped ==
  ASSUME TypeOK, AdminStep
  PROVE  TypeOK'
<1> USE AuthAssumption
<1>1. ASSUME NEW a \in Users, Authorize(a) PROVE TypeOK'
  <2>1. account[a].role \in StaffRole
    BY <1>1 DEF Authorize, TypeOK, Account, Role
  <2>2. authorised' \subseteq Users \X StaffRole /\ requests' \in Nat
    BY <1>1, <2>1 DEF Authorize, TypeOK
  <2> QED
    BY <1>1, <2>2 DEF Authorize, TypeOK, sessionVars, lockVars
<1>2. ASSUME NEW a \in Users, NEW r, Served(a, r)
      PROVE  authorised' \subseteq Users \X StaffRole /\ requests' \in Nat
  BY <1>2 DEF Served, TypeOK
<1>3. ASSUME NEW a \in Users, NEW r \in StaffRole, NEW u \in Users, Suspend(a, r, u) PROVE TypeOK'
  <2>1. account' \in [Users -> Account]
    BY <1>3, AccountTyped DEF Suspend, SuspendedStatus, Status
  <2> QED
    BY <1>3, <1>2, <2>1, RevokeTyped DEF Suspend, TypeOK, lockVars
<1>4. ASSUME NEW a \in Users, NEW r \in StaffRole, NEW u \in Users, Unsuspend(a, r, u) PROVE TypeOK'
  <2>1. account' \in [Users -> Account]
    BY <1>4, AccountTyped DEF Unsuspend, Status
  <2> QED
    BY <1>4, <1>2, <2>1 DEF Unsuspend, TypeOK, lockVars, sessionVars
<1>5. ASSUME NEW a \in Users, NEW r \in StaffRole, NEW u \in Users, RevokeAllSessions(a, r, u)
      PROVE TypeOK'
  <2>1. SessionsOf(u) \subseteq SessionIds
    BY DEF SessionsOf
  <2>2. revokeAll' \in [Users -> (SUBSET SessionIds) \union {None}]
    BY <1>5, <2>1 DEF RevokeAllSessions, TypeOK
  <2> QED
    BY <1>5, <1>2, <2>2 DEF RevokeAllSessions, TypeOK, sessionVars
<1>6. ASSUME NEW a \in Users, NEW r \in StaffRole, NEW s \in SessionIds, RevokeSession(a, r, s)
      PROVE TypeOK'
  BY <1>6, <1>2, RevokeTyped DEF RevokeSession, TypeOK, lockVars
<1>7. ASSUME NEW a \in Users, NEW u \in Users, DeleteUser(a, u) PROVE TypeOK'
  <2>1. account' \in [Users -> Account]
    BY <1>7, AccountTyped DEF DeleteUser, Status
  <2> QED
    BY <1>7, <1>2, <2>1, RevokeTyped DEF DeleteUser, TypeOK, lockVars
<1>8. ASSUME NEW a \in Users, NEW u \in Users, RemoveCheck(a, u) PROVE TypeOK'
  <2>1. removal' \in [Users -> BOOLEAN]
    BY <1>8 DEF RemoveCheck, TypeOK
  <2> QED
    BY <1>8, <1>2, <2>1 DEF RemoveCheck, TypeOK, sessionVars
<1>9. ASSUME NEW a \in Users, NEW u \in Users, NEW role \in StaffRole,
             PromoteStaff(a, u, role) \/ ChangeStaffRole(a, u, role)
      PROVE TypeOK'
  <2>1. account' \in [Users -> Account]
    BY <1>9, AccountTyped DEF PromoteStaff, ChangeStaffRole, Role
  <2> QED
    BY <1>9, <1>2, <2>1 DEF PromoteStaff, ChangeStaffRole, TypeOK, lockVars, sessionVars
<1> QED
  BY <1>1, <1>3, <1>4, <1>5, <1>6, <1>7, <1>8, <1>9 DEF AdminStep

LEMMA TypeStep ==
  ASSUME TypeOK, ExchangeHolds, TokensHaveSessions, [Next]_vars
  PROVE  TypeOK'
<1>1. ASSUME NEW u \in Users, RevokeAllTokens(u) PROVE TypeOK'
  <2>1. /\ session' \in [SessionIds -> Session \union {None}]
        /\ token' \in [TokenIds -> Token \union {None}]
    BY <1>1, RowsRevoked DEF RevokeAllTokens
  <2>2. revokeAll' \in [Users -> (SUBSET SessionIds) \union {None}]
    BY <1>1 DEF RevokeAllTokens, TypeOK
  <2> QED
    BY <1>1, <2>1, <2>2 DEF RevokeAllTokens, TypeOK
<1>2. ASSUME NEW u \in Users, RemoveCommit(u) PROVE TypeOK'
  <2>1. account' \in [Users -> Account]
    BY <1>2, AccountTyped DEF RemoveCommit, Role
  <2>2. removal' \in [Users -> BOOLEAN]
    BY <1>2 DEF RemoveCommit, TypeOK
  <2> QED
    BY <1>2, <2>1, <2>2 DEF RemoveCommit, TypeOK, sessionVars
<1>3. CASE Tick
  BY <1>3 DEF Tick, TypeOK, sessionVars, lockVars
<1>4. CASE UNCHANGED vars
  BY <1>4 DEF vars, TypeOK
<1> QED
  BY <1>1, <1>2, <1>3, <1>4, UserTyped, AdminTyped DEF Next

(***************************************************************************)
(* The chains.                                                             *)
(***************************************************************************)
LEMMA LoginKeeps ==
  ASSUME TypeOK, Chains, NEW u \in Users, NEW s \in SessionIds, NEW t \in TokenIds,
         LoginCommit(u, s, t)
  PROVE  Chains'
<1> USE AuthAssumption, NoneAssumption DEF Chains
<1> DEFINE ended == login[u].revoke
<1>0. login[u] \in Login /\ now + TTL \in Nat
  BY DEF LoginCommit, TypeOK
<1>1. session[s] = None /\ token[t] = None
  BY DEF LoginCommit, NextSession, NextToken
<1>2. /\ \A x \in SessionIds \ {s} :
            /\ session'[x] = None <=> session[x] = None
            /\ session[x] # None => /\ session'[x].user = session[x].user
                                    /\ session'[x].revoked <=> (session[x].revoked \/ x \in ended)
      /\ \A x \in TokenIds \ {t} :
            /\ token'[x] = None <=> token[x] = None
            /\ token[x] # None =>
                  /\ token'[x].session = token[x].session
                  /\ token'[x].used = token[x].used
                  /\ token'[x].replacedBy = token[x].replacedBy
                  /\ token'[x].revoked <=> (token[x].revoked \/ token[x].session \in ended)
  <2>1. \A x \in SessionIds \ {s} : session'[x] = SessionsRevoked(ended)[x]
    BY RowsRevoked DEF LoginCommit
  <2>2. \A x \in TokenIds \ {t} : token'[x] = TokensRevoked(ended)[x]
    BY RowsRevoked DEF LoginCommit
  <2> QED
    BY <2>1, <2>2, RowsRevoked
<1>3. /\ session'[s] # None /\ ~session'[s].revoked
      /\ token'[t] # None /\ token'[t].session = s /\ ~token'[t].used /\ token'[t].replacedBy = None
  <2>1. session'[s] = [user |-> u, device |-> login[u].device, expires |-> now + TTL, revoked |-> FALSE]
    BY RowsRevoked DEF LoginCommit
  <2>2. token'[t] = [session |-> s, expires |-> now + TTL, used |-> FALSE, revoked |-> FALSE,
                     replacedBy |-> None]
    BY RowsRevoked DEF LoginCommit
  <2>3. session'[s] \in Session /\ token'[t] \in Token
    BY <1>0, <2>1, <2>2 DEF Login, Session, Token
  <2>4. session'[s] # None /\ token'[t] # None
    BY <2>3
  <2>5. ~session'[s].revoked
    BY <2>1
  <2>6. token'[t].session = s /\ ~token'[t].used /\ token'[t].replacedBy = None
    BY <2>2
  <2> QED
    BY <2>4, <2>5, <2>6
<1>4. \A h \in Handlers : refresh[h] # None => token[refresh[h]].session \notin ended
  BY DEF LoginCommit, SessionFree
<1>5. \A x \in TokenIds : token[x] # None => token[x].session \in SessionIds \ {s}
  BY <1>1, RowTyped DEF TokensHaveSessions
<1>6. \A h \in Handlers : refresh[h] # None =>
          refresh[h] \in TokenIds \ {t} /\ token[refresh[h]] # None
  BY <1>1 DEF TypeOK, ExchangeHolds
<1>7. refresh' = refresh /\ revokeAll' = revokeAll
  BY DEF LoginCommit
<1>8. TokensHaveSessions'
  BY <1>2, <1>3, <1>5 DEF TokensHaveSessions
<1>9. ExchangeHolds'
  <2> SUFFICES ASSUME NEW h \in Handlers, refresh[h] # None
               PROVE  LET y == refresh[h]
                          z == token'[y].session
                      IN  /\ token'[y] # None /\ ~token'[y].used
                          /\ ~session'[z].revoked
                          /\ \A x \in Users : revokeAll[x] # None => z \notin revokeAll[x]
                          /\ \A g \in Handlers \ {h} :
                                refresh[g] # None => token'[refresh[g]].session # z
    BY <1>7 DEF ExchangeHolds
  <2> DEFINE y == refresh[h]
             z == token[y].session
  <2>1. /\ y \in TokenIds \ {t} /\ token[y] # None /\ ~token[y].used /\ ~session[z].revoked
        /\ \A x \in Users : revokeAll[x] # None => z \notin revokeAll[x]
        /\ \A g \in Handlers \ {h} : refresh[g] # None => token[refresh[g]].session # z
    BY <1>6 DEF ExchangeHolds
  <2>2. z \in SessionIds \ {s} /\ session[z] # None /\ z \notin ended
    BY <2>1, <1>4, <1>5 DEF TokensHaveSessions
  <2> QED
    BY <1>2, <1>6, <2>1, <2>2
<1>10. RevokesOwn'
  <2>1. SessionsOf(u) \subseteq SessionIds \ {s}
    BY <1>1 DEF SessionsOf
  <2>2. \A x \in Users : SessionsOf(x) \subseteq SessionsOf(x)'
    BY <1>1, <1>2 DEF SessionsOf
  <2> QED
    BY <1>7, <2>2 DEF RevokesOwn
<1>11. UsedIsReplaced'
  BY <1>2, <1>3 DEF UsedIsReplaced
<1>12. OneLast'
  <2> SUFFICES ASSUME NEW x \in SessionIds, session'[x] # None
               PROVE  \E y \in TokenIds : LastOf(y, x)' /\ \A z \in TokenIds : LastOf(z, x)' => z = y
    BY DEF OneLast
  <2>1. CASE x = s
    <3>1. LastOf(t, x)'
      BY <1>3, <2>1 DEF LastOf
    <3>2. \A z \in TokenIds : LastOf(z, x)' => z = t
      BY <1>2, <1>5, <2>1 DEF LastOf
    <3> QED
      BY <3>1, <3>2
  <2>2. CASE x # s
    <3>1. \A z \in TokenIds : LastOf(z, x)' <=> LastOf(z, x)
      BY <1>1, <1>2, <1>3, <2>2 DEF LastOf
    <3>2. session[x] # None
      BY <1>2, <2>2
    <3> QED
      BY <3>1, <3>2 DEF OneLast
  <2> QED
    BY <2>1, <2>2
<1>13. RevokedKeepsNoToken'
  BY <1>2, <1>3, <1>5 DEF RevokedKeepsNoToken, Usable, TokensHaveSessions
<1> QED
  BY <1>8, <1>9, <1>10, <1>11, <1>12, <1>13

LEMMA ExchangeKeeps ==
  ASSUME TypeOK, Chains, NEW h \in Handlers, NEW new \in TokenIds, RefreshCommit(h, new)
  PROVE  Chains'
<1> USE DEF Chains
<1> DEFINE t == refresh[h]
           s == token[t].session
<1>1. /\ t \in TokenIds /\ s \in SessionIds /\ new # t /\ token[new] = None
      /\ token[t] # None /\ session[s] # None /\ ~session[s].revoked
      /\ token'[t] # None /\ token'[t].session = s
      /\ token'[t].used /\ token'[t].replacedBy = new
      /\ token'[new] # None /\ token'[new].session = s
      /\ ~token'[new].used /\ token'[new].replacedBy = None
      /\ \A x \in TokenIds \ {t, new} : token'[x] = token[x]
      /\ session'[s] # None /\ session'[s].user = session[s].user
      /\ ~session'[s].revoked
      /\ \A x \in SessionIds \ {s} : session'[x] = session[x]
  BY ExchangeRows
<1>2. /\ refresh'[h] = None /\ \A g \in Handlers \ {h} : refresh'[g] = refresh[g]
      /\ revokeAll' = revokeAll
  BY DEF RefreshCommit, TypeOK
<1>3. new # None /\ token[t].replacedBy = None
  BY <1>1, AuthAssumption DEF RefreshCommit, ExchangeHolds, UsedIsReplaced
<1> HIDE DEF t, s
<1>4. \A g \in Handlers \ {h} : refresh[g] # None =>
          refresh[g] \in TokenIds \ {t, new} /\ token[refresh[g]].session # s
  <2> SUFFICES ASSUME NEW g \in Handlers \ {h}, refresh[g] # None
               PROVE  refresh[g] \in TokenIds \ {t, new} /\ token[refresh[g]].session # s
    OBVIOUS
  <2>1. refresh[h] # None /\ refresh[g] \in TokenIds
    BY DEF RefreshCommit, TypeOK
  <2>2. token[refresh[g]] # None /\ token[refresh[g]].session # token[refresh[h]].session
    BY <2>1 DEF ExchangeHolds
  <2> QED
    BY <1>1, <2>1, <2>2 DEF t, s
<1>5. TokensHaveSessions'
  BY <1>1, RowTyped DEF TokensHaveSessions
<1>6. ExchangeHolds'
  <2> SUFFICES ASSUME NEW g \in Handlers \ {h}, refresh[g] # None
               PROVE  LET y == refresh[g]
                          z == token'[y].session
                      IN  /\ token'[y] # None /\ ~token'[y].used
                          /\ ~session'[z].revoked
                          /\ \A u \in Users : revokeAll[u] # None => z \notin revokeAll[u]
                          /\ \A x \in Handlers \ {h, g} :
                                refresh[x] # None => token'[refresh[x]].session # z
    BY <1>2 DEF ExchangeHolds
  <2>1. /\ refresh[g] \in TokenIds \ {t, new}
        /\ token'[refresh[g]] = token[refresh[g]] /\ token[refresh[g]].session # s
        /\ \A x \in Handlers \ {h} : refresh[x] # None => token'[refresh[x]] = token[refresh[x]]
    BY <1>1, <1>4
  <2>2. token[refresh[g]] # None /\ token[refresh[g]].session \in SessionIds \ {s}
    BY <2>1, RowTyped DEF ExchangeHolds
  <2>3. session'[token[refresh[g]].session] = session[token[refresh[g]].session]
    BY <1>1, <2>2
  <2> QED
    BY <2>1, <2>2, <2>3 DEF ExchangeHolds
<1>7. RevokesOwn'
  BY <1>1, <1>2 DEF RevokesOwn, SessionsOf
<1>8. UsedIsReplaced'
  BY <1>1, <1>3 DEF UsedIsReplaced
<1>9. OneLast'
  <2> SUFFICES ASSUME NEW x \in SessionIds, session'[x] # None
               PROVE  \E y \in TokenIds : LastOf(y, x)' /\ \A z \in TokenIds : LastOf(z, x)' => z = y
    BY DEF OneLast
  <2>1. CASE x = s
    <3>1. LastOf(t, s)
      BY <1>1, <1>3 DEF LastOf, s
    <3>2. \A z \in TokenIds : LastOf(z, s) => z = t
      BY <1>1, <3>1 DEF OneLast
    <3>3. LastOf(new, x)'
      BY <1>1, <2>1 DEF LastOf
    <3>4. \A z \in TokenIds : LastOf(z, x)' => z = new
      BY <1>1, <1>3, <2>1, <3>2 DEF LastOf
    <3> QED
      BY <3>3, <3>4
  <2>2. CASE x # s
    <3>1. \A z \in TokenIds : LastOf(z, x)' <=> LastOf(z, x)
      BY <1>1, <2>2 DEF LastOf, s
    <3> QED
      BY <1>1, <2>2, <3>1 DEF OneLast
  <2> QED
    BY <2>1, <2>2
<1>10. RevokedKeepsNoToken'
  BY <1>1, RowTyped DEF RevokedKeepsNoToken, Usable
<1> QED
  BY <1>5, <1>6, <1>7, <1>8, <1>9, <1>10

LEMMA ChainsStep ==
  ASSUME TypeOK, Chains, [Next]_vars
  PROVE  Chains'
<1>1. ASSUME NEW u \in Users, NEW s \in SessionIds, NEW t \in TokenIds, LoginCommit(u, s, t)
      PROVE  Chains'
  BY <1>1, LoginKeeps
<1>2. ASSUME NEW h \in Handlers, NEW t \in TokenIds, RefreshCommit(h, t)
      PROVE  Chains'
  BY <1>2, ExchangeKeeps
<1>3. ASSUME NEW set, Revoke(set), UNCHANGED lockVars
      PROVE  Chains'
  <2>1. \A h \in Handlers : refresh[h] # None => token[refresh[h]].session \notin set
    BY <1>3 DEF Revoke, SessionFree
  <2> QED
    BY <1>3, <2>1, RevocationKeeps DEF Revoke, lockVars
<1>4. ASSUME NEW u \in Users, RevokeAllTokens(u)
      PROVE  Chains'
  <2>1. revokeAll[u] \subseteq SessionsOf(u)
    BY <1>4 DEF RevokeAllTokens, Chains, RevokesOwn
  <2>2. \A h \in Handlers : refresh[h] # None => token[refresh[h]].session \notin revokeAll[u]
    BY <1>4 DEF RevokeAllTokens, Chains, ExchangeHolds
  <2>3. \A x \in Users : revokeAll'[x] # None => revokeAll'[x] = revokeAll[x]
    BY <1>4 DEF RevokeAllTokens, TypeOK
  <2> QED
    BY <1>4, <2>1, <2>2, <2>3, RevocationKeeps DEF RevokeAllTokens
<1>5. ASSUME NEW h \in Handlers, NEW t \in TokenIds, RefreshBegin(h, t)
      PROVE  Chains'
  <2>1. /\ refresh'[h] = t /\ \A g \in Handlers \ {h} : refresh'[g] = refresh[g]
        /\ UNCHANGED <<session, token, revokeAll>>
    BY <1>5 DEF RefreshBegin, TypeOK, sessionVars
  <2>2. /\ token[t] # None /\ ~token[t].used /\ ~session[token[t].session].revoked
        /\ \A g \in Handlers : refresh[g] # None => token[refresh[g]].session # token[t].session
        /\ \A u \in Users : revokeAll[u] # None => token[t].session \notin revokeAll[u]
    BY <1>5 DEF RefreshBegin, SessionFree, Acceptable, LiveSession
  <2>3. ExchangeHolds'
    BY <2>1, <2>2 DEF Chains, ExchangeHolds
  <2> QED
    BY <2>1, <2>3 DEF Chains, TokensHaveSessions, RevokesOwn, SessionsOf, UsedIsReplaced, OneLast,
                      LastOf, RevokedKeepsNoToken, Usable
<1>6. ASSUME NEW h \in Handlers, RefreshAbort(h)
      PROVE  Chains'
  <2>1. /\ refresh'[h] = None /\ \A g \in Handlers \ {h} : refresh'[g] = refresh[g]
        /\ UNCHANGED <<session, token, revokeAll>>
    BY <1>6 DEF RefreshAbort, TypeOK, sessionVars
  <2>2. ExchangeHolds'
    BY <2>1 DEF Chains, ExchangeHolds
  <2> QED
    BY <2>1, <2>2 DEF Chains, TokensHaveSessions, RevokesOwn, SessionsOf, UsedIsReplaced, OneLast,
                      LastOf, RevokedKeepsNoToken, Usable
<1>7. ASSUME NEW a \in Users, NEW r \in StaffRole, NEW u \in Users, RevokeAllSessions(a, r, u)
      PROVE  Chains'
  <2>1. /\ revokeAll'[u] = SessionsOf(u) /\ \A x \in Users \ {u} : revokeAll'[x] = revokeAll[x]
        /\ UNCHANGED <<session, token, refresh>>
    BY <1>7 DEF RevokeAllSessions, TypeOK, sessionVars
  <2>2. \A h \in Handlers : refresh[h] # None => token[refresh[h]].session \notin SessionsOf(u)
    BY <1>7 DEF RevokeAllSessions, SessionFree
  <2>3. ExchangeHolds' /\ RevokesOwn'
    BY <2>1, <2>2 DEF Chains, ExchangeHolds, RevokesOwn, SessionsOf
  <2> QED
    BY <2>1, <2>3 DEF Chains, TokensHaveSessions, UsedIsReplaced, OneLast, LastOf,
                      RevokedKeepsNoToken, Usable
<1>8. ASSUME UNCHANGED <<session, token, refresh, revokeAll>>
      PROVE  Chains'
  BY <1>8 DEF Chains, TokensHaveSessions, ExchangeHolds, RevokesOwn, SessionsOf, UsedIsReplaced,
              OneLast, LastOf, RevokedKeepsNoToken, Usable
<1>9. CASE UserStep
  BY <1>9, <1>1, <1>2, <1>3, <1>5, <1>6, <1>8
  DEF UserStep, Register, LoginBegin, LoginAbort, RefreshRevokes, Logout, sessionVars, lockVars
<1>10. CASE AdminStep
  BY <1>10, <1>3, <1>7, <1>8
  DEF AdminStep, Authorize, Suspend, Unsuspend, RevokeSession, DeleteUser, RemoveCheck, PromoteStaff,
      ChangeStaffRole, sessionVars, lockVars
<1> QED
  BY <1>4, <1>8, <1>9, <1>10 DEF Next, RemoveCommit, Tick, vars, sessionVars, lockVars

(***************************************************************************)
(* The accounts.                                                           *)
(***************************************************************************)
\* Accounts stay as they are, and sessions of nobody but active accounts come to life.
LEMMA SessionsOnly ==
  ASSUME TypeOK, Accounts, account' = account,
         \A u \in Users : login'[u] # None => account[u].status = "active",
         \A u \in Users, s \in SessionIds :
             account[u].status # "active" /\ s \in SessionsOf(u)' =>
                 s \in SessionsOf(u) /\ (session[s].revoked => session'[s].revoked)
  PROVE  Accounts'
<1>1. \A u \in Users : SessionsOf(u)' \subseteq SessionIds
  BY DEF SessionsOf
<1> QED
  BY <1>1 DEF Accounts, LoginIsActive, InactiveKeepsNoSession, StaffAreActive

LEMMA RevokeEnds ==
  ASSUME TypeOK, NEW set, Revoke(set), NEW u \in Users
  PROVE  /\ SessionsOf(u)' = SessionsOf(u)
         /\ \A s \in SessionsOf(u) : session'[s].revoked <=> (session[s].revoked \/ s \in set)
  BY RowsRevoked DEF Revoke, SessionsOf

\* One account is changed; if it ends up inactive, no login of it is in flight and its
\* sessions are revoked.
LEMMA OneAccount ==
  ASSUME TypeOK, Accounts, NEW u \in Users, login' = login,
         login[u] # None => account'[u].status = "active",
         \A x \in Users \ {u} : account'[x] = account[x],
         account'[u].role # "user" => account'[u].status = "active",
         \A x \in Users : SessionsOf(x)' = SessionsOf(x),
         \A x \in Users : \A s \in SessionsOf(x) : session[s].revoked => session'[s].revoked,
         account'[u].status # "active" => \A s \in SessionsOf(u) : session'[s].revoked
  PROVE  Accounts'
  BY DEF Accounts, LoginIsActive, InactiveKeepsNoSession, StaffAreActive

LEMMA AccountsStep ==
  ASSUME TypeOK, Chains, Accounts, [Next]_vars
  PROVE  Accounts'
<1> USE AuthAssumption
<1>0. \A x \in Users : account[x] \in Account
  BY DEF TypeOK
<1>1. ASSUME NEW u \in Users, Register(u) PROVE Accounts'
  <2>1. /\ account'[u].status = "active" /\ account'[u].role = "user"
        /\ \A x \in Users \ {u} : account'[x] = account[x]
    BY <1>1 DEF Register, TypeOK
  <2> QED
    BY <1>1, <2>1, OneAccount DEF Register, sessionVars, lockVars, SessionsOf
<1>2. ASSUME NEW u \in Users, NEW d \in Devices, LoginBegin(u, d) PROVE Accounts'
  <2>1. \A x \in Users : login'[x] # None => account[x].status = "active"
    BY <1>2 DEF LoginBegin, TypeOK, Accounts, LoginIsActive
  <2> QED
    BY <1>2, <2>1, SessionsOnly DEF LoginBegin, sessionVars, SessionsOf
<1>3. ASSUME NEW u \in Users, LoginAbort(u) PROVE Accounts'
  <2>1. \A x \in Users : login'[x] # None => account[x].status = "active"
    BY <1>3 DEF LoginAbort, TypeOK, Accounts, LoginIsActive
  <2> QED
    BY <1>3, <2>1, SessionsOnly DEF LoginAbort, sessionVars, SessionsOf
<1>4. ASSUME NEW u \in Users, NEW s \in SessionIds, NEW t \in TokenIds, LoginCommit(u, s, t)
      PROVE Accounts'
  <2>1. \A x \in Users : login'[x] # None => account[x].status = "active"
    BY <1>4 DEF LoginCommit, TypeOK, Accounts, LoginIsActive
  <2>2. session'[s].user = u /\ account[u].status = "active"
    BY <1>4, RowsRevoked DEF LoginCommit, Accounts, LoginIsActive
  <2>3. \A x \in SessionIds \ {s} : session'[x] = SessionsRevoked(login[u].revoke)[x]
    BY <1>4, RowsRevoked DEF LoginCommit
  <2>4. \A x \in SessionIds \ {s} :
            /\ session'[x] # None => session[x] # None
            /\ session[x] # None => /\ session'[x].user = session[x].user
                                    /\ session[x].revoked => session'[x].revoked
    BY <2>3, RowsRevoked
  <2>5. \A x \in Users, y \in SessionIds :
            account[x].status # "active" /\ y \in SessionsOf(x)' =>
                y \in SessionsOf(x) /\ (session[y].revoked => session'[y].revoked)
    BY <2>2, <2>4 DEF SessionsOf
  <2> QED
    BY <1>4, <2>1, <2>5, SessionsOnly DEF LoginCommit
<1>5. ASSUME NEW h \in Handlers, NEW t \in TokenIds, RefreshCommit(h, t) PROVE Accounts'
  <2> DEFINE s == token[refresh[h]].session
  <2>1. /\ session[s] # None /\ ~session[s].revoked /\ session'[s].user = session[s].user
        /\ \A x \in SessionIds \ {s} : session'[x] = session[x]
    BY <1>5, ExchangeRows DEF Chains
  <2> HIDE DEF s
  <2>2. \A x \in Users, y \in SessionIds :
            account[x].status # "active" /\ y \in SessionsOf(x)' =>
                y \in SessionsOf(x) /\ (session[y].revoked => session'[y].revoked)
    BY <2>1 DEF SessionsOf
  <2> QED
    BY <1>5, <2>2, SessionsOnly DEF RefreshCommit, Accounts, LoginIsActive
<1>6. ASSUME NEW set, Revoke(set), UNCHANGED <<account, login>> PROVE Accounts'
  <2>1. \A x \in Users, y \in SessionIds :
            account[x].status # "active" /\ y \in SessionsOf(x)' =>
                y \in SessionsOf(x) /\ (session[y].revoked => session'[y].revoked)
    BY <1>6, RevokeEnds
  <2> QED
    BY <1>6, <2>1, SessionsOnly DEF Accounts, LoginIsActive
<1>7. ASSUME NEW u \in Users, RevokeAllTokens(u) PROVE Accounts'
  <2>1. \A x \in Users, y \in SessionIds :
            account[x].status # "active" /\ y \in SessionsOf(x)' =>
                y \in SessionsOf(x) /\ (session[y].revoked => session'[y].revoked)
    BY <1>7, RowsRevoked DEF RevokeAllTokens, SessionsOf
  <2> QED
    BY <1>7, <2>1, SessionsOnly DEF RevokeAllTokens, Accounts, LoginIsActive
<1>8. ASSUME UNCHANGED <<account, login, session>> PROVE Accounts'
  BY <1>8, SessionsOnly DEF SessionsOf, Accounts, LoginIsActive
<1>9. ASSUME NEW u \in Users, UserFree(u), EndUser(u), Revoke(SessionsOf(u)),
             NEW status, account' = [account EXCEPT ![u].status = status], login' = login
      PROVE  Accounts'
  <2>1. account'[u].role = "user" /\ \A x \in Users \ {u} : account'[x] = account[x]
    BY <1>0, <1>9 DEF EndUser, TypeOK, Account
  <2>2. /\ \A x \in Users : SessionsOf(x)' = SessionsOf(x)
        /\ \A x \in Users : \A s \in SessionsOf(x) : session[s].revoked => session'[s].revoked
        /\ \A s \in SessionsOf(u) : session'[s].revoked
    BY <1>9, RevokeEnds
  <2> QED
    BY <1>9, <2>1, <2>2, OneAccount DEF UserFree
<1>10. ASSUME NEW u \in Users, login' = login, session' = session,
              account'[u].status = account[u].status \/ account'[u].status = "active",
              account'[u].role # "user" => account'[u].status = "active",
              \A x \in Users \ {u} : account'[x] = account[x]
       PROVE  Accounts'
  <2>1. /\ login[u] # None => account'[u].status = "active"
        /\ account'[u].status # "active" => \A s \in SessionsOf(u) : session'[s].revoked
    BY <1>10 DEF Accounts, LoginIsActive, InactiveKeepsNoSession
  <2> QED
    BY <1>10, <2>1, OneAccount DEF SessionsOf
<1>11. ASSUME NEW a \in Users, NEW r \in StaffRole, NEW u \in Users, Unsuspend(a, r, u)
       PROVE  Accounts'
  <2>1. account'[u].status = "active" /\ \A x \in Users \ {u} : account'[x] = account[x]
    BY <1>0, <1>11 DEF Unsuspend, TypeOK, Account
  <2> QED
    BY <1>10, <1>11, <2>1 DEF Unsuspend, sessionVars, lockVars
<1>12. ASSUME NEW a \in Users, NEW u \in Users, NEW role \in StaffRole,
              PromoteStaff(a, u, role) \/ ChangeStaffRole(a, u, role)
       PROVE  Accounts'
  <2>1. account'[u].status = account[u].status /\ \A x \in Users \ {u} : account'[x] = account[x]
    BY <1>0, <1>12 DEF PromoteStaff, ChangeStaffRole, TypeOK, Account
  <2>2. account[u].status = "active"
    BY <1>12 DEF PromoteStaff, ChangeStaffRole, Accounts, StaffAreActive
  <2> QED
    BY <1>10, <1>12, <2>1, <2>2 DEF PromoteStaff, ChangeStaffRole, sessionVars, lockVars
<1>13. ASSUME NEW u \in Users, RemoveCommit(u) PROVE Accounts'
  <2>1. /\ account'[u].status = account[u].status /\ account'[u].role = "user"
        /\ \A x \in Users \ {u} : account'[x] = account[x]
    BY <1>0, <1>13 DEF RemoveCommit, TypeOK, Account
  <2> QED
    BY <1>10, <1>13, <2>1 DEF RemoveCommit, sessionVars
<1>14. CASE UserStep
  BY <1>14, <1>1, <1>2, <1>3, <1>4, <1>5, <1>6, <1>8
  DEF UserStep, RefreshBegin, RefreshAbort, RefreshRevokes, Logout, sessionVars, lockVars
<1>15. CASE AdminStep
  BY <1>15, <1>6, <1>8, <1>9, <1>11, <1>12
  DEF AdminStep, Authorize, Suspend, UserOperation, RevokeAllSessions, RevokeSession, DeleteUser,
      RemoveCheck, sessionVars, lockVars
<1> QED
  BY <1>7, <1>8, <1>13, <1>14, <1>15 DEF Next, Tick, vars, sessionVars, lockVars

(***************************************************************************)
(* The invariant and what follows from it.                                 *)
(***************************************************************************)
LEMMA InvInit == Init => IInv
<1> SUFFICES ASSUME Init PROVE IInv
  OBVIOUS
<1> USE AuthAssumption
<1>1. account \in [Users -> Account]
  BY DEF Init, Account, Status, Role
<1>2. TypeOK
  BY <1>1 DEF Init, TypeOK
<1>3. Chains
  BY DEF Init, Chains, TokensHaveSessions, ExchangeHolds, RevokesOwn, UsedIsReplaced, OneLast,
     RevokedKeepsNoToken, Usable
<1>4. Accounts
  BY DEF Init, Accounts, LoginIsActive, InactiveKeepsNoSession, StaffAreActive, SessionsOf
<1> QED
  BY <1>2, <1>3, <1>4 DEF IInv

LEMMA InvStep == IInv /\ [Next]_vars => IInv'
  BY TypeStep, ChainsStep, AccountsStep DEF IInv, Chains

\* The locks on users and sessions are enough, however logins, exchanges and the operations
\* of administrators interleave.
THEOREM AuthInvariant == Spec => []IInv
<1>1. QED
  BY InvInit, InvStep, PTL DEF Spec

\* Every variable keeps its type.
THEOREM TypeCorrect == Spec => []TypeOK
<1>1. IInv => TypeOK
  BY DEF IInv
<1>2. QED
  BY <1>1, AuthInvariant, PTL

\* No token of a revoked session can be exchanged, even one that was being created.
THEOREM RevocationComplete == Spec => []RevokedKeepsNoToken
<1>1. IInv => RevokedKeepsNoToken
  BY DEF IInv, Chains
<1>2. QED
  BY <1>1, AuthInvariant, PTL

\* Of all tokens of a session exactly one has not been exchanged.
THEOREM RotationIsOneChain == Spec => []OneChain
<1>1. IInv => OneChain
  <2> SUFFICES ASSUME IInv, NEW s \in SessionIds, session[s] # None
               PROVE  Cardinality({t \in TokenIds : LastOf(t, s)}) = 1
    BY DEF OneChain, LastOf
  <2>1. PICK t \in TokenIds : LastOf(t, s) /\ \A x \in TokenIds : LastOf(x, s) => x = t
    BY DEF IInv, Chains, OneLast
  <2>2. {x \in TokenIds : LastOf(x, s)} = {t}
    BY <2>1
  <2> QED
    BY <2>2, FS_Singleton
<1>2. QED
  BY <1>1, AuthInvariant, PTL

\* A banned or deleted account has no session left.
THEOREM BanIsComplete == Spec => []InactiveKeepsNoSession
<1>1. IInv => InactiveKeepsNoSession
  BY DEF IInv, Accounts
<1>2. QED
  BY <1>1, AuthInvariant, PTL

\* A staff account is always active.
THEOREM StaffActive == Spec => []StaffAreActive
<1>1. IInv => StaffAreActive
  BY DEF IInv, Accounts
<1>2. QED
  BY <1>1, AuthInvariant, PTL
================================================================================
