--------------------------- MODULE AccountsProofs ---------------------------
(***************************************************************************)
(* Proofs about Accounts, for any number of users, requests, sessions and  *)
(* tokens, and of the login limiter, for any number of addresses and       *)
(* attempts.                                                               *)
(***************************************************************************)
EXTENDS Accounts, FiniteSetTheorems, SequenceTheorems, TLAPS

Existing == {u \in Users : user[u] # NULL}

\* A login that has verified the password of u holds the UUID of u, which no
\* other user will ever have, and the password of u for as long as u exists.
LoginHoldsProof ==
    \A q \in Requests : At(q, "session") =>
        /\ request[q].user \in issued
        /\ user[request[q].user] # NULL =>
              user[request[q].user].password = request[q].proof

\* The inductive invariant.
AccountsInv ==
    /\ AccountsTypeOK
    /\ \A u \in Users : user[u] # NULL => u \in issued
    /\ IsFiniteSet(Existing)
    /\ LoginHoldsProof
    /\ SomeAdminRemains
    /\ CredentialsEndWithAccount
    /\ SessionProvesPassword

-----------------------------------------------------------------------------
(* What a request holds, told by its step.                                 *)

SessionRequests == [at : {"session"}, user : Users, name : Names, proof : Passwords]
ExchangeRequests == [at : {"exchange"}, user : Users]
PageRequests == [at : {"page"}, actor : Users, minRole : Roles]

LEMMA RequestKinds ==
    ASSUME AccountsTypeOK, NEW q \in Requests
    PROVE  /\ At(q, "session") => request[q] \in SessionRequests
           /\ At(q, "exchange") => request[q] \in ExchangeRequests
           /\ At(q, "page") => request[q] \in PageRequests
<1>1. request[q] # NULL => request[q] \in Request
  BY DEF AccountsTypeOK
<1> QED  BY <1>1 DEF At, Request, SessionRequests, ExchangeRequests, PageRequests

LEMMA KindsAreRequests ==
    /\ [at |-> "verify"] \in Request
    /\ SessionRequests \subseteq Request
    /\ ExchangeRequests \subseteq Request
    /\ PageRequests \subseteq Request
  BY DEF Request, SessionRequests, ExchangeRequests, PageRequests

\* A step that leaves the tables alone, and brings no request to the step
\* before the session, keeps the invariant.
LEMMA TablesUnchanged ==
    ASSUME AccountsInv, UNCHANGED tables,
           request' \in [Requests -> Request \cup {NULL}],
           \A q \in Requests : At(q, "session")' => request'[q] = request[q]
    PROVE  AccountsInv'
<1>1. AccountsTypeOK'
  BY DEF AccountsInv, AccountsTypeOK, tables
<1>2. LoginHoldsProof'
  BY DEF AccountsInv, LoginHoldsProof, tables, At
<1> QED
  BY <1>1, <1>2 DEF AccountsInv, tables, Existing, SomeAdminRemains, Admins,
     CredentialsEndWithAccount, SessionProvesPassword

\* The end of a request brings no other to its last step.
LEMMA Ending ==
    ASSUME AccountsTypeOK, NEW q \in Requests, End(q)
    PROVE  /\ request' \in [Requests -> Request \cup {NULL}]
           /\ \A r \in Requests : At(r, "session")' => request'[r] = request[r]
  BY DEF AccountsTypeOK, End, At

-----------------------------------------------------------------------------
(* A user is created, by an administrator or by the command.               *)

LEMMA UserCreated ==
    ASSUME AccountsInv, NEW u \in Users, NEW row \in User,
           Fresh(u), Issue(u),
           user' = [user EXCEPT ![u] = row],
           UNCHANGED <<session, apiKey, accessToken>>,
           request' \in [Requests -> Request \cup {NULL}],
           \A q \in Requests : At(q, "session")' => request'[q] = request[q]
    PROVE  AccountsInv'
<1>1. user[u] = NULL
  BY DEF AccountsInv, Fresh
<1>2. row # NULL
  BY AccountsAssumption
<1>3. AccountsTypeOK'
  BY DEF AccountsInv, AccountsTypeOK, Issue
<1>4. \A v \in Users : user'[v] = IF v = u THEN row ELSE user[v]
  BY DEF AccountsInv, AccountsTypeOK
<1>5. \A v \in Users : user'[v] # NULL => v \in issued'
  BY <1>4 DEF AccountsInv, Issue
<1>6. IsFiniteSet(Existing)'
  <2>1. Existing' = Existing \cup {u}
    BY <1>2, <1>4 DEF Existing
  <2> QED  BY <2>1, FS_AddElement DEF AccountsInv
<1>7. LoginHoldsProof'
  <2> SUFFICES ASSUME NEW q \in Requests, At(q, "session")'
               PROVE  /\ request'[q].user \in issued'
                      /\ user'[request'[q].user] # NULL =>
                            user'[request'[q].user].password = request'[q].proof
    BY DEF LoginHoldsProof
  <2>1. request'[q] = request[q] /\ At(q, "session")
    BY DEF At
  <2>2. request[q].user \in issued /\ request[q].user \in Users
    BY <2>1, RequestKinds DEF AccountsInv, LoginHoldsProof, SessionRequests
  <2>3. request[q].user # u
    BY <2>2 DEF Fresh
  <2> QED  BY <2>1, <2>2, <2>3, <1>4 DEF AccountsInv, LoginHoldsProof, Issue
<1>8. SomeAdminRemains'
  <2>1. PICK a \in Users : user[a] # NULL /\ user[a].role = "admin"
    BY DEF AccountsInv, SomeAdminRemains, Admins
  <2>2. user'[a] = user[a]
    BY <1>1, <1>4, <2>1
  <2> QED  BY <2>1, <2>2 DEF SomeAdminRemains, Admins
<1>9. \A v \in Users : user[v] # NULL => user'[v] = user[v]
  BY <1>1, <1>4
<1>10. (\A s \in Sessions : session[s] # NULL => session[s].user \in Users)
       /\ (\A t \in Tokens : accessToken[t] # NULL => accessToken[t].user \in Users)
  BY DEF AccountsInv, AccountsTypeOK, Session, AccessToken
<1>11. CredentialsEndWithAccount'
  BY <1>9, <1>10 DEF AccountsInv, CredentialsEndWithAccount
<1>12. SessionProvesPassword'
  BY <1>9, <1>10 DEF AccountsInv, SessionProvesPassword
<1> QED
  BY <1>3, <1>5, <1>6, <1>7, <1>8, <1>11, <1>12 DEF AccountsInv

-----------------------------------------------------------------------------
(* A user is deleted: not the only administrator, and with every           *)
(* credential.                                                             *)

\* A set with more than one element keeps one when any is taken out.
LEMMA NotTheOnlyOne ==
    ASSUME NEW S, IsFiniteSet(S), NEW x, ~(x \in S /\ Cardinality(S) <= 1), S # {}
    PROVE  S \ {x} # {}
<1>1. CASE x \notin S
  BY <1>1
<1>2. CASE x \in S
  <2>1. Cardinality(S) \in Nat /\ Cardinality(S \ {x}) = Cardinality(S) - 1
    BY <1>2, FS_RemoveElement, FS_CardinalityType
  <2>2. Cardinality(S \ {x}) # 0
    BY <1>2, <2>1
  <2> QED  BY <2>2, FS_EmptySet
<1> QED  BY <1>1, <1>2

LEMMA DeleteUserKeeps ==
    ASSUME AccountsInv, NEW q \in Requests, NEW u \in Users, DeleteUser(q, u)
    PROVE  AccountsInv'
<1>1. \A v \in Users : user'[v] = IF v = u THEN NULL ELSE user[v]
  BY DEF DeleteUser, AccountsInv, AccountsTypeOK
<1>2. /\ request' \in [Requests -> Request \cup {NULL}]
      /\ \A r \in Requests : At(r, "session")' => request'[r] = request[r]
  BY Ending DEF DeleteUser, AccountsInv
<1>3. AccountsTypeOK'
  BY <1>2 DEF DeleteUser, AccountsInv, AccountsTypeOK, CascadeToTokens
<1>4. \A v \in Users : user'[v] # NULL => v \in issued'
  BY <1>1 DEF DeleteUser, AccountsInv
<1>5. IsFiniteSet(Existing)'
  <2>1. Existing' \subseteq Existing
    BY <1>1 DEF Existing
  <2> QED  BY <2>1, FS_Subset DEF AccountsInv
<1>6. LoginHoldsProof'
  <2> SUFFICES ASSUME NEW r \in Requests, At(r, "session")'
               PROVE  /\ request'[r].user \in issued'
                      /\ user'[request'[r].user] # NULL =>
                            user'[request'[r].user].password = request'[r].proof
    BY DEF LoginHoldsProof
  <2>1. request'[r] = request[r] /\ At(r, "session")
    BY <1>2 DEF At
  <2>2. request[r].user \in issued /\ request[r].user \in Users
    BY <2>1, RequestKinds DEF AccountsInv, LoginHoldsProof, SessionRequests
  <2> QED  BY <2>1, <2>2, <1>1 DEF AccountsInv, LoginHoldsProof, DeleteUser
<1>7. SomeAdminRemains'
  <2>1. Admins' = Admins \ {u}
    BY <1>1 DEF Admins
  <2>2. IsFiniteSet(Admins)
    <3>1. Admins \subseteq Existing
      BY DEF Admins, Existing
    <3> QED  BY <3>1, FS_Subset DEF AccountsInv
  <2>3. ~(u \in Admins /\ Cardinality(Admins) <= 1)
    BY DEF DeleteUser, LastAdmin
  <2> QED  BY <2>1, <2>2, <2>3, NotTheOnlyOne DEF AccountsInv, SomeAdminRemains
<1>8. /\ \A s \in Sessions : session'[s] # NULL =>
            session'[s] = session[s] /\ session[s].user # u
      /\ \A t \in Tokens : accessToken'[t] # NULL =>
            accessToken'[t] = accessToken[t] /\ accessToken[t].user # u
      /\ \A v \in Users : apiKey'[v] # NULL => apiKey'[v] = apiKey[v] /\ v # u
  BY DEF DeleteUser, CascadeToTokens, AccountsInv, AccountsTypeOK
<1>9. (\A s \in Sessions : session[s] # NULL => session[s].user \in Users)
      /\ (\A t \in Tokens : accessToken[t] # NULL => accessToken[t].user \in Users)
  BY DEF AccountsInv, AccountsTypeOK, Session, AccessToken
<1>10. CredentialsEndWithAccount'
  BY <1>1, <1>8, <1>9 DEF AccountsInv, CredentialsEndWithAccount
<1>11. SessionProvesPassword'
  BY <1>1, <1>8, <1>9 DEF AccountsInv, SessionProvesPassword
<1> QED
  BY <1>3, <1>4, <1>5, <1>6, <1>7, <1>10, <1>11 DEF AccountsInv

-----------------------------------------------------------------------------
(* Credentials are given to, and taken from, users who exist.              *)

LEMMA VerifyLoginKeeps ==
    ASSUME AccountsInv, NEW q \in Requests, NEW name \in Names,
           NEW password \in Passwords, VerifyLogin(q, name, password)
    PROVE  AccountsInv'
<1> DEFINE Match == {u \in Users : user[u] # NULL /\ user[u].name = name
                                   /\ user[u].password = password}
           Held(u) == [at |-> "session", user |-> u, name |-> name, proof |-> password]
<1>1. UNCHANGED tables
  BY DEF VerifyLogin
<1>2. CASE End(q)
  BY <1>1, <1>2, Ending, TablesUnchanged DEF AccountsInv
<1>3. ASSUME NEW u \in Match, Continue(q, Held(u))
      PROVE  AccountsInv'
  <2>1. Held(u) \in SessionRequests /\ u \in Users
    BY DEF SessionRequests
  <2>2. request' \in [Requests -> Request \cup {NULL}]
        /\ \A r \in Requests : request'[r] = IF r = q THEN Held(u) ELSE request[r]
    BY <1>3, <2>1, KindsAreRequests DEF Continue, AccountsInv, AccountsTypeOK
  <2>3. AccountsTypeOK'
    BY <1>1, <2>2 DEF AccountsInv, AccountsTypeOK, tables
  <2>4. u \in issued /\ user[u].password = password
    BY DEF AccountsInv
  <2>5. LoginHoldsProof'
    BY <1>1, <2>2, <2>4 DEF LoginHoldsProof, At, AccountsInv, tables
  <2> QED
    BY <1>1, <2>3, <2>5 DEF AccountsInv, tables, Existing, SomeAdminRemains, Admins,
       CredentialsEndWithAccount, SessionProvesPassword
<1>4. End(q) \/ \E u \in Match : Continue(q, Held(u))
  BY DEF VerifyLogin
<1> HIDE DEF Match, Held
<1> QED  BY <1>2, <1>3, <1>4

LEMMA CreateSessionKeeps ==
    ASSUME AccountsInv, NEW q \in Requests, NEW s \in Sessions, CreateSession(q, s)
    PROVE  AccountsInv'
<1> DEFINE row == [user |-> request[q].user, left |-> SessionTTL, proof |-> request[q].proof]
<1>1. request[q] \in SessionRequests /\ user[request[q].user] # NULL
  BY RequestKinds DEF CreateSession, Owner, AccountsInv
<1>2. row \in Session
  BY <1>1, AccountsAssumption DEF SessionRequests, Session
<1>3. /\ request' \in [Requests -> Request \cup {NULL}]
      /\ \A r \in Requests : At(r, "session")' => request'[r] = request[r]
  BY Ending DEF CreateSession, AccountsInv
<1>4. session' = [session EXCEPT ![s] = row] /\ UNCHANGED <<user, apiKey, accessToken, issued>>
  BY DEF CreateSession, Owner
<1>5. user[row.user].password = row.proof /\ user[row.user] # NULL
  BY <1>1 DEF CreateSession, AccountsInv, LoginHoldsProof
<1> HIDE DEF row
<1>6. AccountsTypeOK'
  BY <1>2, <1>3, <1>4 DEF AccountsInv, AccountsTypeOK
<1>7. LoginHoldsProof'
  BY <1>3, <1>4 DEF AccountsInv, LoginHoldsProof, At
<1>8. \A x \in Sessions : session'[x] = IF x = s THEN row ELSE session[x]
  BY <1>4 DEF AccountsInv, AccountsTypeOK
<1>9. CredentialsEndWithAccount' /\ SessionProvesPassword'
  BY <1>4, <1>5, <1>8 DEF AccountsInv, CredentialsEndWithAccount, SessionProvesPassword
<1> QED
  BY <1>4, <1>6, <1>7, <1>9 DEF AccountsInv, Existing, SomeAdminRemains, Admins

LEMMA CreateAccessTokenKeeps ==
    ASSUME AccountsInv, NEW q \in Requests, NEW t \in Tokens, CreateAccessToken(q, t)
    PROVE  AccountsInv'
<1> DEFINE row == [user |-> request[q].user, left |-> AccessTokenTTL]
<1>1. request[q] \in ExchangeRequests /\ user[request[q].user] # NULL
  BY RequestKinds DEF CreateAccessToken, AccountsInv
<1>2. row \in AccessToken /\ user[row.user] # NULL
  BY <1>1, AccountsAssumption DEF ExchangeRequests, AccessToken
<1>3. /\ request' \in [Requests -> Request \cup {NULL}]
      /\ \A r \in Requests : At(r, "session")' => request'[r] = request[r]
  BY Ending DEF CreateAccessToken, AccountsInv
<1>4. accessToken' = [accessToken EXCEPT ![t] = row]
      /\ UNCHANGED <<user, session, apiKey, issued>>
  BY DEF CreateAccessToken
<1> HIDE DEF row
<1>5. AccountsTypeOK'
  BY <1>2, <1>3, <1>4 DEF AccountsInv, AccountsTypeOK
<1>6. LoginHoldsProof'
  BY <1>3, <1>4 DEF AccountsInv, LoginHoldsProof, At
<1>7. \A x \in Tokens : accessToken'[x] = IF x = t THEN row ELSE accessToken[x]
  BY <1>4 DEF AccountsInv, AccountsTypeOK
<1>8. CredentialsEndWithAccount' /\ SessionProvesPassword'
  BY <1>2, <1>4, <1>7 DEF AccountsInv, CredentialsEndWithAccount, SessionProvesPassword
<1> QED
  BY <1>4, <1>5, <1>6, <1>8 DEF AccountsInv, Existing, SomeAdminRemains, Admins

LEMMA SetAPIKeyKeeps ==
    ASSUME AccountsInv, NEW q \in Requests, NEW k \in Keys, SetAPIKey(q, k)
    PROVE  AccountsInv'
<1> DEFINE a == request[q].actor
<1>1. a \in Users /\ user[a] # NULL
  BY RequestKinds DEF SetAPIKey, OnPage, AccountsInv, PageRequests
<1>2. /\ request' \in [Requests -> Request \cup {NULL}]
      /\ \A r \in Requests : At(r, "session")' => request'[r] = request[r]
  BY Ending DEF SetAPIKey, AccountsInv
<1>3. /\ apiKey' = [apiKey EXCEPT ![a] = k] /\ issued' = issued \cup {k}
      /\ UNCHANGED <<user, session, accessToken>>
  BY DEF SetAPIKey, Issue
<1> HIDE DEF a
<1>4. AccountsTypeOK'
  BY <1>1, <1>2, <1>3 DEF AccountsInv, AccountsTypeOK
<1>5. LoginHoldsProof'
  BY <1>2, <1>3 DEF AccountsInv, LoginHoldsProof, At
<1>6. \A v \in Users : apiKey'[v] = IF v = a THEN k ELSE apiKey[v]
  BY <1>1, <1>3 DEF AccountsInv, AccountsTypeOK
<1>7. CredentialsEndWithAccount' /\ SessionProvesPassword'
  BY <1>1, <1>3, <1>6 DEF AccountsInv, CredentialsEndWithAccount, SessionProvesPassword
<1> QED
  BY <1>3, <1>4, <1>5, <1>7 DEF AccountsInv, Existing, SomeAdminRemains, Admins

LEMMA logoutKeeps ==
    ASSUME AccountsInv, NEW s \in Sessions, logout(s)
    PROVE  AccountsInv'
<1>1. AccountsTypeOK'
  BY DEF logout, AccountsInv, AccountsTypeOK
<1>2. LoginHoldsProof'
  BY DEF logout, AccountsInv, LoginHoldsProof, At
<1>3. \A x \in Sessions : session'[x] # NULL => session'[x] = session[x]
  BY DEF logout, AccountsInv, AccountsTypeOK
<1>4. CredentialsEndWithAccount' /\ SessionProvesPassword'
  BY <1>3 DEF logout, AccountsInv, CredentialsEndWithAccount, SessionProvesPassword
<1> QED
  BY <1>1, <1>2, <1>4 DEF logout, AccountsInv, Existing, SomeAdminRemains, Admins

\* Time changes what is left of a row and nothing else of it.
LEMMA TickKeeps ==
    ASSUME AccountsInv, Tick
    PROVE  AccountsInv'
<1> DEFINE Less(row) == IF row # NULL /\ row.left >= 0
                        THEN [row EXCEPT !.left = @ - 1] ELSE row
<1>1. \A row \in Session : Less(row) \in Session /\ Less(row).user = row.user
                           /\ Less(row).proof = row.proof
  BY AccountsAssumption DEF Session
<1>2. \A row \in AccessToken : Less(row) \in AccessToken /\ Less(row).user = row.user
  BY AccountsAssumption DEF AccessToken
<1>3. Less(NULL) = NULL
  OBVIOUS
<1>4. /\ session' = [s \in Sessions |-> Less(session[s])]
      /\ accessToken' = [t \in Tokens |-> Less(accessToken[t])]
      /\ UNCHANGED <<user, apiKey, issued, request>>
  BY DEF Tick
<1> HIDE DEF Less
<1>5. \A s \in Sessions : session'[s] # NULL =>
          session[s] # NULL /\ session'[s].user = session[s].user
          /\ session'[s].proof = session[s].proof
  BY <1>1, <1>3, <1>4 DEF AccountsInv, AccountsTypeOK
<1>6. \A t \in Tokens : accessToken'[t] # NULL =>
          accessToken[t] # NULL /\ accessToken'[t].user = accessToken[t].user
  BY <1>2, <1>3, <1>4 DEF AccountsInv, AccountsTypeOK
<1>7. AccountsTypeOK'
  BY <1>1, <1>2, <1>3, <1>4 DEF AccountsInv, AccountsTypeOK
<1>8. LoginHoldsProof'
  BY <1>4 DEF AccountsInv, LoginHoldsProof, At
<1>9. CredentialsEndWithAccount' /\ SessionProvesPassword'
  BY <1>4, <1>5, <1>6 DEF AccountsInv, CredentialsEndWithAccount, SessionProvesPassword
<1> QED
  BY <1>4, <1>7, <1>8, <1>9 DEF AccountsInv, Existing, SomeAdminRemains, Admins

-----------------------------------------------------------------------------
(* The steps that only start or end a request.                             *)

LEMMA StartKeeps ==
    ASSUME AccountsInv, NEW q \in Requests, NEW r \in Request, r.at # "session",
           Start(q, r), UNCHANGED tables
    PROVE  AccountsInv'
<1>1. request' \in [Requests -> Request \cup {NULL}]
      /\ \A x \in Requests : request'[x] = IF x = q THEN r ELSE request[x]
  BY DEF Start, AccountsInv, AccountsTypeOK
<1> QED  BY <1>1, TablesUnchanged DEF At

LEMMA ArriveKeeps ==
    ASSUME AccountsInv, NEW q \in Requests, Arrive(q)
    PROVE  AccountsInv'
<1>1. CASE \E ip \in IPs, age \in 0..MaxWait : loginSubmit(q, ip, age)
  <2>1. Start(q, [at |-> "verify"]) /\ UNCHANGED tables
    BY <1>1 DEF loginSubmit
  <2> QED  BY <2>1, StartKeeps, KindsAreRequests
<1>2. ASSUME NEW s \in Sessions, NEW minRole \in Roles, requireRole(q, s, minRole)
      PROVE  AccountsInv'
  <2> DEFINE r == [at |-> "page", actor |-> GetSessionUser(s), minRole |-> minRole]
  <2>1. GetSessionUser(s) \in Users
    BY <1>2 DEF requireRole, GetSessionUser, AccountsInv, AccountsTypeOK, Session
  <2>2. r \in Request /\ r.at # "session"
    BY <2>1, KindsAreRequests DEF PageRequests
  <2>3. Start(q, r) /\ UNCHANGED tables
    BY <1>2 DEF requireRole
  <2> QED  BY <2>2, <2>3, StartKeeps
<1>3. ASSUME NEW k \in Keys, requestToken(q, k)
      PROVE  AccountsInv'
  <2>1. PICK u \in Users : Start(q, [at |-> "exchange", user |-> u])
    BY <1>3 DEF requestToken
  <2>2. [at |-> "exchange", user |-> u] \in Request
    BY KindsAreRequests DEF ExchangeRequests
  <2> QED  BY <1>3, <2>1, <2>2, StartKeeps DEF requestToken
<1> QED  BY <1>1, <1>2, <1>3 DEF Arrive

LEMMA ProceedKeeps ==
    ASSUME AccountsInv, NEW q \in Requests, Proceed(q)
    PROVE  AccountsInv'
<1>1. ASSUME NEW u \in Users, NEW name \in Names, NEW password \in Passwords,
             NEW role \in SubmittedRoles, CreateUser(q, u, name, password, role)
      PROVE  AccountsInv'
  <2> DEFINE row == [name |-> name, password |-> password, role |-> role]
  <2>1. row \in User
    BY <1>1 DEF CreateUser, ValidRole, User
  <2>2. user' = [user EXCEPT ![u] = row]
    BY <1>1 DEF CreateUser
  <2>3. /\ request' \in [Requests -> Request \cup {NULL}]
        /\ \A r \in Requests : At(r, "session")' => request'[r] = request[r]
    BY <1>1, Ending DEF CreateUser, AccountsInv
  <2> HIDE DEF row
  <2> QED  BY <1>1, <2>1, <2>2, <2>3, UserCreated DEF CreateUser
<1>2. CASE Respond(q)
  BY <1>2, Ending, TablesUnchanged DEF Respond, AccountsInv
<1> QED
  BY <1>1, <1>2, VerifyLoginKeeps, CreateSessionKeeps, DeleteUserKeeps,
     SetAPIKeyKeeps, CreateAccessTokenKeeps DEF Proceed

LEMMA createadminKeeps ==
    ASSUME AccountsInv, NEW u \in Users, NEW name \in Names, NEW password \in Passwords,
           createadmin(u, name, password)
    PROVE  AccountsInv'
<1> DEFINE row == [name |-> name, password |-> password, role |-> "admin"]
<1>1. row \in User
  BY DEF User, Roles
<1>2. user' = [user EXCEPT ![u] = row]
  BY DEF createadmin
<1>3. /\ request' \in [Requests -> Request \cup {NULL}]
      /\ \A q \in Requests : At(q, "session")' => request'[q] = request[q]
  BY DEF createadmin, AccountsInv, AccountsTypeOK, At
<1> HIDE DEF row
<1> QED  BY <1>1, <1>2, <1>3, UserCreated DEF createadmin

-----------------------------------------------------------------------------
LEMMA AccountsInit == Init => AccountsInv
<1> SUFFICES ASSUME Init
             PROVE  AccountsInv
  OBVIOUS
<1>1. PICK name \in Names, password \in LongEnough :
        user = [u \in Users |-> IF u = FirstAdmin
                THEN [name |-> name, password |-> password, role |-> "admin"] ELSE NULL]
  BY DEF Init
<1> DEFINE row == [name |-> name, password |-> password, role |-> "admin"]
<1>2. row \in User /\ row # NULL /\ row.role = "admin" /\ FirstAdmin \in Users
  BY AccountsAssumption DEF User, Roles
<1>3. user = [u \in Users |-> IF u = FirstAdmin THEN row ELSE NULL]
  BY <1>1
<1> HIDE DEF row
<1>4. AccountsTypeOK
  BY <1>2, <1>3 DEF Init, AccountsTypeOK
<1>5. Existing = {FirstAdmin}
  BY <1>2, <1>3 DEF Existing
<1>6. FirstAdmin \in Admins
  BY <1>2, <1>3 DEF Admins
<1>7. IsFiniteSet(Existing)
  BY <1>5, FS_Singleton
<1>8. \A u \in Users : user[u] # NULL => u \in issued
  BY <1>2, <1>3 DEF Init
<1>9. LoginHoldsProof
  BY DEF Init, LoginHoldsProof, At
<1>10. CredentialsEndWithAccount /\ SessionProvesPassword
  BY DEF Init, CredentialsEndWithAccount, SessionProvesPassword
<1> QED  BY <1>4, <1>6, <1>7, <1>8, <1>9, <1>10 DEF AccountsInv, SomeAdminRemains

LEMMA AccountsStep == AccountsInv /\ [Next]_vars => AccountsInv'
<1> SUFFICES ASSUME AccountsInv, [Next]_vars
             PROVE  AccountsInv'
  OBVIOUS
<1>1. CASE UNCHANGED <<tables, request>>
  <2>1. request' \in [Requests -> Request \cup {NULL}]
    BY <1>1 DEF AccountsInv, AccountsTypeOK
  <2> QED  BY <1>1, <2>1, TablesUnchanged
<1>2. ASSUME NEW ip \in IPs, NEW age \in 0..MaxWait, loginThrottled(ip, age)
      PROVE  UNCHANGED <<tables, request>>
  BY <1>2 DEF loginThrottled
<1>3. CASE UNCHANGED vars
  BY <1>1, <1>3 DEF vars
<1> QED
  BY <1>1, <1>2, <1>3, ArriveKeeps, ProceedKeeps, logoutKeeps, createadminKeeps,
     TickKeeps DEF Next

(* The inductive invariant holds in every state that the accounts reach.   *)
THEOREM AccountsInvariant == Spec => []AccountsInv
<1> QED  BY AccountsInit, AccountsStep, PTL DEF Spec

(* Somebody can always administer the server (DeleteUser counts the        *)
(* administrators in the transaction that deletes one), for any number of  *)
(* administrators who delete each other at the same time.                  *)
THEOREM SomeAdminRemainsHolds == Spec => []SomeAdminRemains
<1>1. AccountsInv => SomeAdminRemains
  BY DEF AccountsInv
<1> QED  BY <1>1, AccountsInvariant, PTL

(* No session, API key or access token outlives its account (the foreign   *)
(* keys of 0002_users_auth.sql and 0009_token.sql), even one that was      *)
(* being issued when the account was deleted.                              *)
THEOREM CredentialsEndWithAccountHolds == Spec => []CredentialsEndWithAccount
<1>1. AccountsInv => CredentialsEndWithAccount
  BY DEF AccountsInv
<1> QED  BY <1>1, AccountsInvariant, PTL

(* A session is for the account whose password was given at login          *)
(* (loginSubmit verifies first and creates the session later, by UUID).    *)
THEOREM SessionProvesPasswordHolds == Spec => []SessionProvesPassword
<1>1. AccountsInv => SessionProvesPassword
  BY DEF AccountsInv
<1> QED  BY <1>1, AccountsInvariant, PTL

-----------------------------------------------------------------------------
(* Induction over the natural numbers, for sets.                           *)

LEMMA LeastNatural ==
    ASSUME NEW T \in SUBSET Nat, T # {}
    PROVE  \E n \in T : \A m \in T : n <= m
<1>1. PICK n \in T : \A m \in T : <<m, n>> \notin {p \in Nat \X Nat : p[1] < p[2]}
  BY NatLessThanWellFounded, WFMin DEF OpToRel
<1>2. ASSUME NEW m \in T PROVE n <= m
  <2>1. m \in Nat /\ n \in Nat
    OBVIOUS
  <2>2. ~(m < n)
    BY <1>1, <2>1
  <2> QED  BY <2>1, <2>2
<1> QED  BY <1>2

LEMMA NaturalsByInduction ==
    ASSUME NEW S, 0 \in S, \A n \in Nat : n \in S => n + 1 \in S
    PROVE  Nat \subseteq S
<1>1. SUFFICES ASSUME Nat \ S # {} PROVE FALSE
  OBVIOUS
<1>2. PICK n \in Nat \ S : \A m \in Nat \ S : n <= m
  BY <1>1, LeastNatural
<1>3. n # 0 /\ n - 1 \in Nat
  BY <1>2
<1>4. n - 1 \in S
  BY <1>2, <1>3
<1> QED  BY <1>2, <1>3, <1>4

-----------------------------------------------------------------------------
(* The loop that drops old instants.                                       *)

\* What the loop has kept after i instants, for i up to n.
Runs(f, ages, limit, n) ==
    f = [i \in 0..n |->
            IF i = 0 THEN <<>>
            ELSE IF ages[i] < limit THEN Append(f[i - 1], ages[i]) ELSE f[i - 1]]

LEMMA LoopRuns ==
    ASSUME NEW ages, NEW limit
    PROVE  \A n \in Nat : \E f : Runs(f, ages, limit, n)
<1> DEFINE S == {n \in Nat : \E f : Runs(f, ages, limit, n)}
<1>1. 0 \in S
  <2> DEFINE f == [i \in 0..0 |-> <<>>]
  <2>1. Runs(f, ages, limit, 0)
    BY DEF Runs
  <2> QED  BY <2>1
<1>2. ASSUME NEW n \in Nat, n \in S PROVE n + 1 \in S
  <2>1. PICK f : Runs(f, ages, limit, n)
    BY <1>2
  <2> DEFINE last == IF ages[n + 1] < limit THEN Append(f[n], ages[n + 1]) ELSE f[n]
             g == [i \in 0..n + 1 |-> IF i = n + 1 THEN last ELSE f[i]]
  <2> HIDE DEF last
  <2>2. g[n + 1] = last /\ \A i \in 0..n : g[i] = f[i]
    OBVIOUS
  <2>3. \A i \in 0..n : f[i] = IF i = 0 THEN <<>>
            ELSE IF ages[i] < limit THEN Append(f[i - 1], ages[i]) ELSE f[i - 1]
    BY <2>1 DEF Runs
  <2>4. \A i \in 0..n : g[i] = IF i = 0 THEN <<>>
            ELSE IF ages[i] < limit THEN Append(g[i - 1], ages[i]) ELSE g[i - 1]
    BY <2>2, <2>3
  <2>5. g[n + 1] = IF ages[n + 1] < limit THEN Append(g[n + 1 - 1], ages[n + 1]) ELSE g[n + 1 - 1]
    BY <2>2 DEF last
  <2>6. \A i \in 0..n + 1 : i \in 0..n \/ (i = n + 1 /\ i # 0)
    OBVIOUS
  <2>7. g = [i \in 0..n + 1 |-> g[i]]
    OBVIOUS
  <2> HIDE DEF g
  <2>8. \A i \in 0..n + 1 : g[i] = IF i = 0 THEN <<>>
            ELSE IF ages[i] < limit THEN Append(g[i - 1], ages[i]) ELSE g[i - 1]
    BY <2>4, <2>5, <2>6
  <2>9. Runs(g, ages, limit, n + 1)
    BY <2>7, <2>8 DEF Runs
  <2> QED  BY <2>9
<1> HIDE DEF S
<1>3. Nat \subseteq S
  BY <1>1, <1>2, NaturalsByInduction
<1> QED  BY <1>3 DEF S

LEMMA YoungerIsLoop ==
    ASSUME NEW ages, NEW limit, Len(ages) \in Nat
    PROVE  \E f : Runs(f, ages, limit, Len(ages)) /\ Younger(ages, limit) = f[Len(ages)]
<1>1. \E f : Runs(f, ages, limit, Len(ages))
  BY LoopRuns
<1> DEFINE f == CHOOSE f : Runs(f, ages, limit, Len(ages))
<1>2. Runs(f, ages, limit, Len(ages))
  BY <1>1
<1>3. Younger(ages, limit) = f[Len(ages)]
  BY DEF Younger, Runs
<1> QED  BY <1>2, <1>3
\* The turns of the loop, one by one.
Turns(f, ages, limit, n) ==
    /\ f[0] = <<>>
    /\ \A i \in 0..n - 1 :
         f[i + 1] = IF ages[i + 1] < limit THEN Append(f[i], ages[i + 1]) ELSE f[i]

LEMMA LoopTurns ==
    ASSUME NEW ages, NEW limit, Len(ages) \in Nat
    PROVE  \E f : Turns(f, ages, limit, Len(ages)) /\ Younger(ages, limit) = f[Len(ages)]
<1>1. PICK f : Runs(f, ages, limit, Len(ages)) /\ Younger(ages, limit) = f[Len(ages)]
  BY YoungerIsLoop
<1> DEFINE n == Len(ages)
<1>2. \A i \in 0..n : f[i] = IF i = 0 THEN <<>>
            ELSE IF ages[i] < limit THEN Append(f[i - 1], ages[i]) ELSE f[i - 1]
  BY <1>1 DEF Runs
<1>3. \A i \in 0..n - 1 : i + 1 \in 0..n /\ i + 1 # 0 /\ i + 1 - 1 = i
  OBVIOUS
<1>4. Turns(f, ages, limit, n)
  BY <1>2, <1>3 DEF Turns
<1> QED  BY <1>1, <1>4

\* y ends with the first t of the last m instants.
EndsWith(y, ages, m, t) ==
    /\ t <= Len(y)
    /\ \A k \in 1..t : y[Len(y) - t + k] = ages[Len(ages) - m + k]

\* Instants at the end that are all after the cutoff stay, at the end.
LEMMA YoungerKeepsTail ==
    ASSUME NEW S \in SUBSET Int, NEW ages \in Seq(S), NEW limit, NEW m \in 0..Len(ages),
           \A k \in 1..m : ages[Len(ages) - m + k] < limit
    PROVE  /\ Younger(ages, limit) \in Seq(S) /\ Len(Younger(ages, limit)) <= Len(ages)
           /\ EndsWith(Younger(ages, limit), ages, m, m)
<1> DEFINE n == Len(ages)
<1>1. n \in Nat /\ m \in 0..n /\ \A i \in 1..n : ages[i] \in S
  OBVIOUS
<1>2. PICK f : Turns(f, ages, limit, n) /\ Younger(ages, limit) = f[n]
  BY <1>1, LoopTurns
<1> DEFINE Good(i) == /\ f[i] \in Seq(S) /\ Len(f[i]) <= i
                      /\ EndsWith(f[i], ages, m, i - (n - m))
<1>3. Good(0)
  <2>1. f[0] \in Seq(S) /\ Len(f[0]) = 0
    BY <1>2 DEF Turns
  <2>2. 0 - (n - m) <= 0
    BY <1>1
  <2> QED  BY <1>1, <2>1, <2>2 DEF EndsWith
<1>4. ASSUME NEW i \in Nat, i + 1 <= n, Good(i) PROVE Good(i + 1)
  <2> DEFINE a == f[i]  b == f[i + 1]  t == i - (n - m)
  <2>1. i \in 0..n - 1 /\ i + 1 \in 1..n /\ t \in Int /\ i + 1 - (n - m) = t + 1
    BY <1>1, <1>4
  <2>2. ages[i + 1] \in S /\ a \in Seq(S) /\ Len(a) \in Nat /\ Len(a) <= i /\ EndsWith(a, ages, m, t)
    BY <1>1, <1>4, <2>1
  <2>3. b = IF ages[i + 1] < limit THEN Append(a, ages[i + 1]) ELSE a
    BY <1>2, <2>1 DEF Turns
  <2>4. SUFFICES b \in Seq(S) /\ Len(b) <= i + 1 /\ EndsWith(b, ages, m, t + 1)
    BY <2>1
  <2>5. n - m + (t + 1) = i + 1
    BY <1>1
  <2> HIDE DEF a, b, t, n
  <2>6. CASE ages[i + 1] < limit
    <3>1. b \in Seq(S) /\ Len(b) = Len(a) + 1 /\ b[Len(a) + 1] = ages[i + 1]
          /\ \A k \in 1..Len(a) : b[k] = a[k]
      BY <2>2, <2>3, <2>6
    <3>2. ASSUME NEW k \in 1..t + 1
          PROVE  b[Len(b) - (t + 1) + k] = ages[n - m + k]
      <4>1. Len(b) - (t + 1) + k = Len(a) - t + k
        BY <2>1, <2>2, <3>1
      <4>2. CASE k = t + 1
        <5>1. Len(a) - t + k = Len(a) + 1
          BY <2>1, <2>2, <4>2
        <5> QED  BY <2>5, <3>1, <4>1, <4>2, <5>1
      <4>3. CASE k # t + 1
        <5>1. k \in 1..t
          BY <2>1, <4>3
        <5>2. t <= Len(a) /\ a[Len(a) - t + k] = ages[n - m + k]
          BY <2>2, <5>1 DEF EndsWith, n
        <5>3. Len(a) - t + k \in 1..Len(a)
          BY <2>1, <2>2, <5>1, <5>2
        <5> QED  BY <3>1, <4>1, <5>2, <5>3
      <4> QED  BY <4>2, <4>3
    <3>3. t + 1 <= Len(b) /\ Len(b) <= i + 1
      BY <2>1, <2>2, <3>1 DEF EndsWith
    <3> QED  BY <3>1, <3>2, <3>3 DEF EndsWith, n
  <2>7. CASE ~(ages[i + 1] < limit)
    <3>1. t + 1 < 1
      <4>1. SUFFICES ASSUME t + 1 >= 1 PROVE FALSE
        BY <2>1
      <4>2. t + 1 \in 1..m
        BY <1>1, <2>1, <2>5, <4>1 DEF n
      <4> QED  BY <2>5, <2>7, <4>2 DEF n
    <3>2. b = a
      BY <2>3, <2>7
    <3>3. t + 1 <= Len(b) /\ 1..t + 1 = {}
      BY <2>1, <2>2, <3>1, <3>2
    <3> QED  BY <2>1, <2>2, <3>2, <3>3 DEF EndsWith
  <2> QED  BY <2>6, <2>7
<1> HIDE DEF Good, n
<1>5. Nat \subseteq {i \in Nat : i <= n => Good(i)}
  <2> DEFINE G == {i \in Nat : i <= n => Good(i)}
  <2>1. 0 \in G
    BY <1>3
  <2>2. ASSUME NEW i \in Nat, i \in G PROVE i + 1 \in G
    BY <1>1, <1>4, <2>2
  <2> HIDE DEF G
  <2>3. Nat \subseteq G
    BY <2>1, <2>2, NaturalsByInduction
  <2> QED  BY <2>3 DEF G
<1>6. Good(n) /\ n - (n - m) = m
  BY <1>1, <1>5
<1> QED  BY <1>2, <1>6 DEF n, Good

\* y is the end of the first i instants.
IsEnd(y, ages, i, limit) ==
    \A k \in 1..Len(y) : y[k] = ages[i - Len(y) + k] /\ y[k] < limit

\* Of instants in the order of time, what is after the cutoff is the end.
LEMMA YoungerOfFalling ==
    ASSUME NEW S \in SUBSET Int, NEW ages \in Seq(S), NEW limit \in Int,
           \A j, k \in 1..Len(ages) : j <= k => ages[k] <= ages[j]
    PROVE  /\ Younger(ages, limit) \in Seq(S) /\ Len(Younger(ages, limit)) <= Len(ages)
           /\ IsEnd(Younger(ages, limit), ages, Len(ages), limit)
<1> DEFINE n == Len(ages)
<1>1. n \in Nat /\ \A i \in 1..n : ages[i] \in S
  OBVIOUS
<1>2. PICK f : Turns(f, ages, limit, n) /\ Younger(ages, limit) = f[n]
  BY <1>1, LoopTurns
<1> DEFINE Good(i) == f[i] \in Seq(S) /\ Len(f[i]) <= i /\ IsEnd(f[i], ages, i, limit)
<1>3. Good(0)
  <2>1. f[0] \in Seq(S) /\ Len(f[0]) = 0
    BY <1>2 DEF Turns
  <2> QED  BY <2>1 DEF IsEnd
<1>4. ASSUME NEW i \in Nat, i + 1 <= n, Good(i) PROVE Good(i + 1)
  <2> DEFINE a == f[i]  b == f[i + 1]
  <2>1. i \in 0..n - 1 /\ i + 1 \in 1..n
    BY <1>1, <1>4
  <2>2. ages[i + 1] \in S /\ a \in Seq(S) /\ Len(a) \in Nat /\ Len(a) <= i /\ IsEnd(a, ages, i, limit)
    BY <1>1, <1>4, <2>1
  <2>3. b = IF ages[i + 1] < limit THEN Append(a, ages[i + 1]) ELSE a
    BY <1>2, <2>1 DEF Turns
  <2>4. SUFFICES b \in Seq(S) /\ Len(b) <= i + 1 /\ IsEnd(b, ages, i + 1, limit)
    OBVIOUS
  <2> HIDE DEF a, b
  <2>5. CASE ages[i + 1] < limit
    <3>1. b \in Seq(S) /\ Len(b) = Len(a) + 1 /\ b[Len(a) + 1] = ages[i + 1]
          /\ \A k \in 1..Len(a) : b[k] = a[k]
      BY <2>2, <2>3, <2>5
    <3>2. ASSUME NEW k \in 1..Len(b)
          PROVE  b[k] = ages[i + 1 - Len(b) + k] /\ b[k] < limit
      <4>1. CASE k = Len(b)
        <5>1. i + 1 - Len(b) + k = i + 1 /\ k = Len(a) + 1
          BY <2>2, <3>1, <4>1
        <5> QED  BY <2>5, <3>1, <5>1
      <4>2. CASE k # Len(b)
        <5>1. k \in 1..Len(a) /\ i + 1 - Len(b) + k = i - Len(a) + k
          BY <2>2, <3>1, <4>2
        <5>2. a[k] = ages[i - Len(a) + k] /\ a[k] < limit
          BY <2>2, <5>1 DEF IsEnd
        <5> QED  BY <3>1, <5>1, <5>2
      <4> QED  BY <4>1, <4>2
    <3> QED  BY <2>2, <3>1, <3>2 DEF IsEnd
  <2>6. CASE ~(ages[i + 1] < limit)
    <3>1. Len(a) = 0
      <4>1. SUFFICES ASSUME Len(a) # 0 PROVE FALSE
        OBVIOUS
      <4>2. Len(a) \in 1..Len(a) /\ i - Len(a) + Len(a) = i /\ i \in 1..n
        BY <1>1, <2>1, <2>2, <4>1
      <4>3. ages[i] < limit
        BY <2>2, <4>2 DEF IsEnd
      <4>4. ages[i + 1] <= ages[i]
        BY <1>1, <2>1, <4>2
      <4>5. ages[i] \in Int /\ ages[i + 1] \in Int
        BY <1>1, <2>1, <4>2
      <4> QED  BY <2>6, <4>3, <4>4, <4>5
    <3>2. b = a
      BY <2>3, <2>6
    <3> QED  BY <2>2, <3>1, <3>2 DEF IsEnd
  <2> QED  BY <2>5, <2>6
<1> HIDE DEF Good, n
<1>5. Nat \subseteq {i \in Nat : i <= n => Good(i)}
  <2> DEFINE G == {i \in Nat : i <= n => Good(i)}
  <2>1. 0 \in G
    BY <1>3
  <2>2. ASSUME NEW i \in Nat, i \in G PROVE i + 1 \in G
    BY <1>1, <1>4, <2>2
  <2> HIDE DEF G
  <2>3. Nat \subseteq G
    BY <2>1, <2>2, NaturalsByInduction
  <2> QED  BY <2>3 DEF G
<1>6. Good(n)
  BY <1>1, <1>5
<1> QED  BY <1>2, <1>6 DEF n, Good

-----------------------------------------------------------------------------
(* Every call that was let in still has its reading among the attempts.    *)

\* The calls that were let in are the latest of the attempts, in their order:
\* a reading of the clock is older than its call by at most the wait.
Paired(g, a) ==
    /\ g \in Seq(0..Window) /\ a \in Seq(0..MaxAge)
    /\ Len(g) <= Len(a) /\ Len(a) <= Limit
    /\ \A k \in 1..Len(g) : a[Len(a) - Len(g) + k] <= g[k] + MaxWait /\ g[k] < Window - MaxWait
    /\ \A j, k \in 1..Len(g) : j <= k => g[k] <= g[j]

LEMMA SeqElement ==
    ASSUME NEW S, NEW s \in Seq(S), NEW k \in 1..Len(s)
    PROVE  s[k] \in S
  OBVIOUS

LEMMA PairedEmpty == Paired(<<>>, <<>>)
  BY LimiterAssumption DEF Paired, MaxAge

\* Forgetting what is outside the window of a caller forgets nobody let in.
LEMMA PairedYounger ==
    ASSUME NEW g, NEW a, Paired(g, a), NEW age \in 0..MaxWait
    PROVE  Paired(g, Younger(a, Cutoff(age)))
<1> DEFINE m == Len(g)  y == Younger(a, Cutoff(age))  n == Len(a)
<1>1. m \in Nat /\ n \in Nat /\ m \in 0..n /\ Cutoff(age) = age + Window /\ 0..MaxAge \in SUBSET Int
  BY LimiterAssumption DEF Paired, Cutoff, MaxAge
<1>2. ASSUME NEW k \in 1..m PROVE a[n - m + k] < Cutoff(age)
  <2>1. a[n - m + k] <= g[k] + MaxWait /\ g[k] < Window - MaxWait
    BY DEF Paired
  <2>4. g[k] \in 0..Window
    BY SeqElement DEF Paired
  <2>2. n - m + k \in 1..n
    BY <1>1
  <2>3. a[n - m + k] \in 0..MaxAge
    BY <2>2, SeqElement DEF Paired
  <2> HIDE DEF m, n
  <2> QED  BY <1>1, <2>1, <2>3, <2>4, LimiterAssumption DEF MaxAge
<1>3. y \in Seq(0..MaxAge) /\ Len(y) <= n /\ EndsWith(y, a, m, m)
  <2>1. a \in Seq(0..MaxAge)
    BY DEF Paired
  <2> QED  BY <1>1, <1>2, <2>1, YoungerKeepsTail
<1>4. Len(y) \in Nat
  BY <1>3
<1>5. Len(y) <= Limit /\ m <= Len(y)
  BY <1>1, <1>3, <1>4, LimiterAssumption DEF Paired, EndsWith
<1>6. \A k \in 1..m : y[Len(y) - m + k] = a[n - m + k]
  BY <1>3 DEF EndsWith
<1> QED  BY <1>3, <1>5, <1>6 DEF Paired

\* A call that is let in adds to both.
LEMMA PairedAppend ==
    ASSUME NEW g, NEW a, Paired(g, a), NEW age \in 0..MaxWait, Len(a) < Limit
    PROVE  Paired(Append(g, 0), Append(a, age))
<1> DEFINE h == Append(g, 0)  b == Append(a, age)
<1>1. /\ Window \in Nat /\ MaxWait \in Nat /\ MaxWait < Window /\ Limit \in Nat
      /\ age \in 0..MaxAge /\ 0 \in 0..Window
  BY LimiterAssumption DEF MaxAge
<1>2. /\ g \in Seq(0..Window) /\ a \in Seq(0..MaxAge) /\ Len(g) \in Nat /\ Len(a) \in Nat
      /\ Len(g) <= Len(a)
  BY DEF Paired
<1>3. /\ h \in Seq(0..Window) /\ Len(h) = Len(g) + 1 /\ h[Len(g) + 1] = 0
      /\ \A k \in 1..Len(g) : h[k] = g[k]
  BY <1>1, <1>2
<1>4. /\ b \in Seq(0..MaxAge) /\ Len(b) = Len(a) + 1 /\ b[Len(a) + 1] = age
      /\ \A k \in 1..Len(a) : b[k] = a[k]
  BY <1>1, <1>2
<1> HIDE DEF h, b
<1>5. ASSUME NEW k \in 1..Len(h)
      PROVE  b[Len(b) - Len(h) + k] <= h[k] + MaxWait /\ h[k] < Window - MaxWait
  <2>1. CASE k = Len(g) + 1
    <3>1. Len(b) - Len(h) + k = Len(a) + 1
      BY <1>2, <1>3, <1>4, <2>1
    <3> QED  BY <1>1, <1>3, <1>4, <2>1, <3>1
  <2>2. CASE k # Len(g) + 1
    <3>1. k \in 1..Len(g) /\ Len(b) - Len(h) + k = Len(a) - Len(g) + k
          /\ Len(a) - Len(g) + k \in 1..Len(a)
      BY <1>2, <1>3, <1>4, <2>2
    <3>2. a[Len(a) - Len(g) + k] <= g[k] + MaxWait /\ g[k] < Window - MaxWait
      BY <3>1 DEF Paired
    <3> QED  BY <1>3, <1>4, <3>1, <3>2
  <2> QED  BY <2>1, <2>2
<1>6. ASSUME NEW j \in 1..Len(h), NEW k \in 1..Len(h), j <= k PROVE h[k] <= h[j]
  <2>1. h[j] \in 0..Window
    BY <1>3, SeqElement
  <2>2. CASE k = Len(g) + 1
    BY <1>1, <1>3, <2>1, <2>2
  <2>3. CASE k # Len(g) + 1
    <3>1. k \in 1..Len(g) /\ j \in 1..Len(g)
      BY <1>2, <1>3, <1>6, <2>3
    <3>2. g[k] <= g[j]
      BY <1>6, <3>1 DEF Paired
    <3> QED  BY <1>3, <3>1, <3>2
  <2> QED  BY <2>2, <2>3
<1>7. Len(h) <= Len(b) /\ Len(b) <= Limit
  BY <1>1, <1>2, <1>3, <1>4
<1>8. Paired(h, b)
  BY <1>3, <1>4, <1>5, <1>6, <1>7 DEF Paired
<1> QED  BY <1>8 DEF h, b

LEMMA OlderType ==
    ASSUME NEW oldest \in Nat, NEW s \in Seq(0..oldest)
    PROVE  /\ Older(s, oldest) \in Seq(0..oldest) /\ Len(Older(s, oldest)) = Len(s)
           /\ \A k \in 1..Len(s) : /\ Older(s, oldest)[k] = IF s[k] < oldest THEN s[k] + 1 ELSE oldest
                                   /\ s[k] \in 0..oldest
<1>1. DOMAIN s = 1..Len(s) /\ Len(s) \in Nat /\ \A k \in 1..Len(s) : s[k] \in 0..oldest
  OBVIOUS
<1>2. Older(s, oldest) = [k \in 1..Len(s) |-> IF s[k] < oldest THEN s[k] + 1 ELSE oldest]
  BY <1>1 DEF Older
<1>3. \A k \in 1..Len(s) : (IF s[k] < oldest THEN s[k] + 1 ELSE oldest) \in 0..oldest
  BY <1>1
<1>4. Older(s, oldest) \in [1..Len(s) -> 0..oldest]
  BY <1>2, <1>3
<1>5. Older(s, oldest) \in Seq(0..oldest) /\ Len(Older(s, oldest)) = Len(s)
  BY <1>1, <1>4
<1> QED  BY <1>1, <1>2, <1>5

\* When time passes, the history forgets from its beginning.
LEMMA PairedTick ==
    ASSUME NEW g, NEW a, Paired(g, a)
    PROVE  Paired(Younger(Older(g, Window), Window - MaxWait), Older(a, MaxAge))
<1> DEFINE o == Older(g, Window)  y == Younger(o, Window - MaxWait)  b == Older(a, MaxAge)
<1>1. /\ Window \in Nat /\ MaxWait \in Nat /\ MaxWait < Window /\ Limit \in Nat
      /\ MaxAge = Window + MaxWait /\ MaxAge \in Nat /\ Window - MaxWait \in Int
  BY LimiterAssumption DEF MaxAge
<1>2. /\ g \in Seq(0..Window) /\ a \in Seq(0..MaxAge) /\ Len(g) \in Nat /\ Len(a) \in Nat
      /\ Len(g) <= Len(a) /\ Len(a) <= Limit
  BY DEF Paired
<1>3. /\ o \in Seq(0..Window) /\ Len(o) = Len(g)
      /\ \A k \in 1..Len(g) : o[k] = (IF g[k] < Window THEN g[k] + 1 ELSE Window) /\ g[k] \in 0..Window
  BY <1>1, <1>2, OlderType
<1>4. /\ b \in Seq(0..MaxAge) /\ Len(b) = Len(a)
      /\ \A k \in 1..Len(a) : b[k] = (IF a[k] < MaxAge THEN a[k] + 1 ELSE MaxAge) /\ a[k] \in 0..MaxAge
  BY <1>1, <1>2, OlderType
<1>5. ASSUME NEW k \in 1..Len(g) PROVE o[k] = g[k] + 1 /\ g[k] \in Nat
  <2>1. g[k] < Window - MaxWait /\ g[k] \in 0..Window
    BY <1>3 DEF Paired
  <2>2. g[k] < Window
    BY <1>1, <2>1
  <2> QED  BY <1>3, <2>1, <2>2
<1> HIDE DEF o, b
<1>6. ASSUME NEW j \in 1..Len(o), NEW k \in 1..Len(o), j <= k PROVE o[k] <= o[j]
  <2>1. g[k] <= g[j]
    BY <1>3, <1>6 DEF Paired
  <2> QED  BY <1>3, <1>5, <2>1
<1>7. y \in Seq(0..Window) /\ Len(y) <= Len(g) /\ IsEnd(y, o, Len(g), Window - MaxWait)
  <2>1. 0..Window \in SUBSET Int
    OBVIOUS
  <2> QED  BY <1>1, <1>3, <1>6, <2>1, YoungerOfFalling
<1> HIDE DEF y
<1>8. Len(y) \in Nat
  BY <1>7
<1>9. ASSUME NEW k \in 1..Len(y)
      PROVE  /\ Len(g) - Len(y) + k \in 1..Len(g)
             /\ y[k] = o[Len(g) - Len(y) + k] /\ y[k] < Window - MaxWait
  BY <1>2, <1>7, <1>8 DEF IsEnd
<1>10. ASSUME NEW k \in 1..Len(y) PROVE b[Len(b) - Len(y) + k] <= y[k] + MaxWait
  <2> DEFINE i == Len(g) - Len(y) + k  p == Len(a) - Len(g) + i
  <2>1. i \in 1..Len(g) /\ p \in 1..Len(a) /\ Len(b) - Len(y) + k = p
    BY <1>2, <1>4, <1>8, <1>9
  <2>2. a[p] <= g[i] + MaxWait
    BY <2>1 DEF Paired
  <2>3. y[k] = g[i] + 1 /\ g[i] \in Nat
    BY <1>5, <1>9, <2>1
  <2> HIDE DEF i, p
  <2>4. b[p] <= a[p] + 1 /\ a[p] \in Int /\ b[p] \in Int
    BY <1>1, <1>4, <2>1
  <2>5. b[p] <= g[i] + 1 + MaxWait
    BY <1>1, <2>2, <2>3, <2>4
  <2> QED  BY <2>1, <2>3, <2>5
<1>11. ASSUME NEW j \in 1..Len(y), NEW k \in 1..Len(y), j <= k PROVE y[k] <= y[j]
  <2> DEFINE jj == Len(g) - Len(y) + j  kk == Len(g) - Len(y) + k
  <2>1. jj \in 1..Len(o) /\ kk \in 1..Len(o) /\ jj <= kk
    BY <1>2, <1>3, <1>8, <1>9, <1>11
  <2>2. y[j] = o[jj] /\ y[k] = o[kk]
    BY <1>9
  <2> HIDE DEF jj, kk
  <2> QED  BY <1>6, <2>1, <2>2
<1>12. Len(y) <= Len(b)
  BY <1>2, <1>4, <1>7, <1>8
<1>13. Paired(y, b)
  BY <1>2, <1>4, <1>7, <1>9, <1>10, <1>11, <1>12 DEF Paired
<1> QED  BY <1>13 DEF y, b, o

\* The inductive invariant of the limiter.
LimiterInv ==
    /\ attempts \in [IPs -> Seq(0..MaxAge)]
    /\ granted \in [IPs -> Seq(0..Window)]
    /\ \A ip \in IPs : Paired(granted[ip], attempts[ip])

LEMMA LimiterInvInit ==
    ASSUME LimiterInit PROVE LimiterInv
<1>1. <<>> \in Seq(0..MaxAge) /\ <<>> \in Seq(0..Window)
  OBVIOUS
<1> QED  BY <1>1, PairedEmpty DEF LimiterInit, LimiterInv

\* The map is cleared together with the history.
LEMMA ClearedPaired ==
    ASSUME LimiterInv
    PROVE  /\ Cleared(attempts) \in [IPs -> Seq(0..MaxAge)]
           /\ Cleared(granted) \in [IPs -> Seq(0..Window)]
           /\ \A ip \in IPs : Paired(Cleared(granted)[ip], Cleared(attempts)[ip])
<1>1. CASE Full
  <2>1. Cleared(attempts) = [ip \in IPs |-> <<>>] /\ Cleared(granted) = [ip \in IPs |-> <<>>]
    BY <1>1 DEF Cleared
  <2>2. <<>> \in Seq(0..MaxAge) /\ <<>> \in Seq(0..Window)
    OBVIOUS
  <2> QED  BY <2>1, <2>2, PairedEmpty
<1>2. CASE ~Full
  BY <1>2 DEF Cleared, LimiterInv
<1> QED  BY <1>1, <1>2

LEMMA KeptPaired ==
    ASSUME LimiterInv, NEW ip \in IPs, NEW age \in 0..MaxWait
    PROVE  Paired(Cleared(granted)[ip], kept(ip, age))
  BY ClearedPaired, PairedYounger DEF kept

LEMMA AllowKeeps ==
    ASSUME LimiterInv, NEW ip \in IPs, NEW age \in 0..MaxWait, Allow(ip, age)
    PROVE  LimiterInv'
<1> DEFINE ca == Cleared(attempts)  cg == Cleared(granted)  a == kept(ip, age)
<1>1. /\ ca \in [IPs -> Seq(0..MaxAge)] /\ cg \in [IPs -> Seq(0..Window)]
      /\ \A q \in IPs : Paired(cg[q], ca[q])
  BY ClearedPaired
<1>2. attempts' = [ca EXCEPT ![ip] = Append(a, age)] /\ granted' = [cg EXCEPT ![ip] = Append(@, 0)]
      /\ Len(a) < Limit
  BY DEF Allow, Admits
<1>3. Paired(Append(cg[ip], 0), Append(a, age))
  BY <1>2, KeptPaired, PairedAppend
<1>4. Append(cg[ip], 0) \in Seq(0..Window) /\ Append(a, age) \in Seq(0..MaxAge)
  BY <1>3 DEF Paired
<1> HIDE DEF ca, cg, a
<1>5. /\ attempts' \in [IPs -> Seq(0..MaxAge)] /\ granted' \in [IPs -> Seq(0..Window)]
      /\ \A q \in IPs : /\ attempts'[q] = IF q = ip THEN Append(a, age) ELSE ca[q]
                        /\ granted'[q] = IF q = ip THEN Append(cg[ip], 0) ELSE cg[q]
  BY <1>1, <1>2, <1>4
<1>6. \A q \in IPs : Paired(granted'[q], attempts'[q])
  BY <1>1, <1>3, <1>5
<1> QED  BY <1>5, <1>6 DEF LimiterInv, Paired, MaxAge

LEMMA RefuseKeeps ==
    ASSUME LimiterInv, NEW ip \in IPs, NEW age \in 0..MaxWait, Refuse(ip, age)
    PROVE  LimiterInv'
<1> DEFINE ca == Cleared(attempts)  cg == Cleared(granted)  a == kept(ip, age)
<1>1. /\ ca \in [IPs -> Seq(0..MaxAge)] /\ cg \in [IPs -> Seq(0..Window)]
      /\ \A q \in IPs : Paired(cg[q], ca[q])
  BY ClearedPaired
<1>2. attempts' = [ca EXCEPT ![ip] = a] /\ granted' = cg
  BY DEF Refuse
<1>3. Paired(cg[ip], a)
  BY KeptPaired
<1>4. a \in Seq(0..MaxAge)
  BY <1>3 DEF Paired
<1> HIDE DEF ca, cg, a
<1>5. /\ attempts' \in [IPs -> Seq(0..MaxAge)] /\ granted' \in [IPs -> Seq(0..Window)]
      /\ \A q \in IPs : attempts'[q] = IF q = ip THEN a ELSE ca[q]
  BY <1>1, <1>2, <1>4
<1>6. \A q \in IPs : Paired(granted'[q], attempts'[q])
  BY <1>1, <1>2, <1>3, <1>5
<1> QED  BY <1>5, <1>6 DEF LimiterInv, Paired, MaxAge

LEMMA LimiterTickKeeps ==
    ASSUME LimiterInv, LimiterTick
    PROVE  LimiterInv'
<1>1. ASSUME NEW ip \in IPs
      PROVE  /\ Paired(granted'[ip], attempts'[ip])
             /\ granted'[ip] \in Seq(0..Window) /\ attempts'[ip] \in Seq(0..MaxAge)
  <2>1. Paired(granted[ip], attempts[ip])
    BY DEF LimiterInv
  <2>2. granted'[ip] = Younger(Older(granted[ip], Window), Window - MaxWait)
        /\ attempts'[ip] = Older(attempts[ip], MaxAge)
    BY DEF LimiterTick
  <2>3. Paired(granted'[ip], attempts'[ip])
    BY <2>1, <2>2, PairedTick
  <2> QED  BY <2>3 DEF Paired
<1>2. granted' = [ip \in IPs |-> granted'[ip]] /\ attempts' = [ip \in IPs |-> attempts'[ip]]
  BY DEF LimiterTick
<1>3. granted' \in [IPs -> Seq(0..Window)] /\ attempts' \in [IPs -> Seq(0..MaxAge)]
  BY <1>1, <1>2
<1> QED  BY <1>1, <1>3 DEF LimiterInv, Paired, MaxAge

-----------------------------------------------------------------------------
\* The other steps leave the limiter alone.
LEMMA LimiterStep == LimiterInv /\ [Next]_vars => LimiterInv'
<1> SUFFICES ASSUME LimiterInv, [Next]_vars
             PROVE  LimiterInv'
  OBVIOUS
<1>1. CASE UNCHANGED limiterVars
  BY <1>1 DEF limiterVars, LimiterInv, Paired, MaxAge
<1>2. ASSUME NEW q \in Requests, NEW ip \in IPs, NEW age \in 0..MaxWait, loginSubmit(q, ip, age)
      PROVE  LimiterInv'
  BY <1>2, AllowKeeps DEF loginSubmit
<1>3. ASSUME NEW ip \in IPs, NEW age \in 0..MaxWait, loginThrottled(ip, age)
      PROVE  LimiterInv'
  BY <1>3, RefuseKeeps DEF loginThrottled
<1>4. CASE Tick
  BY <1>4, LimiterTickKeeps DEF Tick
<1>5. ASSUME NEW q \in Requests, Arrive(q) PROVE LimiterInv'
  <2>1. CASE \E s \in Sessions, minRole \in Roles : requireRole(q, s, minRole)
    BY <1>1, <2>1 DEF requireRole
  <2>2. CASE \E k \in Keys : requestToken(q, k)
    BY <1>1, <2>2 DEF requestToken
  <2> QED  BY <1>2, <1>5, <2>1, <2>2 DEF Arrive
<1>6. ASSUME NEW q \in Requests, Proceed(q) PROVE UNCHANGED limiterVars
  BY <1>6 DEF Proceed, VerifyLogin, CreateSession, CreateUser, DeleteUser, SetAPIKey,
     CreateAccessToken, Respond
<1>7. ASSUME NEW s \in Sessions, logout(s) PROVE UNCHANGED limiterVars
  BY <1>7 DEF logout
<1>8. ASSUME NEW u \in Users, NEW name \in Names, NEW password \in Passwords,
             createadmin(u, name, password)
      PROVE  UNCHANGED limiterVars
  BY <1>8 DEF createadmin
<1>9. CASE UNCHANGED vars
  BY <1>1, <1>9 DEF vars
<1> QED  BY <1>1, <1>3, <1>4, <1>5, <1>6, <1>7, <1>8, <1>9 DEF Next

(* The inductive invariant of the limiter holds in every state: the calls  *)
(* that were let in are the latest of the attempts that it remembers.      *)
THEOREM LimiterInvariant == Spec => []LimiterInv
<1>1. Init => LimiterInv
  BY LimiterInvInit DEF Init
<1> QED  BY <1>1, LimiterStep, PTL DEF Spec

(* Tables, requests and the maps of the limiter keep their types.          *)
THEOREM TypeCorrect == Spec => []TypeOK
<1>1. AccountsInv /\ LimiterInv => TypeOK
  BY DEF AccountsInv, LimiterInv, TypeOK, LimiterTypeOK
<1> QED  BY <1>1, AccountsInvariant, LimiterInvariant, PTL

(* Since the map was last cleared, an address was let in at most Limit     *)
(* times in any stretch of time that is shorter than the window by as long *)
(* as a caller may wait for the mutex (Allow of loginlimiter.go reads the  *)
(* clock before it has the mutex), whatever the limit, the window and the  *)
(* order in which callers get the mutex.                                   *)
THEOREM RateBoundHolds == Spec => []RateBound
<1>1. ASSUME LimiterInv PROVE RateBound
  <2> SUFFICES ASSUME NEW ip \in IPs PROVE Len(granted[ip]) <= Limit
    BY DEF RateBound
  <2>1. Paired(granted[ip], attempts[ip])
    BY <1>1 DEF LimiterInv
  <2>2. Len(granted[ip]) \in Nat /\ Len(attempts[ip]) \in Nat
    BY <2>1 DEF Paired
  <2> QED  BY <2>1, <2>2, LimiterAssumption DEF Paired
<1> QED  BY <1>1, LimiterInvariant, PTL
=============================================================================
