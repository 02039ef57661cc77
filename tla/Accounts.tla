------------------------------ MODULE Accounts ------------------------------
(***************************************************************************)
(* The accounts of the server: users with a role, their login sessions,    *)
(* the API key of a user and the access tokens it is exchanged for.        *)
(*                                                                         *)
(* Every statement of the database is atomic and DeleteUser is one         *)
(* transaction, but a request is several of them: a login is throttled,    *)
(* then verified, then given a session; an API key is verified, then       *)
(* exchanged; a session is resolved, then its user acts.  Other requests   *)
(* run in between, and a request may end without effect at any step.       *)
(***************************************************************************)
EXTENDS LoginLimiter

CONSTANTS
    Users,                  \* UUIDs of users
    FirstAdmin,             \* the user that the createadmin command made first
    Names, Passwords,
    LongEnough,             \* the passwords of at least minPasswordLength characters
    Keys, Sessions, Tokens, \* random values: API keys, session tokens, access tokens
    SessionTTL, AccessTokenTTL,
    Requests,               \* HTTP requests in progress
    NULL

VARIABLES
    user,         \* user[u]: the row, or NULL
    session,      \* session[s]: the row, or NULL
    apiKey,       \* apiKey[u]: the API key of a user, or NULL
    accessToken,  \* accessToken[t]: the row, or NULL
    issued,       \* the UUIDs of users and the API keys handed out so far
    request       \* request[q]: what a request holds between its statements, or NULL

tables == <<user, session, apiKey, accessToken, issued>>
vars == <<tables, request, limiterVars>>

Roles == {"admin", "consumer"}
SubmittedRoles == Roles \cup {"other"}
User == [name : Names, password : Passwords, role : Roles]
\* left is the time to live: a row that has expired has none and stays.
\* The proof of a session is history: the password it was given for.
Session == [user : Users, left : -1..SessionTTL, proof : Passwords]
AccessToken == [user : Users, left : -1..AccessTokenTTL]
Request ==
    [at : {"verify"}]
    \cup [at : {"session"}, user : Users, name : Names, proof : Passwords]
    \cup [at : {"exchange"}, user : Users]
    \cup [at : {"page"}, actor : Users, minRole : Roles]

ASSUME AccountsAssumption ==
    /\ FirstAdmin \in Users
    /\ LongEnough \subseteq Passwords /\ LongEnough # {} /\ Names # {}
    /\ SessionTTL \in Nat /\ AccessTokenTTL \in Nat
    /\ NULL \notin Users \cup Sessions \cup Keys \cup Tokens \cup User

Init ==
    /\ \E name \in Names, password \in LongEnough :
        user = [u \in Users |-> IF u = FirstAdmin
                THEN [name |-> name, password |-> password, role |-> "admin"] ELSE NULL]
    /\ session = [s \in Sessions |-> NULL]
    /\ apiKey = [u \in Users |-> NULL]
    /\ accessToken = [t \in Tokens |-> NULL]
    /\ issued = {FirstAdmin}
    /\ request = [q \in Requests |-> NULL]
    /\ LimiterInit

Fresh(x) == x \notin issued
Issue(x) == issued' = issued \cup {x}

\* Random tokens stand for new ones again when they resolve to nobody.
Unused(row) == row # NULL => row.left < 0

At(q, step) == request[q] # NULL /\ request[q].at = step
Start(q, r) == request[q] = NULL /\ request' = [request EXCEPT ![q] = r]
Continue(q, r) == request' = [request EXCEPT ![q] = r]
End(q) == request' = [request EXCEPT ![q] = NULL]

-----------------------------------------------------------------------------
(* Login: the limiter, then the password, then a session.                  *)

\* A login starts when the limiter lets it in; one that is refused ends there.
loginSubmit(q, ip, age) ==
    /\ Allow(ip, age)
    /\ Start(q, [at |-> "verify"])
    /\ UNCHANGED tables

loginThrottled(ip, age) == Refuse(ip, age) /\ UNCHANGED <<tables, request>>

\* The name and the password of the form, which nothing looked at before.
VerifyLogin(q, name, password) ==
    /\ At(q, "verify")
    /\ LET Match == {u \in Users : user[u] # NULL /\ user[u].name = name
                                   /\ user[u].password = password} IN
        \/ \E u \in Match :
            Continue(q, [at |-> "session", user |-> u, name |-> name, proof |-> password])
        \/ Match = {} /\ End(q)
    /\ UNCHANGED <<tables, limiterVars>>

\* Mutant: the session goes to whoever has the name by now.
OwnerByName(q) ==
    LET Named == {u \in Users : user[u] # NULL /\ user[u].name = request[q].name} IN
    IF Named = {} THEN request[q].user ELSE CHOOSE u \in Named : TRUE

Owner(q) == request[q].user

\* The foreign key refuses a session for a user who is gone.
CreateSession(q, s) ==
    /\ At(q, "session")
    /\ user[Owner(q)] # NULL
    /\ Unused(session[s])
    /\ session' = [session EXCEPT ![s] =
            [user |-> Owner(q), left |-> SessionTTL, proof |-> request[q].proof]]
    /\ End(q)
    /\ UNCHANGED <<user, apiKey, accessToken, issued, limiterVars>>

\* Logout asks for no valid session.
logout(s) ==
    /\ session[s] # NULL
    /\ session' = [session EXCEPT ![s] = NULL]
    /\ UNCHANGED <<user, apiKey, accessToken, issued, request, limiterVars>>

-----------------------------------------------------------------------------
(* The administration: requireRole resolves the session and passes its     *)
(* user on to the handler.                                                 *)

GetSessionUser(s) ==
    IF session[s] # NULL /\ session[s].left >= 0 THEN session[s].user ELSE NULL

RoleSatisfies(role, minRole) == role = "admin" \/ role = minRole

requireRole(q, s, minRole) ==
    /\ GetSessionUser(s) # NULL
    /\ RoleSatisfies(user[GetSessionUser(s)].role, minRole)
    /\ Start(q, [at |-> "page", actor |-> GetSessionUser(s), minRole |-> minRole])
    /\ UNCHANGED <<tables, limiterVars>>

OnPage(q, minRole) == At(q, "page") /\ request[q].minRole = minRole

NameTaken(name) == \E u \in Users : user[u] # NULL /\ user[u].name = name

ValidRole(role) == role \in Roles

CreateUser(q, u, name, password, role) ==
    /\ OnPage(q, "admin")
    /\ ValidRole(role)
    /\ password \in LongEnough
    /\ ~NameTaken(name)
    /\ Fresh(u) /\ Issue(u)
    /\ user' = [user EXCEPT ![u] = [name |-> name, password |-> password, role |-> role]]
    /\ End(q)
    /\ UNCHANGED <<session, apiKey, accessToken, limiterVars>>

Admins == {u \in Users : user[u] # NULL /\ user[u].role = "admin"}

\* Mutant: only a user who is logged in as the last admin is refused.
LastAdminIsActor(q, u) == u = request[q].actor

LastAdmin(q, u) == u \in Admins /\ Cardinality(Admins) <= 1

\* Mutant: access tokens are left to expire.
CascadeToTokensNever(u) == accessToken' = accessToken

CascadeToTokens(u) ==
    accessToken' = [t \in Tokens |->
        IF accessToken[t] # NULL /\ accessToken[t].user = u THEN NULL ELSE accessToken[t]]

\* The foreign keys delete the user's session, key and tokens.
DeleteUser(q, u) ==
    /\ OnPage(q, "admin")
    /\ user[u] # NULL
    /\ ~LastAdmin(q, u)
    /\ user' = [user EXCEPT ![u] = NULL]
    /\ session' = [s \in Sessions |->
            IF session[s] # NULL /\ session[s].user = u THEN NULL ELSE session[s]]
    /\ apiKey' = [apiKey EXCEPT ![u] = NULL]
    /\ CascadeToTokens(u)
    /\ End(q)
    /\ UNCHANGED <<issued, limiterVars>>

\* The API key of a user is replaced.
SetAPIKey(q, k) ==
    /\ OnPage(q, "consumer")
    /\ user[request[q].actor] # NULL
    /\ Fresh(k) /\ Issue(k)
    /\ apiKey' = [apiKey EXCEPT ![request[q].actor] = k]
    /\ End(q)
    /\ UNCHANGED <<user, session, accessToken, limiterVars>>

-----------------------------------------------------------------------------
(* The token endpoint and the bearers of access tokens.                    *)

HoldsKey(u, k) == user[u] # NULL /\ apiKey[u] = k

requestToken(q, k) ==
    /\ \E u \in Users :
        HoldsKey(u, k) /\ Start(q, [at |-> "exchange", user |-> u])
    /\ UNCHANGED <<tables, limiterVars>>

CreateAccessToken(q, t) ==
    /\ At(q, "exchange")
    /\ user[request[q].user] # NULL
    /\ Unused(accessToken[t])
    /\ accessToken' = [accessToken EXCEPT ![t] =
            [user |-> request[q].user, left |-> AccessTokenTTL]]
    /\ End(q)
    /\ UNCHANGED <<user, session, apiKey, issued, limiterVars>>

-----------------------------------------------------------------------------
\* The response: an input is refused, a statement fails
\* (the foreign key of a user who is gone among others) or the caller hangs up.
Respond(q) ==
    /\ request[q] # NULL
    /\ End(q)
    /\ UNCHANGED <<tables, limiterVars>>

\* The createadmin command, in a process of its own.
createadmin(u, name, password) ==
    /\ password \in LongEnough
    /\ ~NameTaken(name)
    /\ Fresh(u) /\ Issue(u)
    /\ user' = [user EXCEPT ![u] = [name |-> name, password |-> password, role |-> "admin"]]
    /\ UNCHANGED <<session, apiKey, accessToken, request, limiterVars>>

Tick ==
    /\ LET Less(row) == IF row # NULL /\ row.left >= 0
                        THEN [row EXCEPT !.left = @ - 1] ELSE row IN
        /\ session' = [s \in Sessions |-> Less(session[s])]
        /\ accessToken' = [t \in Tokens |-> Less(accessToken[t])]
    /\ LimiterTick
    /\ UNCHANGED <<user, apiKey, issued, request>>

Arrive(q) ==
    \/ \E ip \in IPs, age \in 0..MaxWait : loginSubmit(q, ip, age)
    \/ \E s \in Sessions, minRole \in Roles : requireRole(q, s, minRole)
    \/ \E k \in Keys : requestToken(q, k)

Proceed(q) ==
    \/ \E name \in Names, password \in Passwords : VerifyLogin(q, name, password)
    \/ \E s \in Sessions : CreateSession(q, s)
    \/ \E u \in Users, name \in Names, password \in Passwords, role \in SubmittedRoles :
        CreateUser(q, u, name, password, role)
    \/ \E u \in Users : DeleteUser(q, u)
    \/ \E k \in Keys : SetAPIKey(q, k)
    \/ \E t \in Tokens : CreateAccessToken(q, t)
    \/ Respond(q)

Next ==
    \/ \E q \in Requests : Arrive(q) \/ Proceed(q)
    \/ \E ip \in IPs, age \in 0..MaxWait : loginThrottled(ip, age)
    \/ \E s \in Sessions : logout(s)
    \/ \E u \in Users, name \in Names, password \in Passwords : createadmin(u, name, password)
    \/ Tick

Spec == Init /\ [][Next]_vars

-----------------------------------------------------------------------------
(* The types of the tables and of the requests in progress.                *)
AccountsTypeOK ==
    /\ user \in [Users -> User \cup {NULL}]
    /\ session \in [Sessions -> Session \cup {NULL}]
    /\ apiKey \in [Users -> Keys \cup {NULL}]
    /\ accessToken \in [Tokens -> AccessToken \cup {NULL}]
    /\ issued \subseteq Users \cup Keys
    /\ request \in [Requests -> Request \cup {NULL}]

(* The type invariant.                                                     *)
TypeOK == AccountsTypeOK /\ LimiterTypeOK

(* Somebody can always administer the server: two administrators who       *)
(* delete each other at the same time cannot both succeed.                 *)
SomeAdminRemains == Admins # {}

(* No credential outlives its account, even one that was being issued when *)
(* the account was deleted.                                                *)
CredentialsEndWithAccount ==
    /\ \A s \in Sessions : session[s] # NULL => user[session[s].user] # NULL
    /\ \A t \in Tokens : accessToken[t] # NULL => user[accessToken[t].user] # NULL
    /\ \A u \in Users : apiKey[u] # NULL => user[u] # NULL

(* A session is for the account whose password was given at login, even if *)
(* the account was deleted and its name taken again while the login ran.   *)
SessionProvesPassword ==
    \A s \in Sessions : session[s] # NULL =>
        user[session[s].user] # NULL /\ user[session[s].user].password = session[s].proof
=============================================================================
