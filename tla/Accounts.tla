------------------------------ MODULE Accounts ------------------------------
(***************************************************************************)
(* Logins, sessions and the accounts of the web UI (api/auth.go,           *)
(* database/users.go, the gate of api/api.go).                             *)
(*                                                                         *)
(* A session is a signed token in a client's cookie: it names its subject  *)
(* and expires, and the server keeps nothing of it.  The seed admin comes  *)
(* from the environment of the process and is no row; every other account  *)
(* is one.  A request that hashes a password takes a while between what it *)
(* checked or read and what it writes or issues: two steps.  Passwords     *)
(* stand for their hashes, and are long enough.  Times are counted down    *)
(* from the lifetime of a token.                                           *)
(***************************************************************************)
EXTENDS Naturals

CONSTANTS
  Users,         \* user names, in lower case
  Passwords,
  Secrets,       \* of the tokens' signatures: JWT_SECRET, or random where that is unset
  Environments,  \* what the process may start with: ADMIN_USER, ADMIN_PASS, the secret
  tokenTTL,
  Browsers,      \* the clients of the API, each with its cookie
  None           \* no row, no cookie, no request, no hash

ASSUME AccountsAssumption ==
  /\ Environments \subseteq [user : Users, pass : Passwords, secret : Secrets]
  /\ tokenTTL \in Nat \ {0}
  /\ None \notin Passwords

VARIABLES
  admin, adminPass, secret,  \* the configuration of the running process
  users,   \* csfleet_web_users: name -> password, or None
  dbUp,    \* does the database answer?
  cookie,  \* client -> its token, or None
  call     \* client -> its request in flight, or None

vars == <<admin, adminPass, secret, users, dbUp, cookie, call>>

Token == [sub : Users, left : 1 .. tokenTTL, secret : Secrets]
Login == [kind : {"login"}, user : Users, pass : Passwords, hash : Passwords \cup {None}]
Edit == [kind : {"create", "setPassword"}, user : Users, pass : Passwords]
          \cup [kind : {"delete"}, user : Users]

AccountsTypeOK ==
  /\ admin \in Users /\ adminPass \in Passwords /\ secret \in Secrets /\ dbUp \in BOOLEAN
  /\ users \in [Users -> Passwords \cup {None}]
  /\ cookie \in [Browsers -> Token \cup {None}]
  /\ call \in [Browsers -> Login \cup Edit \cup {None}]

Init ==
  /\ \E e \in Environments : admin = e.user /\ adminPass = e.pass /\ secret = e.secret
  /\ users = [u \in Users |-> None]
  /\ dbUp = TRUE
  /\ cookie = [c \in Browsers |-> None]
  /\ call = [c \in Browsers |-> None]

-----------------------------------------------------------------------------
(* login and logout, which the gate lets through.                          *)

\* UserHash: an unknown user and a failed query are the same to login.
UserHash(u) == IF dbUp THEN users[u] ELSE None

Asks(c, r) == call[c] = None /\ call' = [call EXCEPT ![c] = r]
Answered(c) == call' = [call EXCEPT ![c] = None]

\* The seed admin is checked in memory, everyone else against the database.
LoginRead(c, u, p) ==
  /\ Asks(c, [kind |-> "login", user |-> u, pass |-> p,
              hash |-> IF u = admin THEN adminPass ELSE UserHash(u)])
  /\ UNCHANGED <<admin, adminPass, secret, users, dbUp, cookie>>

signToken(u) == [sub |-> u, left |-> tokenTTL, secret |-> secret]

\* The comparison, then the token; a refused login leaves the cookie alone.
LoginAnswer(c) ==
  /\ call[c] # None /\ call[c].kind = "login"
  /\ Answered(c)
  /\ cookie' = IF call[c].hash = call[c].pass
               THEN [cookie EXCEPT ![c] = signToken(call[c].user)] ELSE cookie
  /\ UNCHANGED <<admin, adminPass, secret, users, dbUp>>

\* The token is not revoked: the client is asked to forget it.
Logout(c) ==
  /\ cookie[c] # None
  /\ cookie' = [cookie EXCEPT ![c] = None]
  /\ UNCHANGED <<admin, adminPass, secret, users, dbUp, call>>

-----------------------------------------------------------------------------
(* The gated handlers that change accounts.                                *)

\* parseToken: the signature and the expiry, and nothing of the account.  An expired
\* token, which it refuses, is no cookie here.
Valid(c) == cookie[c] # None /\ cookie[c].secret = secret

\* Mutant: a request renews its session.
requireAuthRenews(c, e) ==
  /\ Valid(c) /\ e.user # admin
  /\ Asks(c, e)
  /\ cookie' = [cookie EXCEPT ![c].left = tokenTTL]
  /\ UNCHANGED <<admin, adminPass, secret, users, dbUp>>

\* The gate and the handler's checks: the seed admin is not to be edited.
requireAuth(c, e) ==
  /\ Valid(c) /\ e.user # admin
  /\ Asks(c, e)
  /\ UNCHANGED <<admin, adminPass, secret, users, dbUp, cookie>>

\* One statement, which a database that is down refuses.
Statement(c, kind, written) ==
  /\ call[c] # None /\ call[c].kind = kind
  /\ Answered(c)
  /\ users' = IF dbUp THEN [users EXCEPT ![call[c].user] = written] ELSE users
  /\ UNCHANGED <<admin, adminPass, secret, dbUp, cookie>>

\* INSERT: a name that is taken is refused.
CreateUser(c) ==
  Statement(c, "create", IF users[call[c].user] = None THEN call[c].pass
                                                       ELSE users[call[c].user])

\* Mutant: the password is written whether there is a row or not.
SetUserPasswordUpserts(c) == Statement(c, "setPassword", call[c].pass)

\* UPDATE: without a row there is nothing to change.
SetUserPassword(c) ==
  Statement(c, "setPassword", IF users[call[c].user] = None THEN None ELSE call[c].pass)

DeleteUser(c) == Statement(c, "delete", None)

-----------------------------------------------------------------------------
(* Time, the database and the process.                                     *)

Tick ==
  /\ \E c \in Browsers : cookie[c] # None
  /\ cookie' = [c \in Browsers |->
       IF cookie[c] = None \/ cookie[c].left = 1 THEN None
       ELSE [cookie[c] EXCEPT !.left = @ - 1]]
  /\ UNCHANGED <<admin, adminPass, secret, users, dbUp, call>>

DatabaseFlaps ==
  /\ dbUp' = ~dbUp
  /\ UNCHANGED <<admin, adminPass, secret, users, cookie, call>>

\* The process starts again, maybe with another environment: its requests are gone,
\* the rows and the clients' cookies are not.
Restart ==
  /\ \E e \in Environments : admin' = e.user /\ adminPass' = e.pass /\ secret' = e.secret
  /\ call' = [c \in Browsers |-> None]
  /\ UNCHANGED <<users, dbUp, cookie>>

Next ==
  \/ \E c \in Browsers :
       \/ LoginAnswer(c) \/ Logout(c)
       \/ CreateUser(c) \/ SetUserPassword(c) \/ DeleteUser(c)
       \/ \E u \in Users, p \in Passwords : LoginRead(c, u, p)
       \/ \E e \in Edit : requireAuth(c, e)
  \/ Tick \/ DatabaseFlaps \/ Restart

Spec == Init /\ [][Next]_vars

\* A login that is being answered is answered, and time passes.
FairSpec == Spec /\ WF_vars(Tick) /\ \A c \in Browsers : WF_vars(LoginAnswer(c))

-----------------------------------------------------------------------------
(* Properties.                                                             *)

\* A row that is gone comes back through a creation of that name and nothing else: a
\* password change that was under way when the account was deleted does not revive it.
DeletedStaysDeleted ==
  [][\A u \in Users : users[u] = None /\ users'[u] # None =>
       \E c \in Browsers : /\ call[c] # None /\ call'[c] = None
                          /\ call[c].kind = "create" /\ call[c].user = u]_vars

\* Nobody gets in as u: it has no row, is not the seed admin, and no login that is being
\* answered will be let in.
ShutOut(u) ==
  /\ users[u] = None /\ admin # u
  /\ \A c \in Browsers : call[c] # None /\ call[c].kind = "login" /\ call[c].user = u =>
       call[c].hash # call[c].pass

\* The safety half of DeletedIsLockedOut.  Once nobody gets in as u, only a creation or a
\* process whose seed admin is u changes that, and until then every session of u is one
\* that was there before and only gets older, whoever uses it and however often.
SessionsRunOut ==
  [][\A u \in Users : ShutOut(u) =>
       /\ ShutOut(u)' \/ users'[u] # None \/ admin' = u
       /\ \A c \in Browsers : cookie'[c] # None /\ cookie'[c].sub = u =>
            /\ cookie[c] # None /\ cookie[c].sub = u
            /\ cookie'[c].left <= cookie[c].left]_vars

\* An account that is deleted for good is locked out for good, although no session is
\* ever revoked, a login may have read its hash just before, and its sessions may be
\* in use all the time.
DeletedIsLockedOut ==
  \A u \in Users :
    <>[](users[u] = None /\ admin # u) =>
      <>[](\A c \in Browsers : Valid(c) => cookie[c].sub # u)

(***************************************************************************)
(* What TLC refutes (see the README).                                      *)
(***************************************************************************)

\* listUsers puts the seed admin before the rows: every name is listed once.
ListedOnce == users[admin] = None

=============================================================================
