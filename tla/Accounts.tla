------------------------------ MODULE Accounts ------------------------------
(***************************************************************************)
(* User accounts and login sessions of the Core: AuthService, UserService  *)
(* and the bootstrap_admin command, over the users and auth_sessions       *)
(* tables. Threads meet at the tables as they do in PlanService: a SELECT  *)
(* sees what is committed at that moment, save() selects the row a second  *)
(* time and updates the columns that differ from that second reading, and  *)
(* commit() is one step.                                                   *)
(*                                                                         *)
(* A session token is named after the login that was given it. A password  *)
(* hash is named after the request that set it: hashes are salted, so that *)
(* no two of them are equal. display_name is left out, so an update with   *)
(* neither role nor enabled stands for one that renames the user.          *)
(***************************************************************************)
EXTENDS Naturals, FiniteSets

CONSTANTS
    Requests,     \* HTTP requests and runs of the bootstrap command
    Seeds,        \* the users that exist at the start
    Names,        \* user names
    FirstUsers,   \* the rows of Seeds; the first password of a user is named after the user
    Patches,      \* the bodies of PATCH /users
    TTL,          \* session_ttl_hours
    Horizon,      \* bound: the last reading of the clock
    None          \* SQL NULL, a field left out of a body, "no row"

\* create_user makes a new uuid4, named after the request.
Ids == Seeds \cup Requests
Roles == {"member", "admin"}

UserRow == [name : Names, role : Roles, enabled : BOOLEAN, hash : {None} \cup Ids]
Session == [user_id : Ids, expires_at : Nat]
Patch == [role : {None} \cup Roles, enabled : {None} \cup BOOLEAN]

ASSUME AccountsAssumption ==
    /\ Seeds \cap Requests = {}
    /\ FirstUsers \in [Seeds -> UserRow]
    /\ \A u, v \in Seeds : FirstUsers[u].name = FirstUsers[v].name => u = v
    /\ \A u \in Seeds : FirstUsers[u].hash \in {None} \cup Seeds
    /\ Patches \subseteq Patch
    /\ TTL \in Nat \ {0}
    /\ Horizon \in Nat
    /\ None \notin Ids
    /\ None \notin Names \cup Roles
    /\ None \notin BOOLEAN
    /\ None \notin UserRow \cup Session
    /\ None \notin Patch

VARIABLES
    users,      \* users table
    sessions,   \* auth_sessions table, by the login that opened the session
    req,        \* what each request's thread holds
    now         \* the wall clock

vars == <<users, sessions, req, now>>

Operations == {"login", "me", "logout", "create", "update", "set_password",
               "bootstrap", "promote"}
InFlight == {"password", "session", "prune", "user", "logout", "actor", "create",
             "update", "set_password", "admins", "name", "save", "commit"}

\* row is the entity the thread works on: the session it read or opens, or the user
\* it is going to write. seen is the second reading, made by save().
Request ==
    [pc : {"idle", "done", "failed"} \cup InFlight, op : {None} \cup Operations,
     token : {None} \cup Requests, actor : {None} \cup Ids, role : {None} \cup Roles,
     target : {None} \cup Ids, name : {None} \cup Names, body : {None} \cup Patch \cup Ids,
     row : {None} \cup UserRow \cup Session, seen : {None} \cup UserRow]

Idle == [pc |-> "idle", op |-> None, token |-> None, actor |-> None, role |-> None,
         target |-> None, name |-> None, body |-> None, row |-> None, seen |-> None]

TypeOK ==
    /\ users \in [Ids -> {None} \cup UserRow]
    /\ sessions \in [Requests -> {None} \cup Session]
    /\ req \in [Requests -> Request]
    /\ now \in 0 .. Horizon

Init ==
    /\ users = [u \in Ids |-> IF u \in Seeds THEN FirstUsers[u] ELSE None]
    /\ sessions = [t \in Requests |-> None]
    /\ req = [r \in Requests |-> Idle]
    /\ now = 0

Exists(u) == users[u] # None
Named(u, name) == Exists(u) /\ users[u].name = name
Taken(name) == \E u \in Ids : Named(u, name)
EnabledAdmin(u) == Exists(u) /\ users[u].enabled /\ users[u].role = "admin"

-----------------------------------------------------------------------------
(* Steps that every thread takes.                                          *)

Receive(r, request) ==
    /\ req[r].pc = "idle"
    /\ req' = [req EXCEPT ![r] = request]
    /\ UNCHANGED <<users, sessions, now>>

\* The thread goes on with what it holds; nothing is written.
GoOn(r, held) ==
    /\ req' = [req EXCEPT ![r] = held]
    /\ UNCHANGED <<users, sessions, now>>

Answered(q) == [q EXCEPT !.pc = "done", !.body = None, !.row = None, !.seen = None]

\* The handler raises or the command exits with an error: rollback.
Failed == [Idle EXCEPT !.pc = "failed"]
Refuse(r) == GoOn(r, Failed)

\* The process dies, or the database stays locked: uncommitted work is lost.
Abort(r) ==
    /\ req[r].pc \in InFlight
    /\ Refuse(r)

-----------------------------------------------------------------------------
(* AuthService.login                                                       *)

ReceiveLogin(r) ==
    \E name \in Names, password \in Ids :
        Receive(r, [Idle EXCEPT !.pc = "password", !.op = "login",
                                !.name = name, !.body = password])

\* The row is selected by name and the password is verified against the copy.
CheckPassword(r) ==
    /\ req[r].pc = "password"
    /\ \/ \E u \in Ids :
            /\ Named(u, req[r].name)
            /\ users[u].enabled
            /\ users[u].hash = req[r].body
            /\ GoOn(r, [req[r] EXCEPT !.pc = "commit", !.target = u,
                                      !.row = [user_id |-> u, expires_at |-> now + TTL]])
       \/ /\ \A u \in Ids :
               Named(u, req[r].name) => ~users[u].enabled \/ users[u].hash # req[r].body
          /\ Refuse(r)

CommitLogin(r) ==
    /\ req[r].pc = "commit"
    /\ req[r].op = "login"
    /\ sessions' = [sessions EXCEPT ![r] = req[r].row]
    /\ req' = [req EXCEPT ![r] = Answered(@)]
    /\ UNCHANGED <<users, now>>

-----------------------------------------------------------------------------
(* AuthService.resolve, the dependency of every other endpoint.            *)

\* The client holds the cookie of a login that was answered.
ReceiveWithSession(r, op, target, name, body) ==
    \E t \in Requests :
        /\ req[t].op = "login"
        /\ req[t].pc = "done"
        /\ Receive(r, [Idle EXCEPT !.pc = "session", !.op = op, !.token = t,
                                   !.target = target, !.name = name, !.body = body])

ReceiveMe(r) == ReceiveWithSession(r, "me", None, None, None)
ReceiveLogout(r) == ReceiveWithSession(r, "logout", None, None, None)
ReceiveCreate(r) ==
    \E name \in Names, body \in {p \in Patches : None \notin {p.role, p.enabled}} :
        ReceiveWithSession(r, "create", r, name, body)
ReceiveUpdate(r) ==
    \E u \in Ids, body \in Patches : ReceiveWithSession(r, "update", u, None, body)
ReceiveSetPassword(r) ==
    \E u \in Ids : ReceiveWithSession(r, "set_password", u, None, None)

ReadSession(r) ==
    LET session == sessions[req[r].token]
    IN  /\ req[r].pc = "session"
        /\ \/ /\ session = None
              /\ Refuse(r)
           \/ /\ session # None
              /\ session.expires_at <= now
              /\ GoOn(r, [req[r] EXCEPT !.pc = "prune"])
           \/ /\ session # None
              /\ session.expires_at > now
              /\ GoOn(r, [req[r] EXCEPT !.pc = "user", !.row = session])

\* An expired session is deleted, if it is still there, and the request answered 401.
Prune(r) ==
    /\ req[r].pc = "prune"
    /\ sessions' = [sessions EXCEPT ![req[r].token] = None]
    /\ req' = [req EXCEPT ![r] = Failed]
    /\ UNCHANGED <<users, now>>

\* The stored user becomes the actor. "me" has nothing else to do.
ReadUser(r) ==
    LET user == users[req[r].row.user_id]
        accepted == [req[r] EXCEPT !.actor = req[r].row.user_id, !.role = user.role,
                                   !.row = None]
    IN  /\ req[r].pc = "user"
        /\ \/ /\ ~user.enabled
              /\ Refuse(r)
           \/ /\ user.enabled
              /\ req[r].op = "me"
              /\ GoOn(r, Answered(accepted))
           \/ /\ user.enabled
              /\ req[r].op = "logout"
              /\ GoOn(r, [accepted EXCEPT !.pc = "logout"])
           \/ /\ user.enabled
              /\ req[r].op \notin {"me", "logout"}
              /\ GoOn(r, [accepted EXCEPT !.pc = "actor"])

\* Variant: logout leaves the row, the browser has dropped its cookie.
LogoutCookieOnly(r) ==
    /\ req[r].pc = "logout"
    /\ GoOn(r, Answered(req[r]))

Logout(r) ==
    /\ req[r].pc = "logout"
    /\ sessions' = [sessions EXCEPT ![req[r].token] = None]
    /\ req' = [req EXCEPT ![r] = Answered(@)]
    /\ UNCHANGED <<users, now>>

-----------------------------------------------------------------------------
(* UserService and AuthService.set_password: administrators only.          *)

\* Variant: the role that the session was resolved to is trusted.
CheckAdminOnce(r) ==
    /\ req[r].pc = "actor"
    /\ \/ /\ req[r].role = "admin"
          /\ GoOn(r, [req[r] EXCEPT !.pc = req[r].op])
       \/ /\ req[r].role # "admin"
          /\ Refuse(r)

\* require_active_actor against the row as it is now, and require_admin.
CheckAdmin(r) ==
    LET mayAct == EnabledAdmin(req[r].actor) /\ req[r].role = "admin"
    IN  /\ req[r].pc = "actor"
        /\ \/ mayAct /\ GoOn(r, [req[r] EXCEPT !.pc = req[r].op])
           \/ ~mayAct /\ Refuse(r)

CreateUser(r) ==
    /\ req[r].pc = "create"
    /\ \/ Taken(req[r].name) /\ Refuse(r)
       \/ /\ ~Taken(req[r].name)
          /\ GoOn(r, [req[r] EXCEPT !.pc = "commit",
                        !.row = [name |-> req[r].name, role |-> req[r].body.role,
                                 enabled |-> req[r].body.enabled, hash |-> None]])

\* Variant: a field that was left out is assigned like the others.
GivenAsSent(field, stored) == field

\* A field of the body if it is there, else what the row holds.
Given(field, stored) == IF field = None THEN stored ELSE field

\* The whole row is staged, the columns the body does not name as they were read.
UpdateUser(r) ==
    LET u == req[r].target
        ownDisable == req[r].body.enabled = FALSE /\ u = req[r].actor
    IN  /\ req[r].pc = "update"
        /\ \/ /\ ~Exists(u) \/ ownDisable
              /\ Refuse(r)
           \/ /\ Exists(u)
              /\ ~ownDisable
              /\ GoOn(r, [req[r] EXCEPT !.pc = "save",
                            !.row = [users[u] EXCEPT
                                       !.role = Given(req[r].body.role, @),
                                       !.enabled = Given(req[r].body.enabled, @)]])

SetPassword(r) ==
    /\ req[r].pc = "set_password"
    /\ \/ ~Exists(req[r].target) /\ Refuse(r)
       \/ Exists(req[r].target) /\ GoOn(r, [req[r] EXCEPT !.pc = "commit"])

-----------------------------------------------------------------------------
(* The bootstrap_admin command, a process of its own.                      *)

RunBootstrap(r) ==
    \E op \in {"bootstrap", "promote"}, name \in Names :
        Receive(r, [Idle EXCEPT !.pc = "admins", !.op = op, !.name = name])

\* Variant: only a run that creates a user looks for administrators.
LookForAdminsUnlessPromoting(r) ==
    /\ req[r].pc = "admins"
    /\ \/ req[r].op = "bootstrap" /\ (\E u \in Ids : EnabledAdmin(u)) /\ Refuse(r)
       \/ /\ req[r].op = "promote" \/ \A u \in Ids : ~EnabledAdmin(u)
          /\ GoOn(r, [req[r] EXCEPT !.pc = "name"])

\* has_enabled_admin, in a unit of work of its own.
LookForAdmins(r) ==
    /\ req[r].pc = "admins"
    /\ \/ (\E u \in Ids : EnabledAdmin(u)) /\ Refuse(r)
       \/ (\A u \in Ids : ~EnabledAdmin(u)) /\ GoOn(r, [req[r] EXCEPT !.pc = "name"])

Bootstrap(r) ==
    /\ req[r].pc = "name"
    /\ \/ /\ Taken(req[r].name)
          /\ req[r].op = "bootstrap"
          /\ Refuse(r)
       \/ \E u \in Ids :
            /\ Named(u, req[r].name)
            /\ req[r].op = "promote"
            /\ GoOn(r, [req[r] EXCEPT !.pc = "save", !.target = u,
                          !.row = [users[u] EXCEPT !.role = "admin", !.enabled = TRUE,
                                                   !.hash = r]])
       \/ /\ ~Taken(req[r].name)
          /\ GoOn(r, [req[r] EXCEPT !.pc = "commit", !.target = r,
                        !.row = [name |-> req[r].name, role |-> "admin",
                                 enabled |-> TRUE, hash |-> r]])

-----------------------------------------------------------------------------
(* Writing a user.                                                         *)

\* UserRepository.save: the second reading.
Save(r) ==
    /\ req[r].pc = "save"
    /\ GoOn(r, [req[r] EXCEPT !.pc = "commit", !.seen = users[req[r].target]])

\* The UPDATE names a column only when what is assigned differs from the second reading.
Column(stored, seen, assigned) == IF seen = assigned THEN stored ELSE assigned

WriteUser(r, row) ==
    /\ users' = [users EXCEPT ![req[r].target] = row]
    /\ req' = [req EXCEPT ![r] = Answered(@)]
    /\ UNCHANGED <<sessions, now>>

CommitSave(r) ==
    LET stored == users[req[r].target]
        seen == req[r].seen
        row == req[r].row
    IN  /\ req[r].pc = "commit"
        /\ seen # None
        /\ WriteUser(r, [name |-> Column(stored.name, seen.name, row.name),
                         role |-> Column(stored.role, seen.role, row.role),
                         enabled |-> Column(stored.enabled, seen.enabled, row.enabled),
                         hash |-> Column(stored.hash, seen.hash, row.hash)])

\* set_password_hash: a new hash differs from any other, the UPDATE names that column.
CommitPassword(r) ==
    /\ req[r].pc = "commit"
    /\ req[r].op = "set_password"
    /\ WriteUser(r, [users[req[r].target] EXCEPT !.hash = r])

Inserts(q) ==
    /\ q.pc = "commit"
    /\ q.op \in {"create", "bootstrap", "promote"}
    /\ q.seen = None

\* Variant: the table has no unique constraint.
CommitInsertAnyway(r) ==
    /\ Inserts(req[r])
    /\ WriteUser(r, req[r].row)

\* The INSERT is refused by the unique constraint on username, whatever was read before.
CommitInsert(r) ==
    /\ Inserts(req[r])
    /\ \/ Taken(req[r].row.name) /\ Refuse(r)
       \/ ~Taken(req[r].row.name) /\ WriteUser(r, req[r].row)

Tick ==
    /\ now < Horizon
    /\ now' = now + 1
    /\ UNCHANGED <<users, sessions, req>>

Arrive(r) ==
    \/ ReceiveLogin(r)
    \/ ReceiveMe(r)
    \/ ReceiveLogout(r)
    \/ ReceiveCreate(r)
    \/ ReceiveUpdate(r)
    \/ ReceiveSetPassword(r)
    \/ RunBootstrap(r)

Handle(r) ==
    \/ CheckPassword(r)
    \/ CommitLogin(r)
    \/ ReadSession(r)
    \/ Prune(r)
    \/ ReadUser(r)
    \/ Logout(r)
    \/ CheckAdmin(r)
    \/ CreateUser(r)
    \/ UpdateUser(r)
    \/ SetPassword(r)
    \/ LookForAdmins(r)
    \/ Bootstrap(r)
    \/ Save(r)
    \/ CommitSave(r)
    \/ CommitPassword(r)
    \/ CommitInsert(r)
    \/ Abort(r)

Next ==
    \/ \E r \in Requests : Arrive(r) \/ Handle(r)
    \/ Tick

Spec == Init /\ [][Next]_vars

-----------------------------------------------------------------------------
(* Properties.                                                             *)

\* No two users have the same name: create_user and the bootstrap command look the name
\* up first, but two of them may both find it free.
UsernamesUnique ==
    \A u, v \in Ids : Exists(u) /\ Exists(v) /\ users[u].name = users[v].name => u = v

\* A session that was logged out of, that has expired, or whose row is gone.
Over(t) ==
    /\ req[t].op = "login"
    /\ req[t].pc = "done"
    /\ \/ sessions[t] = None
       \/ sessions[t].expires_at <= now
       \/ \E r \in Requests : req[r].op = "logout" /\ req[r].pc = "done" /\ req[r].token = t

\* The end of a session is final: a request that comes in after it is never accepted with
\* that session's token, whatever overlaps with logout, expiry and pruning.
EndedSessionsStayEnded ==
    \A t, r \in Requests :
        [](Over(t) /\ req[r].pc = "idle" => [](req[r].token = t => req[r].actor = None))

\* Nobody is an enabled administrator, and no request has come past the point where it
\* was last checked that its actor is one.
LockedOut ==
    /\ \A u \in Ids : ~EnabledAdmin(u)
    /\ \A r \in Requests : req[r].pc \notin {"create", "update", "set_password", "save", "commit"}

\* Out of that state only the bootstrap command leads: requests that were already
\* accepted from a former administrator cannot make a new one.
LockoutNeedsBootstrap ==
    [](LockedOut =>
         []((\E u \in Ids : EnabledAdmin(u)) =>
              \E r \in Requests : req[r].pc = "done" /\ req[r].op \in {"bootstrap", "promote"}))

\* Documented for the password endpoint: it updates the user's hash. So a stored hash
\* changes only into one that is being set by the very step that changes it.
RotationsKept ==
    [][\A u \in Ids :
          Exists(u) /\ users'[u].hash # users[u].hash
          => \E r \in Requests : /\ users'[u].hash = r
                                 /\ req[r].pc = "commit"
                                 /\ req'[r].pc = "done"]_vars
=============================================================================
