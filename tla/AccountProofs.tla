---------------------------- MODULE AccountProofs ----------------------------
(***************************************************************************)
(* Proofs about Accounts, for any sets of requests, users, names and       *)
(* bodies.                                                                 *)
(***************************************************************************)
EXTENDS AccountSerial, TLAPS

\* The user whose row a thread saves. Nobody's name changes after it was read.
SavesUser(q) ==
    /\ q.op \in {"update", "promote"}
    /\ q.row \in UserRow
    /\ q.target \in Ids
    /\ Exists(q.target)
    /\ q.row.name = users[q.target].name

Resolving == {"session", "prune", "user"}

\* What the thread of request r may rely on at each step of its handler, holding q.
Founded(r, q) ==
    /\ q.pc = "idle" => q = Idle
    /\ q.token # None => req[q.token].op = "login" /\ req[q.token].pc = "done"
    /\ q.pc \in Resolving \cup {"actor", "logout"} => q.token \in Requests
    /\ q.seen # None => q.pc = "commit"
    /\ q.pc = "password" => q.op = "login" /\ q.name \in Names /\ q.body \in Ids
    /\ q.pc \in Resolving =>
         q.op \in {"me", "logout", "create", "update", "set_password"}
    /\ q.pc = "user" => q.row \in Session /\ Exists(q.row.user_id)
    /\ q.pc = "logout" => q.op = "logout"
    /\ q.pc = "actor" => q.op \in {"create", "update", "set_password"}
    /\ q.pc \in {"create", "update", "set_password"} => q.op = q.pc
    /\ q.pc \in {"actor", "create", "update", "set_password"} => q.actor \in Ids
    /\ q.op = "create" /\ q.pc \in Resolving \cup {"actor", "create"} =>
         /\ q.target = r
         /\ q.name \in Names
         /\ q.body \in Patch
         /\ None \notin {q.body.role, q.body.enabled}
    /\ q.op = "update" /\ q.pc \in Resolving \cup {"actor", "update"} =>
         q.target \in Ids /\ q.body \in Patches
    /\ q.op = "set_password" /\ q.pc \in Resolving \cup {"actor", "set_password", "commit"} =>
         q.target \in Ids
    /\ q.pc \in {"admins", "name"} => q.op \in {"bootstrap", "promote"} /\ q.name \in Names
    /\ q.pc = "save" => SavesUser(q)
    /\ q.pc = "commit" =>
         \/ q.op = "login" /\ q.seen = None /\ q.row \in Session /\ Exists(q.row.user_id)
         \/ q.op = "set_password" /\ q.seen = None /\ Exists(q.target)
         \/ q.seen # None /\ q.seen.name = users[q.target].name /\ SavesUser(q)
         \/ /\ q.op \in {"create", "bootstrap", "promote"}
            /\ q.seen = None
            /\ q.row \in UserRow
            /\ q.target = r

\* Where the rows of the two tables come from.
RowsMade ==
    /\ \A r \in Requests : users[r] # None => req[r].pc = "done"
    /\ \A t \in Requests : sessions[t] # None =>
         req[t].pc = "done" /\ Exists(sessions[t].user_id)
    /\ \A r \in Requests : req[r].op = "logout" /\ req[r].pc = "done" =>
         req[r].token \in Requests /\ sessions[req[r].token] = None

IInv == TypeOK /\ UsernamesUnique /\ RowsMade /\ \A r \in Requests : Founded(r, req[r])

-----------------------------------------------------------------------------
(* Steps that write no table.                                              *)

\* Users stay, and keep their names; a request that has ended stays as it is.
UsersStay == \A u \in Ids : Exists(u) => users'[u] # None /\ users'[u].name = users[u].name
EndedStay == \A t \in Requests : req[t].pc = "done" => req'[t] = req[t]

LEMMA FoundedStays ==
    ASSUME IInv, UsersStay, EndedStay, NEW r \in Requests, NEW q \in Request, Founded(r, q)
    PROVE  Founded(r, q)'
<1>1. SavesUser(q) => SavesUser(q)' /\ users'[q.target].name = users[q.target].name
    BY DEF SavesUser, UsersStay, Exists
<1>2. q.row \in Session /\ Exists(q.row.user_id) => Exists(q.row.user_id)'
    BY DEF UsersStay, Exists, Session
<1>3. q.token # None => q.token \in Requests
    BY DEF Request
<1>4. q.target \in Ids /\ Exists(q.target) => Exists(q.target)'
    BY DEF UsersStay, Exists
<1>5. q.target # None => q.target \in Ids
    BY DEF Request
<1>. QED
    BY <1>1, <1>2, <1>3, <1>4, <1>5 DEF Founded, EndedStay

\* A thread that takes a step without writing: it is enough to look at what it holds then.
LEMMA GoOnKeeps ==
    ASSUME IInv, NEW r \in Requests, NEW held \in Request, GoOn(r, held),
           req[r].pc # "done", held.pc = "done" => held.op # "logout",
           Founded(r, held)
    PROVE  IInv'
<1>1. TypeOK' /\ UsernamesUnique'
    BY DEF IInv, TypeOK, GoOn, UsernamesUnique, Exists
<1>2. UsersStay /\ EndedStay
    BY DEF IInv, TypeOK, GoOn, UsersStay, EndedStay, Exists
<1>3. RowsMade'
    BY DEF IInv, TypeOK, RowsMade, GoOn, Exists
<1>4. req'[r] = held /\ \A q \in Requests : q # r => req'[q] = req[q]
    BY DEF IInv, TypeOK, GoOn
<1>5. ASSUME NEW q \in Requests PROVE Founded(q, req[q])'
  <2>1. PICK h \in Request : h = req'[q] /\ Founded(q, h)
      BY <1>4 DEF IInv, TypeOK
  <2>2. Founded(q, h)'
      BY <1>2, <2>1, FoundedStays
  <2>. QED
      BY <2>1, <2>2
<1>. QED
    BY <1>1, <1>3, <1>5 DEF IInv

LEMMA RefuseKeeps ==
    ASSUME IInv, NEW r \in Requests, Refuse(r), req[r].pc # "done"
    PROVE  IInv'
<1>1. Failed \in Request /\ Founded(r, Failed) /\ Failed.pc = "failed"
    BY DEF Failed, Idle, Request, Founded, Resolving
<1>. QED
    BY <1>1, GoOnKeeps DEF Refuse

LEMMA ReceiveKeeps ==
    ASSUME IInv, NEW r \in Requests, NEW held \in Request, Receive(r, held),
           Founded(r, held), held.pc # "done"
    PROVE  IInv'
BY GoOnKeeps DEF Receive, GoOn

LEMMA ArriveKeeps ==
    ASSUME IInv, NEW r \in Requests, Arrive(r)
    PROVE  IInv'
<1>1. ASSUME NEW op \in {"me", "logout", "create", "update", "set_password"},
             NEW target \in {None} \cup Ids, NEW name \in {None} \cup Names,
             NEW body \in {None} \cup Patch,
             ReceiveWithSession(r, op, target, name, body),
             op = "create" => /\ target = r /\ name \in Names /\ body \in Patch
                              /\ None \notin {body.role, body.enabled},
             op = "update" => target \in Ids /\ body \in Patches,
             op = "set_password" => target \in Ids
      PROVE  IInv'
  <2>1. PICK t \in Requests :
          /\ req[t].op = "login"
          /\ req[t].pc = "done"
          /\ Receive(r, [Idle EXCEPT !.pc = "session", !.op = op, !.token = t,
                                     !.target = target, !.name = name, !.body = body])
      BY <1>1 DEF ReceiveWithSession
  <2>. DEFINE held == [Idle EXCEPT !.pc = "session", !.op = op, !.token = t,
                                   !.target = target, !.name = name, !.body = body]
  <2>2. /\ held.pc = "session" /\ held.op = op /\ held.token = t /\ held.target = target
        /\ held.name = name /\ held.body = body /\ held.seen = None
      BY DEF Idle
  <2>3. held \in Request
      BY DEF Idle, Request, Operations, InFlight
  <2>. HIDE DEF held
  <2>4. Founded(r, held)
      BY <1>1, <2>1, <2>2 DEF Founded, Resolving
  <2>. QED
      BY <2>1, <2>2, <2>3, <2>4, ReceiveKeeps DEF held
<1>2. CASE ReceiveLogin(r)
  <2>1. PICK name \in Names, password \in Ids :
          Receive(r, [Idle EXCEPT !.pc = "password", !.op = "login",
                                  !.name = name, !.body = password])
      BY <1>2 DEF ReceiveLogin
  <2>. DEFINE held == [Idle EXCEPT !.pc = "password", !.op = "login",
                                   !.name = name, !.body = password]
  <2>2. /\ held.pc = "password" /\ held.op = "login" /\ held.token = None
        /\ held.name = name /\ held.body = password /\ held.seen = None
      BY DEF Idle
  <2>3. held \in Request
      BY DEF Idle, Request, Operations, InFlight
  <2>. HIDE DEF held
  <2>4. Founded(r, held)
      BY <2>2 DEF Founded, Resolving
  <2>. QED
      BY <2>1, <2>2, <2>3, <2>4, ReceiveKeeps DEF held
<1>3. CASE RunBootstrap(r)
  <2>1. PICK op \in {"bootstrap", "promote"}, name \in Names :
          Receive(r, [Idle EXCEPT !.pc = "admins", !.op = op, !.name = name])
      BY <1>3 DEF RunBootstrap
  <2>. DEFINE held == [Idle EXCEPT !.pc = "admins", !.op = op, !.name = name]
  <2>2. /\ held.pc = "admins" /\ held.op = op /\ held.token = None
        /\ held.name = name /\ held.seen = None
      BY DEF Idle
  <2>3. held \in Request
      BY DEF Idle, Request, Operations, InFlight
  <2>. HIDE DEF held
  <2>4. Founded(r, held)
      BY <2>2 DEF Founded, Resolving
  <2>. QED
      BY <2>1, <2>2, <2>3, <2>4, ReceiveKeeps DEF held
<1>4. r \in Ids /\ Patches \subseteq Patch
    BY AccountsAssumption DEF Ids
<1>5. CASE ReceiveMe(r) \/ ReceiveLogout(r)
    BY <1>1, <1>5 DEF ReceiveMe, ReceiveLogout
<1>6. CASE ReceiveCreate(r)
    BY <1>1, <1>4, <1>6 DEF ReceiveCreate
<1>7. CASE ReceiveUpdate(r)
    BY <1>1, <1>4, <1>7 DEF ReceiveUpdate
<1>8. CASE ReceiveSetPassword(r)
    BY <1>1, <1>8 DEF ReceiveSetPassword
<1>. QED
    BY <1>2, <1>3, <1>5, <1>6, <1>7, <1>8 DEF Arrive

-----------------------------------------------------------------------------
(* Steps of a handler that write no table.                                 *)

LEMMA CheckPasswordKeeps ==
    ASSUME IInv, NEW r \in Requests, CheckPassword(r)
    PROVE  IInv'
<1>1. req[r] \in Request /\ Founded(r, req[r]) /\ req[r].pc = "password"
    BY DEF IInv, TypeOK, CheckPassword
<1>2. ASSUME NEW u \in Ids, Named(u, req[r].name),
             GoOn(r, [req[r] EXCEPT !.pc = "commit", !.target = u,
                                    !.row = [user_id |-> u, expires_at |-> now + TTL]])
      PROVE  IInv'
  <2>. DEFINE session == [user_id |-> u, expires_at |-> now + TTL]
              held == [req[r] EXCEPT !.pc = "commit", !.target = u, !.row = session]
  <2>1. session \in Session /\ Exists(session.user_id)
      BY <1>2, AccountsAssumption DEF IInv, TypeOK, Session, Named
  <2>. HIDE DEF session
  <2>2. /\ held.pc = "commit" /\ held.op = "login" /\ held.row = session
        /\ held.token = req[r].token /\ held.seen = None /\ held \in Request
      BY <1>1, <2>1 DEF Request, Founded, InFlight
  <2>. HIDE DEF held
  <2>3. Founded(r, held)
      BY <1>1, <2>1, <2>2 DEF Founded, Resolving
  <2>. QED
      BY <1>1, <1>2, <2>2, <2>3, GoOnKeeps DEF held, session
<1>. QED
    BY <1>1, <1>2, RefuseKeeps DEF CheckPassword

LEMMA ReadSessionKeeps ==
    ASSUME IInv, NEW r \in Requests, ReadSession(r)
    PROVE  IInv'
<1>. DEFINE session == sessions[req[r].token]
<1>1. /\ req[r] \in Request /\ Founded(r, req[r]) /\ req[r].pc = "session"
      /\ req[r].token \in Requests
    BY DEF IInv, TypeOK, ReadSession, Founded, Resolving
<1>2. ASSUME GoOn(r, [req[r] EXCEPT !.pc = "prune"]) PROVE IInv'
  <2>. DEFINE held == [req[r] EXCEPT !.pc = "prune"]
  <2>1. /\ held.pc = "prune" /\ held.op = req[r].op /\ held.token = req[r].token
        /\ held.target = req[r].target /\ held.name = req[r].name
        /\ held.body = req[r].body /\ held.seen = req[r].seen /\ held \in Request
      BY <1>1 DEF Request, InFlight
  <2>. HIDE DEF held
  <2>2. Founded(r, held)
      BY <1>1, <2>1 DEF Founded, Resolving
  <2>. QED
      BY <1>1, <1>2, <2>1, <2>2, GoOnKeeps DEF held
<1>3. ASSUME session # None, GoOn(r, [req[r] EXCEPT !.pc = "user", !.row = session])
      PROVE  IInv'
  <2>. DEFINE held == [req[r] EXCEPT !.pc = "user", !.row = session]
  <2>1. session \in Session /\ Exists(session.user_id)
      BY <1>1, <1>3 DEF IInv, TypeOK, RowsMade
  <2>. HIDE DEF session
  <2>2. /\ held.pc = "user" /\ held.op = req[r].op /\ held.token = req[r].token
        /\ held.target = req[r].target /\ held.name = req[r].name /\ held.row = session
        /\ held.body = req[r].body /\ held.seen = req[r].seen
      BY <1>1 DEF Request
  <2>3. held \in Request
      BY <1>1, <2>1 DEF Request, InFlight
  <2>. HIDE DEF held
  <2>4. Founded(r, held)
      BY <1>1, <2>1, <2>2 DEF Founded, Resolving
  <2>. QED
      BY <1>1, <1>3, <2>2, <2>3, <2>4, GoOnKeeps DEF held
<1>. QED
    BY <1>1, <1>2, <1>3, RefuseKeeps DEF ReadSession

LEMMA ReadUserKeeps ==
    ASSUME IInv, NEW r \in Requests, ReadUser(r)
    PROVE  IInv'
<1>. DEFINE u == req[r].row.user_id
            user == users[u]
            accepted == [req[r] EXCEPT !.actor = u, !.role = user.role, !.row = None]
<1>1. /\ req[r] \in Request /\ Founded(r, req[r]) /\ req[r].pc = "user"
      /\ u \in Ids /\ user \in UserRow /\ req[r].token \in Requests
    BY DEF IInv, TypeOK, ReadUser, Founded, Resolving, Session, Exists
<1>2. /\ accepted \in Request /\ accepted.op = req[r].op /\ accepted.token = req[r].token
      /\ accepted.target = req[r].target /\ accepted.name = req[r].name
      /\ accepted.body = req[r].body /\ accepted.seen = req[r].seen
      /\ accepted.actor = u
    BY <1>1 DEF Request, UserRow
<1>. HIDE DEF accepted
<1>3. ASSUME req[r].op = "me", GoOn(r, Answered(accepted)) PROVE IInv'
  <2>1. /\ Answered(accepted) \in Request /\ Answered(accepted).pc = "done"
        /\ Answered(accepted).op = "me" /\ Answered(accepted).seen = None
        /\ Answered(accepted).token = req[r].token
      BY <1>2, <1>3 DEF Answered, Request
  <2>2. Founded(r, Answered(accepted))
      BY <1>1, <2>1 DEF Founded, Resolving
  <2>. QED
      BY <1>1, <1>3, <2>1, <2>2, GoOnKeeps
<1>4. ASSUME NEW pc \in {"logout", "actor"},
             GoOn(r, [accepted EXCEPT !.pc = pc]),
             pc = "logout" <=> req[r].op = "logout", req[r].op # "me"
      PROVE  IInv'
  <2>. DEFINE held == [accepted EXCEPT !.pc = pc]
  <2>1. /\ held.pc = pc /\ held.op = req[r].op /\ held.token = req[r].token
        /\ held.target = req[r].target /\ held.name = req[r].name /\ held.actor = u
        /\ held.body = req[r].body /\ held.seen = req[r].seen /\ held \in Request
      BY <1>2 DEF Request, InFlight
  <2>. HIDE DEF held
  <2>2. Founded(r, held)
      BY <1>1, <1>4, <2>1 DEF Founded, Resolving
  <2>. QED
      BY <1>1, <1>4, <2>1, <2>2, GoOnKeeps DEF held
<1>. QED
    BY <1>1, <1>3, <1>4, RefuseKeeps DEF ReadUser, accepted

LEMMA CheckAdminKeeps ==
    ASSUME IInv, NEW r \in Requests, CheckAdmin(r)
    PROVE  IInv'
<1>1. req[r] \in Request /\ Founded(r, req[r]) /\ req[r].pc = "actor"
    BY DEF IInv, TypeOK, CheckAdmin
<1>2. ASSUME GoOn(r, [req[r] EXCEPT !.pc = req[r].op]) PROVE IInv'
  <2>. DEFINE held == [req[r] EXCEPT !.pc = req[r].op]
  <2>1. /\ held.pc = req[r].op /\ held.op = req[r].op /\ held.token = req[r].token
        /\ held.target = req[r].target /\ held.name = req[r].name
        /\ held.actor = req[r].actor
        /\ held.body = req[r].body /\ held.seen = req[r].seen /\ held \in Request
      BY <1>1 DEF Request, InFlight, Founded
  <2>. HIDE DEF held
  <2>2. Founded(r, held)
      BY <1>1, <2>1 DEF Founded, Resolving
  <2>. QED
      BY <1>1, <1>2, <2>1, <2>2, GoOnKeeps DEF held, Founded
<1>. QED
    BY <1>1, <1>2, RefuseKeeps DEF CheckAdmin

LEMMA CreateUserKeeps ==
    ASSUME IInv, NEW r \in Requests, CreateUser(r)
    PROVE  IInv'
<1>. DEFINE row == [name |-> req[r].name, role |-> req[r].body.role,
                    enabled |-> req[r].body.enabled, hash |-> None]
            held == [req[r] EXCEPT !.pc = "commit", !.row = row]
<1>1. req[r] \in Request /\ Founded(r, req[r]) /\ req[r].pc = "create"
    BY DEF IInv, TypeOK, CreateUser
<1>2. row \in UserRow
    BY <1>1 DEF Founded, Patch, UserRow
<1>. HIDE DEF row
<1>. HIDE DEF held
<1>6. req[r].op = "create" /\ req[r].target = r /\ req[r].seen = None
    BY <1>1 DEF Founded
<1>7. \A q \in Request, w \in UserRow :
         LET new == [q EXCEPT !.pc = "commit", !.row = w] IN
         /\ new \in Request /\ new.pc = "commit" /\ new.row = w
         /\ new.op = q.op /\ new.token = q.token /\ new.target = q.target
         /\ new.seen = q.seen
    BY DEF Request, InFlight
<1>8. /\ held \in Request /\ held.pc = "commit" /\ held.row = row
      /\ held.op = req[r].op /\ held.token = req[r].token
      /\ held.target = req[r].target /\ held.seen = req[r].seen
    BY <1>1, <1>2, <1>7 DEF held
<1>3. /\ held.pc = "commit" /\ held.op = "create" /\ held.token = req[r].token
      /\ held.target = r /\ held.row = row /\ held.seen = None /\ held \in Request
    BY <1>6, <1>8
<1>4. Founded(r, held)
    BY <1>1, <1>2, <1>3 DEF Founded, Resolving
<1>5. GoOn(r, held) => IInv'
    BY <1>1, <1>3, <1>4, GoOnKeeps
<1>. QED
    BY <1>1, <1>5, RefuseKeeps DEF CreateUser, held, row

LEMMA UpdateUserKeeps ==
    ASSUME IInv, NEW r \in Requests, UpdateUser(r)
    PROVE  IInv'
<1>. DEFINE u == req[r].target
            body == req[r].body
            row == [users[u] EXCEPT !.role = Given(body.role, @),
                                    !.enabled = Given(body.enabled, @)]
            held == [req[r] EXCEPT !.pc = "save", !.row = row]
<1>1. /\ req[r] \in Request /\ Founded(r, req[r]) /\ req[r].pc = "update"
      /\ u \in Ids /\ body \in Patch
    BY AccountsAssumption DEF IInv, TypeOK, UpdateUser, Founded
<1>2. ASSUME Exists(u), GoOn(r, held) PROVE IInv'
  <2>1. users[u] \in UserRow
      BY <1>1, <1>2 DEF IInv, TypeOK, Exists
  <2>2. Given(body.role, users[u].role) \in Roles
        /\ Given(body.enabled, users[u].enabled) \in BOOLEAN
      BY <1>1, <2>1 DEF Given, Patch, UserRow
  <2>3. row \in UserRow /\ row.name = users[u].name
      BY <2>1, <2>2 DEF UserRow
  <2>. HIDE DEF row
  <2>4. /\ held.pc = "save" /\ held.op = "update" /\ held.token = req[r].token
        /\ held.target = u /\ held.row = row /\ held.seen = None /\ held \in Request
      BY <1>1, <2>3 DEF Request, InFlight, Founded
  <2>. HIDE DEF held
  <2>5. Founded(r, held)
      BY <1>1, <1>2, <2>3, <2>4 DEF Founded, Resolving, SavesUser
  <2>. QED
      BY <1>1, <1>2, <2>4, <2>5, GoOnKeeps
<1>. QED
    BY <1>1, <1>2, RefuseKeeps DEF UpdateUser

LEMMA SetPasswordKeeps ==
    ASSUME IInv, NEW r \in Requests, SetPassword(r)
    PROVE  IInv'
<1>. DEFINE held == [req[r] EXCEPT !.pc = "commit"]
<1>1. req[r] \in Request /\ Founded(r, req[r]) /\ req[r].pc = "set_password"
    BY DEF IInv, TypeOK, SetPassword
<1>2. /\ held.pc = "commit" /\ held.op = "set_password" /\ held.token = req[r].token
      /\ held.target = req[r].target /\ held.seen = None /\ held \in Request
    BY <1>1 DEF Request, InFlight, Founded
<1>. HIDE DEF held
<1>3. Exists(req[r].target) => Founded(r, held)
    BY <1>1, <1>2 DEF Founded, Resolving
<1>. QED
    BY <1>1, <1>2, <1>3, GoOnKeeps, RefuseKeeps DEF SetPassword, held

LEMMA LookForAdminsKeeps ==
    ASSUME IInv, NEW r \in Requests, LookForAdmins(r)
    PROVE  IInv'
<1>. DEFINE held == [req[r] EXCEPT !.pc = "name"]
<1>1. req[r] \in Request /\ Founded(r, req[r]) /\ req[r].pc = "admins"
    BY DEF IInv, TypeOK, LookForAdmins
<1>2. /\ held.pc = "name" /\ held.op = req[r].op /\ held.token = req[r].token
      /\ held.name = req[r].name /\ held.seen = None /\ held \in Request
    BY <1>1 DEF Request, InFlight, Founded
<1>. HIDE DEF held
<1>3. Founded(r, held)
    BY <1>1, <1>2 DEF Founded, Resolving
<1>. QED
    BY <1>1, <1>2, <1>3, GoOnKeeps, RefuseKeeps DEF LookForAdmins, held

LEMMA BootstrapKeeps ==
    ASSUME IInv, NEW r \in Requests, Bootstrap(r)
    PROVE  IInv'
<1>1. /\ req[r] \in Request /\ Founded(r, req[r]) /\ req[r].pc = "name" /\ r \in Ids
      /\ req[r].op \in {"bootstrap", "promote"} /\ req[r].name \in Names
      /\ req[r].seen = None
    BY DEF IInv, TypeOK, Bootstrap, Founded, Ids
<1>2. ASSUME NEW u \in Ids, Named(u, req[r].name), req[r].op = "promote",
             GoOn(r, [req[r] EXCEPT !.pc = "save", !.target = u,
                        !.row = [users[u] EXCEPT !.role = "admin", !.enabled = TRUE,
                                                 !.hash = r]])
      PROVE  IInv'
  <2>. DEFINE row == [users[u] EXCEPT !.role = "admin", !.enabled = TRUE, !.hash = r]
              held == [req[r] EXCEPT !.pc = "save", !.target = u, !.row = row]
  <2>1. row \in UserRow /\ row.name = users[u].name
      BY <1>1, <1>2 DEF IInv, TypeOK, Named, Exists, UserRow, Roles
  <2>. HIDE DEF row
  <2>2. /\ held.pc = "save" /\ held.op = "promote" /\ held.token = req[r].token
        /\ held.target = u /\ held.row = row /\ held.seen = None /\ held \in Request
      BY <1>1, <1>2, <2>1 DEF Request, InFlight
  <2>. HIDE DEF held
  <2>3. Founded(r, held)
      BY <1>1, <1>2, <2>1, <2>2 DEF Founded, Resolving, SavesUser, Named
  <2>. QED
      BY <1>1, <1>2, <2>2, <2>3, GoOnKeeps DEF held, row
<1>3. ASSUME GoOn(r, [req[r] EXCEPT !.pc = "commit", !.target = r,
                        !.row = [name |-> req[r].name, role |-> "admin",
                                 enabled |-> TRUE, hash |-> r]])
      PROVE  IInv'
  <2>. DEFINE row == [name |-> req[r].name, role |-> "admin", enabled |-> TRUE, hash |-> r]
              held == [req[r] EXCEPT !.pc = "commit", !.target = r, !.row = row]
  <2>1. row \in UserRow
      BY <1>1 DEF UserRow, Roles
  <2>. HIDE DEF row
  <2>2. /\ held.pc = "commit" /\ held.op = req[r].op /\ held.token = req[r].token
        /\ held.target = r /\ held.row = row /\ held.seen = None /\ held \in Request
      BY <1>1, <2>1 DEF Request, InFlight
  <2>. HIDE DEF held
  <2>3. Founded(r, held)
      BY <1>1, <2>1, <2>2 DEF Founded, Resolving
  <2>. QED
      BY <1>1, <1>3, <2>2, <2>3, GoOnKeeps DEF held, row
<1>. QED
    BY <1>1, <1>2, <1>3, RefuseKeeps DEF Bootstrap

LEMMA SaveKeeps ==
    ASSUME IInv, NEW r \in Requests, Save(r)
    PROVE  IInv'
<1>. DEFINE seen == users[req[r].target]
            held == [req[r] EXCEPT !.pc = "commit", !.seen = seen]
<1>1. /\ req[r] \in Request /\ Founded(r, req[r]) /\ req[r].pc = "save"
      /\ SavesUser(req[r]) /\ GoOn(r, held)
    BY DEF IInv, TypeOK, Save, Founded
<1>2. seen \in UserRow /\ seen # None
    BY <1>1 DEF IInv, TypeOK, SavesUser, Exists
<1>. HIDE DEF seen
<1>3. /\ held.pc = "commit" /\ held.op = req[r].op /\ held.token = req[r].token
      /\ held.target = req[r].target /\ held.row = req[r].row /\ held.seen = seen
    BY <1>1 DEF Request
<1>4. held \in Request
    BY <1>1, <1>2 DEF Request, InFlight
<1>. HIDE DEF held
<1>5. Founded(r, held)
    BY <1>1, <1>2, <1>3 DEF Founded, Resolving, SavesUser, seen
<1>. QED
    BY <1>1, <1>3, <1>4, <1>5, GoOnKeeps

-----------------------------------------------------------------------------
(* Steps that write a table.                                               *)

\* What the threads may rely on after r has ended, if no user went away.
LEMMA EndingKeeps ==
    ASSUME IInv, NEW r \in Requests, NEW h \in Request, UsersStay,
           req[r].pc # "done", req' = [req EXCEPT ![r] = h],
           h.pc \in {"done", "failed"}, h.seen = None, h.token \in {None, req[r].token}
    PROVE  \A q \in Requests : Founded(q, req[q])'
<1>1. EndedStay /\ req'[r] = h /\ \A q \in Requests : q # r => req'[q] = req[q]
    BY DEF IInv, TypeOK, EndedStay
<1>2. Founded(r, h)
    BY DEF IInv, Founded, Resolving
<1>3. ASSUME NEW q \in Requests PROVE Founded(q, req[q])'
  <2>1. PICK g \in Request : g = req'[q] /\ Founded(q, g)
      BY <1>1, <1>2 DEF IInv, TypeOK
  <2>2. Founded(q, g)'
      BY <1>1, <2>1, FoundedStays
  <2>. QED
      BY <2>1, <2>2
<1>. QED
    BY <1>3

LEMMA AnsweredIsRequest ==
    ASSUME NEW q \in Request
    PROVE  /\ Answered(q) \in Request
           /\ Answered(q).pc = "done" /\ Answered(q).seen = None
           /\ Answered(q).token = q.token /\ Answered(q).op = q.op
BY DEF Answered, Request

LEMMA CommitLoginKeeps ==
    ASSUME IInv, NEW r \in Requests, CommitLogin(r)
    PROVE  IInv'
<1>. DEFINE session == req[r].row
<1>1. /\ req[r] \in Request /\ req[r].pc = "commit" /\ req[r].op = "login"
      /\ session \in Session /\ Exists(session.user_id)
    BY DEF IInv, TypeOK, CommitLogin, Founded, SavesUser
<1>2. /\ req' = [req EXCEPT ![r] = Answered(req[r])] /\ users' = users /\ now' = now
      /\ sessions' = [sessions EXCEPT ![r] = session]
    BY DEF CommitLogin
<1>3. \A q \in Requests : Founded(q, req[q])'
  <2>1. UsersStay
      BY <1>2 DEF UsersStay, Exists
  <2>. QED
      BY <1>1, <1>2, <2>1, AnsweredIsRequest, EndingKeeps
<1>4. TypeOK'
    BY <1>1, <1>2, AnsweredIsRequest DEF IInv, TypeOK
<1>5. RowsMade'
  <2>1. /\ req'[r].pc = "done" /\ req'[r].op = "login"
        /\ \A q \in Requests : q # r => req'[q] = req[q] /\ sessions'[q] = sessions[q]
        /\ sessions'[r] = session
      BY <1>1, <1>2, AnsweredIsRequest DEF IInv, TypeOK
  <2>2. \A q \in Requests : req[q].token # r
      BY <1>1, AccountsAssumption DEF IInv, Founded, Ids
  <2>. QED
      BY <1>1, <1>2, <2>1, <2>2 DEF IInv, RowsMade, Exists
<1>. QED
    BY <1>2, <1>3, <1>4, <1>5 DEF IInv, UsernamesUnique, Exists

\* The row of a session is deleted.
LEMMA DropSessionKeeps ==
    ASSUME IInv, NEW r \in Requests, NEW h \in Request,
           req[r].pc \in {"prune", "logout"}, req' = [req EXCEPT ![r] = h],
           h.pc \in {"done", "failed"}, h.seen = None, h.token \in {None, req[r].token},
           h.pc = "done" => h.token = req[r].token,
           sessions' = [sessions EXCEPT ![req[r].token] = None],
           UNCHANGED <<users, now>>
    PROVE  IInv'
<1>1. req[r].token \in Requests
    BY DEF IInv, Founded, Resolving
<1>2. \A q \in Requests : Founded(q, req[q])'
  <2>1. UsersStay
      BY DEF UsersStay, Exists
  <2>. QED
      BY <2>1, EndingKeeps
<1>3. TypeOK'
    BY DEF IInv, TypeOK
<1>4. RowsMade'
    BY <1>1 DEF IInv, TypeOK, RowsMade, Exists
<1>. QED
    BY <1>2, <1>3, <1>4 DEF IInv, UsernamesUnique, Exists

LEMMA PruneKeeps ==
    ASSUME IInv, NEW r \in Requests, Prune(r)
    PROVE  IInv'
<1>1. Failed \in Request /\ Failed.pc = "failed" /\ Failed.seen = None /\ Failed.token = None
    BY DEF Failed, Idle, Request
<1>. QED
    BY <1>1, DropSessionKeeps DEF Prune

LEMMA LogoutKeeps ==
    ASSUME IInv, NEW r \in Requests, Logout(r)
    PROVE  IInv'
<1>1. req[r] \in Request
    BY DEF IInv, TypeOK
<1>. QED
    BY <1>1, AnsweredIsRequest, DropSessionKeeps DEF Logout

\* A user is added, or one is saved with the name it has.
LEMMA WriteUserKeeps ==
    ASSUME IInv, NEW r \in Requests, NEW row \in UserRow, WriteUser(r, row),
           req[r].pc = "commit", req[r].target \in Ids, req[r].op # "logout",
           \/ Exists(req[r].target) /\ row.name = users[req[r].target].name
           \/ req[r].target = r /\ ~Taken(row.name)
    PROVE  IInv'
<1>. DEFINE u == req[r].target
<1>1. /\ req[r] \in Request /\ row # None /\ users' = [users EXCEPT ![u] = row]
      /\ req' = [req EXCEPT ![r] = Answered(req[r])] /\ UNCHANGED <<sessions, now>>
    BY AccountsAssumption DEF IInv, TypeOK, WriteUser
<1>2. ~Exists(u) => u = r /\ ~Taken(row.name)
    OBVIOUS
<1>3. users'[u] = row /\ \A v \in Ids : v # u => users'[v] = users[v]
    BY <1>1 DEF IInv, TypeOK
<1>4. Exists(r) => req[r].pc = "done"
    BY DEF IInv, RowsMade, Exists
<1>5. UsersStay
    BY <1>1, <1>3, <1>4 DEF UsersStay, Exists
<1>6. \A q \in Requests : Founded(q, req[q])'
    BY <1>1, <1>5, AnsweredIsRequest, EndingKeeps
<1>7. TypeOK'
    BY <1>1, AnsweredIsRequest DEF IInv, TypeOK
<1>8. RowsMade'
  <2>1. req'[r].pc = "done" /\ req'[r].op = req[r].op
        /\ \A q \in Requests : q # r => req'[q] = req[q]
      BY <1>1, AnsweredIsRequest DEF IInv, TypeOK
  <2>2. \A t \in Requests : sessions[t] # None => sessions[t].user_id \in Ids
      BY DEF IInv, TypeOK, Session
  <2>3. \A q \in Requests : users'[q] # None => req'[q].pc = "done"
      BY <1>2, <1>3, <1>4, <2>1 DEF IInv, RowsMade, Exists, Ids
  <2>. QED
      BY <1>1, <1>5, <2>1, <2>2, <2>3 DEF IInv, RowsMade, UsersStay, Exists
<1>9. UsernamesUnique'
  <2>1. ASSUME NEW v \in Ids, NEW w \in Ids, users'[v] # None, users'[w] # None,
               users'[v].name = users'[w].name
        PROVE  v = w
      BY <1>3, <1>4, <2>1 DEF IInv, UsernamesUnique, Exists, Taken, Named
  <2>. QED
      BY <2>1 DEF UsernamesUnique, Exists
<1>. QED
    BY <1>6, <1>7, <1>8, <1>9 DEF IInv

LEMMA CommitSaveKeeps ==
    ASSUME IInv, NEW r \in Requests, CommitSave(r)
    PROVE  IInv'
<1>. DEFINE stored == users[req[r].target]
            seen == req[r].seen
            row == req[r].row
            new == [name |-> Column(stored.name, seen.name, row.name),
                    role |-> Column(stored.role, seen.role, row.role),
                    enabled |-> Column(stored.enabled, seen.enabled, row.enabled),
                    hash |-> Column(stored.hash, seen.hash, row.hash)]
<1>1. /\ req[r].pc = "commit" /\ seen # None /\ req[r] \in Request
      /\ seen.name = stored.name /\ SavesUser(req[r])
    BY DEF IInv, TypeOK, CommitSave, Founded
<1>2. stored \in UserRow /\ row \in UserRow /\ row.name = stored.name
    BY <1>1 DEF IInv, TypeOK, SavesUser, Exists
<1>3. \A S, x, z : x \in S /\ z \in S => \A y : Column(x, y, z) \in S
    BY DEF Column
<1>4. /\ Column(stored.role, seen.role, row.role) \in Roles
      /\ Column(stored.enabled, seen.enabled, row.enabled) \in BOOLEAN
      /\ Column(stored.hash, seen.hash, row.hash) \in {None} \cup Ids
      /\ Column(stored.name, seen.name, row.name) = stored.name
      /\ stored.name \in Names
    BY <1>1, <1>2, <1>3 DEF UserRow, Column
<1>5. new \in UserRow /\ new.name = stored.name
    BY <1>4 DEF UserRow
<1>6. WriteUser(r, new)
    BY DEF CommitSave
<1>. HIDE DEF new
<1>. QED
    BY <1>1, <1>5, <1>6, WriteUserKeeps DEF SavesUser

LEMMA CommitPasswordKeeps ==
    ASSUME IInv, NEW r \in Requests, CommitPassword(r)
    PROVE  IInv'
<1>. DEFINE u == req[r].target
            new == [users[u] EXCEPT !.hash = r]
<1>1. /\ req[r].pc = "commit" /\ req[r].op = "set_password" /\ u \in Ids /\ Exists(u)
      /\ r \in Ids
    BY DEF IInv, CommitPassword, Founded, SavesUser, Ids
<1>2. new \in UserRow /\ new.name = users[u].name
    BY <1>1 DEF IInv, TypeOK, Exists, UserRow
<1>3. WriteUser(r, new)
    BY DEF CommitPassword
<1>. HIDE DEF new
<1>. QED
    BY <1>1, <1>2, <1>3, WriteUserKeeps

LEMMA CommitInsertKeeps ==
    ASSUME IInv, NEW r \in Requests, CommitInsert(r)
    PROVE  IInv'
<1>1. /\ req[r].pc = "commit" /\ req[r].op \in {"create", "bootstrap", "promote"}
      /\ req[r].row \in UserRow /\ req[r].target = r /\ r \in Ids
    BY DEF IInv, CommitInsert, Inserts, Founded, Ids
<1>. QED
    BY <1>1, WriteUserKeeps, RefuseKeeps DEF CommitInsert

-----------------------------------------------------------------------------
(* The invariant.                                                          *)

LEMMA InitIInv == Init => IInv
<1>. SUFFICES ASSUME Init PROVE IInv
    OBVIOUS
<1>1. Idle \in Request /\ \A r \in Requests : Founded(r, Idle)
    BY DEF Idle, Request, Founded, Resolving
<1>2. TypeOK
    BY <1>1, AccountsAssumption DEF Init, TypeOK, Ids
<1>3. UsernamesUnique
    BY AccountsAssumption DEF Init, UsernamesUnique, Exists
<1>4. RowsMade
    BY AccountsAssumption DEF Init, RowsMade, Ids, Idle
<1>. QED
    BY <1>1, <1>2, <1>3, <1>4 DEF Init, IInv

LEMMA NextIInv == IInv /\ [Next]_vars => IInv'
<1>. SUFFICES ASSUME IInv, [Next]_vars PROVE IInv'
    OBVIOUS
<1>1. ASSUME NEW r \in Requests, Handle(r) PROVE IInv'
  <2>1. CASE Abort(r)
      BY <2>1, RefuseKeeps DEF Abort, InFlight
  <2>. QED
      BY <1>1, <2>1, CheckPasswordKeeps, CommitLoginKeeps, ReadSessionKeeps, PruneKeeps,
         ReadUserKeeps, LogoutKeeps, CheckAdminKeeps, CreateUserKeeps, UpdateUserKeeps,
         SetPasswordKeeps, LookForAdminsKeeps, BootstrapKeeps, SaveKeeps, CommitSaveKeeps,
         CommitPasswordKeeps, CommitInsertKeeps DEF Handle
<1>2. ASSUME UNCHANGED <<users, sessions, req>>, now' \in 0 .. Horizon PROVE IInv'
  <2>1. TypeOK' /\ UsernamesUnique' /\ RowsMade'
      BY <1>2 DEF IInv, TypeOK, UsernamesUnique, RowsMade, Exists
  <2>2. ASSUME NEW r \in Requests PROVE Founded(r, req[r])'
      BY <1>2 DEF IInv, Founded, SavesUser, Exists
  <2>. QED
      BY <2>1, <2>2 DEF IInv
<1>3. CASE Tick
  <2>1. now' \in 0 .. Horizon
      BY <1>3, AccountsAssumption DEF Tick, IInv, TypeOK
  <2>. QED
      BY <1>2, <1>3, <2>1 DEF Tick
<1>4. CASE UNCHANGED vars
    BY <1>2, <1>4 DEF vars, IInv, TypeOK
<1>. QED
    BY <1>1, <1>3, <1>4, ArriveKeeps DEF Next

LEMMA AlwaysIInv == Spec => []IInv
BY InitIInv, NextIInv, PTL DEF Spec

\* Both tables, and what every thread holds, keep their type.
THEOREM TypeCorrect == Spec => []TypeOK
<1>1. IInv => TypeOK
    BY DEF IInv
<1>. QED
    BY <1>1, AlwaysIInv, PTL

\* However creations and bootstrap runs overlap, no two users get the same name.
THEOREM NamesStayUnique == Spec => []UsernamesUnique
<1>1. IInv => UsernamesUnique
    BY DEF IInv
<1>. QED
    BY <1>1, AlwaysIInv, PTL

-----------------------------------------------------------------------------
(* The end of a session is final.                                          *)

\* A step changes what one thread holds, one that has not ended.
LEMMA OneRequestSteps ==
    ASSUME IInv, NEW r \in Requests, Arrive(r) \/ Handle(r)
    PROVE  /\ req[r].pc # "done"
           /\ \A q \in Requests : q # r => req'[q] = req[q]
<1>. USE DEF IInv, TypeOK
<1>1. CASE Arrive(r)
    BY <1>1 DEF Arrive, ReceiveLogin, ReceiveMe, ReceiveLogout, ReceiveCreate,
                ReceiveUpdate, ReceiveSetPassword, RunBootstrap, ReceiveWithSession, Receive
<1>2. CASE CheckPassword(r) \/ ReadSession(r) \/ ReadUser(r) \/ CheckAdmin(r)
    BY <1>2 DEF CheckPassword, ReadSession, ReadUser, CheckAdmin, Refuse, GoOn
<1>3. CASE CreateUser(r) \/ UpdateUser(r) \/ SetPassword(r) \/ LookForAdmins(r)
    BY <1>3 DEF CreateUser, UpdateUser, SetPassword, LookForAdmins, Refuse, GoOn
<1>4. CASE Bootstrap(r) \/ Save(r) \/ Abort(r) \/ Prune(r) \/ Logout(r) \/ CommitLogin(r)
    BY <1>4 DEF Bootstrap, Save, Abort, InFlight, Prune, Logout, CommitLogin, Refuse, GoOn
<1>5. CASE CommitSave(r) \/ CommitPassword(r) \/ CommitInsert(r)
    BY <1>5 DEF CommitSave, CommitPassword, CommitInsert, Inserts, WriteUser, Refuse, GoOn
<1>. QED
    BY <1>1, <1>2, <1>3, <1>4, <1>5 DEF Handle

\* A request that arrives is about to verify a password, resolve a session or look for
\* administrators; it has no actor yet.
LEMMA ArrivalsStart ==
    ASSUME IInv, NEW r \in Requests, Arrive(r)
    PROVE  /\ users' = users
           /\ req'[r].pc \in {"password", "session", "admins"}
           /\ req'[r].actor = None
           /\ req'[r].token # None => req'[r].pc = "session"
<1>1. ASSUME NEW held, Receive(r, held), held.actor = None,
             held.pc \in {"password", "session", "admins"},
             held.token # None => held.pc = "session"
      PROVE  /\ users' = users
             /\ req'[r].pc \in {"password", "session", "admins"}
             /\ req'[r].actor = None
             /\ req'[r].token # None => req'[r].pc = "session"
    BY <1>1 DEF IInv, TypeOK, Receive
<1>2. CASE ReceiveLogin(r)
  <2>1. PICK name \in Names, password \in Ids :
          Receive(r, [Idle EXCEPT !.pc = "password", !.op = "login",
                                  !.name = name, !.body = password])
      BY <1>2 DEF ReceiveLogin
  <2>. DEFINE held == [Idle EXCEPT !.pc = "password", !.op = "login",
                                   !.name = name, !.body = password]
  <2>2. held.pc = "password" /\ held.actor = None /\ held.token = None
      BY DEF Idle
  <2>. HIDE DEF held
  <2>. QED
      BY <1>1, <2>1, <2>2 DEF held
<1>3. CASE RunBootstrap(r)
  <2>1. PICK op \in {"bootstrap", "promote"}, name \in Names :
          Receive(r, [Idle EXCEPT !.pc = "admins", !.op = op, !.name = name])
      BY <1>3 DEF RunBootstrap
  <2>. DEFINE held == [Idle EXCEPT !.pc = "admins", !.op = op, !.name = name]
  <2>2. held.pc = "admins" /\ held.actor = None /\ held.token = None
      BY DEF Idle
  <2>. HIDE DEF held
  <2>. QED
      BY <1>1, <2>1, <2>2 DEF held
<1>4. CASE ~ReceiveLogin(r) /\ ~RunBootstrap(r)
  <2>1. PICK op, target, name, body : ReceiveWithSession(r, op, target, name, body)
      BY <1>4 DEF Arrive, ReceiveMe, ReceiveLogout, ReceiveCreate, ReceiveUpdate,
                  ReceiveSetPassword
  <2>2. PICK t \in Requests :
          Receive(r, [Idle EXCEPT !.pc = "session", !.op = op, !.token = t,
                                  !.target = target, !.name = name, !.body = body])
      BY <2>1 DEF ReceiveWithSession
  <2>. DEFINE held == [Idle EXCEPT !.pc = "session", !.op = op, !.token = t,
                                   !.target = target, !.name = name, !.body = body]
  <2>3. held.pc = "session" /\ held.actor = None
      BY DEF Idle
  <2>. HIDE DEF held
  <2>. QED
      BY <1>1, <2>2, <2>3 DEF held
<1>. QED
    BY <1>2, <1>3, <1>4

\* A request keeps its cookie to the end, or drops it when it fails; only resolving the
\* session names an actor.
LEMMA TokenStays ==
    ASSUME IInv, NEW r \in Requests, Handle(r)
    PROVE  /\ req'[r].token \in {None, req[r].token}
           /\ req'[r].actor \in {None, req[r].actor} \/ ReadUser(r)
<1>1. req[r] \in Request /\ req[r].pc # "done"
      /\ \A held : GoOn(r, held) => req'[r] = held
    BY OneRequestSteps DEF IInv, TypeOK, GoOn
<1>2. Refuse(r) => req'[r].token = None /\ req'[r].actor = None
    BY <1>1 DEF Refuse, Failed, Idle
<1>3. \A q \in Request : Answered(q).token = q.token /\ Answered(q).actor = q.actor
    BY DEF Answered, Request
<1>4. ASSUME NEW pc, GoOn(r, [req[r] EXCEPT !.pc = pc])
      PROVE  req'[r].token = req[r].token /\ req'[r].actor = req[r].actor
    BY <1>1, <1>4 DEF Request
<1>5. ASSUME NEW pc, NEW row, GoOn(r, [req[r] EXCEPT !.pc = pc, !.row = row])
      PROVE  req'[r].token = req[r].token /\ req'[r].actor = req[r].actor
    BY <1>1, <1>5 DEF Request
<1>6. ASSUME NEW pc, NEW target, NEW row,
             GoOn(r, [req[r] EXCEPT !.pc = pc, !.target = target, !.row = row])
      PROVE  req'[r].token = req[r].token /\ req'[r].actor = req[r].actor
    BY <1>1, <1>6 DEF Request
<1>7. CASE CheckPassword(r) \/ ReadSession(r) \/ CheckAdmin(r)
    BY <1>2, <1>4, <1>5, <1>6, <1>7 DEF CheckPassword, ReadSession, CheckAdmin
<1>8. CASE ReadUser(r)
  <2>. DEFINE u == req[r].row.user_id
              accepted == [req[r] EXCEPT !.actor = u, !.role = users[u].role, !.row = None]
  <2>1. accepted.token = req[r].token
      BY <1>1 DEF Request
  <2>2. /\ Answered(accepted).token = accepted.token
        /\ \A pc : [accepted EXCEPT !.pc = pc].token = accepted.token
      BY <1>1 DEF Request, Answered
  <2>. HIDE DEF accepted
  <2>3. \/ Refuse(r)
        \/ GoOn(r, Answered(accepted))
        \/ \E pc : GoOn(r, [accepted EXCEPT !.pc = pc])
      BY <1>8 DEF ReadUser, accepted
  <2>. QED
      BY <1>1, <1>2, <1>8, <2>1, <2>2, <2>3
<1>9. CASE CreateUser(r) \/ UpdateUser(r) \/ SetPassword(r) \/ LookForAdmins(r)
    BY <1>2, <1>4, <1>5, <1>9 DEF CreateUser, UpdateUser, SetPassword, LookForAdmins
<1>10. CASE Bootstrap(r) \/ Abort(r)
    BY <1>2, <1>6, <1>10 DEF Bootstrap, Abort
<1>11. CASE Save(r)
    BY <1>1, <1>11 DEF Save, Request
<1>12. CASE Prune(r) \/ Logout(r) \/ CommitLogin(r)
    BY <1>1, <1>3, <1>12 DEF IInv, TypeOK, Prune, Logout, CommitLogin, Failed, Idle
<1>13. CASE CommitSave(r) \/ CommitPassword(r) \/ CommitInsert(r)
    BY <1>1, <1>2, <1>3, <1>13
       DEF IInv, TypeOK, CommitSave, CommitPassword, CommitInsert, WriteUser
<1>. QED
    BY <1>7, <1>8, <1>9, <1>10, <1>11, <1>12, <1>13 DEF Handle

\* Where the resolution of a session leads to.
LEMMA ResolvingGoesOn ==
    ASSUME IInv, NEW r \in Requests, ReadSession(r) \/ ReadUser(r), ~Refuse(r)
    PROVE  /\ req'[r].pc \in {"prune", "user", "logout", "actor", "done"}
           /\ users' = users
<1>. DEFINE u == req[r].row.user_id
            accepted == [req[r] EXCEPT !.actor = u, !.role = users[u].role, !.row = None]
            pruned == [req[r] EXCEPT !.pc = "prune"]
            found == [req[r] EXCEPT !.pc = "user", !.row = sessions[req[r].token]]
<1>1. req[r] \in Request
    BY DEF IInv, TypeOK
<1>2. /\ Answered(accepted).pc = "done"
      /\ \A pc : [accepted EXCEPT !.pc = pc].pc = pc
      /\ pruned.pc = "prune" /\ found.pc = "user"
    BY <1>1 DEF Request, Answered
<1>. HIDE DEF accepted
<1>3. CASE ReadSession(r)
  <2>1. GoOn(r, pruned) \/ GoOn(r, found)
      BY <1>3 DEF ReadSession
  <2>. HIDE DEF pruned, found
  <2>. QED
      BY <1>2, <2>1 DEF IInv, TypeOK, GoOn
<1>4. CASE ReadUser(r)
  <2>1. PICK held : GoOn(r, held) /\ held.pc \in {"logout", "actor", "done"}
      BY <1>2, <1>4 DEF ReadUser, accepted
  <2>. QED
      BY <2>1 DEF IInv, TypeOK, GoOn
<1>. QED
    BY <1>3, <1>4

\* The session of login t is over in the tables as well, and request r has not come past
\* the reading of its row.
Gone(t, r) ==
    /\ req[t].op = "login"
    /\ req[t].pc = "done"
    /\ sessions[t] = None \/ sessions[t].expires_at <= now
    /\ req[r].token = t => req[r].actor = None /\ req[r].pc \in {"session", "prune"}

\* Rows of sessions appear only for the login that is just answered.
LEMMA SessionsOnlyEnd ==
    ASSUME IInv, NEW t \in Requests, req[t].pc = "done",
           NEW r \in Requests, Arrive(r) \/ Handle(r)
    PROVE  sessions'[t] \in {None, sessions[t]} /\ now' = now
<1>. USE DEF IInv, TypeOK
<1>1. CASE Arrive(r)
    BY <1>1 DEF Arrive, ReceiveLogin, ReceiveMe, ReceiveLogout, ReceiveCreate,
                ReceiveUpdate, ReceiveSetPassword, RunBootstrap, ReceiveWithSession, Receive
<1>2. CASE Prune(r) \/ Logout(r) \/ CommitLogin(r)
    BY <1>2 DEF Prune, Logout, CommitLogin
<1>3. CASE Handle(r) /\ ~(Prune(r) \/ Logout(r) \/ CommitLogin(r))
    BY <1>3 DEF Handle, CheckPassword, ReadSession, ReadUser, CheckAdmin, CreateUser,
                UpdateUser, SetPassword, LookForAdmins, Bootstrap, Save, Abort, CommitSave,
                CommitPassword, CommitInsert, WriteUser, Refuse, GoOn
<1>. QED
    BY <1>1, <1>2, <1>3

LEMMA GoneStays ==
    ASSUME NEW t \in Requests, NEW r \in Requests
    PROVE  IInv /\ Gone(t, r) /\ [Next]_vars => Gone(t, r)'
<1>. SUFFICES ASSUME IInv, Gone(t, r), [Next]_vars PROVE Gone(t, r)'
    OBVIOUS
<1>1. t # None /\ req[r] \in Request
    BY AccountsAssumption DEF Ids, IInv, TypeOK
<1>2. sessions[t] # None => sessions[t].expires_at \in Nat
    BY DEF IInv, TypeOK, Session
<1>3. now \in Nat /\ 0 .. Horizon \subseteq Nat
    BY AccountsAssumption DEF IInv, TypeOK
<1>4. ASSUME NEW q \in Requests, Arrive(q) \/ Handle(q) PROVE Gone(t, r)'
  <2>1. /\ q # t /\ req'[t] = req[t]
        /\ q # r => req'[r] = req[r]
        /\ sessions'[t] = None \/ sessions'[t].expires_at <= now'
      BY <1>4, OneRequestSteps, SessionsOnlyEnd DEF Gone
  <2>2. CASE q # r \/ req'[r].token # t
      BY <2>1, <2>2 DEF Gone
  <2>3. CASE q = r /\ req'[r].token = t /\ Arrive(r)
    <3>1. req'[r].pc = "session" /\ req'[r].actor = None
        BY <1>1, <2>3, ArrivalsStart
    <3>. QED
        BY <2>1, <3>1 DEF Gone
  <2>4. CASE q = r /\ req'[r].token = t /\ Handle(r)
    <3>1. req[r].token = t /\ req[r].pc \in {"session", "prune"} /\ req[r].actor = None
        BY <1>1, <2>4, TokenStays DEF Gone
    <3>2. ReadSession(r) \/ Prune(r) \/ Abort(r)
        BY <2>4, <3>1 DEF Handle, CheckPassword, CommitLogin, ReadUser, Logout, CheckAdmin,
              CreateUser, UpdateUser, SetPassword, LookForAdmins, Bootstrap, Save,
              CommitSave, CommitPassword, CommitInsert, Inserts
    <3>3. Prune(r) \/ Refuse(r) => req'[r].token = None
        BY DEF IInv, TypeOK, Prune, Refuse, GoOn, Failed, Idle
    <3>4. ReadSession(r) /\ ~Refuse(r)
        BY <1>1, <2>4, <3>2, <3>3 DEF Abort
    <3>5. ~(sessions[t] # None /\ sessions[t].expires_at > now)
        BY <1>2, <1>3 DEF IInv, TypeOK, Gone
    <3>6. GoOn(r, [req[r] EXCEPT !.pc = "prune"])
        BY <3>1, <3>4, <3>5 DEF ReadSession
    <3>7. req'[r].pc = "prune" /\ req'[r].actor = None
        BY <1>1, <3>1, <3>6 DEF IInv, TypeOK, GoOn, Request
    <3>. QED
        BY <2>1, <3>7 DEF Gone
  <2>. QED
      BY <1>4, <2>2, <2>3, <2>4
<1>5. CASE Tick
    BY <1>2, <1>3, <1>5 DEF Tick, Gone, IInv, TypeOK
<1>6. CASE UNCHANGED vars
    BY <1>6 DEF vars, Gone
<1>. QED
    BY <1>4, <1>5, <1>6 DEF Next

\* A session that ended is never accepted again from a request that comes in later,
\* whatever overlaps with logout, expiry and pruning.
THEOREM SessionsEndForGood == Spec => EndedSessionsStayEnded
<1>1. ASSUME NEW t \in Requests, NEW r \in Requests
      PROVE  Spec => [](Over(t) /\ req[r].pc = "idle"
                          => [](req[r].token = t => req[r].actor = None))
  <2>1. IInv /\ Over(t) /\ req[r].pc = "idle" => Gone(t, r)
      BY AccountsAssumption DEF IInv, RowsMade, Founded, Idle, Over, Gone, Ids
  <2>2. IInv /\ Gone(t, r) /\ [Next]_vars => Gone(t, r)'
      BY GoneStays
  <2>3. Gone(t, r) => (req[r].token = t => req[r].actor = None)
      BY DEF Gone
  <2>. QED
      BY <2>1, <2>2, <2>3, AlwaysIInv, PTL DEF Spec
<1>. QED
    BY <1>1 DEF EndedSessionsStayEnded

-----------------------------------------------------------------------------
(* Without an administrator only the bootstrap command makes one.          *)

Bootstrapped == \E r \in Requests : req[r].pc = "done" /\ req[r].op \in {"bootstrap", "promote"}

\* No thread is past the check that its actor is an administrator.
Leaderless ==
    /\ \A u \in Ids : ~EnabledAdmin(u)
    /\ \A r \in Requests :
        /\ req[r].pc \notin {"create", "update", "set_password"}
        /\ req[r].pc \in {"save", "commit"} => req[r].op \in {"login", "bootstrap", "promote"}

LEMMA LockoutStays == IInv /\ (Bootstrapped \/ Leaderless) /\ [Next]_vars
                        => (Bootstrapped \/ Leaderless)'
<1>. SUFFICES ASSUME IInv, Bootstrapped \/ Leaderless, [Next]_vars
              PROVE  (Bootstrapped \/ Leaderless)'
    OBVIOUS
<1>1. CASE Bootstrapped
    BY <1>1, OneRequestSteps DEF Bootstrapped, Next, Tick, vars
<1>2. ASSUME Leaderless, NEW r \in Requests, Arrive(r) \/ Handle(r)
      PROVE  (Bootstrapped \/ Leaderless)'
  <2>1. req[r] \in Request /\ Founded(r, req[r]) /\ Leaderless
        /\ \A q \in Requests : q # r => req'[q] = req[q]
      BY <1>2, OneRequestSteps DEF IInv, TypeOK
  <2>2. ASSUME users' = users,
               req'[r].pc \notin {"create", "update", "set_password"},
               req'[r].pc \in {"save", "commit"} =>
                 req'[r].op \in {"login", "bootstrap", "promote"}
        PROVE  Leaderless'
      BY <2>1, <2>2 DEF Leaderless, EnabledAdmin, Exists
  <2>3. ASSUME NEW held \in Request, GoOn(r, held),
               held.pc \notin {"create", "update", "set_password"},
               held.pc \in {"save", "commit"} =>
                 held.op \in {"login", "bootstrap", "promote"}
        PROVE  Leaderless'
      BY <2>2, <2>3 DEF IInv, TypeOK, GoOn
  <2>4. ASSUME Refuse(r) PROVE Leaderless'
    <3>1. Failed \in Request /\ Failed.pc = "failed"
        BY DEF Failed, Idle, Request
    <3>. QED
        BY <2>3, <2>4, <3>1 DEF Refuse
  <2>5. CASE Arrive(r)
    <3>1. users' = users /\ req'[r].pc \in {"password", "session", "admins"}
        BY <2>5, ArrivalsStart
    <3>. QED
        BY <2>2, <3>1
  <2>6. CASE CheckPassword(r) /\ ~Refuse(r)
    <3>1. PICK u, session :
            GoOn(r, [req[r] EXCEPT !.pc = "commit", !.target = u, !.row = session])
        BY <2>6 DEF CheckPassword
    <3>2. req[r].op = "login"
        BY <2>1, <2>6 DEF CheckPassword, Founded
    <3>3. users' = users /\ req'[r].pc = "commit" /\ req'[r].op = "login"
        BY <2>1, <3>1, <3>2 DEF IInv, TypeOK, GoOn, Request
    <3>. QED
        BY <2>2, <3>3
  <2>7. CASE (ReadSession(r) \/ ReadUser(r)) /\ ~Refuse(r)
    <3>1. req'[r].pc \in {"prune", "user", "logout", "actor", "done"} /\ users' = users
        BY <2>7, ResolvingGoesOn
    <3>. QED
        BY <2>2, <3>1
  <2>8. CASE Prune(r) \/ Logout(r) \/ CommitLogin(r)
    <3>1. users' = users /\ req'[r].pc \in {"failed", "done"}
        BY <2>1, <2>8, AnsweredIsRequest
           DEF IInv, TypeOK, Prune, Logout, CommitLogin, Failed, Idle
    <3>. QED
        BY <2>2, <3>1
  <2>9. CASE CheckAdmin(r)
    <3>1. ~EnabledAdmin(req[r].actor)
        BY <2>1, <2>9 DEF CheckAdmin, Founded, Leaderless
    <3>. QED
        BY <2>4, <2>9, <3>1 DEF CheckAdmin
  <2>10. CASE (LookForAdmins(r) \/ Bootstrap(r)) /\ ~Refuse(r)
    <3>1. req[r].op \in {"bootstrap", "promote"}
        BY <2>1, <2>10 DEF LookForAdmins, Bootstrap, Founded
    <3>2. PICK held : /\ GoOn(r, held)
                      /\ held.op = req[r].op
                      /\ held.pc \in {"name", "save", "commit"}
      <4>1. CASE LookForAdmins(r)
          BY <2>1, <2>10, <4>1 DEF LookForAdmins, Request
      <4>2. CASE Bootstrap(r)
        <5>. DEFINE promoted(u) == [users[u] EXCEPT !.role = "admin", !.enabled = TRUE,
                                                    !.hash = r]
                    first == [name |-> req[r].name, role |-> "admin", enabled |-> TRUE,
                              hash |-> r]
                    saving(u) == [req[r] EXCEPT !.pc = "save", !.target = u,
                                                !.row = promoted(u)]
                    adding == [req[r] EXCEPT !.pc = "commit", !.target = r, !.row = first]
        <5>1. (\E u \in Ids : GoOn(r, saving(u))) \/ GoOn(r, adding)
            BY <2>10, <4>2 DEF Bootstrap
        <5>. HIDE DEF promoted, first
        <5>2. /\ \A u : saving(u).pc = "save" /\ saving(u).op = req[r].op
              /\ adding.pc = "commit" /\ adding.op = req[r].op
            BY <2>1 DEF Request
        <5>. HIDE DEF saving, adding
        <5>. QED
            BY <5>1, <5>2
      <4>. QED
          BY <2>10, <4>1, <4>2
    <3>3. users' = users /\ req'[r] = held
        BY <3>2 DEF IInv, TypeOK, GoOn
    <3>. QED
        BY <2>2, <3>1, <3>2, <3>3
  <2>11. CASE Save(r)
    <3>1. /\ users' = users /\ req'[r].pc = "commit" /\ req'[r].op = req[r].op
          /\ req[r].op \in {"login", "bootstrap", "promote"}
        BY <2>1, <2>11 DEF IInv, TypeOK, Save, GoOn, Request, Leaderless
    <3>. QED
        BY <2>2, <3>1
  <2>12. CASE CommitSave(r) \/ CommitInsert(r)
    <3>1. req[r].op \in {"bootstrap", "promote"}
        BY <2>1, <2>12 DEF CommitSave, CommitInsert, Inserts, Leaderless, Founded, SavesUser
    <3>2. CASE ~Refuse(r)
      <4>1. req'[r].pc = "done" /\ req'[r].op = req[r].op
          BY <2>1, <2>12, <3>2, AnsweredIsRequest
             DEF IInv, TypeOK, CommitSave, CommitInsert, WriteUser
      <4>. QED
          BY <3>1, <4>1 DEF Bootstrapped
    <3>. QED
        BY <2>4, <3>2
  <2>13. ~(CreateUser(r) \/ UpdateUser(r) \/ SetPassword(r) \/ CommitPassword(r))
      BY <2>1 DEF CreateUser, UpdateUser, SetPassword, CommitPassword, Leaderless
  <2>14. CASE Abort(r)
      BY <2>4, <2>14 DEF Abort
  <2>. QED
      BY <1>2, <2>4, <2>5, <2>6, <2>7, <2>8, <2>9, <2>10, <2>11, <2>12, <2>13, <2>14
         DEF Handle
<1>3. ASSUME Leaderless, UNCHANGED <<users, req>> PROVE Leaderless'
    BY <1>3 DEF Leaderless, EnabledAdmin, Exists
<1>. QED
    BY <1>1, <1>2, <1>3 DEF Next, Tick, vars

\* Requests accepted from a former administrator cannot end a lockout: the bootstrap
\* command was run if there is an administrator again.
THEOREM OnlyBootstrapEndsLockout == Spec => LockoutNeedsBootstrap
<1>. DEFINE Led == \E u \in Ids : EnabledAdmin(u)
<1>1. LockedOut => Bootstrapped \/ Leaderless
    BY DEF LockedOut, Leaderless
<1>2. Bootstrapped \/ Leaderless => (Led => Bootstrapped)
    BY DEF Leaderless
<1>. HIDE DEF Led
<1>3. Spec => [](LockedOut => [](Led => Bootstrapped))
    BY <1>1, <1>2, LockoutStays, AlwaysIInv, PTL DEF Spec
<1>. QED
    BY <1>3 DEF LockoutNeedsBootstrap, Led, Bootstrapped

-----------------------------------------------------------------------------
(* When requests do not overlap, Accounts implements AccountContract. A    *)
(* commit is an operation of the contract, every other step but the        *)
(* passing of time stutters: what a thread has read since its request came *)
(* in must still be so (Current).                                          *)

Led == \E u \in Ids : EnabledAdmin(u)

Patched(user, patch) ==
    [user EXCEPT !.role = Given(patch.role, @), !.enabled = Given(patch.enabled, @)]

Promoted(user, r) == [user EXCEPT !.role = "admin", !.enabled = TRUE, !.hash = r]

Managing == {"create", "update", "set_password"}
Bootstrapping == {"bootstrap", "promote"}

\* What the thread of r, holding q, has read or put together, against the tables as they
\* are.
Current(r, q) ==
    /\ q.pc \in Managing \cup {"save", "commit"} /\ q.op \in Managing => Led
    /\ q.pc \in {"name", "save", "commit"} /\ q.op \in Bootstrapping => ~Led
    /\ q.pc = "commit" /\ q.op = "login" =>
         /\ users[q.row.user_id].enabled
         /\ users[q.row.user_id].hash # None
         /\ \E since \in 0 .. now : q.row.expires_at = since + TTL
    /\ q.pc \in {"save", "commit"} /\ q.op = "update" =>
         \E patch \in Patches : q.row = Patched(users[q.target], patch)
    /\ q.op = "promote" /\ (q.pc = "save" \/ q.seen # None) =>
         q.row = Promoted(users[q.target], r)
    /\ q.seen # None => q.seen = users[q.target]
    /\ q.pc = "commit" /\ q.op = "create" => q.row.hash = None
    /\ q.pc = "commit" /\ q.op \in Bootstrapping /\ q.seen = None =>
         q.row = [name |-> q.row.name, role |-> "admin", enabled |-> TRUE, hash |-> r]

\* A password is set when the request it is named after ends.
HashesSet ==
    \A u \in Ids, r \in Requests : Exists(u) /\ users[u].hash = r => req[r].pc = "done"

SInv == OneAtATime /\ HashesSet /\ \A r \in Requests : Current(r, req[r])

-----------------------------------------------------------------------------
(* What a step leaves alone.                                               *)

\* Every step of a thread starts or ends in the middle of its request, so no other
\* request is there.
LEMMA OthersRest ==
    ASSUME IInv, OneAtATime, OneAtATime', NEW r \in Requests, Arrive(r) \/ Handle(r),
           NEW q \in Requests, q # r
    PROVE  req'[q].pc \notin InFlight
<1>1. req'[q] = req[q]
    BY OneRequestSteps
<1>2. req[r].pc \in InFlight \/ req'[r].pc \in InFlight
  <2>1. CASE Arrive(r)
      BY <2>1, ArrivalsStart DEF InFlight
  <2>2. CASE Handle(r)
      BY <2>2 DEF Handle, CheckPassword, CommitLogin, ReadSession, Prune, ReadUser, Logout,
                  CheckAdmin, CreateUser, UpdateUser, SetPassword, LookForAdmins, Bootstrap,
                  Save, CommitSave, CommitPassword, CommitInsert, Inserts, Abort, InFlight
  <2>. QED
      BY <2>1, <2>2
<1>. QED
    BY <1>1, <1>2 DEF OneAtATime

\* A thread that is not past its last check owes nothing.
LEMMA EarlyIsCurrent ==
    ASSUME NEW r \in Requests, NEW q, Founded(r, q),
           q.pc \notin Managing \cup {"name", "save", "commit"}
    PROVE  Current(r, q)
BY DEF Current, Founded

\* It is enough to look at the thread that takes the step.
LEMMA StepKeepsCurrent ==
    ASSUME IInv, IInv', SInv, OneAtATime', HashesSet',
           NEW r \in Requests, Arrive(r) \/ Handle(r), Current(r, req[r])'
    PROVE  SInv'
<1>1. ASSUME NEW q \in Requests, q # r PROVE Current(q, req[q])'
  <2>1. req'[q].pc \notin InFlight
      BY <1>1, OthersRest DEF SInv
  <2>2. Founded(q, req[q])'
      BY DEF IInv
  <2>. QED
      BY <2>1, <2>2 DEF Current, Founded, InFlight, Managing
<1>. QED
    BY <1>1 DEF SInv

\* A thread that ends, fails or has not come far.
LEMMA EarlyStepKeeps ==
    ASSUME IInv, IInv', SInv, OneAtATime', HashesSet',
           NEW r \in Requests, Arrive(r) \/ Handle(r),
           req'[r].pc \notin Managing \cup {"name", "save", "commit"}
    PROVE  SInv'
<1>1. Founded(r, req[r])'
    BY DEF IInv
<1>2. Current(r, req[r])'
    BY <1>1 DEF Current, Founded, Managing
<1>. QED
    BY <1>2, StepKeepsCurrent

\* A thread that goes on without writing, holding something that is current.
LEMMA GoOnStaysCurrent ==
    ASSUME IInv, IInv', SInv, OneAtATime', NEW r \in Requests, Handle(r),
           NEW held, GoOn(r, held), Current(r, held)
    PROVE  SInv'
<1>1. req'[r] = held /\ users' = users /\ now' = now
    BY DEF IInv, TypeOK, GoOn
<1>2. Current(r, req[r])'
    BY <1>1 DEF Current, Led, EnabledAdmin, Exists
<1>3. HashesSet'
    BY <1>1, OneRequestSteps DEF SInv, HashesSet, Exists
<1>. QED
    BY <1>2, <1>3, StepKeepsCurrent

\* Nothing is written to the users table, and the thread ends or has not come far.
LEMMA QuietStepKeeps ==
    ASSUME IInv, IInv', SInv, OneAtATime', NEW r \in Requests, Arrive(r) \/ Handle(r),
           users' = users, req'[r].pc \notin Managing \cup {"name", "save", "commit"}
    PROVE  SInv'
<1>1. HashesSet'
    BY OneRequestSteps DEF SInv, HashesSet, Exists
<1>. QED
    BY <1>1, EarlyStepKeeps

LEMMA RefuseStaysCurrent ==
    ASSUME IInv, IInv', SInv, OneAtATime', NEW r \in Requests, Handle(r), Refuse(r)
    PROVE  SInv'
<1>1. req'[r].pc = "failed" /\ users' = users
    BY DEF IInv, TypeOK, Refuse, GoOn, Failed, Idle
<1>. QED
    BY <1>1, QuietStepKeeps DEF Managing

-----------------------------------------------------------------------------
(* The steps of a handler before its commit.                               *)

LEMMA CheckPasswordIsCurrent ==
    ASSUME IInv, IInv', SInv, OneAtATime', NEW r \in Requests, Handle(r), CheckPassword(r)
    PROVE  SInv'
<1>1. /\ req[r] \in Request /\ Founded(r, req[r]) /\ req[r].pc = "password"
      /\ now \in 0 .. Horizon
    BY DEF IInv, TypeOK, CheckPassword
<1>2. ASSUME NEW u \in Ids, users[u].enabled, users[u].hash = req[r].body,
             GoOn(r, [req[r] EXCEPT !.pc = "commit", !.target = u,
                                    !.row = [user_id |-> u, expires_at |-> now + TTL]])
      PROVE  SInv'
  <2>. DEFINE session == [user_id |-> u, expires_at |-> now + TTL]
              held == [req[r] EXCEPT !.pc = "commit", !.target = u, !.row = session]
  <2>1. session.user_id = u /\ session.expires_at = now + TTL
      OBVIOUS
  <2>. HIDE DEF session
  <2>2. held.pc = "commit" /\ held.op = "login" /\ held.row = session /\ held.seen = None
      BY <1>1 DEF Request, Founded
  <2>. HIDE DEF held
  <2>3. users[u].hash # None /\ now \in 0 .. now
      BY <1>1, <1>2, AccountsAssumption DEF Founded
  <2>4. Current(r, held)
      BY <1>2, <2>1, <2>2, <2>3 DEF Current, Managing, Bootstrapping
  <2>. QED
      BY <1>2, <2>4, GoOnStaysCurrent DEF held, session
<1>. QED
    BY <1>2, RefuseStaysCurrent DEF CheckPassword

LEMMA CheckAdminIsCurrent ==
    ASSUME IInv, IInv', SInv, OneAtATime', NEW r \in Requests, Handle(r), CheckAdmin(r)
    PROVE  SInv'
<1>1. /\ req[r] \in Request /\ Founded(r, req[r]) /\ req[r].pc = "actor"
    BY DEF IInv, TypeOK, CheckAdmin
<1>2. ASSUME EnabledAdmin(req[r].actor), GoOn(r, [req[r] EXCEPT !.pc = req[r].op])
      PROVE  SInv'
  <2>. DEFINE held == [req[r] EXCEPT !.pc = req[r].op]
  <2>1. held.pc = req[r].op /\ held.op = req[r].op /\ held.seen = None
      BY <1>1 DEF Request, Founded
  <2>. HIDE DEF held
  <2>2. Led /\ req[r].op \in Managing
      BY <1>1, <1>2 DEF Led, Founded, Managing
  <2>3. Current(r, held)
      BY <2>1, <2>2 DEF Current, Managing, Bootstrapping
  <2>. QED
      BY <1>2, <2>3, GoOnStaysCurrent DEF held
<1>. QED
    BY <1>2, RefuseStaysCurrent DEF CheckAdmin

LEMMA CreateUserIsCurrent ==
    ASSUME IInv, IInv', SInv, OneAtATime', NEW r \in Requests, Handle(r), CreateUser(r)
    PROVE  SInv'
<1>. DEFINE row == [name |-> req[r].name, role |-> req[r].body.role,
                    enabled |-> req[r].body.enabled, hash |-> None]
            held == [req[r] EXCEPT !.pc = "commit", !.row = row]
<1>1. /\ req[r] \in Request /\ Founded(r, req[r]) /\ req[r].pc = "create"
      /\ Current(r, req[r])
    BY DEF IInv, TypeOK, SInv, CreateUser
<1>2. row.hash = None
    OBVIOUS
<1>. HIDE DEF row
<1>3. held.pc = "commit" /\ held.op = "create" /\ held.row = row /\ held.seen = None
    BY <1>1 DEF Request, Founded
<1>. HIDE DEF held
<1>4. Current(r, held)
    BY <1>1, <1>2, <1>3 DEF Current, Founded, Managing, Bootstrapping
<1>5. GoOn(r, held) => SInv'
    BY <1>4, GoOnStaysCurrent
<1>. QED
    BY <1>5, RefuseStaysCurrent DEF CreateUser, held, row

LEMMA UpdateUserIsCurrent ==
    ASSUME IInv, IInv', SInv, OneAtATime', NEW r \in Requests, Handle(r), UpdateUser(r)
    PROVE  SInv'
<1>. DEFINE u == req[r].target
            row == Patched(users[u], req[r].body)
            held == [req[r] EXCEPT !.pc = "save", !.row = row]
<1>1. /\ req[r] \in Request /\ Founded(r, req[r]) /\ req[r].pc = "update"
      /\ Current(r, req[r])
    BY DEF IInv, TypeOK, SInv, UpdateUser
<1>2. \E patch \in Patches : row = Patched(users[u], patch)
    BY <1>1 DEF Founded
<1>3. GoOn(r, held) \/ Refuse(r)
    BY DEF UpdateUser, Patched
<1>. HIDE DEF row
<1>4. /\ held.pc = "save" /\ held.op = "update" /\ held.row = row /\ held.seen = None
      /\ held.target = u
    BY <1>1 DEF Request, Founded
<1>. HIDE DEF held
<1>5. Current(r, held)
    BY <1>1, <1>2, <1>4 DEF Current, Founded, Managing, Bootstrapping
<1>. QED
    BY <1>3, <1>5, GoOnStaysCurrent, RefuseStaysCurrent

LEMMA SetPasswordIsCurrent ==
    ASSUME IInv, IInv', SInv, OneAtATime', NEW r \in Requests, Handle(r), SetPassword(r)
    PROVE  SInv'
<1>. DEFINE held == [req[r] EXCEPT !.pc = "commit"]
<1>1. /\ req[r] \in Request /\ Founded(r, req[r]) /\ req[r].pc = "set_password"
      /\ Current(r, req[r])
    BY DEF IInv, TypeOK, SInv, SetPassword
<1>2. held.pc = "commit" /\ held.op = "set_password" /\ held.seen = None
    BY <1>1 DEF Request, Founded
<1>. HIDE DEF held
<1>3. Current(r, held)
    BY <1>1, <1>2 DEF Current, Founded, Managing, Bootstrapping
<1>. QED
    BY <1>3, GoOnStaysCurrent, RefuseStaysCurrent DEF SetPassword, held

LEMMA LookForAdminsIsCurrent ==
    ASSUME IInv, IInv', SInv, OneAtATime', NEW r \in Requests, Handle(r), LookForAdmins(r)
    PROVE  SInv'
<1>. DEFINE held == [req[r] EXCEPT !.pc = "name"]
<1>1. /\ req[r] \in Request /\ Founded(r, req[r]) /\ req[r].pc = "admins"
    BY DEF IInv, TypeOK, LookForAdmins
<1>2. held.pc = "name" /\ held.op \in Bootstrapping /\ held.seen = None
    BY <1>1 DEF Request, Founded, Bootstrapping
<1>. HIDE DEF held
<1>3. ~Led => Current(r, held)
    BY <1>2 DEF Current, Managing, Bootstrapping
<1>. QED
    BY <1>3, GoOnStaysCurrent, RefuseStaysCurrent DEF LookForAdmins, held, Led

LEMMA BootstrapIsCurrent ==
    ASSUME IInv, IInv', SInv, OneAtATime', NEW r \in Requests, Handle(r), Bootstrap(r)
    PROVE  SInv'
<1>1. /\ req[r] \in Request /\ req[r].pc = "name" /\ req[r].seen = None
      /\ req[r].op \in Bootstrapping /\ ~Led
    BY DEF IInv, TypeOK, SInv, Bootstrap, Founded, Current, Bootstrapping
<1>2. ASSUME NEW u \in Ids, req[r].op = "promote",
             GoOn(r, [req[r] EXCEPT !.pc = "save", !.target = u,
                        !.row = Promoted(users[u], r)])
      PROVE  SInv'
  <2>. DEFINE row == Promoted(users[u], r)
              held == [req[r] EXCEPT !.pc = "save", !.target = u, !.row = row]
  <2>. HIDE DEF row
  <2>1. /\ held.pc = "save" /\ held.op = "promote" /\ held.target = u /\ held.row = row
        /\ held.seen = None
      BY <1>1, <1>2 DEF Request
  <2>. HIDE DEF held
  <2>2. Current(r, held)
      BY <1>1, <2>1 DEF Current, Managing, row
  <2>. QED
      BY <1>2, <2>2, GoOnStaysCurrent DEF held, row
<1>3. ASSUME GoOn(r, [req[r] EXCEPT !.pc = "commit", !.target = r,
                        !.row = [name |-> req[r].name, role |-> "admin",
                                 enabled |-> TRUE, hash |-> r]])
      PROVE  SInv'
  <2>. DEFINE row == [name |-> req[r].name, role |-> "admin", enabled |-> TRUE, hash |-> r]
              held == [req[r] EXCEPT !.pc = "commit", !.target = r, !.row = row]
  <2>1. row = [name |-> row.name, role |-> "admin", enabled |-> TRUE, hash |-> r]
      OBVIOUS
  <2>. HIDE DEF row
  <2>2. held.pc = "commit" /\ held.op = req[r].op /\ held.row = row /\ held.seen = None
      BY <1>1 DEF Request
  <2>. HIDE DEF held
  <2>3. Current(r, held)
      BY <1>1, <2>1, <2>2 DEF Current, Managing, Bootstrapping
  <2>. QED
      BY <1>3, <2>3, GoOnStaysCurrent DEF held, row
<1>. QED
    BY <1>2, <1>3, RefuseStaysCurrent DEF Bootstrap, Promoted

LEMMA SaveIsCurrent ==
    ASSUME IInv, IInv', SInv, OneAtATime', NEW r \in Requests, Handle(r), Save(r)
    PROVE  SInv'
<1>. DEFINE seen == users[req[r].target]
            held == [req[r] EXCEPT !.pc = "commit", !.seen = seen]
<1>1. /\ req[r] \in Request /\ req[r].pc = "save" /\ Current(r, req[r])
      /\ SavesUser(req[r]) /\ GoOn(r, held)
    BY DEF IInv, TypeOK, SInv, Save, Founded
<1>2. seen # None
    BY <1>1 DEF SavesUser, Exists
<1>. HIDE DEF seen
<1>3. /\ held.pc = "commit" /\ held.op = req[r].op /\ held.target = req[r].target
      /\ held.row = req[r].row /\ held.seen = seen
    BY <1>1 DEF Request
<1>. HIDE DEF held
<1>4. Current(r, held)
    BY <1>1, <1>2, <1>3 DEF Current, SavesUser, Managing, Bootstrapping, seen
<1>. QED
    BY <1>1, <1>4, GoOnStaysCurrent

-----------------------------------------------------------------------------
(* Commits, and the operation of the contract that each of them is.        *)

\* Over a row that it read twice, a save writes what it was given.
LEMMA SaveWritesRow ==
    ASSUME IInv, SInv, NEW r \in Requests, CommitSave(r)
    PROVE  /\ WriteUser(r, req[r].row)
           /\ req[r].pc = "commit" /\ SavesUser(req[r])
           /\ Current(r, req[r]) /\ req[r].seen # None
<1>. DEFINE stored == users[req[r].target]
            row == req[r].row
<1>1. /\ req[r].pc = "commit" /\ req[r].seen # None /\ SavesUser(req[r])
      /\ Current(r, req[r])
    BY DEF IInv, SInv, CommitSave, Founded
<1>2. req[r].seen = stored
    BY <1>1 DEF Current
<1>3. \A x, y : Column(x, x, y) = y
    BY DEF Column
<1>4. WriteUser(r, [name |-> row.name, role |-> row.role, enabled |-> row.enabled,
                    hash |-> row.hash])
    BY <1>2, <1>3 DEF CommitSave
<1>5. row = [name |-> row.name, role |-> row.role, enabled |-> row.enabled,
             hash |-> row.hash]
    BY <1>1 DEF SavesUser, UserRow
<1>. HIDE DEF row
<1>. QED
    BY <1>1, <1>4, <1>5 DEF row

\* What an insert adds.
LEMMA InsertWritesRow ==
    ASSUME IInv, SInv, NEW r \in Requests, CommitInsert(r), ~Refuse(r)
    PROVE  /\ WriteUser(r, req[r].row)
           /\ req[r].pc = "commit" /\ req[r].row \in UserRow /\ req[r].target = r
           /\ ~Taken(req[r].row.name) /\ users[r] = None /\ r \in Ids
           /\ req[r].op \in {"create"} \cup Bootstrapping /\ req[r].seen = None
           /\ Current(r, req[r])
BY DEF IInv, SInv, RowsMade, CommitInsert, Inserts, Founded, SavesUser, Bootstrapping, Ids

\* The rows written carry the password that was there, none, or the one of the request.
LEMMA HashOfWritten ==
    ASSUME IInv, SInv, NEW r \in Requests, NEW row, WriteUser(r, row), req[r].pc = "commit",
           req[r].target \in Ids,
           \/ Exists(req[r].target) /\ row.hash = users[req[r].target].hash
           \/ row.hash \in {None, r}
    PROVE  HashesSet'
<1>1. /\ req'[r].pc = "done" /\ None \notin Requests
      /\ \A q \in Requests : q # r => req'[q] = req[q]
      /\ users'[req[r].target] = row
      /\ \A u \in Ids : u # req[r].target => users'[u] = users[u]
    BY AccountsAssumption, AnsweredIsRequest DEF IInv, TypeOK, WriteUser, Ids
<1>. QED
    BY <1>1 DEF SInv, HashesSet, Exists

\* The contract's reading of the directory.
LEMMA SameDirectory ==
    /\ Promise!Leaderless <=> ~Led
    /\ \A name : ~Taken(name) => Promise!Free(name)
<1>1. Promise!Leaderless <=> ~Led
    BY DEF Promise!Leaderless, Led, EnabledAdmin, Exists
<1>2. ASSUME NEW name, ~Taken(name) PROVE Promise!Free(name)
    BY <1>2 DEF Promise!Free, Taken, Named, Exists
<1>. QED
    BY <1>1, <1>2

LEMMA WriteIsDirectory ==
    ASSUME NEW r \in Requests, NEW row, WriteUser(r, row)
    PROVE  Promise!Directory(req[r].target, row)
BY DEF WriteUser, Promise!Directory

LEMMA CommitSaveIsChange ==
    ASSUME IInv, SInv, NEW r \in Requests, CommitSave(r)
    PROVE  Promise!ContractNext /\ HashesSet'
<1>. DEFINE u == req[r].target
            row == req[r].row
<1>1. /\ WriteUser(r, row) /\ req[r].pc = "commit" /\ u \in Ids /\ users[u] # None
      /\ Current(r, req[r]) /\ req[r].seen # None /\ req[r].op \in {"update", "promote"}
      /\ users[u] \in UserRow
    BY SaveWritesRow DEF IInv, TypeOK, SavesUser, Exists
<1>2. Promise!Directory(u, row)
    BY <1>1, WriteIsDirectory
<1>3. CASE req[r].op = "update"
  <2>1. Led
      BY <1>1, <1>3 DEF Current, Managing
  <2>2. PICK patch \in Patches : row = Patched(users[u], patch)
      BY <1>1, <1>3 DEF Current
  <2>3. row = [users[u] EXCEPT
                 !.role = IF patch.role = None THEN @ ELSE patch.role,
                 !.enabled = IF patch.enabled = None THEN @ ELSE patch.enabled]
      BY <2>2 DEF Patched, Given
  <2>4. Promise!Change(u)
      BY <1>1, <1>2, <2>1, <2>3, SameDirectory DEF Promise!Change
  <2>5. row.hash = users[u].hash
      BY <1>1, <2>2 DEF Patched, UserRow
  <2>. QED
      BY <1>1, <2>4, <2>5, HashOfWritten DEF Promise!ContractNext, Exists
<1>4. CASE req[r].op = "promote"
  <2>1. ~Led /\ row = Promoted(users[u], r)
      BY <1>1, <1>4 DEF Current, Bootstrapping
  <2>2. row.hash = r
      BY <1>1, <2>1 DEF Promoted, UserRow
  <2>3. row = [name |-> users[u].name, role |-> "admin", enabled |-> TRUE, hash |-> r]
      BY <1>1, <2>1 DEF Promoted, UserRow
  <2>4. users[u].name \in Names /\ r \in Ids
      BY <1>1 DEF UserRow, Ids
  <2>5. Promise!FirstAdmin(u)
      BY <1>1, <1>2, <2>1, <2>3, <2>4, SameDirectory DEF Promise!FirstAdmin
  <2>. QED
      BY <1>1, <2>2, <2>5, HashOfWritten DEF Promise!ContractNext
<1>. QED
    BY <1>1, <1>3, <1>4

LEMMA CommitPasswordIsRotate ==
    ASSUME IInv, SInv, NEW r \in Requests, CommitPassword(r)
    PROVE  Promise!ContractNext /\ HashesSet'
<1>. DEFINE u == req[r].target
            row == [users[u] EXCEPT !.hash = r]
<1>1. /\ WriteUser(r, row) /\ req[r].pc = "commit" /\ u \in Ids /\ users[u] # None
      /\ users[u] \in UserRow /\ r \in Ids /\ Current(r, req[r]) /\ req[r].op = "set_password"
    BY DEF IInv, TypeOK, SInv, CommitPassword, Founded, SavesUser, Exists, Ids
<1>2. Promise!Directory(u, row) /\ row.hash = r
    BY <1>1, WriteIsDirectory DEF UserRow
<1>3. Led
    BY <1>1 DEF Current, Managing
<1>4. \A v \in Ids : users[v] = None \/ users[v].hash # r
    BY <1>1 DEF SInv, HashesSet, Exists
<1>5. Promise!Rotate(u)
    BY <1>1, <1>2, <1>3, <1>4, SameDirectory DEF Promise!Rotate
<1>6. HashesSet'
    BY <1>1, <1>2, HashOfWritten
<1>. QED
    BY <1>1, <1>5, <1>6 DEF Promise!ContractNext

LEMMA CommitInsertIsAdd ==
    ASSUME IInv, SInv, NEW r \in Requests, CommitInsert(r), ~Refuse(r)
    PROVE  Promise!ContractNext /\ HashesSet'
<1>. DEFINE row == req[r].row
<1>1. /\ WriteUser(r, row) /\ req[r].pc = "commit" /\ row \in UserRow
      /\ req[r].target = r /\ ~Taken(row.name) /\ users[r] = None /\ r \in Ids
      /\ req[r].op \in {"create"} \cup Bootstrapping /\ req[r].seen = None
      /\ Current(r, req[r])
    BY InsertWritesRow
<1>2. Promise!Directory(r, row) /\ Promise!Free(row.name) /\ row.name \in Names
    BY <1>1, WriteIsDirectory, SameDirectory DEF UserRow
<1>3. CASE req[r].op = "create"
  <2>1. Led /\ row.hash = None
      BY <1>1, <1>3 DEF Current, Managing
  <2>2. /\ row = [name |-> row.name, role |-> row.role, enabled |-> row.enabled,
                  hash |-> None]
        /\ row.role \in Roles /\ row.enabled \in BOOLEAN
      BY <1>1, <2>1 DEF UserRow
  <2>3. Promise!Add(r)
      BY <1>1, <1>2, <2>1, <2>2, SameDirectory DEF Promise!Add
  <2>. QED
      BY <1>1, <2>1, <2>3, HashOfWritten DEF Promise!ContractNext
<1>4. CASE req[r].op \in Bootstrapping
  <2>1. /\ ~Led
        /\ row = [name |-> row.name, role |-> "admin", enabled |-> TRUE, hash |-> r]
      BY <1>1, <1>4 DEF Current
  <2>2. Promise!FirstAdmin(r)
      BY <1>1, <1>2, <2>1, SameDirectory DEF Promise!FirstAdmin
  <2>3. row.hash = r
      BY <2>1
  <2>. QED
      BY <1>1, <2>2, <2>3, HashOfWritten DEF Promise!ContractNext
<1>. QED
    BY <1>1, <1>3, <1>4

LEMMA CommitLoginIsOpen ==
    ASSUME IInv, SInv, NEW r \in Requests, CommitLogin(r)
    PROVE  Promise!ContractNext
<1>. DEFINE session == req[r].row
<1>1. /\ req[r].pc = "commit" /\ req[r].op = "login" /\ Current(r, req[r])
      /\ session \in Session /\ session.user_id \in Ids /\ users[session.user_id] # None
      /\ sessions[r] = None
    BY DEF IInv, SInv, RowsMade, CommitLogin, Founded, SavesUser, Exists, Session
<1>2. PICK since \in 0 .. now : session.expires_at = since + TTL
    BY <1>1 DEF Current
<1>3. session = [user_id |-> session.user_id, expires_at |-> since + TTL]
    BY <1>1, <1>2 DEF Session
<1>4. users[session.user_id].enabled /\ users[session.user_id].hash # None
    BY <1>1 DEF Current
<1>5. /\ sessions' = [sessions EXCEPT ![r] = session]
      /\ UNCHANGED <<users, now>>
    BY DEF CommitLogin
<1>. HIDE DEF session
<1>6. sessions' = [sessions EXCEPT ![r] = [user_id |-> session.user_id,
                                           expires_at |-> since + TTL]]
    BY <1>3, <1>5
<1>7. Promise!Open(r)
    BY <1>1, <1>2, <1>4, <1>5, <1>6 DEF Promise!Open, session
<1>. QED
    BY <1>7 DEF Promise!ContractNext

LEMMA DropIsClose ==
    ASSUME IInv, NEW r \in Requests, Prune(r) \/ Logout(r)
    PROVE  Promise!ContractNext
<1>1. req[r].token \in Requests
    BY DEF IInv, Prune, Logout, Founded, Resolving
<1>2. Promise!Close(req[r].token)
    BY DEF Prune, Logout, Promise!Close
<1>. QED
    BY <1>1, <1>2 DEF Promise!ContractNext

-----------------------------------------------------------------------------
(* The refinement.                                                         *)

\* One step of a thread: the invariant, and the contract.
LEMMA ThreadStep ==
    ASSUME IInv, IInv', SInv, OneAtATime', NEW r \in Requests, Arrive(r) \/ Handle(r)
    PROVE  SInv' /\ (Promise!ContractNext \/ UNCHANGED <<users, sessions, now>>)
<1>1. CASE Arrive(r)
  <2>1. UNCHANGED <<users, sessions, now>>
      BY <1>1 DEF Arrive, ReceiveLogin, ReceiveMe, ReceiveLogout, ReceiveCreate,
                  ReceiveUpdate, ReceiveSetPassword, RunBootstrap, ReceiveWithSession, Receive
  <2>2. req'[r].pc \in {"password", "session", "admins"}
      BY <1>1, ArrivalsStart
  <2>. QED
      BY <1>1, <2>1, <2>2, QuietStepKeeps DEF Managing
<1>2. CASE CommitSave(r) \/ CommitPassword(r) \/ (CommitInsert(r) /\ ~Refuse(r))
  <2>1. Handle(r) /\ Promise!ContractNext /\ HashesSet'
      BY <1>2, CommitSaveIsChange, CommitPasswordIsRotate, CommitInsertIsAdd DEF Handle
  <2>2. req'[r].pc = "done"
      BY <1>2, AnsweredIsRequest
         DEF IInv, TypeOK, CommitSave, CommitPassword, CommitInsert, WriteUser
  <2>. QED
      BY <2>1, <2>2, EarlyStepKeeps DEF Managing
<1>3. CASE CommitLogin(r) \/ Prune(r) \/ Logout(r)
  <2>1. Handle(r) /\ Promise!ContractNext
      BY <1>3, CommitLoginIsOpen, DropIsClose DEF Handle
  <2>2. req'[r].pc \in {"done", "failed"} /\ users' = users
      BY <1>3, AnsweredIsRequest DEF IInv, TypeOK, CommitLogin, Prune, Logout, Failed, Idle
  <2>. QED
      BY <2>1, <2>2, QuietStepKeeps DEF Managing
<1>4. CASE Handle(r) /\ Refuse(r)
    BY <1>4, RefuseStaysCurrent DEF Refuse, GoOn
<1>5. CASE (ReadSession(r) \/ ReadUser(r)) /\ ~Refuse(r)
  <2>1. Handle(r) /\ users' = users /\ UNCHANGED <<users, sessions, now>>
      BY <1>5 DEF Handle, ReadSession, ReadUser, GoOn
  <2>2. req'[r].pc \in {"prune", "user", "logout", "actor", "done"}
      BY <1>5, ResolvingGoesOn
  <2>. QED
      BY <2>1, <2>2, QuietStepKeeps DEF Managing
<1>6. CASE \/ CheckPassword(r) \/ CheckAdmin(r) \/ CreateUser(r) \/ UpdateUser(r)
           \/ SetPassword(r) \/ LookForAdmins(r) \/ Bootstrap(r) \/ Save(r)
  <2>1. Handle(r) /\ UNCHANGED <<users, sessions, now>>
      BY <1>6 DEF Handle, CheckPassword, CheckAdmin, CreateUser, UpdateUser, SetPassword,
                  LookForAdmins, Bootstrap, Save, Refuse, GoOn
  <2>. QED
      BY <1>6, <2>1, CheckPasswordIsCurrent, CheckAdminIsCurrent, CreateUserIsCurrent,
         UpdateUserIsCurrent, SetPasswordIsCurrent, LookForAdminsIsCurrent,
         BootstrapIsCurrent, SaveIsCurrent
<1>. QED
    BY <1>1, <1>2, <1>3, <1>4, <1>5, <1>6 DEF Handle, Abort

LEMMA InitSInv == Init => SInv
BY AccountsAssumption
   DEF Init, Idle, SInv, OneAtATime, InFlight, HashesSet, Exists, Current, Managing, Ids

\* The clock only makes a login older.
LEMMA TickKeeps ==
    ASSUME IInv, IInv', SInv, Tick
    PROVE  SInv'
<1>1. 0 .. now \subseteq 0 .. now'
    BY AccountsAssumption DEF IInv, TypeOK, Tick
<1>2. ASSUME NEW r \in Requests PROVE Current(r, req[r])'
    BY <1>1 DEF SInv, Current, Tick, Led, EnabledAdmin, Exists
<1>. QED
    BY <1>2 DEF SInv, Tick, OneAtATime, HashesSet, Exists

LEMMA NextSInv == IInv /\ IInv' /\ SInv /\ [Next /\ OneAtATime']_vars => SInv'
<1>1. IInv /\ IInv' /\ SInv /\ UNCHANGED vars => SInv'
    BY DEF vars, SInv, OneAtATime, HashesSet, Current, Led, EnabledAdmin, Exists
<1>. QED
    BY <1>1, ThreadStep, TickKeeps DEF Next

LEMMA StepsKeepContract ==
    IInv /\ IInv' /\ SInv /\ [Next /\ OneAtATime']_vars
        => [Promise!ContractNext]_(Promise!contractVars)
<1>. SUFFICES ASSUME IInv, IInv', SInv, [Next /\ OneAtATime']_vars
              PROVE  Promise!ContractNext \/ UNCHANGED <<users, sessions, now>>
    BY DEF Promise!contractVars
<1>1. Tick => Promise!ContractNext
    BY DEF Tick, Promise!ContractNext, Promise!Later
<1>. QED
    BY <1>1, ThreadStep DEF Next, vars

\* Served one at a time, logins, logouts, user management and bootstrapping are single
\* operations on the directory and the table of sessions, for any set of requests, users,
\* names and bodies.
THEOREM SerialAccountsKeepContract == SerialAccounts => SerialKeepsAccounts
<1>1. SerialAccounts => Spec
    BY PTL DEF SerialAccounts, Spec
<1>2. SerialAccounts => []SInv
    BY <1>1, InitSInv, NextSInv, AlwaysIInv, PTL DEF SerialAccounts
<1>3. Init => Promise!ContractInit
    BY DEF Init, Promise!ContractInit
<1>. QED
    BY <1>1, <1>2, <1>3, StepsKeepContract, AlwaysIInv, PTL
       DEF SerialAccounts, SerialKeepsAccounts, Promise!Contract
=============================================================================
