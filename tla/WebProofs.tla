------------------------------ MODULE WebProofs ------------------------------
(***************************************************************************)
(* What holds of the frontend for every number of visits, browsers, users, *)
(* servers and plans: no page says what is not so, no call is executed for *)
(* somebody else, no account is left without a password unexplained, no    *)
(* session is left open unexplained, plans change as was typed, and the    *)
(* schedule shows what stood.                                              *)
(***************************************************************************)
EXTENDS Web, TLAPS

-----------------------------------------------------------------------------
(* The inductive invariant.                                                *)

\* The pages and the calls that they are served by; a visit behind "me" has a token.
Shape(q) ==
    /\ q.at = "idle" <=> q.page = None
    /\ q.at = "idle" \/ q.browser # None
    /\ q.at = "login" => q.page = "login"
    /\ q.at = "logout" => q.page = "logout"
    /\ q.at = "me" => q.page \notin {"login", "logout"}
    /\ q.at = "list_servers" => q.page \in {"schedule", "create"}
    /\ q.at \in {"list_users", "list_plans", "list_conflicts"} => q.page = "schedule"
    /\ q.at \in {"create_plan", "render"} => q.page = "create"
    /\ q.at \in {"get_plan", "typing", "update_plan"} => q.page = "edit"
    /\ q.at = "cancel_plan" => q.page = "cancel"
    /\ q.at = "create_user" => q.page = "provision"
    /\ q.at = "set_password" => q.page \in {"provision", "password"}
    /\ q.at = "update_user" => q.page = "toggle"
    /\ q.at \in {"idle", "login", "logout", "me", "page"} \/ q.token # None

\* What a page is about.
Subject(q) ==
    /\ q.page \in {"login", "provision", "password", "toggle"} => q.user # None
    /\ q.page \in {"edit", "cancel"} => q.plan # None
    /\ q.page = "create" => q.server # None
    /\ q.at \in {"typing", "update_plan"} => q.form # None
    /\ q.at = "update_plan" => q.edit # None /\ PostedStart(q) < PostedEnd(q)
    /\ q.at \in {"me", "get_plan"} /\ q.form # None => q.edit # None

Once(d, call) == Len(d) = 1 /\ d[1].call = call
Twice(d, one, other) == Len(d) = 2 /\ d[1].call = one /\ d[2].call = other

\* What has been executed for a visit whose page says that it has all been.
Whole(q, d) ==
    CASE q.page = "login" -> Once(d, "login")
      [] q.page = "create" -> Once(d, "create_plan")
      [] q.page = "edit" -> Once(d, "update_plan")
      [] q.page = "cancel" -> Once(d, "cancel_plan")
      [] q.page = "provision" -> Twice(d, "create_user", "set_password")
      [] q.page = "password" -> Once(d, "set_password")
      [] q.page = "toggle" -> Once(d, "update_user")
      [] OTHER -> d = <<>>

\* What has been executed for a visit, d, and what may still be, l.
Told(q, l, d) ==
    /\ q.at \notin {"page", "render"} => l = None /\ q.result = None
    /\ q.at \notin {"page", "render", "set_password"} => d = <<>>
    /\ q.at = "set_password" =>
         IF q.page = "provision" THEN Once(d, "create_user") ELSE d = <<>>
    /\ q.at = "render" =>
         /\ q.result \in {"refused", "unavailable"}
         /\ q.result = "refused" => l = None /\ d = <<>>
         /\ d = <<>> \/ Once(d, "create_plan")
    /\ q.at = "page" /\ q.page # "logout" =>
         /\ q.result = "success" => l = None /\ Whole(q, d)
         /\ q.result = "refused" =>
              /\ l = None \/ q.page = "create"
              /\ \/ d = <<>>
                 \/ q.page = "provision" /\ Once(d, "create_user")
                 \/ q.page = "create" /\ Once(d, "create_plan")
    /\ q.at = "page" => q.result # None
    /\ d = <<>> \/ q.page = "login" \/ q.token # None

\* A call that may still be executed is one of the visit's own, and its last one.
Left(q, l, d) ==
    l # None =>
      /\ Shape(l) /\ Subject(l)
      /\ l.at \in Writes
      /\ l.at = "logout" => l.token # None
      /\ l.page = q.page /\ l.user = q.user /\ l.token = q.token
      /\ l.at # "set_password" => d = <<>>
      /\ l.at \in {"login", "create_user"} => q.at = "page" /\ q.result = "unavailable"

Local(q, l, d) == Shape(q) /\ Subject(q) /\ Told(q, l, d) /\ Left(q, l, d)

\* A token was there at first, or is that of a visit to the login page.
Known(t) == t \in Browsers \/ (t \in Visits /\ visit[t].page = "login")

TokensKnown ==
    /\ \A b \in Browsers : cookie[b] # None => Known(cookie[b])
    /\ \A v \in Visits : visit[v].token # None => Known(visit[v].token)
    /\ \A t \in Tokens : sessions[t] # None => Known(t) /\ sessions[t] = LoggedIn(t)

\* A visit's cookies come from its own browser.
BrowserOf(t) == IF t \in Browsers THEN t ELSE visit[t].browser
OwnCookies == \A b \in Browsers : cookie[b] # None => BrowserOf(cookie[b]) = b

\* A plan of a visit is there because it was created for it.
PlansMade == \A v \in Visits : plans[v] # None => did[v] # <<>>

ServersKnown == \A p \in PlanIds : plans[p] # None => plans[p].server \in servers

\* The plans that have stood still since a visit with the changes w began.
Stood(w) == {p \in PlanIds : plans[p] # None /\ p \notin w}

\* What a visit to the schedule has read is so for the plans that stand still.
Seen(q, w) ==
    q.page = "schedule" =>
      /\ q.at \in {"me", "list_servers", "list_users", "list_plans"} =>
           q.rows = {} /\ q.asked = {} /\ q.marks = {}
      /\ q.at \in {"list_users", "list_plans", "list_conflicts"} =>
           \A p \in Stood(w) : plans[p].server \in q.servers
      /\ q.at = "list_conflicts" \/ q.result = "success" =>
           /\ \A p \in Stood(w) : p \in q.rows <=> ~plans[p].cancelled
           /\ \A p, r \in Stood(w) : p \in q.asked /\ Overlap(p, r) => p \in q.marks
           /\ \A p \in Stood(w) : p \in q.marks => \E r \in PlanIds : Overlap(p, r) \/ r \in w
      /\ q.result = "success" => q.rows \subseteq q.asked

Types ==
    /\ users \in [Users -> UserRow \cup {None}]
    /\ sessions \in [Tokens -> Users \cup {None}]
    /\ servers \subseteq Servers
    /\ plans \in [PlanIds -> Plan \cup {None}]
    /\ late \in [Visits -> Visit \cup {None}]
    /\ cookie \in [Browsers -> Tokens \cup {None}]
    /\ jar \in Tokens \cup {None}
    /\ visit \in [Visits -> Visit]
    /\ did \in [Visits -> Seq([call : Writes, actor : Users])]
    /\ touched \in [Visits -> SUBSET PlanIds]

\* Every account of the directory that the visits begin with can be logged in to.
PasswordsAtFirst == \A u \in Users : FirstUsers[u] # None => FirstUsers[u].password

IInv ==
    /\ Types
    /\ \A v \in Visits : Local(visit[v], late[v], did[v])
    /\ TokensKnown
    /\ CallsAsTheVisitor
    /\ PasswordsAtFirst => NobodyWithoutPassword
    /\ OwnCookies
    /\ OpenSessionsExplained
    /\ PlansMade
    /\ ServersKnown
    /\ \A v \in Visits : Seen(visit[v], touched[v])

-----------------------------------------------------------------------------
(* Values and records.                                                     *)

\* None is no token, no user, no plan, and Unset is nothing that can be typed.
LEMMA NoneIsNothing ==
    /\ None \notin Tokens /\ None \notin Users /\ None \notin PlanIds /\ None \notin Servers
    /\ None \notin Edits /\ None \notin AllPages /\ None \notin Notes \cup {""}
    /\ None \notin {"success", "refused", "unavailable"}
    /\ None \notin UserRow /\ None \notin Plan /\ None \notin Visit
    /\ Unset \notin Minutes /\ Unset \notin Notes \cup {""}
  BY WebAssumption

\* What a visit is about and where it comes from.
Keeps(p, q) ==
    /\ q.page = p.page /\ q.browser = p.browser /\ q.user = p.user
    /\ q.plan = p.plan /\ q.server = p.server

\* The last page of a visit.
LEMMA PageIs ==
    ASSUME NEW q \in Visit, NEW result \in {"success", "refused", "unavailable"}
    PROVE  /\ Page(q, result) \in Visit
           /\ Keeps(q, Page(q, result))
           /\ Page(q, result).at = "page" /\ Page(q, result).result = result
           /\ Page(q, result).token = q.token
           /\ Page(q, result).form = q.form /\ Page(q, result).edit = q.edit
           /\ Page(q, result).rows = q.rows /\ Page(q, result).asked = q.asked
           /\ Page(q, result).marks = q.marks /\ Page(q, result).servers = q.servers
  <1>1. Page(q, result) \in Visit
    <2>1. [q EXCEPT !.at = "page"] \in Visit
      BY DEF Visit
    <2>2. \A h \in Visit : [h EXCEPT !.result = result] \in Visit
      BY DEF Visit
    <2>3. Page(q, result) = [[q EXCEPT !.at = "page"] EXCEPT !.result = result]
      BY DEF Page, Visit
    <2> QED
      BY <2>1, <2>2, <2>3
  <1>2. Keeps(q, Page(q, result))
    BY DEF Page, Visit, Keeps
  <1>3. Page(q, result).at = "page" /\ Page(q, result).result = result /\ Page(q, result).token = q.token
    BY DEF Page, Visit
  <1>4. /\ Page(q, result).form = q.form /\ Page(q, result).edit = q.edit
        /\ Page(q, result).rows = q.rows /\ Page(q, result).asked = q.asked
        /\ Page(q, result).marks = q.marks /\ Page(q, result).servers = q.servers
    BY DEF Page, Visit
  <1> QED
    BY <1>1, <1>2, <1>3, <1>4

\* The next call of a visit.
LEMMA CallIs ==
    ASSUME NEW q \in Visit, NEW at \in {"typing"} \cup Reads \cup Writes
    PROVE  LET h == [q EXCEPT !.at = at]
           IN  /\ h \in Visit
               /\ Keeps(q, h)
               /\ h.at = at /\ h.result = q.result
               /\ h.token = q.token
               /\ h.form = q.form /\ h.edit = q.edit
               /\ h.rows = q.rows /\ h.asked = q.asked
               /\ h.marks = q.marks /\ h.servers = q.servers
  BY DEF Visit, Keeps

-----------------------------------------------------------------------------
(* What stands when a visit moves and Core does not.                       *)

\* A visit that has begun stays with its page and its browser: whose a token is stays.
LEMMA TokensStay ==
    ASSUME Types, \A w \in Visits : Shape(visit[w]), NEW v \in Visits, NEW q \in Visit, Hold(v, q),
           visit[v].at = "idle" \/ Keeps(visit[v], q)
    PROVE  /\ \A w \in Visits : visit'[w] = IF w = v THEN q ELSE visit[w]
           /\ \A t \in Tokens : Known(t) =>
                 Known(t)' /\ LoggedIn(t)' = LoggedIn(t) /\ BrowserOf(t)' = BrowserOf(t)
  <1>1. \A w \in Visits : visit'[w] = IF w = v THEN q ELSE visit[w]
    BY DEF Types, Hold
  <1>2. ASSUME NEW t \in Tokens, Known(t)
        PROVE  Known(t)' /\ LoggedIn(t)' = LoggedIn(t) /\ BrowserOf(t)' = BrowserOf(t)
    <2>1. CASE t \in Browsers
      BY <2>1 DEF Known, LoggedIn, BrowserOf
    <2>2. CASE t \notin Browsers
      <3>1. t \in Visits /\ visit[t].page = "login"
        BY <1>2, <2>2 DEF Known
      <3>2. t = v => visit[v].at # "idle"
        BY <3>1, WebAssumption DEF Shape, AllPages
      <3>3. visit'[t].page = "login" /\ visit'[t].user = visit[t].user
            /\ visit'[t].browser = visit[t].browser
        BY <1>1, <3>1, <3>2 DEF Keeps
      <3> QED
        BY <2>2, <3>1, <3>3 DEF Known, LoggedIn, BrowserOf
    <2> QED
      BY <2>1, <2>2
  <1> QED
    BY <1>1, <1>2

\* The browser's cookie is dropped by a logout, or it is left alone.
CookieDropped(v, q) ==
    \/ cookie' = cookie
    \/ /\ cookie' = [cookie EXCEPT ![visit[v].browser] = None]
       /\ q.page = "logout" /\ q.at = "page"
       /\ q.result # "success" \/ q.token = None

\* A visit moves on without Core: everything that is said of the others still holds.
LEMMA MoveKeeps ==
    ASSUME IInv, NEW v \in Visits, NEW q \in Visit, Hold(v, q),
           \/ Keeps(visit[v], q) /\ visit[v].at \notin {"idle", "page"}
           \/ visit[v].at = "idle" /\ cookie' = cookie,
           UNCHANGED <<core, jar, history>>,
           late' \in [Visits -> Visit \cup {None}], \A w \in Visits \ {v} : late'[w] = late[w],
           Local(q, late'[v], did[v]),
           Seen(q, touched[v]),
           \/ q.token = visit[v].token
           \/ did[v] = <<>> /\ \E b \in Browsers : q.token = cookie[b],
           visit[v].at = "set_password" => q.at = "page" /\ q.result \in {"refused", "unavailable"},
           CookieDropped(v, q)
    PROVE  IInv'
  <1> USE DEF IInv
  <1>1. /\ \A w \in Visits : visit'[w] = IF w = v THEN q ELSE visit[w]
        /\ \A t \in Tokens : Known(t) =>
              Known(t)' /\ LoggedIn(t)' = LoggedIn(t) /\ BrowserOf(t)' = BrowserOf(t)
    <2>1. Types /\ \A w \in Visits : Shape(visit[w])
      BY DEF Local
    <2> QED
      BY <2>1, TokensStay
  <1>2. UNCHANGED <<users, sessions, servers, plans, did, touched>>
    BY DEF core, history
  <1>3. visit[v] \in Visit /\ (cookie' # cookie => visit[v].browser \in Browsers)
    <2>1. Shape(visit[v])
      BY DEF Local
    <2> QED
      BY <2>1 DEF Types, Shape, Visit
  <1>4. \A b \in Browsers : cookie'[b] = cookie[b] \/ cookie'[b] = None
    BY <1>3 DEF CookieDropped, Types
  <1>5. Types'
    BY <1>1, <1>2, <1>3 DEF Types, Hold, CookieDropped
  <1>6. (\A w \in Visits : Local(visit[w], late[w], did[w]))'
    BY <1>1, <1>2
  <1>7. TokensKnown'
    <2>1. \A b \in Browsers : cookie[b] # None => cookie[b] \in Tokens
      BY DEF Types
    <2>2. \A w \in Visits : visit[w].token # None => visit[w].token \in Tokens
      BY DEF Types, Visit
    <2>3. (\A b \in Browsers : cookie[b] # None => Known(cookie[b]))'
      BY <1>1, <1>4, <2>1 DEF TokensKnown
    <2>4. ASSUME NEW t \in Tokens, t = q.token
          PROVE  Known(t)'
      <3>1. t # None
        BY NoneIsNothing
      <3>2. t = visit[v].token \/ \E b \in Browsers : t = cookie[b]
        BY <2>4
      <3>3. Known(t)
        BY <1>3, <3>1, <3>2 DEF TokensKnown
      <3> QED
        BY <1>1, <3>3
    <2>5. ASSUME NEW w \in Visits, visit'[w].token # None
          PROVE  Known(visit[w].token)'
      <3>1. PICK t \in Tokens : t = visit'[w].token
        BY <1>1, <2>2, <2>5 DEF Visit
      <3>2. Known(t)'
        BY <1>1, <2>4, <2>5, <3>1 DEF TokensKnown
      <3> QED
        BY <3>1, <3>2 DEF Known
    <2>6. \A t \in Tokens : sessions'[t] # None => Known(t)' /\ sessions'[t] = LoggedIn(t)'
      BY <1>1, <1>2 DEF TokensKnown
    <2> QED
      BY <2>3, <2>5, <2>6 DEF TokensKnown
  <1>8. CallsAsTheVisitor'
    <2>1. ASSUME NEW w \in Visits, NEW k \in DOMAIN did[w]
          PROVE  (did[w][k].actor = IF visit[w].page = "login" THEN visit[w].user
                                    ELSE LoggedIn(visit[w].token))'
      <3>1. did[w][k].actor = IF visit[w].page = "login" THEN visit[w].user
                              ELSE LoggedIn(visit[w].token)
        BY DEF CallsAsTheVisitor
      <3>2. did[w] # <<>>
        BY DEF Types
      <3>3. visit'[w].page = visit[w].page /\ visit'[w].user = visit[w].user
            /\ visit'[w].token = visit[w].token
        <4>1. Told(visit[v], late[v], did[v])
          BY DEF Local
        <4>2. visit[v].at = "idle" => did[v] = <<>>
          BY <4>1 DEF Told
        <4> QED
          BY <1>1, <3>2, <4>2 DEF Keeps
      <3>4. visit[w].page = "login" \/ visit[w].token # None
        BY <3>2 DEF Local, Told
      <3>5. PICK t : t = visit[w].token
        OBVIOUS
      <3>6. t # None => Known(t) /\ t \in Tokens
        BY <3>5 DEF TokensKnown, Types, Visit
      <3>7. visit[w].page = "login" \/ LoggedIn(t)' = LoggedIn(t)
        BY <1>1, <3>4, <3>5, <3>6
      <3>8. LoggedIn(visit[w].token)' = LoggedIn(t)'
        BY <3>3, <3>5 DEF LoggedIn
      <3> QED
        BY <1>2, <3>1, <3>3, <3>5, <3>7, <3>8
    <2> QED
      BY <1>2, <2>1 DEF CallsAsTheVisitor
  <1>9. PasswordsAtFirst => NobodyWithoutPassword'
    <2>1. ASSUME PasswordsAtFirst, NEW u \in Users, users[u] # None, ~users[u].password
          PROVE  \E w \in Visits : /\ visit'[w].page = "provision"
                                   /\ visit'[w].user = u
                                   /\ \/ visit'[w].at = "set_password"
                                      \/ visit'[w].result \in {"refused", "unavailable"}
      <3>1. PICK w \in Visits : /\ visit[w].page = "provision"
                               /\ visit[w].user = u
                               /\ \/ visit[w].at = "set_password"
                                  \/ visit[w].result \in {"refused", "unavailable"}
        BY <2>1 DEF NobodyWithoutPassword
      <3>2. CASE w # v
        BY <1>1, <3>1, <3>2
      <3>3. CASE w = v
        <4>1. visit[v].at # "render" /\ visit[v].result \notin {"refused", "unavailable"}
          <5>1. Shape(visit[v]) /\ Told(visit[v], late[v], did[v])
            BY DEF Local
          <5>2. visit[v].at # "render"
            BY <3>1, <3>3, <5>1 DEF Shape
          <5>3. visit[v].result = None
            BY <5>1, <5>2 DEF Told
          <5> QED
            BY <5>2, <5>3, NoneIsNothing
        <4>2. visit[v].at = "set_password" /\ Keeps(visit[v], q)
          BY <3>1, <3>3, <4>1
        <4> QED
          BY <1>1, <3>1, <3>3, <4>2 DEF Keeps
      <3> QED
        BY <3>2, <3>3
    <2> QED
      BY <1>2, <2>1 DEF NobodyWithoutPassword
  <1>10. OwnCookies'
    <2>1. ASSUME NEW b \in Browsers, cookie'[b] # None
          PROVE  BrowserOf(cookie[b])' = b
      <3>1. cookie'[b] = cookie[b] /\ cookie[b] \in Tokens /\ Known(cookie[b]) /\ BrowserOf(cookie[b]) = b
        BY <1>4, <2>1 DEF Types, TokensKnown, OwnCookies
      <3>2. PICK t \in Tokens : t = cookie[b]
        BY <3>1
      <3>3. BrowserOf(t)' = b
        BY <1>1, <3>1, <3>2
      <3> QED
        BY <3>1, <3>2, <3>3 DEF BrowserOf
    <2> QED
      BY <2>1 DEF OwnCookies
  <1>11. OpenSessionsExplained'
    <2>1. ASSUME NEW t \in Tokens, sessions[t] # None, \A b \in Browsers : cookie'[b] # t
          PROVE  (\E w \in Visits :
                   /\ visit[w].at = "page"
                   /\ IF w = t THEN visit[w].result = "unavailable"
                      ELSE /\ visit[w].browser = BrowserOf(t)
                           /\ \/ visit[w].page = "login" /\ visit[w].result = "success"
                              \/ /\ visit[w].page = "logout"
                                 /\ visit[w].result # "success" \/ visit[w].token # t)'
      <3>1. Known(t)
        BY <2>1 DEF TokensKnown
      <3>2. CASE \A b \in Browsers : cookie[b] # t
        <4>1. PICK w \in Visits :
                /\ visit[w].at = "page"
                /\ IF w = t THEN visit[w].result = "unavailable"
                   ELSE /\ visit[w].browser = BrowserOf(t)
                        /\ \/ visit[w].page = "login" /\ visit[w].result = "success"
                           \/ /\ visit[w].page = "logout"
                              /\ visit[w].result # "success" \/ visit[w].token # t
          BY <2>1, <3>2 DEF OpenSessionsExplained, BrowserOf
        <4>2. visit'[w] = visit[w]
          BY <1>1, <4>1
        <4> QED
          BY <1>1, <3>1, <4>1, <4>2
      <3>3. CASE \E b \in Browsers : cookie[b] = t
        <4>1. PICK b \in Browsers : cookie[b] = t
          BY <3>3
        <4>2. cookie' # cookie /\ b = visit[v].browser /\ Keeps(visit[v], q)
          BY <1>3, <2>1, <4>1 DEF CookieDropped, Types
        <4>3. q.page = "logout" /\ q.at = "page" /\ (q.result # "success" \/ q.token = None)
          BY <4>2 DEF CookieDropped
        <4>4. q.token = None => q.token # t
          BY NoneIsNothing
        <4>5. q.browser = BrowserOf(t)
          BY <4>1, <4>2, NoneIsNothing DEF OwnCookies, Keeps
        <4>6. v # t
          <5>1. visit[v].page = "logout"
            BY <4>2, <4>3 DEF Keeps
          <5> QED
            BY <3>1, <5>1, WebAssumption DEF Known
        <4> QED
          BY <1>1, <3>1, <4>3, <4>4, <4>5, <4>6
      <3> QED
        BY <3>2, <3>3
    <2> QED
      BY <1>2, <2>1 DEF OpenSessionsExplained, BrowserOf
  <1>12. PlansMade' /\ ServersKnown'
    BY <1>2 DEF PlansMade, ServersKnown
  <1>13. ASSUME NEW w \in Visits PROVE Seen(visit[w], touched[w])'
    <2>1. PICK h : h = visit'[w]
      OBVIOUS
    <2>2. Seen(h, touched[w])
      BY <1>1, <2>1
    <2> QED
      BY <1>2, <2>1, <2>2 DEF Seen, Stood, Overlap, Uncancelled
  <1> QED
    BY <1>5, <1>6, <1>7, <1>8, <1>9, <1>10, <1>11, <1>12, <1>13

-----------------------------------------------------------------------------
(* The calls that only read, and the refusals.                             *)

Ends == {"refused", "unavailable"}

\* A visit that is refused or given up ends with what it has done so far.
LEMMA EndIs ==
    ASSUME NEW q \in Visit, NEW l, NEW d, Local(q, l, d), q.at \in Reads \cup Writes,
           NEW result \in Ends, NEW w
    PROVE  /\ Page(q, result) \in Visit
           /\ Keeps(q, Page(q, result))
           /\ Page(q, result).token = q.token
           /\ Page(q, result).at = "page" /\ Page(q, result).result = result
           /\ Local(Page(q, result), l, d)
           /\ Seen(Page(q, result), w)
  <1>1. result \in {"success", "refused", "unavailable"}
    BY DEF Ends
  <1>2. PICK h \in Visit :
           /\ h = Page(q, result) /\ Keeps(q, h)
           /\ h.at = "page" /\ h.result = result /\ h.token = q.token
    BY <1>1, PageIs
  <1>3. result # None /\ result # "success"
    BY NoneIsNothing DEF Ends
  <1>4. Shape(q) /\ Subject(q) /\ Told(q, l, d) /\ Left(q, l, d)
    BY DEF Local
  <1>5. q.at # "idle" /\ q.at # "page" /\ q.at # "typing"
    BY DEF Reads, Writes
  <1>6. Shape(h)
    BY <1>2, <1>4, <1>5, NoneIsNothing DEF Shape, Keeps
  <1>7. Subject(h)
    BY <1>2, <1>4 DEF Subject, Keeps
  <1>8. q.at # "render" => l = None
    BY <1>4, <1>5 DEF Told
  <1>9. Told(h, l, d)
    <2>1. CASE q.at = "render"
      BY <1>2, <1>3, <1>4, <2>1 DEF Told, Shape, Keeps
    <2>2. CASE q.at = "set_password"
      BY <1>2, <1>3, <1>4, <1>8, <2>2 DEF Told, Shape, Keeps
    <2>3. CASE q.at \notin {"render", "set_password"}
      BY <1>2, <1>3, <1>4, <1>5, <1>8, <2>3 DEF Told, Keeps
    <2> QED
      BY <2>1, <2>2, <2>3
  <1>10. Left(h, l, d)
    <2>1. CASE l = None
      BY <2>1 DEF Left
    <2>2. CASE l # None
      <3>1. q.at = "render" /\ q.page = "create"
        BY <1>4, <1>8, <2>2 DEF Shape
      <3>2. l.page = "create" /\ Shape(l)
        BY <1>4, <2>2, <3>1 DEF Left
      <3>3. l.at \notin {"login", "create_user"}
        BY <3>2 DEF Shape
      <3> QED
        BY <1>2, <1>4, <3>3 DEF Left, Keeps
    <2> QED
      BY <2>1, <2>2
  <1>11. Seen(h, w)
    BY <1>2, <1>3 DEF Seen
  <1> QED
    BY <1>2, <1>6, <1>7, <1>9, <1>10, <1>11 DEF Local

\* A visit for which nothing has been executed yet.
LEMMA FreshIs ==
    ASSUME NEW q, Shape(q), Subject(q), q.result = None, q.at \notin {"page", "render"},
           q.at # "set_password" \/ q.page # "provision"
    PROVE  Local(q, None, <<>>)
  <1>1. Told(q, None, <<>>)
    BY DEF Told
  <1>2. Left(q, None, <<>>)
    BY DEF Left
  <1> QED
    BY <1>1, <1>2 DEF Local

\* While only questions have been asked, nothing has been executed.
LEMMA NothingYet ==
    ASSUME IInv, NEW v \in Visits, visit[v].at \notin {"page", "render", "set_password"}
    PROVE  /\ late[v] = None /\ did[v] = <<>> /\ visit[v].result = None
           /\ visit[v] \in Visit /\ Shape(visit[v]) /\ Subject(visit[v])
           /\ Seen(visit[v], touched[v])
  BY DEF IInv, Local, Told, Types

\* The answer to a question, or a 401.
LEMMA ReadKeeps ==
    ASSUME IInv, NEW v \in Visits, visit[v].at \in Reads, NEW q \in Visit, Read(v, q),
           Keeps(visit[v], q), q.token = visit[v].token,
           Local(q, late[v], did[v]), Seen(q, touched[v])
    PROVE  IInv'
  <1>1. visit[v] \in Visit /\ visit[v].at \in Reads \cup Writes /\ visit[v].at # "set_password"
        /\ visit[v].at \notin {"idle", "page"} /\ Local(visit[v], late[v], did[v])
    BY DEF IInv, Types, Reads, Writes
  <1>2. late' \in [Visits -> Visit \cup {None}] /\ late' = late /\ CookieDropped(v, q)
        /\ UNCHANGED <<core, jar, history>>
    BY DEF Read, IInv, Types, CookieDropped
  <1>3. CASE Hold(v, q)
    BY <1>1, <1>2, <1>3, MoveKeeps
  <1>4. CASE Hold(v, Page(visit[v], "refused"))
    <2>1. "refused" \in Ends
      BY DEF Ends
    <2>2. PICK h : h = Page(visit[v], "refused")
      OBVIOUS
    <2>3. /\ h \in Visit /\ Keeps(visit[v], h) /\ h.token = visit[v].token
          /\ Local(h, late[v], did[v]) /\ Seen(h, touched[v])
      BY <1>1, <2>1, <2>2, EndIs
    <2>4. CookieDropped(v, h) /\ Hold(v, h)
      BY <1>4, <2>2 DEF Read, CookieDropped
    <2> QED
      BY <1>1, <1>2, <2>3, <2>4, MoveKeeps
  <1> QED
    BY <1>3, <1>4 DEF Read

\* As whom a call is executed: an enabled account.
LEMMA ActorIs ==
    ASSUME Types, NEW q \in Visit, Actor(q) # None
    PROVE  /\ Actor(q) \in Users /\ users[Actor(q)] \in UserRow
           /\ q.at = "login" => Actor(q) = q.user
           /\ q.at # "login" => SentToken(q) \in Tokens /\ sessions[SentToken(q)] = Actor(q)
  <1>1. CASE q.at = "login"
    <2>1. Actor(q) = q.user /\ users[q.user] # None
      BY <1>1 DEF Actor
    <2>2. q.user \in Users
      BY <2>1 DEF Visit
    <2> QED
      BY <1>1, <2>1, <2>2 DEF Types
  <1>2. CASE q.at # "login"
    <2>1. SentToken(q) # None /\ Actor(q) = sessions[SentToken(q)] /\ users[Actor(q)] # None
      BY <1>2 DEF Actor
    <2>2. SentToken(q) \in Tokens
      BY <2>1 DEF SentToken, Types, Visit
    <2>3. Actor(q) \in Users
      BY <2>1, <2>2 DEF Types
    <2> QED
      BY <1>2, <2>1, <2>2, <2>3 DEF Types
  <1> QED
    BY <1>1, <1>2

\* The pages of "me" and their next calls.
LEMMA FirstCallIs ==
    ASSUME NEW q \in Visit, q.at = "me", Shape(q)
    PROVE  \/ q.page = "schedule" /\ FirstCall(q) = "list_servers"
           \/ q.page = "create" /\ FirstCall(q) = "list_servers"
           \/ q.page = "edit" /\ FirstCall(q) = "get_plan"
           \/ q.page = "cancel" /\ FirstCall(q) = "cancel_plan"
           \/ q.page = "provision" /\ FirstCall(q) = "create_user"
           \/ q.page = "password" /\ FirstCall(q) = "set_password"
           \/ q.page = "toggle" /\ FirstCall(q) = "update_user"
  <1>1. q.page \in AllPages /\ q.page \notin {"login", "logout"}
    BY WebAssumption DEF Shape, Visit
  <1> QED
    BY <1>1 DEF AllPages, FirstCall

\* get_current_viewer, and where the page goes from there.
LEMMA MeKeeps ==
    ASSUME IInv, NEW v \in Visits, Me(v)
    PROVE  IInv'
  <1> DEFINE p == visit[v]
             actor == Actor(p)
             role == users[actor].role
             known == [p EXCEPT !.viewer = actor, !.role = role, !.at = FirstCall(p)]
  <1>1. p.at = "me"
    BY DEF Me
  <1>2. /\ late[v] = None /\ did[v] = <<>> /\ p.result = None
        /\ p \in Visit /\ Shape(p) /\ Subject(p) /\ Seen(p, touched[v])
    BY <1>1, NothingYet
  <1>3. p.at \in Reads /\ p.at \in Reads \cup Writes /\ p.at \notin {"idle", "page"} /\ p.at # "set_password"
    BY <1>1 DEF Reads
  <1>4. Local(p, late[v], did[v])
    BY DEF IInv
  <1>5. PICK h : h = Page(p, "refused")
    OBVIOUS
  <1>6. /\ h \in Visit /\ Keeps(p, h) /\ h.token = p.token
        /\ Local(h, late[v], did[v]) /\ Seen(h, touched[v])
    <2>1. "refused" \in Ends
      BY DEF Ends
    <2> QED
      BY <1>2, <1>3, <1>4, <1>5, <2>1, EndIs
  <1>7. CASE p.token = None \/ actor = None
    <2>1. Hold(v, h) /\ UNCHANGED <<core, late, cookie, jar, history>>
      BY <1>5, <1>7 DEF Me, Read
    <2>2. late' \in [Visits -> Visit \cup {None}] /\ late' = late /\ CookieDropped(v, h)
      BY <2>1 DEF IInv, Types, CookieDropped
    <2> QED
      BY <1>3, <1>6, <2>1, <2>2, MoveKeeps
  <1>8. CASE p.token # None /\ actor # None
    <2>1. actor \in Users /\ users[actor] \in UserRow /\ role \in {"member", "admin"}
      <3>1. Types
        BY DEF IInv
      <3>2. actor \in Users /\ users[actor] \in UserRow
        BY <1>2, <1>8, <3>1, ActorIs
      <3> QED
        BY <3>2 DEF UserRow
    <2>2. FirstCall(p) \in Reads \cup Writes /\ FirstCall(p) # "render"
      BY <1>1, <1>2, FirstCallIs DEF Reads, Writes
    <2>3. known \in Visit
      <3>1. \A g \in Visit, u \in Users : [g EXCEPT !.viewer = u] \in Visit
        BY DEF Visit
      <3>2. \A g \in Visit, x \in {"member", "admin"} : [g EXCEPT !.role = x] \in Visit
        BY DEF Visit
      <3>3. \A g \in Visit, at \in Reads \cup Writes : [g EXCEPT !.at = at] \in Visit
        BY DEF Visit
      <3>4. known = [[[p EXCEPT !.viewer = actor] EXCEPT !.role = role] EXCEPT !.at = FirstCall(p)]
        BY <1>2 DEF Visit
      <3> HIDE DEF p, actor, role, known
      <3> QED
        BY <1>2, <2>1, <2>2, <3>1, <3>2, <3>3, <3>4
    <2>4. /\ Keeps(p, known) /\ known.token = p.token /\ known.at = FirstCall(p)
          /\ known.result = p.result /\ known.form = p.form /\ known.edit = p.edit
          /\ known.rows = p.rows /\ known.asked = p.asked /\ known.marks = p.marks
      BY <1>2 DEF Visit, Keeps
    <2>5. PICK k \in Visit : k = known
      BY <2>3
    <2> HIDE DEF known
    <2>6. Shape(k)
      BY <1>1, <1>2, <1>8, <2>4, <2>5, FirstCallIs, NoneIsNothing DEF Shape, Keeps
    <2>7. Subject(k)
      BY <1>1, <1>2, <2>4, <2>5, FirstCallIs DEF Subject, Keeps
    <2>8. Local(k, late[v], did[v])
      BY <1>1, <1>2, <2>4, <2>5, <2>6, <2>7, FirstCallIs, FreshIs DEF Keeps
    <2>9. Seen(k, touched[v])
      BY <1>1, <1>2, <2>4, <2>5, FirstCallIs, NoneIsNothing DEF Seen, Keeps
    <2>10. PICK g : g = Page(k, "refused")
      OBVIOUS
    <2>11. /\ g \in Visit /\ Keeps(k, g) /\ g.token = k.token
           /\ Local(g, late[v], did[v]) /\ Seen(g, touched[v])
      BY <2>2, <2>4, <2>5, <2>8, <2>10, EndIs DEF Ends
    <2>12. Keeps(p, g) /\ g.token = p.token
      BY <2>4, <2>5, <2>11 DEF Keeps
    <2>13. Read(v, k) \/ Read(v, g)
      BY <1>8, <2>5, <2>10 DEF Me, known
    <2> QED
      BY <1>3, <2>4, <2>5, <2>8, <2>9, <2>11, <2>12, <2>13, ReadKeeps
  <1> QED
    BY <1>7, <1>8

\* The schedule: the servers are those of now.
LEMMA ListServersKeeps ==
    ASSUME IInv, NEW v \in Visits, ListServers(v)
    PROVE  IInv'
  <1> DEFINE p == visit[v]
             q == [p EXCEPT !.servers = servers, !.at = "list_users"]
  <1>1. p.at = "list_servers" /\ p.page = "schedule" /\ Read(v, q) /\ p.at \in Reads
    BY DEF ListServers, Reads
  <1>2. /\ late[v] = None /\ did[v] = <<>> /\ p.result = None
        /\ p \in Visit /\ Shape(p) /\ Subject(p) /\ Seen(p, touched[v])
    BY <1>1, NothingYet
  <1>3. q \in Visit
    <2>1. servers \in SUBSET Servers
      BY DEF IInv, Types
    <2>2. [p EXCEPT !.servers = servers] \in Visit
      BY <1>2, <2>1 DEF Visit
    <2>3. \A h \in Visit : [h EXCEPT !.at = "list_users"] \in Visit
      BY DEF Visit, Reads
    <2>4. q = [[p EXCEPT !.servers = servers] EXCEPT !.at = "list_users"]
      BY <1>2 DEF Visit
    <2> QED
      BY <2>2, <2>3, <2>4
  <1>4. /\ Keeps(p, q) /\ q.token = p.token /\ q.at = "list_users" /\ q.servers = servers
        /\ q.result = p.result /\ q.form = p.form /\ q.edit = p.edit
        /\ q.rows = p.rows /\ q.asked = p.asked /\ q.marks = p.marks
    BY <1>2 DEF Visit, Keeps
  <1>5. PICK k \in Visit : k = q
    BY <1>3
  <1> HIDE DEF q
  <1>6. Shape(k) /\ Subject(k)
    BY <1>1, <1>2, <1>4, <1>5 DEF Shape, Subject, Keeps
  <1>7. Local(k, late[v], did[v])
    BY <1>2, <1>4, <1>5, <1>6, FreshIs
  <1>8. Seen(k, touched[v])
    <2>1. \A r \in Stood(touched[v]) : plans[r].server \in servers
      BY DEF IInv, ServersKnown, Stood
    <2> QED
      BY <1>1, <1>2, <1>4, <1>5, <2>1, NoneIsNothing DEF Seen, Keeps
  <1> QED
    BY <1>1, <1>4, <1>5, <1>7, <1>8, ReadKeeps

\* The users are for their names only.
LEMMA ListUsersKeeps ==
    ASSUME IInv, NEW v \in Visits, ListUsers(v)
    PROVE  IInv'
  <1> DEFINE p == visit[v]
             q == [p EXCEPT !.at = "list_plans"]
  <1>1. p.at = "list_users" /\ Read(v, q) /\ p.at \in Reads
    BY DEF ListUsers, Reads
  <1>2. /\ late[v] = None /\ did[v] = <<>> /\ p.result = None
        /\ p \in Visit /\ Shape(p) /\ Subject(p) /\ Seen(p, touched[v])
    BY <1>1, NothingYet
  <1>3. "list_plans" \in {"typing"} \cup Reads \cup Writes
    BY DEF Reads
  <1>4. /\ q \in Visit /\ Keeps(p, q) /\ q.at = "list_plans" /\ q.result = p.result
        /\ q.token = p.token /\ q.form = p.form /\ q.edit = p.edit
        /\ q.rows = p.rows /\ q.asked = p.asked /\ q.marks = p.marks /\ q.servers = p.servers
    BY <1>2, <1>3, CallIs
  <1>5. PICK k \in Visit : k = q
    BY <1>4
  <1> HIDE DEF q
  <1>6. Shape(k) /\ Subject(k)
    BY <1>1, <1>2, <1>4, <1>5 DEF Shape, Subject, Keeps
  <1>7. Local(k, late[v], did[v])
    BY <1>2, <1>4, <1>5, <1>6, FreshIs
  <1>8. Seen(k, touched[v])
    BY <1>1, <1>2, <1>4, <1>5, NoneIsNothing DEF Seen, Keeps
  <1> QED
    BY <1>1, <1>4, <1>5, <1>7, <1>8, ReadKeeps

\* The rows are the plans that are not cancelled.
LEMMA ListPlansKeeps ==
    ASSUME IInv, NEW v \in Visits, ListPlans(v)
    PROVE  IInv'
  <1> DEFINE p == visit[v]
             rows == {r \in PlanIds : Uncancelled(r)}
             q == [p EXCEPT !.rows = rows, !.at = "list_conflicts"]
  <1>1. p.at = "list_plans" /\ Read(v, q) /\ p.at \in Reads
    BY DEF ListPlans, Reads
  <1>2. /\ late[v] = None /\ did[v] = <<>> /\ p.result = None
        /\ p \in Visit /\ Shape(p) /\ Subject(p) /\ Seen(p, touched[v])
    BY <1>1, NothingYet
  <1>3. q \in Visit
    <2>1. [p EXCEPT !.rows = rows] \in Visit
      <3>1. rows \in SUBSET PlanIds
        OBVIOUS
      <3> HIDE DEF rows
      <3> QED
        BY <1>2, <3>1 DEF Visit
    <2>2. \A h \in Visit : [h EXCEPT !.at = "list_conflicts"] \in Visit
      BY DEF Visit, Reads
    <2>3. q = [[p EXCEPT !.rows = rows] EXCEPT !.at = "list_conflicts"]
      <3> HIDE DEF rows
      <3> QED
        BY <1>2 DEF Visit
    <2> QED
      BY <2>1, <2>2, <2>3
  <1>4. /\ Keeps(p, q) /\ q.token = p.token /\ q.at = "list_conflicts" /\ q.servers = p.servers
        /\ q.result = p.result /\ q.form = p.form /\ q.edit = p.edit
        /\ q.rows = rows /\ q.asked = p.asked /\ q.marks = p.marks
    <2> HIDE DEF rows
    <2> QED
      BY <1>2 DEF Visit, Keeps
  <1>5. PICK k \in Visit : k = q
    BY <1>3
  <1> HIDE DEF q
  <1>6. Shape(k) /\ Subject(k)
    BY <1>1, <1>2, <1>4, <1>5 DEF Shape, Subject, Keeps
  <1>7. Local(k, late[v], did[v])
    BY <1>2, <1>4, <1>5, <1>6, FreshIs
  <1>8. Seen(k, touched[v])
    <2>1. \A r \in Stood(touched[v]) : r \in rows <=> ~plans[r].cancelled
      BY DEF Stood, Uncancelled
    <2>2. p.page = "schedule"
      BY <1>1, <1>2 DEF Shape
    <2>3. p.asked = {} /\ p.marks = {} /\ \A r \in Stood(touched[v]) : plans[r].server \in p.servers
      BY <1>1, <1>2, <2>2 DEF Seen
    <2> HIDE DEF rows
    <2>4. k.result # "success" /\ k.at \notin {"me", "list_servers", "list_users", "list_plans"}
      BY <1>2, <1>4, <1>5, NoneIsNothing
    <2> QED
      BY <1>4, <1>5, <2>1, <2>3, <2>4 DEF Seen
  <1> QED
    BY <1>1, <1>4, <1>5, <1>7, <1>8, ReadKeeps

\* The overlaps of one plan, as they are now.
LEMMA ListConflictsKeeps ==
    ASSUME IInv, NEW v \in Visits, ListConflicts(v)
    PROVE  IInv'
  <1> DEFINE p == visit[v]
             marks(x) == IF \E r \in PlanIds : Overlap(x, r) THEN p.marks \cup {x} ELSE p.marks
             q(x) == [p EXCEPT !.asked = p.asked \cup {x}, !.marks = marks(x)]
  <1>1. p.at = "list_conflicts" /\ p.at \in Reads
    BY DEF ListConflicts, Reads
  <1>2. PICK x \in p.rows \ p.asked : Read(v, q(x))
    BY DEF ListConflicts
  <1>3. /\ late[v] = None /\ did[v] = <<>> /\ p.result = None
        /\ p \in Visit /\ Shape(p) /\ Subject(p) /\ Seen(p, touched[v])
    BY <1>1, NothingYet
  <1>4. x \in PlanIds /\ p.asked \cup {x} \in SUBSET PlanIds /\ marks(x) \in SUBSET PlanIds
    <2>1. p.rows \subseteq PlanIds /\ p.asked \subseteq PlanIds /\ p.marks \subseteq PlanIds
      BY <1>3 DEF Visit
    <2> QED
      BY <1>2, <2>1
  <1>5. /\ \A r \in PlanIds : Overlap(x, r) => x \in marks(x)
        /\ x \in marks(x) => x \in p.marks \/ \E r \in PlanIds : Overlap(x, r)
        /\ \A r : r # x => (r \in marks(x) <=> r \in p.marks)
        /\ p.marks \subseteq marks(x)
    OBVIOUS
  <1> HIDE DEF marks
  <1>6. q(x) \in Visit
    <2>1. \A h \in Visit : [h EXCEPT !.asked = p.asked \cup {x}] \in Visit
      BY <1>4 DEF Visit
    <2>2. \A h \in Visit : [h EXCEPT !.marks = marks(x)] \in Visit
      BY <1>4 DEF Visit
    <2>3. q(x) = [[p EXCEPT !.asked = p.asked \cup {x}] EXCEPT !.marks = marks(x)]
      BY <1>3 DEF Visit
    <2> QED
      BY <1>3, <2>1, <2>2, <2>3
  <1>7. /\ Keeps(p, q(x)) /\ q(x).token = p.token /\ q(x).at = p.at /\ q(x).servers = p.servers
        /\ q(x).result = p.result /\ q(x).form = p.form /\ q(x).edit = p.edit
        /\ q(x).rows = p.rows /\ q(x).asked = p.asked \cup {x} /\ q(x).marks = marks(x)
    BY <1>3 DEF Visit, Keeps
  <1>8. PICK k \in Visit : k = q(x)
    BY <1>6
  <1> HIDE DEF q
  <1>9. Shape(k) /\ Subject(k)
    BY <1>1, <1>3, <1>7, <1>8 DEF Shape, Subject, Keeps
  <1>10. Local(k, late[v], did[v])
    BY <1>1, <1>3, <1>7, <1>8, <1>9, FreshIs
  <1>11. Seen(k, touched[v])
    <2>1. p.page = "schedule"
      BY <1>1, <1>3 DEF Shape
    <2>2. /\ \A r \in Stood(touched[v]) : plans[r].server \in p.servers
          /\ \A r \in Stood(touched[v]) : r \in p.rows <=> ~plans[r].cancelled
          /\ \A r, s \in Stood(touched[v]) : r \in p.asked /\ Overlap(r, s) => r \in p.marks
          /\ \A r \in Stood(touched[v]) :
               r \in p.marks => \E s \in PlanIds : Overlap(r, s) \/ s \in touched[v]
      BY <1>1, <1>3, <2>1 DEF Seen
    <2>3. \A r, s \in Stood(touched[v]) : r \in p.asked \cup {x} /\ Overlap(r, s) => r \in marks(x)
      BY <1>5, <2>2 DEF Stood
    <2>4. \A r \in Stood(touched[v]) :
            r \in marks(x) => \E s \in PlanIds : Overlap(r, s) \/ s \in touched[v]
      BY <1>5, <2>2
    <2>5. k.result # "success" /\ k.at \notin {"me", "list_servers", "list_users", "list_plans"}
      BY <1>1, <1>3, <1>7, <1>8, NoneIsNothing
    <2> QED
      BY <1>7, <1>8, <2>2, <2>3, <2>4, <2>5, Zenon DEF Seen
  <1> QED
    BY <1>1, <1>2, <1>7, <1>8, <1>10, <1>11, ReadKeeps DEF q

\* The page of the schedule: rows without a server that was listed are in no group.
LEMMA ShowScheduleKeeps ==
    ASSUME IInv, NEW v \in Visits, ShowSchedule(v)
    PROVE  IInv'
  <1> DEFINE p == visit[v]
             q == [Page(p, "success") EXCEPT !.rows = Shown(p)]
  <1>1. p.at = "list_conflicts" /\ p.rows \subseteq p.asked /\ Hold(v, q)
        /\ UNCHANGED <<core, late, cookie, jar, history>>
    BY DEF ShowSchedule
  <1>2. /\ late[v] = None /\ did[v] = <<>> /\ p.result = None
        /\ p \in Visit /\ Shape(p) /\ Subject(p) /\ Seen(p, touched[v])
    BY <1>1, NothingYet
  <1>3. /\ Page(p, "success") \in Visit /\ Keeps(p, Page(p, "success"))
        /\ Page(p, "success").at = "page" /\ Page(p, "success").result = "success"
        /\ Page(p, "success").token = p.token /\ Page(p, "success").asked = p.asked
        /\ Page(p, "success").marks = p.marks
    BY <1>2, PageIs
  <1>4. Shown(p) \subseteq PlanIds /\ Shown(p) \subseteq p.rows
    BY <1>2 DEF Shown, Visit
  <1>5. /\ q \in Visit /\ Keeps(p, q) /\ q.at = "page" /\ q.result = "success"
        /\ q.token = p.token /\ q.asked = p.asked /\ q.marks = p.marks /\ q.rows = Shown(p)
    <2>1. \A h \in Visit : /\ [h EXCEPT !.rows = Shown(p)] \in Visit
                           /\ Keeps(h, [h EXCEPT !.rows = Shown(p)])
                           /\ [h EXCEPT !.rows = Shown(p)].at = h.at
                           /\ [h EXCEPT !.rows = Shown(p)].result = h.result
                           /\ [h EXCEPT !.rows = Shown(p)].token = h.token
                           /\ [h EXCEPT !.rows = Shown(p)].asked = h.asked
                           /\ [h EXCEPT !.rows = Shown(p)].marks = h.marks
                           /\ [h EXCEPT !.rows = Shown(p)].rows = Shown(p)
      BY <1>4 DEF Visit, Keeps
    <2> QED
      BY <1>3, <2>1, Zenon DEF Keeps
  <1>6. PICK k \in Visit : k = q
    BY <1>5
  <1> HIDE DEF q
  <1>7. p.page = "schedule" /\ k.page = "schedule"
    BY <1>1, <1>2, <1>5, <1>6 DEF Shape, Keeps
  <1>8. Shape(k) /\ Subject(k)
    BY <1>1, <1>2, <1>5, <1>6, <1>7 DEF Shape, Subject, Keeps
  <1>9. Local(k, late[v], did[v])
    <2>1. Whole(k, did[v])
      BY <1>2, <1>7 DEF Whole
    <2>2. Told(k, late[v], did[v])
      BY <1>2, <1>5, <1>6, <1>7, <2>1, NoneIsNothing DEF Told
    <2>3. Left(k, late[v], did[v])
      BY <1>2 DEF Left
    <2> QED
      BY <1>8, <2>2, <2>3 DEF Local
  <1>10. Seen(k, touched[v])
    <2>2. /\ \A r \in Stood(touched[v]) : plans[r].server \in p.servers
          /\ \A r \in Stood(touched[v]) : r \in p.rows <=> ~plans[r].cancelled
          /\ \A r, s \in Stood(touched[v]) : r \in p.asked /\ Overlap(r, s) => r \in p.marks
          /\ \A r \in Stood(touched[v]) :
               r \in p.marks => \E s \in PlanIds : Overlap(r, s) \/ s \in touched[v]
      BY <1>1, <1>2, <1>7 DEF Seen
    <2>3. \A r \in Stood(touched[v]) : r \in Shown(p) <=> ~plans[r].cancelled
      BY <2>2 DEF Shown
    <2>4. k.at \notin {"me", "list_servers", "list_users", "list_plans", "list_conflicts"}
      BY <1>5, <1>6
    <2>5. Shown(p) \subseteq p.asked
      BY <1>1, <1>4
    <2> QED
      BY <1>5, <1>6, <2>2, <2>3, <2>4, <2>5 DEF Seen
  <1>11. CookieDropped(v, k) /\ late' \in [Visits -> Visit \cup {None}]
    BY <1>1 DEF CookieDropped, IInv, Types
  <1> QED
    BY <1>1, <1>5, <1>6, <1>9, <1>10, <1>11, MoveKeeps

\* A visit that asks ends with a refusal of the page itself.
LEMMA RefusedKeeps ==
    ASSUME IInv, NEW v \in Visits, visit[v].at \in Reads, NEW result \in Ends,
           Read(v, Page(visit[v], result))
    PROVE  IInv'
  <1>1. visit[v] \in Visit /\ Local(visit[v], late[v], did[v]) /\ visit[v].at \in Reads \cup Writes
    BY DEF IInv, Types
  <1>2. PICK h : h = Page(visit[v], result)
    OBVIOUS
  <1>3. /\ h \in Visit /\ Keeps(visit[v], h) /\ h.token = visit[v].token
        /\ Local(h, late[v], did[v]) /\ Seen(h, touched[v])
    BY <1>1, <1>2, EndIs
  <1> QED
    BY <1>2, <1>3, ReadKeeps

\* A visit that is not to the schedule goes on to the call at.
LEMMA NextCallKeeps ==
    ASSUME IInv, NEW v \in Visits, visit[v].at \in Reads \ {"render"},
           NEW at \in Reads \cup Writes, Read(v, [visit[v] EXCEPT !.at = at]),
           visit[v].page # "schedule", at \notin {"render", "set_password", "me", "get_plan"},
           Shape([visit[v] EXCEPT !.at = at]), Subject([visit[v] EXCEPT !.at = at])
    PROVE  IInv'
  <1>1. /\ late[v] = None /\ did[v] = <<>> /\ visit[v].result = None /\ visit[v] \in Visit
    BY NothingYet DEF Reads
  <1>2. PICK k : k = [visit[v] EXCEPT !.at = at]
    OBVIOUS
  <1>3. /\ k \in Visit /\ Keeps(visit[v], k) /\ k.at = at /\ k.result = None
        /\ k.token = visit[v].token
    BY <1>1, <1>2, CallIs
  <1>4. k.at \notin {"page", "render", "set_password"}
    BY <1>3 DEF Reads, Writes
  <1>5. Local(k, late[v], did[v])
    BY <1>1, <1>2, <1>3, <1>4, FreshIs
  <1>6. Seen(k, touched[v])
    BY <1>3 DEF Seen, Keeps
  <1> QED
    BY <1>2, <1>3, <1>5, <1>6, ReadKeeps

\* The key of a server is looked up before the plan is created.
LEMMA FindServerKeeps ==
    ASSUME IInv, NEW v \in Visits, FindServer(v)
    PROVE  IInv'
  <1> DEFINE p == visit[v]
             q == [p EXCEPT !.at = "create_plan"]
  <1>1. /\ p.at = "list_servers" /\ p.page = "create"
        /\ p.at \in Reads \ {"render"} /\ "create_plan" \in Reads \cup Writes /\ "refused" \in Ends
    BY DEF FindServer, Reads, Writes, Ends
  <1>2. p \in Visit /\ Shape(p) /\ Subject(p)
    BY <1>1, NothingYet
  <1>3. CASE Read(v, Page(p, "refused"))
    BY <1>1, <1>3, RefusedKeeps
  <1>4. CASE Read(v, q)
    <2>1. Keeps(p, q) /\ q.at = "create_plan" /\ q.token = p.token
      BY <1>1, <1>2, CallIs
    <2> HIDE DEF q
    <2>2. Shape(q) /\ Subject(q)
      BY <1>1, <1>2, <2>1 DEF Shape, Subject, Keeps
    <2> QED
      BY <1>1, <1>4, <2>2, NextCallKeeps DEF q
  <1> QED
    BY <1>3, <1>4 DEF FindServer

\* The form of create is shown again with the answer that it got.
LEMMA RenderKeeps ==
    ASSUME IInv, NEW v \in Visits, Render(v)
    PROVE  IInv'
  <1>1. visit[v].at = "render" /\ visit[v].at \in Reads
    BY DEF Render, Reads
  <1>2. visit[v].result \in Ends
    BY <1>1 DEF IInv, Local, Told, Ends
  <1> QED
    BY <1>1, <1>2, RefusedKeeps DEF Render

\* The plan as the form will show it, or as it is checked again when it comes back.
LEMMA GetPlanKeeps ==
    ASSUME IInv, NEW v \in Visits, GetPlan(v)
    PROVE  IInv'
  <1> DEFINE p == visit[v]
             shown == [p EXCEPT !.form = plans[p.plan], !.at = "typing"]
             checked == [p EXCEPT !.at = "update_plan"]
  <1>1. /\ p.at = "get_plan" /\ p.at \in Reads \ {"render"}
        /\ "update_plan" \in Reads \cup Writes /\ "refused" \in Ends
    BY DEF GetPlan, Reads, Writes, Ends
  <1>2. /\ late[v] = None /\ did[v] = <<>> /\ p.result = None
        /\ p \in Visit /\ Shape(p) /\ Subject(p) /\ p.page = "edit" /\ p.page # "schedule"
    BY <1>1, NothingYet DEF Shape
  <1>3. CASE Read(v, Page(p, "refused"))
    BY <1>1, <1>3, RefusedKeeps
  <1>4. CASE p.form # None /\ PostedStart(p) < PostedEnd(p) /\ Read(v, checked)
    <2>1. Keeps(p, checked) /\ checked.at = "update_plan" /\ checked.token = p.token
          /\ checked.form = p.form /\ checked.edit = p.edit
      BY <1>1, <1>2, CallIs
    <2> HIDE DEF checked
    <2>2. PostedStart(checked) < PostedEnd(checked)
      BY <1>4, <2>1 DEF PostedStart, PostedEnd
    <2>3. Shape(checked) /\ Subject(checked)
      BY <1>1, <1>2, <1>4, <2>1, <2>2 DEF Shape, Subject, Keeps
    <2> QED
      BY <1>1, <1>2, <1>4, <2>3, NextCallKeeps DEF checked
  <1>5. CASE Uncancelled(p.plan) /\ Read(v, shown)
    <2>1. p.plan \in PlanIds /\ plans[p.plan] \in Plan /\ plans[p.plan] # None
      <3>1. p.plan \in PlanIds
        BY <1>2 DEF Subject, Visit
      <3> QED
        BY <1>5, <3>1 DEF Uncancelled, IInv, Types
    <2>2. /\ shown \in Visit /\ Keeps(p, shown) /\ shown.at = "typing" /\ shown.token = p.token
          /\ shown.result = p.result /\ shown.form = plans[p.plan] /\ shown.edit = p.edit
      <3>1. \A f \in Plan : [p EXCEPT !.form = f] \in Visit
        BY <1>2 DEF Visit
      <3>2. \A h \in Visit : [h EXCEPT !.at = "typing"] \in Visit
        BY DEF Visit
      <3>3. shown = [[p EXCEPT !.form = plans[p.plan]] EXCEPT !.at = "typing"]
        BY <1>2 DEF Visit
      <3>4. shown \in Visit
        BY <2>1, <3>1, <3>2, <3>3
      <3> QED
        BY <1>2, <3>4 DEF Visit, Keeps
    <2>3. PICK k \in Visit : k = shown
      BY <2>2
    <2> HIDE DEF shown
    <2>4. Shape(k) /\ Subject(k)
      BY <1>1, <1>2, <2>1, <2>2, <2>3 DEF Shape, Subject, Keeps
    <2>5. Local(k, late[v], did[v])
      BY <1>2, <2>2, <2>3, <2>4, FreshIs
    <2>6. Seen(k, touched[v])
      BY <1>2, <2>2, <2>3 DEF Seen, Keeps
    <2> QED
      BY <1>1, <1>5, <2>2, <2>3, <2>5, <2>6, ReadKeeps
  <1> QED
    BY <1>3, <1>4, <1>5 DEF GetPlan

\* The form comes back with the cookie that the browser has by now.
LEMMA SubmitKeeps ==
    ASSUME IInv, NEW v \in Visits, Submit(v)
    PROVE  IInv'
  <1> DEFINE p == visit[v]
             q(edit) == [p EXCEPT !.edit = edit, !.token = cookie[p.browser],
                                  !.viewer = None, !.role = None, !.at = "me"]
  <1>1. p.at = "typing" /\ UNCHANGED <<core, late, cookie, jar, history>>
    BY DEF Submit
  <1>2. PICK edit \in Edits : Hold(v, q(edit))
    BY DEF Submit
  <1>3. /\ late[v] = None /\ did[v] = <<>> /\ p.result = None
        /\ p \in Visit /\ Shape(p) /\ Subject(p) /\ p.page = "edit"
    BY <1>1, NothingYet DEF Shape
  <1>4. p.browser \in Browsers /\ cookie[p.browser] \in Tokens \cup {None}
    BY <1>1, <1>3 DEF Shape, Visit, IInv, Types
  <1>5. q(edit) \in Visit
    <2>1. \A h \in Visit : [h EXCEPT !.edit = edit] \in Visit
      BY DEF Visit
    <2>2. \A h \in Visit, t \in Tokens \cup {None} : [h EXCEPT !.token = t] \in Visit
      BY DEF Visit
    <2>3. \A h \in Visit : [h EXCEPT !.viewer = None] \in Visit
      BY DEF Visit
    <2>4. \A h \in Visit : [h EXCEPT !.role = None] \in Visit
      BY DEF Visit
    <2>5. \A h \in Visit : [h EXCEPT !.at = "me"] \in Visit
      BY DEF Visit, Reads
    <2>6. q(edit) = [[[[[p EXCEPT !.edit = edit] EXCEPT !.token = cookie[p.browser]]
                           EXCEPT !.viewer = None] EXCEPT !.role = None] EXCEPT !.at = "me"]
      BY <1>3 DEF Visit
    <2> HIDE DEF p, q
    <2> QED
      BY <1>3, <1>4, <2>1, <2>2, <2>3, <2>4, <2>5, <2>6
  <1>6. /\ Keeps(p, q(edit)) /\ q(edit).at = "me" /\ q(edit).token = cookie[p.browser]
        /\ q(edit).result = p.result /\ q(edit).form = p.form /\ q(edit).edit = edit
    BY <1>3 DEF Visit, Keeps
  <1>7. PICK k \in Visit : k = q(edit)
    BY <1>5
  <1> HIDE DEF q
  <1>8. Shape(k) /\ Subject(k)
    BY <1>1, <1>3, <1>6, <1>7, NoneIsNothing DEF Shape, Subject, Keeps
  <1>9. Local(k, late[v], did[v])
    BY <1>3, <1>6, <1>7, <1>8, FreshIs
  <1>10. Seen(k, touched[v])
    BY <1>3, <1>6, <1>7 DEF Seen, Keeps
  <1>11. CookieDropped(v, k) /\ late' \in [Visits -> Visit \cup {None}] /\ late' = late
    BY <1>1 DEF CookieDropped, IInv, Types
  <1>12. Keeps(p, k) /\ k.token = cookie[p.browser] /\ Hold(v, k)
    BY <1>2, <1>6, <1>7
  <1> QED
    BY <1>1, <1>3, <1>4, <1>9, <1>10, <1>11, <1>12, MoveKeeps

-----------------------------------------------------------------------------
(* The clicks.                                                             *)

\* A visit comes with the cookie of its browser and with nothing else.
LEMMA ArriveKeeps ==
    ASSUME IInv, NEW v \in Visits, NEW q \in Visit, Arrive(v, q), Subject(q), q.result = None,
           q.form = None, q.edit = None, q.rows = {}, q.asked = {}, q.marks = {}
    PROVE  IInv'
  <1> DEFINE at == IF q.page \in {"login", "logout"} THEN q.page ELSE "me"
             h(b) == [q EXCEPT !.at = at, !.browser = b, !.token = cookie[b]]
  <1>1. /\ visit[v].at = "idle" /\ q.page \in Pages /\ q.page \in AllPages
        /\ UNCHANGED <<core, late, cookie, jar, history>>
    BY WebAssumption DEF Arrive
  <1>2. PICK b \in Browsers : Hold(v, h(b))
    BY DEF Arrive
  <1>3. late[v] = None /\ did[v] = <<>>
    BY <1>1, NothingYet
  <1>4. at \in Reads \cup Writes /\ cookie[b] \in Tokens \cup {None}
        /\ at \in {"login", "logout", "me"} /\ (at = "login" => q.page = "login")
        /\ (at = "logout" => q.page = "logout") /\ (at = "me" => q.page \notin {"login", "logout"})
    BY DEF Reads, Writes, IInv, Types
  <1> HIDE DEF at
  <1>5. h(b) \in Visit
    <2>1. \A g \in Visit, x \in Reads \cup Writes : [g EXCEPT !.at = x] \in Visit
      BY DEF Visit
    <2>2. \A g \in Visit, x \in Browsers : [g EXCEPT !.browser = x] \in Visit
      BY DEF Visit
    <2>3. \A g \in Visit, x \in Tokens \cup {None} : [g EXCEPT !.token = x] \in Visit
      BY DEF Visit
    <2>4. h(b) = [[[q EXCEPT !.at = at] EXCEPT !.browser = b] EXCEPT !.token = cookie[b]]
      BY DEF Visit
    <2> HIDE DEF h
    <2>5. [q EXCEPT !.at = at] \in Visit
      BY <1>4, <2>1
    <2>6. [[q EXCEPT !.at = at] EXCEPT !.browser = b] \in Visit
      BY <2>2, <2>5
    <2> QED
      BY <1>4, <2>3, <2>4, <2>6
  <1>6. /\ h(b).page = q.page /\ h(b).user = q.user /\ h(b).plan = q.plan /\ h(b).server = q.server
        /\ h(b).at = at /\ h(b).browser = b /\ h(b).token = cookie[b]
        /\ h(b).result = None /\ h(b).form = None /\ h(b).edit = None
        /\ h(b).rows = {} /\ h(b).asked = {} /\ h(b).marks = {}
    BY DEF Visit
  <1>7. PICK k \in Visit : k = h(b)
    BY <1>5
  <1> HIDE DEF h
  <1>8. q.page # None
    BY <1>1, NoneIsNothing
  <1>9. k.browser # None
    <2>1. b \in Tokens
      BY DEF Tokens
    <2> QED
      BY <1>6, <1>7, <2>1, NoneIsNothing
  <1>10. Shape(k)
    BY <1>4, <1>6, <1>7, <1>8, <1>9 DEF Shape
  <1>11. Subject(k)
    BY <1>4, <1>6, <1>7 DEF Subject
  <1>12. Local(k, late[v], did[v])
    <2>1. k.at \notin {"page", "render", "set_password"}
      BY <1>4, <1>6, <1>7
    <2> QED
      BY <1>3, <1>6, <1>7, <1>10, <1>11, <2>1, FreshIs
  <1>13. Seen(k, touched[v])
    <2>1. k.result # "success" /\ k.at \notin {"list_users", "list_plans", "list_conflicts"}
      BY <1>4, <1>6, <1>7, NoneIsNothing
    <2> QED
      BY <1>6, <1>7, <2>1 DEF Seen
  <1>14. late' \in [Visits -> Visit \cup {None}] /\ late' = late /\ cookie' = cookie
         /\ CookieDropped(v, k) /\ Hold(v, k) /\ k.token = cookie[b]
    BY <1>1, <1>2, <1>6, <1>7 DEF CookieDropped, IInv, Types
  <1> QED
    BY <1>1, <1>3, <1>12, <1>13, <1>14, MoveKeeps

\* What is clicked: a page and its subject.
LEMMA ClickKeeps ==
    ASSUME IInv, NEW v \in Visits, Click(v)
    PROVE  IInv'
  <1> DEFINE About(q) ==
        /\ q \in Visit /\ q.result = None
        /\ q.form = None /\ q.edit = None /\ q.rows = {} /\ q.asked = {} /\ q.marks = {}
  <1>1. /\ Idle.page = None /\ Idle.at = "idle" /\ Idle.result = None /\ Idle.form = None
        /\ Idle.edit = None /\ Idle.rows = {} /\ Idle.asked = {} /\ Idle.marks = {}
    BY DEF Idle
  <1>2. Idle \in Visit
    BY DEF Idle, Visit, Reads, Writes
  <1>3. ASSUME NEW page \in Pages
        PROVE  LET q == [Idle EXCEPT !.page = page]
               IN  About(q) /\ q.page = page /\ q.at = "idle"
    BY <1>1, <1>2 DEF Visit
  <1>4. ASSUME NEW q, About(q), NEW u \in Users
        PROVE  LET h == [q EXCEPT !.user = u]
               IN  About(h) /\ h.page = q.page /\ h.at = q.at /\ h.user = u
    BY <1>4 DEF Visit
  <1>5. ASSUME NEW q, About(q), NEW p \in PlanIds
        PROVE  LET h == [q EXCEPT !.plan = p]
               IN  About(h) /\ h.page = q.page /\ h.at = q.at /\ h.plan = p
    BY <1>5 DEF Visit
  <1>6. ASSUME NEW q, About(q), NEW s \in Servers
        PROVE  LET h == [q EXCEPT !.server = s]
               IN  About(h) /\ h.page = q.page /\ h.at = q.at /\ h.server = s
    BY <1>6 DEF Visit
  <1>7. ASSUME NEW q, About(q), NEW flag \in BOOLEAN
        PROVE  LET h == [q EXCEPT !.enabled = flag]
               IN  About(h) /\ h.page = q.page /\ h.at = q.at /\ h.user = q.user
    BY <1>7 DEF Visit
  <1> HIDE DEF About
  <1>8. ASSUME NEW q, About(q), q.at = "idle", Arrive(v, q),
               q.page \in {"login", "provision", "password", "toggle"} => q.user # None,
               q.page \in {"edit", "cancel"} => q.plan # None,
               q.page = "create" => q.server # None
        PROVE  IInv'
    <2>1. Subject(q)
      BY <1>8 DEF Subject
    <2> QED
      BY <1>8, <2>1, ArriveKeeps DEF About
  <1>9. ASSUME NEW q, Arrive(v, q) PROVE q.page \in Pages
    BY <1>9 DEF Arrive
  <1>10. ASSUME NEW page \in {"login", "provision", "password"}, NEW u \in Users,
                Arrive(v, [Idle EXCEPT !.page = page, !.user = u])
         PROVE  IInv'
    <2> DEFINE q == [Idle EXCEPT !.page = page]
               h == [q EXCEPT !.user = u]
    <2>1. h = [Idle EXCEPT !.page = page, !.user = u]
      BY DEF Idle
    <2>2. h.page = page
      BY DEF Idle
    <2>3. page \in Pages
      BY <1>9, <1>10, <2>1, <2>2
    <2>4. About(q) /\ q.page = page /\ q.at = "idle"
      BY <1>3, <2>3
    <2>5. About(h) /\ h.at = "idle" /\ h.user = u
      BY <1>4, <2>4
    <2> HIDE DEF h
    <2> QED
      BY <1>8, <1>10, <2>1, <2>2, <2>5, NoneIsNothing
  <1>11. ASSUME NEW page \in {"logout", "schedule"}, Arrive(v, [Idle EXCEPT !.page = page])
         PROVE  IInv'
    <2> DEFINE h == [Idle EXCEPT !.page = page]
    <2>1. h.page = page
      BY DEF Idle
    <2>2. page \in Pages
      BY <1>9, <1>11, <2>1
    <2>3. About(h) /\ h.at = "idle"
      BY <1>3, <2>2
    <2> HIDE DEF h
    <2> QED
      BY <1>8, <1>11, <2>1, <2>3 DEF h
  <1>12. ASSUME NEW page \in {"edit", "cancel"}, NEW p \in PlanIds,
                Arrive(v, [Idle EXCEPT !.page = page, !.plan = p])
         PROVE  IInv'
    <2> DEFINE q == [Idle EXCEPT !.page = page]
               h == [q EXCEPT !.plan = p]
    <2>1. h = [Idle EXCEPT !.page = page, !.plan = p]
      BY DEF Idle
    <2>2. h.page = page
      BY DEF Idle
    <2>3. page \in Pages
      BY <1>9, <1>12, <2>1, <2>2
    <2>4. About(q) /\ q.page = page /\ q.at = "idle"
      BY <1>3, <2>3
    <2>5. About(h) /\ h.at = "idle" /\ h.plan = p
      BY <1>5, <2>4
    <2> HIDE DEF h
    <2> QED
      BY <1>8, <1>12, <2>1, <2>2, <2>5, NoneIsNothing
  <1>13. ASSUME NEW s \in Servers, Arrive(v, [Idle EXCEPT !.page = "create", !.server = s])
         PROVE  IInv'
    <2> DEFINE q == [Idle EXCEPT !.page = "create"]
               h == [q EXCEPT !.server = s]
    <2>1. h = [Idle EXCEPT !.page = "create", !.server = s]
      BY DEF Idle
    <2>2. h.page = "create"
      BY DEF Idle
    <2>3. "create" \in Pages
      BY <1>9, <1>13, <2>1, <2>2
    <2>4. About(q) /\ q.page = "create" /\ q.at = "idle"
      BY <1>3, <2>3
    <2>5. About(h) /\ h.at = "idle" /\ h.server = s
      BY <1>6, <2>4
    <2> HIDE DEF h
    <2> QED
      BY <1>8, <1>13, <2>1, <2>2, <2>5, NoneIsNothing
  <1>14. ASSUME NEW u \in Users, NEW flag \in BOOLEAN,
                Arrive(v, [Idle EXCEPT !.page = "toggle", !.user = u, !.enabled = flag])
         PROVE  IInv'
    <2> DEFINE q == [Idle EXCEPT !.page = "toggle"]
               g == [q EXCEPT !.user = u]
               h == [g EXCEPT !.enabled = flag]
    <2>1. h = [Idle EXCEPT !.page = "toggle", !.user = u, !.enabled = flag]
      BY DEF Idle
    <2>2. h.page = "toggle"
      BY DEF Idle
    <2>3. "toggle" \in Pages
      BY <1>9, <1>14, <2>1, <2>2
    <2>4. About(q) /\ q.page = "toggle" /\ q.at = "idle"
      BY <1>3, <2>3
    <2> HIDE DEF q
    <2>5. About(g) /\ g.at = "idle" /\ g.user = u
      BY <1>4, <2>4
    <2> HIDE DEF g
    <2>6. About(h) /\ h.at = "idle" /\ h.user = u
      BY <1>7, <2>5
    <2> HIDE DEF h
    <2> QED
      BY <1>8, <1>14, <2>1, <2>2, <2>6, NoneIsNothing
  <1> QED
    BY <1>10, <1>11, <1>12, <1>13, <1>14, SubmitKeeps
    DEF Click, VisitLogin, VisitLogout, VisitSchedule, VisitCreate, VisitEdit, VisitCancel,
        VisitProvision, VisitPassword, VisitToggle

-----------------------------------------------------------------------------
(* Refusals and timeouts of calls that write.                              *)

\* Core refuses a call that writes: the page says so, or the form of create is shown again.
LEMMA RejectedKeeps ==
    ASSUME IInv, NEW v \in Visits, visit[v].at \in Writes,
           LET q == visit[v]
           IN  Hold(v, IF q.at = "create_plan"
                       THEN [q EXCEPT !.at = "render", !.result = "refused"]
                       ELSE Page(q, "refused")),
           UNCHANGED <<core, late, jar, history>>,
           \/ cookie' = cookie
           \/ visit[v].at = "logout" /\ cookie' = [cookie EXCEPT ![visit[v].browser] = None]
    PROVE  IInv'
  <1> DEFINE p == visit[v]
             again == [p EXCEPT !.at = "render", !.result = "refused"]
  <1>1. p \in Visit /\ Local(p, late[v], did[v]) /\ p.at \in Reads \cup Writes
        /\ p.at \notin {"idle", "page"}
    BY DEF IInv, Types, Writes
  <1>2. late' \in [Visits -> Visit \cup {None}] /\ late' = late
    BY DEF IInv, Types
  <1>3. CASE p.at # "create_plan"
    <2>1. PICK h : h = Page(p, "refused")
      OBVIOUS
    <2>2. /\ h \in Visit /\ Keeps(p, h) /\ h.token = p.token /\ h.at = "page"
          /\ h.result = "refused" /\ Local(h, late[v], did[v]) /\ Seen(h, touched[v])
      BY <1>1, <2>1, EndIs DEF Ends
    <2>3. h.result # "success" /\ h.result \in {"refused", "unavailable"}
      BY <2>2
    <2>4. CookieDropped(v, h)
      <3>1. p.at = "logout" => h.page = "logout"
        BY <1>1, <2>2 DEF Local, Shape, Keeps
      <3> QED
        BY <2>2, <2>3, <3>1 DEF CookieDropped
    <2> QED
      BY <1>1, <1>2, <1>3, <2>1, <2>2, <2>3, <2>4, MoveKeeps
  <1>4. CASE p.at = "create_plan"
    <2>1. late[v] = None /\ did[v] = <<>> /\ p.result = None /\ Shape(p) /\ Subject(p)
      BY <1>4, NothingYet
    <2>2. again \in Visit
      <3>1. [p EXCEPT !.at = "render"] \in Visit
        BY <1>1 DEF Visit, Reads
      <3>2. \A h \in Visit : [h EXCEPT !.result = "refused"] \in Visit
        BY DEF Visit
      <3>3. again = [[p EXCEPT !.at = "render"] EXCEPT !.result = "refused"]
        BY <1>1 DEF Visit
      <3> QED
        BY <3>1, <3>2, <3>3
    <2>3. Keeps(p, again) /\ again.at = "render" /\ again.result = "refused" /\ again.token = p.token
      BY <1>1 DEF Visit, Keeps
    <2>4. PICK k \in Visit : k = again
      BY <2>2
    <2> HIDE DEF again
    <2>5. Shape(k) /\ Subject(k)
      BY <1>4, <2>1, <2>3, <2>4 DEF Shape, Subject, Keeps
    <2>6. k.page = "create" /\ k.page # "schedule"
      BY <1>4, <2>1, <2>3, <2>4 DEF Shape, Keeps
    <2>7. Local(k, late[v], did[v])
      <3>1. Told(k, late[v], did[v])
        BY <2>1, <2>3, <2>4, <2>6 DEF Told
      <3> QED
        BY <2>1, <2>5, <3>1 DEF Local, Left
    <2>8. Seen(k, touched[v])
      BY <2>6 DEF Seen
    <2>9. CookieDropped(v, k) /\ Hold(v, k)
      BY <1>4, <2>4 DEF CookieDropped, again
    <2> QED
      BY <1>1, <1>2, <1>4, <2>3, <2>4, <2>7, <2>8, <2>9, MoveKeeps
  <1> QED
    BY <1>3, <1>4

\* A logout without a cookie makes no call.
LEMMA LogoutUnknownKeeps ==
    ASSUME IInv, NEW v \in Visits, visit[v].at = "logout", visit[v].token = None,
           Hold(v, Page(visit[v], "success")),
           cookie' = [cookie EXCEPT ![visit[v].browser] = None],
           UNCHANGED <<core, late, jar, history>>
    PROVE  IInv'
  <1> DEFINE p == visit[v]
  <1>1. /\ late[v] = None /\ did[v] = <<>> /\ p.result = None
        /\ p \in Visit /\ Shape(p) /\ Subject(p) /\ p.page = "logout"
    BY NothingYet DEF Shape
  <1>2. PICK h : h = Page(p, "success")
    OBVIOUS
  <1>3. /\ h \in Visit /\ Keeps(p, h) /\ h.at = "page" /\ h.result = "success" /\ h.token = p.token
    BY <1>1, <1>2, PageIs
  <1>4. Shape(h) /\ Subject(h) /\ h.page = "logout"
    BY <1>1, <1>3, NoneIsNothing DEF Shape, Subject, Keeps
  <1>5. Local(h, late[v], did[v])
    <2>1. Told(h, late[v], did[v])
      BY <1>1, <1>3, <1>4, NoneIsNothing DEF Told
    <2> QED
      BY <1>1, <1>4, <2>1 DEF Local, Left
  <1>6. Seen(h, touched[v])
    BY <1>4 DEF Seen
  <1>7. CookieDropped(v, h) /\ late' \in [Visits -> Visit \cup {None}] /\ late' = late
    BY <1>3, <1>4 DEF CookieDropped, IInv, Types
  <1> QED
    BY <1>2, <1>3, <1>5, <1>6, <1>7, MoveKeeps

\* Nobody waits for the answer any more; a call that writes may still get through.
LEMMA GiveUpKeeps ==
    ASSUME IInv, NEW v \in Visits, GiveUp(v)
    PROVE  IInv'
  <1> DEFINE p == visit[v]
             again == [p EXCEPT !.at = "render", !.result = "unavailable"]
  <1>1. p \in Visit /\ Local(p, late[v], did[v]) /\ p.at \in Reads \cup Writes
        /\ p.at \notin {"idle", "page"} /\ UNCHANGED <<core, jar, history>>
        /\ (p.at \in Writes => p.at \notin {"render", "page"})
    BY DEF IInv, Types, GiveUp, Reads, Writes
  <1>2. Shape(p) /\ Subject(p) /\ Told(p, late[v], did[v])
    BY <1>1 DEF Local
  <1>3. late' \in [Visits -> Visit \cup {None}] /\ (\A w \in Visits \ {v} : late'[w] = late[w])
        /\ late'[v] = IF p.at \in Writes THEN p ELSE late[v]
    BY <1>1 DEF IInv, Types, GiveUp
  <1>4. \/ cookie' = cookie
        \/ p.at = "logout" /\ cookie' = [cookie EXCEPT ![p.browser] = None]
    BY DEF GiveUp
  <1>5. ASSUME NEW h \in Visit, Keeps(p, h), h.token = p.token, h.result = "unavailable",
               p.at \in Writes, IF p.at = "create_plan" THEN h.at = "render" ELSE h.at = "page"
        PROVE  Local(h, p, did[v]) /\ Seen(h, touched[v])
    <2>1. Shape(h) /\ Subject(h)
      BY <1>1, <1>2, <1>5, NoneIsNothing DEF Shape, Subject, Keeps, Writes
    <2>2. p.at # "set_password" => did[v] = <<>>
      BY <1>1, <1>2, <1>5 DEF Told
    <2>3. h.result # None /\ h.result \notin {"success", "refused"}
      BY <1>5, NoneIsNothing
    <2>4. did[v] = <<>> \/ h.page = "login" \/ h.token # None
      BY <1>2, <1>5 DEF Told, Keeps
    <2>5. Told(h, p, did[v])
      <3>1. CASE p.at = "create_plan"
        BY <1>5, <2>2, <2>3, <2>4, <3>1 DEF Told
      <3>2. CASE p.at # "create_plan"
        BY <1>5, <2>3, <2>4, <3>2 DEF Told
      <3> QED
        BY <3>1, <3>2
    <2>6. Left(h, p, did[v])
      <3>1. p.at = "logout" => p.token # None
        BY DEF GiveUp
      <3>2. p.at \in {"login", "create_user"} => h.at = "page"
        BY <1>5
      <3> QED
        BY <1>2, <1>5, <2>2, <3>1, <3>2 DEF Left, Keeps
    <2>7. Seen(h, touched[v])
      <3>1. p.page # "schedule"
        BY <1>2, <1>5 DEF Shape, Writes
      <3> QED
        BY <1>5, <3>1 DEF Seen, Keeps
    <2> QED
      BY <2>1, <2>5, <2>6, <2>7 DEF Local
  <1>6. CASE p.at # "create_plan"
    <2>1. PICK h : h = Page(p, "unavailable")
      OBVIOUS
    <2>2. /\ h \in Visit /\ Keeps(p, h) /\ h.token = p.token /\ h.at = "page"
          /\ h.result = "unavailable" /\ Local(h, late[v], did[v]) /\ Seen(h, touched[v])
      BY <1>1, <2>1, EndIs DEF Ends
    <2>3. Local(h, late'[v], did[v])
      BY <1>3, <1>5, <1>6, <2>2
    <2>4. CookieDropped(v, h)
      <3>1. p.at = "logout" => h.page = "logout"
        BY <1>2, <2>2 DEF Shape, Keeps
      <3> QED
        BY <1>4, <2>2, <3>1 DEF CookieDropped
    <2>5. Hold(v, h)
      BY <1>6, <2>1 DEF GiveUp
    <2> QED
      BY <1>1, <1>3, <2>2, <2>3, <2>4, <2>5, MoveKeeps
  <1>7. CASE p.at = "create_plan"
    <2>1. again \in Visit
      <3>1. [p EXCEPT !.at = "render"] \in Visit
        BY <1>1 DEF Visit, Reads
      <3>2. \A h \in Visit : [h EXCEPT !.result = "unavailable"] \in Visit
        BY DEF Visit
      <3>3. again = [[p EXCEPT !.at = "render"] EXCEPT !.result = "unavailable"]
        BY <1>1 DEF Visit
      <3> QED
        BY <3>1, <3>2, <3>3
    <2>2. Keeps(p, again) /\ again.at = "render" /\ again.result = "unavailable" /\ again.token = p.token
      BY <1>1 DEF Visit, Keeps
    <2>3. PICK k \in Visit : k = again
      BY <2>1
    <2>4. Hold(v, k)
      BY <1>7, <2>3 DEF GiveUp
    <2> HIDE DEF again
    <2>5. p.at \in Writes
      BY <1>7 DEF Writes
    <2>6. Local(k, late'[v], did[v]) /\ Seen(k, touched[v])
      BY <1>3, <1>5, <1>7, <2>2, <2>3, <2>5
    <2>7. CookieDropped(v, k)
      BY <1>4, <1>7 DEF CookieDropped
    <2> QED
      BY <1>1, <1>3, <1>7, <2>2, <2>3, <2>4, <2>6, <2>7, MoveKeeps
  <1> QED
    BY <1>6, <1>7

-----------------------------------------------------------------------------
(* What Core executes.                                                     *)

\* A call that writes, as a visit makes it.
Sent(q) ==
    /\ q \in Visit /\ Shape(q) /\ Subject(q)
    /\ q.at \in Writes
    /\ q.at = "logout" => q.token # None

\* A call that writes is executed with the cookie of its own.
LEMMA SentIs ==
    ASSUME NEW q, Sent(q)
    PROVE  /\ q.at \in {"create_user", "set_password", "update_user", "login"} => q.user \in Users
           /\ q.at = "create_plan" => q.server \in Servers
           /\ q.at \in {"update_plan", "cancel_plan"} => q.plan \in PlanIds
           /\ q.at = "update_plan" => q.form \in Plan /\ q.edit \in Edits
           /\ q.at # "login" => SentToken(q) = q.token /\ q.token \in Tokens
           /\ q.page # "schedule" /\ (q.at = "login" <=> q.page = "login")
  <1>1. q \in Visit /\ Shape(q) /\ Subject(q) /\ q.at \in Writes
    BY DEF Sent
  <1>2. q.at \in {"create_user", "set_password", "update_user", "login"} => q.user \in Users
    BY <1>1 DEF Shape, Subject, Visit
  <1>3. q.at = "create_plan" => q.server \in Servers
    BY <1>1 DEF Shape, Subject, Visit
  <1>4. q.at \in {"update_plan", "cancel_plan"} => q.plan \in PlanIds
    BY <1>1 DEF Shape, Subject, Visit
  <1>5. q.at = "update_plan" => q.form \in Plan /\ q.edit \in Edits
    BY <1>1 DEF Subject, Visit
  <1>6. q.at # "login" => q.token # None
    BY <1>1 DEF Shape, Sent, Writes
  <1>7. q.at # "login" => SentToken(q) = q.token /\ q.token \in Tokens
    BY <1>1, <1>6 DEF SentToken, Visit
  <1>8. q.page # "schedule" /\ (q.at = "login" <=> q.page = "login")
    BY <1>1 DEF Shape, Writes
  <1> QED
    BY <1>2, <1>3, <1>4, <1>5, <1>7, <1>8

\* A text of any time is a text of the clock, and a text is read as a time.
LEMMA ClockIs ==
    /\ \A t \in Int : Text(t) \in Minutes
    /\ \A w \in Int : Parsed(w) \in Instants
  <1>1. SummerStart \in Int /\ SummerEnd \in Int /\ Saving \in Nat
    BY ClockAssumption
  <1>2. \A m \in Int : Wall(m) \in Minutes
    BY <1>1 DEF Wall, Minutes
  <1>3. \A t \in Int : t \div Seconds \in Int
    BY DEF Seconds
  <1>4. \A w \in Int : Parsed(w) \in Instants
    BY <1>1 DEF Parsed, Seconds, Instants
  <1> QED
    BY <1>2, <1>3, <1>4 DEF Text

\* What is posted are two times and a note.
LEMMA PatchedIs ==
    ASSUME NEW row \in Plan, NEW q, q.form \in Plan, q.edit \in Edit
    PROVE  /\ Patched(row, q) \in Plan
           /\ Patched(row, q).server = row.server /\ Patched(row, q).owner = row.owner
           /\ Patched(row, q).cancelled = row.cancelled
           /\ Patched(row, q).start = PostedStart(q)
           /\ Patched(row, q).end = PostedEnd(q)
           /\ Patched(row, q).note = (IF PostedNote(q) \in {"", None} THEN row.note ELSE PostedNote(q))
  <1>1. /\ q.edit.start \in Minutes \cup {Unset} /\ q.edit.end \in Minutes \cup {Unset}
        /\ q.edit.note \in Notes \cup {"", Unset}
    BY DEF Edit
  <1>2. q.form.start \in Instants /\ q.form.end \in Instants /\ q.form.note \in Notes \cup {None}
        /\ row.note \in Notes \cup {None}
    BY DEF Plan
  <1>3. \A typed \in Minutes \cup {Unset}, shown \in Instants : PostedTime(typed, shown) \in Instants
    BY ClockIs DEF PostedTime, Minutes, Instants
  <1>4. PICK s \in Instants : s = PostedStart(q)
    BY <1>1, <1>2, <1>3 DEF PostedStart
  <1>5. PICK e \in Instants : e = PostedEnd(q)
    BY <1>1, <1>2, <1>3 DEF PostedEnd
  <1>6. PostedNote(q) \in Notes \cup {"", None}
    BY <1>1, <1>2 DEF PostedNote
  <1>7. PICK n \in Notes \cup {None} :
           n = IF PostedNote(q) \in {"", None} THEN row.note ELSE PostedNote(q)
    BY <1>2, <1>6
  <1>8. Patched(row, q) = [[[row EXCEPT !.start = s] EXCEPT !.end = e] EXCEPT !.note = n]
    BY <1>4, <1>5, <1>7 DEF Patched, Plan
  <1>9. /\ \A p \in Plan : [p EXCEPT !.start = s] \in Plan
        /\ \A p \in Plan : [p EXCEPT !.end = e] \in Plan
        /\ \A p \in Plan : [p EXCEPT !.note = n] \in Plan
    BY DEF Plan
  <1>10. Patched(row, q) \in Plan
    BY <1>8, <1>9
  <1>11. LET p == [[[row EXCEPT !.start = s] EXCEPT !.end = e] EXCEPT !.note = n]
         IN  /\ p.server = row.server /\ p.owner = row.owner /\ p.cancelled = row.cancelled
             /\ p.start = s /\ p.end = e /\ p.note = n
    BY DEF Plan
  <1> QED
    BY <1>4, <1>5, <1>7, <1>8, <1>10, <1>11

\* The directory: only create_user makes an account without a password, set_password ends it.
LEMMA DirectoryIs ==
    ASSUME Types, NEW q, Sent(q), Accepted(q), users' = UsersAfter(q)
    PROVE  /\ users' \in [Users -> UserRow \cup {None}]
           /\ \A u \in Users : users'[u] # None /\ ~users'[u].password =>
                \/ q.at = "create_user" /\ u = q.user
                \/ /\ users[u] # None /\ ~users[u].password
                   /\ q.at = "set_password" => u # q.user
  <1>1. q.at \in {"create_user", "set_password", "update_user"} => q.user \in Users
    BY SentIs
  <1>2. users \in [Users -> UserRow \cup {None}]
    BY DEF Types
  <1>3. CASE q.at = "create_user"
    <2> DEFINE row == [role |-> "member", enabled |-> TRUE, password |-> FALSE]
    <2>1. row \in UserRow
      BY DEF UserRow
    <2>2. users' = [users EXCEPT ![q.user] = row]
      BY <1>3 DEF UsersAfter
    <2> HIDE DEF row
    <2> QED
      BY <1>1, <1>2, <1>3, <2>1, <2>2
  <1>4. CASE q.at = "set_password"
    <2>1. users' = [users EXCEPT ![q.user].password = TRUE]
      BY <1>4 DEF UsersAfter
    <2>2. q.user \in Users /\ users[q.user] # None
      BY <1>1, <1>4 DEF Accepted
    <2>3. users[q.user] \in UserRow
      BY <1>2, <2>2
    <2>4. PICK row \in UserRow : row = [users[q.user] EXCEPT !.password = TRUE] /\ row.password
      <3>1. \A r \in UserRow : /\ [r EXCEPT !.password = TRUE] \in UserRow
                              /\ [r EXCEPT !.password = TRUE].password
        BY DEF UserRow
      <3> QED
        BY <2>3, <3>1, Zenon
    <2>5. users' = [users EXCEPT ![q.user] = row]
      BY <2>1, <2>4
    <2> QED
      BY <1>2, <1>4, <2>2, <2>4, <2>5
  <1>5. CASE q.at = "update_user"
    <2>1. users' = [users EXCEPT ![q.user].enabled = q.enabled]
      BY <1>5 DEF UsersAfter, Enabled
    <2>2. q.user \in Users /\ users[q.user] # None /\ q.enabled \in BOOLEAN
      BY <1>1, <1>5 DEF Accepted, Sent, Visit
    <2>3. users[q.user] \in UserRow
      BY <1>2, <2>2
    <2>4. PICK row \in UserRow : /\ row = [users[q.user] EXCEPT !.enabled = q.enabled]
                                 /\ row.password = users[q.user].password
      <3>1. \A r \in UserRow, flag \in BOOLEAN :
              /\ [r EXCEPT !.enabled = flag] \in UserRow
              /\ [r EXCEPT !.enabled = flag].password = r.password
        BY DEF UserRow
      <3> QED
        BY <2>2, <2>3, <3>1, Zenon
    <2>5. users' = [users EXCEPT ![q.user] = row]
      BY <2>1, <2>4
    <2> QED
      BY <1>2, <1>5, <2>2, <2>4, <2>5
  <1>6. CASE q.at \notin {"create_user", "set_password", "update_user"}
    BY <1>2, <1>6 DEF UsersAfter
  <1> QED
    BY <1>3, <1>4, <1>5, <1>6

\* The sessions: a login opens the one of its visit, a logout ends its own.
LEMMA SessionsAre ==
    ASSUME Types, NEW v \in Visits, NEW q, Sent(q), Accepted(q), sessions' = SessionsAfter(v, q)
    PROVE  /\ sessions' \in [Tokens -> Users \cup {None}]
           /\ \A t \in Tokens : sessions'[t] # None =>
                \/ sessions'[t] = sessions[t] /\ (q.at = "logout" => t # q.token)
                \/ q.at = "login" /\ t = v /\ sessions'[t] = q.user
  <1>1. sessions \in [Tokens -> Users \cup {None}] /\ v \in Tokens
    BY DEF Types, Tokens
  <1>2. CASE q.at = "login"
    <2>1. q.user \in Users /\ sessions' = [sessions EXCEPT ![v] = q.user]
      BY <1>2, SentIs DEF SessionsAfter
    <2> QED
      BY <1>1, <1>2, <2>1
  <1>3. CASE q.at = "logout"
    <2>1. q.token \in Tokens /\ sessions' = [sessions EXCEPT ![q.token] = None]
      BY <1>3, SentIs DEF SessionsAfter
    <2> QED
      BY <1>1, <1>3, <2>1
  <1>4. CASE q.at \notin {"login", "logout"}
    BY <1>1, <1>4 DEF SessionsAfter
  <1> QED
    BY <1>2, <1>3, <1>4

\* The plans: one of the visit's own comes, or the one that is asked for changes in place.
LEMMA PlansAre ==
    ASSUME Types, NEW v \in Visits, NEW q, Sent(q), Accepted(q), Actor(q) \in Users,
           plans' = PlansAfter(v, q)
    PROVE  /\ plans' \in [PlanIds -> Plan \cup {None}]
           /\ \A p \in PlanIds : plans'[p] # plans[p] =>
                \/ q.at = "create_plan" /\ p = v /\ plans'[p].server \in servers
                \/ /\ q.at \in {"update_plan", "cancel_plan"}
                   /\ p = q.plan /\ plans[p] # None /\ plans'[p].server = plans[p].server
  <1>1. plans \in [PlanIds -> Plan \cup {None}] /\ v \in PlanIds
    BY DEF Types, PlanIds
  <1>2. CASE q.at = "create_plan"
    <2> DEFINE row == [owner |-> Actor(q), server |-> q.server,
                       start |-> Parsed(NewWindow.start), end |-> Parsed(NewWindow.end),
                       note |-> None, cancelled |-> FALSE]
    <2>1. q.server \in Servers /\ q.server \in servers
      BY <1>2, SentIs DEF Accepted
    <2>2. Parsed(NewWindow.start) \in Instants /\ Parsed(NewWindow.end) \in Instants
      BY ClockAssumption, ClockIs DEF Minutes
    <2>3. row \in Plan /\ row.server = q.server
      BY <2>1, <2>2 DEF Plan
    <2>4. plans' = [plans EXCEPT ![v] = row]
      BY <1>2 DEF PlansAfter
    <2> HIDE DEF row
    <2> QED
      BY <1>1, <1>2, <2>1, <2>3, <2>4
  <1>3. CASE q.at = "update_plan"
    <2>1. q.plan \in PlanIds /\ plans[q.plan] # None /\ q.form \in Plan /\ q.edit \in Edit
      BY <1>3, SentIs, WebAssumption DEF Accepted
    <2>2. plans[q.plan] \in Plan
      BY <1>1, <2>1
    <2>3. PICK row \in Plan : row = Patched(plans[q.plan], q) /\ row.server = plans[q.plan].server
      BY <2>1, <2>2, PatchedIs
    <2>4. plans' = [plans EXCEPT ![q.plan] = row]
      BY <1>3, <2>3 DEF PlansAfter
    <2> QED
      BY <1>1, <1>3, <2>1, <2>3, <2>4
  <1>4. CASE q.at = "cancel_plan"
    <2>1. q.plan \in PlanIds /\ plans[q.plan] # None
      BY <1>4, SentIs DEF Accepted
    <2>2. plans[q.plan] \in Plan
      BY <1>1, <2>1
    <2>3. PICK row \in Plan : /\ row = [plans[q.plan] EXCEPT !.cancelled = TRUE]
                              /\ row.server = plans[q.plan].server
      <3>1. \A r \in Plan : /\ [r EXCEPT !.cancelled = TRUE] \in Plan
                           /\ [r EXCEPT !.cancelled = TRUE].server = r.server
        BY DEF Plan
      <3> QED
        BY <2>2, <3>1, Zenon
    <2>4. plans' = [plans EXCEPT ![q.plan] = row]
      BY <1>4, <2>3 DEF PlansAfter
    <2> QED
      BY <1>1, <1>4, <2>1, <2>3, <2>4
  <1>5. CASE q.at \notin {"create_plan", "update_plan", "cancel_plan"}
    BY <1>1, <1>5 DEF PlansAfter
  <1> QED
    BY <1>2, <1>3, <1>4, <1>5

\* The cookies after a call: a login sets its visit's, a logout drops the browser's.
CookieMoved(v, q, h) ==
    \/ /\ UNCHANGED <<cookie, jar>>
       /\ q.at = "login" => h.at = "page" /\ h.result = "unavailable"
    \/ /\ q.at = "login" /\ h.at = "page" /\ h.result = "success"
       /\ cookie' = [cookie EXCEPT ![visit[v].browser] = v]
       /\ jar' = v
    \/ /\ q.at = "logout" /\ h.at = "page"
       /\ cookie' = [cookie EXCEPT ![visit[v].browser] = None]
       /\ jar' = None

\* The call q of the visit v is executed, which is h then, and nothing is said of the
\* others that would not hold any more.
LEMMA ExecuteKeeps ==
    ASSUME IInv, NEW v \in Visits, NEW q, Sent(q), Execute(v, q),
           q.page = visit[v].page, q.user = visit[v].user, q.token = visit[v].token,
           NEW h \in Visit, visit' = [visit EXCEPT ![v] = h],
           Keeps(visit[v], h), h.token = visit[v].token,
           visit[v].at # "idle", visit[v].at = "page" => h = visit[v],
           visit[v].at = "set_password" => q.at = "set_password",
           q.at = "create_user" => h.at = "set_password" \/ h.result \in {"refused", "unavailable"},
           late' \in [Visits -> Visit \cup {None}], \A w \in Visits \ {v} : late'[w] = late[w],
           Local(h, late'[v], did'[v]),
           CookieMoved(v, q, h)
    PROVE  IInv'
  <1> USE DEF IInv
  <1>1. /\ \A w \in Visits : visit'[w] = IF w = v THEN h ELSE visit[w]
        /\ \A t \in Tokens : Known(t) =>
              Known(t)' /\ LoggedIn(t)' = LoggedIn(t) /\ BrowserOf(t)' = BrowserOf(t)
    <2>1. Types /\ \A w \in Visits : Shape(visit[w])
      BY DEF Local
    <2> QED
      BY <2>1, TokensStay DEF Hold
  <1>2. /\ Accepted(q) /\ users' = UsersAfter(q) /\ sessions' = SessionsAfter(v, q)
        /\ plans' = PlansAfter(v, q) /\ servers' = servers
    BY DEF Execute
  <1>3. /\ Actor(q) \in Users
        /\ q.at = "login" => Actor(q) = q.user
        /\ q.at # "login" => q.token \in Tokens /\ sessions[q.token] = Actor(q)
    <2>1. Actor(q) # None /\ q \in Visit
      BY <1>2 DEF Accepted, Sent
    <2> QED
      BY <2>1, ActorIs, SentIs
  <1>4. did' = [did EXCEPT ![v] = Append(did[v], [call |-> q.at, actor |-> Actor(q)])]
    BY DEF Execute
  <1>5. [call |-> q.at, actor |-> Actor(q)] \in [call : Writes, actor : Users]
    BY <1>3 DEF Sent
  <1>6. touched' \in [Visits -> SUBSET PlanIds]
        /\ \A w \in Visits : visit[w].at # "idle" =>
             touched'[w] = touched[w] \cup {p \in PlanIds : plans'[p] # plans[p]}
    BY DEF Execute, Types
  <1>7. plans' \in [PlanIds -> Plan \cup {None}]
        /\ \A p \in PlanIds : plans'[p] # plans[p] =>
             \/ q.at = "create_plan" /\ p = v /\ plans'[p].server \in servers
             \/ plans[p] # None /\ plans'[p].server = plans[p].server
    BY <1>2, <1>3, PlansAre
  <1>8. sessions' \in [Tokens -> Users \cup {None}]
        /\ \A t \in Tokens : sessions'[t] # None =>
             \/ sessions'[t] = sessions[t] /\ (q.at = "logout" => t # q.token)
             \/ q.at = "login" /\ t = v /\ sessions'[t] = q.user
    BY <1>2, SessionsAre
  <1>9. users' \in [Users -> UserRow \cup {None}]
        /\ \A u \in Users : users'[u] # None /\ ~users'[u].password =>
             \/ q.at = "create_user" /\ u = q.user
             \/ users[u] # None /\ ~users[u].password /\ (q.at = "set_password" => u # q.user)
    BY <1>2, DirectoryIs
  <1>10. visit[v].browser \in Browsers /\ v \in Tokens /\ v \notin Browsers
    <2>1. v \in Tokens /\ v \notin Browsers
      BY WebAssumption DEF Tokens
    <2>2. visit[v].browser \in Browsers \cup {None}
      BY DEF Types, Visit
    <2>3. visit[v].browser # None
      BY DEF Local, Shape
    <2> QED
      BY <2>1, <2>2, <2>3
  <1>11. \A b \in Browsers :
           \/ cookie'[b] = cookie[b] \/ cookie'[b] = None
           \/ cookie'[b] = v /\ b = visit[v].browser /\ q.at = "login"
    BY <1>10 DEF CookieMoved, Types
  <1>12. Types'
    <2>1. visit' \in [Visits -> Visit] /\ servers' \subseteq Servers
      BY <1>2 DEF Types
    <2>2. cookie' \in [Browsers -> Tokens \cup {None}] /\ jar' \in Tokens \cup {None}
      BY <1>10 DEF Types, CookieMoved
    <2>3. did' \in [Visits -> Seq([call : Writes, actor : Users])]
      <3> DEFINE Done == [call : Writes, actor : Users]
      <3>1. did \in [Visits -> Seq(Done)]
        BY DEF Types
      <3> HIDE DEF Done, IInv
      <3>2. \A d \in Seq(Done), e \in Done : Append(d, e) \in Seq(Done)
        OBVIOUS
      <3>3. Append(did[v], [call |-> q.at, actor |-> Actor(q)]) \in Seq(Done)
        BY <1>5, <3>1, <3>2 DEF Done
      <3>4. did' \in [Visits -> Seq(Done)]
        BY <1>4, <3>1, <3>3
      <3> QED
        BY <3>4 DEF Done
    <2> QED
      BY <1>6, <1>7, <1>8, <1>9, <2>1, <2>2, <2>3 DEF Types
  <1>13. (\A w \in Visits : Local(visit[w], late[w], did[w]))'
    <2>1. \A w \in Visits \ {v} : did'[w] = did[w]
      BY <1>4 DEF Types
    <2> QED
      BY <1>1, <2>1
  <1>14. q.at = "login" => Known(v)' /\ LoggedIn(v)' = q.user /\ BrowserOf(v)' = visit[v].browser
    <2>1. q.at = "login" => h.page = "login" /\ h.user = q.user /\ h.browser = visit[v].browser
      BY SentIs DEF Keeps
    <2> QED
      BY <1>1, <1>10, <2>1 DEF Known, LoggedIn, BrowserOf
  <1>15. TokensKnown'
    <2>1. \A b \in Browsers : cookie[b] # None => cookie[b] \in Tokens
      BY DEF Types
    <2>2. ASSUME NEW b \in Browsers, cookie'[b] # None
          PROVE  Known(cookie[b])'
      <3>1. PICK t : t = cookie'[b]
        OBVIOUS
      <3>2. Known(t)'
        BY <1>1, <1>11, <1>14, <2>1, <2>2, <3>1 DEF TokensKnown
      <3> QED
        BY <3>1, <3>2 DEF Known
    <2>3. ASSUME NEW w \in Visits, visit'[w].token # None
          PROVE  Known(visit[w].token)'
      <3>1. visit'[w].token = visit[w].token
        BY <1>1
      <3>2. PICK t : t = visit'[w].token
        OBVIOUS
      <3>3. t \in Tokens /\ Known(t)
        BY <2>3, <3>1, <3>2 DEF TokensKnown, Types, Visit
      <3>4. Known(t)'
        BY <1>1, <3>3
      <3> QED
        BY <3>2, <3>4 DEF Known
    <2>4. \A t \in Tokens : sessions'[t] # None => Known(t)' /\ sessions'[t] = LoggedIn(t)'
      BY <1>1, <1>8, <1>14 DEF TokensKnown
    <2> QED
      BY <2>2, <2>3, <2>4 DEF TokensKnown
  <1>16. CallsAsTheVisitor'
    <2>1. ASSUME NEW w \in Visits, NEW k \in DOMAIN did'[w]
          PROVE  (did[w][k].actor = IF visit[w].page = "login" THEN visit[w].user
                                    ELSE LoggedIn(visit[w].token))'
      <3>1. /\ visit'[w].page = visit[w].page /\ visit'[w].user = visit[w].user
            /\ visit'[w].token = visit[w].token
        BY <1>1 DEF Keeps
      <3>2. PICK t : t = visit[w].token
        OBVIOUS
      <3>3. LoggedIn(visit[w].token)' = LoggedIn(t)'
        BY <3>1, <3>2 DEF LoggedIn
      <3>4. CASE k \in DOMAIN did[w] /\ did'[w][k] = did[w][k]
        <4>1. did[w][k].actor = IF visit[w].page = "login" THEN visit[w].user
                                ELSE LoggedIn(t)
          BY <3>2, <3>4 DEF CallsAsTheVisitor
        <4>2. did[w] # <<>>
          BY <3>4 DEF Types
        <4>3. visit[w].page = "login" \/ visit[w].token # None
          BY <4>2 DEF Local, Told
        <4>4. visit[w].page = "login" \/ (t \in Tokens /\ Known(t))
          BY <3>2, <4>3 DEF TokensKnown, Types, Visit
        <4>5. visit[w].page = "login" \/ LoggedIn(t)' = LoggedIn(t)
          BY <1>1, <4>4
        <4> QED
          BY <3>1, <3>3, <3>4, <4>1, <4>5
      <3>5. CASE ~(k \in DOMAIN did[w] /\ did'[w][k] = did[w][k])
        <4>1. w = v /\ did'[w][k].actor = Actor(q)
          BY <1>4, <1>5, <2>1, <3>5 DEF Types
        <4>2. CASE q.at = "login"
          <5>1. visit[w].page = "login" /\ Actor(q) = visit[w].user
            BY <1>3, <4>1, <4>2, SentIs
          <5> QED
            BY <3>1, <4>1, <5>1
        <4>3. CASE q.at # "login"
          <5>1. visit[w].page # "login" /\ t \in Tokens /\ sessions[t] = Actor(q)
            BY <1>3, <3>2, <4>1, <4>3, SentIs
          <5>2. sessions[t] # None
            BY <1>3, <5>1, NoneIsNothing
          <5>3. Known(t) /\ LoggedIn(t) = Actor(q)
            BY <5>1, <5>2 DEF TokensKnown
          <5>4. LoggedIn(t)' = Actor(q)
            BY <1>1, <5>1, <5>3
          <5> QED
            BY <3>1, <3>3, <4>1, <5>1, <5>4
        <4> QED
          BY <4>2, <4>3
      <3> QED
        BY <3>4, <3>5
    <2> QED
      BY <2>1 DEF CallsAsTheVisitor
  <1>17. PasswordsAtFirst => NobodyWithoutPassword'
    <2>1. ASSUME PasswordsAtFirst, NEW u \in Users, users'[u] # None, ~users'[u].password
          PROVE  \E w \in Visits : /\ visit'[w].page = "provision"
                                   /\ visit'[w].user = u
                                   /\ \/ visit'[w].at = "set_password"
                                      \/ visit'[w].result \in {"refused", "unavailable"}
      <3>1. CASE q.at = "create_user" /\ u = q.user
        <4>1. h.page = "provision" /\ h.user = u
          BY <3>1 DEF Keeps, Sent, Shape
        <4> QED
          BY <1>1, <3>1, <4>1
      <3>2. CASE users[u] # None /\ ~users[u].password /\ (q.at = "set_password" => u # q.user)
        <4>1. PICK w \in Visits : /\ visit[w].page = "provision"
                                 /\ visit[w].user = u
                                 /\ \/ visit[w].at = "set_password"
                                    \/ visit[w].result \in {"refused", "unavailable"}
          BY <2>1, <3>2 DEF NobodyWithoutPassword
        <4>2. CASE w # v
          BY <1>1, <4>1, <4>2
        <4>3. CASE w = v
          <5>1. visit[v].at # "set_password"
            BY <3>2, <4>1, <4>3
          <5>2. visit[v].result # None
            BY <4>1, <4>3, <5>1, NoneIsNothing
          <5>3. visit[v].at = "page"
            BY <4>1, <4>3, <5>2 DEF Local, Told, Shape
          <5> QED
            BY <1>1, <4>1, <4>3, <5>3
        <4> QED
          BY <4>2, <4>3
      <3> QED
        BY <1>9, <2>1, <3>1, <3>2
    <2> QED
      BY <2>1 DEF NobodyWithoutPassword
  <1>18. OwnCookies'
    <2>1. ASSUME NEW b \in Browsers, cookie'[b] # None
          PROVE  BrowserOf(cookie[b])' = b
      <3>1. PICK t : t = cookie'[b]
        OBVIOUS
      <3>2. BrowserOf(t)' = b
        <4>1. CASE cookie'[b] = cookie[b]
          <5>1. t \in Tokens /\ Known(t) /\ BrowserOf(t) = b
            BY <2>1, <3>1, <4>1 DEF Types, TokensKnown, OwnCookies
          <5> QED
            BY <1>1, <5>1
        <4>2. CASE cookie'[b] # cookie[b]
          BY <1>11, <1>14, <2>1, <3>1, <4>2
        <4> QED
          BY <4>1, <4>2
      <3> QED
        BY <3>1, <3>2 DEF BrowserOf
    <2> QED
      BY <2>1 DEF OwnCookies
  <1>19. OpenSessionsExplained'
    <2> DEFINE Why(w, t, b) ==
          /\ visit[w].at = "page"
          /\ IF w = t THEN visit[w].result = "unavailable"
             ELSE /\ visit[w].browser = b
                  /\ \/ visit[w].page = "login" /\ visit[w].result = "success"
                     \/ /\ visit[w].page = "logout"
                        /\ visit[w].result # "success" \/ visit[w].token # t
    <2>1. ASSUME NEW t \in Tokens, sessions'[t] # None, \A b \in Browsers : cookie'[b] # t
          PROVE  \E w \in Visits : Why(w, t, BrowserOf(t))'
      <3>1. CASE ~Known(t) \/ sessions[t] = None
        <4>1. q.at = "login" /\ t = v
          BY <1>8, <2>1, <3>1 DEF TokensKnown
        <4>2. cookie' = cookie
          BY <1>10, <2>1, <4>1 DEF CookieMoved, Types
        <4>3. h.at = "page" /\ h.result = "unavailable"
          BY <1>10, <2>1, <4>1 DEF CookieMoved, Types
        <4> QED
          BY <1>1, <4>1, <4>3
      <3>2. CASE Known(t) /\ sessions[t] # None /\ \A b \in Browsers : cookie[b] # t
        <4>1. PICK w \in Visits : Why(w, t, BrowserOf(t))
          BY <3>2 DEF OpenSessionsExplained, BrowserOf
        <4>2. visit'[w] = visit[w]
          BY <1>1, <4>1
        <4> QED
          BY <1>1, <3>2, <4>1, <4>2
      <3>3. CASE Known(t) /\ sessions[t] # None /\ \E b \in Browsers : cookie[b] = t
        <4>1. PICK b \in Browsers : cookie[b] = t
          BY <3>3
        <4>2. b = visit[v].browser /\ (q.at = "login" \/ q.at = "logout")
              /\ h.at = "page" /\ (q.at = "login" => h.result = "success")
          BY <1>10, <2>1, <4>1 DEF CookieMoved, Types
        <4>3. h.browser = BrowserOf(t)
          BY <4>1, <4>2, NoneIsNothing DEF OwnCookies, Keeps
        <4>4. CASE q.at = "login"
          <5>1. cookie'[b] = v
            BY <1>10, <2>1, <4>1, <4>2, <4>4 DEF CookieMoved, Types
          <5>2. v # t
            BY <2>1, <5>1
          <5>3. h.page = "login"
            BY <4>4, SentIs DEF Keeps
          <5> QED
            BY <1>1, <3>3, <4>2, <4>3, <4>4, <5>2, <5>3
        <4>5. CASE q.at = "logout"
          <5>1. h.page = "logout" /\ visit[v].page = "logout"
            BY <4>5 DEF Keeps, Sent, Shape
          <5>2. v # t
            BY <1>10, <3>3, <5>1 DEF Known
          <5>3. h.token # t
            BY <1>8, <2>1, <4>5
          <5> QED
            BY <1>1, <3>3, <4>2, <4>3, <5>1, <5>2, <5>3
        <4> QED
          BY <4>2, <4>4, <4>5
      <3> QED
        BY <3>1, <3>2, <3>3
    <2> QED
      BY <2>1 DEF OpenSessionsExplained, BrowserOf
  <1>20. PlansMade'
    <2>1. ASSUME NEW w \in Visits, plans'[w] # None
          PROVE  did'[w] # <<>>
      <3>1. CASE w = v
        BY <1>4, <1>5, <3>1 DEF Types
      <3>2. CASE w # v
        <4>1. did'[w] = did[w]
          BY <1>4, <3>2 DEF Types
        <4>2. w \in PlanIds
          BY DEF PlanIds
        <4>3. plans[w] # None
          BY <1>7, <2>1, <3>2, <4>2
        <4> QED
          BY <4>1, <4>3 DEF PlansMade
      <3> QED
        BY <3>1, <3>2
    <2> QED
      BY <2>1 DEF PlansMade
  <1>21. ServersKnown'
    BY <1>2, <1>7 DEF ServersKnown
  <1>22. ASSUME NEW w \in Visits PROVE Seen(visit[w], touched[w])'
    <2>1. CASE visit'[w].page # "schedule"
      BY <2>1 DEF Seen
    <2>2. CASE visit'[w].page = "schedule"
      <3>1. w # v
        BY <1>1, <2>2, SentIs DEF Keeps
      <3>2. visit'[w] = visit[w] /\ visit[w].at # "idle"
        <4>1. visit'[w] = visit[w] /\ Shape(visit[w])
          BY <1>1, <3>1 DEF Local
        <4> QED
          BY <2>2, <4>1, NoneIsNothing DEF Shape, AllPages
      <3>3. touched'[w] = touched[w] \cup {p \in PlanIds : plans'[p] # plans[p]}
        BY <1>6, <3>2
      <3>4. \A p \in Stood(touched[w])' : p \in Stood(touched[w]) /\ plans'[p] = plans[p]
        BY <3>3 DEF Stood
      <3>5. \A p, r \in Stood(touched[w])' : Overlap(p, r)' => Overlap(p, r)
        BY <3>4 DEF Overlap, Uncancelled
      <3>6. \A p \in Stood(touched[w])' :
              (\E r \in PlanIds : Overlap(p, r) \/ r \in touched[w])
                => \E r \in PlanIds : Overlap(p, r)' \/ r \in touched'[w]
        <4>1. \A p \in Stood(touched[w])', r \in PlanIds :
                Overlap(p, r) => Overlap(p, r)' \/ r \in touched'[w]
          BY <3>3, <3>4 DEF Overlap, Uncancelled
        <4> QED
          BY <3>3, <4>1
      <3>7. PICK g : g = visit[w]
        OBVIOUS
      <3>8. Seen(g, touched[w])
        BY <3>7
      <3>9. Seen(g, touched[w])'
        <4>1. g.page = "schedule"
          BY <2>2, <3>2, <3>7
        <4>2. g.at \in {"list_users", "list_plans", "list_conflicts"} =>
                \A p \in Stood(touched[w])' : plans'[p].server \in g.servers
          BY <3>4, <3>8, <4>1 DEF Seen
        <4>3. g.at = "list_conflicts" \/ g.result = "success" =>
                /\ \A p \in Stood(touched[w])' : p \in g.rows <=> ~plans'[p].cancelled
                /\ \A p, r \in Stood(touched[w])' : p \in g.asked /\ Overlap(p, r)' => p \in g.marks
                /\ \A p \in Stood(touched[w])' :
                     p \in g.marks => \E r \in PlanIds : Overlap(p, r)' \/ r \in touched'[w]
          BY <3>4, <3>5, <3>6, <3>8, <4>1 DEF Seen
        <4>4. /\ g.at \in {"me", "list_servers", "list_users", "list_plans"} =>
                   g.rows = {} /\ g.asked = {} /\ g.marks = {}
              /\ g.result = "success" => g.rows \subseteq g.asked
          BY <3>8, <4>1 DEF Seen
        <4> QED
          BY <4>1, <4>2, <4>3, <4>4 DEF Seen
      <3> QED
        BY <3>2, <3>7, <3>9 DEF Seen, Stood
    <2> QED
      BY <2>1, <2>2
  <1> QED
    BY <1>12, <1>13, <1>15, <1>16, <1>17, <1>18, <1>19, <1>20, <1>21, <1>22

\* What has been executed for a visit grows by the call.
LEMMA DidIs ==
    ASSUME Types, NEW v \in Visits, NEW q, Execute(v, q)
    PROVE  /\ did[v] = <<>> => Once(did'[v], q.at)
           /\ \A call : Once(did[v], call) => Twice(did'[v], call, q.at)
  <1> DEFINE Done == [call : Writes, actor : Users]
             done == [call |-> q.at, actor |-> Actor(q)]
  <1>1. did \in [Visits -> Seq(Done)]
    BY DEF Types
  <1>2. did'[v] = Append(did[v], done)
    BY <1>1 DEF Execute
  <1>3. done.call = q.at
    OBVIOUS
  <1> HIDE DEF done, Done
  <1>4. ASSUME did[v] = <<>> PROVE Once(did'[v], q.at)
    BY <1>2, <1>3, <1>4 DEF Once
  <1>5. ASSUME NEW call, Once(did[v], call) PROVE Twice(did'[v], call, q.at)
    <2>1. did[v] \in Seq(Done) /\ Len(did[v]) = 1 /\ did[v][1].call = call
      BY <1>1, <1>5 DEF Once
    <2>2. Len(did'[v]) = 2 /\ did'[v][1] = did[v][1] /\ did'[v][2] = done
      BY <1>2, <2>1
    <2> QED
      BY <1>3, <2>1, <2>2 DEF Twice
  <1> QED
    BY <1>4, <1>5

\* The call that the visit waits for is executed.
LEMMA ServedKeeps ==
    ASSUME IInv, NEW v \in Visits, Sent(visit[v]), Execute(v, visit[v]),
           NEW h \in Visit, Hold(v, h), Keeps(visit[v], h), h.token = visit[v].token,
           UNCHANGED late, Local(h, late[v], did'[v]), CookieMoved(v, visit[v], h),
           visit[v].at = "create_user" => h.at = "set_password"
    PROVE  IInv'
  <1>1. visit[v].at \notin {"idle", "page"}
    BY DEF Sent, Writes
  <1>2. late' \in [Visits -> Visit \cup {None}] /\ \A w \in Visits \ {v} : late'[w] = late[w]
    BY DEF IInv, Types
  <1>3. visit' = [visit EXCEPT ![v] = h] /\ Local(h, late'[v], did'[v])
    BY DEF Hold
  <1> QED
    BY <1>1, <1>2, <1>3, ExecuteKeeps

\* The last call of a page is executed, and the page says that all is done.
LEMMA LastCallKeeps ==
    ASSUME IInv, NEW v \in Visits, visit[v].at \in Writes \ {"create_user"},
           visit[v].at = "logout" => visit[v].token # None,
           Execute(v, visit[v]), Hold(v, Page(visit[v], "success")), UNCHANGED late,
           \A h : h.at = "page" /\ h.result = "success" => CookieMoved(v, visit[v], h)
    PROVE  IInv'
  <1> DEFINE p == visit[v]
  <1>1. p \in Visit /\ Shape(p) /\ Subject(p) /\ Told(p, late[v], did[v]) /\ Types
    BY DEF IInv, Types, Local
  <1>2. Sent(p)
    BY <1>1 DEF Sent
  <1>3. PICK h : h = Page(p, "success")
    OBVIOUS
  <1>4. /\ h \in Visit /\ Keeps(p, h) /\ h.at = "page" /\ h.result = "success" /\ h.token = p.token
    BY <1>1, <1>3, PageIs
  <1>5. late[v] = None /\ (p.at # "set_password" => did[v] = <<>>)
        /\ (p.at = "set_password" /\ p.page = "provision" => Once(did[v], "create_user"))
        /\ (p.at = "set_password" /\ p.page # "provision" => did[v] = <<>>)
    BY <1>1 DEF Told, Writes
  <1>6. Shape(h) /\ Subject(h)
    BY <1>1, <1>2, <1>4, NoneIsNothing DEF Shape, Subject, Keeps, Writes
  <1>7. h.page = "logout" \/ Whole(h, did'[v])
    <2>1. CASE p.at = "set_password" /\ p.page = "provision"
      <3>1. Twice(did'[v], "create_user", "set_password")
        BY <1>1, <1>5, <2>1, DidIs
      <3> QED
        BY <1>4, <2>1, <3>1 DEF Whole, Keeps
    <2>2. CASE ~(p.at = "set_password" /\ p.page = "provision")
      <3>1. Once(did'[v], p.at)
        BY <1>1, <1>5, <2>2, DidIs
      <3>2. h.page = p.page
        BY <1>4 DEF Keeps
      <3>3. \/ p.at = "login" /\ p.page = "login"
            \/ p.at = "logout" /\ p.page = "logout"
            \/ p.at = "set_password" /\ p.page = "password"
            \/ p.at = "update_user" /\ p.page = "toggle"
            \/ p.at = "create_plan" /\ p.page = "create"
            \/ p.at = "update_plan" /\ p.page = "edit"
            \/ p.at = "cancel_plan" /\ p.page = "cancel"
        BY <1>1, <2>2 DEF Shape, Writes
      <3> QED
        BY <3>1, <3>2, <3>3 DEF Whole
    <2> QED
      BY <2>1, <2>2
  <1>8. h.page = "login" \/ h.token # None
    BY <1>2, <1>4, SentIs, NoneIsNothing DEF Keeps
  <1>9. Local(h, late[v], did'[v])
    <2>1. Told(h, late[v], did'[v])
      BY <1>4, <1>5, <1>7, <1>8, NoneIsNothing DEF Told
    <2> QED
      BY <1>5, <1>6, <2>1 DEF Local, Left
  <1>10. CookieMoved(v, p, h)
    BY <1>4
  <1> QED
    BY <1>2, <1>3, <1>4, <1>9, <1>10, ServedKeeps

\* The account is there, and its password is the next call.
LEMMA ProvisionedKeeps ==
    ASSUME IInv, NEW v \in Visits, visit[v].at = "create_user", Execute(v, visit[v]),
           Hold(v, [visit[v] EXCEPT !.at = "set_password"]), UNCHANGED <<late, cookie, jar>>
    PROVE  IInv'
  <1> DEFINE p == visit[v]
             q == [p EXCEPT !.at = "set_password"]
  <1>1. /\ late[v] = None /\ did[v] = <<>> /\ p.result = None
        /\ p \in Visit /\ Shape(p) /\ Subject(p) /\ p.page = "provision" /\ Types
    BY NothingYet DEF Shape, IInv
  <1>2. Sent(p)
    BY <1>1 DEF Sent, Writes
  <1>3. /\ q \in Visit /\ Keeps(p, q) /\ q.at = "set_password" /\ q.result = None
        /\ q.token = p.token
    BY <1>1, CallIs DEF Writes
  <1>4. PICK k \in Visit : k = q
    BY <1>3
  <1> HIDE DEF q
  <1>5. Shape(k) /\ Subject(k)
    BY <1>1, <1>3, <1>4 DEF Shape, Subject, Keeps
  <1>6. Once(did'[v], "create_user")
    BY <1>1, DidIs
  <1>7. k.token # None
    BY <1>1, <1>3, <1>4 DEF Shape
  <1>8. Local(k, late[v], did'[v])
    <2>1. Told(k, late[v], did'[v])
      BY <1>1, <1>3, <1>4, <1>6, <1>7 DEF Told, Keeps
    <2> QED
      BY <1>1, <1>5, <2>1 DEF Local, Left
  <1>9. CookieMoved(v, p, k)
    BY DEF CookieMoved
  <1> QED
    BY <1>2, <1>3, <1>4, <1>8, <1>9, ServedKeeps DEF q

-----------------------------------------------------------------------------
(* What happens beside the visits.                                         *)

\* A session less, a server more, a late call less: everything else still holds.
LEMMA AsideKeeps ==
    ASSUME IInv, UNCHANGED <<users, plans, cookie, jar, visit, did, touched>>,
           sessions' \in [Tokens -> Users \cup {None}],
           \A t \in Tokens : sessions'[t] \in {sessions[t], None},
           servers \subseteq servers', servers' \subseteq Servers,
           late' \in [Visits -> Visit \cup {None}],
           \A w \in Visits : late'[w] \in {late[w], None}
    PROVE  IInv'
  <1> USE DEF IInv
  <1>1. Types'
    BY DEF Types
  <1>2. ASSUME NEW w \in Visits PROVE Local(visit[w], late[w], did[w])'
    <2>1. Local(visit[w], late[w], did[w])
      OBVIOUS
    <2>2. Told(visit[w], late'[w], did[w])
      BY <2>1 DEF Local, Told
    <2>3. Left(visit[w], late'[w], did[w])
      BY <2>1 DEF Local, Left
    <2> QED
      BY <2>1, <2>2, <2>3 DEF Local
  <1>3. TokensKnown'
    BY DEF TokensKnown, Known, LoggedIn
  <1>4. CallsAsTheVisitor'
    BY DEF CallsAsTheVisitor, LoggedIn
  <1>5. PasswordsAtFirst => NobodyWithoutPassword'
    BY DEF NobodyWithoutPassword
  <1>6. OwnCookies'
    BY DEF OwnCookies, BrowserOf
  <1>7. OpenSessionsExplained'
    BY DEF OpenSessionsExplained
  <1>8. PlansMade' /\ ServersKnown'
    BY DEF PlansMade, ServersKnown
  <1>9. ASSUME NEW w \in Visits PROVE Seen(visit[w], touched[w])'
    <2>1. Seen(visit[w], touched[w])
      OBVIOUS
    <2> QED
      BY <2>1 DEF Seen, Stood, Overlap, Uncancelled
  <1> QED
    BY <1>1, <1>2, <1>3, <1>4, <1>5, <1>6, <1>7, <1>8, <1>9

\* A call that nobody waits for gets through after all, or does not.
LEMMA LateKeeps ==
    ASSUME IInv, NEW v \in Visits, Late(v)
    PROVE  IInv'
  <1> DEFINE p == visit[v]
             l == late[v]
  <1>1. /\ l # None /\ UNCHANGED <<cookie, jar, visit>>
        /\ late' = [late EXCEPT ![v] = None] /\ late \in [Visits -> Visit \cup {None}]
    BY DEF Late, IInv, Types
  <1>2. late' \in [Visits -> Visit \cup {None}] /\ late'[v] = None
        /\ \A w \in Visits \ {v} : late'[w] = late[w]
    BY <1>1
  <1>3. CASE UNCHANGED <<core, history>>
    <2>1. UNCHANGED <<users, sessions, servers, plans, did, touched>>
      BY <1>3 DEF core, history
    <2>2. sessions \in [Tokens -> Users \cup {None}] /\ servers \subseteq Servers
      BY DEF IInv, Types
    <2> QED
      BY <1>1, <1>2, <2>1, <2>2, AsideKeeps
  <1>4. CASE Execute(v, l)
    <2>1. /\ p \in Visit /\ Shape(p) /\ Subject(p) /\ Told(p, l, did[v]) /\ Left(p, l, did[v])
          /\ visit \in [Visits -> Visit] /\ Types
      BY DEF IInv, Types, Local
    <2>2. /\ Sent(l) /\ l.page = p.page /\ l.user = p.user /\ l.token = p.token
          /\ (l.at # "set_password" => did[v] = <<>>)
          /\ (l.at \in {"login", "create_user"} => p.at = "page" /\ p.result = "unavailable")
      BY <1>1, <2>1 DEF Left, Sent
    <2>3. p.at \in {"page", "render"}
      BY <1>1, <2>1 DEF Told
    <2>4. p.page = "create" => Once(did'[v], "create_plan")
      <3>1. p.page = "create" => l.at = "create_plan"
        BY <2>2 DEF Sent, Shape, Writes
      <3> QED
        BY <1>4, <2>1, <2>2, <3>1, DidIs
    <2>5. p.page = "login" \/ p.token # None
      BY <2>2, SentIs, NoneIsNothing
    <2>6. Local(p, None, did'[v])
      <3>1. Told(p, None, did'[v])
        <4>1. CASE p.at = "render"
          <5>1. p.page = "create"
            BY <2>1, <4>1 DEF Shape
          <5>2. p.result = "unavailable"
            BY <1>1, <2>1, <4>1 DEF Told
          <5> QED
            BY <2>4, <2>5, <4>1, <5>1, <5>2 DEF Told
        <4>2. CASE p.at = "page"
          <5>1. p.page # "logout" => p.result # "success" /\ (p.result = "refused" => p.page = "create")
            BY <1>1, <2>1, <4>2 DEF Told
          <5>2. p.result # None
            BY <2>1, <4>2 DEF Told
          <5> QED
            BY <2>4, <2>5, <4>2, <5>1, <5>2 DEF Told
        <4> QED
          BY <2>3, <4>1, <4>2
      <3> QED
        BY <2>1, <3>1 DEF Local, Left
    <2>7. visit' = [visit EXCEPT ![v] = p]
      BY <1>1, <2>1
    <2>8. CookieMoved(v, l, p)
      BY <1>1, <2>2 DEF CookieMoved
    <2>9. Keeps(p, p) /\ p.at # "idle" /\ p.at # "set_password"
      BY <2>3 DEF Keeps
    <2>10. Local(p, late'[v], did'[v])
      BY <1>2, <2>6
    <2> QED
      BY <1>2, <1>4, <2>1, <2>2, <2>7, <2>8, <2>9, <2>10, ExecuteKeeps
  <1> QED
    BY <1>3, <1>4 DEF Late

-----------------------------------------------------------------------------
(* The invariant.                                                          *)

\* The answers to the calls that write, one case per call.
LEMMA WriteKeeps ==
    ASSUME IInv, NEW v \in Visits,
           \/ Login(v) \/ Logout(v) \/ CreateUser(v) \/ SetPassword(v) \/ UpdateUser(v)
           \/ CreatePlan(v) \/ UpdatePlan(v) \/ CancelPlan(v)
    PROVE  IInv'
  <1> DEFINE p == visit[v]
             refused == IF p.at = "create_plan"
                        THEN [p EXCEPT !.at = "render", !.result = "refused"]
                        ELSE Page(p, "refused")
  <1>1. ASSUME p.at \in Writes, ~Accepted(p), Hold(v, refused), UNCHANGED <<core, history, late>>,
               UNCHANGED jar,
               \/ cookie' = cookie
               \/ p.at = "logout" /\ cookie' = [cookie EXCEPT ![p.browser] = None]
        PROVE  IInv'
    BY <1>1, RejectedKeeps
  <1> HIDE DEF refused
  <1>2. ASSUME NEW call \in Writes \ {"login", "logout", "create_user", "create_plan"},
               LastCall(v, call)
        PROVE  IInv'
    <2>1. /\ p.at = call /\ p.at \in Writes \ {"create_user"} /\ p.at \notin {"login", "logout"}
          /\ UNCHANGED <<cookie, jar, late>> /\ p.at # "create_plan"
      BY <1>2 DEF LastCall, Answered
    <2>2. CASE Execute(v, p) /\ Hold(v, Page(p, "success"))
      <3>1. \A h : CookieMoved(v, p, h)
        BY <2>1 DEF CookieMoved
      <3> QED
        BY <2>1, <2>2, <3>1, LastCallKeeps
    <2>3. CASE ~Accepted(p) /\ Hold(v, Page(p, "refused")) /\ UNCHANGED <<core, history>>
      <3>1. Hold(v, refused)
        BY <2>1, <2>3 DEF refused
      <3> QED
        BY <1>1, <2>1, <2>3, <3>1
    <2> QED
      BY <1>2, <2>2, <2>3 DEF LastCall, Answered
  <1>3. CASE SetPassword(v) \/ UpdateUser(v) \/ UpdatePlan(v) \/ CancelPlan(v)
    BY <1>2, <1>3 DEF SetPassword, UpdateUser, UpdatePlan, CancelPlan, Writes
  <1>4. CASE Login(v)
    <2>1. p.at = "login" /\ p.at \in Writes \ {"create_user"} /\ UNCHANGED late
      BY <1>4 DEF Login, Answered, Writes
    <2>2. CASE Execute(v, p) /\ Hold(v, Page(p, "success"))
      <3>1. cookie' = [cookie EXCEPT ![p.browser] = v] /\ jar' = v
        BY <1>4, <2>2 DEF Login, Execute
      <3>2. \A h : h.at = "page" /\ h.result = "success" => CookieMoved(v, p, h)
        BY <2>1, <3>1 DEF CookieMoved
      <3> QED
        BY <2>1, <2>2, <3>2, LastCallKeeps
    <2>3. CASE ~Accepted(p) /\ Hold(v, Page(p, "refused")) /\ UNCHANGED <<core, history>>
      <3>1. UNCHANGED <<cookie, jar>>
        BY <1>4, <2>3 DEF Login
      <3>2. Hold(v, refused)
        BY <2>1, <2>3 DEF refused
      <3> QED
        BY <1>1, <2>1, <2>3, <3>1, <3>2
    <2> QED
      BY <1>4, <2>2, <2>3 DEF Login, Answered
  <1>5. CASE Logout(v)
    <2>1. /\ p.at = "logout" /\ p.at \in Writes \ {"create_user"} /\ UNCHANGED late
          /\ cookie' = [cookie EXCEPT ![p.browser] = None]
      BY <1>5 DEF Logout, Answered, Writes
    <2>2. CASE p.token = None
      BY <1>5, <2>1, <2>2, LogoutUnknownKeeps DEF Logout
    <2>3. CASE p.token # None /\ Execute(v, p) /\ Hold(v, Page(p, "success"))
      <3>1. jar' = None
        BY <1>5, <2>3 DEF Logout, Execute
      <3>2. \A h : h.at = "page" /\ h.result = "success" => CookieMoved(v, p, h)
        BY <2>1, <3>1 DEF CookieMoved
      <3> QED
        BY <2>1, <2>3, <3>2, LastCallKeeps
    <2>4. CASE /\ p.token # None /\ ~Accepted(p) /\ Hold(v, Page(p, "refused"))
               /\ UNCHANGED <<core, history>>
      <3>1. UNCHANGED jar
        BY <1>5, <2>4 DEF Logout
      <3>2. Hold(v, refused)
        BY <2>1, <2>4 DEF refused
      <3> QED
        BY <1>1, <2>1, <2>4, <3>1, <3>2
    <2> QED
      BY <1>5, <2>2, <2>3, <2>4 DEF Logout, Answered
  <1>6. CASE CreateUser(v)
    <2>1. p.at = "create_user" /\ p.at \in Writes /\ UNCHANGED <<late, cookie, jar>>
      BY <1>6 DEF CreateUser, Answered, Writes
    <2>2. CASE Execute(v, p) /\ Hold(v, [p EXCEPT !.at = "set_password"])
      BY <2>1, <2>2, ProvisionedKeeps
    <2>3. CASE ~Accepted(p) /\ Hold(v, Page(p, "refused")) /\ UNCHANGED <<core, history>>
      <3>1. Hold(v, refused)
        BY <2>1, <2>3 DEF refused
      <3> QED
        BY <1>1, <2>1, <2>3, <3>1
    <2> QED
      BY <1>6, <2>2, <2>3 DEF CreateUser, Answered
  <1>7. CASE CreatePlan(v)
    <2>1. p.at = "create_plan" /\ p.at \in Writes \ {"create_user"} /\ UNCHANGED <<late, cookie, jar>>
      BY <1>7 DEF CreatePlan, Answered, Writes
    <2>2. CASE Execute(v, p) /\ Hold(v, Page(p, "success"))
      <3>1. \A h : CookieMoved(v, p, h)
        BY <2>1 DEF CookieMoved
      <3> QED
        BY <2>1, <2>2, <3>1, LastCallKeeps
    <2>3. CASE ~Accepted(p) /\ Hold(v, refused) /\ UNCHANGED <<core, history>>
      BY <1>1, <2>1, <2>3
    <2> QED
      BY <1>7, <2>1, <2>2, <2>3 DEF CreatePlan, Answered, refused
  <1> QED
    BY <1>3, <1>4, <1>5, <1>6, <1>7

\* Every step keeps the invariant.
LEMMA StepKeeps ==
    ASSUME IInv, [Next]_vars
    PROVE  IInv'
  <1> USE DEF IInv
  <1>1. ASSUME NEW v \in Visits, Serve(v) PROVE IInv'
    BY <1>1, MeKeeps, WriteKeeps, ListServersKeeps, ListUsersKeeps, ListPlansKeeps,
       ListConflictsKeeps, ShowScheduleKeeps, FindServerKeeps, RenderKeeps, GetPlanKeeps,
       GiveUpKeeps, Zenon DEF Serve
  <1>2. sessions \in [Tokens -> Users \cup {None}] /\ servers \subseteq Servers
        /\ late \in [Visits -> Visit \cup {None}]
    BY DEF Types
  <1>3. ASSUME NEW t \in Tokens, Expire(t) PROVE IInv'
    <2>1. sessions' = [sessions EXCEPT ![t] = None]
          /\ UNCHANGED <<users, servers, plans, late, cookie, jar, visit, did, touched>>
      BY <1>3 DEF Expire, history
    <2>2. sessions' \in [Tokens -> Users \cup {None}]
          /\ \A u \in Tokens : sessions'[u] \in {sessions[u], None}
      BY <1>2, <2>1
    <2> QED
      BY <1>2, <2>1, <2>2, AsideKeeps
  <1>4. ASSUME NEW s \in NewServers, ServerCreated(s) PROVE IInv'
    <2>1. servers' = servers \cup {s} /\ s \in Servers
          /\ UNCHANGED <<users, sessions, plans, late, cookie, jar, visit, did, touched>>
      BY <1>4 DEF ServerCreated, history, Servers
    <2>2. servers \subseteq servers' /\ servers' \subseteq Servers
      BY <1>2, <2>1
    <2> QED
      BY <1>2, <2>1, <2>2, AsideKeeps
  <1>5. CASE UNCHANGED vars
    <2>1. UNCHANGED <<users, sessions, servers, plans, late, cookie, jar, visit, did, touched>>
      BY <1>5 DEF vars, core, history
    <2> QED
      BY <1>2, <2>1, AsideKeeps
  <1> QED
    BY <1>1, <1>3, <1>4, <1>5, ClickKeeps, LateKeeps DEF Next

\* The invariant holds at the start.
LEMMA InitKeeps == Init => IInv
  <1> SUFFICES ASSUME Init PROVE IInv
    OBVIOUS
  <1> USE DEF Init
  <1>1. /\ Idle.at = "idle" /\ Idle.page = None /\ Idle.result = None /\ Idle.token = None
        /\ Idle.rows = {} /\ Idle.asked = {} /\ Idle.marks = {} /\ Idle.form = None
    BY DEF Idle
  <1>2. Idle \in Visit
    BY DEF Idle, Visit, Reads, Writes
  <1>3. \A b \in Browsers : b # None
    BY NoneIsNothing DEF Tokens
  <1>4. \A p \in PlanIds \ Visits : FirstPlans[p] \in Plan /\ FirstPlans[p].server \in FirstServers
    BY WebAssumption DEF PlanIds
  <1>5. Types
    <2>1. users \in [Users -> UserRow \cup {None}]
      BY WebAssumption
    <2>2. sessions \in [Tokens -> Users \cup {None}]
      BY WebAssumption DEF Tokens
    <2>3. servers \subseteq Servers
      BY DEF Servers
    <2>4. plans \in [PlanIds -> Plan \cup {None}]
      BY <1>4
    <2>5. late \in [Visits -> Visit \cup {None}] /\ visit \in [Visits -> Visit]
      BY <1>2
    <2>6. cookie \in [Browsers -> Tokens \cup {None}] /\ jar \in Tokens \cup {None}
      BY DEF Tokens
    <2>7. did \in [Visits -> Seq([call : Writes, actor : Users])]
          /\ touched \in [Visits -> SUBSET PlanIds]
      OBVIOUS
    <2> QED
      BY <2>1, <2>2, <2>3, <2>4, <2>5, <2>6, <2>7 DEF Types
  <1>6. ASSUME NEW v \in Visits PROVE Local(visit[v], late[v], did[v])
    <2>1. PICK h : h = Idle
      OBVIOUS
    <2>2. Shape(h) /\ Subject(h)
      BY <1>1, <2>1, NoneIsNothing DEF Shape, Subject, AllPages
    <2>3. Local(h, None, <<>>)
      BY <1>1, <2>1, <2>2, FreshIs
    <2> QED
      BY <2>1, <2>3
  <1>7. TokensKnown
    <2>1. \A b \in Browsers : Known(cookie[b])
      BY DEF Known
    <2>2. \A t \in Tokens : sessions[t] # None => Known(t) /\ sessions[t] = LoggedIn(t)
      BY DEF Known, LoggedIn
    <2> QED
      BY <1>1, <2>1, <2>2 DEF TokensKnown
  <1>8. CallsAsTheVisitor
    BY DEF CallsAsTheVisitor
  <1>9. PasswordsAtFirst => NobodyWithoutPassword
    BY DEF PasswordsAtFirst, NobodyWithoutPassword
  <1>10. OwnCookies
    BY DEF OwnCookies, BrowserOf
  <1>11. OpenSessionsExplained
    BY DEF OpenSessionsExplained, Tokens
  <1>12. PlansMade
    BY DEF PlansMade, PlanIds
  <1>13. ServersKnown
    BY <1>4 DEF ServersKnown
  <1>14. ASSUME NEW v \in Visits PROVE Seen(visit[v], touched[v])
    <2>1. visit[v].page # "schedule"
      BY <1>1, NoneIsNothing DEF AllPages
    <2> QED
      BY <2>1 DEF Seen
  <1> QED
    BY <1>5, <1>6, <1>7, <1>8, <1>9, <1>10, <1>11, <1>12, <1>13, <1>14 DEF IInv

\* What the theorems below rest on.
THEOREM Invariant == Spec => []IInv
  <1>1. IInv /\ [Next]_vars => IInv'
    BY StepKeeps
  <1> QED
    BY <1>1, InitKeeps, PTL DEF Spec

-----------------------------------------------------------------------------
(* What the invariant is for.                                              *)

\* Core's rows, the cookies and what each thread of the frontend holds have their types.
THEOREM TypeCorrect == Spec => []TypeOK
  <1>1. IInv => TypeOK
    <2>1. ASSUME Types, NEW v \in Visits, NEW k \in DOMAIN did[v]
          PROVE  did[v][k].call \in Writes /\ did[v][k].actor \in Users
      <3> DEFINE Done == [call : Writes, actor : Users]
      <3>1. did[v] \in Seq(Done)
        BY <2>1 DEF Types
      <3>2. \A e \in Done : e.call \in Writes /\ e.actor \in Users
        OBVIOUS
      <3> HIDE DEF Done
      <3>3. did[v][k] \in Done
        BY <2>1, <3>1
      <3> QED
        BY <3>2, <3>3
    <2> QED
      BY <2>1 DEF IInv, Types, TypeOK
  <1> QED
    BY <1>1, Invariant, PTL

\* A page that announces success comes when exactly what it announces has been executed,
\* one that announces a refusal when nothing has, but for the two-call pages.
THEOREM PagesTellTheTruth == Spec => []PageTellsTheTruth
  <1> DEFINE Done == [call : Writes, actor : Users]
             Names(d) == [k \in DOMAIN d |-> d[k].call]
  <1>1. ASSUME NEW d \in Seq(Done), NEW call, Once(d, call)
        PROVE  Names(d) = <<call>>
    <2> HIDE DEF Done
    <2> QED
      BY <1>1 DEF Once
  <1>2. ASSUME NEW d \in Seq(Done), NEW one, NEW other, Twice(d, one, other)
        PROVE  Names(d) = <<one, other>>
    <2> HIDE DEF Done
    <2> QED
      BY <1>2 DEF Twice
  <1>3. Names(<<>>) = <<>>
    OBVIOUS
  <1>4. ASSUME IInv, NEW v \in Visits, visit[v].at = "page", visit[v].page # "logout"
        PROVE  /\ visit[v].result = "success" => Names(did[v]) = Announced(visit[v])
               /\ visit[v].result = "refused" =>
                    \/ Names(did[v]) = <<>>
                    \/ visit[v].page = "provision" /\ Names(did[v]) = <<"create_user">>
                    \/ visit[v].page = "create" /\ Names(did[v]) = <<"create_plan">>
    <2>1. did[v] \in Seq(Done) /\ Told(visit[v], late[v], did[v])
      BY <1>4 DEF IInv, Types, Local
    <2> HIDE DEF Done, Names
    <2>2. ASSUME visit[v].result = "success"
          PROVE  Names(did[v]) = Announced(visit[v])
      <3>1. Whole(visit[v], did[v])
        BY <1>4, <2>1, <2>2 DEF Told
      <3> QED
        BY <1>1, <1>2, <1>3, <2>1, <3>1 DEF Whole, Announced
    <2>3. ASSUME visit[v].result = "refused"
          PROVE  \/ did[v] = <<>>
                 \/ visit[v].page = "provision" /\ Once(did[v], "create_user")
                 \/ visit[v].page = "create" /\ Once(did[v], "create_plan")
      BY <1>4, <2>1, <2>3 DEF Told
    <2> QED
      BY <1>1, <1>3, <2>1, <2>2, <2>3
  <1>5. IInv => PageTellsTheTruth
    BY <1>4 DEF PageTellsTheTruth, Calls
  <1> QED
    BY <1>5, Invariant, PTL

\* Whatever cookie the shared client keeps, a call is executed as the user whose login has
\* given the visit's own browser its cookie.
THEOREM CallsAreTheVisitors == Spec => []CallsAsTheVisitor
  <1>1. IInv => CallsAsTheVisitor
    BY DEF IInv
  <1> QED
    BY <1>1, Invariant, PTL

\* If every account can be logged in to at first, then one that cannot be is one whose
\* provisioning is under way or has ended with an error page.
THEOREM AccountsGetPasswords ==
    ASSUME PasswordsAtFirst PROVE Spec => []NobodyWithoutPassword
  <1>1. IInv => NobodyWithoutPassword
    BY PasswordsAtFirst DEF IInv
  <1> QED
    BY <1>1, Invariant, PTL

\* A session whose cookie no browser has was left by a login or a logout that was given up
\* or refused, or by another login or logout on its browser.
THEOREM SessionsAreExplained == Spec => []OpenSessionsExplained
  <1>1. IInv => OpenSessionsExplained
    BY DEF IInv
  <1> QED
    BY <1>1, Invariant, PTL

\* The schedule, put together from many answers, is right about every plan that stood still.
THEOREM ScheduleIsRight == Spec => []ScheduleShowsWhatStood
  <1>1. ASSUME IInv, NEW v \in Visits, visit[v].page = "schedule", visit[v].result = "success",
               NEW p \in PlanIds, plans[p] # None, p \notin touched[v]
        PROVE  /\ p \in visit[v].rows <=> ~plans[p].cancelled
               /\ \A r \in PlanIds :
                    /\ p \in visit[v].rows /\ plans[r] # None /\ r \notin touched[v]
                    /\ Overlap(p, r)
                    => p \in visit[v].marks
               /\ p \in visit[v].marks => \E r \in PlanIds : Overlap(p, r) \/ r \in touched[v]
    <2>1. Seen(visit[v], touched[v]) /\ p \in Stood(touched[v])
      BY <1>1 DEF IInv, Stood
    <2>2. visit[v].rows \subseteq visit[v].asked
      BY <1>1, <2>1 DEF Seen
    <2>3. /\ \A s \in Stood(touched[v]) : s \in visit[v].rows <=> ~plans[s].cancelled
          /\ \A s, r \in Stood(touched[v]) :
               s \in visit[v].asked /\ Overlap(s, r) => s \in visit[v].marks
          /\ \A s \in Stood(touched[v]) :
               s \in visit[v].marks => \E r \in PlanIds : Overlap(s, r) \/ r \in touched[v]
      BY <1>1, <2>1 DEF Seen
    <2> QED
      BY <2>1, <2>2, <2>3 DEF Stood
  <1>2. IInv => ScheduleShowsWhatStood
    BY <1>1 DEF ScheduleShowsWhatStood
  <1> QED
    BY <1>2, Invariant, PTL

\* A text that some minute has is read as a minute that has it, one that is skipped as the
\* minute with the text that is later by what is saved.
LEMMA ParsedIs ==
    ASSUME NEW w \in Int
    PROVE  Text(Parsed(w)) = w \/ (Skipped(w) /\ Text(Parsed(w)) = w + Saving)
  <1>1. SummerStart \in Int /\ SummerEnd \in Int /\ Saving \in Nat /\ Saving <= SummerEnd - SummerStart
    BY ClockAssumption
  <1>2. PICK m \in Int : /\ Parsed(w) = m * Seconds
                        /\ m = IF SummerStart + Saving <= w /\ w < SummerEnd + Saving
                               THEN w - Saving ELSE w
    BY <1>1 DEF Parsed
  <1>3. Text(Parsed(w)) = Wall(m)
    BY <1>2 DEF Text, Seconds
  <1>4. CASE SummerStart <= w /\ w < SummerStart + Saving
    <2>1. Wall(m) = w + Saving
      BY <1>1, <1>2, <1>4 DEF Wall
    <2>2. Wall(w) # w /\ Wall(w - Saving) # w
      BY <1>1, <1>4 DEF Wall
    <2> QED
      BY <1>3, <2>1, <2>2 DEF Skipped
  <1>5. CASE ~(SummerStart <= w /\ w < SummerStart + Saving)
    <2>1. Wall(m) = w
      BY <1>1, <1>2, <1>5 DEF Wall
    <2> QED
      BY <1>3, <2>1
  <1> QED
    BY <1>4, <1>5

\* A time that goes through a form loses its seconds and, of two repeated minutes, which one
\* it was.
LEMMA RoundTripIs ==
    ASSUME NEW t \in Int
    PROVE  \/ Parsed(Text(t)) = (t \div Seconds) * Seconds
           \/ Repeated(Text(t)) /\ Text(Parsed(Text(t))) = Text(t)
  <1>1. SummerStart \in Int /\ SummerEnd \in Int /\ Saving \in Nat /\ Saving <= SummerEnd - SummerStart
    BY ClockAssumption
  <1>2. PICK m \in Int : m = t \div Seconds
    BY DEF Seconds
  <1>3. Text(t) = Wall(m) /\ Wall(m) \in Int
    BY <1>1, <1>2 DEF Text, Wall
  <1>4. CASE SummerEnd <= m /\ m < SummerEnd + Saving
    <2>1. Wall(m) = m /\ Wall(m - Saving) = m /\ Saving # 0
      BY <1>1, <1>4 DEF Wall
    <2>2. Parsed(m) = (m - Saving) * Seconds
      BY <1>1, <1>4 DEF Parsed
    <2>3. Text((m - Saving) * Seconds) = Wall(m - Saving)
      BY <1>1 DEF Text, Seconds
    <2> QED
      BY <1>3, <2>1, <2>2, <2>3 DEF Repeated
  <1>5. CASE SummerStart <= m /\ m < SummerEnd
    <2>1. Wall(m) = m + Saving /\ (m + Saving) - Saving = m
      BY <1>1, <1>5 DEF Wall
    <2>2. Parsed(m + Saving) = m * Seconds
      BY <1>1, <1>5, <2>1 DEF Parsed
    <2> QED
      BY <1>2, <1>3, <2>1, <2>2
  <1>6. CASE m < SummerStart \/ SummerEnd + Saving <= m
    <2>1. Wall(m) = m /\ Parsed(m) = m * Seconds
      BY <1>1, <1>6 DEF Wall, Parsed
    <2> QED
      BY <1>2, <1>3, <2>1
  <1> QED
    BY <1>1, <1>2, <1>4, <1>5, <1>6

\* What is posted for a field is what was typed into it or left in it.
LEMMA PostedIs ==
    ASSUME NEW typed \in Minutes \cup {Unset}, NEW shown \in Instants
    PROVE  TimeAsTyped(typed, shown, PostedTime(typed, shown))
  <1>1. CASE typed # Unset
    <2>1. typed \in Int /\ PostedTime(typed, shown) = Parsed(typed)
      BY <1>1 DEF PostedTime, Minutes
    <2> QED
      BY <1>1, <2>1, ParsedIs DEF TimeAsTyped
  <1>2. CASE typed = Unset
    <2>1. shown \in Int /\ PostedTime(typed, shown) = Parsed(Text(shown))
      BY <1>2 DEF PostedTime, Instants
    <2> QED
      BY <1>2, <2>1, RoundTripIs DEF TimeAsTyped
  <1> QED
    BY <1>1, <1>2

\* An executed call changes a plan as it asks, and no other call is executed.
LEMMA ChangeIs ==
    ASSUME IInv, NEW v \in Visits, NEW q, Sent(q), Execute(v, q),
           q.at = "create_plan" => did[v] = <<>>,
           NEW p \in PlanIds, plans[p] # None, plans'[p] # plans[p]
    PROVE  q.plan = p /\ (CancelledOnly(q, p) \/ EditedOnly(q, p))
  <1>1. Types /\ plans \in [PlanIds -> Plan \cup {None}] /\ plans[p] \in Plan
    BY DEF IInv, Types
  <1>2. Accepted(q) /\ plans' = PlansAfter(v, q)
    BY DEF Execute
  <1>3. q \in Visit /\ (Actor(q) # None)
    BY <1>2 DEF Sent, Accepted
  <1>4. Actor(q) \in Users
    BY <1>1, <1>3, ActorIs
  <1>5. q.at \in {"update_plan", "cancel_plan"} /\ p = q.plan
    <2>1. \/ q.at = "create_plan" /\ p = v
          \/ q.at \in {"update_plan", "cancel_plan"} /\ p = q.plan
      BY <1>1, <1>2, <1>4, PlansAre
    <2>2. ~(q.at = "create_plan" /\ p = v)
      BY DEF IInv, PlansMade
    <2> QED
      BY <2>1, <2>2
  <1>6. CASE q.at = "cancel_plan"
    <2>1. plans' = [plans EXCEPT ![p].cancelled = TRUE]
      BY <1>2, <1>5, <1>6 DEF PlansAfter
    <2>2. plans'[p] = [plans[p] EXCEPT !.cancelled = TRUE]
      BY <1>1, <2>1
    <2> QED
      BY <1>5, <1>6, <2>2 DEF CancelledOnly
  <1>7. CASE q.at = "update_plan"
    <2>1. q.form \in Plan /\ q.edit \in Edit
      BY <1>7, SentIs, WebAssumption
    <2>2. PICK old \in Plan : old = plans[p]
      BY <1>1
    <2>3. plans'[p] = Patched(old, q)
      BY <1>1, <1>2, <1>5, <1>7, <2>2 DEF PlansAfter
    <2>4. PICK new \in Plan : new = plans'[p] /\ new = Patched(old, q)
      BY <2>1, <2>3, PatchedIs
    <2>5. /\ new.server = old.server /\ new.owner = old.owner /\ new.cancelled = old.cancelled
          /\ new.start = PostedStart(q) /\ new.end = PostedEnd(q)
          /\ new.note = (IF PostedNote(q) \in {"", None} THEN old.note ELSE PostedNote(q))
      <3>1. PICK patched : patched = Patched(old, q)
        OBVIOUS
      <3>2. /\ patched.server = old.server /\ patched.owner = old.owner
            /\ patched.cancelled = old.cancelled
            /\ patched.start = PostedStart(q) /\ patched.end = PostedEnd(q)
        BY <2>1, <3>1, PatchedIs
      <3>3. patched.note = (IF PostedNote(q) \in {"", None} THEN old.note ELSE PostedNote(q))
        BY <2>1, <3>1, PatchedIs
      <3> QED
        BY <2>4, <3>1, <3>2, <3>3
    <2>6. new = [old EXCEPT !.start = new.start, !.end = new.end, !.note = new.note]
      BY <2>5 DEF Plan
    <2>7. /\ new.start < new.end
          /\ TimeAsTyped(q.edit.start, q.form.start, new.start)
          /\ TimeAsTyped(q.edit.end, q.form.end, new.end)
      <3>1. PostedStart(q) < PostedEnd(q)
        BY <1>7 DEF Sent, Subject
      <3>2. /\ q.edit.start \in Minutes \cup {Unset} /\ q.form.start \in Instants
            /\ q.edit.end \in Minutes \cup {Unset} /\ q.form.end \in Instants
        BY <2>1 DEF Edit, Plan
      <3>3. /\ TimeAsTyped(q.edit.start, q.form.start, PostedStart(q))
            /\ TimeAsTyped(q.edit.end, q.form.end, PostedEnd(q))
        BY <3>2, PostedIs DEF PostedStart, PostedEnd
      <3> QED
        BY <2>5, <3>1, <3>3
    <2>8. IF q.edit.note \in Notes THEN new.note = q.edit.note
          ELSE new.note = old.note \/ (old.note # q.form.note /\ q.edit.note = Unset)
      <3>1. q.edit.note \in Notes \cup {"", Unset} /\ q.form.note \in Notes \cup {None}
        BY <2>1 DEF Edit, Plan
      <3>2. "" \notin Notes /\ None \notin Notes /\ Unset \notin Notes
        BY NoneIsNothing DEF Notes
      <3>3. PostedNote(q) = IF q.edit.note = Unset THEN q.form.note ELSE q.edit.note
        BY DEF PostedNote
      <3>4. CASE q.edit.note \in Notes
        BY <2>5, <3>2, <3>3, <3>4
      <3>5. CASE q.edit.note = Unset
        BY <2>5, <3>1, <3>2, <3>3, <3>5
      <3>6. CASE q.edit.note = "" /\ q.edit.note # Unset
        BY <2>5, <3>2, <3>3, <3>6
      <3> QED
        BY <3>1, <3>4, <3>5, <3>6
    <2>9. EditedOnly(q, p)
      BY <1>7, <2>2, <2>4, <2>6, <2>7, <2>8 DEF EditedOnly
    <2> QED
      BY <1>5, <2>9
  <1> QED
    BY <1>5, <1>6, <1>7

\* Whatever the threads and the late calls do, a plan that is there changes only by a call
\* that asks for this plan, and only in what was asked for.
THEOREM PlansAreAsTyped == Spec => PlansChangeAsTyped
  <1> DEFINE Asked(v, p) == \E q \in {visit[v], late[v]} \ {None} :
                              q.plan = p /\ (CancelledOnly(q, p) \/ EditedOnly(q, p))
  <1>1. ASSUME IInv, NEW v \in Visits, NEW p \in PlanIds, plans[p] # None, plans'[p] # plans[p],
               visit[v].at \in Writes, visit[v].at = "logout" => visit[v].token # None,
               Execute(v, visit[v])
        PROVE  Asked(v, p)
    <2>1. Sent(visit[v]) /\ visit[v] # None
      <3>1. visit[v] \in Visit /\ Local(visit[v], late[v], did[v])
        BY <1>1 DEF IInv, Types
      <3>2. visit[v] # None
        BY <3>1, NoneIsNothing
      <3> QED
        BY <1>1, <3>1, <3>2 DEF Local, Sent
    <2>2. visit[v].at = "create_plan" => did[v] = <<>>
      BY <1>1, NothingYet
    <2>3. visit[v].plan = p /\ (CancelledOnly(visit[v], p) \/ EditedOnly(visit[v], p))
      BY <1>1, <2>1, <2>2, ChangeIs
    <2> QED
      BY <2>1, <2>3
  <1>2. ASSUME IInv, NEW v \in Visits, NEW p \in PlanIds, plans[p] # None, plans'[p] # plans[p],
               late[v] # None, Execute(v, late[v])
        PROVE  Asked(v, p)
    <2>1. Sent(late[v]) /\ (late[v].at = "create_plan" => did[v] = <<>>)
      BY <1>2 DEF IInv, Types, Local, Left, Sent
    <2>2. late[v].plan = p /\ (CancelledOnly(late[v], p) \/ EditedOnly(late[v], p))
      BY <1>2, <2>1, ChangeIs
    <2> QED
      BY <1>2, <2>2
  <1> HIDE DEF Asked
  <1>3. ASSUME IInv, NEW v \in Visits, NEW p \in PlanIds, plans[p] # None, plans'[p] # plans[p],
               Serve(v) \/ Click(v) \/ Late(v)
        PROVE  Asked(v, p)
    <2>1. CASE Late(v)
      BY <1>2, <1>3, <2>1 DEF Late, core
    <2>2. CASE Serve(v)
      <3>1. /\ visit[v].at \in Writes
            /\ visit[v].at = "logout" => visit[v].token # None
            /\ Execute(v, visit[v])
        BY <1>3, <2>2 DEF Serve, Me, Read, ListServers, ListUsers, ListPlans, ListConflicts,
           ShowSchedule, FindServer, Render, GetPlan, GiveUp, Login, Logout, CreateUser,
           SetPassword, UpdateUser, CreatePlan, UpdatePlan, CancelPlan, LastCall, Answered,
           core, Writes
      <3> QED
        BY <1>1, <1>3, <3>1
    <2>3. CASE Click(v)
      BY <1>3, <2>3 DEF Click, VisitLogin, VisitLogout, VisitSchedule, VisitCreate, VisitEdit,
         VisitCancel, VisitProvision, VisitPassword, VisitToggle, Submit, Arrive, core
    <2> QED
      BY <1>3, <2>1, <2>2, <2>3
  <1>4. ASSUME IInv, [Next]_vars, NEW p \in PlanIds, plans[p] # None, plans'[p] # plans[p]
        PROVE  \E v \in Visits : Asked(v, p)
    <2>1. \E v \in Visits : Serve(v) \/ Click(v) \/ Late(v)
      BY <1>4 DEF Next, Expire, ServerCreated, vars, core
    <2> QED
      BY <1>3, <1>4, <2>1
  <1>5. IInv /\ [Next]_vars =>
          [\A p \in PlanIds : plans[p] # None /\ plans'[p] # plans[p] =>
             \E v \in Visits : \E q \in {visit[v], late[v]} \ {None} :
               q.plan = p /\ (CancelledOnly(q, p) \/ EditedOnly(q, p))]_vars
    BY <1>4 DEF Asked
  <1> QED
    BY <1>5, Invariant, PTL DEF Spec, PlansChangeAsTyped
=============================================================================
