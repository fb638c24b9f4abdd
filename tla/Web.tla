-------------------------------- MODULE Web --------------------------------
(***************************************************************************)
(* The web frontend: what becomes of a visit to one of its pages. A visit  *)
(* is served by a thread of its own, as a series of calls to Core, each of *)
(* which can be answered, refused, or given up after the client's timeout; *)
(* Core may still execute a call that nobody waits for any more. Core is   *)
(* here what its contracts say: every call takes place at once.            *)
(*                                                                         *)
(* A browser has one cookie and sends it with every visit. All visits      *)
(* share one HTTP client, which keeps the cookies that Core sets, too.     *)
(* Times are instants. A form shows and sends whole minutes of the wall    *)
(* clock of the configured zone, of which one summer time is modelled:     *)
(* while it lasts the clock is ahead. When it begins, texts are skipped;   *)
(* when it ends, texts are repeated.                                       *)
(***************************************************************************)
EXTENDS Integers, Sequences

CONSTANTS
    Visits,        \* visits to a page, from the click to the last answer to it
    Browsers,      \* a browser's name is also the token it comes with at first
    Users,
    FirstUsers,    \* the directory at the start, None for a free name
    FirstLogins,   \* who has logged in on each browser
    FirstServers, NewServers,
    FirstPlans,    \* the plans at the start
    Pages,         \* the pages that are visited
    Edits,         \* what users type into the edit form
    NewWindow,     \* what users type into the form for a new plan
    SummerStart, SummerEnd,   \* the minutes at which the clock is changed
    Saving,        \* how far ahead it is in between
    None, Unset

VARIABLES
    users,      \* Core: the directory
    sessions,   \* Core: the user of each open session, None for one that has ended
    servers,    \* Core: the servers
    plans,      \* Core: the plans
    late,       \* the call of each visit that was given up and may still be executed
    cookie,     \* each browser's cookie
    jar,        \* the cookie that the shared client keeps
    visit,      \* what each visit's thread holds, in the end its page
    did,        \* history: the calls that Core has executed for each visit, and as whom
    touched     \* history: the plans that have changed since each visit began

core == <<users, sessions, servers, plans>>
history == <<did, touched>>
vars == <<core, late, cookie, jar, visit, history>>

Tokens == Visits \cup Browsers
PlanIds == Visits \cup DOMAIN FirstPlans
Servers == FirstServers \cup NewServers

UserRow == [role : {"member", "admin"}, enabled : BOOLEAN, password : BOOLEAN]

Seconds == 2                          \* instants in a minute
Minutes == Int
Instants == Int

Notes == {"x", "y"}
Plan == [owner : Users, server : Servers, start : Instants, end : Instants,
         note : Notes \cup {None}, cancelled : BOOLEAN]

\* astimezone(zone): what the clock shows in a minute. A standard offset would only give
\* other names to the same texts.
Wall(m) == IF SummerStart <= m /\ m < SummerEnd THEN m + Saving ELSE m

\* Variant: the form is filled in UTC and read in the zone.
TextInUtc(t) == t \div Seconds

\* The text in a form's field: the seconds are dropped, and which of two repeated minutes
\* it was.
Text(t) == Wall(t \div Seconds)

\* parse_local_datetime, with fold=0: a text that is repeated is read as its first
\* occurrence, one that is skipped with the offset from before the change.
Parsed(w) ==
    IF SummerStart + Saving <= w /\ w < SummerEnd + Saving
    THEN (w - Saving) * Seconds
    ELSE w * Seconds

\* What was typed into the form, Unset for a field that was left alone.
Edit == [start : Minutes \cup {Unset}, end : Minutes \cup {Unset},
         note : Notes \cup {"", Unset}]

AllPages == {"login", "logout", "schedule", "create", "edit", "cancel",
             "provision", "password", "toggle"}
AdminPages == {"provision", "password", "toggle"}
Reads == {"me", "list_servers", "list_users", "list_plans", "list_conflicts", "get_plan",
          "render"}
Writes == {"login", "logout", "create_user", "set_password", "update_user",
           "create_plan", "update_plan", "cancel_plan"}

\* at is the call that is under way. form is the plan as the edit form has shown it, rows
\* and marks are the plans of the schedule and those with an overlap warning.
Visit ==
    [page : Pages \cup {None}, at : {"idle", "typing", "page"} \cup Reads \cup Writes,
     browser : Browsers \cup {None}, token : Tokens \cup {None},
     viewer : Users \cup {None}, role : {"member", "admin", None},
     user : Users \cup {None}, enabled : BOOLEAN, plan : PlanIds \cup {None},
     server : Servers \cup {None}, edit : Edits \cup {None}, form : Plan \cup {None},
     servers : SUBSET Servers, rows : SUBSET PlanIds, asked : SUBSET PlanIds,
     marks : SUBSET PlanIds, result : {"success", "refused", "unavailable", None}]

ASSUME WebAssumption ==
    /\ Visits \cap Browsers = {}
    /\ DOMAIN FirstPlans \cap Visits = {}
    /\ FirstLogins \in [Browsers -> Users]
    /\ FirstUsers \in [Users -> UserRow \cup {None}]
    /\ \A p \in DOMAIN FirstPlans : FirstPlans[p] \in Plan /\ FirstPlans[p].server \in FirstServers
    /\ Pages \subseteq AllPages
    /\ Edits \subseteq Edit
    /\ \A S \in {Tokens, Users, PlanIds, Servers, Edits, Notes \cup {""}, AllPages} : None \notin S
    /\ None \notin {"success", "refused", "unavailable"}
    /\ None \notin UserRow /\ None \notin Plan /\ None \notin Visit
    /\ Unset \notin Minutes /\ Unset \notin Notes \cup {""}

ASSUME ClockAssumption ==
    /\ SummerStart \in Int /\ SummerEnd \in Int
    /\ Saving \in Nat /\ Saving <= SummerEnd - SummerStart
    /\ NewWindow \in [start : Minutes, end : Minutes]
    /\ Parsed(NewWindow.start) < Parsed(NewWindow.end)

Idle == [page |-> None, at |-> "idle", browser |-> None, token |-> None, viewer |-> None,
         role |-> None, user |-> None, enabled |-> FALSE, plan |-> None, server |-> None,
         edit |-> None, form |-> None, servers |-> {}, rows |-> {}, asked |-> {},
         marks |-> {}, result |-> None]

TypeOK ==
    /\ users \in [Users -> UserRow \cup {None}]
    /\ sessions \in [Tokens -> Users \cup {None}]
    /\ servers \subseteq Servers
    /\ plans \in [PlanIds -> Plan \cup {None}]
    /\ late \in [Visits -> Visit \cup {None}]
    /\ cookie \in [Browsers -> Tokens \cup {None}]
    /\ jar \in Tokens \cup {None}
    /\ visit \in [Visits -> Visit]
    /\ \A v \in Visits : \A k \in DOMAIN did[v] :
         did[v][k].call \in Writes /\ did[v][k].actor \in Users
    /\ touched \in [Visits -> SUBSET PlanIds]

Init ==
    /\ users = FirstUsers
    /\ sessions = [t \in Tokens |-> IF t \in Browsers THEN FirstLogins[t] ELSE None]
    /\ servers = FirstServers
    /\ plans = [p \in PlanIds |-> IF p \in Visits THEN None ELSE FirstPlans[p]]
    /\ late = [v \in Visits |-> None]
    /\ cookie = [b \in Browsers |-> b]
    /\ jar \in Browsers
    /\ visit = [v \in Visits |-> Idle]
    /\ did = [v \in Visits |-> <<>>]
    /\ touched = [v \in Visits |-> {}]

-----------------------------------------------------------------------------
(* Core.                                                                   *)

\* Variant: the client's own cookie comes last in the header.
SentTokenOfJar(q) == IF jar # None THEN jar ELSE q.token

\* Both cookies are sent; Core takes the last one of a name, and that is the call's own.
SentToken(q) == IF q.token # None THEN q.token ELSE jar

\* As whom Core executes a call, None for nobody: 401.
Actor(q) ==
    LET user == IF q.at = "login" THEN q.user
                ELSE IF SentToken(q) = None THEN None ELSE sessions[SentToken(q)]
    IN  IF user = None \/ users[user] = None THEN None
        ELSE IF users[user].enabled THEN user ELSE None

IsAdmin(user) == users[user].role = "admin"
Uncancelled(p) == plans[p] # None /\ ~plans[p].cancelled

\* Every plan asks for the whole of its server: to overlap is to be in conflict.
Overlap(p, r) ==
    /\ p # r
    /\ Uncancelled(p)
    /\ Uncancelled(r)
    /\ plans[p].server = plans[r].server
    /\ plans[p].start < plans[r].end
    /\ plans[r].start < plans[p].end

Accepted(q) ==
    /\ Actor(q) # None
    /\ CASE q.at = "login" -> users[q.user].password
         [] q.at = "logout" -> TRUE
         [] q.at = "create_user" -> IsAdmin(Actor(q)) /\ users[q.user] = None
         [] q.at = "set_password" -> IsAdmin(Actor(q)) /\ users[q.user] # None
         [] q.at = "update_user" ->
              /\ IsAdmin(Actor(q))
              /\ users[q.user] # None
              /\ q.enabled \/ q.user # Actor(q)
         [] q.at = "create_plan" -> q.server \in servers
         [] q.at \in {"update_plan", "cancel_plan"} ->
              /\ plans[q.plan] # None
              /\ IsAdmin(Actor(q)) \/ plans[q.plan].owner = Actor(q)
         [] OTHER -> TRUE

\* The form's note is sent only when there is something in it, the times always.
PostedTime(typed, shown) == Parsed(IF typed = Unset THEN Text(shown) ELSE typed)
PostedStart(q) == PostedTime(q.edit.start, q.form.start)
PostedEnd(q) == PostedTime(q.edit.end, q.form.end)
PostedNote(q) == IF q.edit.note = Unset THEN q.form.note ELSE q.edit.note
Patched(row, q) ==
    [row EXCEPT !.start = PostedStart(q),
                !.end = PostedEnd(q),
                !.note = IF PostedNote(q) \in {"", None} THEN @ ELSE PostedNote(q)]

\* Variant: what is not a yes is passed on as nothing.
EnabledOrNothing(q) == IF q.enabled THEN TRUE ELSE None

\* enabled.lower() in ("true", "1", "yes")
Enabled(q) == q.enabled

\* What the calls make of the directory, the sessions and the plans.
UsersAfter(q) ==
    CASE q.at = "create_user" ->
           [users EXCEPT ![q.user] = [role |-> "member", enabled |-> TRUE, password |-> FALSE]]
      [] q.at = "set_password" -> [users EXCEPT ![q.user].password = TRUE]
      [] q.at = "update_user" -> [users EXCEPT ![q.user].enabled = Enabled(q)]
      [] OTHER -> users

SessionsAfter(v, q) ==
    CASE q.at = "login" -> [sessions EXCEPT ![v] = q.user]
      [] q.at = "logout" -> [sessions EXCEPT ![SentToken(q)] = None]
      [] OTHER -> sessions

PlansAfter(v, q) ==
    CASE q.at = "create_plan" ->
           [plans EXCEPT ![v] = [owner |-> Actor(q), server |-> q.server,
                                 start |-> Parsed(NewWindow.start),
                                 end |-> Parsed(NewWindow.end),
                                 note |-> None, cancelled |-> FALSE]]
      [] q.at = "update_plan" -> [plans EXCEPT ![q.plan] = Patched(@, q)]
      [] q.at = "cancel_plan" -> [plans EXCEPT ![q.plan].cancelled = TRUE]
      [] OTHER -> plans

\* Core executes the call q of the visit v.
Execute(v, q) ==
    /\ Accepted(q)
    /\ users' = UsersAfter(q)
    /\ sessions' = SessionsAfter(v, q)
    /\ plans' = PlansAfter(v, q)
    /\ did' = [did EXCEPT ![v] = Append(@, [call |-> q.at, actor |-> Actor(q)])]
    /\ touched' = [w \in Visits |->
                     IF visit[w].at = "idle" THEN {}
                     ELSE touched[w] \cup {p \in PlanIds : plans'[p] # plans[p]}]
    /\ UNCHANGED servers

\* A call that was given up gets through, or is refused, after all.
Late(v) ==
    /\ late[v] # None
    /\ \/ Execute(v, late[v])
       \/ ~Accepted(late[v]) /\ UNCHANGED <<core, history>>
    /\ late' = [late EXCEPT ![v] = None]
    /\ UNCHANGED <<cookie, jar, visit>>

\* A session expires. POST /servers and the seeding command add servers.
Expire(t) ==
    /\ sessions[t] # None
    /\ sessions' = [sessions EXCEPT ![t] = None]
    /\ UNCHANGED <<users, servers, plans, late, cookie, jar, visit, history>>

ServerCreated(s) ==
    /\ s \notin servers
    /\ servers' = servers \cup {s}
    /\ UNCHANGED <<users, sessions, plans, late, cookie, jar, visit, history>>

-----------------------------------------------------------------------------
(* A visit.                                                                *)

Hold(v, q) == visit' = [visit EXCEPT ![v] = q]
Page(q, result) == [q EXCEPT !.at = "page", !.result = result]

\* The click, with the cookie that the browser has now. Login and logout need no viewer.
Arrive(v, q) ==
    /\ visit[v].at = "idle"
    /\ q.page \in Pages
    /\ \E b \in Browsers :
         Hold(v, [q EXCEPT !.at = IF q.page \in {"login", "logout"} THEN q.page ELSE "me",
                           !.browser = b, !.token = cookie[b]])
    /\ UNCHANGED <<core, late, cookie, jar, history>>

VisitLogin(v) == \E u \in Users : Arrive(v, [Idle EXCEPT !.page = "login", !.user = u])
VisitLogout(v) == Arrive(v, [Idle EXCEPT !.page = "logout"])
VisitSchedule(v) == Arrive(v, [Idle EXCEPT !.page = "schedule"])
VisitCreate(v) ==
    \E s \in Servers : Arrive(v, [Idle EXCEPT !.page = "create", !.server = s])
VisitEdit(v) == \E p \in PlanIds : Arrive(v, [Idle EXCEPT !.page = "edit", !.plan = p])
VisitCancel(v) == \E p \in PlanIds : Arrive(v, [Idle EXCEPT !.page = "cancel", !.plan = p])
VisitProvision(v) ==
    \E u \in Users : Arrive(v, [Idle EXCEPT !.page = "provision", !.user = u])
VisitPassword(v) ==
    \E u \in Users : Arrive(v, [Idle EXCEPT !.page = "password", !.user = u])
VisitToggle(v) ==
    \E u \in Users, flag \in BOOLEAN :
        Arrive(v, [Idle EXCEPT !.page = "toggle", !.user = u, !.enabled = flag])

\* Core answers a reading call, or refuses it: 401.
Read(v, q) ==
    /\ \/ Actor(visit[v]) # None /\ Hold(v, q)
       \/ Actor(visit[v]) = None /\ Hold(v, Page(visit[v], "refused"))
    /\ UNCHANGED <<core, late, cookie, jar, history>>

\* Where a page goes once get_current_viewer and its own first checks have passed.
FirstCall(q) ==
    CASE q.page = "schedule" -> "list_servers"
      [] q.page = "create" -> "list_servers"
      [] q.page = "edit" -> "get_plan"
      [] q.page = "cancel" -> "cancel_plan"
      [] q.page = "provision" -> "create_user"
      [] q.page = "password" -> "set_password"
      [] q.page = "toggle" -> "update_user"

\* The role that require_admin_viewer looks at is the one of this answer. Nobody can
\* disable the own account.
Me(v) ==
    LET q == visit[v]
        role == users[Actor(q)].role
        known == [q EXCEPT !.viewer = Actor(q), !.role = role, !.at = FirstCall(q)]
    IN  /\ q.at = "me"
        /\ IF q.token = None
           THEN Hold(v, Page(q, "refused")) /\ UNCHANGED <<core, late, cookie, jar, history>>
           ELSE Read(v, IF \/ q.page \in AdminPages /\ role # "admin"
                           \/ q.page = "toggle" /\ ~q.enabled /\ q.user = Actor(q)
                        THEN Page(known, "refused") ELSE known)

\* Core answers the writing call: go on as q, or refused as r.
Answered(v, q, r) ==
    /\ \/ Execute(v, visit[v]) /\ Hold(v, q)
       \/ ~Accepted(visit[v]) /\ Hold(v, r) /\ UNCHANGED <<core, history>>
    /\ UNCHANGED late

\* The one call of a page, with a redirect when it is accepted.
LastCall(v, call) ==
    /\ visit[v].at = call
    /\ Answered(v, Page(visit[v], "success"), Page(visit[v], "refused"))
    /\ UNCHANGED <<cookie, jar>>

SetPassword(v) == LastCall(v, "set_password")
UpdateUser(v) == LastCall(v, "update_user")
UpdatePlan(v) == LastCall(v, "update_plan")
CancelPlan(v) == LastCall(v, "cancel_plan")

Login(v) ==
    /\ visit[v].at = "login"
    /\ Answered(v, Page(visit[v], "success"), Page(visit[v], "refused"))
    /\ IF Accepted(visit[v])
       THEN cookie' = [cookie EXCEPT ![visit[v].browser] = v] /\ jar' = v
       ELSE UNCHANGED <<cookie, jar>>

\* Variant: the token of the browser is not passed on.
LogoutWithoutCall(v) ==
    /\ visit[v].at = "logout"
    /\ Hold(v, Page(visit[v], "success"))
    /\ cookie' = [cookie EXCEPT ![visit[v].browser] = None]
    /\ UNCHANGED <<core, late, jar, history>>

\* The browser's cookie is deleted whatever Core answers; the client's when Core says so.
Logout(v) ==
    /\ visit[v].at = "logout"
    /\ \/ /\ visit[v].token = None
          /\ Hold(v, Page(visit[v], "success"))
          /\ UNCHANGED <<core, late, jar, history>>
       \/ /\ visit[v].token # None
          /\ Answered(v, Page(visit[v], "success"), Page(visit[v], "refused"))
          /\ jar' = (IF Accepted(visit[v]) THEN None ELSE jar)
    /\ cookie' = [cookie EXCEPT ![visit[v].browser] = None]

\* Variant: the account is all there is to it.
CreateUserOnly(v) ==
    /\ visit[v].at = "create_user"
    /\ Answered(v, Page(visit[v], "success"), Page(visit[v], "refused"))
    /\ UNCHANGED <<cookie, jar>>

\* provision_user: the account first, its password in a second call.
CreateUser(v) ==
    /\ visit[v].at = "create_user"
    /\ Answered(v, [visit[v] EXCEPT !.at = "set_password"], Page(visit[v], "refused"))
    /\ UNCHANGED <<cookie, jar>>

\* The schedule: servers, users, plans, and one call per plan for its overlaps.
ListServers(v) ==
    LET q == visit[v]
    IN  /\ q.at = "list_servers"
        /\ q.page = "schedule"
        /\ Read(v, [q EXCEPT !.servers = servers, !.at = "list_users"])

ListUsers(v) ==
    /\ visit[v].at = "list_users"
    /\ Read(v, [visit[v] EXCEPT !.at = "list_plans"])

ListPlans(v) ==
    /\ visit[v].at = "list_plans"
    /\ Read(v, [visit[v] EXCEPT !.rows = {p \in PlanIds : Uncancelled(p)},
                                !.at = "list_conflicts"])

\* Variant: an overlap that has been seen from one side is not asked for from the other.
ListConflictsOnce(v) ==
    LET q == visit[v]
    IN  /\ q.at = "list_conflicts"
        /\ \E p \in q.rows \ q.asked :
             Read(v, [q EXCEPT !.asked = @ \cup {p},
                               !.marks = IF \E r \in q.rows \ q.asked : Overlap(p, r)
                                         THEN @ \cup {p} ELSE @])

ListConflicts(v) ==
    LET q == visit[v]
    IN  /\ q.at = "list_conflicts"
        /\ \E p \in q.rows \ q.asked :
             Read(v, [q EXCEPT !.asked = @ \cup {p},
                               !.marks = IF \E r \in PlanIds : Overlap(p, r)
                                         THEN @ \cup {p} ELSE @])

\* A row whose server is not among those that were listed is in no group.
Shown(q) == {p \in q.rows : plans[p].server \in q.servers}

ShowSchedule(v) ==
    LET q == visit[v]
    IN  /\ q.at = "list_conflicts"
        /\ q.rows \subseteq q.asked
        /\ Hold(v, [Page(q, "success") EXCEPT !.rows = Shown(q)])
        /\ UNCHANGED <<core, late, cookie, jar, history>>

\* create_planned_use: the server's id is looked up by its key.
FindServer(v) ==
    LET q == visit[v]
    IN  /\ q.at = "list_servers"
        /\ q.page = "create"
        /\ Read(v, IF q.server \in servers THEN [q EXCEPT !.at = "create_plan"]
                   ELSE Page(q, "refused"))

\* When it is refused, the form is shown again, above a schedule that is read anew.
CreatePlan(v) ==
    LET q == visit[v]
    IN  /\ q.at = "create_plan"
        /\ Answered(v, Page(q, "success"), [q EXCEPT !.at = "render", !.result = "refused"])
        /\ UNCHANGED <<cookie, jar>>

Render(v) ==
    /\ visit[v].at = "render"
    /\ Read(v, Page(visit[v], visit[v].result))

MayChange(q, p) == q.role = "admin" \/ plans[p].owner = q.viewer

\* _load_changeable_plan and the refusal of cancelled plans, for the form and again
\* when it is submitted; then PlanUpdate refuses a window that does not end after it starts.
GetPlan(v) ==
    LET q == visit[v]
    IN  /\ q.at = "get_plan"
        /\ Read(v, IF ~Uncancelled(q.plan) THEN Page(q, "refused")
                   ELSE IF ~MayChange(q, q.plan) THEN Page(q, "refused")
                   ELSE IF q.form = None THEN [q EXCEPT !.form = plans[q.plan], !.at = "typing"]
                   ELSE IF PostedStart(q) < PostedEnd(q) THEN [q EXCEPT !.at = "update_plan"]
                   ELSE Page(q, "refused"))

\* The form comes back, with whatever cookie the browser has by then.
Submit(v) ==
    /\ visit[v].at = "typing"
    /\ \E edit \in Edits :
         Hold(v, [visit[v] EXCEPT !.edit = edit, !.token = cookie[visit[v].browser],
                                  !.viewer = None, !.role = None, !.at = "me"])
    /\ UNCHANGED <<core, late, cookie, jar, history>>

\* Variant: the client sends a call again that was not answered in time.
GiveUpRetrying(v) ==
    LET q == visit[v]
    IN  /\ q.at \in Writes
        /\ late' = [late EXCEPT ![v] = q]
        /\ UNCHANGED <<core, visit, cookie, jar, history>>

\* CoreUnavailableError: no connection, or no answer within the timeout. A call that
\* writes may still be executed. Logout goes on; the form of create is shown again.
GiveUp(v) ==
    LET q == visit[v]
    IN  /\ q.at \in Reads \cup Writes
        /\ q.at \in {"me", "logout"} => q.token # None
        /\ Hold(v, IF q.at = "create_plan" THEN [q EXCEPT !.at = "render", !.result = "unavailable"]
                   ELSE Page(q, "unavailable"))
        /\ late' = (IF q.at \in Writes THEN [late EXCEPT ![v] = q] ELSE late)
        /\ cookie' = (IF q.at = "logout" THEN [cookie EXCEPT ![q.browser] = None] ELSE cookie)
        /\ UNCHANGED <<core, jar, history>>

Click(v) ==
    \/ VisitLogin(v)
    \/ VisitLogout(v)
    \/ VisitSchedule(v)
    \/ VisitCreate(v)
    \/ VisitEdit(v)
    \/ VisitCancel(v)
    \/ VisitProvision(v)
    \/ VisitPassword(v)
    \/ VisitToggle(v)
    \/ Submit(v)

Serve(v) ==
    \/ Me(v)
    \/ Login(v)
    \/ Logout(v)
    \/ CreateUser(v)
    \/ SetPassword(v)
    \/ UpdateUser(v)
    \/ ListServers(v)
    \/ ListUsers(v)
    \/ ListPlans(v)
    \/ ListConflicts(v)
    \/ ShowSchedule(v)
    \/ FindServer(v)
    \/ CreatePlan(v)
    \/ Render(v)
    \/ GetPlan(v)
    \/ UpdatePlan(v)
    \/ CancelPlan(v)
    \/ GiveUp(v)

Next ==
    \/ \E v \in Visits : Click(v) \/ Serve(v) \/ Late(v)
    \/ \E t \in Tokens : Expire(t)
    \/ \E s \in NewServers : ServerCreated(s)

Spec == Init /\ [][Next]_vars

-----------------------------------------------------------------------------
(* Properties.                                                             *)

\* What the success page of a visit announces.
Announced(q) ==
    CASE q.page = "login" -> <<"login">>
      [] q.page = "create" -> <<"create_plan">>
      [] q.page = "edit" -> <<"update_plan">>
      [] q.page = "cancel" -> <<"cancel_plan">>
      [] q.page = "provision" -> <<"create_user", "set_password">>
      [] q.page = "password" -> <<"set_password">>
      [] q.page = "toggle" -> <<"update_user">>
      [] OTHER -> <<>>

Calls(v) == [k \in DOMAIN did[v] |-> did[v][k].call]

\* The user whose login has given out a token.
LoggedIn(t) == IF t \in Browsers THEN FirstLogins[t] ELSE visit[t].user

\* What a page says has happened has happened, once, whatever was late or lost. Where it
\* says that Core has refused, nothing has, but for the account whose password was refused,
\* and but for a plan whose creation was given up before the session ended.
PageTellsTheTruth ==
    \A v \in Visits :
        LET q == visit[v]
        IN  q.at = "page" /\ q.page # "logout" =>
              /\ q.result = "success" => Calls(v) = Announced(q)
              /\ q.result = "refused" =>
                   \/ Calls(v) = <<>>
                   \/ q.page = "provision" /\ Calls(v) = <<"create_user">>
                   \/ q.page = "create" /\ Calls(v) = <<"create_plan">>

\* One client serves all browsers, and its jar holds the cookie of whoever logged in last:
\* still a call is only ever executed as the user who has logged in on the own browser.
CallsAsTheVisitor ==
    \A v \in Visits : \A k \in DOMAIN did[v] :
        did[v][k].actor = IF visit[v].page = "login" THEN visit[v].user
                          ELSE LoggedIn(visit[v].token)

\* An account that nobody can log in to is one whose provisioning is still under way or
\* has ended with an error page.
NobodyWithoutPassword ==
    \A u \in Users : users[u] # None /\ ~users[u].password =>
        \E v \in Visits : /\ visit[v].page = "provision"
                         /\ visit[v].user = u
                         /\ \/ visit[v].at = "set_password"
                            \/ visit[v].result \in {"refused", "unavailable"}

\* A session that is open although no browser has its cookie: its login was given up, its
\* logout was given up or refused because the account is disabled, or another login or
\* logout on the same browser has replaced or dropped the cookie.
OpenSessionsExplained ==
    \A t \in Tokens : sessions[t] # None /\ (\A b \in Browsers : cookie[b] # t) =>
        \E v \in Visits :
            LET q == visit[v]
            IN  /\ q.at = "page"
                /\ IF v = t THEN q.result = "unavailable"
                   ELSE /\ q.browser = (IF t \in Browsers THEN t ELSE visit[t].browser)
                        /\ \/ q.page = "login" /\ q.result = "success"
                           \/ q.page = "logout" /\ (q.result # "success" \/ q.token # t)

\* The schedule is put together from several answers. Every plan that stood still since
\* the visit began is there, marked when it overlaps another that stood still, and a mark
\* has a reason; no plan is there that was cancelled all along.
ScheduleShowsWhatStood ==
    \A v \in Visits :
        LET q == visit[v]
            stood(p) == plans[p] # None /\ p \notin touched[v]
        IN  q.page = "schedule" /\ q.result = "success" =>
              \A p \in PlanIds : stood(p) =>
                /\ p \in q.rows <=> ~plans[p].cancelled
                /\ \A r \in PlanIds : p \in q.rows /\ stood(r) /\ Overlap(p, r) => p \in q.marks
                /\ p \in q.marks =>
                     \E r \in PlanIds : Overlap(p, r) \/ r \in touched[v]

CancelledOnly(q, p) ==
    q.at = "cancel_plan" /\ plans'[p] = [plans[p] EXCEPT !.cancelled = TRUE]

\* Texts that no minute has, and texts that two minutes have.
Skipped(w) == \A m \in {w, w - Saving} : Wall(m) # w
Repeated(w) == Saving # 0 /\ \A m \in {w, w - Saving} : Wall(m) = w

\* The clock shows the time that was typed, later by the hour that was skipped if there was
\* no such time. A time that was left alone is the one that the form was opened with, but
\* for the seconds and for the other one of two repeated minutes.
TimeAsTyped(typed, shown, new) ==
    IF typed # Unset
    THEN Text(new) = typed \/ (Skipped(typed) /\ Text(new) = typed + Saving)
    ELSE \/ new = (shown \div Seconds) * Seconds
         \/ Repeated(Text(shown)) /\ Text(new) = Text(shown)

\* An edit changes what was typed. A note that was left alone or emptied keeps its value,
\* unless somebody has changed it since the form was shown.
EditedOnly(q, p) ==
    LET old == plans[p]
        new == plans'[p]
    IN  /\ q.at = "update_plan"
        /\ new = [old EXCEPT !.start = new.start, !.end = new.end, !.note = new.note]
        /\ new.start < new.end
        /\ TimeAsTyped(q.edit.start, q.form.start, new.start)
        /\ TimeAsTyped(q.edit.end, q.form.end, new.end)
        /\ IF q.edit.note \in Notes THEN new.note = q.edit.note
           ELSE new.note = old.note \/ (old.note # q.form.note /\ q.edit.note = Unset)

\* A plan changes only by a visit that asks for it, and only in what was asked for; a
\* cancelled plan stays cancelled, also under an edit that has checked it before. What the
\* form does to a time that nobody touched is bounded: seconds go, and when summer time ends
\* the repeated time of day is taken for its first occurrence.
PlansChangeAsTyped ==
    [][\A p \in PlanIds : plans[p] # None /\ plans'[p] # plans[p] =>
          \E v \in Visits : \E q \in {visit[v], late[v]} \ {None} :
              q.plan = p /\ (CancelledOnly(q, p) \/ EditedOnly(q, p))]_vars
=============================================================================
