---------------------------- MODULE PlanService ----------------------------
(***************************************************************************)
(* The writing handlers of the Core's PlanService, served by the thread    *)
(* pool over one SQLite file. A request holds a session of its own, and    *)
(* SQLite opens a transaction for it only at the first INSERT or UPDATE,   *)
(* which the flush inside commit() sends. So every SELECT of a handler is  *)
(* a step that sees the rows committed at that moment, and commit() is one *)
(* step that writes the plan row and its audit event together.             *)
(*                                                                         *)
(* The repositories hand out frozen copies, so save() selects the row a    *)
(* second time, assigns every column of the copy to it, and the UPDATE     *)
(* names the columns that came out different from that second reading. A   *)
(* datetime read back from SQLite has no time zone and never equals the    *)
(* aware value assigned to it: datetime columns are always in the UPDATE,  *)
(* unless both are NULL.                                                   *)
(***************************************************************************)
EXTENDS PlanData

CONSTANT Admins    \* the users that are administrators at the start

VARIABLES
    users,     \* users table: role and enabled flag
    servers,   \* managed_servers table: absent, enabled or disabled
    plans,     \* plan_entries table
    audits,    \* audit_events table, the events on plan entries
    req,       \* what each request's thread holds
    clock      \* how often a handler has read the clock

vars == <<users, servers, plans, audits, req, clock>>

Roles == {"member", "admin"}
UserRow == [role : Roles, enabled : BOOLEAN]
ServerStates == {"absent", "enabled", "disabled"}
Operations == {"create", "update", "cancel"}
ActionOf == [create |-> "created", update |-> "updated", cancel |-> "cancelled"]

InFlight == {"actor", "server", "plan", "save", "commit"}
Ended == {"done", "failed"}

AuditEvent ==
    [id : Requests, entity_id : Requests, action : {ActionOf[o] : o \in Operations},
     actor_id : Users, occurred_at : Stamps]

\* row is the entity the handler works on: the copy it read, then the version it
\* is going to write. seen is the second reading, made by save().
Request ==
    [pc : {"idle"} \cup InFlight \cup Ended,
     op : Operations \cup {None}, plan : Requests \cup {None},
     body : PlanCreates \cup PlanUpdates \cup {None},
     actor : Users \cup {None}, role : Roles \cup {None},
     row : PlanRow \cup {None}, seen : PlanRow \cup {None}]

Idle == [pc |-> "idle", op |-> None, plan |-> None, body |-> None,
         actor |-> None, role |-> None, row |-> None, seen |-> None]

TypeOK ==
    /\ users \in [Users -> UserRow]
    /\ servers \in [Servers -> ServerStates]
    /\ plans \in [Requests -> PlanRow \cup {None}]
    /\ audits \subseteq AuditEvent
    /\ req \in [Requests -> Request]
    /\ clock \in Nat

Init ==
    /\ users = [u \in Users |->
                  [role |-> IF u \in Admins THEN "admin" ELSE "member", enabled |-> TRUE]]
    /\ servers = [s \in Servers |-> "absent"]
    /\ plans = [p \in Requests |-> None]
    /\ audits = {}
    /\ req = [r \in Requests |-> Idle]
    /\ clock = 0

-----------------------------------------------------------------------------
(* Steps of one request's thread.                                          *)

\* The row of the plan that a request is about, as it is committed now.
Plan(r) == plans[req[r].plan]

\* A handler that answers normally. What it held in memory goes with its session.
Answer(r) ==
    req' = [req EXCEPT ![r].pc = "done", ![r].body = None, ![r].row = None, ![r].seen = None]

\* A handler that raises: __exit__ rolls back, nothing of the request is left.
Refuse(r) ==
    /\ req' = [req EXCEPT ![r] = [Idle EXCEPT !.pc = "failed"]]
    /\ UNCHANGED <<users, servers, plans, audits, clock>>

\* get_current_actor: the session names the user, and the stored role goes into
\* the CurrentActor that the handler is called with.
Receive(r, op, p, body) ==
    /\ req[r].pc = "idle"
    /\ \E u \in Users :
         /\ users[u].enabled
         /\ req' = [req EXCEPT ![r] =
                       [pc |-> "actor", op |-> op, plan |-> p, body |-> body,
                        actor |-> u, role |-> users[u].role, row |-> None, seen |-> None]]
    /\ UNCHANGED <<users, servers, plans, audits, clock>>

ReceiveCreate(r) == \E body \in PlanCreates : Receive(r, "create", r, body)
ReceiveUpdate(r) ==
    \E p \in Requests, body \in PlanUpdates : Receive(r, "update", p, body)
ReceiveCancel(r) == \E p \in Requests : Receive(r, "cancel", p, None)

\* require_active_actor against the users row as it is now.
ActorIsActive(q) == users[q.actor].enabled /\ users[q.actor].role = q.role

CheckActor(r) ==
    /\ req[r].pc = "actor"
    /\ \/ /\ ActorIsActive(req[r])
          /\ req' = [req EXCEPT ![r].pc =
                        IF req[r].op = "create" THEN "server" ELSE "plan"]
          /\ UNCHANGED <<users, servers, plans, audits, clock>>
       \/ /\ ~ActorIsActive(req[r])
          /\ Refuse(r)

\* The clock is read and the new version of the entity is built in memory.
Stage(r, row, next) ==
    /\ req' = [req EXCEPT ![r].pc = next, ![r].row = row, ![r].body = None]
    /\ clock' = clock + 1
    /\ UNCHANGED <<users, servers, plans, audits>>

\* create: the target server is read, the new entity built. Overlaps with other
\* plans are computed next and thrown away.
CreateOnServer(r) ==
    /\ req[r].pc = "server"
    /\ req[r].op = "create"
    /\ \/ /\ servers[req[r].body.server_id] = "enabled"
          /\ Stage(r, NewRow(req[r].body, req[r].actor, clock), "commit")
       \/ /\ servers[req[r].body.server_id] # "enabled"
          /\ Refuse(r)

\* Variant: no ownership check.
MayWriteAny(q, row) == TRUE

\* require_self_or_admin, with the role the request came with.
MayWrite(q, row) == q.role = "admin" \/ q.actor = row.owner_id

\* Variant: only the body was validated, by the contract, not the merged plan.
StageUnvalidated(r, row) == Stage(r, Merge(row, req[r].body, clock), "save")

\* update, from the merge on: the merged entity is validated before it is saved.
StageMerged(r, row) ==
    LET merged == Merge(row, req[r].body, clock)
    IN  \/ Valid(merged) /\ Stage(r, merged, "save")
        \/ ~Valid(merged) /\ Refuse(r)

\* update and cancel read the plan: 404, or 403 for somebody else's.
RefusePlan(r) ==
    /\ req[r].pc = "plan"
    /\ \/ Plan(r) = None
       \/ Plan(r) # None /\ ~MayWrite(req[r], Plan(r))
    /\ Refuse(r)

UpdatePlan(r) ==
    /\ req[r].pc = "plan"
    /\ req[r].op = "update"
    /\ Plan(r) # None
    /\ MayWrite(req[r], Plan(r))
    /\ \/ /\ Nulled(req[r].body)
          /\ Refuse(r)
       \/ /\ ~Nulled(req[r].body)
          /\ Moves(Plan(r), req[r].body)
          /\ req' = [req EXCEPT ![r].pc = "server", ![r].row = Plan(r)]
          /\ UNCHANGED <<users, servers, plans, audits, clock>>
       \/ /\ ~Nulled(req[r].body)
          /\ ~Moves(Plan(r), req[r].body)
          /\ StageMerged(r, Plan(r))

\* update that moves the plan: the new server must exist and be enabled.
MoveToServer(r) ==
    /\ req[r].pc = "server"
    /\ req[r].op = "update"
    /\ \/ /\ servers[req[r].body.server_id] = "enabled"
          /\ StageMerged(r, req[r].row)
       \/ /\ servers[req[r].body.server_id] # "enabled"
          /\ Refuse(r)

\* Variant: every cancel stamps the plan.
CancelPlanAgain(r) ==
    /\ req[r].pc = "plan"
    /\ req[r].op = "cancel"
    /\ Plan(r) # None
    /\ MayWrite(req[r], Plan(r))
    /\ Stage(r, Cancelled(Plan(r), clock), "save")

\* cancel: a plan that was read as cancelled is answered as it is.
CancelPlan(r) ==
    /\ req[r].pc = "plan"
    /\ req[r].op = "cancel"
    /\ Plan(r) # None
    /\ MayWrite(req[r], Plan(r))
    /\ \/ /\ Plan(r).cancelled_at # None
          /\ Answer(r)
          /\ UNCHANGED <<users, servers, plans, audits, clock>>
       \/ /\ Plan(r).cancelled_at = None
          /\ Stage(r, Cancelled(Plan(r), clock), "save")

\* PlanRepository.save: the second reading. Nothing is sent to the database yet.
Save(r) ==
    /\ req[r].pc = "save"
    /\ req' = [req EXCEPT ![r].pc = "commit", ![r].seen = Plan(r)]
    /\ UNCHANGED <<users, servers, plans, audits, clock>>

\* What the UPDATE leaves in a column that holds now: the value assigned to it,
\* when it differs from the second reading.
Column(now, seen, assigned) == IF seen = assigned THEN now ELSE assigned

\* Variant: datetimes survive the round trip through SQLite, so that equal ones compare equal.
DateColumnByValue(now, seen, assigned) == Column(now, seen, assigned)

DateColumn(now, seen, assigned) ==
    IF seen = None /\ assigned = None THEN now ELSE assigned

Flush(now, seen, row) ==
    [now EXCEPT !.owner_id     = Column(@, seen.owner_id, row.owner_id),
                !.server_id    = Column(@, seen.server_id, row.server_id),
                !.title        = Column(@, seen.title, row.title),
                !.start_at     = DateColumn(@, seen.start_at, row.start_at),
                !.end_at       = DateColumn(@, seen.end_at, row.end_at),
                !.gpu_count    = Column(@, seen.gpu_count, row.gpu_count),
                !.gpu_ids      = Column(@, seen.gpu_ids, row.gpu_ids),
                !.cancelled_at = DateColumn(@, seen.cancelled_at, row.cancelled_at),
                !.updated_at   = DateColumn(@, seen.updated_at, row.updated_at)]

\* Variant: the event reads the clock again.
EventStampedAgain(r) ==
    [id |-> r, entity_id |-> req[r].plan, action |-> ActionOf[req[r].op],
     actor_id |-> req[r].actor, occurred_at |-> clock]

Event(r) ==
    [id |-> r, entity_id |-> req[r].plan, action |-> ActionOf[req[r].op],
     actor_id |-> req[r].actor, occurred_at |-> req[r].row.updated_at]

\* Variant: the row is committed, its event never written.
CommitUnaudited(r) ==
    LET q == req[r]
    IN  /\ q.pc = "commit"
        /\ plans' = [plans EXCEPT ![q.plan] =
                        IF q.op = "create" THEN q.row ELSE Flush(@, q.seen, q.row)]
        /\ Answer(r)
        /\ UNCHANGED <<users, servers, audits, clock>>

\* commit(): the INSERT or UPDATE of the plan and the INSERT of the audit event
\* reach the file in one transaction.
Commit(r) ==
    LET q == req[r]
    IN  /\ q.pc = "commit"
        /\ plans' = [plans EXCEPT ![q.plan] =
                        IF q.op = "create" THEN q.row ELSE Flush(@, q.seen, q.row)]
        /\ audits' = audits \cup {Event(r)}
        /\ Answer(r)
        /\ UNCHANGED <<users, servers, clock>>

\* The request dies with what it has not committed: the file is locked for longer
\* than the driver waits, the pool gives no connection, or the process is killed.
Abort(r) ==
    /\ req[r].pc \in InFlight
    /\ Refuse(r)

-----------------------------------------------------------------------------
(* What other handlers commit to the rows that these handlers read.        *)

\* ServerService.create_server
ServerCreated(s) ==
    /\ servers[s] = "absent"
    /\ servers' \in {[servers EXCEPT ![s] = state] : state \in {"enabled", "disabled"}}
    /\ UNCHANGED <<users, plans, audits, req, clock>>

\* UserService.update_user: the saved row has another role or enabled flag.
UserRowSaved(u) ==
    /\ users' \in {[users EXCEPT ![u] = row] : row \in UserRow \ {users[u]}}
    /\ UNCHANGED <<servers, plans, audits, req, clock>>

Handle(r) ==
    \/ ReceiveCreate(r)
    \/ ReceiveUpdate(r)
    \/ ReceiveCancel(r)
    \/ CheckActor(r)
    \/ CreateOnServer(r)
    \/ RefusePlan(r)
    \/ UpdatePlan(r)
    \/ MoveToServer(r)
    \/ CancelPlan(r)
    \/ Save(r)
    \/ Commit(r)
    \/ Abort(r)

Next ==
    \/ \E r \in Requests : Handle(r)
    \/ \E s \in Servers : ServerCreated(s)
    \/ \E u \in Users : UserRowSaved(u)

Spec == Init /\ [][Next]_vars

-----------------------------------------------------------------------------
(* Properties.                                                             *)

\* No committed plan ends before it starts, although a PATCH may send one end of the
\* window only and is checked against a copy that may be out of date when it is written.
RowsValidWindow == \A p \in Requests : plans[p] # None => ValidWindow(plans[p])

\* Every committed plan is on a server that exists and is enabled: create and update
\* check the server they were given, in a step well before the commit.
RowsOnEnabledServers ==
    \A p \in Requests : plans[p] # None => servers[plans[p].server_id] = "enabled"

Occurred(p, action, stamp) ==
    \E a \in audits : /\ a.entity_id = p
                      /\ a.action = action
                      /\ a.occurred_at = stamp

\* The audit trail explains every committed row, whatever overlapped: who created it and
\* when, the last change, and a cancellation with the very stamp the row carries.
RowsExplainedByAudits ==
    /\ \A a \in audits : plans[a.entity_id] # None
    /\ \A p \in Requests : plans[p] # None =>
         LET row == plans[p]
         IN  /\ \E a \in audits : /\ a.entity_id = p
                                 /\ a.action = "created"
                                 /\ a.occurred_at = row.created_at
                                 /\ a.actor_id = row.owner_id
             /\ \E o \in Operations : Occurred(p, ActionOf[o], row.updated_at)
             /\ row.cancelled_at # None => Occurred(p, "cancelled", row.cancelled_at)

\* A request that was answered has its event; one that was refused or died has none. The
\* one answer without an event is the repeated cancel, and then another cancel has one.
AnswersAudited ==
    \A r \in Requests :
        /\ (\E a \in audits : a.id = r) => req[r].pc = "done"
        /\ req[r].pc = "done" =>
             \/ \E a \in audits : a.id = r
             \/ /\ req[r].op = "cancel"
                /\ \E a \in audits : a.entity_id = req[r].plan /\ a.action = "cancelled"

\* A committed row changes only together with a new event on it, by the owner or by a
\* user who was an administrator when the request came in.
ChangesAuditedAndAllowed ==
    [][\A p \in Requests : plans'[p] # plans[p] =>
          \E a \in audits' \ audits :
              /\ a.entity_id = p
              /\ a.actor_id = plans'[p].owner_id \/ req[a.id].role = "admin"]_vars

\* When a plan was cancelled, None for a plan that is not or does not exist.
CancelledAt(p) == IF plans[p] = None THEN None ELSE plans[p].cancelled_at

\* Documented for cancel: it sets the time once and keeps the first one.
CancelKeepsFirst ==
    [][\A p \in Requests :
          CancelledAt(p) # None => CancelledAt(p)' = CancelledAt(p)]_vars

Quiet == \A r \in Requests : req[r].pc \notin InFlight

\* Once no request is in flight, a cancellation is final: no later request changes it,
\* however the later ones overlap.
CancelFinalOnceQuiet ==
    \A p \in Requests, t \in 0 .. Cardinality(Requests) :
        [](Quiet /\ CancelledAt(p) = t => [](CancelledAt(p) = t))
=============================================================================
