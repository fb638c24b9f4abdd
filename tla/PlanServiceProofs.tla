------------------------- MODULE PlanServiceProofs -------------------------
(***************************************************************************)
(* Proofs about PlanService, for any sets of requests, users, servers and  *)
(* bodies. Windows and servers of committed plans are safe because every   *)
(* entity that a thread holds in memory is already valid and on an enabled *)
(* server (Staged), and because an UPDATE takes both ends of the window    *)
(* from one entity.                                                        *)
(***************************************************************************)
EXTENDS PlanService, TLAPS

\* A row that may be committed.
Sound(row) ==
    /\ row \in PlanRow
    /\ ValidWindow(row)
    /\ servers[row.server_id] = "enabled"

\* The request holds an entity that was read from, or goes into, the plans table.
HoldsPlan(q) == q.pc \in {"save", "commit"} \/ (q.pc = "server" /\ q.op = "update")

\* What a thread may rely on at each step of its handler.
Staged(r) ==
    /\ req[r].pc \in InFlight \cup {"done"} =>
          /\ req[r].op \in Operations
          /\ req[r].plan \in Requests
          /\ req[r].actor \in Users
    /\ req[r].pc \in InFlight \cup {"done"} /\ req[r].op = "create" => req[r].plan = r
    /\ req[r].pc \in {"actor", "plan", "server"} /\ req[r].op = "update" =>
          req[r].body \in PlanUpdates
    /\ req[r].pc \in {"actor", "server"} /\ req[r].op = "create" =>
          req[r].body \in PlanCreates
    /\ req[r].pc = "server" => req[r].op # "cancel"
    /\ req[r].pc = "server" /\ req[r].op = "update" => ~Nulled(req[r].body)
    /\ HoldsPlan(req[r]) => Sound(req[r].row)
    /\ HoldsPlan(req[r]) /\ req[r].op # "create" => plans[req[r].plan] # None
    /\ req[r].pc = "save" => req[r].op # "create"
    /\ req[r].pc = "commit" /\ req[r].op # "create" => req[r].seen \in PlanRow

Rows == \A p \in Requests : plans[p] # None => Sound(plans[p])

IInv == TypeOK /\ Rows /\ \A r \in Requests : Staged(r)

-----------------------------------------------------------------------------
(* The operators on rows.                                                  *)

\* A row made from a create body is a row, with the body's window.
LEMMA NewRowIsSound ==
    ASSUME NEW body \in PlanCreates, NEW u \in Users, NEW t \in Nat,
           servers[body.server_id] = "enabled"
    PROVE  Sound(NewRow(body, u, t))
BY BodiesAssumption
   DEF Sound, NewRow, PlanRow, CreateBody, Valid, ValidWindow, Stamps

\* A merge that names no null column gives a row, and moves it at most to the server
\* that the body names.
LEMMA MergeIsRow ==
    ASSUME NEW row \in PlanRow, NEW body \in PlanUpdates, NEW t \in Nat, ~Nulled(body)
    PROVE  /\ Merge(row, body, t) \in PlanRow
           /\ Merge(row, body, t).server_id = Given(body.server_id, row.server_id)
<1>1. body \in UpdateBody
    BY BodiesAssumption
<1>2. /\ Given(body.server_id, row.server_id) \in Servers
      /\ Given(body.title, row.title) \in Titles
      /\ Given(body.start_at, row.start_at) \in Nat
      /\ Given(body.end_at, row.end_at) \in Nat
      /\ Given(body.gpu_count, row.gpu_count) \in Counts
      /\ Given(body.gpu_ids, row.gpu_ids) \in GpuSets
    BY <1>1 DEF UpdateBody, PlanRow, Nulled, Given
<1>. QED
    BY <1>2 DEF Merge, PlanRow, Stamps

\* An UPDATE leaves a row, whatever the second reading was.
LEMMA FlushIsRow ==
    ASSUME NEW now \in PlanRow, NEW seen \in PlanRow, NEW row \in PlanRow
    PROVE  Flush(now, seen, row) \in PlanRow
<1>1. \A S, x, z : x \in S /\ z \in S => \A y : Column(x, y, z) \in S
    BY DEF Column
<1>2. \A S, x, z : x \in S /\ z \in S => \A y : DateColumn(x, y, z) \in S
    BY DEF DateColumn
<1>3. /\ Column(now.owner_id, seen.owner_id, row.owner_id) \in Users
      /\ Column(now.server_id, seen.server_id, row.server_id) \in Servers
      /\ Column(now.title, seen.title, row.title) \in Titles
      /\ Column(now.gpu_count, seen.gpu_count, row.gpu_count) \in Counts
      /\ Column(now.gpu_ids, seen.gpu_ids, row.gpu_ids) \in GpuSets
    BY <1>1 DEF PlanRow
<1>4. /\ DateColumn(now.start_at, seen.start_at, row.start_at) \in Nat
      /\ DateColumn(now.end_at, seen.end_at, row.end_at) \in Nat
      /\ DateColumn(now.cancelled_at, seen.cancelled_at, row.cancelled_at)
            \in Stamps \cup {None}
      /\ DateColumn(now.updated_at, seen.updated_at, row.updated_at) \in Stamps
    BY <1>2 DEF PlanRow
<1>. QED
    BY <1>3, <1>4 DEF Flush, PlanRow

\* The UPDATE of a sound entity over a sound row leaves a sound row.
LEMMA FlushIsSound ==
    ASSUME NEW now \in PlanRow, NEW seen \in PlanRow, NEW row \in PlanRow,
           Sound(now), Sound(row)
    PROVE  Sound(Flush(now, seen, row))
<1>1. row.start_at # None /\ row.end_at # None /\ row.updated_at # None
    BY SentinelsAssumption DEF PlanRow, Stamps
<1>2. Flush(now, seen, row) \in PlanRow
    BY FlushIsRow
<1>3. /\ Flush(now, seen, row).start_at = row.start_at
      /\ Flush(now, seen, row).end_at = row.end_at
    BY <1>1 DEF Flush, DateColumn, PlanRow
<1>4. Flush(now, seen, row).server_id \in {now.server_id, row.server_id}
    BY DEF Flush, Column, PlanRow
<1>. QED
    BY <1>2, <1>3, <1>4 DEF Sound, ValidWindow

\* Cancelling touches neither the window nor the server.
LEMMA CancelledIsSound ==
    ASSUME NEW row \in PlanRow, Sound(row), NEW t \in Nat
    PROVE  Sound(Cancelled(row, t))
BY DEF Sound, Cancelled, PlanRow, Stamps, ValidWindow
-----------------------------------------------------------------------------
(* Steps. A step of request r leaves what the other threads hold alone.    *)

\* Servers are never disabled and plans never deleted.
OnlyGrow ==
    /\ \A s \in Servers : servers[s] = "enabled" => servers'[s] = "enabled"
    /\ \A p \in Requests : plans[p] # None => plans'[p] # None

\* A thread that takes no step can still rely on what it relied on.
LEMMA OthersKeep ==
    ASSUME NEW q \in Requests, Staged(q), OnlyGrow, req'[q] = req[q]
    PROVE  Staged(q)'
BY DEF Staged, OnlyGrow, HoldsPlan, Sound, PlanRow, ValidWindow, InFlight

\* A request that fails leaves a blank record.
LEMMA RefuseKeeps ==
    ASSUME IInv, NEW r \in Requests, Refuse(r)
    PROVE  IInv'
<1>1. TypeOK'
    BY DEF IInv, TypeOK, Refuse, Request, Idle, Ended
<1>2. Rows'
    BY DEF IInv, Refuse, Rows, Sound, PlanRow, ValidWindow
<1>3. ASSUME NEW q \in Requests PROVE Staged(q)'
  <2>1. CASE q = r
      BY <2>1 DEF IInv, TypeOK, Refuse, Idle, Staged, HoldsPlan, InFlight
  <2>2. CASE q # r
      BY <2>2, OthersKeep DEF IInv, TypeOK, Refuse, OnlyGrow
  <2>. QED
      BY <2>1, <2>2
<1>. QED
    BY <1>1, <1>2, <1>3 DEF IInv

\* Putting a sound entity in place to be saved keeps the invariant.
LEMMA StageKeeps ==
    ASSUME IInv, NEW r \in Requests, NEW row, Sound(row),
           NEW next \in {"save", "commit"}, Stage(r, row, next),
           req[r].pc \in {"plan", "server"},
           next = "save" => req[r].op # "create" /\ Plan(r) # None,
           next = "commit" => req[r].op = "create"
    PROVE  IInv'
<1>1. TypeOK'
  <2>1. req[r] \in Request /\ row \in PlanRow /\ next \in InFlight
      BY DEF IInv, TypeOK, Sound, InFlight
  <2>2. [req[r] EXCEPT !.pc = next, !.row = row, !.body = None] \in Request
      BY <2>1 DEF Request
  <2>3. req' = [req EXCEPT ![r] = [req[r] EXCEPT !.pc = next, !.row = row, !.body = None]]
      BY DEF Stage
  <2>. QED
      BY <2>2, <2>3 DEF IInv, TypeOK, Stage
<1>2. Rows'
    BY DEF IInv, Stage, Rows, Sound, PlanRow, ValidWindow
<1>3. ASSUME NEW q \in Requests PROVE Staged(q)'
  <2>1. CASE q = r
    <3>1. /\ req'[r].pc = next /\ req'[r].row = row
          /\ req'[r].op = req[r].op /\ req'[r].plan = req[r].plan
          /\ req'[r].actor = req[r].actor
        BY DEF IInv, TypeOK, Request, Stage
    <3>2. Sound(row)'
        BY DEF Stage, Sound, PlanRow, ValidWindow
    <3>3. Staged(r)
        BY DEF IInv
    <3>4. plans' = plans
        BY DEF Stage
    <3>5. next = "commit" => req[r].op = "create"
        OBVIOUS
    <3>. QED
        BY <2>1, <3>1, <3>2, <3>3, <3>4, <3>5 DEF Staged, HoldsPlan, InFlight, Plan
  <2>2. CASE q # r
      BY <2>2, OthersKeep DEF IInv, TypeOK, Stage, OnlyGrow
  <2>. QED
      BY <2>1, <2>2
<1>. QED
    BY <1>1, <1>2, <1>3 DEF IInv
\* A step that changes only what r holds keeps the invariant if r can rely on it.
LEMMA LocalKeeps ==
    ASSUME IInv, NEW r \in Requests, NEW held \in Request,
           req' = [req EXCEPT ![r] = held],
           UNCHANGED <<users, servers, plans, audits, clock>>,
           Staged(r)'
    PROVE  IInv'
<1>1. TypeOK'
    BY DEF IInv, TypeOK
<1>2. Rows'
    BY DEF IInv, Rows, Sound, PlanRow, ValidWindow
<1>3. ASSUME NEW q \in Requests PROVE Staged(q)'
  <2>1. CASE q = r
      BY <2>1
  <2>2. CASE q # r
      BY <2>2, OthersKeep DEF IInv, TypeOK, OnlyGrow
  <2>. QED
      BY <2>1, <2>2
<1>. QED
    BY <1>1, <1>2, <1>3 DEF IInv

\* A request that comes in carries a body that the contract has accepted.
LEMMA ReceiveKeeps ==
    ASSUME IInv, NEW r \in Requests, NEW op \in Operations, NEW p \in Requests, NEW body,
           op = "create" => p = r /\ body \in PlanCreates,
           op = "update" => body \in PlanUpdates,
           op = "cancel" => body = None,
           Receive(r, op, p, body)
    PROVE  IInv'
<1>1. PICK u \in Users :
        req' = [req EXCEPT ![r] =
                  [pc |-> "actor", op |-> op, plan |-> p, body |-> body, actor |-> u,
                   role |-> users[u].role, row |-> None, seen |-> None]]
    BY DEF Receive
<1>. DEFINE held == [pc |-> "actor", op |-> op, plan |-> p, body |-> body, actor |-> u,
                     role |-> users[u].role, row |-> None, seen |-> None]
<1>2. body \in PlanCreates \cup PlanUpdates \cup {None}
    BY DEF Operations
<1>3. held \in Request
    BY <1>2 DEF IInv, TypeOK, UserRow, Request, InFlight
<1>4. req'[r] = held
    BY <1>1 DEF IInv, TypeOK
<1>5. Staged(r)'
    BY <1>4 DEF Staged, HoldsPlan, Operations
<1>. QED
    BY <1>1, <1>3, <1>5, LocalKeeps DEF Receive

LEMMA CheckActorKeeps ==
    ASSUME IInv, NEW r \in Requests, CheckActor(r)
    PROVE  IInv'
<1>1. CASE ActorIsActive(req[r])
  <2>. DEFINE next == IF req[r].op = "create" THEN "server" ELSE "plan"
              held == [req[r] EXCEPT !.pc = next]
  <2>1. req[r] \in Request /\ Staged(r)
      BY DEF IInv, TypeOK
  <2>2. held \in Request
      BY <2>1 DEF Request, InFlight
  <2>3. req' = [req EXCEPT ![r] = held] /\ UNCHANGED <<users, servers, plans, audits, clock>>
      BY <1>1 DEF CheckActor
  <2>4. /\ req'[r].pc = next /\ req'[r].op = req[r].op /\ req'[r].plan = req[r].plan
        /\ req'[r].body = req[r].body /\ req'[r].actor = req[r].actor
      BY <2>1, <2>3 DEF IInv, TypeOK, Request
  <2>5. req[r].pc = "actor"
      BY DEF CheckActor
  <2>6. Staged(r)'
      BY <2>1, <2>4, <2>5 DEF Staged, HoldsPlan, InFlight
  <2>. QED
      BY <2>2, <2>3, <2>6, LocalKeeps
<1>2. CASE ~ActorIsActive(req[r])
    BY <1>2, RefuseKeeps DEF CheckActor
<1>. QED
    BY <1>1, <1>2

LEMMA CreateOnServerKeeps ==
    ASSUME IInv, NEW r \in Requests, CreateOnServer(r)
    PROVE  IInv'
<1>1. CASE servers[req[r].body.server_id] = "enabled"
  <2>. DEFINE row == NewRow(req[r].body, req[r].actor, clock)
  <2>1. req[r].pc = "server" /\ req[r].op = "create" /\ Stage(r, row, "commit")
      BY <1>1 DEF CreateOnServer
  <2>2. req[r].body \in PlanCreates /\ req[r].actor \in Users /\ clock \in Nat
      BY <2>1 DEF IInv, TypeOK, Staged, InFlight
  <2>3. Sound(row)
      BY <1>1, <2>2, NewRowIsSound
  <2>. HIDE DEF row
  <2>. QED
      BY <2>1, <2>3, StageKeeps
<1>2. CASE servers[req[r].body.server_id] # "enabled"
    BY <1>2, RefuseKeeps DEF CreateOnServer
<1>. QED
    BY <1>1, <1>2

\* update, from the merge on: the plan as it was read and the server of the body, if it
\* names another one, are enough for the merged entity to be sound.
LEMMA StageMergedKeeps ==
    ASSUME IInv, NEW r \in Requests, NEW row \in PlanRow, Sound(row),
           req[r].pc \in {"plan", "server"}, req[r].op = "update",
           Plan(r) # None, ~Nulled(req[r].body),
           Moves(row, req[r].body) => servers[req[r].body.server_id] = "enabled",
           StageMerged(r, row)
    PROVE  IInv'
<1>. DEFINE merged == Merge(row, req[r].body, clock)
<1>1. CASE ~Valid(merged)
    BY <1>1, RefuseKeeps DEF StageMerged
<1>2. CASE Valid(merged)
  <2>1. req[r].body \in PlanUpdates /\ clock \in Nat
      BY DEF IInv, TypeOK, Staged
  <2>2. /\ merged \in PlanRow
        /\ merged.server_id = Given(req[r].body.server_id, row.server_id)
      BY <2>1, MergeIsRow
  <2>3. Sound(merged)
      BY <1>2, <2>2 DEF Sound, Valid, Given, Moves
  <2>4. Stage(r, merged, "save")
      BY <1>2 DEF StageMerged
  <2>. HIDE DEF merged
  <2>. QED
      BY <2>3, <2>4, StageKeeps
<1>. QED
    BY <1>1, <1>2
LEMMA UpdatePlanKeeps ==
    ASSUME IInv, NEW r \in Requests, UpdatePlan(r)
    PROVE  IInv'
<1>. DEFINE body == req[r].body
<1>1. /\ req[r].pc = "plan" /\ req[r].op = "update" /\ Plan(r) # None
      /\ req[r] \in Request /\ Staged(r)
    BY DEF IInv, TypeOK, UpdatePlan
<1>2. Sound(Plan(r)) /\ Plan(r) \in PlanRow
    BY <1>1 DEF IInv, Rows, Plan, Staged, InFlight, Sound
<1>3. CASE Nulled(body)
    BY <1>3, RefuseKeeps DEF UpdatePlan
<1>4. CASE ~Nulled(body) /\ Moves(Plan(r), body)
  <2>. DEFINE held == [req[r] EXCEPT !.pc = "server", !.row = Plan(r)]
  <2>1. req' = [req EXCEPT ![r] = held] /\ UNCHANGED <<users, servers, plans, audits, clock>>
      BY <1>4 DEF UpdatePlan
  <2>2. held \in Request
      BY <1>1, <1>2 DEF Request, InFlight
  <2>3. /\ req'[r].pc = "server" /\ req'[r].row = Plan(r) /\ req'[r].op = req[r].op
        /\ req'[r].plan = req[r].plan /\ req'[r].body = body
        /\ req'[r].actor = req[r].actor
      BY <1>1, <2>1 DEF IInv, TypeOK, Request
  <2>4. Sound(Plan(r))'
      BY <1>2, <2>1, <2>3 DEF Sound, Plan, PlanRow, ValidWindow
  <2>5. Staged(r)'
    <3>1. Sound(req[r].row)'
        BY <1>2, <2>1, <2>3 DEF Sound, PlanRow, ValidWindow
    <3>2. plans'[req'[r].plan] # None
        BY <1>1, <2>1, <2>3 DEF Plan
    <3>. QED
        BY <1>1, <1>4, <2>3, <3>1, <3>2 DEF Staged, HoldsPlan, InFlight
  <2>. QED
      BY <2>1, <2>2, <2>5, LocalKeeps
<1>5. CASE ~Nulled(body) /\ ~Moves(Plan(r), body)
    BY <1>1, <1>2, <1>5, StageMergedKeeps DEF UpdatePlan
<1>. QED
    BY <1>3, <1>4, <1>5

LEMMA MoveToServerKeeps ==
    ASSUME IInv, NEW r \in Requests, MoveToServer(r)
    PROVE  IInv'
<1>1. /\ req[r].pc = "server" /\ req[r].op = "update"
      /\ Sound(req[r].row) /\ req[r].row \in PlanRow
      /\ Plan(r) # None /\ ~Nulled(req[r].body)
    BY DEF IInv, MoveToServer, Staged, HoldsPlan, Sound, Plan
<1>2. CASE servers[req[r].body.server_id] = "enabled"
    BY <1>1, <1>2, StageMergedKeeps DEF MoveToServer
<1>3. CASE servers[req[r].body.server_id] # "enabled"
    BY <1>3, RefuseKeeps DEF MoveToServer
<1>. QED
    BY <1>2, <1>3

LEMMA CancelPlanKeeps ==
    ASSUME IInv, NEW r \in Requests, CancelPlan(r)
    PROVE  IInv'
<1>1. /\ req[r].pc = "plan" /\ req[r].op = "cancel" /\ Plan(r) # None
      /\ req[r] \in Request /\ Staged(r)
    BY DEF IInv, TypeOK, CancelPlan
<1>2. CASE Plan(r).cancelled_at # None
  <2>. DEFINE held == [req[r] EXCEPT !.pc = "done", !.body = None, !.row = None, !.seen = None]
  <2>1. req' = [req EXCEPT ![r] = held] /\ UNCHANGED <<users, servers, plans, audits, clock>>
      BY <1>2 DEF CancelPlan, Answer
  <2>2. held \in Request
      BY <1>1 DEF Request, Ended
  <2>3. /\ req'[r].pc = "done" /\ req'[r].op = req[r].op
        /\ req'[r].plan = req[r].plan /\ req'[r].actor = req[r].actor
      BY <1>1, <2>1 DEF IInv, TypeOK, Request
  <2>4. Staged(r)'
      BY <1>1, <2>3 DEF Staged, HoldsPlan, InFlight
  <2>. QED
      BY <2>1, <2>2, <2>4, LocalKeeps
<1>3. CASE Plan(r).cancelled_at = None
  <2>. DEFINE row == Cancelled(Plan(r), clock)
  <2>1. Sound(Plan(r)) /\ Plan(r) \in PlanRow /\ clock \in Nat
      BY <1>1 DEF IInv, TypeOK, Rows, Plan, Staged, InFlight, Sound
  <2>2. Sound(row)
      BY <2>1, CancelledIsSound
  <2>3. Stage(r, row, "save")
      BY <1>3 DEF CancelPlan
  <2>. HIDE DEF row
  <2>. QED
      BY <1>1, <2>2, <2>3, StageKeeps
<1>. QED
    BY <1>2, <1>3

LEMMA SaveKeeps ==
    ASSUME IInv, NEW r \in Requests, Save(r)
    PROVE  IInv'
<1>. DEFINE held == [req[r] EXCEPT !.pc = "commit", !.seen = Plan(r)]
<1>1. /\ req[r].pc = "save" /\ req[r].op # "create" /\ Plan(r) # None
      /\ req[r] \in Request /\ Staged(r) /\ Sound(req[r].row)
    BY DEF IInv, TypeOK, Save, Staged, HoldsPlan, Plan
<1>2. Plan(r) \in PlanRow
    BY <1>1 DEF IInv, TypeOK, Rows, Plan, Staged, InFlight, Sound
<1>3. req' = [req EXCEPT ![r] = held] /\ UNCHANGED <<users, servers, plans, audits, clock>>
    BY DEF Save
<1>4. held \in Request
    BY <1>1, <1>2 DEF Request, InFlight
<1>5. /\ req'[r].pc = "commit" /\ req'[r].seen = Plan(r) /\ req'[r].row = req[r].row
      /\ req'[r].op = req[r].op /\ req'[r].plan = req[r].plan
      /\ req'[r].actor = req[r].actor
    BY <1>1, <1>3 DEF IInv, TypeOK, Request
<1>6. Sound(req[r].row)'
    BY <1>1, <1>3, <1>5 DEF Sound, PlanRow, ValidWindow
<1>7. plans'[req'[r].plan] # None
    BY <1>1, <1>3, <1>5 DEF Plan
<1>8. Staged(r)'
    BY <1>1, <1>2, <1>5, <1>6, <1>7 DEF Staged, HoldsPlan, InFlight
<1>. QED
    BY <1>3, <1>4, <1>8, LocalKeeps

LEMMA CommitKeeps ==
    ASSUME IInv, NEW r \in Requests, Commit(r)
    PROVE  IInv'
<1>. DEFINE q == req[r]
            held == [q EXCEPT !.pc = "done", !.body = None, !.row = None, !.seen = None]
            written == IF q.op = "create" THEN q.row ELSE Flush(Plan(r), q.seen, q.row)
<1>1. /\ q.pc = "commit" /\ q \in Request /\ Staged(r) /\ Sound(q.row)
      /\ q.row \in PlanRow /\ q.plan \in Requests /\ q.op \in Operations
      /\ q.actor \in Users
    BY DEF IInv, TypeOK, Commit, Staged, HoldsPlan, InFlight, Sound
<1>2. Sound(written) /\ written \in PlanRow
  <2>1. CASE q.op = "create"
      BY <1>1, <2>1
  <2>2. CASE q.op # "create"
    <3>1. Sound(Plan(r)) /\ Plan(r) \in PlanRow /\ q.seen \in PlanRow
        BY <1>1, <2>2 DEF IInv, Rows, Plan, Staged, HoldsPlan, Sound
    <3>2. Sound(Flush(Plan(r), q.seen, q.row))
        BY <1>1, <3>1, FlushIsSound
    <3>. QED
        BY <2>2, <3>2 DEF Sound
  <2>. QED
      BY <2>1, <2>2
<1>3. /\ plans' = [plans EXCEPT ![q.plan] = written]
      /\ audits' = audits \cup {Event(r)}
      /\ req' = [req EXCEPT ![r] = held]
      /\ UNCHANGED <<users, servers, clock>>
    BY DEF Commit, Answer, Plan
<1>. HIDE DEF written
<1>4. written # None
    BY <1>2, SentinelsAssumption
<1>5. Event(r) \in AuditEvent
    BY <1>1 DEF Event, AuditEvent, PlanRow
<1>6. held \in Request
    BY <1>1 DEF Request, Ended
<1>7. TypeOK'
    BY <1>1, <1>2, <1>3, <1>5, <1>6 DEF IInv, TypeOK
<1>8. OnlyGrow
    BY <1>3, <1>4 DEF IInv, TypeOK, OnlyGrow
<1>9. Rows'
  <2>1. ASSUME NEW p \in Requests, plans'[p] # None PROVE Sound(plans'[p])
      BY <1>2, <1>3, <2>1 DEF IInv, TypeOK, Rows
  <2>. QED
      BY <1>3, <2>1 DEF Rows, Sound, PlanRow, ValidWindow
<1>10. ASSUME NEW s \in Requests PROVE Staged(s)'
  <2>1. CASE s = r
    <3>1. /\ req'[r].pc = "done" /\ req'[r].op = q.op /\ req'[r].plan = q.plan
          /\ req'[r].actor = q.actor
        BY <1>1, <1>3 DEF IInv, TypeOK, Request
    <3>. QED
        BY <1>1, <2>1, <3>1 DEF Staged, HoldsPlan, InFlight
  <2>2. CASE s # r
      BY <1>3, <1>8, <2>2, OthersKeep DEF IInv, TypeOK
  <2>. QED
      BY <2>1, <2>2
<1>. QED
    BY <1>7, <1>9, <1>10 DEF IInv

LEMMA ServerCreatedKeeps ==
    ASSUME IInv, NEW s \in Servers, ServerCreated(s)
    PROVE  IInv'
<1>1. OnlyGrow /\ req' = req
    BY DEF IInv, TypeOK, ServerCreated, OnlyGrow, ServerStates
<1>2. TypeOK'
    BY DEF IInv, TypeOK, ServerCreated, ServerStates
<1>3. Rows'
    BY <1>1 DEF IInv, Rows, ServerCreated, OnlyGrow, Sound, PlanRow, ValidWindow
<1>. QED
    BY <1>1, <1>2, <1>3, OthersKeep DEF IInv

LEMMA UserRowSavedKeeps ==
    ASSUME IInv, NEW u \in Users, UserRowSaved(u)
    PROVE  IInv'
<1>1. OnlyGrow /\ req' = req
    BY DEF UserRowSaved, OnlyGrow
<1>2. TypeOK'
    BY DEF IInv, TypeOK, UserRowSaved
<1>3. Rows'
    BY <1>1 DEF IInv, Rows, UserRowSaved, OnlyGrow, Sound, PlanRow, ValidWindow
<1>. QED
    BY <1>1, <1>2, <1>3, OthersKeep DEF IInv

-----------------------------------------------------------------------------
(* The invariant and what it gives.                                        *)

LEMMA InitIInv == Init => IInv
<1>. SUFFICES ASSUME Init PROVE IInv
    OBVIOUS
<1>1. TypeOK
    BY DEF Init, TypeOK, UserRow, Roles, ServerStates, Request, Idle, AuditEvent
<1>2. Rows
    BY DEF Init, Rows
<1>3. \A r \in Requests : Staged(r)
    BY DEF Init, Idle, Staged, HoldsPlan, InFlight
<1>. QED
    BY <1>1, <1>2, <1>3 DEF IInv

LEMMA NextIInv == IInv /\ [Next]_vars => IInv'
<1>. SUFFICES ASSUME IInv, [Next]_vars PROVE IInv'
    OBVIOUS
<1>1. ASSUME NEW r \in Requests, Handle(r) PROVE IInv'
  <2>1. CASE ReceiveCreate(r)
      BY <2>1, ReceiveKeeps DEF ReceiveCreate, Operations
  <2>2. CASE ReceiveUpdate(r)
      BY <2>2, ReceiveKeeps DEF ReceiveUpdate, Operations
  <2>3. CASE ReceiveCancel(r)
      BY <2>3, ReceiveKeeps DEF ReceiveCancel, Operations
  <2>4. CASE CheckActor(r)
      BY <2>4, CheckActorKeeps
  <2>5. CASE CreateOnServer(r)
      BY <2>5, CreateOnServerKeeps
  <2>6. CASE RefusePlan(r)
      BY <2>6, RefuseKeeps DEF RefusePlan
  <2>7. CASE UpdatePlan(r)
      BY <2>7, UpdatePlanKeeps
  <2>8. CASE MoveToServer(r)
      BY <2>8, MoveToServerKeeps
  <2>9. CASE CancelPlan(r)
      BY <2>9, CancelPlanKeeps
  <2>10. CASE Save(r)
      BY <2>10, SaveKeeps
  <2>11. CASE Commit(r)
      BY <2>11, CommitKeeps
  <2>12. CASE Abort(r)
      BY <2>12, RefuseKeeps DEF Abort
  <2>. QED
      BY <1>1, <2>1, <2>2, <2>3, <2>4, <2>5, <2>6, <2>7, <2>8, <2>9, <2>10, <2>11, <2>12
         DEF Handle
<1>2. ASSUME NEW s \in Servers, ServerCreated(s) PROVE IInv'
    BY <1>2, ServerCreatedKeeps
<1>3. ASSUME NEW u \in Users, UserRowSaved(u) PROVE IInv'
    BY <1>3, UserRowSavedKeeps
<1>4. CASE UNCHANGED vars
  <2>1. TypeOK' /\ Rows'
      BY <1>4 DEF IInv, TypeOK, Rows, Sound, PlanRow, ValidWindow, vars
  <2>2. \A r \in Requests : Staged(r)'
      BY <1>4, OthersKeep DEF IInv, OnlyGrow, vars
  <2>. QED
      BY <2>1, <2>2 DEF IInv
<1>. QED
    BY <1>1, <1>2, <1>3, <1>4 DEF Next

LEMMA AlwaysIInv == Spec => []IInv
BY InitIInv, NextIInv, PTL DEF Spec

\* Every table, and what every thread holds, keeps its type.
THEOREM TypeCorrect == Spec => []TypeOK
<1>1. IInv => TypeOK
    BY DEF IInv
<1>. QED
    BY <1>1, AlwaysIInv, PTL

\* No interleaving of partial updates commits a plan that ends before it starts.
THEOREM WindowsStayValid == Spec => []RowsValidWindow
<1>1. IInv => RowsValidWindow
    BY DEF IInv, Rows, Sound, RowsValidWindow
<1>. QED
    BY <1>1, AlwaysIInv, PTL

\* No interleaving of creates and moves commits a plan on a server that is not enabled.
THEOREM PlansStayOnEnabledServers == Spec => []RowsOnEnabledServers
<1>1. IInv => RowsOnEnabledServers
    BY DEF IInv, Rows, Sound, RowsOnEnabledServers
<1>. QED
    BY <1>1, AlwaysIInv, PTL
-----------------------------------------------------------------------------
(* A cancellation is final once it is all that the threads know.           *)

\* A plan that exists was made by the request it is named after, which has ended.
Made == \A p \in Requests : plans[p] # None => req[p].pc = "done"

\* p was cancelled at t, and no thread holds an older copy of it.
Settled(p, t) ==
    /\ CancelledAt(p) = t
    /\ \A r \in Requests :
        req[r].plan = p /\ HoldsPlan(req[r]) => req[r].row.cancelled_at = t

\* A step changes what the requests hold for one request at most, and not for one
\* that has been answered.
LEMMA OneRequestSteps ==
    ASSUME IInv, NEW r \in Requests, Handle(r)
    PROVE  /\ req[r].pc # "done"
           /\ \A q \in Requests : q # r => req'[q] = req[q]
<1>. USE DEF IInv, TypeOK
<1>1. CASE ReceiveCreate(r) \/ ReceiveUpdate(r) \/ ReceiveCancel(r)
    BY <1>1 DEF ReceiveCreate, ReceiveUpdate, ReceiveCancel, Receive
<1>2. CASE CheckActor(r)
    BY <1>2 DEF CheckActor, Refuse
<1>3. CASE CreateOnServer(r)
    BY <1>3 DEF CreateOnServer, Stage, Refuse
<1>4. CASE RefusePlan(r)
    BY <1>4 DEF RefusePlan, Refuse
<1>5. CASE UpdatePlan(r)
    BY <1>5 DEF UpdatePlan, StageMerged, Stage, Refuse
<1>6. CASE MoveToServer(r)
    BY <1>6 DEF MoveToServer, StageMerged, Stage, Refuse
<1>7. CASE CancelPlan(r)
    BY <1>7 DEF CancelPlan, Stage, Answer
<1>8. CASE Save(r)
    BY <1>8 DEF Save
<1>9. CASE Commit(r)
    BY <1>9 DEF Commit, Answer
<1>10. CASE Abort(r)
    BY <1>10 DEF Abort, Refuse, InFlight
<1>. QED
    BY <1>1, <1>2, <1>3, <1>4, <1>5, <1>6, <1>7, <1>8, <1>9, <1>10 DEF Handle

\* Only a commit writes to the plans table.
LEMMA OnlyCommitWrites ==
    ASSUME NEW r \in Requests, Handle(r), ~Commit(r)
    PROVE  plans' = plans
BY DEF Handle, ReceiveCreate, ReceiveUpdate, ReceiveCancel, Receive, CheckActor,
       CreateOnServer, RefusePlan, UpdatePlan, MoveToServer, CancelPlan, Save, Abort,
       StageMerged, Stage, Answer, Refuse

LEMMA AlwaysMade == Spec => []Made
<1>1. Init => Made
    BY DEF Init, Made
<1>2. IInv /\ Made /\ [Next]_vars => Made'
  <2>. SUFFICES ASSUME IInv, Made, [Next]_vars, NEW p \in Requests, plans'[p] # None
                PROVE  req'[p].pc = "done"
      BY DEF Made
  <2>1. ASSUME NEW r \in Requests, Handle(r) PROVE req'[p].pc = "done"
    <3>1. CASE Commit(r)
      <4>1. req[r].plan \in Requests /\ req'[r].pc = "done"
          BY <3>1 DEF IInv, TypeOK, Commit, Answer, Staged, InFlight, Request
      <4>2. p # req[r].plan => plans[p] # None
          BY <3>1, <4>1 DEF IInv, TypeOK, Commit
      <4>3. p = req[r].plan /\ req[r].op # "create" => plans[p] # None
          BY <3>1 DEF IInv, Commit, Staged, HoldsPlan
      <4>4. p = req[r].plan /\ req[r].op = "create" => p = r
          BY <3>1 DEF IInv, Commit, Staged, InFlight
      <4>. QED
          BY <2>1, <4>1, <4>2, <4>3, <4>4, OneRequestSteps DEF Made
    <3>2. CASE ~Commit(r)
        BY <2>1, <3>2, OnlyCommitWrites, OneRequestSteps DEF Made
    <3>. QED
        BY <3>1, <3>2
  <2>2. ASSUME NEW s \in Servers, ServerCreated(s) PROVE req'[p].pc = "done"
      BY <2>2 DEF Made, ServerCreated
  <2>3. ASSUME NEW u \in Users, UserRowSaved(u) PROVE req'[p].pc = "done"
      BY <2>3 DEF Made, UserRowSaved
  <2>4. CASE UNCHANGED vars
      BY <2>4 DEF Made, vars
  <2>. QED
      BY <2>1, <2>2, <2>3, <2>4 DEF Next
<1>. QED
    BY <1>1, <1>2, AlwaysIInv, PTL DEF Spec

\* A merged entity has the cancellation of the copy it was made from.
LEMMA MergeKeepsCancellation ==
    ASSUME NEW row \in PlanRow, NEW body, NEW t
    PROVE  Merge(row, body, t).cancelled_at = row.cancelled_at
BY DEF Merge, PlanRow

\* Whatever a request does next, it neither changes a settled cancellation nor comes
\* to hold another one.
LEMMA SettledKeeps ==
    ASSUME IInv, Made, NEW p \in Requests, NEW t \in Nat, Settled(p, t),
           NEW r \in Requests, Handle(r)
    PROVE  Settled(p, t)'
<1>1. /\ plans[p] # None /\ plans[p] \in PlanRow /\ plans[p].cancelled_at = t
      /\ t # None /\ r # p
    BY SentinelsAssumption, OneRequestSteps
       DEF Settled, CancelledAt, Made, IInv, Rows, Sound
<1>2. req[r] \in Request /\ Staged(r)
    BY DEF IInv, TypeOK
<1>3. ASSUME ~Commit(r), req'[r].plan = p, HoldsPlan(req'[r])
      PROVE  req'[r].row.cancelled_at = t
  <2>1. CASE ReceiveCreate(r) \/ ReceiveUpdate(r) \/ ReceiveCancel(r)
    <3>1. req'[r].pc = "actor"
        BY <2>1 DEF IInv, TypeOK, ReceiveCreate, ReceiveUpdate, ReceiveCancel, Receive
    <3>. QED
        BY <1>3, <3>1 DEF HoldsPlan
  <2>2. ASSUME Refuse(r) PROVE FALSE
    <3>1. req'[r].pc = "failed"
        BY <2>2 DEF IInv, TypeOK, Refuse, Idle
    <3>. QED
        BY <1>3, <3>1 DEF HoldsPlan
  <2>3. CASE CheckActor(r)
    <3>1. /\ req'[r].pc \in {"plan", "server"} /\ req'[r].op = req[r].op
          /\ req[r].op # "create" => req'[r].pc = "plan"
        BY <1>2, <2>2, <2>3 DEF IInv, TypeOK, CheckActor, Request
    <3>. QED
        BY <1>3, <3>1 DEF HoldsPlan
  <2>4. CASE CreateOnServer(r)
    <3>1. req'[r].plan = req[r].plan /\ req[r].plan = r
        BY <1>2, <2>2, <2>4 DEF IInv, TypeOK, CreateOnServer, Stage, Request, Staged, InFlight
    <3>. QED
        BY <1>1, <1>3, <3>1
  <2>5. ASSUME NEW row \in PlanRow, row.cancelled_at = t, StageMerged(r, row)
        PROVE  req'[r].row.cancelled_at = t
    <3>. DEFINE merged == Merge(row, req[r].body, clock)
    <3>1. Stage(r, merged, "save")
        BY <2>2, <2>5 DEF StageMerged
    <3>2. merged.cancelled_at = t
        BY <2>5, MergeKeepsCancellation
    <3>. HIDE DEF merged
    <3>. QED
        BY <1>2, <3>1, <3>2 DEF IInv, TypeOK, Stage, Request
  <2>6. CASE UpdatePlan(r)
    <3>1. req'[r].plan = req[r].plan
        BY <1>2, <2>2, <2>6 DEF IInv, TypeOK, UpdatePlan, StageMerged, Stage, Request
    <3>2. Plan(r) = plans[p]
        BY <1>3, <3>1 DEF Plan
    <3>3. CASE StageMerged(r, Plan(r))
        BY <1>1, <2>5, <3>2, <3>3
    <3>4. CASE req' = [req EXCEPT ![r].pc = "server", ![r].row = Plan(r)]
        BY <1>1, <1>2, <3>2, <3>4 DEF IInv, TypeOK, Request
    <3>. QED
        BY <2>2, <2>6, <3>3, <3>4 DEF UpdatePlan
  <2>7. CASE MoveToServer(r)
    <3>1. req'[r].plan = req[r].plan
        BY <1>2, <2>2, <2>7 DEF IInv, TypeOK, MoveToServer, StageMerged, Stage, Request
    <3>2. HoldsPlan(req[r]) /\ Sound(req[r].row)
        BY <1>2, <2>7 DEF MoveToServer, HoldsPlan, Staged
    <3>3. req[r].row \in PlanRow /\ req[r].row.cancelled_at = t
        BY <1>3, <3>1, <3>2 DEF Settled, Sound
    <3>4. StageMerged(r, req[r].row)
        BY <2>2, <2>7 DEF MoveToServer
    <3>. QED
        BY <2>5, <3>3, <3>4
  <2>8. CASE CancelPlan(r)
    <3>1. req'[r].plan = req[r].plan
        BY <1>2, <2>8 DEF IInv, TypeOK, CancelPlan, Answer, Stage, Request
    <3>2. Plan(r).cancelled_at # None
        BY <1>1, <1>3, <3>1 DEF Plan
    <3>3. req'[r].pc = "done"
        BY <1>2, <2>8, <3>2 DEF IInv, TypeOK, CancelPlan, Answer, Request
    <3>. QED
        BY <1>3, <3>3 DEF HoldsPlan
  <2>9. CASE Save(r)
    <3>1. /\ req'[r].plan = req[r].plan /\ req'[r].row = req[r].row
          /\ HoldsPlan(req[r])
        BY <1>2, <2>9 DEF IInv, TypeOK, Save, Request, HoldsPlan
    <3>. QED
        BY <1>3, <3>1 DEF Settled
  <2>. QED
      BY <1>3, <2>1, <2>2, <2>3, <2>4, <2>6, <2>7, <2>8, <2>9 DEF Handle, RefusePlan, Abort
<1>4. ASSUME Commit(r), req'[r].plan = p, HoldsPlan(req'[r]) PROVE FALSE
  <2>1. req'[r].pc = "done"
      BY <1>2, <1>4 DEF IInv, TypeOK, Commit, Answer, Request
  <2>. QED
      BY <1>4, <2>1 DEF HoldsPlan
<1>5. CancelledAt(p)' = t
  <2>1. CASE ~Commit(r) \/ req[r].plan # p
      BY <1>1, <2>1, OnlyCommitWrites DEF IInv, TypeOK, CancelledAt, Commit, Settled
  <2>2. CASE Commit(r) /\ req[r].plan = p
    <3>. DEFINE q == req[r]
                written == Flush(plans[p], q.seen, q.row)
    <3>1. q.pc = "commit" /\ q.op # "create" /\ HoldsPlan(q)
        BY <1>1, <1>2, <2>2 DEF Commit, HoldsPlan, Staged, InFlight
    <3>2. q.row.cancelled_at = t
        BY <2>2, <3>1 DEF Settled
    <3>3. written.cancelled_at = t
        BY <1>1, <3>2 DEF Flush, DateColumn, PlanRow
    <3>4. Sound(written)
        BY <1>2, <2>2, <3>1, FlushIsSound DEF IInv, Rows, Staged, HoldsPlan, Sound
    <3>5. plans'[p] = written
        BY <2>2, <3>1 DEF IInv, TypeOK, Commit
    <3>. HIDE DEF written
    <3>. QED
        BY <3>3, <3>4, <3>5, SentinelsAssumption DEF CancelledAt, Sound
  <2>. QED
      BY <2>1, <2>2
<1>. QED
  <2>1. ASSUME NEW s \in Requests, req'[s].plan = p, HoldsPlan(req'[s])
        PROVE  req'[s].row.cancelled_at = t
    <3>1. CASE s = r
        BY <1>3, <1>4, <2>1, <3>1
    <3>2. CASE s # r
        BY <2>1, <3>2, OneRequestSteps DEF Settled
    <3>. QED
        BY <3>1, <3>2
  <2>. QED
      BY <1>5, <2>1 DEF Settled, HoldsPlan

LEMMA SettledStays ==
    ASSUME NEW p \in Requests, NEW t \in Nat
    PROVE  IInv /\ Made /\ Settled(p, t) /\ [Next]_vars => Settled(p, t)'
<1>. SUFFICES ASSUME IInv, Made, Settled(p, t), [Next]_vars PROVE Settled(p, t)'
    OBVIOUS
<1>1. ASSUME plans' = plans, req' = req PROVE Settled(p, t)'
    BY <1>1 DEF Settled, CancelledAt, HoldsPlan
<1>2. CASE \E r \in Requests : Handle(r)
    BY <1>2, SettledKeeps
<1>3. CASE (\E s \in Servers : ServerCreated(s)) \/ (\E u \in Users : UserRowSaved(u))
    BY <1>1, <1>3 DEF ServerCreated, UserRowSaved
<1>4. CASE UNCHANGED vars
    BY <1>1, <1>4 DEF vars
<1>. QED
    BY <1>2, <1>3, <1>4 DEF Next

\* A plan found cancelled while nobody works on it stays cancelled at that time for ever:
\* only requests that overlapped the cancellation itself can undo or move it.
THEOREM CancellationIsFinal == Spec => CancelFinalOnceQuiet
<1>1. ASSUME NEW p \in Requests, NEW t \in 0 .. Cardinality(Requests)
      PROVE  Spec => [](Quiet /\ CancelledAt(p) = t => [](CancelledAt(p) = t))
  <2>1. t \in Nat
      OBVIOUS
  <2>2. IInv /\ Made /\ Settled(p, t) /\ [Next]_vars => Settled(p, t)'
      BY <2>1, SettledStays
  <2>3. Quiet /\ CancelledAt(p) = t => Settled(p, t)
      BY DEF Quiet, Settled, HoldsPlan, InFlight
  <2>4. Settled(p, t) => CancelledAt(p) = t
      BY DEF Settled
  <2>. QED
      BY <2>2, <2>3, <2>4, AlwaysIInv, AlwaysMade, PTL DEF Spec
<1>. QED
    BY <1>1 DEF CancelFinalOnceQuiet

-----------------------------------------------------------------------------
(* The audit trail: every row is explained by events, every answer has one,*)
(* and a row changes only with a new event by somebody who may change it.  *)
(* An event is written with the row, but the row that is written was put   *)
(* together earlier: what a thread holds has to be explained already       *)
(* (Backed).                                                               *)

\* The cancellation that a thread holds has an event, or gets it from this thread.
CancellationBacked(r) ==
    LET row == req[r].row
    IN  \/ row.cancelled_at = None
        \/ Occurred(req[r].plan, "cancelled", row.cancelled_at)
        \/ /\ req[r].op = "cancel"
           /\ req[r].pc \in {"save", "commit"}
           /\ row.cancelled_at = row.updated_at

\* The events there are on a request, and what its thread knows about the plan it holds:
\* owner and creation are those of the committed row, whatever else has changed there.
Backed(r) ==
    /\ (\E a \in audits : a.id = r) => req[r].pc = "done"
    /\ req[r].pc = "done" =>
         \/ \E a \in audits : a.id = r
         \/ /\ req[r].op = "cancel"
            /\ \E a \in audits : a.entity_id = req[r].plan /\ a.action = "cancelled"
    /\ HoldsPlan(req[r]) /\ req[r].op # "create" =>
         /\ req[r].row.owner_id = Plan(r).owner_id
         /\ req[r].row.created_at = Plan(r).created_at
         /\ CancellationBacked(r)
         /\ req[r].role = "admin" \/ req[r].actor = Plan(r).owner_id
    /\ req[r].pc = "commit" /\ req[r].op = "create" =>
         /\ req[r].row.owner_id = req[r].actor
         /\ req[r].row.created_at = req[r].row.updated_at
         /\ req[r].row.cancelled_at = None

AInv == RowsExplainedByAudits /\ \A r \in Requests : Backed(r)

-----------------------------------------------------------------------------
(* What a step leaves alone.                                               *)

\* Owner and creation of a plan stay, and no event is taken back.
TrailGrows ==
    /\ audits \subseteq audits'
    /\ \A p \in Requests : plans[p] # None =>
         /\ plans'[p].owner_id = plans[p].owner_id
         /\ plans'[p].created_at = plans[p].created_at

\* A thread that takes no step stays backed, if the new events are not on it.
LEMMA OthersBacked ==
    ASSUME IInv, NEW q \in Requests, Backed(q), TrailGrows, req'[q] = req[q],
           \A a \in audits' \ audits : a.id # q
    PROVE  Backed(q)'
<1>1. HoldsPlan(req[q]) /\ req[q].op # "create" =>
        /\ plans[req[q].plan] # None
        /\ req[q].plan \in Requests
    BY DEF IInv, Staged, HoldsPlan, InFlight
<1>2. HoldsPlan(req[q])' <=> HoldsPlan(req[q])
    BY DEF HoldsPlan
<1>3. CancellationBacked(q) => CancellationBacked(q)'
    BY DEF CancellationBacked, Occurred, TrailGrows
<1>4. HoldsPlan(req[q])' /\ req'[q].op # "create" =>
        /\ Plan(q)'.owner_id = Plan(q).owner_id
        /\ Plan(q)'.created_at = Plan(q).created_at
    BY <1>1, <1>2 DEF TrailGrows, Plan
<1>. QED
    BY <1>2, <1>3, <1>4 DEF Backed, TrailGrows

\* A step of r that writes nothing: it is enough that r is backed afterwards.
LEMMA LocalBacked ==
    ASSUME IInv, AInv, NEW r \in Requests, plans' = plans, audits' = audits,
           \A q \in Requests : q # r => req'[q] = req[q],
           Backed(r)'
    PROVE  AInv'
<1>1. RowsExplainedByAudits'
    BY DEF AInv, RowsExplainedByAudits, Occurred
<1>2. TrailGrows
    BY DEF TrailGrows
<1>. QED
    BY <1>1, <1>2, OthersBacked DEF AInv

-----------------------------------------------------------------------------
(* The steps of a handler before its commit.                               *)

\* Neither the table nor the trail changes before the commit.
LEMMA OnlyCommitAudits ==
    ASSUME NEW r \in Requests, Handle(r), ~Commit(r)
    PROVE  plans' = plans /\ audits' = audits
BY DEF Handle, ReceiveCreate, ReceiveUpdate, ReceiveCancel, Receive, CheckActor,
       CreateOnServer, RefusePlan, UpdatePlan, MoveToServer, CancelPlan, Save, Abort,
       StageMerged, Stage, Answer, Refuse

\* A thread that holds no plan and has not ended owes nothing but to have no event.
LEMMA EmptyHandsBacked ==
    ASSUME NEW r \in Requests, audits' = audits, \A a \in audits : a.id # r,
           req'[r].pc # "done", ~HoldsPlan(req[r])',
           req'[r].pc # "commit"
    PROVE  Backed(r)'
BY DEF Backed, HoldsPlan

\* An entity that keeps owner, creation and cancellation of what was read is backed.
LEMMA StageBacked ==
    ASSUME IInv, AInv, NEW r \in Requests, NEW row \in PlanRow, Stage(r, row, "save"),
           req[r].pc \in {"plan", "server"}, req[r].op # "create", Plan(r) # None,
           req[r].role = "admin" \/ req[r].actor = Plan(r).owner_id,
           row.owner_id = Plan(r).owner_id, row.created_at = Plan(r).created_at,
           \/ row.cancelled_at = None
           \/ Occurred(req[r].plan, "cancelled", row.cancelled_at)
           \/ req[r].op = "cancel" /\ row.cancelled_at = row.updated_at
    PROVE  Backed(r)'
<1>1. req[r] \in Request /\ Backed(r)
    BY DEF IInv, TypeOK, AInv
<1>2. /\ req'[r].pc = "save" /\ req'[r].row = row /\ req'[r].op = req[r].op
      /\ req'[r].plan = req[r].plan /\ req'[r].role = req[r].role
      /\ req'[r].actor = req[r].actor
    BY <1>1 DEF IInv, TypeOK, Stage, Request
<1>3. plans' = plans /\ audits' = audits
    BY DEF Stage
<1>4. CancellationBacked(r)'
    BY <1>2, <1>3 DEF CancellationBacked, Occurred
<1>5. Plan(r)' = Plan(r)
    BY <1>2, <1>3 DEF Plan
<1>6. HoldsPlan(req[r])' => req'[r].op # "create"
    BY <1>2
<1>. QED
    BY <1>1, <1>2, <1>3, <1>4, <1>5 DEF Backed

\* The merge of a copy whose owner, creation and cancellation are backed.
LEMMA MergedBacked ==
    ASSUME IInv, AInv, NEW r \in Requests, NEW row \in PlanRow, StageMerged(r, row),
           Staged(r), ~Refuse(r), ~Nulled(req[r].body),
           req[r].pc \in {"plan", "server"}, req[r].op = "update", Plan(r) # None,
           req[r].role = "admin" \/ req[r].actor = Plan(r).owner_id,
           row.owner_id = Plan(r).owner_id, row.created_at = Plan(r).created_at,
           row.cancelled_at = None \/ Occurred(req[r].plan, "cancelled", row.cancelled_at)
    PROVE  Backed(r)'
<1>. DEFINE merged == Merge(row, req[r].body, clock)
<1>1. Stage(r, merged, "save")
    BY DEF StageMerged
<1>2. req[r].body \in PlanUpdates /\ clock \in Nat
    BY DEF IInv, TypeOK, Staged
<1>3. merged \in PlanRow
    BY <1>2, MergeIsRow
<1>4. /\ merged.owner_id = row.owner_id /\ merged.created_at = row.created_at
      /\ merged.cancelled_at = row.cancelled_at
    BY DEF Merge, PlanRow
<1>. HIDE DEF merged
<1>. QED
    BY <1>1, <1>3, <1>4, StageBacked

\* A committed row is a row, and its cancellation has an event.
LEMMA CommittedBacked ==
    ASSUME IInv, AInv, NEW p \in Requests, plans[p] # None
    PROVE  /\ plans[p] \in PlanRow
           /\ \/ plans[p].cancelled_at = None
              \/ Occurred(p, "cancelled", plans[p].cancelled_at)
BY DEF IInv, Rows, Sound, AInv, RowsExplainedByAudits

LEMMA UpdatePlanBacked ==
    ASSUME IInv, AInv, NEW r \in Requests, UpdatePlan(r), ~Refuse(r)
    PROVE  Backed(r)'
<1>1. /\ req[r].pc = "plan" /\ req[r].op = "update" /\ Plan(r) # None
      /\ req[r] \in Request /\ Staged(r) /\ Backed(r) /\ MayWrite(req[r], Plan(r))
    BY DEF IInv, TypeOK, AInv, UpdatePlan
<1>2. /\ req[r].plan \in Requests /\ Plan(r) \in PlanRow
      /\ \/ Plan(r).cancelled_at = None
         \/ Occurred(req[r].plan, "cancelled", Plan(r).cancelled_at)
    BY <1>1, CommittedBacked DEF Staged, InFlight, Plan
<1>3. CASE StageMerged(r, Plan(r)) /\ ~Nulled(req[r].body)
    BY <1>1, <1>2, <1>3, MergedBacked DEF MayWrite
<1>4. CASE /\ req' = [req EXCEPT ![r].pc = "server", ![r].row = Plan(r)]
           /\ UNCHANGED <<users, servers, plans, audits, clock>>
  <2>1. /\ req'[r].pc = "server" /\ req'[r].row = Plan(r) /\ req'[r].op = "update"
        /\ req'[r].plan = req[r].plan /\ req'[r].role = req[r].role
        /\ req'[r].actor = req[r].actor
      BY <1>1, <1>4 DEF IInv, TypeOK, Request
  <2>2. CancellationBacked(r)'
      BY <1>2, <1>4, <2>1 DEF CancellationBacked, Occurred
  <2>3. Plan(r)' = Plan(r)
      BY <1>4, <2>1 DEF Plan
  <2>. QED
      BY <1>1, <1>4, <2>1, <2>2, <2>3 DEF Backed, MayWrite
<1>. QED
    BY <1>3, <1>4 DEF UpdatePlan

LEMMA MoveToServerBacked ==
    ASSUME IInv, AInv, NEW r \in Requests, MoveToServer(r), ~Refuse(r)
    PROVE  Backed(r)'
<1>1. /\ req[r].pc = "server" /\ req[r].op = "update" /\ HoldsPlan(req[r])
      /\ Staged(r) /\ Backed(r) /\ StageMerged(r, req[r].row)
    BY DEF IInv, AInv, MoveToServer, HoldsPlan
<1>2. /\ req[r].row \in PlanRow /\ Plan(r) # None /\ ~Nulled(req[r].body)
      /\ req[r].row.owner_id = Plan(r).owner_id
      /\ req[r].row.created_at = Plan(r).created_at
      /\ req[r].role = "admin" \/ req[r].actor = Plan(r).owner_id
      /\ CancellationBacked(r)
    BY <1>1 DEF Staged, Backed, Sound, Plan
<1>3. \/ req[r].row.cancelled_at = None
      \/ Occurred(req[r].plan, "cancelled", req[r].row.cancelled_at)
    BY <1>1, <1>2 DEF CancellationBacked
<1>. QED
    BY <1>1, <1>2, <1>3, MergedBacked

LEMMA CancelPlanBacked ==
    ASSUME IInv, AInv, NEW r \in Requests, CancelPlan(r)
    PROVE  Backed(r)'
<1>1. /\ req[r].pc = "plan" /\ req[r].op = "cancel" /\ Plan(r) # None
      /\ req[r] \in Request /\ Staged(r) /\ Backed(r) /\ MayWrite(req[r], Plan(r))
      /\ clock \in Nat
    BY DEF IInv, TypeOK, AInv, CancelPlan
<1>2. /\ req[r].plan \in Requests /\ Plan(r) \in PlanRow
      /\ \/ Plan(r).cancelled_at = None
         \/ Occurred(req[r].plan, "cancelled", Plan(r).cancelled_at)
    BY <1>1, CommittedBacked DEF Staged, InFlight, Plan
<1>3. CASE Plan(r).cancelled_at = None
  <2>. DEFINE row == Cancelled(Plan(r), clock)
  <2>1. Stage(r, row, "save")
      BY <1>3 DEF CancelPlan
  <2>2. /\ row \in PlanRow /\ row.owner_id = Plan(r).owner_id
        /\ row.created_at = Plan(r).created_at /\ row.cancelled_at = row.updated_at
      BY <1>1, <1>2 DEF Cancelled, PlanRow, Stamps
  <2>. HIDE DEF row
  <2>. QED
      BY <1>1, <2>1, <2>2, StageBacked DEF MayWrite
<1>4. CASE Plan(r).cancelled_at # None
  <2>1. /\ req'[r].pc = "done" /\ req'[r].op = "cancel"
        /\ req'[r].plan = req[r].plan /\ audits' = audits
      BY <1>1, <1>4 DEF IInv, TypeOK, CancelPlan, Answer, Request
  <2>2. \E a \in audits : a.entity_id = req[r].plan /\ a.action = "cancelled"
      BY <1>2, <1>4 DEF Occurred
  <2>. QED
      BY <2>1, <2>2 DEF Backed, HoldsPlan
<1>. QED
    BY <1>3, <1>4

LEMMA SaveBacked ==
    ASSUME IInv, AInv, NEW r \in Requests, Save(r)
    PROVE  Backed(r)'
<1>1. /\ req[r].pc = "save" /\ HoldsPlan(req[r]) /\ req[r] \in Request
      /\ Staged(r) /\ Backed(r) /\ req[r].op # "create"
    BY DEF IInv, TypeOK, AInv, Save, HoldsPlan, Staged
<1>2. /\ req'[r].pc = "commit" /\ req'[r].row = req[r].row /\ req'[r].op = req[r].op
      /\ req'[r].plan = req[r].plan /\ req'[r].role = req[r].role
      /\ req'[r].actor = req[r].actor /\ plans' = plans /\ audits' = audits
    BY <1>1 DEF IInv, TypeOK, Save, Request
<1>3. CancellationBacked(r) => CancellationBacked(r)'
    BY <1>1, <1>2 DEF CancellationBacked, Occurred
<1>4. Plan(r)' = Plan(r)
    BY <1>2 DEF Plan
<1>. QED
    BY <1>1, <1>2, <1>3, <1>4 DEF Backed

\* Every step of a handler but the commit.
LEMMA HandleBacked ==
    ASSUME IInv, AInv, NEW r \in Requests, Handle(r), ~Commit(r)
    PROVE  AInv'
<1>1. /\ plans' = plans /\ audits' = audits
      /\ req[r].pc # "done" /\ \A q \in Requests : q # r => req'[q] = req[q]
    BY OnlyCommitAudits, OneRequestSteps
<1>2. req[r] \in Request /\ Staged(r) /\ \A a \in audits : a.id # r
    BY <1>1 DEF IInv, TypeOK, AInv, Backed
<1>3. ASSUME Refuse(r) PROVE Backed(r)'
  <2>1. req'[r].pc = "failed"
      BY <1>3 DEF IInv, TypeOK, Refuse, Idle
  <2>. QED
      BY <1>1, <1>2, <2>1, EmptyHandsBacked DEF HoldsPlan
<1>4. Backed(r)'
  <2>1. CASE ReceiveCreate(r) \/ ReceiveUpdate(r) \/ ReceiveCancel(r)
    <3>1. req'[r].pc = "actor"
        BY <2>1 DEF IInv, TypeOK, ReceiveCreate, ReceiveUpdate, ReceiveCancel, Receive
    <3>. QED
        BY <1>1, <1>2, <3>1, EmptyHandsBacked DEF HoldsPlan
  <2>2. CASE CheckActor(r)
    <3>1. CASE ~Refuse(r)
      <4>1. /\ req'[r].pc \in {"plan", "server"} /\ req'[r].op = req[r].op
            /\ req[r].op # "create" => req'[r].pc = "plan"
          BY <1>2, <2>2, <3>1 DEF IInv, TypeOK, CheckActor, Request
      <4>. QED
          BY <1>1, <1>2, <4>1 DEF Backed, HoldsPlan
    <3>. QED
        BY <1>3, <3>1
  <2>3. CASE CreateOnServer(r)
    <3>1. CASE ~Refuse(r)
      <4>. DEFINE row == NewRow(req[r].body, req[r].actor, clock)
      <4>1. Stage(r, row, "commit") /\ req[r].op = "create"
          BY <2>3, <3>1 DEF CreateOnServer
      <4>2. /\ row.owner_id = req[r].actor /\ row.created_at = row.updated_at
            /\ row.cancelled_at = None
          BY DEF NewRow
      <4>. HIDE DEF row
      <4>3. /\ req'[r].pc = "commit" /\ req'[r].op = "create" /\ req'[r].row = row
            /\ req'[r].actor = req[r].actor
          BY <1>2, <4>1 DEF IInv, TypeOK, Stage, Request
      <4>. QED
          BY <1>1, <1>2, <4>2, <4>3 DEF Backed, HoldsPlan
    <3>. QED
        BY <1>3, <3>1
  <2>4. CASE RefusePlan(r) \/ Abort(r)
      BY <1>3, <2>4 DEF RefusePlan, Abort
  <2>5. CASE UpdatePlan(r)
      BY <1>3, <2>5, UpdatePlanBacked
  <2>6. CASE MoveToServer(r)
      BY <1>3, <2>6, MoveToServerBacked
  <2>7. CASE CancelPlan(r)
      BY <2>7, CancelPlanBacked
  <2>8. CASE Save(r)
      BY <2>8, SaveBacked
  <2>. QED
      BY <2>1, <2>2, <2>3, <2>4, <2>5, <2>6, <2>7, <2>8 DEF Handle
<1>. QED
    BY <1>1, <1>4, LocalBacked

-----------------------------------------------------------------------------
(* The commit.                                                             *)

\* What a commit of r writes to its plan and to the trail.
LEMMA CommitWrites ==
    ASSUME IInv, AInv, Made, NEW r \in Requests, Commit(r)
    PROVE  LET q == req[r]
               new == plans'[q.plan]
           IN  /\ q.plan \in Requests /\ q.op \in Operations
               /\ audits' = audits \cup {Event(r)}
               /\ \A a \in audits : a.id # r
               /\ \A p \in Requests : p # q.plan => plans'[p] = plans[p]
               /\ new # None /\ new.updated_at = q.row.updated_at
               /\ q.op = "create" =>
                    /\ plans[q.plan] = None
                    /\ new.owner_id = q.actor
                    /\ new.created_at = q.row.updated_at
                    /\ new.cancelled_at = None
               /\ q.op # "create" =>
                    /\ plans[q.plan] # None
                    /\ new.owner_id = plans[q.plan].owner_id
                    /\ new.created_at = plans[q.plan].created_at
                    /\ new.cancelled_at \in {plans[q.plan].cancelled_at, q.row.cancelled_at}
<1>. DEFINE q == req[r]
            new == plans'[q.plan]
<1>1. /\ q.pc = "commit" /\ Staged(r) /\ Backed(r) /\ Sound(q.row) /\ q.row \in PlanRow
      /\ q.plan \in Requests /\ q.op \in Operations
    BY DEF IInv, AInv, Commit, Staged, HoldsPlan, InFlight, Sound
<1>2. /\ audits' = audits \cup {Event(r)}
      /\ \A a \in audits : a.id # r
      /\ \A p \in Requests : p # q.plan => plans'[p] = plans[p]
      /\ new = IF q.op = "create" THEN q.row ELSE Flush(plans[q.plan], q.seen, q.row)
    BY <1>1 DEF IInv, TypeOK, Commit, Backed
<1>3. CASE q.op = "create"
  <2>1. plans[q.plan] = None
      BY <1>1, <1>3 DEF Made, Staged, InFlight
  <2>2. new = q.row /\ new # None
      BY <1>1, <1>2, <1>3, SentinelsAssumption
  <2>3. /\ q.row.owner_id = q.actor /\ q.row.created_at = q.row.updated_at
        /\ q.row.cancelled_at = None
      BY <1>1, <1>3 DEF Backed
  <2>. QED
      BY <1>1, <1>2, <1>3, <2>1, <2>2, <2>3
<1>4. CASE q.op # "create"
  <2>. DEFINE old == plans[q.plan]
              written == Flush(old, q.seen, q.row)
  <2>1. /\ old # None /\ Sound(old) /\ old \in PlanRow /\ q.seen \in PlanRow
        /\ q.row.owner_id = old.owner_id
      BY <1>1, <1>4 DEF IInv, Rows, Staged, HoldsPlan, Sound, Backed, Plan
  <2>2. Sound(written) /\ written # None
      BY <1>1, <2>1, FlushIsSound, SentinelsAssumption DEF Sound
  <2>3. q.row.updated_at # None
      BY <1>1, SentinelsAssumption DEF PlanRow, Stamps
  <2>4. /\ written.owner_id = old.owner_id /\ written.created_at = old.created_at
        /\ written.updated_at = q.row.updated_at
        /\ written.cancelled_at \in {old.cancelled_at, q.row.cancelled_at}
      BY <2>1, <2>3 DEF Flush, Column, DateColumn, PlanRow
  <2>. HIDE DEF written
  <2>5. new = written
      BY <1>2, <1>4 DEF written
  <2>. QED
      BY <1>1, <1>2, <1>4, <2>1, <2>2, <2>4, <2>5
<1>. QED
    BY <1>3, <1>4

LEMMA CommitKeepsTrail ==
    ASSUME IInv, AInv, Made, NEW r \in Requests, Commit(r)
    PROVE  AInv'
<1>. DEFINE q == req[r]
            p == q.plan
            new == plans'[p]
            OccurredThen(x, action, stamp) ==
                \E a \in audits' : /\ a.entity_id = x
                                   /\ a.action = action
                                   /\ a.occurred_at = stamp
<1>1. /\ p \in Requests /\ q.op \in Operations
      /\ audits' = audits \cup {Event(r)}
      /\ \A a \in audits : a.id # r
      /\ \A other \in Requests : other # p => plans'[other] = plans[other]
      /\ new # None /\ new.updated_at = q.row.updated_at
      /\ q.op = "create" =>
           /\ plans[p] = None
           /\ new.owner_id = q.actor
           /\ new.created_at = q.row.updated_at
           /\ new.cancelled_at = None
      /\ q.op # "create" =>
           /\ plans[p] # None
           /\ new.owner_id = plans[p].owner_id
           /\ new.created_at = plans[p].created_at
           /\ new.cancelled_at \in {plans[p].cancelled_at, q.row.cancelled_at}
    BY CommitWrites
<1>2. /\ q \in Request /\ Staged(r) /\ Backed(r) /\ q.pc = "commit"
      /\ req'[r].pc = "done" /\ \A s \in Requests : s # r => req'[s] = req[s]
    BY DEF IInv, TypeOK, AInv, Commit, Answer
<1>3. /\ Event(r) \in audits' /\ Event(r).id = r /\ Event(r).entity_id = p
      /\ Event(r).action = ActionOf[q.op] /\ Event(r).actor_id = q.actor
      /\ Event(r).occurred_at = q.row.updated_at
    BY <1>1 DEF Event
<1>4. TrailGrows
    BY <1>1 DEF TrailGrows
<1>5. \A x, action, stamp :
        Occurred(x, action, stamp) => OccurredThen(x, action, stamp)
    BY <1>1 DEF Occurred
<1>6. OccurredThen(p, ActionOf[q.op], q.row.updated_at)
    BY <1>3
<1>7. RowsExplainedByAudits'
  <2>1. \A a \in audits' : plans'[a.entity_id] # None
    <3>1. \A a \in audits : a.entity_id \in Requests /\ plans[a.entity_id] # None
        BY DEF IInv, TypeOK, AuditEvent, AInv, RowsExplainedByAudits
    <3>. QED
        BY <1>1, <1>3, <3>1
  <2>2. ASSUME NEW x \in Requests, x # p, plans'[x] # None
        PROVE  /\ \E a \in audits' : /\ a.entity_id = x
                                     /\ a.action = "created"
                                     /\ a.occurred_at = plans'[x].created_at
                                     /\ a.actor_id = plans'[x].owner_id
               /\ \E o \in Operations : OccurredThen(x, ActionOf[o], plans'[x].updated_at)
               /\ plans'[x].cancelled_at # None =>
                    OccurredThen(x, "cancelled", plans'[x].cancelled_at)
      BY <1>1, <1>5, <2>2 DEF AInv, RowsExplainedByAudits
  <2>3. \E a \in audits' : /\ a.entity_id = p
                           /\ a.action = "created"
                           /\ a.occurred_at = new.created_at
                           /\ a.actor_id = new.owner_id
    <3>1. CASE q.op = "create"
        BY <1>1, <1>3, <3>1 DEF ActionOf
    <3>2. CASE q.op # "create"
        BY <1>1, <3>2 DEF AInv, RowsExplainedByAudits
    <3>. QED
        BY <3>1, <3>2
  <2>4. new.cancelled_at # None => OccurredThen(p, "cancelled", new.cancelled_at)
    <3>1. CASE q.op = "create"
        BY <1>1, <3>1
    <3>2. CASE q.op # "create"
      <4>1. plans[p].cancelled_at # None => Occurred(p, "cancelled", plans[p].cancelled_at)
          BY <1>1, <3>2 DEF AInv, RowsExplainedByAudits
      <4>2. CancellationBacked(r)
          BY <1>2, <3>2 DEF Backed, HoldsPlan
      <4>3. q.op = "cancel" => OccurredThen(p, "cancelled", q.row.updated_at)
          BY <1>6 DEF ActionOf
      <4>4. q.row.cancelled_at # None => OccurredThen(p, "cancelled", q.row.cancelled_at)
          BY <1>1, <1>5, <4>2, <4>3 DEF CancellationBacked
      <4>. QED
          BY <1>1, <1>5, <3>2, <4>1, <4>4
    <3>. QED
        BY <3>1, <3>2
  <2>5. \E o \in Operations : OccurredThen(p, ActionOf[o], new.updated_at)
      BY <1>1, <1>6
  <2>. QED
      BY <2>1, <2>2, <2>3, <2>4, <2>5 DEF RowsExplainedByAudits, Occurred
<1>8. Backed(r)'
    BY <1>2, <1>3 DEF Backed, HoldsPlan
<1>9. ASSUME NEW s \in Requests, s # r PROVE Backed(s)'
    BY <1>1, <1>2, <1>3, <1>4, <1>9, OthersBacked DEF AInv
<1>. QED
    BY <1>7, <1>8, <1>9 DEF AInv

-----------------------------------------------------------------------------
(* The theorems.                                                           *)

LEMMA InitAInv == Init => AInv
BY DEF Init, Idle, AInv, RowsExplainedByAudits, Backed, HoldsPlan

LEMMA NextAInv == IInv /\ Made /\ AInv /\ [Next]_vars => AInv'
<1>. SUFFICES ASSUME IInv, Made, AInv, [Next]_vars PROVE AInv'
    OBVIOUS
<1>1. ASSUME NEW r \in Requests, Handle(r) PROVE AInv'
    BY <1>1, HandleBacked, CommitKeepsTrail
<1>2. ASSUME plans' = plans, audits' = audits, req' = req PROVE AInv'
  <2>1. TrailGrows /\ RowsExplainedByAudits'
      BY <1>2 DEF TrailGrows, AInv, RowsExplainedByAudits, Occurred
  <2>. QED
      BY <1>2, <2>1, OthersBacked DEF AInv
<1>. QED
    BY <1>1, <1>2 DEF Next, ServerCreated, UserRowSaved, vars

LEMMA AlwaysAInv == Spec => []AInv
BY InitAInv, NextAInv, AlwaysIInv, AlwaysMade, PTL DEF Spec

\* The trail explains every committed row: owner and creation, the last change, and a
\* cancellation with the stamp that the row carries.
THEOREM TrailExplainsRows == Spec => []RowsExplainedByAudits
<1>1. AInv => RowsExplainedByAudits
    BY DEF AInv
<1>. QED
    BY <1>1, AlwaysAInv, PTL

\* A request has an event exactly when it was answered, but for a repeated cancel.
THEOREM AnswersHaveEvents == Spec => []AnswersAudited
<1>1. AInv => AnswersAudited
    BY DEF AInv, Backed, AnswersAudited
<1>. QED
    BY <1>1, AlwaysAInv, PTL

\* A row changes only with a new event on it, by its owner or by a user who was an
\* administrator when the request came in.
THEOREM ChangesHaveEvents == Spec => ChangesAuditedAndAllowed
<1>. DEFINE Audited(p) == plans'[p] # plans[p] =>
                \E a \in audits' \ audits :
                    /\ a.entity_id = p
                    /\ a.actor_id = plans'[p].owner_id \/ req[a.id].role = "admin"
<1>1. ASSUME IInv, Made, AInv, [Next]_vars, NEW p \in Requests, plans'[p] # plans[p]
      PROVE  Audited(p)
  <2>1. PICK r \in Requests : Commit(r)
      BY <1>1, OnlyCommitWrites DEF Next, ServerCreated, UserRowSaved, vars
  <2>2. /\ req[r].plan = p /\ audits' = audits \cup {Event(r)} /\ Event(r) \notin audits
        /\ Event(r).entity_id = p /\ Event(r).id = r /\ Event(r).actor_id = req[r].actor
      BY <1>1, <2>1, CommitWrites DEF Event
  <2>3. req[r].actor = plans'[p].owner_id \/ req[r].role = "admin"
    <3>1. CASE req[r].op = "create"
        BY <1>1, <2>1, <2>2, <3>1, CommitWrites
    <3>2. CASE req[r].op # "create"
      <4>1. req[r].role = "admin" \/ req[r].actor = plans[p].owner_id
          BY <1>1, <2>1, <2>2, <3>2 DEF AInv, Backed, HoldsPlan, Commit, Plan
      <4>. QED
          BY <1>1, <2>1, <2>2, <3>2, <4>1, CommitWrites
    <3>. QED
        BY <3>1, <3>2
  <2>. QED
      BY <2>2, <2>3
<1>2. IInv /\ Made /\ AInv /\ [Next]_vars => [\A p \in Requests : Audited(p)]_vars
    BY <1>1
<1>. QED
    BY <1>2, AlwaysIInv, AlwaysMade, AlwaysAInv, PTL DEF Spec, ChangesAuditedAndAllowed
=============================================================================
