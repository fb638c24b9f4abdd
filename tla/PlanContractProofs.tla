------------------------- MODULE PlanContractProofs -------------------------
(***************************************************************************)
(* Proof that PlanService, when its requests do not overlap, implements    *)
(* PlanContract. A commit is the contract's operation, every other step    *)
(* stutters: what a thread has put together since it read the plan must    *)
(* still be about the plan as it is (Current).                             *)
(***************************************************************************)
EXTENDS PlanSerial, PlanServiceProofs

\* Every event was stamped by a reading of the clock that was taken.
StampsPast == \A a \in audits : a.occurred_at < clock

\* The copy of an update, the version that is going to be written, its stamp and the
\* second reading, against the plan as it is committed.
Current(r) ==
    LET q == req[r]
        row == q.row
    IN  /\ q.pc = "server" /\ q.op = "update" => row = Plan(r)
        /\ q.pc \in {"save", "commit"} =>
             /\ row.updated_at < clock
             /\ \A a \in audits : a.occurred_at < row.updated_at
        /\ q.pc \in {"save", "commit"} /\ q.op = "update" =>
             /\ Valid(row)
             /\ \E body \in PlanUpdates :
                  ~Nulled(body) /\ row = Merge(Plan(r), body, row.updated_at)
        /\ q.pc \in {"save", "commit"} /\ q.op = "cancel" =>
             /\ Plan(r).cancelled_at = None
             /\ row = Cancelled(Plan(r), row.updated_at)
        /\ q.pc = "commit" /\ q.op = "create" =>
             \E body \in PlanCreates : row = NewRow(body, q.actor, row.updated_at)
        /\ q.pc = "commit" /\ q.op # "create" => q.seen = Plan(r)

SInv == OneAtATime /\ StampsPast /\ \A r \in Requests : Current(r)

-----------------------------------------------------------------------------
(* Steps of a handler.                                                     *)

\* Every step of a handler starts or ends in the middle of its request, so no other
\* request is there.
LEMMA OthersRest ==
    ASSUME IInv, OneAtATime, OneAtATime', NEW r \in Requests, Handle(r),
           NEW q \in Requests, q # r
    PROVE  req'[q].pc \notin InFlight
<1>1. req'[q] = req[q]
    BY OneRequestSteps
<1>2. req[r].pc \in InFlight \/ req'[r].pc \in InFlight
  <2>1. CASE ReceiveCreate(r) \/ ReceiveUpdate(r) \/ ReceiveCancel(r)
      BY <2>1 DEF IInv, TypeOK, InFlight,
                  ReceiveCreate, ReceiveUpdate, ReceiveCancel, Receive
  <2>2. CASE ~(ReceiveCreate(r) \/ ReceiveUpdate(r) \/ ReceiveCancel(r))
      BY <2>2 DEF Handle, CheckActor, CreateOnServer, RefusePlan, UpdatePlan,
                  MoveToServer, CancelPlan, Save, Commit, Abort, InFlight
  <2>. QED
      BY <2>1, <2>2
<1>. QED
    BY <1>1, <1>2 DEF OneAtATime

\* The clock is read after every event there is.
LEMMA StagedIsCurrent ==
    ASSUME IInv, StampsPast, NEW r \in Requests, NEW row, NEW next \in {"save", "commit"},
           Stage(r, row, next), row.updated_at = clock,
           next = "save" => req[r].op # "create",
           req[r].op = "create" => \E body \in PlanCreates :
                                     row = NewRow(body, req[r].actor, clock),
           req[r].op # "create" => next = "save",
           req[r].op = "update" =>
             /\ Valid(row)
             /\ \E body \in PlanUpdates : ~Nulled(body) /\ row = Merge(Plan(r), body, clock),
           req[r].op = "cancel" => /\ Plan(r).cancelled_at = None
                                   /\ row = Cancelled(Plan(r), clock)
    PROVE  Current(r)' /\ StampsPast'
<1>1. /\ req'[r].pc = next /\ req'[r].row = row /\ req'[r].op = req[r].op
      /\ req'[r].plan = req[r].plan /\ req'[r].actor = req[r].actor
      /\ plans' = plans /\ audits' = audits /\ clock' = clock + 1 /\ clock \in Nat
    BY DEF IInv, TypeOK, Stage, Request
<1>2. Plan(r)' = Plan(r)
    BY <1>1 DEF Plan
<1>3. \A a \in audits : a.occurred_at \in Nat /\ a.occurred_at < clock
    BY DEF IInv, TypeOK, AuditEvent, Stamps, StampsPast
<1>4. StampsPast'
    BY <1>1, <1>3 DEF StampsPast
<1>. QED
    BY <1>1, <1>2, <1>3, <1>4 DEF Current

\* The entity is merged into the plan as it is.
LEMMA MergedIsCurrent ==
    ASSUME IInv, StampsPast, NEW r \in Requests, StageMerged(r, Plan(r)), ~Refuse(r),
           Plan(r) \in PlanRow, req[r].op = "update", ~Nulled(req[r].body),
           req[r].body \in PlanUpdates
    PROVE  Current(r)' /\ StampsPast'
<1>. DEFINE merged == Merge(Plan(r), req[r].body, clock)
<1>1. Stage(r, merged, "save") /\ Valid(merged)
    BY DEF StageMerged
<1>2. merged.updated_at = clock
    BY DEF Merge, PlanRow
<1>3. \E body \in PlanUpdates : ~Nulled(body) /\ merged = Merge(Plan(r), body, clock)
    OBVIOUS
<1>. HIDE DEF merged
<1>. QED
    BY <1>1, <1>2, <1>3, StagedIsCurrent

LEMMA UpdatePlanIsCurrent ==
    ASSUME IInv, StampsPast, NEW r \in Requests, UpdatePlan(r), ~Refuse(r)
    PROVE  Current(r)' /\ StampsPast'
<1>1. /\ req[r].pc = "plan" /\ req[r].op = "update" /\ Plan(r) \in PlanRow
      /\ req[r] \in Request /\ req[r].body \in PlanUpdates
    BY DEF IInv, TypeOK, UpdatePlan, Staged, InFlight, Rows, Sound, Plan
<1>2. CASE ~Nulled(req[r].body) /\ StageMerged(r, Plan(r))
    BY <1>1, <1>2, MergedIsCurrent
<1>3. CASE /\ req' = [req EXCEPT ![r].pc = "server", ![r].row = Plan(r)]
           /\ UNCHANGED <<users, servers, plans, audits, clock>>
  <2>1. /\ req'[r].pc = "server" /\ req'[r].row = Plan(r) /\ req'[r].plan = req[r].plan
      BY <1>1, <1>3 DEF IInv, TypeOK, Request
  <2>. QED
      BY <1>3, <2>1 DEF Current, Plan, StampsPast
<1>. QED
    BY <1>2, <1>3 DEF UpdatePlan

LEMMA MoveToServerIsCurrent ==
    ASSUME IInv, StampsPast, NEW r \in Requests, Current(r), MoveToServer(r), ~Refuse(r)
    PROVE  Current(r)' /\ StampsPast'
<1>1. /\ req[r].op = "update" /\ req[r].row = Plan(r) /\ req[r].row \in PlanRow
      /\ req[r].body \in PlanUpdates /\ ~Nulled(req[r].body)
    BY DEF IInv, MoveToServer, Current, Staged, HoldsPlan, Sound
<1>2. StageMerged(r, Plan(r))
    BY <1>1 DEF MoveToServer
<1>. QED
    BY <1>1, <1>2, MergedIsCurrent

LEMMA CreateIsCurrent ==
    ASSUME IInv, StampsPast, NEW r \in Requests, CreateOnServer(r), ~Refuse(r)
    PROVE  Current(r)' /\ StampsPast'
<1>. DEFINE row == NewRow(req[r].body, req[r].actor, clock)
<1>1. /\ req[r].op = "create" /\ req[r].body \in PlanCreates /\ Stage(r, row, "commit")
    BY DEF IInv, CreateOnServer, Staged
<1>2. /\ row.updated_at = clock
      /\ \E body \in PlanCreates : row = NewRow(body, req[r].actor, clock)
    BY <1>1 DEF NewRow
<1>. HIDE DEF row
<1>. QED
    BY <1>1, <1>2, StagedIsCurrent

LEMMA CancelPlanIsCurrent ==
    ASSUME IInv, StampsPast, NEW r \in Requests, CancelPlan(r)
    PROVE  Current(r)' /\ StampsPast'
<1>1. /\ req[r].pc = "plan" /\ req[r].op = "cancel" /\ Plan(r) \in PlanRow
      /\ req[r] \in Request
    BY DEF IInv, TypeOK, CancelPlan, Staged, InFlight, Rows, Sound, Plan
<1>2. CASE Plan(r).cancelled_at = None
  <2>. DEFINE row == Cancelled(Plan(r), clock)
  <2>1. Stage(r, row, "save")
      BY <1>2 DEF CancelPlan
  <2>2. row.updated_at = clock /\ row = Cancelled(Plan(r), clock)
      BY <1>1 DEF Cancelled, PlanRow
  <2>. HIDE DEF row
  <2>. QED
      BY <1>1, <1>2, <2>1, <2>2, StagedIsCurrent
<1>3. CASE Plan(r).cancelled_at # None
  <2>1. req'[r].pc = "done" /\ audits' = audits /\ clock' = clock
      BY <1>1, <1>3 DEF IInv, TypeOK, CancelPlan, Answer, Request
  <2>. QED
      BY <2>1 DEF Current, StampsPast
<1>. QED
    BY <1>2, <1>3

LEMMA SaveIsCurrent ==
    ASSUME IInv, StampsPast, NEW r \in Requests, Current(r), Save(r)
    PROVE  Current(r)' /\ StampsPast'
<1>1. /\ req[r].pc = "save" /\ req[r].op # "create" /\ req[r] \in Request
    BY DEF IInv, TypeOK, Save, Staged
<1>2. /\ req'[r].pc = "commit" /\ req'[r].row = req[r].row /\ req'[r].op = req[r].op
      /\ req'[r].plan = req[r].plan /\ req'[r].seen = Plan(r)
      /\ plans' = plans /\ audits' = audits /\ clock' = clock
    BY <1>1 DEF IInv, TypeOK, Save, Request
<1>3. Plan(r)' = Plan(r)
    BY <1>2 DEF Plan
<1>. QED
    BY <1>1, <1>2, <1>3 DEF Current, StampsPast

LEMMA HandleIsCurrent ==
    ASSUME IInv, StampsPast, NEW r \in Requests, Current(r), Handle(r)
    PROVE  Current(r)' /\ StampsPast'
<1>1. req[r] \in Request /\ Staged(r)
    BY DEF IInv, TypeOK
<1>2. ASSUME Refuse(r) PROVE Current(r)' /\ StampsPast'
  <2>1. req'[r].pc = "failed" /\ audits' = audits /\ clock' = clock
      BY <1>2 DEF IInv, TypeOK, Refuse, Idle
  <2>. QED
      BY <2>1 DEF Current, StampsPast
<1>3. CASE ReceiveCreate(r) \/ ReceiveUpdate(r) \/ ReceiveCancel(r)
  <2>1. req'[r].pc = "actor" /\ audits' = audits /\ clock' = clock
      BY <1>3 DEF IInv, TypeOK, ReceiveCreate, ReceiveUpdate, ReceiveCancel, Receive
  <2>. QED
      BY <2>1 DEF Current, StampsPast
<1>4. CASE CheckActor(r) /\ ~Refuse(r)
  <2>1. /\ req'[r].pc \in {"plan", "server"} /\ req'[r].op = req[r].op
        /\ req'[r].pc = "server" => req[r].op = "create"
        /\ audits' = audits /\ clock' = clock
      BY <1>1, <1>4 DEF IInv, TypeOK, CheckActor, Request
  <2>. QED
      BY <2>1 DEF Current, StampsPast
<1>5. CASE Commit(r)
  <2>1. /\ req'[r].pc = "done" /\ clock' = clock /\ audits' = audits \cup {Event(r)}
        /\ req[r].row.updated_at < clock
      BY <1>1, <1>5 DEF IInv, TypeOK, Commit, Answer, Request, Current
  <2>. QED
      BY <2>1 DEF Current, StampsPast, Event
<1>6. CASE RefusePlan(r) \/ Abort(r)
    BY <1>2, <1>6 DEF RefusePlan, Abort
<1>. QED
    BY <1>2, <1>3, <1>4, <1>5, <1>6, CreateIsCurrent, UpdatePlanIsCurrent,
       MoveToServerIsCurrent, CancelPlanIsCurrent, SaveIsCurrent DEF Handle

LEMMA InitSInv == Init => SInv
BY DEF Init, Idle, InFlight, SInv, OneAtATime, StampsPast, Current

LEMMA NextSInv == IInv /\ SInv /\ [Next /\ OneAtATime']_vars => SInv'
<1>. SUFFICES ASSUME IInv, SInv, [Next /\ OneAtATime']_vars PROVE SInv'
    OBVIOUS
<1>1. ASSUME NEW r \in Requests, Handle(r), OneAtATime' PROVE SInv'
  <2>1. Current(r)' /\ StampsPast'
      BY <1>1, HandleIsCurrent DEF SInv
  <2>2. ASSUME NEW q \in Requests, q # r PROVE Current(q)'
    <3>1. req'[q].pc \notin InFlight
        BY <1>1, <2>2, OthersRest DEF SInv
    <3>. QED
        BY <3>1 DEF Current, InFlight
  <2>. QED
      BY <1>1, <2>1, <2>2 DEF SInv
<1>2. ASSUME UNCHANGED <<plans, audits, req, clock>> PROVE SInv'
    BY <1>2 DEF SInv, OneAtATime, StampsPast, Current, Plan
<1>. QED
    BY <1>1, <1>2 DEF Next, ServerCreated, UserRowSaved, vars

-----------------------------------------------------------------------------
(* A commit, seen from the contract.                                       *)

\* Over a row that it reads twice, a save leaves what it was given.
LEMMA FlushWritesRow ==
    ASSUME NEW now \in PlanRow, NEW row \in PlanRow,
           row.owner_id = now.owner_id, row.created_at = now.created_at
    PROVE  Flush(now, now, row) = row
<1>. DEFINE f == Flush(now, now, row)
<1>1. \A x, y : Column(x, x, y) = y /\ DateColumn(x, x, y) = y
    BY DEF Column, DateColumn
<1>2. /\ f.owner_id = row.owner_id /\ f.server_id = row.server_id /\ f.title = row.title
      /\ f.start_at = row.start_at /\ f.end_at = row.end_at
      /\ f.gpu_count = row.gpu_count /\ f.gpu_ids = row.gpu_ids
      /\ f.cancelled_at = row.cancelled_at /\ f.updated_at = row.updated_at
      /\ f.created_at = row.created_at
    BY <1>1 DEF Flush, PlanRow
<1>3. f \in PlanRow
    BY FlushIsRow
<1>. HIDE DEF f
<1>4. f = row
    BY <1>2, <1>3 DEF PlanRow
<1>. QED
    BY <1>4 DEF f

LEMMA CommitIsContractStep ==
    ASSUME IInv, Made, AInv, SInv, NEW r \in Requests, Commit(r)
    PROVE  Promise!ContractNext
<1>. DEFINE q == req[r]
            p == q.plan
            stamp == q.row.updated_at
<1>1. /\ q.pc = "commit" /\ q.op \in Operations /\ p \in Requests /\ q.actor \in Users
      /\ Staged(r) /\ Backed(r) /\ Current(r) /\ q.row \in PlanRow /\ stamp \in Stamps
    BY DEF IInv, AInv, SInv, Commit, Staged, InFlight, HoldsPlan, Sound, PlanRow
<1>2. /\ audits' = audits \cup {Event(r)}
      /\ \A a \in audits : a.id # r
      /\ q.op = "create" => plans[p] = None
      /\ q.op # "create" => plans[p] # None
    BY CommitWrites
<1>3. ASSUME q.op # "create" PROVE Flush(plans[p], q.seen, q.row) = q.row
  <2>1. /\ plans[p] \in PlanRow /\ q.seen = plans[p]
        /\ q.row.owner_id = plans[p].owner_id /\ q.row.created_at = plans[p].created_at
      BY <1>1, <1>2, <1>3
         DEF IInv, Rows, Sound, Current, Backed, HoldsPlan, Plan
  <2>. QED
      BY <1>1, <2>1, FlushWritesRow
<1>4. plans' = [plans EXCEPT ![p] = q.row]
    BY <1>3 DEF Commit
<1>5. Promise!Record(p, ActionOf[q.op], q.actor, stamp)
  <2>1. stamp \in Promise!Stamps /\ \A a \in audits : a.occurred_at < stamp
      BY <1>1 DEF Current, Promise!Stamps, Stamps
  <2>. QED
      BY <1>2, <2>1 DEF Promise!Record, Event
<1>6. stamp \in {a.occurred_at : a \in audits'}
  <2>1. Event(r) \in audits' /\ Event(r).occurred_at = stamp
      BY <1>2 DEF Event
  <2>. QED
      BY <2>1
<1>7. CASE q.op = "create"
  <2>1. \E body \in PlanCreates : plans' = [plans EXCEPT ![p] = NewRow(body, q.actor, stamp)]
      BY <1>1, <1>4, <1>7 DEF Current
  <2>2. Promise!Record(p, "created", q.actor, stamp)
      BY <1>5, <1>7 DEF ActionOf
  <2>3. Promise!Create(p, q.actor, stamp)
      BY <1>2, <1>7, <2>1, <2>2 DEF Promise!Create, Promise!NewRow, NewRow
  <2>. QED
      BY <1>1, <1>6, <2>3 DEF Promise!ContractNext
<1>8. CASE q.op = "update"
  <2>1. PICK body \in PlanUpdates : ~Nulled(body) /\ q.row = Merge(plans[p], body, stamp)
      BY <1>1, <1>8 DEF Current, Plan
  <2>2. Valid(Merge(plans[p], body, stamp))
      BY <1>1, <1>8, <2>1 DEF Current
  <2>3. Promise!Record(p, "updated", q.actor, stamp)
      BY <1>5, <1>8 DEF ActionOf
  <2>4. Promise!Merge(plans[p], body, stamp) = Merge(plans[p], body, stamp)
      BY DEF Promise!Merge, Merge, Promise!Given, Given
  <2>5. Promise!Valid(Promise!Merge(plans[p], body, stamp))
      BY <2>2, <2>4 DEF Promise!Valid, Valid, Promise!ValidWindow, ValidWindow,
                        Promise!GpuAgree, GpuAgree, Promise!Cardinality, Cardinality
  <2>6. ~Promise!Nulled(body)
      BY <2>1 DEF Promise!Nulled, Nulled
  <2>7. Promise!Update(p, q.actor, stamp)
      BY <1>2, <1>4, <1>8, <2>1, <2>3, <2>4, <2>5, <2>6 DEF Promise!Update
  <2>. QED
      BY <1>1, <1>6, <2>7 DEF Promise!ContractNext
<1>9. CASE q.op = "cancel"
  <2>1. plans[p].cancelled_at = None /\ q.row = Cancelled(plans[p], stamp)
      BY <1>1, <1>9 DEF Current, Plan
  <2>2. Promise!Record(p, "cancelled", q.actor, stamp)
      BY <1>5, <1>9 DEF ActionOf
  <2>3. Promise!Cancel(p, q.actor, stamp)
      BY <1>2, <1>4, <1>9, <2>1, <2>2 DEF Promise!Cancel, Promise!Cancelled, Cancelled
  <2>. QED
      BY <1>1, <1>6, <2>3 DEF Promise!ContractNext
<1>. QED
    BY <1>1, <1>7, <1>8, <1>9 DEF Operations

\* Served one at a time, create, update and cancel are single operations on the table and
\* its trail, for any set of requests, users, servers and bodies.
THEOREM SerialPlansKeepContract == SerialPlans => SerialKeepsContract
<1>1. SerialPlans => Spec
    BY PTL DEF SerialPlans, Spec
<1>2. SerialPlans => []SInv
    BY <1>1, InitSInv, NextSInv, AlwaysIInv, PTL DEF SerialPlans
<1>3. Init => Promise!ContractInit
    BY DEF Init, Promise!ContractInit
<1>4. IInv /\ Made /\ AInv /\ SInv /\ [Next]_vars
        => [Promise!ContractNext]_(Promise!contractVars)
  <2>. SUFFICES ASSUME IInv, Made, AInv, SInv, [Next]_vars
                PROVE  Promise!ContractNext \/ UNCHANGED <<plans, audits>>
      BY DEF Promise!contractVars
  <2>1. ASSUME NEW r \in Requests, Handle(r)
        PROVE  Promise!ContractNext \/ UNCHANGED <<plans, audits>>
      BY <2>1, OnlyCommitAudits, CommitIsContractStep
  <2>. QED
      BY <2>1 DEF Next, ServerCreated, UserRowSaved, vars
<1>. QED
    BY <1>1, <1>2, <1>3, <1>4, AlwaysIInv, AlwaysMade, AlwaysAInv, PTL
       DEF Spec, SerialPlans, SerialKeepsContract, Promise!Contract
=============================================================================
