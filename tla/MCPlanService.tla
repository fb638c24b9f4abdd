--------------------------- MODULE MCPlanService ---------------------------
(***************************************************************************)
(* Instances of PlanService for TLC: two users, one of them an             *)
(* administrator, two servers, one device, windows inside 1 .. 3.          *)
(***************************************************************************)
EXTENDS PlanSerial, TLC

CONSTANTS r1, r2, r3, r4, alice, root, gpu1, box1, box2

Body(server, start, end, count, ids) ==
    [server_id |-> server, title |-> "a", start_at |-> start, end_at |-> end,
     gpu_count |-> count, gpu_ids |-> ids]

NoChange == [server_id |-> Unset, title |-> Unset, start_at |-> Unset, end_at |-> Unset,
             gpu_count |-> Unset, gpu_ids |-> Unset]

MCCreates == {Body(box1, 1, 3, None, None)}
NoCreates == {}

\* Each end of the window alone.
Reschedules == {[NoChange EXCEPT !.start_at = 2], [NoChange EXCEPT !.end_at = 2]}

\* A count alone and a device alone: each agrees with a plan that declares neither.
GpuUpdates ==
    {[NoChange EXCEPT !.gpu_count = 2], [NoChange EXCEPT !.gpu_ids = {gpu1}]}

\* All of these, a move to the other server, and a title that is sent as null.
AllUpdates ==
    Reschedules \cup GpuUpdates
        \cup {[NoChange EXCEPT !.server_id = box2], [NoChange EXCEPT !.title = None]}

\* Users keep their role and stay enabled.
SteadySpec == Init /\ [][Next /\ UNCHANGED users]_vars

\* The same from the reachable state in which r1 has created a plan, so that the other
\* requests are all free to meet on it.
SeededInit ==
    /\ users = [u \in Users |-> [role |-> "member", enabled |-> TRUE]]
    /\ servers = [s \in Servers |-> "enabled"]
    /\ plans = [p \in Requests |->
                  IF p = r1 THEN NewRow(Body(box1, 1, 3, None, None), alice, 0) ELSE None]
    /\ audits = {[id |-> r1, entity_id |-> r1, action |-> "created",
                  actor_id |-> alice, occurred_at |-> 0]}
    /\ req = [r \in Requests |->
                IF r = r1 THEN [Idle EXCEPT !.pc = "done", !.op = "create", !.plan = r1,
                                            !.actor = alice, !.role = "member"]
                          ELSE Idle]
    /\ clock = 1
SeededSpec == SeededInit /\ [][Next /\ UNCHANGED users]_vars

Interchangeable == Permutations(Requests)
=============================================================================
