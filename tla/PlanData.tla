------------------------------ MODULE PlanData ------------------------------
(***************************************************************************)
(* The plan entry as the Core stores and validates it: the columns that    *)
(* behave differently from one another, the bodies of the two writing      *)
(* endpoints, the merge of a partial update and the window validation.     *)
(*                                                                         *)
(* title stands for every optional or free-text column (title, project,    *)
(* cpu_cores, memory_gb, note): each is copied from the body and compared  *)
(* on its own when a row is saved. A plan's uuid4 id is named after the    *)
(* request that creates the plan.                                          *)
(***************************************************************************)
EXTENDS Naturals, FiniteSets

CONSTANTS
    Requests,      \* every HTTP request the Core ever receives; also the plan ids
    Users,         \* user ids
    Servers,       \* ids of managed servers, whether created yet or not
    Titles,        \* values of the free columns
    Gpus,          \* device numbers that a plan may name
    None,          \* SQL NULL, JSON null, "no row"
    Unset,         \* a field left out of a PATCH body
    PlanCreates,   \* the POST bodies that pass the contract
    PlanUpdates    \* the PATCH bodies that pass the contract

Counts == {None} \cup Nat
GpuSets == {None} \cup SUBSET Gpus

\* A reading of the clock: readings are counted, so that they are distinct and
\* ordered as they were taken.
Stamps == Nat

PlanRow ==
    [owner_id : Users, server_id : Servers, title : Titles,
     start_at : Nat, end_at : Nat, gpu_count : Counts, gpu_ids : GpuSets,
     cancelled_at : Stamps \cup {None}, created_at : Stamps, updated_at : Stamps]

CreateBody ==
    [server_id : Servers, title : Titles, start_at : Nat, end_at : Nat,
     gpu_count : Counts, gpu_ids : GpuSets]

UpdateBody ==
    [server_id : Servers \cup {None, Unset}, title : Titles \cup {None, Unset},
     start_at : Nat \cup {None, Unset}, end_at : Nat \cup {None, Unset},
     gpu_count : {Unset} \cup Counts, gpu_ids : {Unset} \cup GpuSets]

\* validate_plan_window. The device numbers are a set: the contract turns away a
\* body that repeats one, and a merge takes the whole list from one side.
ValidWindow(row) == row.start_at < row.end_at

GpuAgree(row) ==
    row.gpu_ids # None /\ row.gpu_count # None
        => row.gpu_count = Cardinality(row.gpu_ids)

Valid(row) == ValidWindow(row) /\ GpuAgree(row)

\* Non-nullable columns that a PATCH body sets to null.
Nulled(body) ==
    None \in {body.server_id, body.title, body.start_at, body.end_at}

\* A field of a PATCH body if it was sent, else what the plan holds.
Given(field, stored) == IF field = Unset THEN stored ELSE field

\* Variant: an update may move a plan anywhere.
MovesUnchecked(row, body) == FALSE

Moves(row, body) == body.server_id \notin {Unset, row.server_id}

Merge(row, body, stamp) ==
    [row EXCEPT !.server_id = Given(body.server_id, @),
                !.title     = Given(body.title, @),
                !.start_at  = Given(body.start_at, @),
                !.end_at    = Given(body.end_at, @),
                !.gpu_count = Given(body.gpu_count, @),
                !.gpu_ids   = Given(body.gpu_ids, @),
                !.updated_at = stamp]

\* Variant: create leaves updated_at to the first update.
NewRowUnstamped(body, owner, stamp) ==
    [owner_id |-> owner, server_id |-> body.server_id, title |-> body.title,
     start_at |-> body.start_at, end_at |-> body.end_at,
     gpu_count |-> body.gpu_count, gpu_ids |-> body.gpu_ids,
     cancelled_at |-> None, created_at |-> stamp, updated_at |-> None]

NewRow(body, owner, stamp) ==
    [owner_id |-> owner, server_id |-> body.server_id, title |-> body.title,
     start_at |-> body.start_at, end_at |-> body.end_at,
     gpu_count |-> body.gpu_count, gpu_ids |-> body.gpu_ids,
     cancelled_at |-> None, created_at |-> stamp, updated_at |-> stamp]

Cancelled(row, stamp) ==
    [row EXCEPT !.cancelled_at = stamp, !.updated_at = stamp]

\* None and Unset are told apart from every value they may stand in for.
ASSUME SentinelsAssumption ==
    /\ None # Unset
    /\ {None, Unset} \cap (Nat \cup Users \cup Servers \cup Titles) = {}
    /\ {None, Unset} \cap (PlanCreates \cup PlanUpdates) = {}
    /\ \A ids \in SUBSET Gpus : ids \notin {None, Unset}
    /\ None \notin PlanRow

\* PlanUpdate's own validator sees the body alone: it can only compare what was sent.
AcceptedUpdate(body) ==
    /\ {body.start_at, body.end_at} \cap {None, Unset} = {} => ValidWindow(body)
    /\ Unset \notin {body.gpu_count, body.gpu_ids} => GpuAgree(body)

\* The contract's own checks have passed on every body that reaches a handler.
ASSUME BodiesAssumption ==
    /\ PlanCreates \subseteq {body \in CreateBody : Valid(body)}
    /\ PlanUpdates \subseteq {body \in UpdateBody : AcceptedUpdate(body)}
=============================================================================
