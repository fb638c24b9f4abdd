----------------------------- MODULE Migrations -----------------------------
(***************************************************************************)
(* The schema of the database file and the three revisions that build it,  *)
(* as sequences of statements. SQLite is run in autocommit (env.py), so    *)
(* that every statement is a transaction of its own; the version is        *)
(* stamped by one more statement after the last of a revision.             *)
(*                                                                         *)
(* A table, an index or a column is a part of the schema. Of the rows only *)
(* those are kept that a revision moves: reservations, of which some have  *)
(* come from a task request, and the plans they are converted into.        *)
(***************************************************************************)
EXTENDS Naturals, Sequences

CONSTANT Ids   \* ids of reservations and plans; a reservation keeps its id as a plan

Reservation == [id : Ids, requested : BOOLEAN, status : {"planned", "cancelled"}]
Plan == [id : Ids, cancelled : BOOLEAN]

Create(part) == [do |-> "create", part |-> part]
Drop(part) == [do |-> "drop", part |-> part]
CopyReservations == [do |-> "copy", part |-> "plan_entries"]
Stamp == [do |-> "stamp", part |-> "alembic_version"]

InitialCore ==
    <<Create("users"), Create("managed_servers"), Create("task_requests"),
      Create("reservations"), Create("audit_events")>>

\* Variant: task_requests goes first, while reservations still refer to its rows.
SimplePlanningRequestsFirst ==
    <<Create("plan_entries"), Create("ix_plan_entries_server_window"),
      Create("ix_plan_entries_owner_start"), CopyReservations,
      Drop("task_requests"), Drop("reservations")>>

SimplePlanning ==
    <<Create("plan_entries"), Create("ix_plan_entries_server_window"),
      Create("ix_plan_entries_owner_start"), CopyReservations,
      Drop("reservations"), Drop("task_requests")>>

Auth == <<Create("users.password_hash"), Create("auth_sessions")>>

Revisions ==
    <<Append(InitialCore, Stamp), Append(SimplePlanning, Stamp), Append(Auth, Stamp)>>

Newest == Len(Revisions)

Parts == UNION {{Revisions[v][k].part : k \in DOMAIN Revisions[v]} : v \in 1 .. Newest}

\* What a file holds after the first v revisions.
Schema(v) ==
    {part \in Parts :
        /\ \E w \in 1 .. v : \E k \in DOMAIN Revisions[w] : Revisions[w][k] = Create(part)
        /\ \A w \in 1 .. v : \A k \in DOMAIN Revisions[w] : Revisions[w][k] # Drop(part)}

\* What the tables of models.py need.
ModelParts ==
    {"users", "users.password_hash", "auth_sessions", "managed_servers", "audit_events",
     "plan_entries", "ix_plan_entries_server_window", "ix_plan_entries_owner_start"}

\* reservations and plans are the rows of the tables of these names, none while there is
\* no such table.
Database ==
    [parts : SUBSET Parts, version : 0 .. Newest,
     reservations : SUBSET Reservation, plans : SUBSET Plan]

Empty == [parts |-> {}, version |-> 0, reservations |-> {}, plans |-> {}]

-----------------------------------------------------------------------------
(* One statement.                                                          *)

\* A table that rows of another table refer to cannot be dropped: foreign keys are on.
Referenced(part, db) ==
    part = "task_requests" /\ \E r \in db.reservations : r.requested

\* The statement succeeds; otherwise alembic and with it the container's command exit.
Runs(statement, db) ==
    CASE statement.do = "create" -> statement.part \notin db.parts
      [] statement.do = "drop" -> statement.part \in db.parts /\ ~Referenced(statement.part, db)
      [] statement.do = "copy" -> {"reservations", "task_requests"} \subseteq db.parts
      [] OTHER -> TRUE

\* Variant: an inner join, for reservations always come from a request.
ConvertedInner(db) ==
    {[id |-> r.id, cancelled |-> r.status = "cancelled"] :
       r \in {s \in db.reservations : s.requested}}

\* The left join keeps reservations that have no request.
Converted(db) ==
    {[id |-> r.id, cancelled |-> r.status = "cancelled"] : r \in db.reservations}

Applied(statement, db) ==
    CASE statement.do = "create" -> [db EXCEPT !.parts = @ \cup {statement.part}]
      [] statement.do = "drop" ->
           [db EXCEPT !.parts = @ \ {statement.part},
                      !.reservations = IF statement.part = "reservations" THEN {} ELSE @]
      [] statement.do = "copy" -> [db EXCEPT !.plans = @ \cup Converted(db)]
      [] OTHER -> [db EXCEPT !.version = @ + 1]

\* What users have published, whichever table it is in.
Published(db) ==
    db.plans \cup {[id |-> r.id, cancelled |-> r.status = "cancelled"] : r \in db.reservations}
=============================================================================
