-------------------------- MODULE DeploymentProofs --------------------------
(***************************************************************************)
(* Proofs about Deployment, for any first files, any plans published after *)
(* the upgrade and any number of kills and scripts.                        *)
(*                                                                         *)
(* The sixteen statements of the three revisions are numbered; at any time *)
(* the database is what some number of them makes of an empty one          *)
(* (Progress), and a container in the middle of a revision has come        *)
(* exactly that far (Upgrading). A number that no finished revision ends   *)
(* with has a container that will go on from it, or a cut (Whole).         *)
(***************************************************************************)
EXTENDS Deployment, TLAPS

Bases == {0, 6, 13, 16}

\* The statement that creates a part, and the one that drops it.
Born(part) ==
    CASE part = "users" -> 1
      [] part = "managed_servers" -> 2
      [] part = "task_requests" -> 3
      [] part = "reservations" -> 4
      [] part = "audit_events" -> 5
      [] part = "plan_entries" -> 7
      [] part = "ix_plan_entries_server_window" -> 8
      [] part = "ix_plan_entries_owner_start" -> 9
      [] part = "users.password_hash" -> 14
      [] part = "auth_sessions" -> 15
      [] OTHER -> 17

Left(part) ==
    CASE part = "reservations" -> 11
      [] part = "task_requests" -> 12
      [] OTHER -> 17

VersionAt(n) == IF n < 6 THEN 0 ELSE IF n < 13 THEN 1 ELSE IF n < 16 THEN 2 ELSE 3

Has(n) == {part \in Parts : Born(part) <= n /\ n < Left(part)}

\* The database after n statements.
Progress(db, n) ==
    /\ n \in 0 .. 16
    /\ db.version = VersionAt(n)
    /\ db.parts = Has(n)
    /\ n \in 10 .. 12 => Converted(db) \subseteq db.plans
    /\ n \in 11 .. 12 => db.reservations = {}

\* The number of statements before the one that a container has come to.
Position(rev, k) == (CASE rev = 1 -> 0 [] rev = 2 -> 6 [] OTHER -> 13) + k - 1
Pos(c) == Position(box[c].rev, box[c].k)

Length(rev) == CASE rev = 1 -> 6 [] rev = 2 -> 7 [] OTHER -> 3

\* A journal belongs to a file that is being written; only a copy that was cut short
\* spoils a file without one.
DiskRight ==
    /\ writer # None => journal # None
    /\ journal # None => file = Damaged
    /\ file = Damaged /\ journal = None => script = "copying" \/ "copy" \in cut

\* Where the containers are at each step of a script. The job that is going to copy has
\* put back the journal of a killed Core, and nobody writes a new one.
ScriptRight ==
    /\ script \in {"preserve", "copy", "copying", "start"} => box["core"].at = "none"
    /\ script \in {"idle", "stop", "snapshot", "start"} => box["job"].at = "none"
    /\ script = "copying" => box["job"].at = "up" /\ journal = None
    /\ script \in {"preserve", "copy"} /\ box["job"].at \in {"upgrade", "up"} =>
         writer # None \/ journal = None
    /\ writer # None =>
         \/ box[writer].at = "upgrade"
         \/ writer = "core" /\ box["core"].at = "up"

\* A container that upgrades was right about the version, and once it has begun a
\* revision it is as far as the database.
Upgrading(c) ==
    box[c].at = "upgrade" =>
        /\ box[c].rev \in 1 .. 3
        /\ box[c].k \in 1 .. Length(box[c].rev)
        /\ Recovered # Damaged
        /\ box[c].rev <= Recovered.version + 1
        /\ MidRevision(c) => Progress(Recovered, Pos(c))

\* Only one container is behind the first statement of a revision.
Alone ==
    \A c, d \in Containers :
        /\ box[c].at = "upgrade" /\ box[c].k > 1
        /\ box[d].at = "upgrade" /\ box[d].k > 1
        => c = d

Whole ==
    Recovered # Damaged =>
        \E n \in 0 .. 16 :
            /\ Progress(Recovered, n)
            /\ \/ n \in Bases
               \/ "revision" \in cut
               \/ \E c \in Containers : box[c].at = "upgrade" /\ box[c].k > 1 /\ Pos(c) = n

Serving ==
    box["core"].at = "up" /\ "copy" \notin cut => Recovered # Damaged /\ Recovered.version = 3

BackupRight ==
    /\ backup \in [db : Database, cut : BOOLEAN]
    /\ \E n \in 0 .. 16 : Progress(backup.db, n) /\ (n \in Bases \/ backup.cut)

Live ==
    /\ \A c \in Containers : Upgrading(c)
    /\ Alone
    /\ Whole
    /\ Serving
    /\ NothingLost

IInv ==
    /\ TypeOK
    /\ DiskRight
    /\ ScriptRight
    /\ Live
    /\ BackupRight

-----------------------------------------------------------------------------
(* The revisions, statement by statement.                                  *)

LEMMA FirstRevision ==
    /\ Len(Revisions[1]) = 6
    /\ Revisions[1][1] = Create("users")
    /\ Revisions[1][2] = Create("managed_servers")
    /\ Revisions[1][3] = Create("task_requests")
    /\ Revisions[1][4] = Create("reservations")
    /\ Revisions[1][5] = Create("audit_events")
    /\ Revisions[1][6] = Stamp
    /\ DOMAIN Revisions[1] = 1 .. 6
PROOF
BY DEF Revisions, InitialCore

LEMMA SecondRevision ==
    /\ Len(Revisions[2]) = 7
    /\ Revisions[2][1] = Create("plan_entries")
    /\ Revisions[2][2] = Create("ix_plan_entries_server_window")
    /\ Revisions[2][3] = Create("ix_plan_entries_owner_start")
    /\ Revisions[2][4] = CopyReservations
    /\ Revisions[2][5] = Drop("reservations")
    /\ Revisions[2][6] = Drop("task_requests")
    /\ Revisions[2][7] = Stamp
    /\ DOMAIN Revisions[2] = 1 .. 7
PROOF
BY DEF Revisions, SimplePlanning

LEMMA ThirdRevision ==
    /\ Len(Revisions[3]) = 3
    /\ Revisions[3][1] = Create("users.password_hash")
    /\ Revisions[3][2] = Create("auth_sessions")
    /\ Revisions[3][3] = Stamp
    /\ DOMAIN Revisions[3] = 1 .. 3
PROOF
BY DEF Revisions, Auth

LEMMA Lengths == \A rev \in 1 .. 3 : Len(Revisions[rev]) = Length(rev)
PROOF
<1>1. Length(1) = 6 /\ Length(2) = 7 /\ Length(3) = 3
    BY DEF Length
<1>2. \A rev \in 1 .. 3 : rev = 1 \/ rev = 2 \/ rev = 3
    OBVIOUS
<1>. QED
    BY <1>1, <1>2, FirstRevision, SecondRevision, ThirdRevision, Zenon

LEMMA ThreeRevisions == Newest = 3
PROOF
BY DEF Newest, Revisions

Tables ==
    {"users", "managed_servers", "task_requests", "reservations", "audit_events",
     "plan_entries", "ix_plan_entries_server_window", "ix_plan_entries_owner_start",
     "users.password_hash", "auth_sessions", "alembic_version"}

LEMMA PartsAre == Parts = Tables
PROOF
<1>1. \A v \in 1 .. Newest : v = 1 \/ v = 2 \/ v = 3
    BY ThreeRevisions
<1>2. {Revisions[1][k].part : k \in DOMAIN Revisions[1]} =
        {"users", "managed_servers", "task_requests", "reservations", "audit_events",
         "alembic_version"}
    BY FirstRevision DEF Create, Stamp
<1>3. {Revisions[2][k].part : k \in DOMAIN Revisions[2]} =
        {"plan_entries", "ix_plan_entries_server_window", "ix_plan_entries_owner_start",
         "reservations", "task_requests", "alembic_version"}
    BY SecondRevision DEF Create, Drop, CopyReservations, Stamp
<1>4. {Revisions[3][k].part : k \in DOMAIN Revisions[3]} =
        {"users.password_hash", "auth_sessions", "alembic_version"}
    BY ThirdRevision DEF Create, Stamp
<1>5. 1 \in 1 .. Newest /\ 2 \in 1 .. Newest /\ 3 \in 1 .. Newest
    BY ThreeRevisions
<1> DEFINE G(v) == {Revisions[v][k].part : k \in DOMAIN Revisions[v]}
<1>6. Parts = UNION {G(v) : v \in 1 .. Newest}
    BY DEF Parts
<1>7. G(1) \cup G(2) \cup G(3) = Tables
    BY <1>2, <1>3, <1>4 DEF Tables
<1> HIDE DEF G
<1>8. UNION {G(v) : v \in 1 .. Newest} = G(1) \cup G(2) \cup G(3)
    BY <1>1, <1>5
<1>. QED
    BY <1>6, <1>7, <1>8

LEMMA Lifetimes ==
    /\ Born("users") = 1 /\ Left("users") = 17
    /\ Born("managed_servers") = 2 /\ Left("managed_servers") = 17
    /\ Born("task_requests") = 3 /\ Left("task_requests") = 12
    /\ Born("reservations") = 4 /\ Left("reservations") = 11
    /\ Born("audit_events") = 5 /\ Left("audit_events") = 17
    /\ Born("plan_entries") = 7 /\ Left("plan_entries") = 17
    /\ Born("ix_plan_entries_server_window") = 8 /\ Left("ix_plan_entries_server_window") = 17
    /\ Born("ix_plan_entries_owner_start") = 9 /\ Left("ix_plan_entries_owner_start") = 17
    /\ Born("users.password_hash") = 14 /\ Left("users.password_hash") = 17
    /\ Born("auth_sessions") = 15 /\ Left("auth_sessions") = 17
    /\ Born("alembic_version") = 17 /\ Left("alembic_version") = 17
PROOF
BY DEF Born, Left

LEMMA HasAt ==
    \A n \in 0 .. 16 :
        Has(n) =
          (IF n >= 1 THEN {"users"} ELSE {})
          \cup (IF n >= 2 THEN {"managed_servers"} ELSE {})
          \cup (IF n >= 3 /\ n < 12 THEN {"task_requests"} ELSE {})
          \cup (IF n >= 4 /\ n < 11 THEN {"reservations"} ELSE {})
          \cup (IF n >= 5 THEN {"audit_events"} ELSE {})
          \cup (IF n >= 7 THEN {"plan_entries"} ELSE {})
          \cup (IF n >= 8 THEN {"ix_plan_entries_server_window"} ELSE {})
          \cup (IF n >= 9 THEN {"ix_plan_entries_owner_start"} ELSE {})
          \cup (IF n >= 14 THEN {"users.password_hash"} ELSE {})
          \cup (IF n >= 15 THEN {"auth_sessions"} ELSE {})
PROOF
BY PartsAre, Lifetimes DEF Has, Tables

LEMMA BaseSchemas ==
    /\ Schema(0) = Has(0)
    /\ Schema(1) = Has(6)
    /\ Schema(2) = Has(13)
    /\ Schema(3) = Has(16)
PROOF
<1>1. \A part \in Parts, k \in DOMAIN Revisions[1] :
        /\ Revisions[1][k] # Drop(part)
        /\ Revisions[1][k] = Create(part) => Born(part) < 6
    BY FirstRevision, PartsAre, Lifetimes DEF Create, Drop, Stamp, Tables
<1>2. \A part \in Parts, k \in DOMAIN Revisions[2] :
        /\ Revisions[2][k] = Drop(part) => part \in {"reservations", "task_requests"}
        /\ Revisions[2][k] = Create(part) => Born(part) \in 7 .. 12
    BY SecondRevision, PartsAre, Lifetimes DEF Create, Drop, Stamp, CopyReservations, Tables
<1>3. \A part \in Parts, k \in DOMAIN Revisions[3] :
        /\ Revisions[3][k] # Drop(part)
        /\ Revisions[3][k] = Create(part) => Born(part) \in 14 .. 15
    BY ThirdRevision, PartsAre, Lifetimes DEF Create, Drop, Stamp, Tables
<1>4. \A part \in Parts :
        /\ Born(part) < 6 => \E k \in DOMAIN Revisions[1] : Revisions[1][k] = Create(part)
        /\ Born(part) \in 7 .. 12 => \E k \in DOMAIN Revisions[2] : Revisions[2][k] = Create(part)
        /\ Born(part) \in 14 .. 15 => \E k \in DOMAIN Revisions[3] : Revisions[3][k] = Create(part)
    BY FirstRevision, SecondRevision, ThirdRevision, PartsAre, Lifetimes DEF Tables
<1>5. /\ \E k \in DOMAIN Revisions[2] : Revisions[2][k] = Drop("reservations")
      /\ \E k \in DOMAIN Revisions[2] : Revisions[2][k] = Drop("task_requests")
    BY SecondRevision
<1> DEFINE C(part, v) == \E k \in DOMAIN Revisions[v] : Revisions[v][k] = Create(part)
           D(part, v) == \E k \in DOMAIN Revisions[v] : Revisions[v][k] = Drop(part)
<1>6. \A part \in Parts :
        /\ C(part, 1) <=> Born(part) < 6
        /\ C(part, 2) <=> Born(part) \in 7 .. 12
        /\ C(part, 3) <=> Born(part) \in 14 .. 15
        /\ ~D(part, 1) /\ ~D(part, 3)
        /\ D(part, 2) <=> part \in {"reservations", "task_requests"}
    BY <1>1, <1>2, <1>3, <1>4, <1>5
<1>7. \A v \in 0 .. 3 :
        Schema(v) = {part \in Parts : /\ \E w \in 1 .. v : C(part, w)
                                      /\ \A w \in 1 .. v : ~D(part, w)}
    BY DEF Schema
<1> HIDE DEF C, D
<1>8. Schema(0) = {}
    BY <1>7
<1>9. Schema(1) = {part \in Parts : Born(part) < 6}
  <2>1. \A w \in 1 .. 1 : w = 1
    OBVIOUS
  <2>. QED
    BY <1>6, <1>7, <2>1
<1>10. Schema(2) = {part \in Parts : /\ Born(part) < 6 \/ Born(part) \in 7 .. 12
                                     /\ part \notin {"reservations", "task_requests"}}
  <2>1. \A w \in 1 .. 2 : w = 1 \/ w = 2
    OBVIOUS
  <2>2. 1 \in 1 .. 2 /\ 2 \in 1 .. 2
    OBVIOUS
  <2>. QED
    BY <1>6, <1>7, <2>1, <2>2
<1>11. Schema(3) = {part \in Parts : /\ \/ Born(part) < 6 \/ Born(part) \in 7 .. 12
                                        \/ Born(part) \in 14 .. 15
                                     /\ part \notin {"reservations", "task_requests"}}
  <2>1. \A w \in 1 .. 3 : w = 1 \/ w = 2 \/ w = 3
    OBVIOUS
  <2>2. 1 \in 1 .. 3 /\ 2 \in 1 .. 3 /\ 3 \in 1 .. 3
    OBVIOUS
  <2>. QED
    BY <1>6, <1>7, <2>1, <2>2
<1>12. Schema(0) = Has(0)
    BY <1>8, HasAt
<1>13. Schema(1) = Has(6)
    BY <1>9, PartsAre, Lifetimes DEF Has, Tables
<1>14. Schema(2) = Has(13)
    BY <1>10, PartsAre, Lifetimes DEF Has, Tables
<1>15. Schema(3) = Has(16)
    BY <1>11, PartsAre, Lifetimes DEF Has, Tables
<1>. QED
    BY <1>12, <1>13, <1>14, <1>15

-----------------------------------------------------------------------------
(* One statement after the other.                                          *)

\* What a statement of each kind asks for and does.
LEMMA Creating ==
    ASSUME NEW part, NEW db
    PROVE  /\ Runs(Create(part), db) <=> part \notin db.parts
           /\ Applied(Create(part), db) = [db EXCEPT !.parts = @ \cup {part}]
PROOF
BY DEF Runs, Applied, Create

LEMMA Dropping ==
    ASSUME NEW part, NEW db
    PROVE  /\ Runs(Drop(part), db) <=> part \in db.parts /\ ~Referenced(part, db)
           /\ Applied(Drop(part), db) =
                [db EXCEPT !.parts = @ \ {part},
                           !.reservations = IF part = "reservations" THEN {} ELSE @]
PROOF
BY DEF Runs, Applied, Drop

LEMMA Copying ==
    ASSUME NEW db
    PROVE  /\ Runs(CopyReservations, db) <=> {"reservations", "task_requests"} \subseteq db.parts
           /\ Applied(CopyReservations, db) = [db EXCEPT !.plans = @ \cup Converted(db)]
PROOF
BY DEF Runs, Applied, CopyReservations

LEMMA Stamping ==
    ASSUME NEW db
    PROVE  /\ Runs(Stamp, db)
           /\ Applied(Stamp, db) = [db EXCEPT !.version = @ + 1]
PROOF
BY DEF Runs, Applied, Stamp

\* A row of the old table becomes a row of the new one with the same id.
LEMMA ConvertedPlans == \A db \in Database : Converted(db) \subseteq Plan
PROOF
<1>1. \A r \in Reservation : [id |-> r.id, cancelled |-> r.status = "cancelled"] \in Plan
    BY DEF Reservation, Plan
<1>2. \A db \in Database : db.reservations \subseteq Reservation
    BY DEF Database
<1>. QED
    BY <1>1, <1>2 DEF Converted

LEMMA PublishedIs == \A db : Published(db) = db.plans \cup Converted(db)
PROOF
BY DEF Published, Converted

\* Take(n): the statement after n others runs, and the database is then one further with
\* the same plans published.
Takes(statement, db, n) ==
    /\ Runs(statement, db)
    /\ Applied(statement, db) \in Database
    /\ Progress(Applied(statement, db), n + 1)
    /\ Published(Applied(statement, db)) = Published(db)
    /\ Applied(statement, db).version >= db.version

LEMMA CreateTakes ==
    ASSUME NEW db \in Database, NEW n \in 0 .. 15, NEW part \in Parts, Progress(db, n),
           Born(part) = n + 1, n + 1 \notin {6, 10, 11, 12, 13, 16}
    PROVE  Takes(Create(part), db, n)
PROOF
<1> DEFINE e == Applied(Create(part), db)
<1>1. Left(part) > n + 1 /\ part \notin Has(n)
    BY PartsAre, Lifetimes DEF Has, Tables
<1>2. Has(n + 1) = Has(n) \cup {part}
    BY PartsAre, Lifetimes DEF Has, Tables
<1>3. e = [db EXCEPT !.parts = @ \cup {part}]
    BY Creating
<1>4. /\ e \in Database
      /\ e.parts = db.parts \cup {part} /\ e.version = db.version
      /\ e.reservations = db.reservations /\ e.plans = db.plans
    BY <1>3 DEF Database
<1>5. Converted(e) = Converted(db)
    BY <1>4 DEF Converted
<1>6. VersionAt(n + 1) = VersionAt(n)
    BY DEF VersionAt
<1>7. Runs(Create(part), db)
    BY <1>1, Creating DEF Progress
<1>8. db.version \in Nat
    BY ThreeRevisions DEF Database
<1>9. n + 1 \in 0 .. 16 /\ n + 1 \notin 10 .. 12
    OBVIOUS
<1>10. Progress(e, n + 1)
    BY <1>2, <1>4, <1>6, <1>9 DEF Progress
<1>11. Published(e) = Published(db)
    BY <1>4, <1>5, PublishedIs
<1>. QED
    BY <1>4, <1>7, <1>8, <1>10, <1>11 DEF Takes

LEMMA StampTakes ==
    ASSUME NEW db \in Database, NEW n \in {5, 12, 15}, Progress(db, n)
    PROVE  Takes(Stamp, db, n)
PROOF
<1> DEFINE e == Applied(Stamp, db)
<1>1. Has(n + 1) = Has(n)
    BY PartsAre, Lifetimes DEF Has, Tables
<1>2. VersionAt(n + 1) = VersionAt(n) + 1 /\ VersionAt(n) \in 0 .. 2
    BY DEF VersionAt
<1>3. e = [db EXCEPT !.version = @ + 1]
    BY Stamping
<1>4. /\ e \in Database
      /\ e.parts = db.parts /\ e.version = db.version + 1
      /\ e.reservations = db.reservations /\ e.plans = db.plans
    BY <1>2, <1>3, ThreeRevisions DEF Database, Progress
<1>5. Converted(e) = Converted(db)
    BY <1>4 DEF Converted
<1>6. n + 1 \in 0 .. 16 /\ n + 1 \notin 10 .. 12
    OBVIOUS
<1>7. Progress(e, n + 1)
    BY <1>1, <1>2, <1>4, <1>6 DEF Progress
<1>8. Published(e) = Published(db)
    BY <1>4, <1>5, PublishedIs
<1>9. Runs(Stamp, db) /\ db.version \in Nat
    BY Stamping, ThreeRevisions DEF Database
<1>. QED
    BY <1>4, <1>7, <1>8, <1>9 DEF Takes

\* The conversion: the left join keeps every reservation.
LEMMA CopyTakes ==
    ASSUME NEW db \in Database, Progress(db, 9)
    PROVE  Takes(CopyReservations, db, 9)
PROOF
<1> DEFINE e == Applied(CopyReservations, db)
<1>1. Has(10) = Has(9) /\ {"reservations", "task_requests"} \subseteq Has(9)
    BY PartsAre, Lifetimes DEF Has, Tables
<1>2. VersionAt(10) = VersionAt(9)
    BY DEF VersionAt
<1>3. e = [db EXCEPT !.plans = @ \cup Converted(db)]
    BY Copying
<1>4. /\ e \in Database
      /\ e.parts = db.parts /\ e.version = db.version
      /\ e.reservations = db.reservations /\ e.plans = db.plans \cup Converted(db)
    BY <1>3, ConvertedPlans DEF Database
<1>5. Converted(e) = Converted(db)
    BY <1>4 DEF Converted
<1>6. Progress(e, 10)
    BY <1>1, <1>2, <1>4, <1>5 DEF Progress
<1>7. Published(e) = Published(db)
    BY <1>4, <1>5, PublishedIs
<1>8. Runs(CopyReservations, db) /\ db.version \in Nat
    BY <1>1, Copying, ThreeRevisions DEF Database, Progress
<1>. QED
    BY <1>4, <1>6, <1>7, <1>8 DEF Takes

\* The reservations go when all of them have been converted.
LEMMA DropReservationsTakes ==
    ASSUME NEW db \in Database, Progress(db, 10)
    PROVE  Takes(Drop("reservations"), db, 10)
PROOF
<1> DEFINE e == Applied(Drop("reservations"), db)
<1>1. Has(11) = Has(10) \ {"reservations"} /\ "reservations" \in Has(10)
    BY PartsAre, Lifetimes DEF Has, Tables
<1>2. VersionAt(11) = VersionAt(10)
    BY DEF VersionAt
<1>3. e = [db EXCEPT !.parts = @ \ {"reservations"}, !.reservations = {}]
    BY Dropping
<1>4. /\ e \in Database
      /\ e.parts = db.parts \ {"reservations"} /\ e.version = db.version
      /\ e.reservations = {} /\ e.plans = db.plans
    BY <1>3 DEF Database
<1>5. Converted(e) = {} /\ Converted(db) \subseteq db.plans
    BY <1>4 DEF Converted, Progress
<1>6. Progress(e, 11)
    BY <1>1, <1>2, <1>4, <1>5 DEF Progress
<1>7. Published(e) = Published(db)
    BY <1>4, <1>5, PublishedIs
<1>8. ~Referenced("reservations", db)
    BY DEF Referenced
<1>9. Runs(Drop("reservations"), db)
    BY <1>1, <1>8, Dropping DEF Progress
<1>10. db.version \in Nat
    BY ThreeRevisions DEF Database
<1>. QED
    BY <1>4, <1>6, <1>7, <1>9, <1>10 DEF Takes

\* No row refers to the requests any more.
LEMMA DropRequestsTakes ==
    ASSUME NEW db \in Database, Progress(db, 11)
    PROVE  Takes(Drop("task_requests"), db, 11)
PROOF
<1> DEFINE e == Applied(Drop("task_requests"), db)
<1>1. Has(12) = Has(11) \ {"task_requests"} /\ "task_requests" \in Has(11)
    BY PartsAre, Lifetimes DEF Has, Tables
<1>2. VersionAt(12) = VersionAt(11)
    BY DEF VersionAt
<1>3. e = [db EXCEPT !.parts = @ \ {"task_requests"}, !.reservations = @]
    BY Dropping
<1>4. /\ e \in Database
      /\ e.parts = db.parts \ {"task_requests"} /\ e.version = db.version
      /\ e.reservations = db.reservations /\ e.plans = db.plans
    BY <1>3 DEF Database
<1>5. Converted(e) = Converted(db)
    BY <1>4 DEF Converted
<1>6. db.reservations = {} /\ Converted(db) \subseteq db.plans
    BY DEF Progress
<1>7. Progress(e, 12)
    BY <1>1, <1>2, <1>4, <1>5, <1>6 DEF Progress
<1>8. Published(e) = Published(db)
    BY <1>4, <1>5, PublishedIs
<1>9. ~Referenced("task_requests", db)
    BY <1>6 DEF Referenced
<1>10. Runs(Drop("task_requests"), db)
    BY <1>1, <1>9, Dropping DEF Progress
<1>11. db.version \in Nat
    BY ThreeRevisions DEF Database
<1>. QED
    BY <1>4, <1>7, <1>8, <1>10, <1>11 DEF Takes

\* The statement that a container has come to is the next one of the database.
LEMMA StatementTakes ==
    ASSUME NEW db \in Database, NEW rev \in 1 .. 3, NEW k \in 1 .. Length(rev),
           Progress(db, Position(rev, k))
    PROVE  Takes(Revisions[rev][k], db, Position(rev, k))
PROOF
<1>1. CASE rev = 1
  <2>1. k \in 1 .. 6 /\ Position(rev, k) = k - 1
      BY <1>1 DEF Length, Position
  <2>2. CASE k = 6
      BY <1>1, <2>1, <2>2, StampTakes, FirstRevision
  <2>3. CASE k \in 1 .. 5
    <3>1. PICK part \in Parts : Revisions[1][k] = Create(part) /\ Born(part) = k
        BY <2>3, FirstRevision, Lifetimes, PartsAre DEF Tables
    <3>. QED
        BY <1>1, <2>1, <2>3, <3>1, CreateTakes
  <2>. QED
      BY <2>1, <2>2, <2>3
<1>2. CASE rev = 2
  <2>1. k \in 1 .. 7 /\ Position(rev, k) = k + 5
      BY <1>2 DEF Length, Position
  <2>2. CASE k \in 1 .. 3
    <3>1. PICK part \in Parts : Revisions[2][k] = Create(part) /\ Born(part) = k + 6
        BY <2>2, SecondRevision, Lifetimes, PartsAre DEF Tables
    <3>. QED
        BY <1>2, <2>1, <2>2, <3>1, CreateTakes
  <2>3. CASE k = 4
      BY <1>2, <2>1, <2>3, CopyTakes, SecondRevision
  <2>4. CASE k = 5
      BY <1>2, <2>1, <2>4, DropReservationsTakes, SecondRevision
  <2>5. CASE k = 6
      BY <1>2, <2>1, <2>5, DropRequestsTakes, SecondRevision
  <2>6. CASE k = 7
      BY <1>2, <2>1, <2>6, StampTakes, SecondRevision
  <2>. QED
      BY <2>1, <2>2, <2>3, <2>4, <2>5, <2>6
<1>3. CASE rev = 3
  <2>1. k \in 1 .. 3 /\ Position(rev, k) = k + 12
      BY <1>3 DEF Length, Position
  <2>2. CASE k = 3
      BY <1>3, <2>1, <2>2, StampTakes, ThirdRevision
  <2>3. CASE k \in 1 .. 2
    <3>1. PICK part \in Parts : Revisions[3][k] = Create(part) /\ Born(part) = k + 13
        BY <2>3, ThirdRevision, Lifetimes, PartsAre DEF Tables
    <3>. QED
        BY <1>3, <2>1, <2>3, <3>1, CreateTakes
  <2>. QED
      BY <2>1, <2>2, <2>3
<1>. QED
    BY <1>1, <1>2, <1>3

\* The number of statements before a revision.
Base(rev) == Position(rev, 1)

\* A revision that is not beyond the next one can start only on a database that has come
\* exactly to it: later its first part is there already.
LEMMA StartsAtBase ==
    ASSUME NEW db \in Database, NEW rev \in 1 .. 3, NEW n \in 0 .. 16, Progress(db, n),
           rev <= db.version + 1, Runs(Revisions[rev][1], db)
    PROVE  n = Base(rev)
PROOF
<1> DEFINE part == CASE rev = 1 -> "users" [] rev = 2 -> "plan_entries"
                     [] OTHER -> "users.password_hash"
<1>1. /\ Revisions[rev][1] = Create(part)
      /\ part \in Parts /\ Born(part) = Base(rev) + 1 /\ Left(part) = 17
    BY FirstRevision, SecondRevision, ThirdRevision, Lifetimes, PartsAre
       DEF Tables, Base, Position
<1> HIDE DEF part
<1>2. part \notin Has(n)
    BY <1>1, Creating DEF Progress
<1>3. n < Base(rev) + 1
    BY <1>1, <1>2 DEF Has, Base, Position
<1>4. n >= Base(rev)
    BY DEF Progress, VersionAt, Base, Position
<1>. QED
    BY <1>3, <1>4 DEF Base, Position

\* And it does start there.
LEMMA BaseStarts ==
    ASSUME NEW db \in Database, NEW rev \in 1 .. 3, Progress(db, Base(rev))
    PROVE  /\ Runs(Revisions[rev][1], db)
           /\ \A n \in 0 .. 16 : Progress(db, n) => n = Base(rev)
           /\ db.version = rev - 1
PROOF
<1>1. 1 \in 1 .. Length(rev)
    BY DEF Length
<1>2. Runs(Revisions[rev][1], db)
    BY <1>1, StatementTakes DEF Base, Takes
<1>3. db.version = rev - 1
    BY DEF Progress, VersionAt, Base, Position
<1>. QED
    BY <1>2, <1>3, StartsAtBase

LEMMA PositionIs ==
    ASSUME NEW rev \in 1 .. 3, NEW k \in 1 .. Length(rev)
    PROVE  /\ Position(rev, k) \in 0 .. 15
           /\ k = 1 => Position(rev, k) = Base(rev)
           /\ Base(rev) \in Bases
           /\ k > 1 => Position(rev, k) \notin Bases
           /\ VersionAt(Position(rev, k)) = rev - 1
           /\ k < Length(rev) => Position(rev, k) + 1 = Position(rev, k + 1)
           /\ k = Length(rev) => /\ Position(rev, k) + 1 \in Bases
                                 /\ VersionAt(Position(rev, k) + 1) = rev
PROOF
BY DEF Position, Base, Length, Bases, VersionAt

-----------------------------------------------------------------------------
(* What a reader finds.                                                    *)

LEMMA Sentinels ==
    /\ None \notin Database /\ Damaged \notin Database /\ Damaged # None
    /\ None \notin Containers
    /\ FirstFiles \subseteq Database /\ NewPlans \subseteq Ids
    /\ Kills \in Nat /\ Scripts \in Nat
PROOF
BY DeploymentAssumption

LEMMA RecoveredIs ==
    ASSUME TypeOK, DiskRight
    PROVE  /\ Recovered = IF journal = None THEN file ELSE journal
           /\ Recovered \in Database \cup {Damaged}
           /\ Recovered = Damaged <=> journal = None /\ file = Damaged
PROOF
<1>1. Recovered = IF journal = None THEN file ELSE journal
    BY DEF Recovered, DiskRight
<1>. QED
    BY <1>1, Sentinels DEF TypeOK, DiskRight

LEMMA RecoveredAfter ==
    /\ journal' = None => Recovered' = file'
    /\ journal' # None /\ file' = Damaged => Recovered' = journal'
    /\ file' = file /\ journal' = journal => Recovered' = Recovered
PROOF
BY DEF Recovered

LEMMA Reading ==
    ASSUME TypeOK, DiskRight, Read
    PROVE  /\ writer = None /\ writer' = None /\ journal' = None
           /\ file' \in Database \cup {Damaged}
           /\ file' = Damaged => file = Damaged /\ journal = None
           /\ Recovered' = Recovered
PROOF
<1>1. writer = None /\ writer' = None /\ journal' = None /\ file' = Recovered
    BY DEF Read
<1>2. Recovered' = Recovered
    BY <1>1, RecoveredAfter
<1>. QED
    BY <1>1, <1>2, RecoveredIs

LEMMA BeginningToWrite ==
    ASSUME TypeOK, DiskRight, NEW c \in Containers, StartWriting(c)
    PROVE  /\ writer = None /\ writer' = c /\ writer' # None
           /\ file' = Damaged /\ journal' \in Database /\ journal' # None
           /\ Recovered' = Recovered /\ Recovered # Damaged
PROOF
<1>1. writer = None /\ Recovered # Damaged /\ writer' = c /\ journal' = Recovered /\ file' = Damaged
    BY DEF StartWriting
<1>2. journal' \in Database /\ journal' # None
    BY <1>1, RecoveredIs, Sentinels
<1>3. Recovered' = Recovered
    BY <1>1, <1>2, RecoveredAfter
<1>. QED
    BY <1>1, <1>2, <1>3, Sentinels

LEMMA EndingToWrite ==
    ASSUME TypeOK, DiskRight, writer # None, NEW db, FinishWriting(db)
    PROVE  /\ journal \in Database /\ Recovered = journal /\ Recovered # Damaged
           /\ writer' = None /\ journal' = None /\ file' = db
           /\ Recovered' = db
PROOF
<1>1. writer' = None /\ journal' = None /\ file' = db
    BY DEF FinishWriting
<1>2. journal # None
    BY DEF DiskRight
<1>3. journal \in Database
    BY <1>2 DEF TypeOK
<1>. QED
    BY <1>1, <1>2, <1>3, RecoveredIs, RecoveredAfter, Sentinels

-----------------------------------------------------------------------------
(* Types.                                                                  *)

LEMMA Places ==
    /\ \A place \in {"none", "open", "upgrade", "up", "failed"} :
         At(place) \in Box /\ At(place).at = place
    /\ \A rev \in 0 .. 3, k \in 0 .. 7 :
         /\ Statement(rev, k) \in Box
         /\ Statement(rev, k).at = "upgrade"
         /\ Statement(rev, k).rev = rev /\ Statement(rev, k).k = k
    /\ \A b \in Box : b.rev \in 0 .. 3 /\ b.k \in 0 .. 7
PROOF
BY ThreeRevisions DEF At, Statement, Box

LEMMA Moving ==
    ASSUME TypeOK, NEW c \in Containers, NEW b, Move(c, b)
    PROVE  /\ b \in Box => box' \in [Containers -> Box]
           /\ box'[c] = b
           /\ \A d \in Containers \ {c} : box'[d] = box[d]
PROOF
BY DEF TypeOK, Move

LEMMA BothContainers == "core" \in Containers /\ "job" \in Containers /\ "core" # "job"
PROOF
BY DEF Containers

-----------------------------------------------------------------------------
(* Types, the disk and the scripts. Each action, and what stays as it is.  *)

DiskInv == TypeOK /\ DiskRight /\ ScriptRight

LEMMA OpenDisk ==
    ASSUME DiskInv, NEW c \in Containers, Open(c)
    PROVE  DiskInv'
PROOF
<1>1. TypeOK /\ DiskRight /\ ScriptRight /\ Read /\ UNCHANGED <<rest, history>> /\ box[c].at = "open"
    BY DEF Open, DiskInv
<1>2. /\ writer = None /\ writer' = None /\ journal' = None
      /\ file' \in Database \cup {Damaged}
      /\ file' = Damaged => file = Damaged /\ journal = None
    BY <1>1, Reading
<1>3. \E b \in Box : Move(c, b)
  <2>1. Recovered # Damaged /\ Recovered.version < Newest =>
          Statement(Recovered.version + 1, 1) \in Box
      BY <1>1, RecoveredIs, ThreeRevisions, Places DEF Database
  <2>. QED
      BY <1>1, <2>1, Places DEF Open
<1>4. PICK b \in Box : Move(c, b)
    BY <1>3
<1>5. /\ box' \in [Containers -> Box]
      /\ \A d \in Containers \ {c} : box'[d] = box[d]
    BY <1>1, <1>4, Moving
<1>6. TypeOK'
    BY <1>1, <1>2, <1>5 DEF TypeOK, rest, history
<1>7. DiskRight'
    BY <1>1, <1>2 DEF DiskRight, rest, history
<1>8. ScriptRight'
    BY <1>1, <1>2, <1>5, BothContainers DEF ScriptRight, rest, Containers
<1>. QED
    BY <1>6, <1>7, <1>8 DEF DiskInv

LEMMA BeginDisk ==
    ASSUME DiskInv, NEW c \in Containers, Begin(c)
    PROVE  DiskInv'
PROOF
<1>1. /\ TypeOK /\ DiskRight /\ ScriptRight
      /\ StartWriting(c) /\ UNCHANGED <<box, rest, history>> /\ box[c].at = "upgrade"
    BY DEF Begin, DiskInv
<1>2. /\ writer = None /\ writer' = c /\ writer' # None
      /\ file' = Damaged /\ journal' \in Database /\ journal' # None
    BY <1>1, BeginningToWrite
<1>3. TypeOK'
    BY <1>1, <1>2 DEF TypeOK, rest, history
<1>4. DiskRight'
    BY <1>2 DEF DiskRight
<1>5. ScriptRight'
    BY <1>1, <1>2 DEF ScriptRight, rest, Containers
<1>. QED
    BY <1>3, <1>4, <1>5 DEF DiskInv

LEMMA FailDisk ==
    ASSUME DiskInv, NEW c \in Containers, Fail(c)
    PROVE  DiskInv'
PROOF
<1>1. /\ TypeOK /\ DiskRight /\ ScriptRight /\ Read /\ UNCHANGED <<rest, history>>
      /\ box[c].at = "upgrade" /\ Move(c, At("failed"))
    BY DEF Fail, DiskInv
<1>2. /\ writer = None /\ writer' = None /\ journal' = None
      /\ file' \in Database \cup {Damaged}
      /\ file' = Damaged => file = Damaged /\ journal = None
    BY <1>1, Reading
<1>3. /\ box' \in [Containers -> Box]
      /\ \A d \in Containers \ {c} : box'[d] = box[d]
      /\ box'[c].at = "failed"
    BY <1>1, Moving, Places
<1>4. TypeOK'
    BY <1>1, <1>2, <1>3 DEF TypeOK, rest, history
<1>5. DiskRight'
    BY <1>1, <1>2 DEF DiskRight, rest, history
<1>6. ScriptRight'
    BY <1>1, <1>2, <1>3, BothContainers DEF ScriptRight, rest, Containers
<1>. QED
    BY <1>4, <1>5, <1>6 DEF DiskInv

\* Restart, Up, RunJob and JobFailed: a container is moved, or a job cleared away.
LEMMA MoveDisk ==
    ASSUME DiskInv, Restart \/ Up \/ RunJob
    PROVE  DiskInv'
PROOF
<1>1. TypeOK /\ DiskRight /\ ScriptRight /\ UNCHANGED <<disk, rest, history>>
    BY DEF Restart, Up, RunJob, DiskInv
<1>2. PICK c \in Containers :
        /\ Move(c, At("open"))
        /\ box[c].at \in {"none", "failed"}
        /\ c = "core" => script = "idle" \/ box[c].at = "failed"
        /\ c = "job" => script \in JobSteps
    BY BothContainers DEF Restart, Up, RunJob
<1>3. /\ box' \in [Containers -> Box]
      /\ \A d \in Containers \ {c} : box'[d] = box[d]
      /\ box'[c].at = "open"
    BY <1>1, <1>2, Moving, Places
<1>4. TypeOK'
    BY <1>1, <1>3 DEF TypeOK, disk, rest, history
<1>5. DiskRight'
    BY <1>1 DEF DiskRight, disk, rest, history
<1>6. writer # c
    BY <1>1, <1>2, Sentinels DEF ScriptRight
<1>7. ScriptRight'
    BY <1>1, <1>2, <1>3, <1>6, BothContainers DEF ScriptRight, TypeOK, disk, rest, Containers, JobSteps
<1>. QED
    BY <1>4, <1>5, <1>7 DEF DiskInv

LEMMA BeginPlanDisk ==
    ASSUME DiskInv, BeginPlan
    PROVE  DiskInv'
PROOF
<1>1. /\ TypeOK /\ DiskRight /\ ScriptRight
      /\ StartWriting("core") /\ UNCHANGED <<box, rest, history>> /\ box["core"].at = "up"
    BY DEF BeginPlan, DiskInv
<1>2. /\ writer = None /\ writer' = "core" /\ writer' # None
      /\ file' = Damaged /\ journal' \in Database /\ journal' # None
    BY <1>1, BeginningToWrite, BothContainers
<1>3. TypeOK'
    BY <1>1, <1>2, BothContainers DEF TypeOK, rest, history
<1>4. DiskRight'
    BY <1>2 DEF DiskRight
<1>5. ScriptRight'
    BY <1>1, <1>2 DEF ScriptRight, rest, Containers
<1>. QED
    BY <1>3, <1>4, <1>5 DEF DiskInv

LEMMA StartScriptDisk ==
    ASSUME DiskInv, NEW step \in {"verify", "snapshot"}, StartScript(step)
    PROVE  DiskInv'
PROOF
<1>1. /\ TypeOK /\ DiskRight /\ ScriptRight
      /\ script = "idle" /\ scripts < Scripts /\ scripts' = scripts + 1 /\ script' = step
      /\ UNCHANGED <<disk, box, backup, kills, history>>
    BY DEF StartScript, DiskInv
<1>2. TypeOK'
    BY <1>1, Sentinels DEF TypeOK, disk, history, RestoreSteps, BackupSteps
<1>3. DiskRight'
    BY <1>1 DEF DiskRight, disk, history
<1>4. ScriptRight'
    BY <1>1 DEF ScriptRight, disk
<1>. QED
    BY <1>2, <1>3, <1>4 DEF DiskInv

LEMMA GoneDisk ==
    ASSUME DiskInv, NEW c \in Containers, NEW place \in {"none", "open"}, Gone(c, place)
    PROVE  /\ box' \in [Containers -> Box]
           /\ box'[c].at = place
           /\ \A d \in Containers \ {c} : box'[d] = box[d]
           /\ file' = file /\ journal' = journal
           /\ writer' \in Containers \cup {None} /\ writer' # c
           /\ writer' # None => writer' = writer
           /\ writer # c => writer' = writer
PROOF
<1>1. /\ Move(c, At(place)) /\ writer' = (IF writer = c THEN None ELSE writer)
      /\ file' = file /\ journal' = journal
    BY DEF Gone
<1>2. TypeOK
    BY DEF DiskInv
<1>3. /\ box' \in [Containers -> Box]
      /\ box'[c].at = place
      /\ \A d \in Containers \ {c} : box'[d] = box[d]
    BY <1>1, <1>2, Moving, Places
<1>4. writer \in Containers \cup {None}
    BY <1>2 DEF TypeOK
<1>. QED
    BY <1>1, <1>3, <1>4, Sentinels

LEMMA KillCoreDisk ==
    ASSUME DiskInv, KillCore
    PROVE  DiskInv'
PROOF
<1>1. /\ TypeOK /\ DiskRight /\ ScriptRight /\ Gone("core", "open")
      /\ kills < Kills /\ kills' = kills + 1 /\ box["core"].at \in {"open", "upgrade", "up"}
      /\ cut' = cut \/ cut' = cut \cup {"revision"}
      /\ UNCHANGED <<script, backup, scripts, expected>>
    BY DEF KillCore, DiskInv
<1>2. /\ box' \in [Containers -> Box]
      /\ box'["core"].at = "open"
      /\ \A d \in Containers \ {"core"} : box'[d] = box[d]
      /\ file' = file /\ journal' = journal
      /\ writer' \in Containers \cup {None} /\ writer' # "core"
      /\ writer' # None => writer' = writer
      /\ writer # "core" => writer' = writer
    BY <1>1, GoneDisk, BothContainers
<1>3. TypeOK'
  <2>1. cut' \subseteq {"revision", "copy"}
      BY <1>1 DEF TypeOK
  <2>2. kills' \in 0 .. Kills
      BY <1>1, Sentinels DEF TypeOK
  <2>. QED
      BY <1>1, <1>2, <2>1, <2>2 DEF TypeOK
<1>4. DiskRight'
    BY <1>1, <1>2 DEF DiskRight
<1>5. ScriptRight'
    BY <1>1, <1>2, BothContainers DEF ScriptRight, Containers
<1>. QED
    BY <1>3, <1>4, <1>5 DEF DiskInv

LEMMA KillScriptDisk ==
    ASSUME DiskInv, KillScript
    PROVE  DiskInv'
PROOF
<1>1. /\ TypeOK /\ DiskRight /\ ScriptRight /\ Gone("job", "none")
      /\ kills < Kills /\ kills' = kills + 1 /\ script' = "idle"
      /\ cut' = cut \cup (IF MidRevision("job") THEN {"revision"} ELSE {})
                    \cup (IF script = "copying" THEN {"copy"} ELSE {})
      /\ UNCHANGED <<backup, scripts, expected>>
    BY DEF KillScript, DiskInv
<1>2. /\ box' \in [Containers -> Box]
      /\ box'["job"].at = "none"
      /\ \A d \in Containers \ {"job"} : box'[d] = box[d]
      /\ file' = file /\ journal' = journal
      /\ writer' \in Containers \cup {None} /\ writer' # "job"
      /\ writer' # None => writer' = writer
      /\ writer # "job" => writer' = writer
    BY <1>1, GoneDisk, BothContainers
<1>3. TypeOK'
  <2>1. cut' \subseteq {"revision", "copy"}
      BY <1>1 DEF TypeOK
  <2>2. kills' \in 0 .. Kills
      BY <1>1, Sentinels DEF TypeOK
  <2>. QED
      BY <1>1, <1>2, <2>1, <2>2 DEF TypeOK
<1>4. DiskRight'
    BY <1>1, <1>2 DEF DiskRight
<1>5. ScriptRight'
    BY <1>1, <1>2, BothContainers DEF ScriptRight, Containers
<1>. QED
    BY <1>3, <1>4, <1>5 DEF DiskInv

LEMMA StopCoreDisk ==
    ASSUME DiskInv, StopCore
    PROVE  DiskInv'
PROOF
<1>1. /\ TypeOK /\ DiskRight /\ ScriptRight /\ Gone("core", "none")
      /\ script = "stop" /\ script' = "preserve" /\ UNCHANGED <<backup, kills, scripts>>
      /\ cut' = cut \/ cut' = cut \cup {"revision"}
      /\ expected' = expected
    BY DEF StopCore, Goto, DiskInv
<1>2. /\ box' \in [Containers -> Box]
      /\ box'["core"].at = "none"
      /\ \A d \in Containers \ {"core"} : box'[d] = box[d]
      /\ file' = file /\ journal' = journal
      /\ writer' \in Containers \cup {None} /\ writer' # "core"
      /\ writer' # None => writer' = writer
      /\ writer # "core" => writer' = writer
    BY <1>1, GoneDisk, BothContainers
<1>3. TypeOK'
    BY <1>1, <1>2, Sentinels DEF TypeOK, RestoreSteps
<1>4. DiskRight'
    BY <1>1, <1>2 DEF DiskRight
<1>5. ScriptRight'
    BY <1>1, <1>2, BothContainers DEF ScriptRight, Containers
<1>. QED
    BY <1>3, <1>4, <1>5 DEF DiskInv

\* JobFailed, CheckBackup, Verify, Preserve: the job goes, the script goes on.
LEMMA JobGoneDisk ==
    ASSUME DiskInv, JobFailed \/ CheckBackup \/ Verify \/ Preserve
    PROVE  DiskInv'
PROOF
<1>1. /\ TypeOK /\ DiskRight /\ ScriptRight
      /\ Move("job", At("none")) /\ UNCHANGED <<backup, kills, scripts>>
      /\ UNCHANGED <<disk, history>>
      /\ box["job"].at \in {"up", "failed"}
      /\ \/ script' = "idle" /\ (box["job"].at = "failed" \/ script = "check")
         \/ script = "verify" /\ script' = "stop"
         \/ script = "preserve" /\ script' = "copy"
    BY DEF JobFailed, CheckBackup, Verify, Preserve, JobDone, Goto, DiskInv
<1>2. /\ box' \in [Containers -> Box]
      /\ box'["job"].at = "none"
      /\ \A d \in Containers \ {"job"} : box'[d] = box[d]
    BY <1>1, Moving, Places, BothContainers
<1>3. TypeOK'
    BY <1>1, <1>2 DEF TypeOK, disk, history, RestoreSteps
<1>4. DiskRight'
    BY <1>1 DEF DiskRight, ScriptRight, disk, history
<1>5. ScriptRight'
    BY <1>1, <1>2, BothContainers DEF ScriptRight, disk, Containers, TypeOK
<1>. QED
    BY <1>3, <1>4, <1>5 DEF DiskInv

LEMMA SnapshotDisk ==
    ASSUME DiskInv, Snapshot
    PROVE  DiskInv'
PROOF
<1>1. /\ TypeOK /\ DiskRight /\ ScriptRight /\ script = "snapshot"
      /\ UNCHANGED <<box, history>>
    BY DEF Snapshot, DiskInv
<1>2. CASE Read /\ Recovered # Damaged /\ script' = "check" /\ UNCHANGED <<kills, scripts>>
             /\ backup' = [db |-> Recovered,
                           cut |-> "revision" \in cut \/ \E c \in Containers : MidRevision(c)]
  <2>1. /\ writer = None /\ writer' = None /\ journal' = None
        /\ file' \in Database \cup {Damaged}
        /\ file' = Damaged => file = Damaged /\ journal = None
      BY <1>1, <1>2, Reading
  <2>2. backup' \in [db : Database, cut : BOOLEAN]
      BY <1>1, <1>2, RecoveredIs
  <2>3. TypeOK'
      BY <1>1, <1>2, <2>1, <2>2 DEF TypeOK, history, BackupSteps
  <2>4. DiskRight'
      BY <1>1, <2>1 DEF DiskRight, history
  <2>5. ScriptRight'
      BY <1>1, <1>2, <2>1 DEF ScriptRight
  <2>. QED
      BY <2>3, <2>4, <2>5 DEF DiskInv
<1>3. CASE Goto("idle") /\ UNCHANGED disk
  <2>1. TypeOK'
      BY <1>1, <1>3 DEF TypeOK, history, disk, Goto
  <2>2. DiskRight'
      BY <1>1, <1>3 DEF DiskRight, history, disk, Goto
  <2>3. ScriptRight'
      BY <1>1, <1>3 DEF ScriptRight, disk, Goto
  <2>. QED
      BY <2>1, <2>2, <2>3 DEF DiskInv
<1>. QED
    BY <1>2, <1>3 DEF Snapshot

LEMMA StartCoreDisk ==
    ASSUME DiskInv, StartCore
    PROVE  DiskInv'
PROOF
<1>1. /\ TypeOK /\ DiskRight /\ ScriptRight
      /\ Move("core", At("open")) /\ UNCHANGED <<backup, kills, scripts>>
      /\ UNCHANGED <<disk, history>>
      /\ script = "start" /\ script' = "idle"
    BY DEF StartCore, Goto, DiskInv
<1>2. /\ box' \in [Containers -> Box]
      /\ box'["core"].at = "open"
      /\ \A d \in Containers \ {"core"} : box'[d] = box[d]
    BY <1>1, Moving, Places, BothContainers
<1>3. TypeOK'
    BY <1>1, <1>2 DEF TypeOK, disk, history
<1>4. DiskRight'
    BY <1>1 DEF DiskRight, disk, history
<1>5. ScriptRight'
    BY <1>1, <1>2, BothContainers DEF ScriptRight, disk, Containers, TypeOK
<1>. QED
    BY <1>3, <1>4, <1>5 DEF DiskInv

LEMMA BeginCopyDisk ==
    ASSUME DiskInv, BeginCopy
    PROVE  DiskInv' /\ journal = None /\ writer = None
PROOF
<1>1. /\ TypeOK /\ DiskRight /\ ScriptRight
      /\ script = "copy" /\ box["job"].at = "up" /\ file' = Damaged
      /\ script' = "copying" /\ UNCHANGED <<backup, kills, scripts>>
      /\ UNCHANGED <<journal, writer, box, history>>
    BY DEF BeginCopy, Goto, DiskInv
<1>2. writer = None
    BY <1>1, Sentinels DEF ScriptRight, TypeOK, Containers
<1>3. journal = None
    BY <1>1, <1>2 DEF ScriptRight
<1>4. TypeOK'
    BY <1>1 DEF TypeOK, history, RestoreSteps
<1>5. DiskRight'
    BY <1>1, <1>2, <1>3 DEF DiskRight
<1>6. ScriptRight'
    BY <1>1, <1>2, <1>3 DEF ScriptRight
<1>. QED
    BY <1>2, <1>3, <1>4, <1>5, <1>6 DEF DiskInv

LEMMA EndCopyDisk ==
    ASSUME DiskInv, BackupRight, EndCopy
    PROVE  /\ DiskInv' /\ journal' = None
           /\ box["core"].at = "none" /\ box'["core"].at = "none" /\ box'["job"].at = "none"
PROOF
<1>1. /\ TypeOK /\ DiskRight /\ ScriptRight
      /\ script = "copying" /\ file' = backup.db /\ expected' = Published(backup.db)
      /\ cut' = (IF backup.cut THEN {"revision"} ELSE {})
      /\ Move("job", At("none")) /\ script' = "start" /\ UNCHANGED <<backup, kills, scripts>>
      /\ UNCHANGED <<journal, writer>>
    BY DEF EndCopy, JobDone, Goto, DiskInv
<1>2. box["core"].at = "none" /\ box["job"].at = "up" /\ journal = None
    BY <1>1 DEF ScriptRight
<1>3. /\ box' \in [Containers -> Box]
      /\ box'["job"].at = "none"
      /\ \A d \in Containers \ {"job"} : box'[d] = box[d]
    BY <1>1, Moving, Places, BothContainers
<1>4. backup.db \in Database
    BY DEF BackupRight
<1>5. Published(backup.db) \subseteq Plan
  <2>1. backup.db.plans \subseteq Plan
      BY <1>4 DEF Database
  <2>. QED
      BY <1>4, <2>1, ConvertedPlans, PublishedIs
<1>6. TypeOK'
    BY <1>1, <1>3, <1>4, <1>5 DEF TypeOK, RestoreSteps
<1>7. writer = None
    BY <1>1, <1>2, Sentinels DEF ScriptRight, TypeOK, Containers
<1>8. DiskRight'
    BY <1>1, <1>2, <1>4, <1>7, Sentinels DEF DiskRight
<1>9. ScriptRight'
    BY <1>1, <1>2, <1>3, <1>7, BothContainers DEF ScriptRight
<1>. QED
    BY <1>1, <1>2, <1>3, <1>6, <1>8, <1>9, BothContainers DEF DiskInv

-----------------------------------------------------------------------------
(* Upgrades.                                                               *)

\* A container that has begun a statement is exactly as far as the database.
LEMMA WriterIsNext ==
    ASSUME TypeOK, DiskRight, NEW c \in Containers, Upgrading(c), box[c].at = "upgrade",
           MidRevision(c)
    PROVE  /\ box[c].rev \in 1 .. 3 /\ box[c].k \in 1 .. Length(box[c].rev)
           /\ Recovered \in Database
           /\ Progress(Recovered, Pos(c))
           /\ Pos(c) \in 0 .. 15
           /\ Takes(Current(c), Recovered, Pos(c))
PROOF
<1>1. /\ box[c].rev \in 1 .. 3 /\ box[c].k \in 1 .. Length(box[c].rev)
      /\ Recovered # Damaged
      /\ Progress(Recovered, Pos(c))
    BY DEF Upgrading
<1>2. Recovered \in Database
    BY <1>1, RecoveredIs
<1>3. Takes(Current(c), Recovered, Pos(c))
    BY <1>1, <1>2, StatementTakes DEF Current, Pos
<1>. QED
    BY <1>1, <1>2, <1>3, PositionIs DEF Pos

\* Where Finish(c) leads.
Onward(rev, k) ==
    IF k < Length(rev) THEN Statement(rev, k + 1)
    ELSE IF rev < 3 THEN Statement(rev + 1, 1)
    ELSE At("up")

LEMMA FinishFacts ==
    ASSUME DiskInv, NEW c \in Containers, Upgrading(c), Finish(c)
    PROVE  /\ MidRevision(c) /\ box[c].at = "upgrade"
           /\ Recovered' = Applied(Current(c), Recovered)
           /\ Recovered # Damaged
           /\ writer = c /\ writer' = None /\ journal' = None /\ file' = Recovered'
           /\ box'[c] = Onward(box[c].rev, box[c].k)
           /\ box' \in [Containers -> Box]
           /\ \A d \in Containers \ {c} : box'[d] = box[d]
PROOF
<1>1. /\ TypeOK /\ DiskRight /\ ScriptRight
      /\ writer = c /\ box[c].at = "upgrade"
      /\ FinishWriting(Applied(Current(c), journal))
    BY DEF Finish, DiskInv
<1>2. MidRevision(c) /\ writer # None
    BY <1>1, Sentinels DEF MidRevision
<1>3. /\ Recovered = journal /\ Recovered # Damaged
      /\ writer' = None /\ journal' = None /\ file' = Applied(Current(c), journal)
      /\ Recovered' = Applied(Current(c), journal)
    BY <1>1, <1>2, EndingToWrite
<1>4. box[c].rev \in 1 .. 3 /\ box[c].k \in 1 .. Length(box[c].rev)
    BY <1>1 DEF Upgrading
<1>5. Len(Revisions[box[c].rev]) = Length(box[c].rev)
    BY <1>4, Lengths
<1>6. Length(box[c].rev) \in 3 .. 7
    BY <1>4 DEF Length
<1>7. Move(c, Onward(box[c].rev, box[c].k))
  <2>1. CASE box[c].k < Length(box[c].rev)
      BY <1>1, <1>4, <1>5, <1>6, <2>1 DEF Finish, Onward
  <2>2. CASE ~(box[c].k < Length(box[c].rev)) /\ box[c].rev < 3
      BY <1>1, <1>4, <1>5, <1>6, <2>2, ThreeRevisions DEF Finish, Onward
  <2>3. CASE ~(box[c].k < Length(box[c].rev)) /\ ~(box[c].rev < 3)
      BY <1>1, <1>4, <1>5, <1>6, <2>3, ThreeRevisions DEF Finish, Onward
  <2>. QED
      BY <2>1, <2>2, <2>3
<1>8. Onward(box[c].rev, box[c].k) \in Box
    BY <1>4, <1>6, Places DEF Onward
<1>9. /\ box' \in [Containers -> Box]
      /\ box'[c] = Onward(box[c].rev, box[c].k)
      /\ \A d \in Containers \ {c} : box'[d] = box[d]
    BY <1>1, <1>7, <1>8, Moving
<1>. QED
    BY <1>1, <1>2, <1>3, <1>9

LEMMA FinishDisk ==
    ASSUME DiskInv, NEW c \in Containers, Upgrading(c), Finish(c)
    PROVE  DiskInv'
PROOF
<1>1. /\ TypeOK /\ DiskRight /\ ScriptRight /\ UNCHANGED <<rest, history>>
    BY DEF Finish, DiskInv
<1>2. /\ MidRevision(c) /\ box[c].at = "upgrade"
      /\ Recovered' = Applied(Current(c), Recovered)
      /\ writer = c /\ writer' = None /\ journal' = None /\ file' = Recovered'
      /\ box'[c] = Onward(box[c].rev, box[c].k)
      /\ box' \in [Containers -> Box]
      /\ \A d \in Containers \ {c} : box'[d] = box[d]
    BY FinishFacts
<1>3. file' \in Database
    BY <1>1, <1>2, WriterIsNext DEF Takes
<1>4. TypeOK'
    BY <1>1, <1>2, <1>3 DEF TypeOK, rest, history
<1>5. DiskRight'
    BY <1>2, <1>3, Sentinels DEF DiskRight
<1>6. box'[c].at \in {"upgrade", "up"}
    BY <1>2, Places DEF Onward, Statement, At
<1>7. ScriptRight'
    BY <1>1, <1>2, <1>6, BothContainers DEF ScriptRight, rest, Containers
<1>. QED
    BY <1>4, <1>5, <1>7 DEF DiskInv

LEMMA FinishPlanFacts ==
    ASSUME DiskInv, FinishPlan
    PROVE  /\ Recovered \in Database /\ Recovered' \in Database
           /\ Recovered'.version = Recovered.version /\ Recovered'.parts = Recovered.parts
           /\ Recovered'.reservations = Recovered.reservations
           /\ Recovered.plans \subseteq Recovered'.plans
           /\ expected' \subseteq Plan
           /\ Published(Recovered) = expected => Published(Recovered') = expected'
           /\ writer' = None /\ journal' = None /\ file' = Recovered'
PROOF
<1>1. /\ TypeOK /\ DiskRight /\ ScriptRight /\ writer = "core" /\ writer # None
    BY Sentinels, BothContainers DEF FinishPlan, DiskInv
<1>2. PICK id \in NewPlans :
        /\ FinishWriting([journal EXCEPT !.plans = @ \cup {[id |-> id, cancelled |-> FALSE]}])
        /\ expected' = expected \cup {[id |-> id, cancelled |-> FALSE]}
    BY DEF FinishPlan
<1> DEFINE new == [id |-> id, cancelled |-> FALSE]
           db == [journal EXCEPT !.plans = @ \cup {new}]
<1>3. /\ journal \in Database /\ Recovered = journal
      /\ writer' = None /\ journal' = None /\ file' = db /\ Recovered' = db
    BY <1>1, <1>2, EndingToWrite
<1>4. new \in Plan
    BY Sentinels DEF Plan
<1>5. /\ db \in Database
      /\ db.version = journal.version /\ db.parts = journal.parts
      /\ db.reservations = journal.reservations /\ db.plans = journal.plans \cup {new}
    BY <1>3, <1>4 DEF Database
<1>6. Published(db) = Published(journal) \cup {new}
    BY <1>5, PublishedIs DEF Converted
<1>7. expected' \subseteq Plan
    BY <1>1, <1>2, <1>4 DEF TypeOK
<1>. QED
    BY <1>2, <1>3, <1>5, <1>6, <1>7

LEMMA FinishPlanDisk ==
    ASSUME DiskInv, FinishPlan
    PROVE  DiskInv'
PROOF
<1>1. /\ TypeOK /\ DiskRight /\ ScriptRight /\ writer = "core" /\ box["core"].at = "up"
      /\ UNCHANGED <<box, rest, cut>>
    BY DEF FinishPlan, DiskInv
<1>2. /\ Recovered' \in Database /\ expected' \subseteq Plan
      /\ writer' = None /\ journal' = None /\ file' = Recovered'
    BY FinishPlanFacts
<1>3. TypeOK'
    BY <1>1, <1>2 DEF TypeOK, rest
<1>4. DiskRight'
    BY <1>2, Sentinels DEF DiskRight
<1>5. ScriptRight'
    BY <1>1, <1>2 DEF ScriptRight, rest
<1>. QED
    BY <1>3, <1>4, <1>5 DEF DiskInv

\* A step that leaves the database and what is expected of it as they are, and a container
\* where it was, before a revision that can begin, or no longer in an upgrade.
Follows(c) ==
    \/ /\ box'[c] = box[c]
       /\ writer' = c /\ box[c].at = "upgrade" => writer = c \/ Progress(Recovered, Pos(c))
    \/ /\ Recovered # Damaged /\ Recovered.version < 3 /\ writer' # c
       /\ box'[c] = Statement(Recovered.version + 1, 1)
    \/ /\ box'[c].at # "upgrade"
       /\ box'[c].at = "up" =>
            "copy" \in cut' \/ (Recovered # Damaged /\ Recovered.version = 3)

LEMMA LiveStays ==
    ASSUME DiskInv, Live, Recovered' = Recovered, expected' = expected, cut \subseteq cut',
           \A c \in Containers : Follows(c),
           \A c \in Containers : box[c].at = "upgrade" /\ box[c].k > 1 =>
             box'[c] = box[c] \/ "revision" \in cut'
    PROVE  Live'
PROOF
<1>1. /\ TypeOK /\ DiskRight
      /\ Alone /\ Whole /\ Serving /\ NothingLost
      /\ \A c \in Containers : Upgrading(c)
    BY DEF DiskInv, Live
<1>2. \A db \in Database : db.version \in 0 .. 3
    BY ThreeRevisions DEF Database
<1>3. Recovered \in Database \cup {Damaged}
    BY <1>1, RecoveredIs
<1>4. ASSUME NEW c \in Containers, box'[c].at = "upgrade"
      PROVE  \/ /\ box'[c] = box[c]
                /\ writer' = c => writer = c \/ Progress(Recovered, Pos(c))
             \/ /\ Recovered # Damaged /\ Recovered.version \in 0 .. 2 /\ writer' # c
                /\ box'[c] = Statement(Recovered.version + 1, 1)
                /\ box'[c].rev = Recovered.version + 1 /\ box'[c].k = 1
  <2>1. Follows(c)
      OBVIOUS
  <2>2. CASE /\ box'[c] = box[c]
             /\ writer' = c /\ box[c].at = "upgrade" => writer = c \/ Progress(Recovered, Pos(c))
      BY <1>4, <2>2
  <2>3. CASE /\ Recovered # Damaged /\ Recovered.version < 3 /\ writer' # c
             /\ box'[c] = Statement(Recovered.version + 1, 1)
    <3>1. Recovered.version \in 0 .. 2
        BY <1>2, <1>3, <2>3
    <3>. QED
        BY <2>3, <3>1 DEF Statement
  <2>. QED
      BY <1>4, <2>1, <2>2, <2>3 DEF Follows
<1>5. ASSUME NEW c \in Containers PROVE Upgrading(c)'
  <2>1. SUFFICES ASSUME box'[c].at = "upgrade"
                 PROVE  /\ box'[c].rev \in 1 .. 3
                        /\ box'[c].k \in 1 .. Length(box'[c].rev)
                        /\ Recovered # Damaged
                        /\ box'[c].rev <= Recovered.version + 1
                        /\ MidRevision(c)' => Progress(Recovered, Pos(c)')
      BY DEF Upgrading
  <2>2. CASE /\ box'[c] = box[c]
             /\ writer' = c => writer = c \/ Progress(Recovered, Pos(c))
    <3>1. Pos(c)' = Pos(c)
        BY <2>2 DEF Pos
    <3>2. Upgrading(c) /\ box[c].at = "upgrade"
        BY <1>1, <2>1, <2>2
    <3>3. MidRevision(c)' => MidRevision(c) \/ Progress(Recovered, Pos(c))
        BY <2>2, <3>2 DEF MidRevision
    <3>. QED
        BY <2>2, <3>1, <3>2, <3>3 DEF Upgrading
  <2>3. CASE /\ Recovered # Damaged /\ Recovered.version \in 0 .. 2 /\ writer' # c
             /\ box'[c].rev = Recovered.version + 1 /\ box'[c].k = 1
    <3>1. ~MidRevision(c)'
        BY <2>3 DEF MidRevision
    <3>2. 1 \in 1 .. Length(box'[c].rev)
        BY <2>3 DEF Length
    <3>. QED
        BY <2>3, <3>1, <3>2
  <2>. QED
      BY <1>4, <2>1, <2>2, <2>3
<1>6. Alone'
  <2>1. \A c \in Containers : box'[c].at = "upgrade" /\ box'[c].k > 1 => box'[c] = box[c]
      BY <1>4
  <2>. QED
      BY <1>1, <2>1 DEF Alone
<1>7. Whole'
  <2>1. SUFFICES ASSUME Recovered # Damaged
                 PROVE  Whole'
      BY DEF Whole
  <2>2. PICK n \in 0 .. 16 :
          /\ Progress(Recovered, n)
          /\ \/ n \in Bases
             \/ "revision" \in cut
             \/ \E c \in Containers : box[c].at = "upgrade" /\ box[c].k > 1 /\ Pos(c) = n
      BY <1>1, <2>1 DEF Whole
  <2>3. ASSUME NEW c \in Containers, box[c].at = "upgrade", box[c].k > 1, Pos(c) = n
        PROVE  \/ "revision" \in cut'
               \/ box'[c].at = "upgrade" /\ box'[c].k > 1 /\ Pos(c)' = n
      BY <2>3 DEF Pos
  <2>. QED
      BY <2>2, <2>3 DEF Whole
<1>8. Serving'
  <2>1. Follows("core")
      BY BothContainers
  <2>2. Statement(Recovered.version + 1, 1).at # "up"
      BY DEF Statement
  <2>. QED
      BY <1>1, <2>1, <2>2 DEF Serving, Follows
<1>9. NothingLost'
    BY <1>1 DEF NothingLost
<1>. QED
    BY <1>5, <1>6, <1>7, <1>8, <1>9 DEF Live

\* In particular when no container moves but what is outside of upgrades.
LEMMA LiveMoved ==
    ASSUME DiskInv, Live, Recovered' = Recovered, history' = history,
           NEW c \in Containers, box[c].at # "upgrade", box'[c].at \notin {"upgrade", "up"},
           \A d \in Containers \ {c} : box'[d] = box[d],
           writer' = writer
    PROVE  Live'
PROOF
<1>1. \A d \in Containers : Follows(d)
    BY DEF Follows
<1>2. expected' = expected /\ cut' = cut
    BY DEF history
<1>3. \A d \in Containers : box[d].at = "upgrade" /\ box[d].k > 1 => box'[d] = box[d]
    OBVIOUS
<1>. QED
    BY <1>1, <1>2, <1>3, LiveStays

LEMMA LiveSame ==
    ASSUME DiskInv, Live, Recovered' = Recovered, history' = history, box' = box,
           writer' = writer \/ writer' = None
    PROVE  Live'
PROOF
<1>1. \A d \in Containers : Follows(d)
    BY Sentinels DEF Follows
<1>2. expected' = expected /\ cut' = cut
    BY DEF history
<1>3. \A d \in Containers : box[d].at = "upgrade" /\ box[d].k > 1 => box'[d] = box[d]
    OBVIOUS
<1>. QED
    BY <1>1, <1>2, <1>3, LiveStays

-----------------------------------------------------------------------------
(* What containers and users may rely on. Each action in turn.             *)

LEMMA OpenLive ==
    ASSUME DiskInv, Live, NEW c \in Containers, Open(c)
    PROVE  Live'
PROOF
<1>1. /\ TypeOK /\ DiskRight /\ ScriptRight /\ Read /\ UNCHANGED <<rest, history>>
      /\ box[c].at = "open"
    BY DEF Open, DiskInv
<1>2. Recovered' = Recovered /\ writer = None /\ writer' = None
    BY <1>1, Reading
<1>3. expected' = expected /\ cut' = cut
    BY <1>1 DEF history
<1>4. PICK b : Move(c, b) /\ \/ /\ Recovered # Damaged
                                /\ Recovered.version < 3
                                /\ b = Statement(Recovered.version + 1, 1)
                             \/ /\ Recovered # Damaged
                                /\ Recovered.version = 3
                                /\ b = At("up")
                             \/ /\ Recovered = Damaged
                                /\ b \in {At("up"), At("failed")}
    BY ThreeRevisions DEF Open
<1>5. box'[c] = b /\ \A d \in Containers \ {c} : box'[d] = box[d]
    BY <1>1, <1>4, Moving
<1>6. ASSUME Recovered = Damaged PROVE "copy" \in cut
  <2>1. file = Damaged /\ journal = None
      BY <1>1, <1>6, RecoveredIs
  <2>2. script # "copying"
      BY <1>1, BothContainers DEF ScriptRight, Containers
  <2>. QED
      BY <1>1, <2>1, <2>2 DEF DiskRight
<1>7. Follows(c)
  <2>1. CASE Recovered # Damaged /\ Recovered.version < 3 /\ b = Statement(Recovered.version + 1, 1)
      BY <1>2, <1>5, <2>1, Sentinels DEF Follows
  <2>2. CASE Recovered # Damaged /\ Recovered.version = 3 /\ b = At("up")
      BY <1>5, <2>2, Places DEF Follows
  <2>3. CASE Recovered = Damaged /\ b \in {At("up"), At("failed")}
      BY <1>3, <1>5, <1>6, <2>3, Places DEF Follows
  <2>. QED
      BY <1>4, <2>1, <2>2, <2>3
<1>8. \A d \in Containers \ {c} : Follows(d)
    BY <1>2, <1>5, Sentinels DEF Follows
<1>9. \A d \in Containers : box[d].at = "upgrade" /\ box[d].k > 1 => box'[d] = box[d]
    BY <1>1, <1>5
<1>. QED
    BY <1>2, <1>3, <1>7, <1>8, <1>9, LiveStays

\* A container begins a statement only when the database has come exactly to it.
LEMMA BeginsInPlace ==
    ASSUME DiskInv, Live, NEW c \in Containers, Begin(c)
    PROVE  Progress(Recovered, Pos(c))
PROOF
<1>1. /\ TypeOK /\ DiskRight /\ box[c].at = "upgrade"
      /\ Recovered # Damaged /\ Runs(Current(c), Recovered)
      /\ Upgrading(c) /\ Whole
    BY DEF DiskInv, Live, Begin
<1>2. /\ box[c].rev \in 1 .. 3 /\ box[c].k \in 1 .. Length(box[c].rev)
      /\ box[c].rev <= Recovered.version + 1
      /\ MidRevision(c) => Progress(Recovered, Pos(c))
      /\ Recovered \in Database
    BY <1>1, RecoveredIs DEF Upgrading
<1>3. CASE box[c].k > 1
    BY <1>1, <1>2, <1>3 DEF MidRevision
<1>4. CASE box[c].k = 1
  <2>1. PICK n \in 0 .. 16 : Progress(Recovered, n)
      BY <1>1 DEF Whole
  <2>2. n = Base(box[c].rev)
      BY <1>1, <1>2, <1>4, <2>1, StartsAtBase DEF Current
  <2>. QED
      BY <1>4, <2>1, <2>2 DEF Base, Pos
<1>5. box[c].k = 1 \/ box[c].k > 1
    BY <1>2 DEF Length
<1>. QED
    BY <1>3, <1>4, <1>5

LEMMA BeginLive ==
    ASSUME DiskInv, Live, NEW c \in Containers, Begin(c)
    PROVE  Live'
PROOF
<1>1. TypeOK /\ DiskRight /\ StartWriting(c) /\ UNCHANGED <<box, rest, history>>
    BY DEF Begin, DiskInv
<1>2. Recovered' = Recovered /\ writer' = c
    BY <1>1, BeginningToWrite
<1>3. expected' = expected /\ cut' = cut /\ box' = box
    BY <1>1 DEF history
<1>4. Follows(c)
    BY <1>3, BeginsInPlace DEF Follows
<1>5. \A d \in Containers \ {c} : Follows(d)
    BY <1>2, <1>3 DEF Follows
<1>. QED
    BY <1>2, <1>3, <1>4, <1>5, LiveStays

\* A statement in the middle of a revision never raises.
LEMMA FailLive ==
    ASSUME DiskInv, Live, NEW c \in Containers, Fail(c)
    PROVE  Live'
PROOF
<1>1. /\ TypeOK /\ DiskRight /\ Read /\ UNCHANGED <<rest, history>>
      /\ box[c].at = "upgrade" /\ Move(c, At("failed"))
      /\ Recovered = Damaged \/ ~Runs(Current(c), Recovered)
      /\ Upgrading(c)
    BY DEF Fail, DiskInv, Live
<1>2. Recovered' = Recovered /\ writer' = None
    BY <1>1, Reading
<1>3. expected' = expected /\ cut' = cut
    BY <1>1 DEF history
<1>4. ~MidRevision(c)
  <2>1. SUFFICES ASSUME MidRevision(c) PROVE FALSE
      OBVIOUS
  <2>2. Recovered \in Database /\ Takes(Current(c), Recovered, Pos(c))
      BY <1>1, <2>1, WriterIsNext
  <2>. QED
      BY <1>1, <2>2, Sentinels DEF Takes
<1>5. box'[c].at = "failed" /\ \A d \in Containers \ {c} : box'[d] = box[d]
    BY <1>1, Moving, Places
<1>6. Follows(c)
    BY <1>5 DEF Follows
<1>7. \A d \in Containers \ {c} : Follows(d)
    BY <1>2, <1>5, Sentinels DEF Follows
<1>8. \A d \in Containers : box[d].at = "upgrade" /\ box[d].k > 1 => box'[d] = box[d]
    BY <1>1, <1>4, <1>5 DEF MidRevision
<1>. QED
    BY <1>2, <1>3, <1>6, <1>7, <1>8, LiveStays

\* Of two containers in an upgrade, the one that writes goes on; the other has not begun.
LEMMA FinishLive ==
    ASSUME DiskInv, Live, NEW c \in Containers, Finish(c)
    PROVE  Live'
PROOF
<1>1. /\ TypeOK /\ DiskRight /\ Alone /\ NothingLost /\ Upgrading(c)
      /\ \A d \in Containers : Upgrading(d)
      /\ UNCHANGED <<rest, history>>
    BY DEF Finish, DiskInv, Live
<1>2. /\ MidRevision(c) /\ box[c].at = "upgrade"
      /\ Recovered' = Applied(Current(c), Recovered)
      /\ Recovered # Damaged
      /\ writer = c /\ writer' = None
      /\ box'[c] = Onward(box[c].rev, box[c].k)
      /\ \A d \in Containers \ {c} : box'[d] = box[d]
    BY <1>1, FinishFacts
<1> DEFINE rev == box[c].rev
           k == box[c].k
<1>3. /\ rev \in 1 .. 3 /\ k \in 1 .. Length(rev)
      /\ Recovered \in Database
      /\ Progress(Recovered, Pos(c))
      /\ Pos(c) \in 0 .. 15 /\ Pos(c) = Position(rev, k)
      /\ Takes(Current(c), Recovered, Pos(c))
    BY <1>1, <1>2, WriterIsNext DEF Pos
<1>4. /\ Recovered' \in Database /\ Recovered' # Damaged
      /\ Progress(Recovered', Pos(c) + 1)
      /\ Published(Recovered') = Published(Recovered)
      /\ Recovered'.version >= Recovered.version
    BY <1>2, <1>3, Sentinels DEF Takes
<1>5. Recovered.version \in 0 .. 3 /\ Recovered'.version \in 0 .. 3
    BY <1>3, <1>4, ThreeRevisions DEF Database
<1>6. ASSUME NEW d \in Containers \ {c}, box[d].at = "upgrade"
      PROVE  box[d].k = 1 /\ ~MidRevision(d)'
  <2>1. ~(box[d].k > 1)
    <3>1. SUFFICES ASSUME box[d].k > 1 PROVE FALSE
        OBVIOUS
    <3>2. ~(k > 1)
        BY <1>1, <1>2, <1>6, <3>1 DEF Alone
    <3>3. k = 1 /\ Pos(c) = Base(rev)
        BY <1>3, <3>2, PositionIs
    <3>4. Progress(Recovered, Pos(d)) /\ Pos(d) \in 0 .. 15 /\ Pos(d) \notin Bases
      <4>1. MidRevision(d)
          BY <1>6, <3>1 DEF MidRevision
      <4>2. /\ box[d].rev \in 1 .. 3 /\ box[d].k \in 1 .. Length(box[d].rev)
            /\ Progress(Recovered, Pos(d)) /\ Pos(d) \in 0 .. 15
          BY <1>1, <1>6, <4>1, WriterIsNext
      <4>. QED
          BY <3>1, <4>2, PositionIs DEF Pos
    <3>5. Pos(d) = Base(rev)
        BY <1>3, <3>3, <3>4, BaseStarts
    <3>. QED
        BY <1>3, <3>4, <3>5, PositionIs
  <2>2. box[d].k \in 1 .. Length(box[d].rev) /\ box[d].rev \in 1 .. 3
      BY <1>1, <1>6 DEF Upgrading
  <2>3. box[d].k = 1
      BY <2>1, <2>2 DEF Length
  <2>. QED
      BY <1>2, <1>6, <2>3, Sentinels DEF MidRevision
<1>7. \/ /\ k < Length(rev) /\ box'[c] = Statement(rev, k + 1)
         /\ box'[c].at = "upgrade" /\ box'[c].rev = rev /\ box'[c].k = k + 1
      \/ /\ k = Length(rev) /\ rev < 3 /\ box'[c] = Statement(rev + 1, 1)
         /\ box'[c].at = "upgrade" /\ box'[c].rev = rev + 1 /\ box'[c].k = 1
      \/ /\ k = Length(rev) /\ rev = 3 /\ box'[c] = At("up") /\ box'[c].at = "up"
    BY <1>2, <1>3 DEF Onward, Length, Statement, At
<1>8. Recovered.version = rev - 1
    BY <1>3, PositionIs DEF Progress
<1>9. k = Length(rev) => Pos(c) + 1 \in Bases /\ Recovered'.version = rev
    BY <1>3, <1>4, PositionIs DEF Progress
<1>10. k < Length(rev) => Pos(c) + 1 = Position(rev, k + 1)
    BY <1>3, PositionIs
<1>11. ASSUME NEW d \in Containers PROVE Upgrading(d)'
  <2>1. CASE d # c
    <3>1. SUFFICES ASSUME box[d].at = "upgrade" PROVE Upgrading(d)'
        BY <1>2, <2>1 DEF Upgrading
    <3>2. /\ box[d].rev \in 1 .. 3 /\ box[d].k \in 1 .. Length(box[d].rev)
          /\ box[d].rev <= Recovered.version + 1
        BY <1>1, <3>1 DEF Upgrading
    <3>3. ~MidRevision(d)'
        BY <1>6, <2>1, <3>1
    <3>. QED
        BY <1>2, <1>4, <1>5, <2>1, <3>2, <3>3 DEF Upgrading
  <2>2. CASE d = c
    <3>1. CASE /\ k < Length(rev)
               /\ box'[c].at = "upgrade" /\ box'[c].rev = rev /\ box'[c].k = k + 1
      <4>1. Pos(c)' = Pos(c) + 1
          BY <1>10, <3>1 DEF Pos
      <4>2. k + 1 \in 1 .. Length(rev)
          BY <1>3, <3>1 DEF Length
      <4>3. rev <= Recovered'.version + 1
          BY <1>3, <1>4, <1>5, <1>8
      <4>. QED
          BY <1>3, <1>4, <2>2, <3>1, <4>1, <4>2, <4>3 DEF Upgrading
    <3>2. CASE /\ k = Length(rev) /\ rev < 3
               /\ box'[c].at = "upgrade" /\ box'[c].rev = rev + 1 /\ box'[c].k = 1
      <4>1. ~MidRevision(c)'
          BY <1>2, <3>2, Sentinels DEF MidRevision
      <4>2. rev + 1 \in 1 .. 3 /\ 1 \in 1 .. Length(rev + 1)
          BY <1>3, <3>2 DEF Length
      <4>. QED
          BY <1>4, <1>5, <1>9, <2>2, <3>2, <4>1, <4>2 DEF Upgrading
    <3>3. CASE box'[c].at = "up"
        BY <2>2, <3>3 DEF Upgrading
    <3>. QED
        BY <1>7, <3>1, <3>2, <3>3
  <2>. QED
      BY <2>1, <2>2
<1>12. Alone'
    BY <1>2, <1>6 DEF Alone
<1>13. Whole'
  <2>1. Pos(c) + 1 \in 0 .. 16
      BY <1>3
  <2>2. CASE k = Length(rev)
      BY <1>4, <1>9, <2>1, <2>2 DEF Whole
  <2>3. CASE k < Length(rev) /\ box'[c].at = "upgrade" /\ box'[c].rev = rev /\ box'[c].k = k + 1
    <3>1. Pos(c)' = Pos(c) + 1
        BY <1>10, <2>3 DEF Pos
    <3>2. box'[c].at = "upgrade" /\ box'[c].k > 1
        BY <1>3, <2>3 DEF Length
    <3>. QED
        BY <1>4, <2>1, <3>1, <3>2 DEF Whole
  <2>. QED
      BY <1>7, <2>2, <2>3
<1>14. Serving'
  <2>1. Serving
      BY DEF Live
  <2>2. CASE c = "core"
      BY <1>4, <1>7, <1>9, <2>2 DEF Serving
  <2>3. CASE c # "core"
    <3>1. box'["core"] = box["core"] /\ cut' = cut
        BY <1>1, <1>2, <2>3, BothContainers DEF history
    <3>. QED
        BY <1>4, <1>5, <2>1, <3>1 DEF Serving
  <2>. QED
      BY <2>2, <2>3
<1>15. NothingLost'
    BY <1>1, <1>2, <1>4 DEF NothingLost, history
<1>. QED
    BY <1>11, <1>12, <1>13, <1>14, <1>15 DEF Live

LEMMA MoveLive ==
    ASSUME DiskInv, Live,
           \/ Restart \/ Up \/ RunJob \/ JobFailed \/ CheckBackup \/ Verify \/ Preserve
           \/ StartCore
    PROVE  Live'
PROOF
<1>1. TypeOK /\ ScriptRight /\ UNCHANGED <<disk, history>>
    BY DEF Restart, Up, RunJob, JobFailed, CheckBackup, Verify, Preserve, StartCore, DiskInv
<1>2. \E c \in Containers, place \in {"open", "none"} :
        Move(c, At(place)) /\ box[c].at # "upgrade"
    BY <1>1, BothContainers
       DEF Restart, Up, RunJob, JobFailed, CheckBackup, Verify, Preserve, StartCore, JobDone,
           ScriptRight
<1>3. PICK c \in Containers, place \in {"open", "none"} :
        Move(c, At(place)) /\ box[c].at # "upgrade"
    BY <1>2
<1>4. box'[c].at = place /\ \A d \in Containers \ {c} : box'[d] = box[d]
    BY <1>1, <1>3, Moving, Places
<1>5. Recovered' = Recovered /\ writer' = writer /\ history' = history
    BY <1>1, RecoveredAfter DEF disk
<1>. QED
    BY <1>3, <1>4, <1>5, LiveMoved

LEMMA StandLive ==
    ASSUME DiskInv, Live, StartRestore \/ StartBackup \/ Snapshot \/ UNCHANGED vars
    PROVE  Live'
PROOF
<1>1. TypeOK /\ DiskRight /\ history' = history /\ box' = box
    BY DEF StartRestore, StartBackup, StartScript, Snapshot, vars, history, DiskInv
<1>2. CASE Read
    BY <1>1, <1>2, Reading, LiveSame
<1>3. CASE file' = file /\ journal' = journal /\ writer' = writer
    BY <1>1, <1>3, RecoveredAfter, LiveSame
<1>. QED
    BY <1>2, <1>3 DEF StartRestore, StartBackup, StartScript, Snapshot, vars, disk

LEMMA BeginPlanLive ==
    ASSUME DiskInv, Live, BeginPlan
    PROVE  Live'
PROOF
<1>1. /\ TypeOK /\ DiskRight /\ StartWriting("core") /\ UNCHANGED <<box, rest, history>>
      /\ box["core"].at = "up"
    BY DEF BeginPlan, DiskInv
<1>2. Recovered' = Recovered /\ writer' = "core"
    BY <1>1, BothContainers, BeginningToWrite
<1>3. expected' = expected /\ cut' = cut /\ box' = box
    BY <1>1 DEF history
<1>4. \A c \in Containers : Follows(c)
    BY <1>1, <1>2, <1>3 DEF Follows
<1>. QED
    BY <1>2, <1>3, <1>4, LiveStays

\* A new plan changes nothing of how far the database has come.
LEMMA FinishPlanLive ==
    ASSUME DiskInv, Live, FinishPlan
    PROVE  Live'
PROOF
<1>1. /\ writer = "core" /\ box["core"].at = "up" /\ UNCHANGED <<box, rest, cut>>
    BY DEF FinishPlan
<1>2. /\ Recovered \in Database /\ Recovered' \in Database
      /\ Recovered'.version = Recovered.version /\ Recovered'.parts = Recovered.parts
      /\ Recovered'.reservations = Recovered.reservations
      /\ Recovered.plans \subseteq Recovered'.plans
      /\ Published(Recovered) = expected => Published(Recovered') = expected'
      /\ writer' = None
    BY FinishPlanFacts
<1>3. \A n : Progress(Recovered, n) => Progress(Recovered', n)
  <2>1. Converted(Recovered') = Converted(Recovered)
      BY <1>2 DEF Converted
  <2>. QED
      BY <1>2, <2>1 DEF Progress
<1>4. Recovered # Damaged /\ Recovered' # Damaged
    BY <1>2, Sentinels
<1>5. ASSUME NEW c \in Containers PROVE Upgrading(c)'
  <2>1. Upgrading(c)
      BY DEF Live
  <2>2. Pos(c)' = Pos(c) /\ (MidRevision(c)' => MidRevision(c))
      BY <1>1, <1>2, Sentinels DEF Pos, MidRevision
  <2>. QED
      BY <1>1, <1>2, <1>3, <1>4, <2>1, <2>2 DEF Upgrading
<1>6. Alone'
    BY <1>1 DEF Live, Alone
<1>7. Whole'
  <2>1. PICK n \in 0 .. 16 :
          /\ Progress(Recovered, n)
          /\ \/ n \in Bases
             \/ "revision" \in cut
             \/ \E c \in Containers : box[c].at = "upgrade" /\ box[c].k > 1 /\ Pos(c) = n
      BY <1>4 DEF Whole, Live
  <2>2. \A c \in Containers : Pos(c)' = Pos(c)
      BY <1>1 DEF Pos
  <2>. QED
      BY <1>1, <1>3, <2>1, <2>2 DEF Whole
<1>8. Serving'
    BY <1>1, <1>2, <1>4 DEF Live, Serving
<1>9. NothingLost'
    BY <1>2, <1>4 DEF Live, NothingLost
<1>. QED
    BY <1>5, <1>6, <1>7, <1>8, <1>9 DEF Live

\* A kill in the middle of a revision is a cut.
LEMMA KillLive ==
    ASSUME DiskInv, Live, KillCore \/ KillScript \/ StopCore
    PROVE  Live'
PROOF
<1>1. PICK c \in Containers, place \in {"none", "open"} :
        /\ Gone(c, place)
        /\ MidRevision(c) => "revision" \in cut'
    BY BothContainers DEF KillCore, KillScript, StopCore
<1>2. /\ box'[c].at = place
      /\ \A d \in Containers \ {c} : box'[d] = box[d]
      /\ file' = file /\ journal' = journal
      /\ writer' # None => writer' = writer
    BY <1>1, GoneDisk
<1>3. expected' = expected /\ cut \subseteq cut'
    BY DEF KillCore, KillScript, StopCore
<1>4. Recovered' = Recovered
    BY <1>2, RecoveredAfter
<1>5. Follows(c)
    BY <1>2 DEF Follows
<1>6. \A d \in Containers \ {c} : Follows(d)
    BY <1>2, Sentinels DEF Follows
<1>7. \A d \in Containers : box[d].at = "upgrade" /\ box[d].k > 1 =>
        box'[d] = box[d] \/ "revision" \in cut'
    BY <1>1, <1>2 DEF MidRevision
<1>. QED
    BY <1>3, <1>4, <1>5, <1>6, <1>7, LiveStays

\* While a file is copied there is nobody to read it.
LEMMA BeginCopyLive ==
    ASSUME DiskInv, Live, BeginCopy
    PROVE  Live'
PROOF
<1>1. /\ file' = Damaged /\ journal' = journal /\ box' = box
      /\ box["core"].at = "none" /\ box["job"].at = "up" /\ journal = None
    BY BeginCopyDisk DEF BeginCopy, DiskInv, ScriptRight
<1>2. Recovered' = Damaged
    BY <1>1, RecoveredAfter
<1>3. \A c \in Containers : box'[c].at # "upgrade"
    BY <1>1 DEF Containers
<1>4. \A c \in Containers : Upgrading(c)'
    BY <1>3 DEF Upgrading
<1>5. Alone'
    BY <1>3 DEF Alone
<1>6. Whole' /\ NothingLost'
    BY <1>2 DEF Whole, NothingLost
<1>7. Serving'
    BY <1>1 DEF Serving
<1>. QED
    BY <1>4, <1>5, <1>6, <1>7 DEF Live

\* What has been restored is the backup, however far that had come.
LEMMA EndCopyLive ==
    ASSUME DiskInv, Live, BackupRight, EndCopy
    PROVE  Live'
PROOF
<1>1. /\ file' = backup.db /\ expected' = Published(backup.db)
      /\ cut' = (IF backup.cut THEN {"revision"} ELSE {})
    BY DEF EndCopy
<1>2. journal' = None /\ box'["core"].at = "none" /\ box'["job"].at = "none"
    BY EndCopyDisk
<1>3. Recovered' = backup.db
    BY <1>1, <1>2, RecoveredAfter
<1>4. \A c \in Containers : box'[c].at # "upgrade"
    BY <1>2 DEF Containers
<1>5. \A c \in Containers : Upgrading(c)'
    BY <1>4 DEF Upgrading
<1>6. Alone'
    BY <1>4 DEF Alone
<1>7. Whole'
    BY <1>1, <1>3 DEF Whole, BackupRight
<1>8. NothingLost'
    BY <1>1, <1>3 DEF NothingLost
<1>9. Serving'
    BY <1>2 DEF Serving
<1>. QED
    BY <1>5, <1>6, <1>7, <1>8, <1>9 DEF Live

-----------------------------------------------------------------------------
(* The inductive invariant.                                                *)

LEMMA SnapshotBackup ==
    ASSUME DiskInv, Live, BackupRight, Snapshot
    PROVE  BackupRight'
PROOF
<1>1. CASE backup' = backup
    BY <1>1 DEF BackupRight
<1>2. CASE /\ Recovered # Damaged
           /\ backup' = [db |-> Recovered,
                         cut |-> "revision" \in cut \/ \E c \in Containers : MidRevision(c)]
  <2>1. Recovered \in Database
      BY <1>2, RecoveredIs DEF DiskInv
  <2>2. PICK n \in 0 .. 16 :
          /\ Progress(Recovered, n)
          /\ \/ n \in Bases
             \/ "revision" \in cut
             \/ \E c \in Containers : box[c].at = "upgrade" /\ box[c].k > 1 /\ Pos(c) = n
      BY <1>2 DEF Whole, Live
  <2>3. n \in Bases \/ "revision" \in cut \/ \E c \in Containers : MidRevision(c)
      BY <2>2 DEF MidRevision
  <2>4. backup' \in [db : Database, cut : BOOLEAN]
      BY <1>2, <2>1
  <2>5. backup'.db = Recovered
      BY <1>2
  <2>6. n \in Bases \/ backup'.cut
      BY <1>2, <2>3
  <2>. QED
      BY <2>2, <2>4, <2>5, <2>6 DEF BackupRight
<1>. QED
    BY <1>1, <1>2 DEF Snapshot, Goto

LEMMA InitIInv == Init => IInv
PROOF
<1>. SUFFICES ASSUME Init PROVE IInv
    OBVIOUS
<1>1. /\ file \in FirstFiles /\ journal = None /\ writer = None
      /\ box = [c \in Containers |-> At(IF c = "core" THEN "open" ELSE "none")]
      /\ script = "idle" /\ backup = [db |-> file, cut |-> FALSE]
      /\ kills = 0 /\ scripts = 0 /\ expected = Published(file) /\ cut = {}
    BY DEF Init
<1>2. file \in Database /\ file # Damaged
    BY <1>1, Sentinels
<1>3. box["core"].at = "open" /\ box["job"].at = "none" /\ box \in [Containers -> Box]
    BY <1>1, Places, BothContainers
<1>4. Published(file) \subseteq Plan
  <2>1. file.plans \subseteq Plan
      BY <1>2 DEF Database
  <2>. QED
      BY <1>2, <2>1, ConvertedPlans, PublishedIs
<1>5. TypeOK
    BY <1>1, <1>2, <1>3, <1>4, Sentinels DEF TypeOK
<1>6. DiskRight /\ ScriptRight
    BY <1>1, <1>2, <1>3 DEF DiskRight, ScriptRight
<1>7. Recovered = file
    BY <1>1 DEF Recovered
<1>8. PICK n \in Bases : Progress(file, n)
  <2>1. file.parts = Schema(file.version)
      BY <1>1, DeploymentAssumption
  <2>2. file.version \in 0 .. 3
      BY <1>2, ThreeRevisions DEF Database
  <2>3. file.version \in {0, 1, 2, 3}
      BY <2>2
  <2>4. CASE file.version = 0
      BY <2>1, <2>4, BaseSchemas DEF Progress, VersionAt, Bases
  <2>5. CASE file.version = 1
      BY <2>1, <2>5, BaseSchemas DEF Progress, VersionAt, Bases
  <2>6. CASE file.version = 2
      BY <2>1, <2>6, BaseSchemas DEF Progress, VersionAt, Bases
  <2>7. CASE file.version = 3
      BY <2>1, <2>7, BaseSchemas DEF Progress, VersionAt, Bases
  <2>. QED
      BY <2>3, <2>4, <2>5, <2>6, <2>7
<1>9. n \in 0 .. 16
    BY <1>8 DEF Progress
<1>10. \A c \in Containers : box[c].at # "upgrade"
    BY <1>3 DEF Containers
<1>11. \A c \in Containers : Upgrading(c)
    BY <1>10 DEF Upgrading
<1>12. Alone
    BY <1>10 DEF Alone
<1>13. Whole
    BY <1>7, <1>8, <1>9 DEF Whole
<1>14. Serving
    BY <1>3 DEF Serving
<1>15. NothingLost
    BY <1>1, <1>7 DEF NothingLost
<1>16. BackupRight
    BY <1>1, <1>2, <1>8, <1>9 DEF BackupRight
<1>. QED
    BY <1>5, <1>6, <1>11, <1>12, <1>13, <1>14, <1>15, <1>16 DEF IInv, Live

LEMMA NextIInv == IInv /\ [Next]_vars => IInv'
PROOF
<1>. SUFFICES ASSUME IInv, [Next]_vars PROVE IInv'
    OBVIOUS
<1>1. DiskInv /\ Live /\ BackupRight /\ \A c \in Containers : Upgrading(c)
    BY DEF IInv, DiskInv, Live
<1>2. (DiskInv /\ Live /\ BackupRight)' => IInv'
    BY DEF IInv, DiskInv
<1>3. backup' = backup => BackupRight'
    BY <1>1 DEF BackupRight
<1>4. ASSUME NEW c \in Containers, Open(c) PROVE IInv'
    BY <1>1, <1>2, <1>3, <1>4, OpenDisk, OpenLive DEF Open, rest
<1>5. ASSUME NEW c \in Containers, Begin(c) PROVE IInv'
    BY <1>1, <1>2, <1>3, <1>5, BeginDisk, BeginLive DEF Begin, rest
<1>6. ASSUME NEW c \in Containers, Fail(c) PROVE IInv'
    BY <1>1, <1>2, <1>3, <1>6, FailDisk, FailLive DEF Fail, rest
<1>7. ASSUME NEW c \in Containers, Finish(c) PROVE IInv'
    BY <1>1, <1>2, <1>3, <1>7, FinishDisk, FinishLive DEF Finish, rest
<1>8. CASE Restart \/ Up \/ RunJob
    BY <1>1, <1>2, <1>3, <1>8, MoveDisk, MoveLive DEF Restart, Up, RunJob, rest
<1>9. CASE JobFailed \/ CheckBackup \/ Verify \/ Preserve
    BY <1>1, <1>2, <1>3, <1>9, JobGoneDisk, MoveLive
       DEF JobFailed, CheckBackup, Verify, Preserve, JobDone, Goto
<1>10. CASE StartCore
    BY <1>1, <1>2, <1>3, <1>10, StartCoreDisk, MoveLive DEF StartCore, Goto
<1>11. CASE Snapshot
    BY <1>1, <1>2, <1>11, SnapshotDisk, StandLive, SnapshotBackup
<1>12. CASE StartRestore
    BY <1>1, <1>2, <1>3, <1>12, StartScriptDisk, StandLive DEF StartRestore, StartScript
<1>13. CASE StartBackup
    BY <1>1, <1>2, <1>3, <1>13, StartScriptDisk, StandLive DEF StartBackup, StartScript
<1>14. CASE StopCore
    BY <1>1, <1>2, <1>3, <1>14, StopCoreDisk, KillLive DEF StopCore, Goto
<1>15. CASE KillCore
    BY <1>1, <1>2, <1>3, <1>15, KillCoreDisk, KillLive DEF KillCore
<1>16. CASE KillScript
    BY <1>1, <1>2, <1>3, <1>16, KillScriptDisk, KillLive DEF KillScript
<1>17. CASE BeginPlan
    BY <1>1, <1>2, <1>3, <1>17, BeginPlanDisk, BeginPlanLive DEF BeginPlan, rest
<1>18. CASE FinishPlan
    BY <1>1, <1>2, <1>3, <1>18, FinishPlanDisk, FinishPlanLive DEF FinishPlan, rest
<1>19. CASE BeginCopy
    BY <1>1, <1>2, <1>3, <1>19, BeginCopyDisk, BeginCopyLive DEF BeginCopy, Goto
<1>20. CASE EndCopy
    BY <1>1, <1>2, <1>3, <1>20, EndCopyDisk, EndCopyLive DEF EndCopy, JobDone, Goto
<1>21. CASE UNCHANGED vars
  <2>1. DiskInv'
      BY <1>1, <1>21 DEF DiskInv, TypeOK, DiskRight, ScriptRight, vars
  <2>2. backup' = backup
      BY <1>21 DEF vars
  <2>. QED
      BY <1>1, <1>2, <1>3, <1>21, <2>1, <2>2, StandLive
<1>. QED
    BY <1>4, <1>5, <1>6, <1>7, <1>8, <1>9, <1>10, <1>11, <1>12, <1>13, <1>14, <1>15, <1>16,
       <1>17, <1>18, <1>19, <1>20, <1>21 DEF Next, Upgrade, ScriptStep

LEMMA AlwaysIInv == Spec => []IInv
PROOF
BY InitIInv, NextIInv, PTL DEF Spec

\* Whatever is killed at which statement, and whatever is restored, the types hold.
THEOREM DeploymentTypes == Spec => []TypeOK
PROOF
<1>1. IInv => TypeOK
    BY DEF IInv
<1>. QED
    BY <1>1, AlwaysIInv, PTL

\* Upgrades, kills and restores keep what users have published, for any files of earlier
\* releases: every statement of every revision keeps it, and a container only ever runs
\* the statement that the database has come to.
THEOREM NothingIsLost == Spec => []NothingLost
PROOF
<1>1. IInv => NothingLost
    BY DEF IInv, Live
<1>. QED
    BY <1>1, AlwaysIInv, PTL

LEMMA ServesWhole == IInv => ServesWholeSchema
PROOF
<1>. SUFFICES ASSUME IInv, box["core"].at = "up", "copy" \notin cut
              PROVE  Recovered # Damaged /\ ModelParts \subseteq Recovered.parts
    BY DEF ServesWholeSchema
<1>1. Recovered # Damaged /\ Recovered.version = 3 /\ Whole
    BY DEF IInv, Live, Serving
<1>2. PICK n \in 0 .. 16 : Progress(Recovered, n)
    BY <1>1 DEF Whole
<1>3. n = 16
    BY <1>1, <1>2 DEF Progress, VersionAt
<1>4. ModelParts \subseteq Has(16)
    BY HasAt DEF ModelParts
<1>. QED
    BY <1>1, <1>2, <1>3, <1>4 DEF Progress

\* Core is up only over the schema of models.py, unless the copy of a restore was cut: the
\* last statement of the last revision is the only way to the command proper, and a
\* restored file is met by a Core that starts with the upgrade again.
THEOREM WholeSchemaServed == Spec => []ServesWholeSchema
PROOF
BY ServesWhole, AlwaysIInv, PTL

LEMMA OnlyCutsStick == IInv => StuckOnlyByCut
PROOF
<1>. SUFFICES ASSUME IInv, Stuck, "revision" \notin cut PROVE FALSE
    BY DEF StuckOnlyByCut
<1>1. /\ Recovered # Damaged /\ Recovered.version < 3
      /\ ~Runs(Revisions[Recovered.version + 1][1], Recovered)
      /\ \A c \in Containers : ~MidRevision(c)
    BY ThreeRevisions DEF Stuck
<1>2. TypeOK /\ DiskRight /\ Whole
    BY DEF IInv, Live
<1>3. Recovered \in Database
    BY <1>1, <1>2, RecoveredIs
<1>4. PICK n \in 0 .. 16 : Progress(Recovered, n) /\ n \in Bases
    BY <1>1, <1>2 DEF Whole, MidRevision
<1>5. Recovered.version \in 0 .. 3
    BY <1>3, ThreeRevisions DEF Database
<1> DEFINE rev == Recovered.version + 1
<1>6. rev \in 1 .. 3
    BY <1>1, <1>5
<1>7. n = Base(rev)
    BY <1>1, <1>4, <1>5 DEF Progress, VersionAt, Bases, Base, Position
<1>8. Progress(Recovered, Base(rev))
    BY <1>4, <1>7
<1>. QED
    BY <1>1, <1>3, <1>6, <1>8, BaseStarts

\* Without a cut in the middle of a revision the next upgrade can always begin, also when
\* the core container and a job upgrade the same file at the same time: of the two only
\* the one that has begun a revision goes on, and it goes on to its end.
THEOREM OnlyCutsGetStuck == Spec => []StuckOnlyByCut
PROOF
BY OnlyCutsStick, AlwaysIInv, PTL
=============================================================================
