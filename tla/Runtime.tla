------------------------------ MODULE Runtime ------------------------------
(***************************************************************************)
(* What runs on the GPU hosts: collector runs post reports, the            *)
(* RuntimeStore keeps one per server in the memory of the Core, and the    *)
(* RuntimeService sets it against the plans of the moment. Handlers run in *)
(* the thread pool: every SELECT and every section under the store's lock  *)
(* is a step. A run whose POST takes too long gives up, but the handler in *)
(* the Core goes on, so that reports arrive in any order.                  *)
(*                                                                         *)
(* A report is named after its run. What it says of a device is the set of *)
(* the names, in lower case, that own processes there. observed_at and     *)
(* steady are history: the code does not have them.                        *)
(***************************************************************************)
EXTENDS Naturals, Functions

CONSTANTS
    Keys,        \* the keys of the servers, each once, in order
    Users,
    LowerName,   \* user name of a user, in lower case
    Gpus,        \* device numbers
    PlanIds,
    PlanRows,    \* rows that plan handlers commit
    Sightings,   \* what a collector may find on the devices
    Runs,        \* runs of the collector
    HostOf,      \* the --server-key that a run is started with
    Readers,     \* requests of the runtime pages
    Threshold,   \* runtime_freshness_threshold_seconds
    Horizon,     \* bound: the last reading of the clock
    None

Servers == Range(Keys)
Names == Range(LowerName) \cup {"unknown"}

PlanRow == [owner_id : Users, server_id : Servers, start_at : Nat, end_at : Nat,
            gpu_ids : {None} \cup SUBSET Gpus, cancelled : BOOLEAN]

\* Some devices, each with the owners of its processes. None at all is a host without
\* nvidia-smi, or one where it fails.
Sighting == UNION {[devices -> SUBSET Names] : devices \in SUBSET Gpus}

ASSUME RuntimeAssumption ==
    /\ LowerName \in [Users -> STRING]
    /\ HostOf \in [Runs -> Servers]
    /\ PlanRows \subseteq PlanRow
    /\ Sightings \subseteq Sighting
    /\ Threshold \in Nat /\ Horizon \in Nat
    /\ None \notin PlanRows
    /\ None \notin Runs
    /\ None \notin Users
    /\ None \notin Servers
    /\ "overview" \notin Servers

VARIABLES
    servers,   \* managed_servers table: absent, enabled or disabled
    users,     \* users table: absent, enabled or disabled
    plans,     \* plan_entries table
    run,       \* what each run of the collector has done
    store,     \* RuntimeStore._reports: the run whose report is kept for a server
    reader,    \* what each request's thread holds
    clock

vars == <<servers, users, plans, run, store, reader, clock>>
tables == <<servers, users, plans>>

RowStates == {"absent", "enabled", "disabled"}
Times == 0 .. Horizon

Run == [pc : {"idle", "stamped", "observed", "accepted", "done", "lost"},
        reported_at : Times, observed_at : Times, gpus : Sightings \cup {<<>>}]

HostRuntime ==
    [server_key : Servers, now : Times, report : Runs \cup {None},
     freshness : {"fresh", "stale", "unknown"}, status : {"active", "idle", "unavailable"},
     ongoing : SUBSET PlanIds, matched : SUBSET (Gpus \X Names),
     unplanned : SUBSET (Gpus \X Names)]

Busy == {"actor", "servers", "users", "clock", "report", "freshness", "plans"}

\* key is what was asked for; todo are the servers that are still to be built, server is
\* the one that is being built.
Reader ==
    [pc : {"idle", "done", "failed"} \cup Busy, actor : Users \cup {None},
     key : Servers \cup {"overview", None}, todo : SUBSET Servers, server : Servers \cup {None},
     names : SUBSET Users, now : Times, report : Runs \cup {None},
     freshness : {"fresh", "stale", "unknown"}, hosts : SUBSET HostRuntime,
     steady : SUBSET (PlanIds \cup Servers)]

\* A report that can be read is one that was accepted, for that server.
TypeOK ==
    /\ servers \in [Servers -> RowStates]
    /\ users \in [Users -> RowStates]
    /\ plans \in [PlanIds -> PlanRows \cup {None}]
    /\ run \in [Runs -> Run]
    /\ store \in [Servers -> Runs \cup {None}]
    /\ \A s \in Servers : store[s] # None => HostOf[store[s]] = s /\ run[store[s]].pc = "done"
    /\ reader \in [Readers -> Reader]
    /\ clock \in Times

Unused == [pc |-> "idle", actor |-> None, key |-> None, todo |-> {}, server |-> None,
           names |-> {}, now |-> 0, report |-> None, freshness |-> "unknown", hosts |-> {},
           steady |-> {}]

NotRun == [pc |-> "idle", reported_at |-> 0, observed_at |-> 0, gpus |-> <<>>]
Lost == [NotRun EXCEPT !.pc = "lost"]

Init ==
    /\ servers = [s \in Servers |-> "absent"]
    /\ users = [u \in Users |-> "absent"]
    /\ plans = [p \in PlanIds |-> None]
    /\ run = [c \in Runs |-> NotRun]
    /\ store = [s \in Servers |-> None]
    /\ reader = [r \in Readers |-> Unused]
    /\ clock = 0

\* Somebody changes x: the requests under way have not seen it steady.
Disturb(x) == reader' = [r \in Readers |-> [reader[r] EXCEPT !.steady = @ \ {x}]]

-----------------------------------------------------------------------------
(* The collector, from its clock to the store.                             *)

\* build_report reads the clock before the devices.
Stamp(c) ==
    /\ run[c].pc = "idle"
    /\ run' = [run EXCEPT ![c] = [@ EXCEPT !.pc = "stamped", !.reported_at = clock]]
    /\ UNCHANGED <<tables, store, reader, clock>>

Observe(c) ==
    /\ run[c].pc = "stamped"
    /\ \E sighting \in Sightings :
         run' = [run EXCEPT ![c] = [@ EXCEPT !.pc = "observed", !.gpus = sighting,
                                             !.observed_at = clock]]
    /\ UNCHANGED <<tables, store, reader, clock>>

\* The report does not get through, or its token is not the Core's. It is not sent again.
Lose(c) ==
    /\ run[c].pc = "observed"
    /\ run' = [run EXCEPT ![c] = Lost]
    /\ UNCHANGED <<tables, store, reader, clock>>

\* Variant: the report is stored before the server is looked for.
AcceptUnseen(c) ==
    /\ run[c].pc = "observed"
    /\ \/ servers[HostOf[c]] # "absent" /\ run' = [run EXCEPT ![c].pc = "accepted"]
       \/ servers[HostOf[c]] = "absent" /\ run' = [run EXCEPT ![c] = Lost]
    /\ store' = [store EXCEPT ![HostOf[c]] = c]
    /\ Disturb(HostOf[c])
    /\ UNCHANGED <<tables, clock>>

\* submit_report looks for the server: 404 if there is none.
Accept(c) ==
    /\ run[c].pc = "observed"
    /\ \/ servers[HostOf[c]] # "absent" /\ run' = [run EXCEPT ![c].pc = "accepted"]
       \/ servers[HostOf[c]] = "absent" /\ run' = [run EXCEPT ![c] = Lost]
    /\ UNCHANGED <<tables, store, reader, clock>>

\* Variant: a report is dated when it arrives.
SetReportOnArrival(c) ==
    /\ run[c].pc = "accepted"
    /\ run' = [run EXCEPT ![c].pc = "done", ![c].reported_at = clock]
    /\ store' = [store EXCEPT ![HostOf[c]] = c]
    /\ Disturb(HostOf[c])
    /\ UNCHANGED <<tables, clock>>

\* set_report: what arrives last is kept, whenever it was measured.
SetReport(c) ==
    /\ run[c].pc = "accepted"
    /\ run' = [run EXCEPT ![c].pc = "done"]
    /\ store' = [store EXCEPT ![HostOf[c]] = c]
    /\ Disturb(HostOf[c])
    /\ UNCHANGED <<tables, clock>>

-----------------------------------------------------------------------------
(* get_overview and get_server_runtime.                                    *)

Go(r, held) ==
    /\ reader' = [reader EXCEPT ![r] = held]
    /\ UNCHANGED <<tables, run, store, clock>>

Refuse(r) == Go(r, [Unused EXCEPT !.pc = "failed"])

Receive(r) ==
    /\ reader[r].pc = "idle"
    /\ \E u \in Users, key \in Servers \cup {"overview"} :
         /\ users[u] = "enabled"
         /\ Go(r, [Unused EXCEPT !.pc = "actor", !.actor = u, !.key = key,
                                 !.steady = PlanIds \cup Servers])

\* require_active_actor refuses the disabled, and those who have another role by now:
\* roles are left out, so that anybody may have.
CheckActor(r) ==
    /\ reader[r].pc = "actor"
    /\ \/ users[reader[r].actor] = "enabled" /\ Go(r, [reader[r] EXCEPT !.pc = "servers"])
       \/ Refuse(r)

\* The overview shows the enabled servers; one that is asked for by its key is shown
\* although it may be disabled.
ReadServers(r) ==
    LET key == reader[r].key
        proceed(todo) == Go(r, [reader[r] EXCEPT !.pc = "users", !.key = None, !.todo = todo])
    IN  /\ reader[r].pc = "servers"
        /\ \/ /\ key = "overview"
              /\ proceed({s \in Servers : servers[s] = "enabled"})
           \/ key # "overview" /\ servers[key] # "absent" /\ proceed({key})
           \/ key # "overview" /\ servers[key] = "absent" /\ Refuse(r)

\* Variant: only those who still have access are looked up.
ReadEnabledUsers(r) ==
    /\ reader[r].pc = "users"
    /\ Go(r, [reader[r] EXCEPT !.pc = "clock", !.names = {u \in Users : users[u] = "enabled"}])

ReadUsers(r) ==
    /\ reader[r].pc = "users"
    /\ Go(r, [reader[r] EXCEPT !.pc = "clock", !.names = {u \in Users : users[u] # "absent"}])

\* The servers are listed by key.
Before(s, t) == \E i, j \in DOMAIN Keys : i < j /\ Keys[i] = s /\ Keys[j] = t

\* _build_host_runtime, once for each server, with a clock reading of its own.
ReadClock(r) ==
    /\ reader[r].pc = "clock"
    /\ \/ \E s \in reader[r].todo :
             /\ \A t \in reader[r].todo : ~Before(t, s)
             /\ Go(r, [reader[r] EXCEPT !.pc = "report", !.server = s, !.todo = @ \ {s},
                                        !.now = clock])
       \/ /\ reader[r].todo = {}
          /\ Go(r, [Unused EXCEPT !.pc = "done", !.hosts = reader[r].hosts,
                                  !.steady = reader[r].steady])

GetReport(r) ==
    /\ reader[r].pc = "report"
    /\ Go(r, [reader[r] EXCEPT !.pc = "freshness", !.report = store[reader[r].server]])

\* A report dated after now is as fresh as one of now.
Freshness(c, now) ==
    IF c = None THEN "unknown"
    ELSE IF now <= run[c].reported_at + Threshold THEN "fresh" ELSE "stale"

\* The lock is taken a second time: the report may be another one by now.
GetFreshness(r) ==
    /\ reader[r].pc = "freshness"
    /\ Go(r, [reader[r] EXCEPT !.pc = "plans",
                !.freshness = Freshness(store[reader[r].server], reader[r].now)])

\* PlanRepository.list for the window [now, now], half-open.
Listed(s, now) ==
    {p \in PlanIds : /\ plans[p] # None
                     /\ plans[p].server_id = s
                     /\ plans[p].start_at < now
                     /\ plans[p].end_at > now
                     /\ ~plans[p].cancelled}

\* plan_display_state(plan, now) == ONGOING
Ongoing(p, now) ==
    /\ ~plans[p].cancelled
    /\ plans[p].start_at <= now
    /\ now < plans[p].end_at

\* A plan that names no devices is on all of them.
GpuPlans(ongoing, gpu) ==
    {p \in ongoing : plans[p].gpu_ids = None \/ gpu \in plans[p].gpu_ids}

\* Variant: the process's user need not be the plan's owner.
MatchesAnyOwner(p, name, known) == plans[p].owner_id \in known

Matches(p, name, known) ==
    plans[p].owner_id \in known /\ LowerName[plans[p].owner_id] = name

Processes(c) ==
    IF c = None THEN {}
    ELSE UNION {{gpu} \X run[c].gpus[gpu] : gpu \in DOMAIN run[c].gpus}

Build(q) ==
    LET ongoing == {p \in Listed(q.server, q.now) : Ongoing(p, q.now)}
        processes == Processes(q.report)
        matched == {proc \in processes :
                      \E p \in GpuPlans(ongoing, proc[1]) : Matches(p, proc[2], q.names)}
        status == IF q.report = None \/ q.freshness # "fresh" THEN "unavailable"
                  ELSE IF processes # {} THEN "active" ELSE "idle"
    IN  [server_key |-> q.server, now |-> q.now, report |-> q.report, freshness |-> q.freshness,
         status |-> status, ongoing |-> ongoing, matched |-> matched,
         unplanned |-> processes \ matched]

ListPlans(r) ==
    /\ reader[r].pc = "plans"
    /\ Go(r, [reader[r] EXCEPT !.pc = "clock", !.server = None, !.report = None,
                               !.hosts = @ \cup {Build(reader[r])}])

-----------------------------------------------------------------------------
(* What happens around them.                                               *)

\* The Core's process ends and starts again: what it held in memory is gone.
Restart ==
    /\ store' = [s \in Servers |-> None]
    /\ run' = [c \in Runs |-> IF run[c].pc = "accepted" THEN Lost ELSE run[c]]
    /\ reader' = [r \in Readers |->
                    IF reader[r].pc \in Busy THEN [Unused EXCEPT !.pc = "failed"]
                    ELSE [reader[r] EXCEPT !.steady = @ \ Servers]]
    /\ UNCHANGED <<tables, clock>>

ServerCreated(s) ==
    /\ servers[s] = "absent"
    /\ servers' \in {[servers EXCEPT ![s] = state] : state \in {"enabled", "disabled"}}
    /\ UNCHANGED <<users, plans, run, store, reader, clock>>

\* create_user and update_user.
UserSaved(u) ==
    /\ users' \in {[users EXCEPT ![u] = state] : state \in {"enabled", "disabled"} \ {users[u]}}
    /\ UNCHANGED <<servers, plans, run, store, reader, clock>>

\* PlanService: a plan is of a user that exists, on an enabled server.
PlanCommitted(p) ==
    /\ \E row \in PlanRows \ {plans[p]} :
         /\ users[row.owner_id] # "absent"
         /\ servers[row.server_id] = "enabled"
         /\ plans' = [plans EXCEPT ![p] = row]
    /\ Disturb(p)
    /\ UNCHANGED <<servers, users, run, store, clock>>

Tick ==
    /\ clock < Horizon
    /\ clock' = clock + 1
    /\ UNCHANGED <<tables, run, store, reader>>

Collect(c) == Stamp(c) \/ Observe(c) \/ Lose(c) \/ Accept(c) \/ SetReport(c)

Read(r) ==
    \/ Receive(r)
    \/ CheckActor(r)
    \/ ReadServers(r)
    \/ ReadUsers(r)
    \/ ReadClock(r)
    \/ GetReport(r)
    \/ GetFreshness(r)
    \/ ListPlans(r)

Next ==
    \/ \E c \in Runs : Collect(c)
    \/ \E r \in Readers : Read(r)
    \/ \E s \in Servers : ServerCreated(s)
    \/ \E u \in Users : UserSaved(u)
    \/ \E p \in PlanIds : PlanCommitted(p)
    \/ Restart
    \/ Tick

Spec == Init /\ [][Next]_vars

-----------------------------------------------------------------------------
(* Properties. A host in an answer is what _build_host_runtime returned.   *)

\* The devices of the host were read at most Threshold before the host's now.
Recent(c, host) == host.now <= run[c].observed_at + Threshold

\* A host is called fresh only if somebody has looked at its devices within the threshold
\* and the Core got to know, however late the reports are and whichever of them is shown.
FreshMeansObserved ==
    \A r \in Readers : \A host \in reader[r].hosts :
        host.freshness = "fresh" =>
            \E c \in Runs : /\ run[c].pc = "done"
                            /\ HostOf[c] = host.server_key
                            /\ Recent(c, host)

\* The processes that are shown as fresh are recent, unless a report was stored or lost
\* while the answer was made: the report and its freshness are read one after the other.
ShownAsFreshIsRecent ==
    \A r \in Readers : \A host \in reader[r].hosts :
        host.freshness = "fresh" /\ host.server_key \in reader[r].steady =>
            host.report # None /\ Recent(host.report, host)

\* The plan announces processes of this name on this device of the host.
Announces(p, host, gpu, name) ==
    /\ p \in Listed(host.server_key, host.now)
    /\ plans[p].gpu_ids = None \/ gpu \in plans[p].gpu_ids
    /\ LowerName[plans[p].owner_id] = name

\* Nobody is called unplanned who has a plan: one that was there, unchanged, for as long
\* as the answer was made, whoever was created or disabled meanwhile.
PlannedIsNotBlamed ==
    \A r \in Readers : \A host \in reader[r].hosts : \A proc \in host.unplanned :
        \A p \in reader[r].steady \cap PlanIds : ~Announces(p, host, proc[1], proc[2])

\* Nobody is called planned without a plan, or one that was changed since the request
\* came in.
MatchedHasPlan ==
    \A r \in Readers : \A host \in reader[r].hosts : \A proc \in host.matched :
        \E p \in PlanIds : \/ Announces(p, host, proc[1], proc[2])
                           \/ p \notin reader[r].steady
=============================================================================
