----------------------------- MODULE Conflicts -----------------------------
(***************************************************************************)
(* GET /plans/{id}/conflicts: evaluate_plan_conflicts cuts the window of   *)
(* the candidate at the ends of the plans that overlap it, compares demand *)
(* with capacity and devices with devices on every piece, and merges       *)
(* pieces that report the same. Time is counted in whole units; a plan     *)
(* holds the units t with start_at <= t < end_at.                          *)
(*                                                                         *)
(* "cpu" stands for cpu and memory, which are treated alike. reason is     *)
(* left out: the other fields determine it. requested is a quantity or a   *)
(* set of devices; where available is a list of devices, it is given by    *)
(* its length.                                                             *)
(***************************************************************************)
EXTENDS Integers, SequencesExt

CONSTANTS
    PlanIds,
    Tables,        \* contents of plan_entries to ask about, as functions on PlanIds
    Capacities,    \* declared capacities of the server
    None           \* not declared, "no answer"

VARIABLES
    plans,       \* plan_entries table
    capacity,    \* capacity of every server: a quantity, or None when it is not declared
    answer       \* what the last request was answered

vars == <<plans, capacity, answer>>

Resources == {"cpu", "gpu"}

Plan == [server_id : STRING, cancelled : BOOLEAN, start_at : Nat, end_at : Nat,
         cpu : {None} \cup Nat, gpu_count : {None} \cup Nat, gpu_ids : {None} \cup SUBSET Nat]

Conflict == [resource : Resources \cup {"gpu_device"}, certainty : {"confirmed", "uncertain"},
             start_at : Nat, end_at : Nat, quantity : Nat, devices : SUBSET Nat,
             available : {None} \cup Nat, plan_ids : SUBSET PlanIds]

TypeOK ==
    /\ plans \in [PlanIds -> Plan]
    /\ capacity \in [Resources -> {None} \cup Nat]
    /\ answer # None =>
         /\ answer.plan \in PlanIds
         /\ \A x \in answer.conflicts : x \in Conflict /\ x.start_at < x.end_at

ASSUME ConflictsAssumption ==
    /\ IsFiniteSet(PlanIds)
    /\ Tables \subseteq [PlanIds -> Plan]
    /\ \A table \in Tables, p \in PlanIds :
         table[p].gpu_ids # None => IsFiniteSet(table[p].gpu_ids)
    /\ Capacities \subseteq [Resources -> {None} \cup Nat]

OrZero(quantity) == IF quantity = None THEN 0 ELSE quantity

DeclaredGpuCount(p) ==
    IF plans[p].gpu_ids # None THEN Cardinality(plans[p].gpu_ids)
                               ELSE OrZero(plans[p].gpu_count)

Demand(p, resource) ==
    IF resource = "cpu" THEN OrZero(plans[p].cpu) ELSE DeclaredGpuCount(p)

TotalDemand(ps, resource) == MapThenSumSet(LAMBDA p : Demand(p, resource), ps)

Overlaps(p, start, end) == plans[p].start_at < end /\ plans[p].end_at > start

\* The plans that the service lists for the candidate's server, filtered once more.
Relevant(c) ==
    {p \in PlanIds \ {c} :
        /\ plans[p].server_id = plans[c].server_id
        /\ ~plans[p].cancelled
        /\ plans[p].start_at < plans[p].end_at
        /\ Overlaps(p, plans[c].start_at, plans[c].end_at)}

\* Variant: the window is cut where plans start and not where they end.
BoundariesAtStarts(c) ==
    {plans[c].start_at, plans[c].end_at}
        \cup {Max({plans[c].start_at, plans[p].start_at}) : p \in Relevant(c)}

Boundaries(c) ==
    {plans[c].start_at, plans[c].end_at}
        \cup {Max({plans[c].start_at, plans[p].start_at}) : p \in Relevant(c)}
        \cup {Min({plans[c].end_at, plans[p].end_at}) : p \in Relevant(c)}

Segments(c) ==
    {s \in Boundaries(c) \X Boundaries(c) :
        s[1] < s[2] /\ \A b \in Boundaries(c) : b <= s[1] \/ b >= s[2]}

Report(resource, certainty, s, quantity, devices, available, ids) ==
    [resource |-> resource, certainty |-> certainty, start_at |-> s[1], end_at |-> s[2],
     quantity |-> quantity, devices |-> devices, available |-> available, plan_ids |-> ids]

\* Variant: what is left may be less than nothing.
RemainderBelowZero(active, resource) == capacity[resource] - TotalDemand(active, resource)

\* What the active plans leave of a resource with a declared capacity.
Remainder(active, resource) == Max({0, capacity[resource] - TotalDemand(active, resource)})

CapacityConflicts(c, active, s) ==
    {Report(resource, "confirmed", s, Demand(c, resource), {}, Remainder(active, resource),
            {p \in active : Demand(p, resource) > 0}) :
        resource \in {x \in Resources :
            /\ capacity[x] # None
            /\ Demand(c, x) > 0
            /\ Demand(c, x) + TotalDemand(active, x) > capacity[x]}}

\* Variant: a plan that declares no GPU at all is as uncertain as a bare count.
UncertainOfUndeclared(active) == {p \in active : plans[p].gpu_ids = None}

\* Active plans that use some devices without saying which.
Undecided(active) ==
    {p \in active : plans[p].gpu_ids = None /\ DeclaredGpuCount(p) > 0}

DeviceConflicts(c, active, s) ==
    LET own == plans[c].gpu_ids
        sharing == {p \in active : plans[p].gpu_ids # None /\ plans[p].gpu_ids \cap own # {}}
        shared == UNION {plans[p].gpu_ids \cap own : p \in sharing}
        undecided == Undecided(active)
    IN  IF own \in {None, {}} THEN {}
        ELSE {x \in {Report("gpu_device", "confirmed", s, 0, shared, 0, sharing),
                     Report("gpu_device", "uncertain", s, 0, own, None, undecided)} :
                x.plan_ids # {}}

InvalidDevices(c) ==
    IF None \in {plans[c].gpu_ids, capacity["gpu"]} THEN {}
    ELSE {x \in {Report("gpu_device", "confirmed", <<plans[c].start_at, plans[c].end_at>>, 0,
                        {d \in plans[c].gpu_ids : d >= capacity["gpu"]}, capacity["gpu"], {})} :
            x.devices # {}}

SegmentConflicts(c, s) ==
    LET active == {p \in Relevant(c) : Overlaps(p, s[1], s[2])}
    IN  CapacityConflicts(c, active, s) \cup DeviceConflicts(c, active, s)

Shape(x) == [x EXCEPT !.start_at = 0, !.end_at = 0]
SameShape(left, right) == Shape(left) = Shape(right) /\ left.end_at = right.start_at

\* Variant: a report is merged only with the one emitted last.
AbsorbIntoLast(merged, x) ==
    IF merged # <<>> /\ SameShape(Last(merged), x)
    THEN [merged EXCEPT ![Len(merged)].end_at = x.end_at]
    ELSE Append(merged, x)

Absorb(merged, x) ==
    LET matches == {i \in DOMAIN merged : SameShape(merged[i], x)}
    IN  IF matches # {} THEN [merged EXCEPT ![Max(matches)].end_at = x.end_at]
                        ELSE Append(merged, x)

\* In the order of their start and end. Reports of one segment differ in shape, so that
\* their order among themselves makes no difference.
Latest(conflicts) ==
    CHOOSE x \in conflicts : \A y \in conflicts :
        y.start_at < x.start_at \/ (y.start_at = x.start_at /\ y.end_at <= x.end_at)

Coalesce(conflicts) ==
    MapThenFoldSet(LAMBDA x, merged : Absorb(merged, x), <<>>, LAMBDA x : x, Latest, conflicts)

EvaluatePlanConflicts(c) ==
    IF plans[c].cancelled \/ plans[c].start_at >= plans[c].end_at THEN {}
    ELSE Range(Coalesce(InvalidDevices(c) \cup UNION {SegmentConflicts(c, s) : s \in Segments(c)}))

\* GET /plans/{id}/conflicts as an actor who may ask, about a plan that is there. The plan,
\* its server and the others are read by SELECTs of their own, here from one table.
Ask(c) ==
    /\ answer' = [plan |-> c, conflicts |-> EvaluatePlanConflicts(c)]
    /\ UNCHANGED <<plans, capacity>>

Init ==
    /\ plans \in Tables
    /\ capacity \in Capacities
    /\ answer = None

Next == \E c \in PlanIds : Ask(c)

Spec == Init /\ [][Next]_vars

-----------------------------------------------------------------------------
(* Properties, against what happens in each single unit of time.           *)

Holds(p, t) == ~plans[p].cancelled /\ plans[p].start_at <= t /\ t < plans[p].end_at

\* The other plans that hold the candidate's server at t.
OthersAt(c, t) ==
    {p \in PlanIds \ {c} : plans[p].server_id = plans[c].server_id /\ Holds(p, t)}

Units == 0 .. Max({plans[p].end_at : p \in PlanIds})

ReportsAt(t, resource) ==
    {Shape(x) : x \in {y \in answer.conflicts :
        y.resource = resource /\ y.start_at <= t /\ t < y.end_at}}

\* cpu, memory and gpu: a unit of time is reported exactly when the plans that hold it
\* ask for more than there is, and then once, with what is left by the others and the
\* plans that use the resource. Cutting and merging lose nothing and add nothing.
CapacityReported ==
    answer # None =>
        \A t \in Units, resource \in Resources :
            LET c == answer.plan
                others == OthersAt(c, t)
                used == TotalDemand(others, resource)
                over == /\ Holds(c, t)
                        /\ capacity[resource] # None
                        /\ Demand(c, resource) > 0
                        /\ Demand(c, resource) + used > capacity[resource]
            IN  ReportsAt(t, resource) =
                  IF over THEN {Report(resource, "confirmed", <<0, 0>>, Demand(c, resource), {},
                                       Max({0, capacity[resource] - used}),
                                       {p \in others : Demand(p, resource) > 0})}
                          ELSE {}

\* Devices: in every unit of its window, a plan that names devices is told which of them
\* others have named, with all those plans; which plans only give a count; and which of
\* its devices the server does not have.
DevicesReported ==
    answer # None =>
        \A t \in Units :
            LET c == answer.plan
                own == IF plans[c].gpu_ids = None THEN {} ELSE plans[c].gpu_ids
                others == OthersAt(c, t)
                named(p) == IF plans[p].gpu_ids = None THEN {} ELSE plans[p].gpu_ids
                sharing == {p \in others : named(p) \cap own # {}}
                counting == {p \in others : /\ plans[p].gpu_ids = None
                                           /\ plans[p].gpu_count \notin {None, 0}}
                missing == IF capacity["gpu"] = None THEN {} ELSE {d \in own : d >= capacity["gpu"]}
                confirmed == {Report("gpu_device", "confirmed", <<0, 0>>, 0,
                                     own \cap UNION {named(p) : p \in sharing}, 0, sharing)}
                uncertain == {Report("gpu_device", "uncertain", <<0, 0>>, 0, own, None, counting)}
                invalid == {Report("gpu_device", "confirmed", <<0, 0>>, 0, missing,
                                   capacity["gpu"], {})}
            IN  ReportsAt(t, "gpu_device") =
                  IF ~Holds(c, t) \/ own = {} THEN {}
                  ELSE (IF sharing # {} THEN confirmed ELSE {})
                       \cup (IF counting # {} THEN uncertain ELSE {})
                       \cup (IF missing # {} THEN invalid ELSE {})

\* What is the same is reported once: two reports that differ in nothing but the interval
\* neither touch nor overlap.
ReportsMaximal ==
    answer # None =>
        \A x, y \in answer.conflicts :
            x # y /\ Shape(x) = Shape(y) => x.end_at < y.start_at \/ y.end_at < x.start_at

\* Documented for the endpoint: where one plan names devices and an overlapping one only
\* gives a count, the answer is "uncertain", whichever of the two is asked about.
MixedIntentIsUncertain ==
    answer # None =>
        LET c == answer.plan
            names(p) == plans[p].gpu_ids \notin {None, {}}
            counts(p) == plans[p].gpu_ids = None /\ plans[p].gpu_count \notin {None, 0}
        IN  \A p \in Relevant(c) :
              /\ ~plans[c].cancelled
              /\ (names(c) /\ counts(p)) \/ (counts(c) /\ names(p))
              => \E x \in answer.conflicts : x.certainty = "uncertain" /\ p \in x.plan_ids
=============================================================================
