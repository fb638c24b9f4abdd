---------------------------- MODULE MCDeployment ----------------------------
(***************************************************************************)
(* Instances of Deployment for TLC: an empty volume, a file of the first   *)
(* release with a planned reservation that came from a request and a       *)
(* cancelled one that did not, and a file of the second release.           *)
(***************************************************************************)
EXTENDS Deployment

CONSTANTS a, b, c

FirstRelease ==
    [parts |-> {"users", "managed_servers", "task_requests", "reservations", "audit_events"},
     version |-> 1,
     reservations |-> {[id |-> a, requested |-> TRUE, status |-> "planned"],
                       [id |-> b, requested |-> FALSE, status |-> "cancelled"]},
     plans |-> {}]

SecondRelease ==
    [parts |-> {"users", "managed_servers", "audit_events", "plan_entries",
                "ix_plan_entries_server_window", "ix_plan_entries_owner_start"},
     version |-> 2, reservations |-> {}, plans |-> {[id |-> a, cancelled |-> TRUE]}]

MCFirstFiles == {Empty, FirstRelease, SecondRelease}
=============================================================================
