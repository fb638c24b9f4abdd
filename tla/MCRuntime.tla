----------------------------- MODULE MCRuntime -----------------------------
(***************************************************************************)
(* Instances of Runtime for TLC: one user, one host with two devices and   *)
(* one that never reports, one plan that changes, two runs of the          *)
(* collector on the first host.                                            *)
(***************************************************************************)
EXTENDS Runtime, TLC

CONSTANTS c1, c2, r1, alice, p1

MCKeys == <<"box1", "box2">>
MCHostOf == [c \in Runs |-> "box1"]
MCLowerName == [u \in Users |-> "alice"]

\* A plan of alice on all devices or on the first, at once or from 1 on.
Row(start, ids) ==
    [owner_id |-> alice, server_id |-> "box1", start_at |-> start, end_at |-> 3,
     gpu_ids |-> ids, cancelled |-> FALSE]
MCPlanRows == {Row(0, None), Row(1, {0})}

\* No devices, or alice on the first and somebody without an account on the second.
MCSightings == {<<>>, 0 :> {"alice"} @@ 1 :> {"unknown"}}

\* From the reachable state in which box2 and the users have been created.
SeededInit ==
    /\ servers = [s \in Servers |-> IF s = "box2" THEN "enabled" ELSE "absent"]
    /\ users = [u \in Users |-> "enabled"]
    /\ plans = [p \in PlanIds |-> None]
    /\ run = [c \in Runs |-> NotRun]
    /\ store = [s \in Servers |-> None]
    /\ reader = [r \in Readers |-> Unused]
    /\ clock = 0

SeededSpec == SeededInit /\ [][Next]_vars

Interchangeable == Permutations(Runs)
=============================================================================
