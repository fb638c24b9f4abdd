---------------------------- MODULE MCAccounts ----------------------------
(***************************************************************************)
(* Instances of Accounts for TLC: one administrator and one member, a      *)
(* third name that is free, sessions that last one tick.                   *)
(***************************************************************************)
EXTENDS AccountSerial, TLC

CONSTANTS r1, r2, r3, r4, root, alice

MCFirstUsers ==
    root :> [name |-> "root", role |-> "admin", enabled |-> TRUE, hash |-> root]
    @@ alice :> [name |-> "alice", role |-> "member", enabled |-> TRUE, hash |-> alice]

NoPatch == [role |-> None, enabled |-> None]

\* Rename, disable, demote, make administrator, add an enabled member.
MCPatches ==
    {NoPatch, [NoPatch EXCEPT !.enabled = FALSE], [NoPatch EXCEPT !.role = "member"],
     [NoPatch EXCEPT !.role = "admin"], [role |-> "member", enabled |-> TRUE]}

Rename == {NoPatch}

\* The same from the reachable state in which r1 is root's answered login.
LoggedInInit ==
    /\ users = [u \in Ids |-> IF u \in Seeds THEN FirstUsers[u] ELSE None]
    /\ sessions = [t \in Requests |->
                     IF t = r1 THEN [user_id |-> root, expires_at |-> TTL] ELSE None]
    /\ req = [r \in Requests |->
                IF r = r1 THEN [Idle EXCEPT !.pc = "done", !.op = "login", !.name = "root",
                                            !.target = root]
                          ELSE Idle]
    /\ now = 0
LoggedInSpec == LoggedInInit /\ [][Next]_vars
=============================================================================
