----------------------------- MODULE MCServices -----------------------------
(***************************************************************************)
(* The services of the Core, each serving one request at a time. The two   *)
(* write different tables, and what PlanService reads of the users table   *)
(* stands still here, so a behaviour in which only one of them is used     *)
(* shows all that can happen: the other stays in its initial state.        *)
(***************************************************************************)
EXTENDS MCPlanService

CONSTANTS Seeds, FirstUsers, Names, Patches, TTL, Horizon

VARIABLES directory, sessions, accountReq, now   \* of AuthService, UserService, bootstrap_admin

accountVars == <<directory, sessions, accountReq, now>>

Account == INSTANCE MCAccounts WITH users <- directory, req <- accountReq

\* As in MCAccounts: an administrator and a member; rename, disable, demote, make
\* administrator, add an enabled member.
DirectoryAtFirst ==
    root :> [name |-> "root", role |-> "admin", enabled |-> TRUE, hash |-> root]
    @@ alice :> [name |-> "alice", role |-> "member", enabled |-> TRUE, hash |-> alice]

UserPatches ==
    {[role |-> role, enabled |-> None] : role \in {None, "member", "admin"}}
        \cup {[role |-> None, enabled |-> FALSE], [role |-> "member", enabled |-> TRUE]}

ServicesInit == Init /\ Account!Init

PlanStep ==
    /\ Account!Init
    /\ UNCHANGED <<users, accountVars>>
    /\ Next
    /\ OneAtATime'

AccountStep ==
    /\ Init
    /\ Account!Next
    /\ Account!OneAtATime'
    /\ UNCHANGED vars

SerialSpec == ServicesInit /\ [][PlanStep \/ AccountStep]_<<vars, accountVars>>

\* Served one at a time, logins, logouts, user management and bootstrapping are the single
\* operations of AccountContract: no update touches a password, no rotation is lost.
SerialKeepsAccounts == Account!SerialKeepsAccounts
=============================================================================
