---------------------------- MODULE PlanContract ----------------------------
(***************************************************************************)
(* What PlanService promises its callers: a table of plans and their audit *)
(* trail on which create, update and cancel are single operations. An      *)
(* update merges the body into the plan as it is, keeps the owner and the  *)
(* cancellation, and leaves a plan that validates; a plan is cancelled     *)
(* once, and the first time stays.                                         *)
(***************************************************************************)
EXTENDS PlanData

VARIABLES plans, audits

contractVars == <<plans, audits>>

ContractInit ==
    /\ plans = [p \in Requests |-> None]
    /\ audits = {}

\* The event that goes with a change. Time does not go back: it is stamped after
\* every earlier one.
Record(p, action, by, stamp) ==
    /\ stamp \in Stamps
    /\ \A a \in audits : a.occurred_at < stamp
    /\ \E id \in Requests :
        /\ \A a \in audits : a.id # id
        /\ audits' = audits \cup {[id |-> id, entity_id |-> p, action |-> action,
                                   actor_id |-> by, occurred_at |-> stamp]}

Create(p, by, stamp) ==
    /\ Record(p, "created", by, stamp)
    /\ plans[p] = None
    /\ \E body \in PlanCreates :
         plans' = [plans EXCEPT ![p] = NewRow(body, by, stamp)]

Update(p, by, stamp) ==
    /\ Record(p, "updated", by, stamp)
    /\ plans[p] # None
    /\ \E body \in PlanUpdates :
         /\ ~Nulled(body)
         /\ Valid(Merge(plans[p], body, stamp))
         /\ plans' = [plans EXCEPT ![p] = Merge(@, body, stamp)]

Cancel(p, by, stamp) ==
    /\ Record(p, "cancelled", by, stamp)
    /\ plans[p] # None
    /\ plans[p].cancelled_at = None
    /\ plans' = [plans EXCEPT ![p] = Cancelled(@, stamp)]

ContractNext ==
    \E p \in Requests, by \in Users, stamp \in {a.occurred_at : a \in audits'} :
        Create(p, by, stamp) \/ Update(p, by, stamp) \/ Cancel(p, by, stamp)

Contract == ContractInit /\ [][ContractNext]_contractVars
=============================================================================
