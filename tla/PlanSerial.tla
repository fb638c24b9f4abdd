----------------------------- MODULE PlanSerial -----------------------------
(***************************************************************************)
(* PlanService as it is when requests do not overlap, beside the contract  *)
(* that its callers are promised. Other handlers still change users and    *)
(* servers at any time.                                                    *)
(***************************************************************************)
EXTENDS PlanService

\* One request is received only after the last one has ended.
OneAtATime ==
    \A r, q \in Requests : {req[r].pc, req[q].pc} \subseteq InFlight => r = q

SerialPlans == Init /\ [][Next /\ OneAtATime']_vars

Promise == INSTANCE PlanContract

\* Served one at a time, create, update and cancel are the single operations of
\* PlanContract: an update merges into the plan as it is, and leaves it with a valid window
\* and a device count that is the number of its devices; a cancellation time never changes.
SerialKeepsContract == Promise!Contract
=============================================================================
