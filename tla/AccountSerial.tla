--------------------------- MODULE AccountSerial ---------------------------
(***************************************************************************)
(* Accounts as it is when requests do not overlap, beside the contract     *)
(* that its callers are promised. Time passes all the same.                *)
(***************************************************************************)
EXTENDS Accounts

\* One request is received only after the last one has ended.
OneAtATime ==
    \A r, q \in Requests : {req[r].pc, req[q].pc} \subseteq InFlight => r = q

SerialAccounts == Init /\ [][Next /\ OneAtATime']_vars

Promise == INSTANCE AccountContract WITH Tokens <- Requests

\* Served one at a time, logins, logouts, user management and bootstrapping are the single
\* operations of AccountContract: an update never touches a password, a session is opened
\* with a password and for an enabled user, and only a directory without an administrator
\* can be bootstrapped.
SerialKeepsAccounts == Promise!Contract
=============================================================================
