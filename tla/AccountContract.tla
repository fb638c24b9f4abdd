-------------------------- MODULE AccountContract --------------------------
(***************************************************************************)
(* What the account services promise: a directory of users and a table of  *)
(* sessions on which every operation takes place at once. Names are        *)
(* unique, an update touches the fields it names and never the password, a *)
(* session is opened for an enabled user with a password and ends for      *)
(* good, and bootstrapping needs a directory without an administrator.     *)
(***************************************************************************)
EXTENDS Naturals

CONSTANTS Ids, Tokens, Names, Roles, Patches, TTL, None

VARIABLES users, sessions, now

contractVars == <<users, sessions, now>>

ContractInit ==
    /\ sessions = [t \in Tokens |-> None]
    /\ now = 0

Free(name) == \A u \in Ids : users[u] = None \/ users[u].name # name

Leaderless == \A u \in Ids : users[u] = None \/ ~users[u].enabled \/ users[u].role # "admin"

Directory(u, row) ==
    /\ users' = [users EXCEPT ![u] = row]
    /\ UNCHANGED <<sessions, now>>

Add(u) ==
    \E name \in Names, role \in Roles, enabled \in BOOLEAN :
        /\ users[u] = None
        /\ Free(name)
        /\ ~Leaderless
        /\ Directory(u, [name |-> name, role |-> role, enabled |-> enabled, hash |-> None])

Change(u) ==
    \E patch \in Patches :
        /\ users[u] # None
        /\ ~Leaderless
        /\ Directory(u, [users[u] EXCEPT
                           !.role = IF patch.role = None THEN @ ELSE patch.role,
                           !.enabled = IF patch.enabled = None THEN @ ELSE patch.enabled])

\* A new password is not the old password of anybody.
Rotate(u) ==
    \E hash \in Ids :
        /\ users[u] # None
        /\ ~Leaderless
        /\ \A v \in Ids : users[v] = None \/ users[v].hash # hash
        /\ Directory(u, [users[u] EXCEPT !.hash = hash])

FirstAdmin(u) ==
    \E name \in Names, hash \in Ids :
        /\ Leaderless
        /\ Free(name) \/ (users[u] # None /\ users[u].name = name)
        /\ Directory(u, [name |-> name, role |-> "admin", enabled |-> TRUE, hash |-> hash])

Open(t) ==
    \E u \in Ids :
        /\ users[u] # None
        /\ users[u].enabled
        /\ users[u].hash # None
        /\ sessions[t] = None
        /\ \E since \in 0 .. now :
             sessions' = [sessions EXCEPT ![t] = [user_id |-> u, expires_at |-> since + TTL]]
        /\ UNCHANGED <<users, now>>

Close(t) ==
    /\ sessions' = [sessions EXCEPT ![t] = None]
    /\ UNCHANGED <<users, now>>

Later == now' = now + 1 /\ UNCHANGED <<users, sessions>>

ContractNext ==
    \/ \E u \in Ids : Add(u) \/ Change(u) \/ Rotate(u) \/ FirstAdmin(u)
    \/ \E t \in Tokens : Open(t) \/ Close(t)
    \/ Later

Contract == ContractInit /\ [][ContractNext]_contractVars
=============================================================================
