------------------------------- MODULE MCWeb -------------------------------
(***************************************************************************)
(* Instances of Web for TLC: an administrator and a member on a browser    *)
(* each, a name that is free, a server that is added later, and two plans  *)
(* that overlap, one of them published through the API with seconds in its *)
(* times, around the minute in which summer time ends.                     *)
(***************************************************************************)
EXTENDS Web, TLC

CONSTANTS v1, v2, root, alice, bob, desk, laptop, box1, box2, p1, p2

MCFirstUsers ==
    root :> [role |-> "admin", enabled |-> TRUE, password |-> TRUE]
    @@ alice :> [role |-> "member", enabled |-> TRUE, password |-> TRUE]
    @@ bob :> None

MCFirstLogins == desk :> root @@ laptop :> alice

\* The clock shows 0, 2, 3, 3, 4 in the minutes from 0 to 4: p1 starts in the first of the
\* two minutes with the text 3 and ends in the second, p2 starts in the second.
MCFirstPlans ==
    p1 :> [owner |-> alice, server |-> box1, start |-> 5, end |-> 7, note |-> "x",
           cancelled |-> FALSE]
    @@ p2 :> [owner |-> root, server |-> box1, start |-> 6, end |-> 8, note |-> None,
              cancelled |-> FALSE]

\* Nothing, the note changed, the note emptied and a start that the clock skips, the end moved.
MCEdits ==
    {[start |-> Unset, end |-> Unset, note |-> Unset],
     [start |-> Unset, end |-> Unset, note |-> "y"],
     [start |-> 1, end |-> Unset, note |-> ""],
     [start |-> Unset, end |-> 4, note |-> Unset]}

MCNewWindow == [start |-> 2, end |-> 3]

Interchangeable == Permutations(Visits)
=============================================================================
