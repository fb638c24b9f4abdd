---------------------------- MODULE MCConflicts ----------------------------
(***************************************************************************)
(* Instances of Conflicts for TLC: every table of three plans whose        *)
(* windows nest, cross, touch or stay apart within 0 .. 4.                 *)
(***************************************************************************)
EXTENDS Conflicts

CONSTANTS p1, p2, p3

Windows == {<<0, 2>>, <<0, 4>>, <<1, 2>>, <<1, 3>>, <<2, 4>>}

Intents == {[cpu |-> None, gpu_count |-> None, gpu_ids |-> None],
            [cpu |-> 2, gpu_count |-> 1, gpu_ids |-> None],
            [cpu |-> 1, gpu_count |-> None, gpu_ids |-> {0}],
            [cpu |-> None, gpu_count |-> 2, gpu_ids |-> {0, 2}]}

Row(w, intent, server, cancelled) ==
    [server_id |-> server, cancelled |-> cancelled, start_at |-> w[1], end_at |-> w[2],
     cpu |-> intent.cpu, gpu_count |-> intent.gpu_count, gpu_ids |-> intent.gpu_ids]

Live == {Row(w, intent, "box1", FALSE) : w \in Windows, intent \in Intents}

\* The last plan may also be elsewhere or cancelled.
OffStage ==
    {Row(<<0, 4>>, intent, "box2", FALSE) : intent \in Intents}
        \cup {Row(<<0, 4>>, intent, "box1", TRUE) : intent \in Intents}

MCTables ==
    {p1 :> a @@ p2 :> b @@ p3 :> c : a, b \in Live, c \in Live \cup OffStage}

MCCapacities == {[cpu |-> 3, gpu |-> 2], [cpu |-> 1, gpu |-> None]}
=============================================================================
