--------------------------- MODULE RuntimeProofs ---------------------------
(***************************************************************************)
(* What holds of the runtime pages for every number of hosts, devices,     *)
(* users, plans, collector runs and requests, every threshold and every    *)
(* order in which reports arrive: the state is well typed, fresh means     *)
(* observed, what is shown as fresh is recent, nobody with a plan is       *)
(* called unplanned, and nobody without one is called planned.             *)
(***************************************************************************)
EXTENDS Runtime, TLAPS

\* A run dates its report before it looks at the devices.
RunsTimely ==
    \A c \in Runs :
        /\ run[c].pc = "stamped" => run[c].reported_at <= clock
        /\ run[c].pc \in {"observed", "accepted", "done"} =>
             run[c].reported_at <= run[c].observed_at

\* No user is ever deleted.
OwnersExist == \A p \in PlanIds : plans[p] # None => users[plans[p].owner_id] # "absent"

\* The report of a run that is done stays what it is, even when the Core has lost it.
Kept(c) == c # None => run[c].pc = "done"

\* The devices were read at most Threshold before now, by a run whose report arrived.
Within(c, now) == now <= run[c].observed_at + Threshold
Observed(s, now) == \E c \in Runs : run[c].pc = "done" /\ HostOf[c] = s /\ Within(c, now)

\* A thread that has something to look for knows what.
Asked(q) ==
    /\ q.pc \in {"actor", "servers"} => q.key \in Servers \cup {"overview"}
    /\ q.pc \in {"report", "freshness", "plans"} => q.server \in Servers

\* As long as the store was not touched, the report in hand is the one whose freshness is
\* asked for; fresh is what somebody observed.
Reported(q) ==
    /\ Kept(q.report)
    /\ q.pc = "freshness" /\ q.server \in q.steady => q.report = store[q.server]
    /\ q.pc = "plans" /\ q.freshness = "fresh" =>
         /\ Observed(q.server, q.now)
         /\ q.server \in q.steady => q.report # None /\ Within(q.report, q.now)

\* The names were read before the plans, and still name the owner of every plan that is
\* older than the request.
OwnersKnown(q) ==
    q.pc \in {"clock", "report", "freshness", "plans"} =>
        \A p \in q.steady \cap PlanIds : plans[p] # None => plans[p].owner_id \in q.names

\* What the properties say of one host.
FreshTold(host, steady) ==
    host.freshness = "fresh" =>
        /\ Observed(host.server_key, host.now)
        /\ host.server_key \in steady => host.report # None /\ Within(host.report, host.now)

BlameTold(host, steady) ==
    \A proc \in host.unplanned : \A p \in steady \cap PlanIds :
        ~Announces(p, host, proc[1], proc[2])

PlansTold(host, steady) ==
    \A proc \in host.matched : \E p \in PlanIds :
        Announces(p, host, proc[1], proc[2]) \/ p \notin steady

Told(host, steady) ==
    /\ Kept(host.report)
    /\ FreshTold(host, steady)
    /\ BlameTold(host, steady)
    /\ PlansTold(host, steady)

Right(q) ==
    /\ Asked(q)
    /\ Reported(q)
    /\ OwnersKnown(q)
    /\ \A host \in q.hosts : Told(host, q.steady)

IInv ==
    /\ TypeOK
    /\ RunsTimely
    /\ OwnersExist
    /\ \A r \in Readers : Right(reader[r])

-----------------------------------------------------------------------------
(* The tables, and what is built from them.                                *)

\* None is nothing that the tables and the store hold.
LEMMA NoneIsNothing ==
    /\ None \notin PlanRows /\ None \notin Runs /\ None \notin Users /\ None \notin Servers
    /\ "overview" \notin Servers
    /\ HostOf \in [Runs -> Servers]
  BY RuntimeAssumption

\* The rows that are committed are plans.
LEMMA PlansAreRows ==
    ASSUME IInv, NEW p \in PlanIds, plans[p] # None
    PROVE  /\ plans[p].owner_id \in Users
           /\ plans[p].server_id \in Servers
           /\ plans[p].start_at \in Nat
           /\ plans[p].end_at \in Nat
  <1>1. plans[p] \in PlanRow
    BY RuntimeAssumption DEF IInv, TypeOK
  <1> QED
    BY <1>1 DEF PlanRow

\* The processes of a report are owners' names on devices.
LEMMA ProcessesAre ==
    ASSUME IInv, NEW c \in Runs \cup {None}
    PROVE  Processes(c) \subseteq Gpus \X Names
  <1>1. CASE c = None
    BY <1>1 DEF Processes
  <1>2. CASE c # None
    <2>1. run[c].gpus \in Sightings \cup {<<>>}
      BY <1>2 DEF IInv, TypeOK, Run
    <2>2. CASE run[c].gpus = <<>>
      <3>1. DOMAIN run[c].gpus = {}
        BY <2>2
      <3> QED
        BY <3>1 DEF Processes
    <2>3. CASE run[c].gpus \in Sighting
      <3>1. PICK devices \in SUBSET Gpus : run[c].gpus \in [devices -> SUBSET Names]
        BY <2>3 DEF Sighting
      <3>2. \A gpu \in DOMAIN run[c].gpus :
              gpu \in Gpus /\ {gpu} \X run[c].gpus[gpu] \subseteq Gpus \X Names
        BY <3>1
      <3> QED
        BY <3>2 DEF Processes
    <2> QED
      BY <2>1, <2>2, <2>3, RuntimeAssumption
  <1> QED
    BY <1>1, <1>2

\* The set of what a plan announces depends on its row alone.
LEMMA AnnouncedByRow ==
    ASSUME NEW p \in PlanIds, NEW host, NEW gpu, NEW name, plans'[p] = plans[p]
    PROVE  Announces(p, host, gpu, name)' <=> Announces(p, host, gpu, name)
  <1>1. \A s, now : p \in Listed(s, now) <=>
           /\ plans[p] # None
           /\ plans[p].server_id = s
           /\ plans[p].start_at < now
           /\ plans[p].end_at > now
           /\ ~plans[p].cancelled
    BY DEF Listed
  <1>2. \A s, now : p \in Listed(s, now)' <=>
           /\ plans[p] # None
           /\ plans[p].server_id = s
           /\ plans[p].start_at < now
           /\ plans[p].end_at > now
           /\ ~plans[p].cancelled
    BY DEF Listed
  <1> QED
    BY <1>1, <1>2 DEF Announces

-----------------------------------------------------------------------------
(* A step that leaves a thread where it is.                                *)

\* What others do to the plans and the store takes what they touched out of steady.
LEMMA StillRight ==
    ASSUME IInv, NEW q \in Reader, Right(q), NEW steady, steady \subseteq q.steady,
           NEW r \in Readers, reader'[r] \in Reader,
           reader'[r].pc = q.pc, reader'[r].key = q.key, reader'[r].server = q.server,
           reader'[r].names = q.names, reader'[r].now = q.now, reader'[r].report = q.report,
           reader'[r].freshness = q.freshness, reader'[r].hosts = q.hosts,
           reader'[r].steady = steady,
           \A c \in Runs : run[c].pc = "done" => run'[c] = run[c],
           q.pc = "freshness" => \A s \in steady \cap Servers : store'[s] = store[s],
           \A p \in steady \cap PlanIds : plans'[p] = plans[p]
    PROVE  Right(reader[r])'
  <1>0. /\ q.hosts \subseteq HostRuntime /\ q.report \in Runs \cup {None}
        /\ q.steady \subseteq PlanIds \cup Servers
    BY DEF Reader
  <1>1. \A c \in Runs \cup {None} : Kept(c) =>
           Kept(c)' /\ (c # None => \A now : Within(c, now) => Within(c, now)')
    BY DEF Kept, Within
  <1>2. \A s, now : Observed(s, now) => Observed(s, now)'
    BY DEF Observed, Within
  <1>3. Asked(reader[r])'
    BY DEF Right, Asked
  <1>4. Reported(reader[r])'
    <2>1. Kept(q.report) /\ Kept(q.report)'
      BY <1>0, <1>1 DEF Right, Reported
    <2>2. q.pc = "freshness" /\ q.server \in steady => q.report = store'[q.server]
      BY DEF Right, Reported, Asked
    <2>3. q.pc = "plans" /\ q.freshness = "fresh" => Observed(q.server, q.now)'
      BY <1>2 DEF Right, Reported
    <2>4. q.pc = "plans" /\ q.freshness = "fresh" /\ q.server \in steady =>
             q.report # None /\ Within(q.report, q.now)'
      BY <1>0, <1>1, <2>1 DEF Right, Reported
    <2> QED
      BY <2>1, <2>2, <2>3, <2>4 DEF Reported, Kept, Observed, Within
  <1>5. OwnersKnown(reader[r])'
    BY DEF Right, OwnersKnown
  <1>6. ASSUME NEW host \in q.hosts PROVE Told(host, steady)'
    <2>1. Told(host, q.steady) /\ host.report \in Runs \cup {None}
      BY <1>0 DEF Right, HostRuntime
    <2>2. Kept(host.report)'
      BY <1>1, <2>1 DEF Told
    <2>3. FreshTold(host, steady)'
      <3>1. FreshTold(host, q.steady) /\ Kept(host.report)
        BY <2>1 DEF Told
      <3>2. host.freshness = "fresh" => Observed(host.server_key, host.now)'
        BY <1>2, <3>1 DEF FreshTold
      <3>3. host.freshness = "fresh" /\ host.server_key \in steady =>
               host.report # None /\ Within(host.report, host.now)'
        BY <1>1, <2>1, <3>1 DEF FreshTold
      <3> QED
        BY <3>2, <3>3 DEF FreshTold
    <2>4. BlameTold(host, steady)'
      <3>1. BlameTold(host, q.steady)
        BY <2>1 DEF Told
      <3>2. ASSUME NEW proc \in host.unplanned, NEW p \in steady \cap PlanIds
            PROVE  ~Announces(p, host, proc[1], proc[2])'
        <4>1. ~Announces(p, host, proc[1], proc[2])
          BY <3>1 DEF BlameTold
        <4> QED
          BY <4>1, AnnouncedByRow
      <3> QED
        BY <3>2 DEF BlameTold
    <2>5. PlansTold(host, steady)'
      <3>1. PlansTold(host, q.steady)
        BY <2>1 DEF Told
      <3>2. ASSUME NEW proc \in host.matched
            PROVE  \E p \in PlanIds :
                      Announces(p, host, proc[1], proc[2])' \/ p \notin steady
        <4>1. PICK p \in PlanIds : Announces(p, host, proc[1], proc[2]) \/ p \notin q.steady
          BY <3>1 DEF PlansTold
        <4>2. CASE p \in steady
          BY <4>1, <4>2, AnnouncedByRow
        <4> QED
          BY <4>2
      <3> QED
        BY <3>2 DEF PlansTold
    <2> QED
      BY <2>2, <2>3, <2>4, <2>5 DEF Told
  <1>7. (\A host \in reader[r].hosts : Told(host, reader[r].steady))'
    BY <1>6
  <1> QED
    BY <1>3, <1>4, <1>5, <1>7 DEF Right
\* A step of one request, which changes nothing but what its thread holds.
LEMMA ReaderStep ==
    ASSUME IInv, NEW r \in Readers, NEW held \in Reader, Go(r, held),
           UNCHANGED tables, Right(held)
    PROVE  IInv'
  <1>1. /\ UNCHANGED <<servers, users, plans, run, store, clock>>
        /\ reader' = [reader EXCEPT ![r] = held]
        /\ reader \in [Readers -> Reader]
    BY DEF Go, tables, IInv, TypeOK
  <1>2. TypeOK'
    BY <1>1 DEF IInv, TypeOK
  <1>3. RunsTimely' /\ OwnersExist'
    BY <1>1 DEF IInv, RunsTimely, OwnersExist
  <1>4. ASSUME NEW s \in Readers PROVE Right(reader[s])'
    <2>1. PICK q \in Reader : q = reader'[s] /\ Right(q)
      BY <1>1 DEF IInv
    <2> QED
      BY <1>1, <2>1, StillRight
  <1> QED
    BY <1>2, <1>3, <1>4 DEF IInv

\* A step of others, which takes from steady what it touches.
LEMMA OthersStep ==
    ASSUME IInv, NEW x, TypeOK', RunsTimely', OwnersExist', Disturb(x),
           \A c \in Runs : run[c].pc = "done" => run'[c] = run[c],
           \A s \in Servers : s # x => store'[s] = store[s],
           \A p \in PlanIds : p # x => plans'[p] = plans[p]
    PROVE  IInv'
  <1>1. ASSUME NEW r \in Readers PROVE Right(reader[r])'
    <2>1. PICK q \in Reader : q = reader[r] /\ Right(q)
      BY DEF IInv, TypeOK
    <2> DEFINE steady == q.steady \ {x}
    <2>2. reader'[r] = [q EXCEPT !.steady = steady] /\ reader'[r] \in Reader
      BY <2>1 DEF Disturb, TypeOK
    <2>3. /\ reader'[r].pc = q.pc /\ reader'[r].key = q.key /\ reader'[r].server = q.server
          /\ reader'[r].names = q.names /\ reader'[r].now = q.now
          /\ reader'[r].report = q.report /\ reader'[r].freshness = q.freshness
          /\ reader'[r].hosts = q.hosts /\ reader'[r].steady = steady
      BY <2>2 DEF Reader
    <2>4. steady \subseteq q.steady /\ x \notin steady
      OBVIOUS
    <2> HIDE DEF steady
    <2>5. /\ \A s \in steady \cap Servers : store'[s] = store[s]
          /\ \A p \in steady \cap PlanIds : plans'[p] = plans[p]
      BY <2>4
    <2> QED
      BY <2>1, <2>2, <2>3, <2>4, <2>5, StillRight
  <1> QED
    BY <1>1 DEF IInv

\* A step that touches nothing a thread has read.
LEMMA QuietStep ==
    ASSUME IInv, TypeOK', RunsTimely', OwnersExist', UNCHANGED <<plans, store, reader>>,
           \A c \in Runs : run[c].pc = "done" => run'[c] = run[c]
    PROVE  IInv'
  <1>1. ASSUME NEW r \in Readers PROVE Right(reader[r])'
    <2>1. PICK q \in Reader : q = reader[r] /\ Right(q)
      BY DEF IInv, TypeOK
    <2> QED
      BY <2>1, StillRight
  <1> QED
    BY <1>1 DEF IInv

-----------------------------------------------------------------------------
(* The collector.                                                          *)

\* A run that has not been stored takes a step: what is stored stays.
LEMMA RunStep ==
    ASSUME IInv, NEW c \in Runs, NEW new \in Run, run[c].pc # "done",
           run' = [run EXCEPT ![c] = new],
           UNCHANGED <<tables, store, reader, clock>>,
           new.pc = "stamped" => new.reported_at <= clock,
           new.pc \in {"observed", "accepted", "done"} => new.reported_at <= new.observed_at
    PROVE  IInv'
  <1>1. /\ \A d \in Runs : run'[d] = IF d = c THEN new ELSE run[d]
        /\ run' \in [Runs -> Run]
    BY DEF IInv, TypeOK
  <1>2. TypeOK'
    BY <1>1 DEF IInv, TypeOK, tables
  <1>3. RunsTimely'
    BY <1>1 DEF IInv, RunsTimely
  <1>4. OwnersExist'
    BY DEF IInv, OwnersExist, tables
  <1>5. \A d \in Runs : run[d].pc = "done" => run'[d] = run[d]
    BY <1>1
  <1> QED
    BY <1>2, <1>3, <1>4, <1>5, QuietStep DEF tables

LEMMA CollectKeeps ==
    ASSUME IInv, NEW c \in Runs, Collect(c)
    PROVE  IInv'
  <1>0. /\ run[c] \in Run /\ clock \in Times /\ run \in [Runs -> Run]
        /\ \A t \in Times : t \in Nat
    BY DEF IInv, TypeOK, Times
  <1>l. Lost \in Run /\ Lost.pc = "lost"
    <2>1. 0 \in Times
      BY RuntimeAssumption DEF Times
    <2> QED
      BY <2>1 DEF Lost, NotRun, Run
  <1>1. CASE Stamp(c)
    <2> DEFINE new == [run[c] EXCEPT !.pc = "stamped", !.reported_at = clock]
    <2>1. new \in Run /\ new.pc = "stamped" /\ new.reported_at = clock
      BY <1>0 DEF Run
    <2>3. clock <= clock
      BY <1>0
    <2>2. run' = [run EXCEPT ![c] = new] /\ run[c].pc # "done"
          /\ UNCHANGED <<tables, store, reader, clock>>
      BY <1>1 DEF Stamp
    <2> HIDE DEF new
    <2> QED
      BY <2>1, <2>2, <2>3, RunStep
  <1>2. CASE Observe(c)
    <2>1. PICK sighting \in Sightings :
             run' = [run EXCEPT ![c] = [run[c] EXCEPT !.pc = "observed", !.gpus = sighting,
                                                      !.observed_at = clock]]
      BY <1>2 DEF Observe
    <2> DEFINE new == [run[c] EXCEPT !.pc = "observed", !.gpus = sighting,
                                     !.observed_at = clock]
    <2>2. run[c].reported_at <= clock
      BY <1>2 DEF Observe, IInv, RunsTimely
    <2>3. /\ new \in Run /\ new.pc = "observed" /\ new.reported_at = run[c].reported_at
          /\ new.observed_at = clock
      BY <1>0 DEF Run
    <2>4. run[c].pc # "done" /\ UNCHANGED <<tables, store, reader, clock>>
      BY <1>2 DEF Observe
    <2> HIDE DEF new
    <2>5. run' = [run EXCEPT ![c] = new]
      BY <2>1 DEF new
    <2> QED
      BY <2>2, <2>3, <2>4, <2>5, RunStep
  <1>3. CASE Lose(c)
    <2>1. run[c].pc # "done" /\ run' = [run EXCEPT ![c] = Lost]
          /\ UNCHANGED <<tables, store, reader, clock>>
      BY <1>3 DEF Lose
    <2> QED
      BY <1>l, <2>1, RunStep
  <1>4. CASE Accept(c)
    <2> DEFINE new == [run[c] EXCEPT !.pc = "accepted"]
    <2>1. /\ new \in Run /\ new.pc = "accepted" /\ new.reported_at = run[c].reported_at
          /\ new.observed_at = run[c].observed_at
      BY <1>0 DEF Run
    <2>2. run[c].pc = "observed" /\ UNCHANGED <<tables, store, reader, clock>>
      BY <1>4 DEF Accept
    <2>3. run[c].reported_at <= run[c].observed_at
      BY <2>2 DEF IInv, RunsTimely
    <2>4. run' = [run EXCEPT ![c] = new] \/ run' = [run EXCEPT ![c] = Lost]
      BY <1>4 DEF Accept
    <2> HIDE DEF new
    <2> QED
      BY <1>l, <2>1, <2>2, <2>3, <2>4, RunStep
  <1>5. CASE SetReport(c)
    <2> DEFINE new == [run[c] EXCEPT !.pc = "done"]
               s == HostOf[c]
    <2>1. /\ new \in Run /\ new.pc = "done" /\ new.reported_at = run[c].reported_at
          /\ new.observed_at = run[c].observed_at
      BY <1>0 DEF Run
    <2>2. /\ run[c].pc = "accepted" /\ store' = [store EXCEPT ![s] = c] /\ Disturb(s)
          /\ UNCHANGED <<servers, users, plans, clock>> /\ s \in Servers
      BY <1>5, NoneIsNothing DEF SetReport, tables
    <2>3. run[c].reported_at <= run[c].observed_at
      BY <2>2 DEF IInv, RunsTimely
    <2>4. run' = [run EXCEPT ![c] = new]
      BY <1>5 DEF SetReport
    <2> HIDE DEF new, s
    <2>5. \A d \in Runs : run'[d] = IF d = c THEN new ELSE run[d]
      BY <1>0, <2>4
    <2>6. \A t \in Servers : store'[t] = IF t = s THEN c ELSE store[t]
      BY <2>2 DEF IInv, TypeOK
    <2>7. reader' \in [Readers -> Reader]
      <3>1. ASSUME NEW r \in Readers
            PROVE  [reader[r] EXCEPT !.steady = @ \ {s}] \in Reader
        BY DEF IInv, TypeOK, Reader
      <3> QED
        BY <2>2, <3>1 DEF Disturb
    <2>8. TypeOK'
      <3>1. run' \in [Runs -> Run]
        BY <1>0, <2>1, <2>4
      <3>2. store' \in [Servers -> Runs \cup {None}]
        BY <2>2 DEF IInv, TypeOK
      <3>3. ASSUME NEW t \in Servers, store'[t] # None
            PROVE  HostOf[store'[t]] = t /\ run'[store'[t]].pc = "done"
        <4>1. PICK d \in Runs : d = store'[t]
          BY <3>2, <3>3
        <4>2. (d = c /\ t = s) \/ (HostOf[d] = t /\ run[d].pc = "done")
          BY <2>6, <3>3, <4>1 DEF IInv, TypeOK
        <4> QED
          BY <2>1, <2>5, <4>1, <4>2 DEF s
      <3> QED
        BY <2>2, <2>7, <3>1, <3>2, <3>3 DEF IInv, TypeOK
    <2>9. RunsTimely' /\ OwnersExist'
      BY <2>1, <2>2, <2>3, <2>5 DEF IInv, RunsTimely, OwnersExist
    <2>10. \A d \in Runs : run[d].pc = "done" => run'[d] = run[d]
      BY <2>2, <2>5
    <2> QED
      BY <2>2, <2>6, <2>8, <2>9, <2>10, OthersStep
  <1> QED
    BY <1>1, <1>2, <1>3, <1>4, <1>5 DEF Collect
-----------------------------------------------------------------------------
(* What happens around them.                                               *)

\* A thread that does nothing, or nothing any more, holds nothing.
LEMMA NothingHeld ==
    ASSUME IInv, NEW pc \in {"idle", "failed"}
    PROVE  LET q == [Unused EXCEPT !.pc = pc] IN
           /\ q \in Reader /\ q.pc = pc /\ q.hosts = {} /\ q.report = None
           /\ Right(q)
  <1> DEFINE q == [Unused EXCEPT !.pc = pc]
  <1>1. 0 \in Times
    BY RuntimeAssumption DEF Times
  <1>2. q \in Reader /\ q.pc = pc /\ q.hosts = {} /\ q.report = None
    BY <1>1 DEF Unused, Reader
  <1> HIDE DEF q
  <1>3. Right(q)
    BY <1>2 DEF Right, Asked, Reported, Kept, OwnersKnown
  <1> QED
    BY <1>2, <1>3 DEF q

LEMMA RestartKeeps ==
    ASSUME IInv, Restart
    PROVE  IInv'
  <1>1. /\ UNCHANGED <<servers, users, plans, clock>>
        /\ store' = [s \in Servers |-> None]
        /\ \A c \in Runs : run'[c] = IF run[c].pc = "accepted" THEN Lost ELSE run[c]
        /\ reader' = [r \in Readers |->
                        IF reader[r].pc \in Busy THEN [Unused EXCEPT !.pc = "failed"]
                        ELSE [reader[r] EXCEPT !.steady = @ \ Servers]]
    BY DEF Restart, tables
  <1>2. Lost \in Run /\ Lost.pc = "lost"
    <2>1. 0 \in Times
      BY RuntimeAssumption DEF Times
    <2> QED
      BY <2>1 DEF Lost, NotRun, Run
  <1>3. run' \in [Runs -> Run]
    <2>1. \A c \in Runs : (IF run[c].pc = "accepted" THEN Lost ELSE run[c]) \in Run
      BY <1>2 DEF IInv, TypeOK
    <2> QED
      BY <2>1 DEF Restart
  <1>4. \A r \in Readers : [reader[r] EXCEPT !.steady = @ \ Servers] \in Reader
    BY DEF IInv, TypeOK, Reader
  <1>5. [Unused EXCEPT !.pc = "failed"] \in Reader
    BY NothingHeld
  <1>6. reader' \in [Readers -> Reader]
    BY <1>1, <1>4, <1>5
  <1>7. TypeOK'
    BY <1>1, <1>3, <1>6 DEF IInv, TypeOK
  <1>8. RunsTimely'
    BY <1>1, <1>2 DEF IInv, RunsTimely
  <1>9. OwnersExist'
    BY <1>1 DEF IInv, OwnersExist
  <1>10. ASSUME NEW r \in Readers PROVE Right(reader[r])'
    <2>1. CASE reader[r].pc \in Busy
      <3>1. PICK q \in Reader : q = reader'[r] /\ Right(q) /\ q.pc = "failed"
                                  /\ q.hosts = {} /\ q.report = None
        <4>1. reader'[r] = [Unused EXCEPT !.pc = "failed"]
          BY <1>1, <2>1
        <4> QED
          BY <4>1, NothingHeld
      <3> QED
        BY <3>1 DEF Right, Asked, Reported, Kept, OwnersKnown
    <2>2. CASE reader[r].pc \notin Busy
      <3>1. PICK q \in Reader : q = reader[r] /\ Right(q)
        BY DEF IInv, TypeOK
      <3> DEFINE steady == q.steady \ Servers
      <3>2. reader'[r] = [q EXCEPT !.steady = steady] /\ reader'[r] \in Reader
        BY <1>1, <1>6, <2>2, <3>1
      <3>3. /\ reader'[r].pc = q.pc /\ reader'[r].key = q.key /\ reader'[r].server = q.server
            /\ reader'[r].names = q.names /\ reader'[r].now = q.now
            /\ reader'[r].report = q.report /\ reader'[r].freshness = q.freshness
            /\ reader'[r].hosts = q.hosts /\ reader'[r].steady = steady
        BY <3>2 DEF Reader
      <3>4. q.pc # "freshness" /\ steady \subseteq q.steady
        BY <2>2, <3>1 DEF Busy
      <3>5. \A c \in Runs : run[c].pc = "done" => run'[c] = run[c]
        BY <1>1
      <3> HIDE DEF steady
      <3> QED
        BY <1>1, <3>1, <3>2, <3>3, <3>4, <3>5, StillRight
    <2> QED
      BY <2>1, <2>2
  <1> QED
    BY <1>7, <1>8, <1>9, <1>10 DEF IInv

\* Servers, users and the clock: what threads have read of them they do not read again.
LEMMA ServerCreatedKeeps ==
    ASSUME IInv, NEW s \in Servers, ServerCreated(s)
    PROVE  IInv'
  <1>1. servers' \in [Servers -> RowStates]
    BY DEF ServerCreated, IInv, TypeOK, RowStates
  <1>2. TypeOK' /\ RunsTimely' /\ OwnersExist'
    BY <1>1 DEF ServerCreated, IInv, TypeOK, RunsTimely, OwnersExist
  <1> QED
    BY <1>2, QuietStep DEF ServerCreated

LEMMA UserSavedKeeps ==
    ASSUME IInv, NEW u \in Users, UserSaved(u)
    PROVE  IInv'
  <1>1. PICK state \in {"enabled", "disabled"} : users' = [users EXCEPT ![u] = state]
    BY DEF UserSaved
  <1>2. users' \in [Users -> RowStates]
    BY <1>1 DEF IInv, TypeOK, RowStates
  <1>3. TypeOK' /\ RunsTimely'
    BY <1>2 DEF UserSaved, IInv, TypeOK, RunsTimely
  <1>4. OwnersExist'
    <2>1. \A w \in Users : users[w] # "absent" => users'[w] # "absent"
      BY <1>1 DEF IInv, TypeOK
    <2> QED
      BY <2>1, PlansAreRows DEF UserSaved, IInv, OwnersExist
  <1> QED
    BY <1>3, <1>4, QuietStep DEF UserSaved

LEMMA PlanCommittedKeeps ==
    ASSUME IInv, NEW p \in PlanIds, PlanCommitted(p)
    PROVE  IInv'
  <1>1. PICK row \in PlanRows : users[row.owner_id] # "absent" /\ plans' = [plans EXCEPT ![p] = row]
    BY DEF PlanCommitted
  <1>2. /\ UNCHANGED <<servers, users, run, store, clock>> /\ Disturb(p)
        /\ \A o \in PlanIds : plans'[o] = IF o = p THEN row ELSE plans[o]
    BY <1>1 DEF PlanCommitted, IInv, TypeOK
  <1>3. reader' \in [Readers -> Reader]
    <2>1. ASSUME NEW r \in Readers
          PROVE  [reader[r] EXCEPT !.steady = @ \ {p}] \in Reader
      BY DEF IInv, TypeOK, Reader
    <2> QED
      BY <1>2, <2>1 DEF Disturb
  <1>4. TypeOK'
    <2>1. plans' \in [PlanIds -> PlanRows \cup {None}]
      BY <1>1 DEF IInv, TypeOK
    <2> QED
      BY <1>2, <1>3, <2>1 DEF IInv, TypeOK
  <1>5. RunsTimely' /\ OwnersExist'
    BY <1>1, <1>2 DEF IInv, RunsTimely, OwnersExist
  <1> QED
    BY <1>2, <1>4, <1>5, OthersStep

LEMMA TickKeeps ==
    ASSUME IInv, Tick
    PROVE  IInv'
  <1>1. clock \in Times /\ clock' \in Times /\ clock' = clock + 1 /\ \A t \in Times : t \in Nat
    BY RuntimeAssumption DEF Tick, IInv, TypeOK, Times
  <1>2. TypeOK' /\ OwnersExist'
    BY <1>1 DEF Tick, tables, IInv, TypeOK, OwnersExist
  <1>3. RunsTimely'
    <2>1. \A c \in Runs : run[c].reported_at \in Nat
      BY <1>1 DEF IInv, TypeOK, Run
    <2> QED
      BY <1>1, <2>1 DEF Tick, IInv, RunsTimely
  <1> QED
    BY <1>2, <1>3, QuietStep DEF Tick, tables
-----------------------------------------------------------------------------
(* The requests.                                                           *)

\* What a thread keeps from step to step.
LEMMA HostsStay ==
    ASSUME NEW q, Right(q), NEW held, held.hosts = q.hosts, held.steady = q.steady
    PROVE  \A host \in held.hosts : Told(host, held.steady)
  BY DEF Right

LEMMA ReceiveKeeps ==
    ASSUME IInv, NEW r \in Readers, Receive(r)
    PROVE  IInv'
  <1>1. PICK u \in Users, key \in Servers \cup {"overview"} :
           Go(r, [Unused EXCEPT !.pc = "actor", !.actor = u, !.key = key,
                                !.steady = PlanIds \cup Servers])
    BY DEF Receive
  <1> DEFINE held == [Unused EXCEPT !.pc = "actor", !.actor = u, !.key = key,
                                    !.steady = PlanIds \cup Servers]
  <1>2. 0 \in Times
    BY RuntimeAssumption DEF Times
  <1>3. /\ held \in Reader /\ held.pc = "actor" /\ held.key = key /\ held.hosts = {}
        /\ held.report = None
    BY <1>2 DEF Unused, Reader, Busy
  <1>4. Go(r, held) /\ UNCHANGED tables
    BY <1>1 DEF Go
  <1> HIDE DEF held
  <1>5. Right(held)
    BY <1>3 DEF Right, Asked, Reported, Kept, OwnersKnown
  <1> QED
    BY <1>3, <1>4, <1>5, ReaderStep

LEMMA RefuseKeeps ==
    ASSUME IInv, NEW r \in Readers, Refuse(r)
    PROVE  IInv'
  <1> DEFINE held == [Unused EXCEPT !.pc = "failed"]
  <1>1. held \in Reader /\ Right(held)
    BY NothingHeld
  <1>2. Go(r, held) /\ UNCHANGED tables
    BY DEF Refuse, Go
  <1> HIDE DEF held
  <1> QED
    BY <1>1, <1>2, ReaderStep

LEMMA CheckActorKeeps ==
    ASSUME IInv, NEW r \in Readers, CheckActor(r)
    PROVE  IInv'
  <1> DEFINE held == [reader[r] EXCEPT !.pc = "servers"]
  <1>1. CASE Go(r, held)
    <2>1. reader[r] \in Reader /\ Right(reader[r]) /\ reader[r].pc = "actor"
      BY DEF IInv, TypeOK, CheckActor
    <2>2. /\ held \in Reader /\ held.pc = "servers" /\ held.key = reader[r].key
          /\ held.report = reader[r].report /\ held.hosts = reader[r].hosts
          /\ held.steady = reader[r].steady
      BY <2>1 DEF Reader, Busy
    <2>3. UNCHANGED tables
      BY <1>1 DEF Go
    <2> HIDE DEF held
    <2>4. \A host \in held.hosts : Told(host, held.steady)
      BY <2>1, <2>2, HostsStay
    <2>5. Right(held)
      BY <2>1, <2>2, <2>4 DEF Right, Asked, Reported, OwnersKnown
    <2> QED
      BY <1>1, <2>2, <2>3, <2>5, ReaderStep
  <1>2. CASE Refuse(r)
    BY <1>2, RefuseKeeps
  <1> QED
    BY <1>1, <1>2 DEF CheckActor

LEMMA ReadServersKeeps ==
    ASSUME IInv, NEW r \in Readers, ReadServers(r)
    PROVE  IInv'
  <1>1. CASE Refuse(r)
    BY <1>1, RefuseKeeps
  <1>2. ASSUME NEW todo \in SUBSET Servers,
               Go(r, [reader[r] EXCEPT !.pc = "users", !.key = None, !.todo = todo])
        PROVE  IInv'
    <2> DEFINE held == [reader[r] EXCEPT !.pc = "users", !.key = None, !.todo = todo]
    <2>1. reader[r] \in Reader /\ Right(reader[r]) /\ reader[r].pc = "servers"
      BY DEF IInv, TypeOK, ReadServers
    <2>2. /\ held \in Reader /\ held.pc = "users" /\ held.report = reader[r].report
          /\ held.hosts = reader[r].hosts /\ held.steady = reader[r].steady
      BY <2>1 DEF Reader, Busy
    <2>3. Go(r, held) /\ UNCHANGED tables
      BY <1>2 DEF Go
    <2> HIDE DEF held
    <2>4. \A host \in held.hosts : Told(host, held.steady)
      BY <2>1, <2>2, HostsStay
    <2>5. Right(held)
      BY <2>1, <2>2, <2>4 DEF Right, Asked, Reported, OwnersKnown
    <2> QED
      BY <2>2, <2>3, <2>5, ReaderStep
  <1>3. reader[r].key \in Servers \cup {"overview"}
    BY DEF ReadServers, IInv, Right, Asked
  <1>4. {s \in Servers : servers[s] = "enabled"} \in SUBSET Servers
    OBVIOUS
  <1>5. reader[r].key # "overview" => {reader[r].key} \in SUBSET Servers
    BY <1>3
  <1> QED
    BY <1>1, <1>2, <1>4, <1>5 DEF ReadServers

\* Every plan has an owner, who is still there.
LEMMA ReadUsersKeeps ==
    ASSUME IInv, NEW r \in Readers, ReadUsers(r)
    PROVE  IInv'
  <1> DEFINE names == {u \in Users : users[u] # "absent"}
             held == [reader[r] EXCEPT !.pc = "clock", !.names = names]
  <1>1. reader[r] \in Reader /\ Right(reader[r]) /\ reader[r].pc = "users"
    BY DEF IInv, TypeOK, ReadUsers
  <1>2. /\ held \in Reader /\ held.pc = "clock" /\ held.report = reader[r].report
        /\ held.hosts = reader[r].hosts /\ held.steady = reader[r].steady
        /\ held.names = names
    BY <1>1 DEF Reader, Busy
  <1>3. Go(r, held) /\ UNCHANGED tables
    BY DEF ReadUsers, Go
  <1>4. \A p \in PlanIds : plans[p] # None => plans[p].owner_id \in names
    BY PlansAreRows DEF IInv, OwnersExist
  <1> HIDE DEF held, names
  <1>5. \A host \in held.hosts : Told(host, held.steady)
    BY <1>1, <1>2, HostsStay
  <1>6. Right(held)
    BY <1>1, <1>2, <1>4, <1>5 DEF Right, Asked, Reported, OwnersKnown
  <1> QED
    BY <1>2, <1>3, <1>6, ReaderStep

LEMMA ReadClockKeeps ==
    ASSUME IInv, NEW r \in Readers, ReadClock(r)
    PROVE  IInv'
  <1>1. reader[r] \in Reader /\ Right(reader[r]) /\ reader[r].pc = "clock"
    BY DEF IInv, TypeOK, ReadClock
  <1>2. ASSUME NEW s \in reader[r].todo,
               Go(r, [reader[r] EXCEPT !.pc = "report", !.server = s, !.todo = @ \ {s},
                                       !.now = clock])
        PROVE  IInv'
    <2> DEFINE held == [reader[r] EXCEPT !.pc = "report", !.server = s, !.todo = @ \ {s},
                                         !.now = clock]
    <2>1. s \in Servers /\ clock \in Times
      BY <1>1 DEF Reader, IInv, TypeOK
    <2>2. /\ held \in Reader /\ held.pc = "report" /\ held.server = s
          /\ held.report = reader[r].report /\ held.hosts = reader[r].hosts
          /\ held.steady = reader[r].steady /\ held.names = reader[r].names
      BY <1>1, <2>1 DEF Reader, Busy
    <2>3. Go(r, held) /\ UNCHANGED tables
      BY <1>2 DEF Go
    <2> HIDE DEF held
    <2>4. \A host \in held.hosts : Told(host, held.steady)
      BY <1>1, <2>2, HostsStay
    <2>5. Right(held)
      BY <1>1, <2>1, <2>2, <2>4 DEF Right, Asked, Reported, OwnersKnown
    <2> QED
      BY <2>2, <2>3, <2>5, ReaderStep
  <1>3. ASSUME Go(r, [Unused EXCEPT !.pc = "done", !.hosts = reader[r].hosts,
                                    !.steady = reader[r].steady])
        PROVE  IInv'
    <2> DEFINE held == [Unused EXCEPT !.pc = "done", !.hosts = reader[r].hosts,
                                      !.steady = reader[r].steady]
    <2>1. 0 \in Times
      BY RuntimeAssumption DEF Times
    <2>2. /\ held \in Reader /\ held.pc = "done" /\ held.report = None
          /\ held.hosts = reader[r].hosts /\ held.steady = reader[r].steady
      BY <1>1, <2>1 DEF Unused, Reader
    <2>3. Go(r, held) /\ UNCHANGED tables
      BY <1>3 DEF Go
    <2> HIDE DEF held
    <2>4. \A host \in held.hosts : Told(host, held.steady)
      BY <1>1, <2>2, HostsStay
    <2>5. Right(held)
      BY <2>2, <2>4 DEF Right, Asked, Reported, Kept, OwnersKnown
    <2> QED
      BY <2>2, <2>3, <2>5, ReaderStep
  <1> QED
    BY <1>2, <1>3 DEF ReadClock

LEMMA GetReportKeeps ==
    ASSUME IInv, NEW r \in Readers, GetReport(r)
    PROVE  IInv'
  <1> DEFINE report == store[reader[r].server]
             held == [reader[r] EXCEPT !.pc = "freshness", !.report = report]
  <1>1. reader[r] \in Reader /\ Right(reader[r]) /\ reader[r].pc = "report"
    BY DEF IInv, TypeOK, GetReport
  <1>2. reader[r].server \in Servers
    BY <1>1 DEF Right, Asked
  <1>3. report \in Runs \cup {None} /\ Kept(report)
    BY <1>2 DEF IInv, TypeOK, Kept
  <1>4. /\ held \in Reader /\ held.pc = "freshness" /\ held.server = reader[r].server
        /\ held.report = report /\ held.hosts = reader[r].hosts
        /\ held.steady = reader[r].steady /\ held.names = reader[r].names
    BY <1>1, <1>3 DEF Reader, Busy
  <1>5. Go(r, held) /\ UNCHANGED tables
    BY DEF GetReport, Go
  <1>6. report = store[held.server]
    BY <1>4
  <1> HIDE DEF held, report
  <1>7. \A host \in held.hosts : Told(host, held.steady)
    BY <1>1, <1>4, HostsStay
  <1>8. Right(held)
    BY <1>1, <1>2, <1>3, <1>4, <1>6, <1>7 DEF Right, Asked, Reported, OwnersKnown
  <1> QED
    BY <1>4, <1>5, <1>8, ReaderStep

\* A report that is called fresh was measured within the threshold: its date is earlier
\* than the look at the devices.
LEMMA GetFreshnessKeeps ==
    ASSUME IInv, NEW r \in Readers, GetFreshness(r)
    PROVE  IInv'
  <1> DEFINE s == reader[r].server
             now == reader[r].now
             freshness == Freshness(store[s], now)
             held == [reader[r] EXCEPT !.pc = "plans", !.freshness = freshness]
  <1>1. reader[r] \in Reader /\ Right(reader[r]) /\ reader[r].pc = "freshness"
    BY DEF IInv, TypeOK, GetFreshness
  <1>2. s \in Servers /\ now \in Times
    BY <1>1 DEF Right, Asked, Reader
  <1>3. freshness \in {"fresh", "stale", "unknown"}
    BY DEF Freshness
  <1>4. /\ held \in Reader /\ held.pc = "plans" /\ held.server = s /\ held.now = now
        /\ held.report = reader[r].report /\ held.hosts = reader[r].hosts
        /\ held.steady = reader[r].steady /\ held.names = reader[r].names
        /\ held.freshness = freshness
    BY <1>1, <1>3 DEF Reader, Busy
  <1>5. Go(r, held) /\ UNCHANGED tables
    BY DEF GetFreshness, Go
  <1>6. freshness = "fresh" =>
           store[s] \in Runs /\ run[store[s]].pc = "done" /\ HostOf[store[s]] = s
             /\ Within(store[s], now)
    <2>1. CASE store[s] = None
      BY <2>1 DEF Freshness
    <2>2. CASE store[s] # None
      <3>1. store[s] \in Runs /\ run[store[s]].pc = "done" /\ HostOf[store[s]] = s
        BY <1>2, <2>2 DEF IInv, TypeOK
      <3>2. run[store[s]] \in Run /\ run[store[s]].reported_at <= run[store[s]].observed_at
        BY <3>1 DEF IInv, TypeOK, RunsTimely
      <3>3. /\ run[store[s]].reported_at \in Nat /\ run[store[s]].observed_at \in Nat
            /\ now \in Nat /\ Threshold \in Nat
        BY <1>2, <3>2, RuntimeAssumption DEF Run, Times
      <3>4. freshness = "fresh" => now <= run[store[s]].reported_at + Threshold
        BY <2>2 DEF Freshness
      <3> QED
        BY <3>1, <3>2, <3>3, <3>4 DEF Within
    <2> QED
      BY <2>1, <2>2
  <1>7. s \in held.steady => held.report = store[s]
    BY <1>1, <1>4 DEF Right, Reported
  <1>8. freshness = "fresh" => store[s] # None
    BY DEF Freshness
  <1>9. Kept(held.report)
    BY <1>1, <1>4 DEF Right, Reported
  <1> HIDE DEF held, freshness, now, s
  <1>10. \A host \in held.hosts : Told(host, held.steady)
    BY <1>1, <1>4, HostsStay
  <1>11. Reported(held)
    BY <1>4, <1>6, <1>7, <1>8, <1>9 DEF Reported, Observed
  <1>12. Right(held)
    BY <1>1, <1>2, <1>4, <1>10, <1>11 DEF Right, Asked, OwnersKnown
  <1> QED
    BY <1>4, <1>5, <1>12, ReaderStep
-----------------------------------------------------------------------------
(* What is built for one host.                                             *)

\* A host is built from what the thread holds and the plans of the moment.
LEMMA BuildIsHost ==
    ASSUME IInv, NEW q \in Reader, q.server \in Servers
    PROVE  LET host == Build(q) IN
           /\ host \in HostRuntime
           /\ host.server_key = q.server /\ host.now = q.now /\ host.report = q.report
           /\ host.freshness = q.freshness
           /\ host.matched =
                {proc \in Processes(q.report) :
                   \E p \in GpuPlans({o \in Listed(q.server, q.now) : Ongoing(o, q.now)}, proc[1]) :
                      Matches(p, proc[2], q.names)}
           /\ host.unplanned = Processes(q.report) \ host.matched
  <1> DEFINE ongoing == {p \in Listed(q.server, q.now) : Ongoing(p, q.now)}
             processes == Processes(q.report)
             matched == {proc \in processes :
                           \E p \in GpuPlans(ongoing, proc[1]) : Matches(p, proc[2], q.names)}
             status == IF q.report = None \/ q.freshness # "fresh" THEN "unavailable"
                       ELSE IF processes # {} THEN "active" ELSE "idle"
  <1>1. Build(q) = [server_key |-> q.server, now |-> q.now, report |-> q.report,
                    freshness |-> q.freshness, status |-> status, ongoing |-> ongoing,
                    matched |-> matched, unplanned |-> processes \ matched]
    BY DEF Build
  <1>2. ongoing \subseteq PlanIds
    BY DEF Listed
  <1>3. q.report \in Runs \cup {None} /\ q.now \in Times
        /\ q.freshness \in {"fresh", "stale", "unknown"}
    BY DEF Reader
  <1>4. processes \subseteq Gpus \X Names
    BY <1>3, ProcessesAre
  <1>5. matched \subseteq processes
    OBVIOUS
  <1>6. status \in {"active", "idle", "unavailable"}
    OBVIOUS
  <1>7. matched \in SUBSET (Gpus \X Names) /\ processes \ matched \in SUBSET (Gpus \X Names)
    BY <1>4, <1>5
  <1>8. /\ Build(q).matched = matched /\ Build(q).unplanned = processes \ matched
        /\ Build(q).server_key = q.server /\ Build(q).now = q.now
        /\ Build(q).report = q.report /\ Build(q).freshness = q.freshness
    BY <1>1
  <1> HIDE DEF ongoing, processes, matched, status
  <1>9. Build(q) \in HostRuntime
    BY <1>1, <1>2, <1>3, <1>6, <1>7 DEF HostRuntime
  <1> USE DEF ongoing, processes, matched
  <1> QED
    BY <1>8, <1>9

\* The plans that a process is set against are those that announce it, of owners whose
\* names are known.
LEMMA MatchedIsAnnounced ==
    ASSUME IInv, NEW q \in Reader, NEW host, host.server_key = q.server, host.now = q.now,
           NEW gpu, NEW name, NEW p \in PlanIds
    PROVE  /\ p \in GpuPlans({o \in Listed(q.server, q.now) : Ongoing(o, q.now)}, gpu)
                /\ Matches(p, name, q.names)
              => Announces(p, host, gpu, name)
           /\ Announces(p, host, gpu, name) /\ plans[p].owner_id \in q.names
              => p \in GpuPlans({o \in Listed(q.server, q.now) : Ongoing(o, q.now)}, gpu)
                   /\ Matches(p, name, q.names)
  <1> DEFINE listed == Listed(q.server, q.now)
             ongoing == {o \in listed : Ongoing(o, q.now)}
  <1>1. p \in ongoing => p \in listed
    OBVIOUS
  <1>2. p \in listed => Ongoing(p, q.now)
    <2>1. ASSUME p \in listed
          PROVE  Ongoing(p, q.now)
      <3>1. /\ plans[p] # None /\ plans[p].start_at < q.now /\ plans[p].end_at > q.now
            /\ ~plans[p].cancelled
        BY <2>1 DEF Listed
      <3>2. plans[p].start_at \in Nat /\ plans[p].end_at \in Nat
        BY <3>1, PlansAreRows
      <3>3. q.now \in Nat
        BY DEF Reader, Times
      <3> QED
        BY <3>1, <3>2, <3>3 DEF Ongoing
    <2> QED
      BY <2>1
  <1>3. p \in GpuPlans(ongoing, gpu) <=>
           p \in ongoing /\ (plans[p].gpu_ids = None \/ gpu \in plans[p].gpu_ids)
    BY DEF GpuPlans
  <1>4. p \in ongoing <=> p \in listed
    BY <1>1, <1>2
  <1>5. Announces(p, host, gpu, name) <=>
           /\ p \in listed
           /\ plans[p].gpu_ids = None \/ gpu \in plans[p].gpu_ids
           /\ LowerName[plans[p].owner_id] = name
    BY DEF Announces
  <1>6. Matches(p, name, q.names) <=>
           plans[p].owner_id \in q.names /\ LowerName[plans[p].owner_id] = name
    BY DEF Matches
  <1> HIDE DEF listed, ongoing
  <1>7. /\ p \in GpuPlans(ongoing, gpu) /\ Matches(p, name, q.names)
             => Announces(p, host, gpu, name)
        /\ Announces(p, host, gpu, name) /\ plans[p].owner_id \in q.names
             => p \in GpuPlans(ongoing, gpu) /\ Matches(p, name, q.names)
    BY <1>3, <1>4, <1>5, <1>6
  <1> QED
    BY <1>7 DEF ongoing, listed

\* What is said of a host that was built just now is right.
LEMMA BuildIsTold ==
    ASSUME IInv, NEW q \in Reader, Right(q), q.pc = "plans"
    PROVE  Told(Build(q), q.steady)
  <1>1. q.server \in Servers
    BY DEF Right, Asked
  <1>2. PICK host \in HostRuntime :
           /\ host = Build(q)
           /\ host.server_key = q.server /\ host.now = q.now /\ host.report = q.report
           /\ host.freshness = q.freshness
           /\ host.matched =
                {proc \in Processes(q.report) :
                   \E p \in GpuPlans({o \in Listed(q.server, q.now) : Ongoing(o, q.now)}, proc[1]) :
                      Matches(p, proc[2], q.names)}
           /\ host.unplanned = Processes(q.report) \ host.matched
    BY <1>1, BuildIsHost
  <1>3. Kept(host.report) /\ FreshTold(host, q.steady)
    BY <1>2 DEF Right, Reported, FreshTold
  <1>4. BlameTold(host, q.steady)
    <2>1. ASSUME NEW proc \in host.unplanned, NEW p \in q.steady \cap PlanIds,
                 Announces(p, host, proc[1], proc[2])
          PROVE  FALSE
      <3>1. plans[p] # None
        BY <2>1 DEF Announces, Listed
      <3>2. plans[p].owner_id \in q.names
        BY <3>1 DEF Right, OwnersKnown
      <3>3. /\ p \in GpuPlans({o \in Listed(q.server, q.now) : Ongoing(o, q.now)}, proc[1])
            /\ Matches(p, proc[2], q.names)
        BY <1>2, <2>1, <3>2, MatchedIsAnnounced
      <3>4. proc \in host.matched
        BY <1>2, <3>3
      <3> QED
        BY <1>2, <3>4
    <2> QED
      BY <2>1 DEF BlameTold
  <1>5. PlansTold(host, q.steady)
    <2>1. ASSUME NEW proc \in host.matched
          PROVE  \E p \in PlanIds : Announces(p, host, proc[1], proc[2])
      <3>1. PICK p \in GpuPlans({o \in Listed(q.server, q.now) : Ongoing(o, q.now)}, proc[1]) :
               Matches(p, proc[2], q.names)
        BY <1>2
      <3>2. p \in PlanIds
        BY <3>1 DEF GpuPlans, Listed
      <3> QED
        BY <1>2, <3>1, <3>2, MatchedIsAnnounced
    <2> QED
      BY <2>1 DEF PlansTold
  <1>6. Told(host, q.steady)
    BY <1>3, <1>4, <1>5 DEF Told
  <1> QED
    BY <1>2, <1>6

LEMMA ListPlansKeeps ==
    ASSUME IInv, NEW r \in Readers, ListPlans(r)
    PROVE  IInv'
  <1> DEFINE host == Build(reader[r])
             hosts == reader[r].hosts \cup {host}
             held == [reader[r] EXCEPT !.pc = "clock", !.server = None, !.report = None,
                                       !.hosts = hosts]
  <1>1. reader[r] \in Reader /\ Right(reader[r]) /\ reader[r].pc = "plans"
    BY DEF IInv, TypeOK, ListPlans
  <1>2. reader[r].server \in Servers
    BY <1>1 DEF Right, Asked
  <1>3. host \in HostRuntime
    BY <1>1, <1>2, BuildIsHost
  <1>4. Told(host, reader[r].steady)
    BY <1>1, BuildIsTold
  <1>5. hosts \in SUBSET HostRuntime
    BY <1>1, <1>3 DEF Reader
  <1>6. Go(r, held) /\ UNCHANGED tables
    BY DEF ListPlans, Go
  <1> HIDE DEF host
  <1>7. \A h \in hosts : Told(h, reader[r].steady)
    BY <1>1, <1>4 DEF Right
  <1> HIDE DEF hosts
  <1>8. /\ held \in Reader /\ held.pc = "clock" /\ held.report = None
        /\ held.hosts = hosts /\ held.steady = reader[r].steady
        /\ held.names = reader[r].names
    BY <1>1, <1>5 DEF Reader, Busy
  <1> HIDE DEF held
  <1>9. Right(held)
    BY <1>1, <1>7, <1>8 DEF Right, Asked, Reported, Kept, OwnersKnown
  <1> QED
    BY <1>6, <1>8, <1>9, ReaderStep

-----------------------------------------------------------------------------
(* Together.                                                               *)

\* The first state is right.
LEMMA InitHolds == Init => IInv
  <1> SUFFICES ASSUME Init
               PROVE  IInv
    OBVIOUS
  <1>1. 0 \in Times
    BY RuntimeAssumption DEF Times
  <1>2. NotRun \in Run /\ NotRun.pc = "idle"
    BY <1>1 DEF NotRun, Run
  <1>3. /\ Unused \in Reader /\ Unused.pc = "idle" /\ Unused.hosts = {}
        /\ Unused.report = None
    BY <1>1 DEF Unused, Reader
  <1>4. TypeOK
    BY <1>1, <1>2, <1>3 DEF Init, TypeOK, RowStates
  <1>5. RunsTimely /\ OwnersExist
    BY <1>2 DEF Init, RunsTimely, OwnersExist
  <1>6. Right(Unused)
    BY <1>3 DEF Right, Asked, Reported, Kept, OwnersKnown
  <1> QED
    BY <1>4, <1>5, <1>6 DEF Init, IInv

\* So is what each step makes of a right one.
LEMMA NextKeeps == IInv /\ [Next]_vars => IInv'
  <1> SUFFICES ASSUME IInv, [Next]_vars
               PROVE  IInv'
    OBVIOUS
  <1>1. ASSUME NEW c \in Runs, Collect(c)
        PROVE  IInv'
    BY <1>1, CollectKeeps
  <1>2. ASSUME NEW r \in Readers, Read(r)
        PROVE  IInv'
    BY <1>2, ReceiveKeeps, CheckActorKeeps, ReadServersKeeps, ReadUsersKeeps, ReadClockKeeps,
       GetReportKeeps, GetFreshnessKeeps, ListPlansKeeps DEF Read
  <1>3. ASSUME NEW s \in Servers, ServerCreated(s)
        PROVE  IInv'
    BY <1>3, ServerCreatedKeeps
  <1>4. ASSUME NEW u \in Users, UserSaved(u)
        PROVE  IInv'
    BY <1>4, UserSavedKeeps
  <1>5. ASSUME NEW p \in PlanIds, PlanCommitted(p)
        PROVE  IInv'
    BY <1>5, PlanCommittedKeeps
  <1>6. ASSUME UNCHANGED vars
        PROVE  IInv'
    <2>1. TypeOK' /\ RunsTimely' /\ OwnersExist'
      BY <1>6 DEF vars, IInv, TypeOK, RunsTimely, OwnersExist
    <2> QED
      BY <1>6, <2>1, QuietStep DEF vars
  <1> QED
    BY <1>1, <1>2, <1>3, <1>4, <1>5, <1>6, RestartKeeps, TickKeeps DEF Next

\* Everything that the properties below rest on holds in every reachable state.
THEOREM Invariant == Spec => []IInv
  BY InitHolds, NextKeeps, PTL DEF Spec

\* The tables, the store and what threads hold stay well typed; the report that is kept for
\* a server is one that was accepted for that server.
THEOREM TypeCorrect == Spec => []TypeOK
  <1>1. IInv => TypeOK
    BY DEF IInv
  <1> QED
    BY <1>1, Invariant, PTL

\* A host is called fresh only if a run whose report arrived has looked at its devices
\* within the threshold, in whatever order reports come.
THEOREM FreshIsObserved == Spec => []FreshMeansObserved
  <1>1. IInv => FreshMeansObserved
    BY DEF IInv, Right, Told, FreshTold, Observed, Within, FreshMeansObserved, Recent
  <1> QED
    BY <1>1, Invariant, PTL

\* The processes that are shown as fresh are recent, unless the store was touched between
\* the two sections under its lock.
THEOREM FreshIsRecent == Spec => []ShownAsFreshIsRecent
  <1>1. IInv => ShownAsFreshIsRecent
    BY DEF IInv, Right, Told, FreshTold, Within, ShownAsFreshIsRecent, Recent
  <1> QED
    BY <1>1, Invariant, PTL

\* Nobody is called unplanned who has a plan that stood while the answer was made: the
\* owner's name was among those that were read before the plans.
THEOREM NobodyIsBlamed == Spec => []PlannedIsNotBlamed
  <1>1. IInv => PlannedIsNotBlamed
    BY DEF IInv, Right, Told, BlameTold, PlannedIsNotBlamed
  <1> QED
    BY <1>1, Invariant, PTL

\* Nobody is called planned without a plan that announces the process, or one that was
\* changed since the request came in.
THEOREM MatchesArePlans == Spec => []MatchedHasPlan
  <1>1. IInv => MatchedHasPlan
    BY DEF IInv, Right, Told, PlansTold, MatchedHasPlan
  <1> QED
    BY <1>1, Invariant, PTL
=============================================================================
