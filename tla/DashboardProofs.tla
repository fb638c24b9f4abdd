-------------------------- MODULE DashboardProofs --------------------------
(***************************************************************************)
(* What holds of the dashboard for every number of requests and            *)
(* connections, every TTL and threshold, and every Hub: its state is well  *)
(* typed, requests that come together share a refresh, answers are recent, *)
(* the card of a silent host does not stay fresh, and nobody is shown an   *)
(* older list than somebody before. That every request is answered is a    *)
(* liveness property, which TLC checks.                                    *)
(***************************************************************************)
EXTENDS Dashboard, FiniteSetTheorems, TLAPS

\* A handler between the second look at the cache and the end of its refresh.
LoggingIn == {"login", "login again"}
Calling == LoggingIn \cup {"list", "list again"}
Asking == Calling \cup {"stats"}

Types ==
    /\ setup \in Setup
    /\ token \in Tokens
    /\ cache \in [systems : Times, stamp : 0 .. Horizon]
    /\ queue \in Seq(Requests)
    /\ loop \in {None} \cup Requests
    /\ req \in [Requests -> Request]
    /\ clock \in 0 .. Horizon

\* Every handler that holds a connection is in the queue of the lock once, and only the
\* first of them has got it.
InLine ==
    /\ \A i \in 1 .. Len(queue) : req[queue[i]].pc \in Awaiting
    /\ \A r \in Held : \E i \in 1 .. Len(queue) : queue[i] = r
    /\ \A i, j \in 1 .. Len(queue) : queue[i] = queue[j] => i = j
    /\ \A i \in 2 .. Len(queue) : req[queue[i]].pc = "lock"

\* Who shows nothing to those it does not know is not known to the adapter.
Unknown == setup.credential = "none" /\ setup.stranger # "listed"

\* A static token is kept, and without a credential there is none: then the Hub has never
\* listed a system, or does so to everybody.
TokenExplained ==
    /\ setup.credential = "static" => token # None
    /\ setup.credential = "none" => token = None
    /\ Unknown => cache.systems = None

\* The cache is stamped when its refresh began, which is before the Hub answered.
CacheTimely == cache.systems # None => cache.stamp <= cache.systems /\ cache.systems <= clock

Refreshed(q) == q.pc = "done" /\ ~q.error /\ q.since # None /\ q.systems # None

\* What a handler holds, compared with the cache and the clock: who refreshes has seen the
\* cache expire, and what was answered is not newer than what is cached.
Timely(q) ==
    /\ q.pc \in {"idle", "blocked", "lock", "failed"} => q.since = None
    /\ q.pc \notin {"stats", "done"} => q.systems = None
    /\ q.pc \in LoggingIn => setup.credential = "password"
    /\ q.pc \in Asking =>
         /\ q.since # None
         /\ q.since <= clock
         /\ cache.systems # None => q.since >= cache.stamp + TTL
    /\ q.pc = "stats" =>
         /\ q.systems # None => q.since <= q.systems /\ q.systems <= clock /\ ~Unknown
         /\ cache.systems # None => q.systems # None /\ cache.systems <= q.systems
    /\ q.pc = "done" /\ q.systems # None => cache.systems # None /\ q.systems <= cache.systems
    /\ Refreshed(q) => q.since <= cache.stamp

\* The loop stands still for a handler that has no connection yet.
LoopExplained == loop # None => req[loop].pc = "blocked"

IInv ==
    /\ Types
    /\ InLine
    /\ LoopExplained
    /\ TokenExplained
    /\ CacheTimely
    /\ \A r \in Requests : Timely(req[r])
    /\ RefreshesCollapse

-----------------------------------------------------------------------------
(* The queue of the lock.                                                  *)

\* The clock reads numbers; None is no reading.
LEMMA TimesAre == Times = {None} \cup 0 .. Horizon /\ 0 .. Horizon \subseteq Nat /\ None \notin 0 .. Horizon
  BY DashboardAssumption, SMT DEF Times

\* A call to the Hub is made between the lock and the answer.
LEMMA CallsAre ==
    /\ LoggingIn \subseteq Calling /\ Calling \subseteq Asking /\ Asking \subseteq Awaiting
    /\ {"idle", "blocked", "lock", "failed", "done"} \cap Asking = {}
    /\ "stats" \in Asking \ Calling
    /\ {"list", "list again"} \subseteq Calling \ LoggingIn
  BY DEF Asking, Calling, LoggingIn, Awaiting

\* What is listed now is not listed later.
LEMMA NotBefore == \A n \in Nat : n <= n
  OBVIOUS

\* A handler that waits for the lock, holds it, or does neither stays where it is.
LEMMA LineStays ==
    ASSUME Types, InLine, NEW r \in Requests, NEW q \in Request,
           req' = [req EXCEPT ![r] = q], queue' = queue,
           \/ queue # <<>> /\ r = Head(queue) /\ q.pc \in Awaiting
           \/ req[r].pc \notin Awaiting /\ q.pc \notin Awaiting
    PROVE  InLine'
  <1>1. Len(queue) \in Nat /\ \A i \in 1 .. Len(queue) : queue[i] \in Requests
    BY DEF Types
  <1>2. \A s \in Requests : req'[s] = IF s = r THEN q ELSE req[s]
    BY DEF Types
  <1>3. CASE queue # <<>> /\ r = Head(queue) /\ q.pc \in Awaiting
    <2>1. 1 \in 1 .. Len(queue) /\ r = queue[1]
      BY <1>3 DEF Types
    <2>2. r \in Held
      BY <2>1 DEF InLine, Held
    <2>3. \A i \in 2 .. Len(queue) : i \in 1 .. Len(queue) /\ queue[i] # r
      BY <1>1, <2>1 DEF InLine
    <2>4. Held' = Held
      BY <1>2, <1>3, <2>2 DEF Held
    <2> QED
      BY <1>1, <1>2, <1>3, <2>3, <2>4 DEF InLine
  <1>4. CASE req[r].pc \notin Awaiting /\ q.pc \notin Awaiting
    <2>1. \A i \in 1 .. Len(queue) : queue[i] # r
      BY <1>4 DEF InLine
    <2>2. Held' = Held
      BY <1>2, <1>4 DEF Held
    <2> QED
      BY <1>1, <1>2, <2>1, <2>2 DEF InLine
  <1> QED
    BY <1>3, <1>4

\* The holder gives the lock back: the next in line, still at "lock", has it.
LEMMA LineShortens ==
    ASSUME Types, InLine, NEW r \in Requests, NEW q \in Request,
           req' = [req EXCEPT ![r] = q], queue # <<>>, r = Head(queue),
           queue' = Tail(queue), q.pc \notin Awaiting
    PROVE  InLine' /\ queue' \in Seq(Requests)
  <1>1. Len(queue) \in Nat /\ \A i \in 1 .. Len(queue) : queue[i] \in Requests
    BY DEF Types
  <1>2. \A s \in Requests : req'[s] = IF s = r THEN q ELSE req[s]
    BY DEF Types
  <1>3. queue' \in Seq(Requests) /\ Len(queue) \in Nat \ {0} /\ Len(queue') = Len(queue) - 1
    BY DEF Types
  <1>4. \A i \in 1 .. Len(queue') : queue'[i] = queue[i + 1] /\ i + 1 \in 2 .. Len(queue)
    BY <1>3 DEF Types
  <1>5. 1 \in 1 .. Len(queue) /\ r = queue[1]
    BY <1>3 DEF Types
  <1>6. \A i \in 2 .. Len(queue) : i \in 1 .. Len(queue) /\ queue[i] # r
    BY <1>1, <1>5 DEF InLine
  <1>7. \A i \in 1 .. Len(queue') : queue'[i] \in Requests /\ req'[queue'[i]] = req[queue[i + 1]]
    BY <1>1, <1>2, <1>4, <1>6
  <1>8. \A i \in 1 .. Len(queue') : req'[queue'[i]].pc = "lock"
    BY <1>4, <1>7 DEF InLine
  <1>9. \A s \in Held' : \E i \in 1 .. Len(queue') : queue'[i] = s
    <2>1. SUFFICES ASSUME NEW s \in Held' PROVE \E i \in 1 .. Len(queue') : queue'[i] = s
      OBVIOUS
    <2>2. s \in Held /\ s # r
      BY <2>1, <1>2 DEF Held
    <2>3. PICK i \in 1 .. Len(queue) : queue[i] = s
      BY <2>2 DEF InLine
    <2>4. i # 1
      BY <2>2, <2>3, <1>5
    <2>5. i - 1 \in 1 .. Len(queue') /\ (i - 1) + 1 = i
      BY <2>4, <1>3
    <2> QED
      BY <2>3, <2>5, <1>4
  <1>10. \A i, j \in 1 .. Len(queue') : queue'[i] = queue'[j] => i = j
    <2>1. SUFFICES ASSUME NEW i \in 1 .. Len(queue'), NEW j \in 1 .. Len(queue'), queue'[i] = queue'[j]
                   PROVE  i = j
      OBVIOUS
    <2>2. queue[i + 1] = queue[j + 1] /\ i + 1 \in 1 .. Len(queue) /\ j + 1 \in 1 .. Len(queue)
      BY <2>1, <1>4, <1>3
    <2>3. i + 1 = j + 1
      BY <2>2 DEF InLine
    <2> QED
      BY <2>3, <1>3
  <1>11. \A i \in 2 .. Len(queue') : i \in 1 .. Len(queue')
    BY <1>3
  <1> QED
    BY <1>3, <1>8, <1>9, <1>10, <1>11 DEF InLine, Awaiting

\* A handler joins the line at its end.
LEMMA LineGrows ==
    ASSUME Types, InLine, NEW r \in Requests, NEW q \in Request,
           req' = [req EXCEPT ![r] = q], req[r].pc \notin Awaiting,
           queue' = Append(queue, r), q.pc = "lock"
    PROVE  InLine' /\ queue' \in Seq(Requests)
  <1>1. Len(queue) \in Nat /\ \A i \in 1 .. Len(queue) : queue[i] \in Requests /\ queue[i] # r
    BY DEF Types, InLine
  <1>2. \A s \in Requests : req'[s] = IF s = r THEN q ELSE req[s]
    BY DEF Types
  <1>3. queue' \in Seq(Requests) /\ Len(queue') = Len(queue) + 1
    BY DEF Types
  <1>4. /\ \A i \in 1 .. Len(queue) : queue'[i] = queue[i]
        /\ queue'[Len(queue) + 1] = r
    BY DEF Types
  <1>5. \A i \in 1 .. Len(queue') : i \in 1 .. Len(queue) \/ i = Len(queue) + 1
    BY <1>1, <1>3
  <1>6. \A i \in 1 .. Len(queue) : i \in 1 .. Len(queue') /\ req'[queue'[i]] = req[queue[i]]
    BY <1>1, <1>2, <1>3, <1>4
  <1>7. Len(queue) + 1 \in 1 .. Len(queue') /\ req'[queue'[Len(queue) + 1]].pc = "lock"
    BY <1>1, <1>2, <1>3, <1>4
  <1>8. \A i \in 1 .. Len(queue') : req'[queue'[i]].pc \in Awaiting
    BY <1>5, <1>6, <1>7 DEF InLine, Awaiting
  <1>9. \A s \in Held' : \E i \in 1 .. Len(queue') : queue'[i] = s
    <2>1. SUFFICES ASSUME NEW s \in Held' PROVE \E i \in 1 .. Len(queue') : queue'[i] = s
      OBVIOUS
    <2>2. CASE s = r
      BY <2>2, <1>4, <1>7
    <2>3. CASE s # r
      <3>1. s \in Held
        BY <2>1, <2>3, <1>2 DEF Held
      <3>2. PICK i \in 1 .. Len(queue) : queue[i] = s
        BY <3>1 DEF InLine
      <3> QED
        BY <3>2, <1>4, <1>6
    <2> QED
      BY <2>2, <2>3
  <1>10. \A i, j \in 1 .. Len(queue') : queue'[i] = queue'[j] => i = j
    BY <1>1, <1>4, <1>5 DEF InLine
  <1>11. \A i \in 2 .. Len(queue') : req'[queue'[i]].pc = "lock"
    <2>1. SUFFICES ASSUME NEW i \in 2 .. Len(queue') PROVE req'[queue'[i]].pc = "lock"
      OBVIOUS
    <2>2. i \in 2 .. Len(queue) \/ i = Len(queue) + 1
      BY <1>1, <1>3
    <2>3. \A k \in 2 .. Len(queue) : k \in 1 .. Len(queue)
      BY <1>1
    <2> QED
      BY <2>2, <2>3, <1>6, <1>7 DEF InLine
  <1> QED
    BY <1>3, <1>8, <1>9, <1>10, <1>11 DEF InLine

\* While a handler holds the lock, no other is between two calls to the Hub.
LEMMA OneAsks ==
    ASSUME Types, InLine, NEW s \in Requests, req[s].pc \in Asking
    PROVE  queue # <<>> /\ s = Head(queue)
  <1>1. Asking \subseteq Awaiting /\ "lock" \notin Asking
    BY DEF Asking, Calling, LoggingIn, Awaiting
  <1>2. s \in Held
    BY <1>1 DEF Held
  <1>3. PICK i \in 1 .. Len(queue) : queue[i] = s
    BY <1>2 DEF InLine
  <1>4. Len(queue) \in Nat
    BY DEF Types
  <1>5. i \notin 2 .. Len(queue)
    BY <1>1, <1>3 DEF InLine
  <1>6. i = 1
    BY <1>3, <1>4, <1>5
  <1> QED
    BY <1>3, <1>6, <1>4 DEF Types

-----------------------------------------------------------------------------
(* What the handlers do.                                                   *)

\* The record of a host is never taken for newer than its list or its last report.
LEMMA FreshnessIs ==
    ASSUME Types, NEW systems \in Times, NEW error \in BOOLEAN
    PROVE  /\ Freshness(systems, error) \in {"fresh", "stale", "unreachable", "unknown"}
           /\ clock > setup.silent + Threshold => Freshness(systems, error) # "fresh"
           /\ Freshness(systems, error) = "stale" =>
                /\ systems # None
                /\ clock > setup.silent + Threshold \/ clock - systems > Threshold
  <1>1. setup.silent \in Nat /\ clock \in Nat /\ Threshold \in Nat
    BY TimesAre, DashboardAssumption DEF Types, Setup
  <1>2. CASE systems = None
    BY <1>2 DEF Freshness
  <1>3. CASE systems # None /\ Down(systems)
    BY <1>3 DEF Freshness
  <1>4. CASE systems # None /\ ~Down(systems)
    <2>1. systems \in Nat
      BY <1>4, TimesAre
    <2>2. Freshness(systems, error) = IF clock - Updated(systems) <= Threshold THEN "fresh" ELSE "stale"
      BY <1>4 DEF Freshness
    <2>3. Updated(systems) \in {systems, setup.silent} /\ Updated(systems) <= setup.silent
      BY <1>1, <2>1 DEF Updated
    <2> QED
      BY <1>1, <1>4, <2>1, <2>2, <2>3
  <1> QED
    BY <1>2, <1>3, <1>4

\* An answer sets what is shown and leaves the reading of the clock.
LEMMA AnswerIs ==
    ASSUME Types, NEW r \in Requests, NEW systems \in Times, NEW error \in BOOLEAN,
           Answer(r, systems, error)
    PROVE  \E q \in Request :
             /\ req' = [req EXCEPT ![r] = q]
             /\ q.pc = "done" /\ q.since = req[r].since
             /\ q.systems = systems /\ q.error = error
             /\ q.freshness = Freshness(systems, error)
  <1> DEFINE q == [req[r] EXCEPT !.pc = "done", !.systems = systems, !.error = error,
                                 !.freshness = Freshness(systems, error)]
  <1>1. req[r] \in Request
    BY DEF Types
  <1>2. q \in Request
    BY <1>1, FreshnessIs DEF Request
  <1>3. /\ q.pc = "done" /\ q.since = req[r].since
        /\ q.systems = systems /\ q.error = error
        /\ q.freshness = Freshness(systems, error)
    BY <1>1 DEF Request
  <1>4. req' = [req EXCEPT ![r] = q]
    BY DEF Answer, Types
  <1> HIDE DEF q
  <1> QED
    BY <1>2, <1>3, <1>4

\* A handler that goes on to another call keeps what it has.
LEMMA AwaitIs ==
    ASSUME Types, NEW r \in Requests, NEW place \in Awaiting, NEW begun \in Times, Await(r, place, begun)
    PROVE  \E q \in Request :
             /\ req' = [req EXCEPT ![r] = q]
             /\ q.pc = place /\ q.since = begun
             /\ q.systems = req[r].systems /\ q.error = req[r].error
  <1> DEFINE q == [req[r] EXCEPT !.pc = place, !.since = begun]
  <1>1. req[r] \in Request
    BY DEF Types
  <1>2. q \in Request
    BY <1>1 DEF Request
  <1>3. q.pc = place /\ q.since = begun /\ q.systems = req[r].systems /\ q.error = req[r].error
    BY <1>1 DEF Request
  <1>4. req' = [req EXCEPT ![r] = q]
    BY <1>1 DEF Await, Types, Request
  <1> HIDE DEF q
  <1> QED
    BY <1>2, <1>3, <1>4

\* Where a handler moves without touching the cache, the others are as timely as before.
LEMMA OthersStand ==
    ASSUME Types, \A s \in Requests : Timely(req[s]), RefreshesCollapse,
           NEW r \in Requests, NEW q \in Request,
           req' = [req EXCEPT ![r] = q], UNCHANGED <<setup, cache, clock>>,
           Timely(q), ~Refreshed(q)
    PROVE  (\A s \in Requests : Timely(req[s]))' /\ RefreshesCollapse'
  <1>1. \A s \in Requests : req'[s] = IF s = r THEN q ELSE req[s]
    BY DEF Types
  <1>2. ASSUME NEW s \in Requests PROVE Timely(req[s])'
    <2>1. PICK h : h = req'[s]
      OBVIOUS
    <2>2. Timely(h)
      BY <1>1, <2>1
    <2> QED
      BY <2>1, <2>2 DEF Timely, Refreshed, Unknown
  <1>3. RefreshesCollapse'
    <2>1. ASSUME NEW a \in Requests, NEW b \in Requests, a # b, Refreshed(req'[a]), Refreshed(req'[b]),
                 req'[a].since <= req'[b].since
          PROVE  req'[b].since - req'[a].since >= TTL
      <3>1. req'[a] = req[a] /\ req'[b] = req[b]
        BY <1>1, <2>1
      <3> QED
        BY <2>1, <3>1 DEF RefreshesCollapse, Refreshed
    <2> QED
      BY <2>1 DEF RefreshesCollapse, Refreshed
  <1> QED
    BY <1>2, <1>3

\* What the cache can answer at once: a fresh list, or the one that is left after an error.
LEMMA CacheAnswers ==
    ASSUME Types, TokenExplained, CacheTimely, \A s \in Requests : Timely(req[s]), RefreshesCollapse,
           NEW r \in Requests, NEW error \in BOOLEAN, error \/ req[r].since = None,
           Answer(r, cache.systems, error), UNCHANGED <<setup, token, cache, clock, loop>>
    PROVE  \E q \in Request :
             /\ req' = [req EXCEPT ![r] = q]
             /\ q.pc = "done"
             /\ (TokenExplained /\ CacheTimely /\ \A s \in Requests : Timely(req[s]))'
             /\ RefreshesCollapse'
  <1>1. cache.systems \in Times
    BY DEF Types
  <1>2. PICK q \in Request :
           /\ req' = [req EXCEPT ![r] = q]
           /\ q.pc = "done" /\ q.since = req[r].since
           /\ q.systems = cache.systems /\ q.error = error
    BY <1>1, AnswerIs
  <1>3. ~Refreshed(q)
    BY <1>2 DEF Refreshed
  <1>4. Timely(q)
    <2>1. q.systems # None => q.systems <= cache.systems
      BY <1>1, <1>2, TimesAre
    <2> QED
      BY <1>2, <1>3, <2>1 DEF Timely, Asking, Calling, LoggingIn
  <1>5. (\A s \in Requests : Timely(req[s]))' /\ RefreshesCollapse'
    BY <1>2, <1>3, <1>4, OthersStand
  <1>6. TokenExplained' /\ CacheTimely'
    BY DEF TokenExplained, CacheTimely, Unknown
  <1> QED
    BY <1>2, <1>5, <1>6

-----------------------------------------------------------------------------
(* The steps.                                                              *)

\* The first query: an answer from the fresh cache, or a place in the line.
LEMMA ReceiveKeeps ==
    ASSUME IInv, NEW r \in Requests, Receive(r)
    PROVE  IInv'
  <1> USE DEF IInv
  <1>1. req[r].pc = "idle" /\ req[r] \in Request /\ req[r].pc \notin Awaiting
    BY DEF Receive, Types, Awaiting
  <1>2. Timely(req[r]) /\ req[r].since = None
    BY <1>1 DEF Timely
  <1>3. CASE Answer(r, cache.systems, FALSE) /\ UNCHANGED queue
    <2>1. PICK q \in Request :
             /\ req' = [req EXCEPT ![r] = q]
             /\ q.pc = "done"
             /\ (TokenExplained /\ CacheTimely /\ \A s \in Requests : Timely(req[s]))'
             /\ RefreshesCollapse'
      BY <1>2, <1>3, CacheAnswers DEF Receive
    <2>2. InLine'
      BY <1>1, <1>3, <2>1, LineStays DEF Awaiting
    <2>3. Types'
      BY <1>3, <2>1 DEF Types, Receive
    <2>4. LoopExplained'
      BY DEF Receive, LoopExplained
    <2> QED
      BY <2>1, <2>2, <2>3, <2>4
  <1>4. CASE req' = [req EXCEPT ![r].pc = "lock"] /\ queue' = Append(queue, r)
    <2> DEFINE q == [req[r] EXCEPT !.pc = "lock"]
    <2>1. q \in Request /\ q.pc = "lock" /\ q.since = req[r].since /\ q.systems = req[r].systems
          /\ q.error = req[r].error
      BY <1>1 DEF Request, Awaiting
    <2>2. req' = [req EXCEPT ![r] = q]
      BY <1>4 DEF Types
    <2> HIDE DEF q
    <2>3. InLine' /\ queue' \in Seq(Requests)
      BY <1>1, <1>4, <2>1, <2>2, LineGrows
    <2>4. Timely(q) /\ ~Refreshed(q)
      BY <1>1, <1>2, <2>1 DEF Timely, Refreshed, Asking, Calling, LoggingIn
    <2>5. (\A s \in Requests : Timely(req[s]))' /\ RefreshesCollapse'
      BY <2>1, <2>2, <2>4, OthersStand DEF Receive
    <2>6. Types'
      BY <2>1, <2>2, <2>3 DEF Types, Receive
    <2>7. TokenExplained' /\ CacheTimely'
      BY DEF Receive, TokenExplained, CacheTimely, Unknown
    <2>8. LoopExplained'
      BY DEF Receive, LoopExplained
    <2> QED
      BY <2>3, <2>5, <2>6, <2>7, <2>8
  <1> QED
    BY <1>3, <1>4 DEF Receive

\* A handler that is stopped by the pool, or given up by it, has not come to the lock.
LEMMA PoolKeeps ==
    ASSUME IInv, NEW r \in Requests, NEW pc \in {"blocked", "failed"},
           req[r].pc \in {"idle", "blocked"}, req' = [req EXCEPT ![r].pc = pc],
           loop' = None \/ (loop' = r /\ pc = "blocked"),
           UNCHANGED <<setup, token, cache, queue, clock>>
    PROVE  IInv'
  <1> USE DEF IInv
  <1> DEFINE q == [req[r] EXCEPT !.pc = pc]
  <1>1. q \in Request /\ q.pc = pc /\ q.since = req[r].since /\ q.systems = req[r].systems
    BY DEF Request, Awaiting, Types
  <1>2. req' = [req EXCEPT ![r] = q]
    BY DEF Types
  <1> HIDE DEF q
  <1>3. InLine'
    BY <1>1, <1>2, LineStays DEF Awaiting
  <1>4. Timely(req[r])
    OBVIOUS
  <1>5. Timely(q) /\ ~Refreshed(q)
    BY <1>1, <1>4 DEF Timely, Refreshed, Asking, Calling, LoggingIn
  <1>6. (\A s \in Requests : Timely(req[s]))' /\ RefreshesCollapse'
    BY <1>1, <1>2, <1>5, OthersStand
  <1>7. Types'
    BY <1>1, <1>2 DEF Types
  <1>8. TokenExplained' /\ CacheTimely'
    BY DEF TokenExplained, CacheTimely, Unknown
  <1>9. LoopExplained'
    BY <1>1, <1>2 DEF LoopExplained, Types
  <1> QED
    BY <1>3, <1>6, <1>7, <1>8, <1>9

\* The holder of the lock answers from the cache and gives the lock back.
LEMMA ReleaseKeeps ==
    ASSUME IInv, NEW r \in Requests, NEW error \in BOOLEAN, error \/ req[r].since = None,
           queue # <<>>, Head(queue) = r, Answer(r, cache.systems, error), queue' = Tail(queue),
           loop = None, UNCHANGED <<setup, token, cache, clock, loop>>
    PROVE  IInv'
  <1> USE DEF IInv
  <1>1. PICK q \in Request :
           /\ req' = [req EXCEPT ![r] = q]
           /\ q.pc = "done"
           /\ (TokenExplained /\ CacheTimely /\ \A s \in Requests : Timely(req[s]))'
           /\ RefreshesCollapse'
    BY CacheAnswers
  <1>2. InLine' /\ queue' \in Seq(Requests)
    BY <1>1, LineShortens DEF Awaiting
  <1>3. Types'
    BY <1>1, <1>2 DEF Types
  <1>4. LoopExplained'
    BY DEF LoopExplained
  <1> QED
    BY <1>1, <1>2, <1>3, <1>4

\* The holder of the lock goes on to another call, with its list or without one. A lost or
\* a new token is explained.
LEMMA GoOnKeeps ==
    ASSUME IInv, NEW r \in Requests, NEW q \in Request,
           queue # <<>>, Head(queue) = r, req' = [req EXCEPT ![r] = q],
           q.pc \in Asking, Timely(q), loop = None,
           UNCHANGED <<setup, cache, clock, loop, queue>>,
           token' = token \/ (setup.credential = "password" /\ token' \in Tokens)
    PROVE  IInv'
  <1> USE DEF IInv
  <1>1. InLine'
    BY LineStays DEF Asking, Calling, LoggingIn, Awaiting
  <1>2. ~Refreshed(q)
    BY DEF Refreshed, Asking, Calling, LoggingIn
  <1>3. (\A s \in Requests : Timely(req[s]))' /\ RefreshesCollapse'
    BY <1>2, OthersStand
  <1>4. Types'
    BY DEF Types
  <1>5. TokenExplained' /\ CacheTimely'
    BY DEF TokenExplained, CacheTimely, Unknown
  <1>6. LoopExplained'
    BY DEF LoopExplained
  <1> QED
    BY <1>1, <1>3, <1>4, <1>5, <1>6
\* Under the lock the cache is looked at again, and the Hub asked if it is still expired.
LEMMA RecheckKeeps ==
    ASSUME IInv, NEW r \in Requests, queue # <<>>, Head(queue) = r,
           loop = None, UNCHANGED <<setup, loop, clock>>, Recheck(r)
    PROVE  IInv'
  <1>1. req[r].pc = "lock" /\ Timely(req[r])
    BY DEF Recheck, IInv
  <1>2. req[r].since = None /\ req[r].systems = None
    BY <1>1 DEF Timely
  <1>3. CASE Answer(r, cache.systems, FALSE) /\ queue' = Tail(queue) /\ UNCHANGED cache
    BY <1>2, <1>3, ReleaseKeeps DEF Recheck
  <1> DEFINE pc == IF token = None /\ setup.credential = "password" THEN "login" ELSE "list"
  <1>4. CASE ~Fresh /\ Await(r, pc, clock)
    <2>1. pc \in Awaiting /\ pc \in Calling /\ (pc \in LoggingIn => setup.credential = "password")
      BY DEF Awaiting, Calling, LoggingIn
    <2> HIDE DEF pc
    <2>2. clock \in Times /\ clock \in Nat /\ clock # None
      BY TimesAre DEF IInv, Types
    <2>3. PICK q \in Request :
             /\ req' = [req EXCEPT ![r] = q]
             /\ q.pc = pc /\ q.since = clock
             /\ q.systems = req[r].systems /\ q.error = req[r].error
      <3>1. Types
        BY DEF IInv
      <3> QED
        BY <1>4, <2>1, <2>2, <3>1, AwaitIs
    <2>4. cache.systems # None => clock >= cache.stamp + TTL
      BY <1>4, <2>2, TimesAre, DashboardAssumption DEF Fresh, IInv, Types
    <2>5. Timely(q)
      <3>1. /\ q.since # None /\ q.since <= clock /\ q.systems = None
            /\ cache.systems # None => q.since >= cache.stamp + TTL
        BY <1>2, <2>2, <2>3, <2>4
      <3>2. /\ q.pc \notin {"idle", "blocked", "lock", "failed"}
            /\ q.pc # "stats" /\ q.pc # "done"
        BY <2>1, <2>3, CallsAre
      <3>3. q.pc \in LoggingIn => setup.credential = "password"
        BY <2>1, <2>3
      <3> QED
        BY <3>1, <3>2, <3>3, Zenon DEF Timely, Refreshed
    <2>6. UNCHANGED <<cache, queue, token>>
      BY <1>4 DEF Await, Recheck
    <2> QED
      BY <2>1, <2>3, <2>5, <2>6, CallsAre, GoOnKeeps
  <1> QED
    BY <1>3, <1>4 DEF Recheck

\* A failed refresh releases the lock and answers what there is.
LEMMA FailKeeps ==
    ASSUME IInv, NEW r \in Requests, queue # <<>>, Head(queue) = r,
           loop = None, UNCHANGED <<setup, loop, clock>>, Fail(r)
    PROVE  IInv'
  BY ReleaseKeeps DEF Fail

\* From one call to the next with what there is.
LEMMA AskOnKeeps ==
    ASSUME IInv, NEW r \in Requests, NEW pc \in Asking, queue # <<>>, Head(queue) = r,
           req[r].pc \in Calling, Await(r, pc, req[r].since),
           pc \notin Calling => cache.systems = None,
           pc \in LoggingIn => setup.credential = "password",
           loop = None, UNCHANGED <<setup, loop, clock>>,
           token' = token \/ (setup.credential = "password" /\ token' \in Tokens)
    PROVE  IInv'
  <1>1. Timely(req[r]) /\ req[r].since \in Times /\ pc \in Awaiting
    BY DEF IInv, Types, Request, Asking, Calling, LoggingIn, Awaiting
  <1>2. PICK q \in Request :
           /\ req' = [req EXCEPT ![r] = q]
           /\ q.pc = pc /\ q.since = req[r].since
           /\ q.systems = req[r].systems /\ q.error = req[r].error
    <2>1. Types
      BY DEF IInv
    <2> QED
      BY <1>1, <2>1, AwaitIs
  <1>3. Timely(q)
    BY <1>1, <1>2 DEF Timely, Refreshed, Asking, Calling, LoggingIn
  <1>4. UNCHANGED <<cache, queue>>
    BY DEF Await
  <1> QED
    BY <1>2, <1>3, <1>4, GoOnKeeps

\* The Hub has listed its systems: they are newer than what is cached.
LEMMA ListedKeeps ==
    ASSUME IInv, NEW r \in Requests, NEW pc \in {"list", "list again"}, queue # <<>>, Head(queue) = r,
           Listed(r, pc), loop = None, UNCHANGED <<setup, loop, clock>>
    PROVE  IInv'
  <1> DEFINE q == [req[r] EXCEPT !.pc = "stats", !.systems = clock]
  <1>1. Timely(req[r]) /\ req[r] \in Request /\ req[r].pc \in Asking
    BY DEF IInv, Types, Listed, Asking, Calling, LoggingIn
  <1>2. clock \in Times /\ clock \in Nat /\ clock # None
    BY TimesAre DEF IInv, Types
  <1>7. clock <= clock
    BY <1>2, NotBefore, Zenon
  <1>3. q \in Request /\ q.pc = "stats" /\ q.since = req[r].since /\ q.systems = clock
    BY <1>1, <1>2 DEF Request, Awaiting
  <1>4. req' = [req EXCEPT ![r] = q]
    BY DEF Listed, IInv, Types
  <1> HIDE DEF q
  <1>5. ~Unknown
    BY DashboardAssumption DEF Listed, Unknown, IInv, TokenExplained
  <1>6. Timely(q)
    <2>1. /\ req[r].since # None /\ req[r].since <= clock
          /\ cache.systems # None => req[r].since >= cache.stamp + TTL
      BY <1>1, CallsAre DEF Timely
    <2>2. cache.systems # None => cache.systems <= clock
      BY DEF IInv, CacheTimely
    <2>3. /\ q.pc \notin {"idle", "blocked", "lock", "failed"}
          /\ q.pc \in {"stats", "done"} /\ q.pc # "done" /\ q.pc \notin LoggingIn
      BY <1>3, CallsAre
    <2>4. q.systems # None /\ q.systems <= clock /\ q.since <= q.systems
      BY <1>2, <1>3, <2>1, <1>7, Zenon
    <2>5. cache.systems # None => cache.systems <= q.systems
      BY <1>3, <2>2
    <2>6. /\ q.since # None /\ q.since <= clock
          /\ cache.systems # None => q.since >= cache.stamp + TTL
      BY <1>3, <2>1
    <2> QED
      BY <1>5, <2>3, <2>4, <2>5, <2>6, Zenon DEF Timely, Refreshed
  <1> QED
    BY <1>3, <1>4, <1>6, GoOnKeeps DEF Listed, Asking, Calling, LoggingIn

\* The records go into the cache, a TTL or more after those that were there.
LEMMA StoreKeeps ==
    ASSUME IInv, NEW r \in Requests, queue # <<>>, Head(queue) = r,
           loop = None, UNCHANGED <<setup, loop, clock>>, Store(r)
    PROVE  IInv'
  <1> USE DEF IInv
  <1>1. req[r].pc = "stats" /\ Timely(req[r]) /\ req[r] \in Request
    BY DEF Store, Types
  <1>2. req[r].systems \in Times /\ req[r].since \in Times
    BY <1>1 DEF Request
  <1>3. PICK q \in Request :
           /\ req' = [req EXCEPT ![r] = q]
           /\ q.pc = "done" /\ q.since = req[r].since
           /\ q.systems = req[r].systems /\ q.error = FALSE
           /\ q.freshness = Freshness(req[r].systems, FALSE)
    <2>1. Answer(r, req[r].systems, FALSE)
      BY DEF Store
    <2> QED
      BY <1>2, <2>1, AnswerIs
  <1>4. /\ q.since \in 0 .. Horizon /\ q.since <= clock /\ q.since # None
        /\ cache.systems # None =>
             q.systems # None /\ cache.systems <= q.systems /\ q.since >= cache.stamp + TTL
        /\ q.systems # None => q.since <= q.systems /\ q.systems <= clock /\ ~Unknown
    BY <1>1, <1>2, <1>3, TimesAre DEF Timely, Asking, Calling, LoggingIn
  <1>5. cache' = [systems |-> q.systems, stamp |-> q.since]
    BY <1>3 DEF Store
  <1>6. cache'.systems = q.systems /\ cache'.stamp = q.since
    BY <1>5
  <1>7. InLine' /\ queue' \in Seq(Requests)
    BY <1>3, LineShortens DEF Awaiting, Store
  <1>8. Types'
    BY <1>2, <1>3, <1>4, <1>5, <1>7 DEF Types, Store
  <1>9. TokenExplained' /\ CacheTimely'
    BY <1>4, <1>6 DEF TokenExplained, CacheTimely, Unknown, Store
  <1>10. \A s \in Requests : req'[s] = IF s = r THEN q ELSE req[s]
    BY <1>3 DEF Types
  <1>11. cache.stamp \in Nat /\ TTL \in Nat \ {0} /\ cache.systems \in Times
         /\ q.since \in Nat /\ q.systems \in Times
    BY <1>2, <1>3, <1>4, TimesAre, DashboardAssumption DEF Types
  <1>12. ASSUME NEW s \in Requests PROVE Timely(req[s])'
    <2>1. PICK h : h = req'[s]
      OBVIOUS
    <2>2. CASE s = r
      <3>1. h = q
        BY <1>10, <2>1, <2>2
      <3>2. (q.systems <= q.systems \/ q.systems = None) /\ q.since <= q.since
        BY <1>11, TimesAre
      <3>3. /\ q.pc \notin Asking /\ q.pc \notin LoggingIn
            /\ q.pc \notin {"idle", "blocked", "lock", "failed"}
            /\ q.pc \in {"stats", "done"} /\ q.pc # "stats"
        BY <1>3, CallsAre
      <3> QED
        BY <1>6, <2>1, <3>1, <3>2, <3>3, Zenon DEF Timely
    <2>3. CASE s # r
      <3>1. h = req[s] /\ Timely(req[s]) /\ req[s] \in Request
        BY <1>10, <2>1, <2>3 DEF Types
      <3>2. h.pc \notin Asking
        BY <2>3, <3>1, OneAsks
      <3>3. h.pc = "done" /\ h.systems # None =>
              q.systems # None /\ h.systems <= q.systems
        BY <1>4, <1>11, <3>1, TimesAre DEF Timely, Request
      <3>4. Refreshed(h) => h.since <= q.since
        BY <1>4, <1>11, <3>1, TimesAre DEF Timely, Refreshed, Request
      <3> QED
        BY <1>6, <2>1, <3>1, <3>2, <3>3, <3>4 DEF Timely, Refreshed, Asking, Calling, LoggingIn
    <2> QED
      BY <2>2, <2>3
  <1>13. ASSUME NEW s \in Requests, s # r, Refreshed(req[s])
         PROVE  req[s].since \in Nat /\ req[s].since + TTL <= q.since
    <2>1. Timely(req[s]) /\ req[s] \in Request
      BY DEF Types
    <2>2. cache.systems # None /\ req[s].since <= cache.stamp
      BY <1>13, <2>1 DEF Timely, Refreshed
    <2>3. req[s].since \in Nat
      BY <1>13, <2>1, TimesAre DEF Refreshed, Request
    <2> QED
      BY <1>4, <1>11, <2>2, <2>3
  <1>14. RefreshesCollapse'
    <2>1. ASSUME NEW a \in Requests, NEW b \in Requests, a # b, Refreshed(req'[a]), Refreshed(req'[b]),
                 req'[a].since <= req'[b].since
          PROVE  req'[b].since - req'[a].since >= TTL
      <3>1. CASE a # r /\ b # r
        BY <1>10, <2>1, <3>1 DEF RefreshesCollapse, Refreshed
      <3>2. CASE b = r
        BY <1>10, <1>11, <1>13, <2>1, <3>2
      <3>3. CASE a = r
        BY <1>10, <1>11, <1>13, <2>1, <3>3
      <3> QED
        BY <3>1, <3>2, <3>3
    <2> QED
      BY <2>1 DEF RefreshesCollapse, Refreshed
  <1> QED
    BY <1>7, <1>8, <1>9, <1>12, <1>14 DEF LoopExplained

\* The steps of the lock's holder, by the call that it waits for.
LEMMA ProceedKeeps ==
    ASSUME IInv, NEW r \in Requests, Proceed(r)
    PROVE  IInv'
  <1>1. queue # <<>> /\ Head(queue) = r /\ loop = None /\ UNCHANGED <<setup, loop, clock>>
    BY DEF Proceed
  <1>2. Timely(req[r]) /\ TokenExplained /\ setup \in Setup
    BY DEF IInv, Types
  <1>3. CASE Recheck(r)
    BY <1>1, <1>3, RecheckKeeps
  <1>4. CASE Login(r)
    <2>1. req[r].pc \in LoggingIn /\ token' \in Tokens
      BY <1>4 DEF Login, LoggingIn, Tokens
    <2>2. setup.credential = "password"
      BY <1>2, <2>1 DEF Timely
    <2>3. Await(r, "list", req[r].since) \/ Await(r, "list again", req[r].since)
      BY <1>4 DEF Login
    <2> QED
      BY <1>1, <2>1, <2>2, <2>3, CallsAre, AskOnKeeps
  <1>5. CASE List(r)
    <2>1. req[r].pc = "list"
      BY <1>5 DEF List, Listed, Refused
    <2>2. CASE Listed(r, "list")
      BY <1>1, <2>2, ListedKeeps
    <2>3. CASE setup.credential = "password" /\ Await(r, "login again", req[r].since) /\ token' = None
      <3>1. "login again" \in Asking /\ "login again" \in Calling /\ req[r].pc \in Calling /\ None \in Tokens
        BY <2>1 DEF Asking, Calling, LoggingIn, Tokens
      <3> QED
        BY <1>1, <2>3, <3>1, AskOnKeeps
    <2>4. CASE Fail(r)
      BY <1>1, <2>4, FailKeeps
    <2>5. CASE /\ Refused(r, "list") /\ setup.credential # "password" /\ token = None
               /\ Await(r, "stats", req[r].since) /\ UNCHANGED token
      <3>1. cache.systems = None
        BY <1>2, <2>5 DEF TokenExplained, Unknown, Refused, Setup
      <3>2. "stats" \in Asking /\ "stats" \notin LoggingIn /\ req[r].pc \in Calling
        BY <2>1 DEF Asking, Calling, LoggingIn
      <3> QED
        BY <1>1, <2>5, <3>1, <3>2, AskOnKeeps
    <2> QED
      BY <1>5, <2>2, <2>3, <2>4, <2>5 DEF List
  <1>6. CASE ListAgain(r)
    BY <1>1, <1>6, ListedKeeps, FailKeeps DEF ListAgain
  <1>7. CASE CallFails(r)
    BY <1>1, <1>7, FailKeeps DEF CallFails
  <1>8. CASE Store(r)
    BY <1>1, <1>8, StoreKeeps
  <1> QED
    BY <1>3, <1>4, <1>5, <1>6, <1>7, <1>8 DEF Proceed

\* Time makes nothing untimely.
LEMMA TickKeeps ==
    ASSUME IInv, Tick
    PROVE  IInv'
  <1> USE DEF IInv, Tick
  <1>1. clock \in Nat /\ clock' \in 0 .. Horizon /\ clock' = clock + 1 /\ Horizon \in Nat
    BY DashboardAssumption, TimesAre DEF Types
  <1>2. Types'
    BY <1>1 DEF Types
  <1>3. InLine' /\ TokenExplained' /\ LoopExplained'
    BY DEF InLine, Held, TokenExplained, Unknown, LoopExplained
  <1>4. cache.systems # None => cache.systems \in Nat /\ cache.systems <= clock
    BY TimesAre DEF CacheTimely, Types
  <1>5. CacheTimely'
    BY <1>1, <1>4 DEF CacheTimely
  <1>6. ASSUME NEW r \in Requests PROVE Timely(req[r])'
    <2>1. Timely(req[r]) /\ req[r] \in Request
      BY DEF Types
    <2>2. req[r].since # None /\ req[r].since <= clock => req[r].since <= clock'
      BY <1>1, <2>1, TimesAre DEF Request
    <2>3. req[r].systems # None /\ req[r].systems <= clock => req[r].systems <= clock'
      BY <1>1, <2>1, TimesAre DEF Request
    <2> QED
      BY <2>1, <2>2, <2>3, Zenon DEF Timely, Unknown, Refreshed
  <1>7. RefreshesCollapse'
    BY DEF RefreshesCollapse
  <1> QED
    BY <1>2, <1>3, <1>5, <1>6, <1>7

LEMMA StepKeeps == IInv /\ [Next]_vars => IInv'
  <1> SUFFICES ASSUME IInv, [Next]_vars PROVE IInv'
    OBVIOUS
  <1>1. ASSUME NEW r \in Requests, Receive(r) PROVE IInv'
    BY <1>1, ReceiveKeeps
  <1>2. ASSUME NEW r \in Requests, Block(r) PROVE IInv'
    BY <1>2, PoolKeeps DEF Block
  <1>3. ASSUME NEW r \in Requests, Proceed(r) PROVE IInv'
    BY <1>3, ProceedKeeps
  <1>4. CASE PoolTimeout
    <2>1. loop \in Requests /\ req[loop].pc = "blocked"
      BY <1>4 DEF PoolTimeout, IInv, Types, LoopExplained
    <2> QED
      BY <1>4, <2>1, PoolKeeps DEF PoolTimeout
  <1>5. CASE TokenForgotten
    <2>1. Types' /\ TokenExplained'
      BY <1>5, DashboardAssumption DEF TokenForgotten, IInv, Types, Tokens, TokenExplained, Unknown
    <2>2. InLine' /\ CacheTimely' /\ RefreshesCollapse' /\ LoopExplained'
      BY <1>5 DEF TokenForgotten, IInv, InLine, Held, CacheTimely, RefreshesCollapse,
                     LoopExplained
    <2>3. (\A r \in Requests : Timely(req[r]))'
      BY <1>5 DEF TokenForgotten, IInv, Timely, Unknown, Refreshed
    <2> QED
      BY <2>1, <2>2, <2>3 DEF IInv
  <1>6. CASE Tick
    BY <1>6, TickKeeps
  <1>7. CASE UNCHANGED vars
    <2>1. Types' /\ TokenExplained'
      BY <1>7 DEF vars, IInv, Types, TokenExplained, Unknown
    <2>2. InLine' /\ CacheTimely' /\ RefreshesCollapse' /\ LoopExplained'
      BY <1>7 DEF vars, IInv, InLine, Held, CacheTimely, RefreshesCollapse,
                     LoopExplained
    <2>3. (\A r \in Requests : Timely(req[r]))'
      BY <1>7 DEF vars, IInv, Timely, Unknown, Refreshed
    <2> QED
      BY <2>1, <2>2, <2>3 DEF IInv
  <1> QED
    BY <1>1, <1>2, <1>3, <1>4, <1>5, <1>6, <1>7 DEF Next

LEMMA InitKeeps == Init => IInv
  <1> SUFFICES ASSUME Init PROVE IInv
    OBVIOUS
  <1> USE DEF Init
  <1>1. Idle \in Request /\ None \in Times
    BY DEF Idle, Request, Times
  <1>2. 0 \in 0 .. Horizon
    BY DashboardAssumption
  <1>3. Types
    BY <1>1, <1>2 DEF Types, Tokens
  <1>4. InLine
    BY DEF InLine, Held, Idle, Awaiting
  <1>5. TokenExplained
    BY DashboardAssumption DEF TokenExplained
  <1>6. CacheTimely /\ LoopExplained
    BY DEF CacheTimely, LoopExplained
  <1>7. \A r \in Requests : Timely(req[r])
    BY CallsAre DEF Timely, Refreshed, Idle
  <1>8. RefreshesCollapse
    BY DEF RefreshesCollapse, Idle
  <1> QED
    BY <1>3, <1>4, <1>5, <1>6, <1>7, <1>8 DEF IInv

LEMMA Invariant == Spec => []IInv
  BY InitKeeps, StepKeeps, PTL DEF Spec

-----------------------------------------------------------------------------
(* The theorems.                                                           *)

\* The queue has as many places as there are handlers in it.
LEMMA LineLength ==
    ASSUME Types, InLine
    PROVE  ToSet(queue) = Held /\ Len(queue) = Cardinality(Held)
  <1>1. Len(queue) \in Nat /\ DOMAIN queue = 1 .. Len(queue) /\ \A i \in 1 .. Len(queue) : queue[i] \in Requests
    BY DEF Types
  <1>2. \A i \in 1 .. Len(queue) : queue[i] \in Held
    BY <1>1 DEF InLine, Held
  <1>3. ToSet(queue) = Held
    BY <1>1, <1>2 DEF ToSet, InLine
  <1> DEFINE place == [i \in 1 .. Len(queue) |-> queue[i]]
  <1>4. place \in Bijection(1 .. Len(queue), Held)
    <2>1. place \in [1 .. Len(queue) -> Held]
      BY <1>2
    <2>2. \A i, j \in 1 .. Len(queue) : place[i] = place[j] => i = j
      BY DEF InLine
    <2>3. \A h \in Held : \E i \in 1 .. Len(queue) : place[i] = h
      BY DEF InLine
    <2> QED
      BY <2>1, <2>2, <2>3 DEF Bijection, Injection, Surjection, IsInjective
  <1>5. ExistsBijection(1 .. Len(queue), Held)
    BY <1>4 DEF ExistsBijection
  <1>6. Cardinality(Held) = Len(queue)
    BY <1>1, <1>5, FS_CountingElements
  <1> QED
    BY <1>3, <1>6

\* The adapter's state is well typed, and the line for the lock is that of the handlers
\* that hold a connection: nobody is in it twice and nobody leaves without the lock.
THEOREM TypeCorrect == Spec => []TypeOK
  <1>1. IInv => TypeOK
    BY LineLength DEF IInv, Types, TypeOK
  <1> QED
    BY <1>1, Invariant, PTL

\* However many requests find the cache expired, and however long each of them waits for
\* the lock or for the Hub, no two refreshes that succeed begin less than TTL apart.
THEOREM RefreshesAreShared == Spec => []RefreshesCollapse
  <1>1. IInv => RefreshesCollapse
    BY DEF IInv
  <1> QED
    BY <1>1, Invariant, PTL

\* A handler is answered by the lists of the cache, or of its own refresh; nobody else is
\* answered in the same step.
LEMMA AnsweredBy ==
    ASSUME IInv, [Next]_vars, NEW r \in Requests, req[r].pc # "done", req'[r].pc = "done"
    PROVE  \E q \in Request :
             /\ q = req'[r] /\ q.since = req[r].since
             /\ q.freshness = Freshness(q.systems, q.error)
             /\ UNCHANGED <<setup, clock>>
             /\ \/ q.systems = cache.systems /\ (Fresh \/ q.error)
                \/ req[r].pc = "stats" /\ q.systems = req[r].systems
  <1> USE DEF IInv
  <1>1. req \in [Requests -> Request] /\ cache.systems \in Times
    BY DEF Types
  <1>2. ASSUME NEW s \in Requests, NEW systems \in Times, NEW error \in BOOLEAN,
               Answer(s, systems, error), UNCHANGED <<setup, clock>>,
               \/ systems = cache.systems /\ (Fresh \/ error)
               \/ req[s].pc = "stats" /\ systems = req[s].systems
        PROVE  \E q \in Request :
             /\ q = req'[r] /\ q.since = req[r].since
             /\ q.freshness = Freshness(q.systems, q.error)
             /\ UNCHANGED <<setup, clock>>
             /\ \/ q.systems = cache.systems /\ (Fresh \/ q.error)
                \/ req[r].pc = "stats" /\ q.systems = req[r].systems
    <2>1. PICK q \in Request :
             /\ req' = [req EXCEPT ![s] = q]
             /\ q.pc = "done" /\ q.since = req[s].since
             /\ q.systems = systems /\ q.error = error
             /\ q.freshness = Freshness(systems, error)
      BY <1>2, AnswerIs
    <2>2. s = r /\ q = req'[r]
      BY <1>1, <2>1
    <2> QED
      BY <1>2, <2>1, <2>2
  <1>3. ASSUME NEW s \in Requests, NEW h, req' = [req EXCEPT ![s] = h], h.pc # "done"
        PROVE  FALSE
    BY <1>1, <1>3
  <1>4. ASSUME NEW s \in Requests, Receive(s)
        PROVE  Answer(s, cache.systems, FALSE) /\ Fresh /\ UNCHANGED <<setup, clock>>
    <2>1. req' # [req EXCEPT ![s].pc = "lock"]
      BY <1>1, <1>3 DEF Request
    <2> QED
      BY <1>4, <2>1 DEF Receive
  <1>5. ASSUME NEW s \in Requests, Block(s)
        PROVE  FALSE
    BY <1>1, <1>5 DEF Block, Request
  <1>6. ASSUME NEW s \in Requests, NEW pc, NEW since, Await(s, pc, since), pc # "done"
        PROVE  FALSE
    BY <1>1, <1>6 DEF Await, Request
  <1>7. ASSUME NEW s \in Requests, NEW pc, Listed(s, pc)
        PROVE  FALSE
    BY <1>1, <1>7 DEF Listed, Request
  <1>8. ASSUME NEW s \in Requests, Proceed(s)
        PROVE  /\ UNCHANGED <<setup, clock>>
               /\ \/ Answer(s, cache.systems, FALSE) /\ Fresh
                  \/ Answer(s, cache.systems, TRUE)
                  \/ req[s].pc = "stats" /\ Answer(s, req[s].systems, FALSE)
    <2>1. CASE Recheck(s)
      BY <1>6, <1>8, <2>1 DEF Recheck, Proceed
    <2>2. CASE Login(s)
      BY <1>6, <2>2 DEF Login
    <2>3. CASE List(s)
      BY <1>6, <1>7, <1>8, <2>3 DEF List, Fail, Proceed
    <2>4. CASE ListAgain(s)
      BY <1>7, <1>8, <2>4 DEF ListAgain, Fail, Proceed
    <2>5. CASE CallFails(s)
      BY <1>8, <2>5 DEF CallFails, Fail, Proceed
    <2>6. CASE Store(s)
      BY <1>8, <2>6 DEF Store, Proceed
    <2> QED
      BY <1>8, <2>1, <2>2, <2>3, <2>4, <2>5, <2>6 DEF Proceed
  <1>9. ~PoolTimeout
    <2>1. SUFFICES ASSUME PoolTimeout PROVE FALSE
      OBVIOUS
    <2>2. loop \in Requests
      BY <2>1 DEF PoolTimeout, Types
    <2> QED
      BY <1>1, <2>1, <2>2 DEF PoolTimeout, Request
  <1>10. ~TokenForgotten /\ ~Tick /\ ~UNCHANGED vars
    BY DEF TokenForgotten, Tick, vars
  <1>11. PICK s \in Requests : Receive(s) \/ Proceed(s)
    BY <1>5, <1>9, <1>10 DEF Next
  <1>12. req[s].systems \in Times
    BY <1>1 DEF Request
  <1> QED
    BY <1>1, <1>2, <1>4, <1>8, <1>11, <1>12

\* An answer without an error is either from a cache that had not expired or listed for
\* the request itself.
THEOREM AnswersAreRecent == Spec => AnswersRecent
  <1>1. ASSUME IInv, [Next]_vars, NEW r \in Requests,
               req[r].pc # "done", req'[r].pc = "done", ~req'[r].error, req'[r].systems # None
        PROVE  \/ clock - req'[r].systems < TTL
               \/ req'[r].since # None /\ req'[r].systems >= req'[r].since
    <2>1. PICK q \in Request :
             /\ q = req'[r] /\ q.since = req[r].since
             /\ \/ q.systems = cache.systems /\ (Fresh \/ q.error)
                \/ req[r].pc = "stats" /\ q.systems = req[r].systems
      BY <1>1, AnsweredBy
    <2>2. clock \in Nat /\ TTL \in Nat /\ (cache.systems # None => cache.systems \in Nat /\ cache.stamp \in Nat)
      BY <1>1, TimesAre, DashboardAssumption DEF IInv, Types
    <2>3. CASE q.systems = cache.systems /\ Fresh
      <3>1. clock - cache.stamp < TTL /\ cache.stamp <= cache.systems
        BY <1>1, <2>3 DEF Fresh, IInv, CacheTimely
      <3> QED
        BY <1>1, <2>1, <2>2, <2>3, <3>1
    <2>4. CASE req[r].pc = "stats" /\ q.systems = req[r].systems
      <3>1. Timely(req[r])
        BY <1>1 DEF IInv
      <3>2. q.since # None /\ q.since <= q.systems
        BY <1>1, <2>1, <2>4, <3>1, CallsAre DEF Timely
      <3>3. q.since \in Nat /\ q.systems \in Nat
        BY <1>1, <2>1, <3>2, TimesAre DEF Request
      <3> QED
        BY <2>1, <3>2, <3>3
    <2> QED
      BY <1>1, <2>1, <2>3, <2>4
  <1>2. IInv /\ [Next]_vars => [\A r \in Requests :
          LET q == req'[r]
          IN  /\ req[r].pc # "done" /\ q.pc = "done"
              /\ ~q.error /\ q.systems # None
              => \/ clock - q.systems < TTL
                 \/ q.since # None /\ q.systems >= q.since]_vars
    BY <1>1
  <1> QED
    BY <1>2, Invariant, PTL DEF Spec, AnswersRecent

\* The card of a silent host does not stay fresh, whatever was cached, and that of a host
\* that reports is stale only where the refresh failed or was slow.
THEOREM CardsTellTheTruth == Spec => CardTellsTheTruth
  <1>1. ASSUME IInv, [Next]_vars, NEW r \in Requests, req[r].pc # "done", req'[r].pc = "done"
        PROVE  /\ clock > setup.silent + Threshold => req'[r].freshness # "fresh"
               /\ req'[r].freshness = "stale" /\ TTL <= Threshold =>
                     \/ clock > setup.silent + Threshold
                     \/ req'[r].error
                     \/ req'[r].since # None /\ clock > req'[r].since + Threshold
    <2>1. PICK q \in Request :
             /\ q = req'[r] /\ q.since = req[r].since
             /\ q.freshness = Freshness(q.systems, q.error)
             /\ \/ q.systems = cache.systems /\ (Fresh \/ q.error)
                \/ req[r].pc = "stats" /\ q.systems = req[r].systems
      BY <1>1, AnsweredBy
    <2>2. Types /\ q.systems \in Times /\ q.error \in BOOLEAN
      BY <1>1 DEF IInv, Request
    <2>3. /\ clock > setup.silent + Threshold => q.freshness # "fresh"
          /\ q.freshness = "stale" =>
               /\ q.systems # None
               /\ clock > setup.silent + Threshold \/ clock - q.systems > Threshold
      BY <2>1, <2>2, FreshnessIs
    <2>4. clock \in Nat /\ TTL \in Nat /\ Threshold \in Nat
          /\ (q.systems # None => q.systems \in Nat) /\ (cache.systems # None => cache.stamp \in Nat)
      BY <1>1, <2>2, TimesAre, DashboardAssumption DEF IInv, Types
    <2>5. SUFFICES ASSUME q.freshness = "stale", TTL <= Threshold, ~q.error,
                          clock - q.systems > Threshold, q.systems # None
                   PROVE  q.since # None /\ clock > q.since + Threshold
      BY <2>1, <2>3
    <2>6. CASE q.systems = cache.systems /\ Fresh
      <3>1. clock - cache.stamp < TTL /\ cache.stamp <= cache.systems
        BY <1>1, <2>6 DEF Fresh, IInv, CacheTimely
      <3> QED
        BY <2>4, <2>5, <2>6, <3>1
    <2>7. CASE req[r].pc = "stats" /\ q.systems = req[r].systems
      <3>1. Timely(req[r])
        BY <1>1 DEF IInv
      <3>2. q.since # None /\ q.since <= q.systems
        BY <2>1, <2>5, <2>7, <3>1, CallsAre DEF Timely
      <3>3. q.since \in Nat
        BY <3>2, TimesAre DEF Request
      <3> QED
        BY <2>4, <2>5, <3>2, <3>3
    <2> QED
      BY <2>1, <2>5, <2>6, <2>7
  <1>2. IInv /\ [Next]_vars => [\A r \in Requests :
          LET q == req'[r]
              silent == clock > setup.silent + Threshold
          IN  req[r].pc # "done" /\ q.pc = "done" =>
                /\ silent => q.freshness # "fresh"
                /\ q.freshness = "stale" /\ TTL <= Threshold =>
                     silent \/ q.error \/ (q.since # None /\ clock > q.since + Threshold)]_vars
    BY <1>1
  <1> QED
    BY <1>2, Invariant, PTL DEF Spec, CardTellsTheTruth

\* What was answered stays as it is.
LEMMA DoneStays ==
    ASSUME IInv, [Next]_vars, NEW r \in Requests, req[r].pc = "done"
    PROVE  req'[r] = req[r]
  <1>1. req \in [Requests -> Request]
    BY DEF IInv, Types
  <1>2. ASSUME NEW s \in Requests, req[s].pc # "done", NEW h, req' = [req EXCEPT ![s] = h]
        PROVE  req'[r] = req[r]
    BY <1>1, <1>2
  <1>3. ASSUME NEW s \in Requests, req[s].pc # "done", NEW systems, NEW error, Answer(s, systems, error)
        PROVE  req'[r] = req[r]
    BY <1>1, <1>3 DEF Answer
  <1>4. ASSUME NEW s \in Requests, req[s].pc # "done", NEW pc, NEW since, Await(s, pc, since)
        PROVE  req'[r] = req[r]
    BY <1>1, <1>4 DEF Await
  <1>5. ASSUME NEW s \in Requests, NEW pc, pc # "done", Listed(s, pc)
        PROVE  req'[r] = req[r]
    BY <1>1, <1>5 DEF Listed
  <1>6. ASSUME NEW s \in Requests, Receive(s)
        PROVE  req'[r] = req[r]
    <2>1. req[s].pc # "done"
      BY <1>6 DEF Receive
    <2> QED
      BY <1>1, <1>3, <1>6, <2>1 DEF Receive
  <1>7. ASSUME NEW s \in Requests, Block(s)
        PROVE  req'[r] = req[r]
    BY <1>1, <1>7 DEF Block
  <1>8. ASSUME NEW s \in Requests, Proceed(s)
        PROVE  req'[r] = req[r]
    <2>1. CASE Recheck(s)
      BY <1>3, <1>4, <2>1 DEF Recheck
    <2>2. CASE Login(s)
      BY <1>4, <2>2 DEF Login
    <2>3. CASE List(s)
      <3>1. req[s].pc # "done"
        BY <2>3 DEF List, Listed, Refused
      <3> QED
        BY <1>3, <1>4, <1>5, <2>3, <3>1 DEF List, Fail
    <2>4. CASE ListAgain(s)
      <3>1. req[s].pc # "done"
        BY <2>4 DEF ListAgain, Listed, Refused
      <3> QED
        BY <1>3, <1>5, <2>4, <3>1 DEF ListAgain, Fail
    <2>5. CASE CallFails(s)
      BY <1>3, <2>5 DEF CallFails, Fail, Awaiting
    <2>6. CASE Store(s)
      BY <1>3, <2>6 DEF Store
    <2> QED
      BY <1>8, <2>1, <2>2, <2>3, <2>4, <2>5, <2>6 DEF Proceed
  <1>9. CASE PoolTimeout
    <2>1. loop \in Requests /\ req[loop].pc = "blocked"
      BY <1>9 DEF PoolTimeout, IInv, Types, LoopExplained
    <2> QED
      BY <1>1, <1>9, <2>1 DEF PoolTimeout
  <1>10. CASE TokenForgotten \/ Tick \/ UNCHANGED vars
    BY <1>10 DEF TokenForgotten, Tick, vars
  <1> QED
    BY <1>6, <1>7, <1>8, <1>9, <1>10 DEF Next

\* s is not shown less than r.
NotOlder(r, s) ==
    \/ req[r].systems = None
    \/ req[s].systems # None /\ req[s].systems >= req[r].systems

\* Since r was answered, s has not been, or not with less.
Behind(r, s) == req[r].pc = "done" /\ (req[s].pc = "done" => NotOlder(r, s))

LEMMA BehindStays ==
    ASSUME NEW r \in Requests, NEW s \in Requests
    PROVE  IInv /\ Behind(r, s) /\ [Next]_vars => Behind(r, s)'
  <1> SUFFICES ASSUME IInv, Behind(r, s), [Next]_vars PROVE Behind(r, s)'
    OBVIOUS
  <1>1. req'[r] = req[r]
    BY DoneStays DEF Behind
  <1>2. CASE req[s].pc = "done"
    BY <1>1, <1>2, DoneStays DEF Behind, NotOlder
  <1>3. CASE req[s].pc # "done" /\ req'[s].pc = "done" /\ req[r].systems # None
    <2>1. PICK q \in Request :
             /\ q = req'[s]
             /\ \/ q.systems = cache.systems
                \/ req[s].pc = "stats" /\ q.systems = req[s].systems
      BY <1>3, AnsweredBy
    <2>2. Timely(req[r]) /\ Timely(req[s])
      BY DEF IInv
    <2>3. cache.systems # None /\ req[r].systems <= cache.systems
      BY <1>3, <2>2 DEF Timely, Behind
    <2>4. req[s].pc = "stats" => req[s].systems # None /\ cache.systems <= req[s].systems
      BY <2>2, <2>3 DEF Timely
    <2>5. /\ req[r].systems \in Nat /\ cache.systems \in Nat
          /\ req[s].systems # None => req[s].systems \in Nat
      BY <1>3, <2>3, TimesAre DEF IInv, Types, Request
    <2>6. q.systems # None /\ q.systems >= req[r].systems
      BY <2>1, <2>3, <2>4, <2>5
    <2> QED
      BY <1>1, <2>1, <2>6 DEF Behind, NotOlder
  <1>4. CASE req'[s].pc # "done" \/ req[r].systems = None
    BY <1>1, <1>4 DEF Behind, NotOlder
  <1> QED
    BY <1>2, <1>3, <1>4

\* Overlapping refreshes, failed calls and forgotten tokens do not take anybody back behind
\* what somebody has been shown before the request was made.
THEOREM NobodyGoesBack == Spec => AnswersNeverGoBack
  <1>1. ASSUME NEW r \in Requests, NEW s \in Requests
        PROVE  Spec => [](req[r].pc = "done" /\ req[s].pc = "idle" =>
                            [](req[s].pc = "done" => NotOlder(r, s)))
    <2>1. req[r].pc = "done" /\ req[s].pc = "idle" => Behind(r, s)
      BY DEF Behind
    <2>2. Behind(r, s) => (req[s].pc = "done" => NotOlder(r, s))
      BY DEF Behind
    <2>3. IInv /\ Behind(r, s) /\ [Next]_vars => Behind(r, s)'
      BY BehindStays
    <2> QED
      BY <2>1, <2>2, <2>3, Invariant, PTL DEF Spec
  <1> QED
    BY <1>1 DEF AnswersNeverGoBack, NotOlder
=============================================================================
