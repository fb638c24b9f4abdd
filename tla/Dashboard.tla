----------------------------- MODULE Dashboard -----------------------------
(***************************************************************************)
(* GET /monitoring/dashboard and /monitoring/servers/{key}: the handlers   *)
(* of MonitoringService over the BeszelAdapter. They are coroutines of one *)
(* event loop, so that a step runs from one await to the next. A handler   *)
(* takes a connection from the database pool at its first query and keeps  *)
(* it while it awaits the adapter; if the pool is empty, the query blocks  *)
(* the thread of the loop, and no coroutine moves until the pool gives up. *)
(*                                                                         *)
(* The adapter keeps what the Hub listed last and asks again after TTL,    *)
(* one coroutine at a time, under an asyncio.Lock, which serves its        *)
(* waiters in the order they came. A list of systems is named after the    *)
(* time the Hub answered with it; None is the empty list. The Hub always   *)
(* has systems to list: empty is what it shows to a token it does not know.*)
(*                                                                         *)
(* The cards are about one host. It reports to the Hub until it falls      *)
(* silent, and the Hub calls it down when it has noticed.                  *)
(***************************************************************************)
EXTENDS Naturals, FiniteSets, SequencesExt

CONSTANTS
    Requests,   \* the requests ever received
    Pool,       \* connections that the pool has for these handlers
    TTL,        \* cache_ttl_seconds
    Threshold,  \* freshness_threshold_seconds
    Silences,   \* when the host may report to the Hub for the last time
    Delay,      \* how long the Hub takes to notice
    Horizon,    \* bound: the last reading of the clock
    None        \* no token, no systems, no reading, no answer

ASSUME DashboardAssumption ==
    /\ Pool \in Nat \ {0}
    /\ TTL \in Nat \ {0}
    /\ Threshold \in Nat
    /\ Silences \subseteq Nat
    /\ Delay \in Nat \ {0}
    /\ Horizon \in Nat
    /\ None \notin 0 .. Horizon
    /\ None \notin Requests
    /\ None \notin {"known", "forgotten"}

VARIABLES
    setup,    \* the adapter's credential, how the Hub answers a caller it does not know,
              \* and the host's last report
    token,    \* the adapter's token: none yet, or one that the Hub knows or has forgotten
    cache,    \* _cached_systems and _cache_timestamp
    queue,    \* the lock: its holder, then the waiters
    loop,     \* the request whose query blocks the event loop
    req,      \* what each handler holds
    clock     \* time.monotonic()

vars == <<setup, token, cache, queue, loop, req, clock>>

Setup == [credential : {"none", "static", "password"}, stranger : {"listed", "401", "empty"},
          silent : Silences]
Tokens == {None, "known", "forgotten"}
Times == {None} \cup 0 .. Horizon

\* The places where a handler waits with a connection in its hands.
Awaiting == {"lock", "login", "list", "login again", "list again", "stats"}

\* since is the clock as it was read under the lock; systems is the list that the
\* handler has got; freshness is what it makes of the host's record there.
Request == [pc : {"idle", "blocked", "done", "failed"} \cup Awaiting,
            since : Times, systems : Times, error : BOOLEAN,
            freshness : {None, "fresh", "stale", "unreachable", "unknown"}]

Idle == [pc |-> "idle", since |-> None, systems |-> None, error |-> FALSE,
         freshness |-> None]

Held == {r \in Requests : req[r].pc \in Awaiting}

\* The handlers that wait for the lock or hold it are those that are not finished.
TypeOK ==
    /\ setup \in Setup
    /\ token \in Tokens
    /\ cache \in [systems : Times, stamp : 0 .. Horizon]
    /\ ToSet(queue) = Held /\ Len(queue) = Cardinality(Held)
    /\ loop \in {None} \cup Requests
    /\ req \in [Requests -> Request]
    /\ clock \in 0 .. Horizon

Init ==
    /\ setup \in Setup
    /\ token \in IF setup.credential = "static" THEN {"known", "forgotten"} ELSE {None}
    /\ cache = [systems |-> None, stamp |-> 0]
    /\ queue = <<>>
    /\ loop = None
    /\ req = [r \in Requests |-> Idle]
    /\ clock = 0

-----------------------------------------------------------------------------

Fresh == cache.systems # None /\ clock - cache.stamp < TTL

\* The handler goes on to wait for something else.
Await(r, pc, since) ==
    /\ req' = [req EXCEPT ![r].pc = pc, ![r].since = since]
    /\ UNCHANGED <<cache, queue>>

Down(systems) == systems >= setup.silent + Delay

\* The time of the host's last report, as the record of a list tells it.
Updated(systems) == IF systems < setup.silent THEN systems ELSE setup.silent

\* Variant: a record is as old as the list that it is in.
FreshnessOfList(systems, error) ==
    CASE systems = None -> IF error THEN "unreachable" ELSE "unknown"
      [] systems # None /\ Down(systems) -> "unreachable"
      [] OTHER -> IF clock - systems <= Threshold THEN "fresh" ELSE "stale"

\* _map_item, for a host that is up or down and has reported before. An error of the
\* refresh shows only where there is no record.
Freshness(systems, error) ==
    CASE systems = None -> IF error THEN "unreachable" ELSE "unknown"
      [] systems # None /\ Down(systems) -> "unreachable"
      [] OTHER -> IF clock - Updated(systems) <= Threshold THEN "fresh" ELSE "stale"

\* The records are mapped and the cards made without another await.
Answer(r, systems, error) ==
    req' = [req EXCEPT ![r] = [@ EXCEPT !.pc = "done", !.systems = systems, !.error = error,
                                        !.freshness = Freshness(systems, error)]]

\* The first query takes a connection. A fresh cache is used without the lock.
Receive(r) ==
    /\ loop = None
    /\ req[r].pc = "idle"
    /\ Cardinality(Held) < Pool
    /\ \/ /\ Fresh
          /\ Answer(r, cache.systems, FALSE)
          /\ UNCHANGED queue
       \/ /\ ~Fresh
          /\ req' = [req EXCEPT ![r].pc = "lock"]
          /\ queue' = Append(queue, r)
    /\ UNCHANGED <<setup, token, cache, loop, clock>>

\* No connection is left: the query waits for one on the thread of the event loop.
Block(r) ==
    /\ loop = None
    /\ req[r].pc = "idle"
    /\ Cardinality(Held) = Pool
    /\ req' = [req EXCEPT ![r].pc = "blocked"]
    /\ loop' = r
    /\ UNCHANGED <<setup, token, cache, queue, clock>>

\* Nobody can give a connection back meanwhile. The pool raises after its timeout.
PoolTimeout ==
    /\ loop # None
    /\ req' = [req EXCEPT ![loop].pc = "failed"]
    /\ loop' = None
    /\ UNCHANGED <<setup, token, cache, queue, clock>>

\* Variant: who waited for the lock asks the Hub without another look at the cache.
RecheckSkipped(r) ==
    /\ req[r].pc = "lock"
    /\ Await(r, IF token = None /\ setup.credential = "password" THEN "login" ELSE "list", clock)
    /\ UNCHANGED token

\* The second look, now under the lock, then the first call to the Hub. The lock is taken
\* in the step before when nobody holds it.
Recheck(r) ==
    /\ req[r].pc = "lock"
    /\ \/ /\ Fresh
          /\ Answer(r, cache.systems, FALSE)
          /\ queue' = Tail(queue)
          /\ UNCHANGED cache
       \/ /\ ~Fresh
          /\ Await(r, IF token = None /\ setup.credential = "password" THEN "login" ELSE "list",
                   clock)
    /\ UNCHANGED token

\* Variant: the lock is released after a successful refresh only.
FailHoldingLock(r) ==
    /\ Answer(r, cache.systems, TRUE)
    /\ UNCHANGED <<cache, queue, token>>

\* Any exception of a refresh: what was cached is answered, with the error noted.
Fail(r) ==
    /\ Answer(r, cache.systems, TRUE)
    /\ queue' = Tail(queue)
    /\ UNCHANGED <<cache, token>>

\* _authenticate, by the superuser endpoint or the users endpoint.
Login(r) ==
    \/ /\ req[r].pc = "login"
       /\ Await(r, "list", req[r].since)
       /\ token' = "known"
    \/ /\ req[r].pc = "login again"
       /\ Await(r, "list again", req[r].since)
       /\ token' = "known"

\* The Hub lists its systems to a caller that it knows, or to everybody.
Listed(r, pc) ==
    /\ req[r].pc = pc
    /\ token = "known" \/ setup.stranger = "listed"
    /\ req' = [req EXCEPT ![r].pc = "stats", ![r].systems = clock]
    /\ UNCHANGED <<cache, queue, token>>

Refused(r, pc) ==
    /\ req[r].pc = pc
    /\ token # "known"
    /\ setup.stranger # "listed"

\* A 401, or nothing in spite of a token: with a password the token is renewed, else the
\* refresh fails.
List(r) ==
    \/ Listed(r, "list")
    \/ /\ Refused(r, "list")
       /\ setup.credential = "password"
       /\ Await(r, "login again", req[r].since)
       /\ token' = None
    \/ /\ Refused(r, "list")
       /\ setup.credential # "password"
       /\ setup.stranger = "401" \/ token # None
       /\ Fail(r)
    \/ /\ Refused(r, "list")
       /\ setup.credential # "password"
       /\ setup.stranger = "empty"
       /\ token = None
       /\ Await(r, "stats", req[r].since)
       /\ UNCHANGED token

\* Variant: an empty list is an answer like any other after the token was renewed.
ListAgainAcceptingEmpty(r) ==
    \/ Listed(r, "list again")
    \/ /\ Refused(r, "list again")
       /\ setup.stranger = "401"
       /\ Fail(r)
    \/ /\ Refused(r, "list again")
       /\ setup.stranger = "empty"
       /\ Await(r, "stats", req[r].since)
       /\ UNCHANGED token

\* The Hub may have forgotten the new token too; then it answers as it did before, and
\* neither a second 401 nor a second empty list is accepted.
ListAgain(r) ==
    \/ Listed(r, "list again")
    \/ Refused(r, "list again") /\ Fail(r)

\* A call is not answered in time, or not with success. For the statistics of a host that
\* is no failure, but an answer of the wrong form raises there too.
CallFails(r) ==
    /\ req[r].pc \in Awaiting \ {"lock"}
    /\ Fail(r)

\* Variant: the cache is stamped when the records are there.
StoreStampedLate(r) ==
    /\ req[r].pc = "stats"
    /\ cache' = [systems |-> req[r].systems, stamp |-> clock]
    /\ Answer(r, req[r].systems, FALSE)
    /\ queue' = Tail(queue)
    /\ UNCHANGED token

\* The statistics of the single hosts have come, or not: the records go into the cache.
Store(r) ==
    /\ req[r].pc = "stats"
    /\ cache' = [systems |-> req[r].systems, stamp |-> req[r].since]
    /\ Answer(r, req[r].systems, FALSE)
    /\ queue' = Tail(queue)
    /\ UNCHANGED token

\* A coroutine that holds the lock moves on.
Proceed(r) ==
    /\ loop = None
    /\ queue # <<>>
    /\ Head(queue) = r
    /\ Recheck(r) \/ Login(r) \/ List(r) \/ ListAgain(r) \/ CallFails(r) \/ Store(r)
    /\ UNCHANGED <<setup, loop, clock>>

\* The Hub forgets the token: it has expired, or the Hub was set up anew.
TokenForgotten ==
    /\ token = "known"
    /\ token' = "forgotten"
    /\ UNCHANGED <<setup, cache, queue, loop, req, clock>>

Tick ==
    /\ clock < Horizon
    /\ clock' = clock + 1
    /\ UNCHANGED <<setup, token, cache, queue, loop, req>>

Next ==
    \/ \E r \in Requests : Receive(r) \/ Block(r) \/ Proceed(r)
    \/ PoolTimeout
    \/ TokenForgotten
    \/ Tick

\* Every call to the Hub ends, by its timeout if not before, the event loop runs what is
\* ready, and the pool does not wait for ever. Nothing else is promised to happen.
Spec ==
    /\ Init
    /\ [][Next]_vars
    /\ \A r \in Requests : WF_vars(Proceed(r))
    /\ WF_vars(PoolTimeout)

-----------------------------------------------------------------------------
(* Properties.                                                             *)

\* Systems that are answered without an error were listed less than TTL ago, or else for
\* this very request: neither the wait for the lock nor a slow refresh makes them older.
AnswersRecent ==
    [][\A r \in Requests :
          LET q == req'[r]
          IN  /\ req[r].pc # "done" /\ q.pc = "done"
              /\ ~q.error /\ q.systems # None
              => \/ clock - q.systems < TTL
                 \/ q.since # None /\ q.systems >= q.since]_vars

\* Who asks after somebody was answered does not get an older list, and not an empty one
\* instead of systems: not by overlapping refreshes, failing calls or a forgotten token.
AnswersNeverGoBack ==
    \A r, s \in Requests :
        [](req[r].pc = "done" /\ req[s].pc = "idle" =>
             [](req[s].pc = "done" =>
                  \/ req[r].systems = None
                  \/ req[s].systems # None /\ req[s].systems >= req[r].systems))

\* The card of a host that fell silent is not fresh for longer than Threshold; and with
\* TTL <= Threshold, the card of one that reports is not stale, unless the refresh failed or
\* took longer than Threshold itself. Neither caching nor waiting for the lock changes this.
CardTellsTheTruth ==
    [][\A r \in Requests :
          LET q == req'[r]
              silent == clock > setup.silent + Threshold
          IN  req[r].pc # "done" /\ q.pc = "done" =>
                /\ silent => q.freshness # "fresh"
                /\ q.freshness = "stale" /\ TTL <= Threshold =>
                     silent \/ q.error \/ (q.since # None /\ clock > q.since + Threshold)]_vars

\* Requests that come together share a refresh: two that have both refreshed the cache
\* with systems have begun at least TTL apart.
RefreshesCollapse ==
    \A r, s \in Requests :
        LET refreshed(q) == /\ q.pc = "done" /\ ~q.error
                            /\ q.since # None /\ q.systems # None
        IN  r # s /\ refreshed(req[r]) /\ refreshed(req[s]) /\ req[r].since <= req[s].since
              => req[s].since - req[r].since >= TTL

\* Every request that was received is answered, whatever the Hub does, however many wait
\* for the lock and although a full pool stops them all for a while.
EveryRequestAnswered ==
    \A r \in Requests : req[r].pc # "idle" ~> req[r].pc \in {"done", "failed"}
=============================================================================
