---------------------------------- MODULE Health ----------------------------------
(***************************************************************************)
(* The API process and its readiness: apps/api/src/server.ts, plugins/     *)
(* services.ts, services/health.service.ts, routes/health.ts, and the      *)
(* checks that the clients offer.  A probe asks PostgreSQL, Redis and the  *)
(* object store one after the other; each may come and go meanwhile, or    *)
(* stay connected and fall silent: the clients limit how long they connect,*)
(* and none of them how long it waits for an answer.                       *)
(*                                                                         *)
(* All of the process shares one connection to Redis, which is opened by   *)
(* whoever first needs it and has states of its own in between.            *)
(***************************************************************************)
EXTENDS FiniteSets

Dependencies == {"database", "redis", "storage"}

CONSTANTS
    Probes,         \* requests to GET /health/ready under way at one time (bound)
    Silent          \* the dependencies that may fall silent (bound)

ASSUME HealthConstants == Silent \subseteq Dependencies

VARIABLES
    server,     \* "down", "up", "closing", "exited"
    up,         \* the dependencies that answer
    mute,       \* those that accept what is sent to them and do not answer
    pool,       \* is the connection pool of the process open?
    link,       \* the status of the connection to Redis
    probe       \* by probe: where it is, whom it found down; whom it could have found up,
                \* whether nothing has disturbed it, and whether its PING lost the link

vars == <<server, up, mute, pool, link, probe>>

NoProbe == [pc |-> "none", bad |-> {}, seen |-> {}, steady |-> TRUE,
            broken |-> FALSE, answer |-> 0]

\* "connecting" and "ping" are parts of the check of Redis.
Steps == {"database", "redis", "connecting", "ping", "storage", "answer"}
Asking(p) == probe[p].pc \in Steps

Goes(p, pc) == probe' = [probe EXCEPT ![p].pc = pc]
Finds(p, pc, bad) == probe' = [probe EXCEPT ![p].pc = pc, ![p].bad = @ \cup bad, ![p].broken = FALSE]

Waits(p) == probe[p].pc \in {"connecting", "ping"}
Breaks(p) == probe[p].broken \/ (Waits(p) /\ link # "wait" /\ link' = "wait")

\* What is known of the probes under way after a change outside them
Disturbed == [p \in Probes |-> IF Asking(p)
                               THEN [probe[p] EXCEPT !.seen = @ \cup up', !.steady = FALSE,
                                                     !.broken = Breaks(p)]
                               ELSE probe[p]]

Init ==
    /\ server = "down" /\ up \in SUBSET Dependencies /\ mute \in SUBSET (Silent \ up)
    /\ pool = FALSE /\ link = "wait"
    /\ probe = [p \in Probes |-> NoProbe]

\* getDb and the clients are made before the process listens; none of them connects.
StartServer ==
    /\ server \in {"down", "exited"}
    /\ server' = "up" /\ pool' = TRUE /\ link' = "wait"
    /\ probe' = [p \in Probes |-> NoProbe]
    /\ UNCHANGED <<up, mute>>

\* One that goes down takes the connection to it along, and one that falls silent does not.
Changes ==
    /\ \E d \in Dependencies :
         \/ /\ d \notin up
            /\ up' = up \cup {d} /\ mute' = mute \ {d}
            /\ UNCHANGED link
         \/ /\ d \in Silent \ mute
            /\ up' = up \ {d} /\ mute' = mute \cup {d}
            /\ UNCHANGED link
         \/ /\ d \in up \cup mute
            /\ up' = up \ {d} /\ mute' = mute \ {d}
            /\ link' = IF d = "redis" THEN "wait" ELSE link
    /\ probe' = Disturbed
    /\ UNCHANGED <<server, pool>>

\* A session or the throttle uses the connection, or the client tries again.
Traffic ==
    /\ server = "up" /\ link = "wait"
    /\ link' = "connecting"
    /\ UNCHANGED <<up, mute>> /\ probe' = Disturbed
    /\ UNCHANGED <<server, pool>>

\* The socket opens, and then the server has loaded its data; or Redis does not answer.
\* connectTimeout is over once the socket is open.
LinkMoves ==
    /\ \/ link = "connecting" /\ "redis" \in up \cup mute /\ link' = "connect"
       \/ link = "connect" /\ "redis" \in up /\ link' = "ready"
       \/ link = "connecting" /\ "redis" \notin up /\ link' = "wait"
       \/ link = "connect" /\ "redis" \notin up \cup mute /\ link' = "wait"
    /\ probe' = [p \in Probes |-> [probe[p] EXCEPT !.broken = Breaks(p)]]
    /\ UNCHANGED <<server, up, mute, pool>>

ProbeArrives(p) ==
    /\ server = "up" /\ ~Asking(p)
    /\ LET others == \E q \in Probes \ {p} : Asking(q) IN
         probe' = [q \in Probes |->
                     IF q = p THEN [NoProbe EXCEPT !.pc = "database", !.seen = up,
                                                   !.steady = ~others /\ link \in {"wait", "ready"}]
                     ELSE IF Asking(q) THEN [probe[q] EXCEPT !.steady = FALSE] ELSE probe[q]]
    /\ UNCHANGED <<server, up, mute, pool, link>>

\* A query that fails is a dependency that is down, or one to which no connection comes
\* about in time.  A connection that broke before the dependency came back fails one, too.
\* One that is silent may count as down in the end, by the system's timeouts, or never.
CheckDatabase(p) ==
    /\ probe[p].pc = "database"
    /\ \E bad \in {{}, {"database"}} :
         /\ bad = {} => "database" \in up
         /\ bad # {} => "database" \notin up \/ ~probe[p].steady
         /\ Finds(p, "redis", bad)
    /\ UNCHANGED <<server, up, mute, pool, link>>

AlwaysConnects == link = "connecting"   \* variant: a client that is ready is told to connect

\* connect returns early for these two, and the client refuses a second connect in
\* the state between them, although Redis is there.
NeedsNoConnect == link \in {"ready", "connecting"}

CheckRedis(p) ==
    /\ probe[p].pc = "redis"
    /\ IF NeedsNoConnect THEN Goes(p, "ping") /\ UNCHANGED link
       ELSE IF link = "wait" THEN Goes(p, "connecting") /\ link' = "connecting"
       ELSE Finds(p, "storage", {"redis"}) /\ UNCHANGED link
    /\ UNCHANGED <<server, up, mute, pool>>

Connected(p) ==
    /\ probe[p].pc = "connecting"
    /\ \/ probe[p].broken /\ Finds(p, "storage", {"redis"})
       \/ link = "ready" /\ ~probe[p].broken /\ Goes(p, "ping")
    /\ UNCHANGED <<server, up, mute, pool, link>>

\* A PING waits for the connection, and is given up when that has broken too often.
Pong(p) ==
    /\ probe[p].pc = "ping"
    /\ \/ link = "ready" /\ "redis" \in up /\ Finds(p, "storage", {})
       \/ probe[p].broken /\ Finds(p, "storage", {"redis"})
    /\ UNCHANGED <<server, up, mute, pool, link>>

CheckStorage(p) ==
    /\ probe[p].pc = "storage"
    /\ Finds(p, "answer", IF "storage" \in up THEN {} ELSE {"storage"})
    /\ UNCHANGED <<server, up, mute, pool, link>>

CriticalOnly(bad) == IF bad \cap {"database", "redis"} # {} THEN 503 ELSE 200    \* variant: degraded is served

\* "error" and "degraded" are both 503.
StatusCode(bad) == IF bad = {} THEN 200 ELSE 503

Answer(p) ==
    /\ probe[p].pc = "answer"
    /\ probe' = [probe EXCEPT ![p].pc = "none", ![p].bad = {},
                              ![p].answer = StatusCode(probe[p].bad)]
    /\ UNCHANGED <<server, up, mute, pool, link>>

\* SIGINT or SIGTERM, perhaps both: app.close lets the requests end, however long that
\* takes; its hook then disconnects, and the process exits.
Signal == server = "up" /\ server' = "closing" /\ UNCHANGED <<up, mute, pool, link, probe>>

ClosesAtOnce == TRUE                    \* variant: the requests under way lose their pool
MayClose == \A p \in Probes : ~Asking(p)

QuitIsNeeded == link = "ready" /\ "redis" \in up    \* variant: only an answer to QUIT will do

\* A QUIT that cannot be sent, or that breaks, is caught and leaves nothing to wait for.
QuitEnds == ~ (link \in {"connect", "ready"} /\ "redis" \in mute)

\* dbClient.end waits for what is under way, and has no limit either.
CloseServices ==
    /\ server = "closing" /\ pool /\ MayClose /\ QuitEnds
    /\ pool' = FALSE /\ link' = "wait"
    /\ UNCHANGED <<server, up, mute, probe>>

Exit ==
    /\ server = "closing" /\ ~pool
    /\ server' = "exited"
    /\ probe' = [p \in Probes |-> NoProbe]
    /\ UNCHANGED <<up, mute, pool, link>>

Crash ==
    /\ server \in {"up", "closing"}
    /\ server' = "exited" /\ pool' = FALSE /\ link' = "wait"
    /\ probe' = [p \in Probes |-> NoProbe]
    /\ UNCHANGED <<up, mute>>

Probing(p) == CheckDatabase(p) \/ CheckRedis(p) \/ Connected(p) \/ Pong(p) \/ CheckStorage(p) \/ Answer(p)

Next ==
    \/ StartServer \/ Changes \/ Traffic \/ LinkMoves \/ Signal \/ CloseServices \/ Exit \/ Crash
    \/ \E p \in Probes : ProbeArrives(p) \/ Probing(p)

Spec == Init /\ [][Next]_vars

\* Waits for an answer that may never come; so does a PING, by its guard.
Hangs(p) == probe[p].pc \in mute \cap {"database", "storage"}

\* The event loop runs what has been answered, and the timers that there are: none of
\* them is for a query, a PING, a request to the store, or the shutdown.
Fairness ==
    /\ WF_vars(LinkMoves) /\ WF_vars(Exit)
    /\ WF_vars(CloseServices /\ mute = {})
    /\ \A p \in Probes : WF_vars(Probing(p) /\ ~Hangs(p))

FairSpec == Spec /\ Fairness

(***************************************************************************)
(* Properties.                                                             *)
(***************************************************************************)
TypeOK ==
    /\ server \in {"down", "up", "closing", "exited"}
    /\ up \subseteq Dependencies /\ mute \subseteq Dependencies \ up /\ pool \in BOOLEAN
    /\ link \in {"wait", "connecting", "connect", "ready"}
    /\ probe \in [Probes -> [pc : Steps \cup {"none"}, bad : SUBSET Dependencies,
                             seen : SUBSET Dependencies, steady : BOOLEAN, broken : BOOLEAN,
                             answer : {0, 200, 503}]]

\* A connection that counts as ready has a Redis behind it, if a silent one, and probes
\* are under way only in a process that serves or drains, with its pool open.
HealthInv ==
    /\ TypeOK
    /\ link = "ready" => "redis" \in up \cup mute
    /\ (\E p \in Probes : Asking(p)) => server \in {"up", "closing"} /\ pool

\* routes/health.ts:62-66, "200 must mean every dependency is genuinely ok": each has
\* been up at some moment while the probe ran, though not all at one.
ReadyMeansUp == \A p \in Probes : probe[p].answer = 200 => probe[p].seen = Dependencies

\* The other way round, a probe says 503 of a system that is up only if something else
\* came in between: another probe or a session that opens the connection to Redis at
\* the same time.  Nothing else makes a load balancer give up a healthy process.
SteadyIsReady ==
    \A p \in Probes : probe[p].answer = 503 /\ probe[p].steady => probe[p].seen # Dependencies

\* A process that is told to stop does, and every probe is answered or cut off, whatever
\* comes and goes, if dependencies fall silent no more from some time on: one that is
\* silent holds up a probe and a shutdown for as long as it likes.
StopsAndAnswers ==
    <>[](mute = {}) =>
        /\ server = "closing" ~> server = "exited"
        /\ \A p \in Probes : Asking(p) ~> ~Asking(p)
===============================================================================
