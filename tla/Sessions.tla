------------------------------- MODULE Sessions -------------------------------
(***************************************************************************)
(* The server-side sessions of the API: SessionManager                     *)
(* (packages/auth/src/session/session-manager.ts) and the status route     *)
(* that relies on it (apps/api/src/routes/v1/iam.ts, PATCH .../status).    *)
(*                                                                         *)
(* A session lives twice: as a row of PostgreSQL (the authority) and as a  *)
(* JSON copy of the session and of its user in Redis under                 *)
(* session:<hash>.  Every call of the manager is a chain of awaits, so the *)
(* calls in flight interleave between any two of their commands.  Each     *)
(* action below is one command as the store executes it, together with the *)
(* code that runs without an await before the next command is sent.        *)
(*                                                                         *)
(* Time is relative: life[t] is the number of ticks to the expiresAt of    *)
(* session t.  That instant is fixed when the token is generated and every *)
(* copy of the session carries it.                                         *)
(***************************************************************************)
EXTENDS Integers, FiniteSets

CONSTANTS
    Users,          \* the rows of the users table
    Roots,          \* the users whose identityType is ROOT
    Tokens,         \* the tokens the generator will hand out, each once (bound)
    Reqs,           \* the calls that can be in flight at once (bound)
    Ttl,            \* sessionTtlSeconds, in ticks
    RedisMayFail,   \* may a Redis command be rejected?
    DbMayFail,      \* may a database query fail, or the process die?
    Nobody, NoToken

ASSUME SessionConstants ==
    /\ Roots \subseteq Users
    /\ Ttl \in Nat \ {0}
    /\ RedisMayFail \in BOOLEAN
    /\ DbMayFail \in BOOLEAN
    /\ Nobody \notin Users
    /\ NoToken \notin Tokens

VARIABLES
    status,     \* users.status
    owner,      \* sessions.userId, from the moment the token is generated
    row,        \* is there a row in sessions, and is its revokedAt set?
    life,       \* expiresAt - now; -1 stands for every instant past expiresAt
    cache,      \* what Redis holds under session:<hash>
    held,       \* has the token been returned, to be sent in the cookie?
    call,       \* the local state of each call in flight
    answer      \* what each call last returned

vars == <<status, owner, row, life, cache, held, call, answer>>
stored == <<status, owner, row, held>>

Status == {"ACTIVE", "SUSPENDED", "DISABLED"}

\* A key of Redis is there while its ttl is positive.
Entry == [ttl : 0..Ttl, status : Status]
NoEntry == [ttl |-> 0, status |-> "ACTIVE"]

Steps == {"idle", "c_insert", "c_store", "v_hit", "v_purge", "v_query",
          "v_found", "v_store", "r_update", "s_select", "s_delete"}

TokenSteps == Steps \ {"idle", "s_select", "s_delete"}

Reasons == {"expired", "revoked"}

(***************************************************************************)
(* tok and user name what the call is about; seen is the users.status it   *)
(* holds a copy of; stamp is the last clock reading it took, as a distance *)
(* to expiresAt; todo is the sessions revokeAllUserSessions has still to   *)
(* delete from Redis.  began, which no code reads, is why the session had  *)
(* already ended when the call began.                                      *)
(***************************************************************************)
Call == [pc : Steps, tok : Tokens \cup {NoToken}, user : Users \cup {Nobody},
         seen : Status, stamp : -1..Ttl, todo : SUBSET Tokens,
         began : SUBSET Reasons]

Idle == [pc |-> "idle", tok |-> NoToken, user |-> Nobody, seen |-> "ACTIVE",
         stamp |-> -1, todo |-> {}, began |-> {}]

Answers == {"none", "cached", "stored", "ended", "refused", "done", "error"}

\* The two answers { valid: true }: from the Redis copy, from the database.
Valid == {"cached", "stored"}

TypeOK ==
    /\ status \in [Users -> Status]
    /\ owner \in [Tokens -> Users \cup {Nobody}]
    /\ row \in [Tokens -> {"none", "active", "revoked"}]
    /\ life \in [Tokens -> -1..Ttl]
    /\ cache \in [Tokens -> Entry]
    /\ held \in [Tokens -> BOOLEAN]
    /\ call \in [Reqs -> Call]
    /\ answer \in [Reqs -> Answers]

Init ==
    /\ status = [u \in Users |-> "ACTIVE"]
    /\ owner = [t \in Tokens |-> Nobody]
    /\ row = [t \in Tokens |-> "none"]
    /\ life = [t \in Tokens |-> Ttl]
    /\ cache = [t \in Tokens |-> NoEntry]
    /\ held = [t \in Tokens |-> FALSE]
    /\ call = [r \in Reqs |-> Idle]
    /\ answer = [r \in Reqs |-> "none"]

(***************************************************************************)
(* Commands of the stores.                                                 *)
(***************************************************************************)
\* A call goes on, or starts, with local state c.
Resume(r, c) == call' = [call EXCEPT ![r] = c]
Goto(r, pc) == Resume(r, [call[r] EXCEPT !.pc = pc])

\* What the call before it returned is forgotten.
Start(r, c) ==
    /\ Resume(r, c)
    /\ answer' = [answer EXCEPT ![r] = "none"]

Return(r, a) ==
    /\ Resume(r, Idle)
    /\ answer' = [answer EXCEPT ![r] = a]

\* SET session:<hash> <json> EX <ttl>, and DEL session:<hash>
CachePut(t, e) == cache' = [cache EXCEPT ![t] = e]
CacheDelete(t) == CachePut(t, NoEntry)

\* A command that is rejected (after the client's retries) may have run.
Rejected(put) == RedisMayFail /\ (put \/ UNCHANGED cache)

\* Why a call that begins now should not have the session accepted.
EndedNow(t) ==
    {why \in Reasons : \/ why = "expired" /\ life[t] < 0
                       \/ why = "revoked" /\ row[t] = "revoked"}

\* The two tests of users.status that each path makes.
OnlySuspended(s) == s = "SUSPENDED"         \* variant: DISABLED forgotten
Barred(s) == s \in {"SUSPENDED", "DISABLED"}

(***************************************************************************)
(* createSession: reached by login and signup for a user they have looked  *)
(* up.  expiresAt is computed and the user read again; a user who is not   *)
(* ACTIVE is refused before anything is stored.                            *)
(***************************************************************************)
CreateRead(r, u) ==
    /\ call[r].pc = "idle"
    /\ \/ /\ Barred(status[u])
          /\ Return(r, "refused")
          /\ UNCHANGED owner
       \/ /\ ~Barred(status[u])
          /\ \E t \in Tokens :
                /\ owner[t] = Nobody
                /\ owner' = [owner EXCEPT ![t] = u]
                /\ Start(r, [Idle EXCEPT !.pc = "c_insert", !.tok = t,
                                         !.seen = status[u]])
    /\ UNCHANGED <<status, row, life, cache, held>>

\* INSERT of the session row; lastLoginAt, updated next, is not tracked.
CreateInsert(r) ==
    /\ call[r].pc = "c_insert"
    /\ row' = [row EXCEPT ![call[r].tok] = "active"]
    /\ Goto(r, "c_store")
    /\ UNCHANGED <<status, owner, life, cache, held, answer>>

\* The Redis copy carries the user as read at the start, and the whole ttl.
CreateStore(r) ==
    LET t == call[r].tok
        put == CachePut(t, [ttl |-> Ttl, status |-> call[r].seen])
    IN  /\ call[r].pc = "c_store"
        /\ \/ put /\ Return(r, "done") /\ held' = [held EXCEPT ![t] = TRUE]
           \/ Rejected(put) /\ Return(r, "error") /\ UNCHANGED held
        /\ UNCHANGED <<status, owner, row, life>>

(***************************************************************************)
(* validateSession, run for every request that carries a session cookie.   *)
(***************************************************************************)
\* GET session:<hash>.  A miss or a rejected GET goes on to the database,
\* with the clock read for the comparison with expiresAt.
ValidateGet(r, t) ==
    /\ call[r].pc = "idle"
    /\ held[t]
    /\ \E hit \in BOOLEAN :
          /\ hit => cache[t].ttl > 0
          /\ ~hit => cache[t].ttl = 0 \/ RedisMayFail
          /\ Start(r, [Idle EXCEPT !.pc = IF hit THEN "v_hit" ELSE "v_query",
                                   !.tok = t,
                                   !.seen = IF hit THEN cache[t].status ELSE @,
                                   !.stamp = IF hit THEN @ ELSE life[t],
                                   !.began = EndedNow(t)])
    /\ UNCHANGED <<stored, life, cache>>

\* now > expiresAt, for the copy in Redis
CopyTrusted(t) == FALSE                     \* variant: left to the key's ttl
CopyExpired(t) == life[t] < 0

\* The copy is judged by itself: its expiresAt, then the status it carries.
ValidateHit(r) ==
    /\ call[r].pc = "v_hit"
    /\ \/ /\ CopyExpired(call[r].tok)
          /\ Goto(r, "v_purge")
          /\ UNCHANGED answer
       \/ /\ ~CopyExpired(call[r].tok)
          /\ Return(r, IF Barred(call[r].seen) THEN "refused" ELSE "cached")
    /\ UNCHANGED <<stored, life, cache>>

\* The expired copy is deleted.  The catch covers this command too: when it
\* is rejected the call goes on to the database.
ValidatePurge(r) ==
    LET t == call[r].tok
    IN  /\ call[r].pc = "v_purge"
        /\ \/ CacheDelete(t) /\ Return(r, "ended")
           \/ /\ Rejected(CacheDelete(t))
              /\ Resume(r, [call[r] EXCEPT !.pc = "v_query", !.stamp = life[t]])
              /\ UNCHANGED answer
        /\ UNCHANGED <<stored, life>>

\* WHERE revokedAt IS NULL AND expiresAt > now, at a clock reading of stamp
FoundRevoked(t, stamp) == row[t] # "none" /\ stamp > 0     \* variants: without
FoundExpired(t, stamp) == row[t] = "active"                \* each conjunct, and
FoundEarly(t, stamp) == row[t] = "active" /\ stamp > 1     \* one second short
RowFound(t, stamp) == row[t] = "active" /\ stamp > 0

\* The row is looked up together with its user.
ValidateQuery(r) ==
    LET t == call[r].tok
        found == RowFound(t, call[r].stamp)
    IN  /\ call[r].pc = "v_query"
        /\ \/ ~found /\ Return(r, "ended")
           \/ /\ found
              /\ Resume(r, [call[r] EXCEPT !.pc = "v_found", !.seen = status[owner[t]]])
              /\ UNCHANGED answer
        /\ UNCHANGED <<stored, life, cache>>

\* The status of the joined user, then the seconds left, at least one.
ValidateFound(r) ==
    LET left == life[call[r].tok]
    IN  /\ call[r].pc = "v_found"
        /\ \/ Barred(call[r].seen) /\ Return(r, "refused")
           \/ /\ ~Barred(call[r].seen)
              /\ Resume(r, [call[r] EXCEPT !.pc = "v_store",
                                           !.stamp = IF left > 1 THEN left ELSE 1])
              /\ UNCHANGED answer
        /\ UNCHANGED <<stored, life, cache>>

\* The Redis copy is written again, outside the try block.
ValidateStore(r) ==
    LET put == CachePut(call[r].tok,
                        [ttl |-> call[r].stamp, status |-> call[r].seen])
    IN  /\ call[r].pc = "v_store"
        /\ \/ put /\ Return(r, "stored")
           \/ Rejected(put) /\ Return(r, "error")
        /\ UNCHANGED <<stored, life>>

(***************************************************************************)
(* revokeSession, the logout: Redis first, then the database.              *)
(***************************************************************************)
RevokeDelete(r, t) ==
    /\ call[r].pc = "idle"
    /\ held[t]
    /\ \/ /\ CacheDelete(t)
          /\ Start(r, [Idle EXCEPT !.pc = "r_update", !.tok = t])
       \/ Rejected(CacheDelete(t)) /\ Return(r, "error")
    /\ UNCHANGED <<stored, life>>

RevokeRows(S) == row' = [t \in Tokens |-> IF t \in S /\ row[t] = "active"
                                          THEN "revoked" ELSE row[t]]

RevokeUpdate(r) ==
    /\ call[r].pc = "r_update"
    /\ RevokeRows({call[r].tok})
    /\ Return(r, "done")
    /\ UNCHANGED <<status, owner, life, cache, held>>

(***************************************************************************)
(* The status route: updateUserStatus, which refuses to suspend or disable *)
(* the actor and a ROOT user, then revokeAllUserSessions if the new status *)
(* bars the user.                                                          *)
(***************************************************************************)
StatusChangeAllowed(actor, u, s) == s = "ACTIVE" \/ (u # actor /\ u \notin Roots)

\* The statuses after which the route revokes the user's sessions
EndsSessions(s) == s \in {"SUSPENDED", "DISABLED"}

StatusUpdate(r, actor, u, s) ==
    /\ call[r].pc = "idle"
    /\ StatusChangeAllowed(actor, u, s)
    /\ status' = [status EXCEPT ![u] = s]
    /\ \/ ~EndsSessions(s) /\ Return(r, "done")
       \/ /\ EndsSessions(s)
          /\ Start(r, [Idle EXCEPT !.pc = "s_select", !.user = u])
    /\ UNCHANGED <<owner, row, life, cache, held>>

SessionsOf(u) == {t \in Tokens : owner[t] = u /\ row[t] = "active"}

RevokeAllSelect(r) ==
    /\ call[r].pc = "s_select"
    /\ Resume(r, [call[r] EXCEPT !.pc = "s_delete", !.todo = SessionsOf(call[r].user)])
    /\ UNCHANGED <<stored, life, cache, answer>>

\* Promise.allSettled: a rejected DEL is forgotten.
RevokeAllDelete(r, t) ==
    /\ call[r].pc = "s_delete"
    /\ t \in call[r].todo
    /\ CacheDelete(t) \/ Rejected(CacheDelete(t))
    /\ Resume(r, [call[r] EXCEPT !.todo = @ \ {t}])
    /\ UNCHANGED <<stored, life, answer>>

RevokeAllUpdate(r) ==
    /\ call[r].pc = "s_delete"
    /\ call[r].todo = {}
    /\ RevokeRows(SessionsOf(call[r].user))
    /\ Return(r, "done")
    /\ UNCHANGED <<status, owner, life, cache, held>>

(***************************************************************************)
(* The environment.                                                        *)
(***************************************************************************)
\* A query fails, or the process serving the call dies.
Abort(r) ==
    /\ DbMayFail
    /\ call[r].pc # "idle"
    /\ Return(r, "error")
    /\ UNCHANGED <<stored, life, cache>>

Ages(t) == owner[t] # Nobody /\ life[t] >= 0

\* Time passes: every session gets older, and Redis drops what has expired.
Tick ==
    /\ \E t \in Tokens : Ages(t) \/ cache[t].ttl > 0
    /\ life' = [t \in Tokens |-> IF Ages(t) THEN life[t] - 1 ELSE life[t]]
    /\ cache' = [t \in Tokens |-> IF cache[t].ttl > 1
                                  THEN [cache[t] EXCEPT !.ttl = @ - 1] ELSE NoEntry]
    /\ UNCHANGED <<stored, call, answer>>

\* Redis evicts a key or restarts empty.
Evict(t) ==
    /\ cache[t].ttl > 0
    /\ CacheDelete(t)
    /\ UNCHANGED <<stored, life, call, answer>>

Continue(r) ==
    \/ CreateInsert(r) \/ CreateStore(r)
    \/ ValidateHit(r) \/ ValidatePurge(r) \/ ValidateQuery(r)
    \/ ValidateFound(r) \/ ValidateStore(r)
    \/ RevokeUpdate(r)
    \/ RevokeAllSelect(r) \/ RevokeAllUpdate(r)
    \/ \E t \in Tokens : RevokeAllDelete(r, t)

Begin(r) ==
    \/ \E u \in Users : CreateRead(r, u)
    \/ \E t \in Tokens : ValidateGet(r, t) \/ RevokeDelete(r, t)
    \/ \E actor, u \in Users, s \in Status : StatusUpdate(r, actor, u, s)

Next ==
    \/ \E r \in Reqs : Begin(r) \/ Continue(r) \/ Abort(r)
    \/ Tick
    \/ \E t \in Tokens : Evict(t)

Spec == Init /\ [][Next]_vars

\* The event loop resumes every call whose command was answered, and time
\* passes.  Nothing obliges a client to call.
Fairness == WF_vars(Tick) /\ \A r \in Reqs : WF_vars(Continue(r))

(***************************************************************************)
(* Properties.                                                             *)
(***************************************************************************)
Creating(c) == c.pc \in {"c_insert", "c_store"}
Filling(c) == c.pc \in {"v_found", "v_store"}

\* Every copy of a user that can reach Redis, or that is in Redis, says ACTIVE:
\* createSession and validateSession refuse any other status before they write,
\* and nothing edits a copy in place.  So the status tests on a cached copy
\* (session-manager.ts:151-156) never fire, and whether a barred user is kept
\* out rests on the copies being deleted.
CarriesActive(c) ==
    c.pc \in {"c_insert", "c_store", "v_hit", "v_store"} => c.seen = "ACTIVE"

CopiesSayActive ==
    /\ \A t \in Tokens : cache[t].status = "ACTIVE"
    /\ \A r \in Reqs : CarriesActive(call[r])

\* A row is inserted once: the token of a session being created is in no row yet
\* and in no other call, so the unique index on tokenHash never rejects it.
TokensAreFresh ==
    \A r, q \in Reqs :
        call[r].pc = "c_insert" =>
            /\ row[call[r].tok] = "none"
            /\ q # r /\ call[q].pc \in TokenSteps => call[q].tok # call[r].tok

\* There is no copy without its row: Redis holds a copy only of a session whose
\* row was inserted, for a user, and so does a call that holds one.
HasRow(c) ==
    /\ c.pc \in TokenSteps \/ c.began # {}
          => c.tok \in Tokens /\ owner[c.tok] # Nobody
    /\ Filling(c) \/ c.pc \in {"c_store", "v_hit", "v_purge", "v_query"}
          => row[c.tok] # "none"

CopiesHaveRows ==
    /\ \A t \in Tokens :
          /\ cache[t].ttl > 0 \/ held[t] => row[t] # "none"
          /\ row[t] # "none" => owner[t] # Nobody
          /\ owner[t] = Nobody => life[t] = Ttl
    /\ \A r \in Reqs : HasRow(call[r])

\* What a call knew stays true while it waits: a session that had ended when the
\* call began is ended still, and a call to which the database gave a row began
\* before the session ended.  The ttl it will write is positive: RedisService.set
\* (redis-client.ts:97-103) stores a key without expiry for any other.
KnowsEnds(c) ==
    /\ "expired" \in c.began => life[c.tok] < 0
    /\ "revoked" \in c.began => row[c.tok] = "revoked"
    /\ c.pc = "v_query" => c.stamp >= life[c.tok]
    /\ c.pc = "v_query" /\ c.stamp > 0 => "expired" \notin c.began
    /\ c.pc = "v_purge" => life[c.tok] < 0
    /\ Filling(c) => c.began = {}
    /\ c.pc = "v_store" => c.stamp > 0

EndsStand == \A r \in Reqs : KnowsEnds(call[r])

\* The inductive invariant of the session manager: the facts above, none of which
\* is preserved without the others and the types.
SessionInv ==
    TypeOK /\ CopiesSayActive /\ TokensAreFresh /\ CopiesHaveRows /\ EndsStand

Returns(r) == call[r].pc # "idle" /\ call'[r].pc = "idle"
Accepts(r) == Returns(r) /\ answer'[r] \in Valid

\* No request that begins after expiresAt is answered as the session's user,
\* although the copy in Redis can outlive expiresAt (createSession stores it for
\* the whole ttl after three queries; validateSession for at least a second).
NeverAcceptsExpired ==
    [][\A r \in Reqs : Accepts(r) => "expired" \notin call[r].began]_vars

\* A request answered from the database (session-manager.ts:169-240) began
\* before the session was revoked: only the Redis copy can be stale.
DatabaseNeverAcceptsEnded ==
    [][\A r \in Reqs : Accepts(r) /\ answer'[r] = "stored"
                          => call[r].began = {}]_vars

\* A holder is told that the session has ended (INVALID_SESSION, SESSION_EXPIRED)
\* only when it has: it was revoked, or no time is left on it.
EndedHasCause ==
    [][\A r \in Reqs : Returns(r) /\ answer'[r] = "ended"
          => row[call[r].tok] = "revoked" \/ life[call[r].tok] <= 0]_vars

Quiet == \A r \in Reqs : call[r].pc = "idle"

\* "Suspending or disabling an account must immediately revoke all associated
\* active sessions in PostgreSQL and Redis" (skills/security/SKILL.md:18): when
\* no call is in flight, a barred user has neither an active row nor a copy.
SuspensionEndsSessions ==
    Quiet => \A t \in Tokens : row[t] # "none" /\ status[owner[t]] # "ACTIVE"
                                  => row[t] = "revoked" /\ cache[t].ttl = 0

(***************************************************************************)
(* The contract the stores implement between them.                         *)
(***************************************************************************)
\* Can a request still be answered as the session's user, now or later?
MayAccept(c, t) ==
    /\ c.tok = t
    /\ \/ Creating(c) /\ life[t] >= 0
       \/ c.pc = "v_hit" /\ life[t] >= 0
       \/ c.pc = "v_query" /\ c.stamp > 0 /\ row[t] = "active"
       \/ Filling(c)

Acceptable(t) ==
    \/ row[t] = "active" /\ life[t] > 0
    \/ cache[t].ttl > 0 /\ life[t] >= 0
    \/ \E r \in Reqs : MayAccept(call[r], t)

Phase(t) ==
    IF owner[t] = Nobody THEN "unissued"
    ELSE IF Acceptable(t) THEN "live" ELSE "over"

Contract == INSTANCE SessionContract WITH phase <- [t \in Tokens |-> Phase(t)]

\* With two stores, refills, evictions and lost commands, a session still ends
\* once: when no request can be answered as its user, none ever can again.
ImplementsContract == Contract!Spec

\* Every session ends, however often its copy is written again: the rewritten
\* copies carry the expiresAt of the row.
SessionsEnd == Contract!EverySessionEnds
===============================================================================
