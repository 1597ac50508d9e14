--------------------------------- MODULE Login ---------------------------------
(***************************************************************************)
(* The login of one account: POST /auth/login                              *)
(* (apps/api/src/routes/v1/auth.ts) around LoginThrottle                   *)
(* (packages/auth/src/login-throttle.ts), which counts wrong passwords in  *)
(* one Redis key and locks the account with another.                       *)
(*                                                                         *)
(* The throttle reads, adds one and writes in three commands, so the       *)
(* attempts in flight interleave between any two of them.  Each action is  *)
(* one command as Redis executes it, with the code that runs before the    *)
(* next is sent.  Time is relative: ttl and left are in ticks, 0 is never  *)
(* or past.                                                                *)
(***************************************************************************)
EXTENDS Integers, FiniteSets

CONSTANTS
    Reqs,           \* the attempts that can be in flight at once (bound)
    MaxAttempts,    \* maxLoginAttempts
    Window,         \* loginAttemptWindowSeconds, in ticks
    Lockout,        \* lockoutSeconds, in ticks
    RedisMayFail,   \* may Redis reject a command, or lose a key?
    DbMayFail       \* may a query fail, or the process die?

ASSUME LoginConstants ==
    /\ IsFiniteSet(Reqs)
    /\ MaxAttempts \in Nat \ {0}
    /\ Window \in Nat \ {0}
    /\ Lockout \in Nat \ {0}
    /\ RedisMayFail \in BOOLEAN
    /\ DbMayFail \in BOOLEAN

VARIABLES
    attempts,   \* login:attempts:<email>, the count and the key's ttl
    lock,       \* login:locked:<email>, the time to its deadline and the ttl
    call,       \* the local state of each attempt in flight
    answer,     \* the status each attempt was last answered with
    misses,     \* wrong passwords since the slate was clean, up to MaxAttempts
    span        \* the age of the first of them, up to Window

vars == <<attempts, lock, call, answer, misses, span>>

NoAttempts == [n |-> 0, ttl |-> 0]
NoLock == [left |-> 0, ttl |-> 0]

\* check, then the password, then recordFailure or recordSuccess
Steps == {"idle", "k_read", "k_delete", "verify",
          "f_get", "f_set", "f_lock", "f_clear",
          "s_attempts", "s_lock", "create"}

\* n is the count recordFailure will write; left is the time to the deadline
\* that check has read or that recordFailure will write.
Call == [pc : Steps, n : 0..MaxAttempts, left : 0..Lockout]
Idle == [pc |-> "idle", n |-> 0, left |-> 0]

\* 429, 403, 401, 200, 500
Answers == {"none", "locked", "barred", "wrong", "welcome", "error"}

TypeOK ==
    /\ attempts \in [n : 0..MaxAttempts, ttl : 0..Window]
    /\ lock \in [left : 0..Lockout, ttl : 0..Lockout]
    /\ call \in [Reqs -> Call]
    /\ answer \in [Reqs -> Answers]
    /\ misses \in 0..MaxAttempts
    /\ span \in 0..Window

Init ==
    /\ attempts = NoAttempts
    /\ lock = NoLock
    /\ call = [r \in Reqs |-> Idle]
    /\ answer = [r \in Reqs |-> "none"]
    /\ misses = 0
    /\ span = 0

Resume(r, c) == call' = [call EXCEPT ![r] = c]
Goto(r, pc) == Resume(r, [call[r] EXCEPT !.pc = pc]) /\ UNCHANGED answer
Return(r, a) == Resume(r, Idle) /\ answer' = [answer EXCEPT ![r] = a]

\* The count that is as good as any higher one: recordFailure only compares it
\* with MaxAttempts (bound).
Bump(n) == IF n < MaxAttempts THEN n + 1 ELSE n
CountedNot(n) == n                          \* variants of Counted: nothing added,
CountedTwice(n) == Bump(Bump(n))            \* and a second failure
Counted(n) == Bump(n)

\* current >= maxAttempts
LockEarly(n) == n >= MaxAttempts - 1        \* variant of LockDue: one too soon
LockDue(n) == n >= MaxAttempts

(***************************************************************************)
(* check.  Whatever Redis rejects, the account counts as unlocked.         *)
(***************************************************************************)
CheckGet(r) ==
    /\ call[r].pc = "idle"
    /\ answer' = [answer EXCEPT ![r] = "none"]
    /\ \/ lock.ttl = 0 /\ Resume(r, [Idle EXCEPT !.pc = "verify"])
       \/ lock.ttl > 0 /\ Resume(r, [Idle EXCEPT !.pc = "k_read", !.left = lock.left])
       \/ RedisMayFail /\ Resume(r, [Idle EXCEPT !.pc = "verify"])
    /\ UNCHANGED <<attempts, lock>>

\* remainingMs <= 0
PastEarly(left) == left <= 1                \* variant of Past: a tick too soon
Past(left) == left <= 0

\* The lock is left alone by the attempts it turns away.
Renew == lock' = [left |-> Lockout, ttl |-> Lockout]    \* variant: it starts again
Keep == UNCHANGED lock

\* A lock past its deadline is deleted, although its key has a ttl of its own.
CheckRead(r) ==
    /\ call[r].pc = "k_read"
    /\ \/ ~Past(call[r].left) /\ Return(r, "locked") /\ Keep
       \/ Past(call[r].left) /\ Goto(r, "k_delete") /\ UNCHANGED lock
    /\ UNCHANGED attempts

CheckDelete(r) ==
    /\ call[r].pc = "k_delete"
    /\ Goto(r, "verify")
    /\ lock' = NoLock \/ (RedisMayFail /\ UNCHANGED lock)
    /\ UNCHANGED attempts

\* The user is looked up and the password verified; an email that is in no row
\* is counted like a wrong password, a SUSPENDED or DISABLED account is not.
Verify(r) ==
    /\ call[r].pc = "verify"
    /\ \/ Goto(r, "f_get")
       \/ Goto(r, "s_attempts")
       \/ Return(r, "barred")
    /\ UNCHANGED <<attempts, lock>>

(***************************************************************************)
(* recordFailure.  A rejected command ends it, and may have run; the       *)
(* attempt is answered 401 all the same.                                   *)
(***************************************************************************)
FailGet(r) ==
    /\ call[r].pc = "f_get"
    /\ \/ Resume(r, [call[r] EXCEPT !.pc = "f_set", !.n = Counted(attempts.n)])
          /\ UNCHANGED answer
       \/ RedisMayFail /\ Return(r, "wrong")
    /\ UNCHANGED <<attempts, lock>>

\* SET with the whole window again, then the deadline is computed.
FailSet(r) ==
    LET put == attempts' = [n |-> call[r].n, ttl |-> Window]
    IN  /\ call[r].pc = "f_set"
        /\ \/ put /\ ~LockDue(call[r].n) /\ Return(r, "wrong")
           \/ /\ put /\ LockDue(call[r].n)
              /\ Resume(r, [call[r] EXCEPT !.pc = "f_lock", !.left = Lockout])
              /\ UNCHANGED answer
           \/ RedisMayFail /\ (put \/ UNCHANGED attempts) /\ Return(r, "wrong")
        /\ UNCHANGED lock

FailLock(r) ==
    LET put == lock' = [left |-> call[r].left, ttl |-> Lockout]
    IN  /\ call[r].pc = "f_lock"
        /\ \/ put /\ Goto(r, "f_clear")
           \/ RedisMayFail /\ (put \/ UNCHANGED lock) /\ Return(r, "wrong")
        /\ UNCHANGED attempts

FailClear(r) ==
    /\ call[r].pc = "f_clear"
    /\ Return(r, "wrong")
    /\ attempts' = NoAttempts \/ (RedisMayFail /\ UNCHANGED attempts)
    /\ UNCHANGED lock

(***************************************************************************)
(* recordSuccess, whose errors are swallowed, and then createSession, whose *)
(* errors are not: it reads the status again, and its last command stores  *)
(* the session in Redis.                                                   *)
(***************************************************************************)
SuccessAttempts(r) ==
    /\ call[r].pc = "s_attempts"
    /\ \/ attempts' = NoAttempts /\ Goto(r, "s_lock")
       \/ RedisMayFail /\ attempts' \in {attempts, NoAttempts} /\ Goto(r, "create")
    /\ UNCHANGED lock

SuccessLock(r) ==
    /\ call[r].pc = "s_lock"
    /\ Goto(r, "create")
    /\ lock' = NoLock \/ (RedisMayFail /\ UNCHANGED lock)
    /\ UNCHANGED attempts

Create(r) ==
    /\ call[r].pc = "create"
    /\ \/ Return(r, "welcome")
       \/ Return(r, "barred")
       \/ RedisMayFail /\ Return(r, "error")
    /\ UNCHANGED <<attempts, lock>>

(***************************************************************************)
(* The environment.                                                        *)
(***************************************************************************)
Abort(r) ==
    /\ DbMayFail
    /\ call[r].pc # "idle"
    /\ Return(r, "error")
    /\ UNCHANGED <<attempts, lock>>

Less(n) == IF n > 0 THEN n - 1 ELSE 0

Tick ==
    /\ attempts.ttl > 0 \/ lock.ttl > 0 \/ \E r \in Reqs : call[r].left > 0
    /\ attempts' = IF attempts.ttl > 1 THEN [attempts EXCEPT !.ttl = @ - 1]
                                       ELSE NoAttempts
    /\ lock' = IF lock.ttl > 1 THEN [left |-> Less(lock.left), ttl |-> lock.ttl - 1]
                               ELSE NoLock
    /\ call' = [r \in Reqs |-> [call[r] EXCEPT !.left = Less(@)]]
    /\ UNCHANGED answer

Forget ==
    /\ RedisMayFail
    /\ \/ attempts.ttl > 0 /\ attempts' = NoAttempts /\ UNCHANGED lock
       \/ lock.ttl > 0 /\ lock' = NoLock /\ UNCHANGED attempts
    /\ UNCHANGED <<call, answer>>

Continue(r) ==
    \/ CheckRead(r) \/ CheckDelete(r) \/ Verify(r)
    \/ FailGet(r) \/ FailSet(r) \/ FailLock(r) \/ FailClear(r)
    \/ SuccessAttempts(r) \/ SuccessLock(r) \/ Create(r)

Step == (\E r \in Reqs : CheckGet(r) \/ Continue(r) \/ Abort(r)) \/ Tick \/ Forget

\* misses and span only record the run.  The slate is clean when no count is
\* stored and none is on its way.
Missed(r) == call[r].pc = "verify" /\ call'[r].pc = "f_get"

Clean == attempts.ttl = 0 /\ \A r \in Reqs : call[r].pc \notin {"f_get", "f_set", "f_lock"}

Remember ==
    /\ misses' = IF Clean' THEN 0
                 ELSE IF \E r \in Reqs : Missed(r) THEN Bump(misses) ELSE misses
    /\ span' = IF Clean' \/ misses = 0 THEN 0
               ELSE IF Tick /\ span < Window THEN span + 1 ELSE span

Next == Step /\ Remember

Spec == Init /\ [][Next]_vars

\* The event loop resumes every attempt whose command was answered, and time
\* passes.  Nothing obliges a client to log in.
Fairness == WF_vars(Tick /\ Remember) /\ \A r \in Reqs : WF_vars(Continue(r) /\ Remember)

FairSpec == Spec /\ Fairness

(***************************************************************************)
(* Properties.                                                             *)
(***************************************************************************)
\* Counts lose wrong passwords and never invent one: what is stored, or about to
\* be, is short of the wrong passwords given by those still to be counted.
Uncounted == {r \in Reqs : call[r].pc = "f_get"}

CountsMisses ==
    /\ misses < MaxAttempts =>
          /\ attempts.n + Cardinality(Uncounted) <= misses
          /\ \A r \in Reqs : call[r].pc = "f_set"
                               => call[r].n + Cardinality(Uncounted) <= misses
    /\ \A r \in Reqs : call[r].pc = "f_lock" => misses = MaxAttempts

\* The key of a lock lasts at least to the deadline it holds, which a blocked
\* client is told (Retry-After).
LockOutlasts == lock.left <= lock.ttl

\* The inductive invariant of the throttle.
LoginInv ==
    /\ TypeOK
    /\ attempts.ttl = 0 => attempts.n = 0
    /\ CountsMisses
    /\ LockOutlasts

Locked == lock.ttl > 0 /\ lock.left > 0

Engages == ~Locked /\ Locked'

\* However the attempts race, an account is locked only after MaxAttempts wrong
\* passwords since no count was stored or on its way.
LockHasCause == [][Engages => misses = MaxAttempts]_vars

\* A lock lifts, whoever goes on trying, unless Redis lets attempts through it again
\* and again: check counts an account as unlocked when it cannot read or delete the lock.
LetsThrough == \E r \in Reqs : lock'.ttl > 0 /\ call[r].pc # "verify" /\ call'[r].pc = "verify"

LockLifts == <>[][~LetsThrough]_vars => (Locked ~> ~Locked)

\* Persistent guessing locks the account again and again, however the attempts race:
\* each may write back a count it read long before, yet while the count is neither
\* cleared nor left to expire, and Redis does what it is told, the lowest count at
\* hand keeps rising.
Cleared == \E r \in Reqs : SuccessAttempts(r) \/ Abort(r)
Expires == Tick /\ attempts.ttl = 1
Rejects == \/ Forget
           \/ \E r \in Reqs : /\ call[r].pc \in {"f_get", "f_set", "f_lock"}
                              /\ call'[r].pc = "idle"
                              /\ call[r].pc = "f_set" => LockDue(call[r].n) \/ attempts'.n # call[r].n

GuessingLocks ==
    <>[][~Expires /\ ~Cleared /\ ~Rejects]_vars /\ []<><<\E r \in Reqs : FailSet(r)>>_vars
        => []<>(lock.ttl > 0)

Quiet == \A r \in Reqs : call[r].pc = "idle"

\* "Maximum failed login attempts for a single email before the account is locked
\* out" (auth-config.ts:35): when no attempt is in flight, the wrong passwords of
\* the window that have not led to a lock are fewer.
FailuresLock == Quiet => misses < MaxAttempts \/ span >= Window

\* "How long a lockout lasts once maxLoginAttempts is reached" (auth-config.ts:40):
\* the deadline of a lock that holds comes nearer by the passing of time alone, unless
\* the owner logs in, or Redis loses the key, or one of two races takes it back.  An
\* attempt that found an earlier lock past deletes its successor (login-throttle.ts:59);
\* and of two failures that both reach maxLoginAttempts, the one that computed its
\* deadline first may write it last (84-85), when it is nearer, or past already.
SetsBack(r) ==
    \/ SuccessLock(r)
    \/ CheckDelete(r) /\ call[r].left = 0
    \/ FailLock(r) /\ call[r].left < lock.left

LockLasts ==
    [][Locked /\ lock'.left < lock.left => \/ Tick /\ lock'.left = lock.left - 1
                                          \/ Forget
                                          \/ \E r \in Reqs : SetsBack(r)]_vars
===============================================================================
