------------------------------- MODULE Counting -------------------------------
(***************************************************************************)
(* What is left of "Maximum failed login attempts for a single email       *)
(* before the account is locked out" (auth-config.ts:35), which            *)
(* FailuresLock shows to be too much: Login with a record of whether,      *)
(* since the slate was clean, something got in the way of a failure that   *)
(* was being recorded.                                                     *)
(***************************************************************************)
EXTENDS Login

VARIABLE disturbed

\* A wrong password was given, and recordFailure has not returned.
Recording(c) == c.pc \in {"f_get", "f_set", "f_lock", "f_clear"}

\* Two failures are recorded at once, one is not recorded to the end, or the count
\* goes (it expires, is lost, or a login clears it) just before it is read.
Overlaps == \E r, q \in Reqs : r # q /\ Recording(call[r]) /\ Recording(call[q])
Stops == \E r \in Reqs : /\ Recording(call[r]) /\ call'[r].pc = "idle"
                         /\ call[r].pc = "f_set" => attempts'.n # call[r].n \/ LockDue(call[r].n)
Vanishes == attempts.ttl > 0 /\ attempts'.ttl = 0 /\ \E r \in Reqs : call[r].pc = "f_get"

Watch == disturbed' = (~Clean' /\ (disturbed \/ Overlaps' \/ Stops \/ Vanishes))

CountingSpec == disturbed = FALSE /\ Init /\ [][Next /\ Watch]_<<vars, disturbed>>
FairCountingSpec == CountingSpec /\ Fairness

\* Whoever else is checked, locked out, let in or given up on meanwhile, between
\* undisturbed recordings the count is the number of wrong passwords, and no account
\* has had MaxAttempts of them without being locked: the three disturbances are the
\* only reasons for FailuresLock to fail.
CountIsExact ==
    ~disturbed /\ (\A r \in Reqs : ~Recording(call[r]))
        => attempts.n = misses /\ misses < MaxAttempts
===============================================================================
