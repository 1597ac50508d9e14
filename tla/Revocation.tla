------------------------------ MODULE Revocation ------------------------------
(***************************************************************************)
(* What is left of "suspending or disabling an account must immediately    *)
(* revoke all associated active sessions in PostgreSQL and Redis"          *)
(* (skills/security/SKILL.md:18), which SuspensionEndsSessions shows to be *)
(* too much: Sessions with a record of the sessions whose revocation, by   *)
(* logout or by a status, was disturbed.                                   *)
(***************************************************************************)
EXTENDS Sessions

VARIABLE disturbed

\* A call on its way to the UPDATE that revokes the session
Suspends(c, u) == c.pc \in {"s_select", "s_delete"} /\ c.user = u
Revokes(c, t, u) == (c.pc = "r_update" /\ c.tok = t) \/ Suspends(c, u)

\* One on its way to a row or a copy of the session
Refills(c, t) == c.tok = t /\ c.pc \in {"c_insert", "c_store", "v_query", "v_found", "v_store"}

\* A revocation meets a refill, ends early, or has its DEL rejected with the copy there.
Meets(t) == \E r, q \in Reqs : Revokes(call[r], t, owner[t]) /\ Refills(call[q], t)
Fails(t) == \E r \in Reqs : Revokes(call[r], t, owner[t]) /\ answer'[r] = "error"
Leaves(t) == \E r \in Reqs : t \in call[r].todo \ call'[r].todo /\ cache'[t].ttl > 0

Watch == disturbed' = disturbed \cup {t \in Tokens : Meets(t)' \/ Fails(t) \/ Leaves(t)}

RevocationSpec == disturbed = {} /\ Init /\ [][Next /\ Watch]_<<vars, disturbed>>
FairRevocationSpec == RevocationSpec /\ Fairness

\* Of a session whose revocations were not disturbed, nothing is left once it is
\* revoked, and while its user is barred, somebody is at work on it: refills that
\* overlap with a revocation and failures are the only reasons for
\* SuspensionEndsSessions to fail.
RevocationIsWhole ==
    \A t \in Tokens \ disturbed :
        /\ row[t] = "revoked" => cache[t].ttl = 0
        /\ row[t] = "active" /\ Barred(status[owner[t]])
              => \E r \in Reqs : Suspends(call[r], owner[t])
===============================================================================
