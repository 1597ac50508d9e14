---------------------------- MODULE SessionContract ----------------------------
(***************************************************************************)
(* What a session promises, whatever stores it: it is issued once, to one  *)
(* user, and it ends once.  A session is live while some request carrying  *)
(* its token may still be answered as its user, and over when none can be, *)
(* now or later.                                                           *)
(***************************************************************************)
CONSTANTS Users, Tokens, Nobody

VARIABLES phase, owner

vars == <<phase, owner>>

Phases == {"unissued", "live", "over"}

Init ==
    /\ phase = [t \in Tokens |-> "unissued"]
    /\ owner = [t \in Tokens |-> Nobody]

\* A token is generated for a user.
Issue(t, u) ==
    /\ phase[t] = "unissued"
    /\ phase' = [phase EXCEPT ![t] = "live"]
    /\ owner' = [owner EXCEPT ![t] = u]

\* Sessions end, several at once when their time or their user's is up.
End(S) ==
    /\ \A t \in S : phase[t] = "live"
    /\ phase' = [t \in Tokens |-> IF t \in S THEN "over" ELSE phase[t]]
    /\ UNCHANGED owner

Next ==
    \/ \E t \in Tokens, u \in Users : Issue(t, u)
    \/ \E S \in SUBSET Tokens : End(S)

Spec == Init /\ [][Next]_vars

\* Every session ends for good, used or not, revoked or not.
EverySessionEnds ==
    \A t \in Tokens : phase[t] = "live" ~> [](phase[t] = "over")
===============================================================================
