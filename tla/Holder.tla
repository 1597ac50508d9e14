-------------------------------- MODULE Holder --------------------------------
(***************************************************************************)
(* One identity and the statements that reach it, as administrators attach *)
(* and detach policies and change its status: what PolicyEngine decides of *)
(* it changes only as it should.                                           *)
(***************************************************************************)
EXTENDS PolicyEngine

CONSTANTS
    Ids, Types,     \* users.id and users.identityType
    Statements      \* the statements the stored policies are made of

ASSUME HolderConstants ==
    /\ Ids \subseteq Owners
    /\ Types \subseteq {"ROOT", "EXTERNAL_USER"}
    /\ \A s \in Statements : s.effect \in {"allow", "deny"}

VARIABLES
    identity,
    held            \* what getUserStatements returns for it

vars == <<identity, held>>

Identities == [id : Ids, type : Types, status : {"ACTIVE", "SUSPENDED", "DISABLED"}]

TypeOK ==
    /\ identity \in Identities
    /\ held \subseteq Statements

Init ==
    /\ identity \in [id : Ids, type : Types, status : {"ACTIVE"}]
    /\ held = {}

\* A policy is attached to the identity, or to a role or a group it has.
Attach(s) ==
    /\ held' = held \cup {s}
    /\ UNCHANGED identity

Detach(s) ==
    /\ s \in held
    /\ held' = held \ {s}
    /\ UNCHANGED identity

\* A ROOT identity is never suspended or disabled.
SetStatus(status) ==
    /\ status = "ACTIVE" \/ identity.type # "ROOT"
    /\ identity' = [identity EXCEPT !.status = status]
    /\ UNCHANGED held

Next ==
    \/ \E s \in Statements : Attach(s) \/ Detach(s)
    \/ \E status \in {"ACTIVE", "SUSPENDED", "DISABLED"} : SetStatus(status)

Spec == Init /\ [][Next]_vars

(***************************************************************************)
(* Properties.                                                             *)
(***************************************************************************)
May(a, context) == Allowed(identity, held, a, context)

\* "a condition that fails to evaluate must never turn a denial into a grant"
\* (policy-engine.ts:220-221): a deny on every resource keeps its actions from the
\* identity in every context, whatever else it holds and whatever its conditions.
DenyIsFinal ==
    identity.type # "ROOT" =>
        \A s \in held : s.effect = "deny" /\ Everything \in ResourcesOf(s) =>
            \A a \in Actions, context \in Contexts :
                (\E p \in s.actions : matchesActionPattern(p, a)) => ~May(a, context)

\* An allow given, or a deny taken back, between two sets of statements
Gives(S, T) == (\E s \in T \ S : s.effect = "allow") \/ (\E s \in S \ T : s.effect = "deny")

\* What an ACTIVE identity may do changes only for the right cause, in every context:
\* a gain takes an allow it is given or a deny it is rid of, a loss the reverse.  No
\* allow shadows another, although the scan stops at the first that decides.
ChangeHasCause ==
    [][identity.status = "ACTIVE" /\ identity'.status = "ACTIVE" =>
          \A a \in Actions, context \in Contexts :
              /\ ~May(a, context) /\ May(a, context)' => Gives(held, held')
              /\ May(a, context) /\ ~May(a, context)' => Gives(held', held)]_vars

\* The statements whose effect depends on the action alone
Plain(s) == s.conditions = {} /\ Everything \in ResourcesOf(s)

\* For a holder of plain statements the capability hint is exact: it lists what
\* every route would allow the identity on what is its own.
HintIsExact ==
    (\A s \in held : Plain(s)) /\ identity.status = "ACTIVE" =>
        computeEffectivePermissions(identity, held) =
            {a \in Catalog : \A context \in Contexts :
                context.owner = identity.id => May(a, context)}

\* "Permission to administer policies is not permission to award arbitrary
\* authority" (iam-service.ts:112): whatever pattern findUnheldActions lets a holder
\* of plain statements grant, the holder may do all that it confers in the catalog,
\* in every context it may be used in.
GrantIsHeld ==
    (\A s \in held : Plain(s)) =>
        \A p \in UNION {s.actions : s \in Statements} :
            findUnheldActions(identity, held, {p}) = {} =>
                \A a \in Catalog, context \in Contexts :
                    matchesActionPattern(p, a) => May(a, context)
===============================================================================
