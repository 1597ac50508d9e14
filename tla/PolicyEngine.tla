----------------------------- MODULE PolicyEngine -----------------------------
(***************************************************************************)
(* The authorization decision: PolicyEngine and its matchers               *)
(* (packages/iam/src/policy/policy-engine.ts), pure functions of an        *)
(* identity, the statements that reach it, an action and a context.        *)
(*                                                                         *)
(* Patterns are kept as what they match: an action belongs to the          *)
(* namespace before its first colon, and a resource pattern that ends in a *)
(* star stands for the set of resources it is a prefix of.  evaluate scans *)
(* a list of statements; nothing in it depends on their order or number,   *)
(* so the statements form a set.                                           *)
(***************************************************************************)
CONSTANTS
    Actions,        \* every action a route asks for
    Catalog,        \* the actions of the permission catalog
    SelfActions,    \* the actions that end in ":self"
    Namespace,      \* the namespace of each action
    Resources,      \* resource identifiers
    Owners,         \* what resourceOwnerId can be, user ids among them
    Keys, Values,   \* attribute keys, and what they are compared with
    Truthy,         \* the values Boolean() maps to true
    Nothing         \* undefined, or a list or a map that is not there

ASSUME PolicyConstants ==
    /\ Catalog \subseteq Actions
    /\ SelfActions \subseteq Actions
    /\ Truthy \subseteq Values
    /\ Nothing \notin Resources \cup Owners \cup Values

(***************************************************************************)
(* identity: id, status and type.  context: resourceOwnerId, resourceId    *)
(* and the attributes; a missing context is one where all are undefined.   *)
(***************************************************************************)
NoContext == [owner |-> Nothing, resource |-> Nothing,
              attributes |-> [k \in Keys |-> Nothing]]

Contexts == [owner : Owners \cup {Nothing}, resource : Resources \cup {Nothing},
             attributes : [Keys -> Values \cup {Nothing}]]

(***************************************************************************)
(* Matching.  A pattern is "*", "ns:*", or an exact name; a stray pattern   *)
(* has its star elsewhere and matches no action.                           *)
(***************************************************************************)
Everything == [kind |-> "all"]
AllOf(ns) == [kind |-> "namespace", of |-> ns]
Exactly(x) == [kind |-> "exact", of |-> x]
StartingWith(S) == [kind |-> "prefix", of |-> S]
Stray == [kind |-> "stray"]

matchesActionPattern(p, a) ==
    \/ p.kind = "all"
    \/ p.kind = "exact" /\ p.of = a
    \/ p.kind = "namespace" /\ p.of = Namespace[a]

\* A request that names no resource is matched by "*" alone.
matchesResourcePattern(p, resource) ==
    \/ p.kind = "all"
    \/ /\ resource # Nothing
       /\ \/ p.kind = "exact" /\ p.of = resource
          \/ p.kind = "prefix" /\ resource \in p.of

\* resources ?? ['*']
ResourcesOf(s) == IF s.resources = Nothing THEN {Everything} ELSE s.resources

matchesTarget(s, a, context) ==
    /\ \E p \in s.actions : matchesActionPattern(p, a)
    /\ \E p \in ResourcesOf(s) : matchesResourcePattern(p, context.resource)

(***************************************************************************)
(* Conditions: a set of clauses, operator by operator and key by key.  An  *)
(* operator that is not supported, or whose operand is not an object, is   *)
(* the clause "unknown".  No value is the text "undefined".                *)
(***************************************************************************)
OwnerKey == "resourceOwnerId"
Self == "@identity"

Satisfied(clause, identity, context) ==
    LET actual == IF clause.key = OwnerKey THEN Nothing
                                           ELSE context.attributes[clause.key]
        owner == IF clause.key = OwnerKey THEN context.owner ELSE actual
        target == IF clause.value = Self THEN identity.id ELSE clause.value
    IN  \/ clause.op = "StringEquals" /\ actual = clause.value
        \/ clause.op = "StringNotEquals" /\ actual # clause.value
        \/ clause.op = "Bool" /\ (actual \in Truthy <=> clause.value \in Truthy)
        \/ clause.op = "OwnerEquals" /\ owner # Nothing /\ owner = target

evaluateConditions(s, identity, context) ==
    \A clause \in s.conditions : Satisfied(clause, identity, context)

(***************************************************************************)
(* evaluate: the first rule that applies decides.                          *)
(***************************************************************************)
DeniesWhen(s, identity, a, context) ==      \* variant: conditions excuse a deny
    /\ s.effect = "deny"
    /\ matchesTarget(s, a, context)
    /\ evaluateConditions(s, identity, context)

Denies(s, identity, a, context) ==
    /\ s.effect = "deny"
    /\ matchesTarget(s, a, context)

\* A :self action needs an owner in the context, and the identity to be it.
OwnsTarget(identity, a, context) ==
    a \in SelfActions => context.owner # Nothing /\ context.owner = identity.id

Allows(s, identity, a, context) ==
    /\ s.effect = "allow"
    /\ matchesTarget(s, a, context)
    /\ OwnsTarget(identity, a, context)
    /\ evaluateConditions(s, identity, context)

FirstDecides(S, identity, a, context) ==    \* variant: a failed allow ends the scan
    /\ \E s \in S : Allows(s, identity, a, context)
    /\ \A s \in S : s.effect = "allow" /\ matchesTarget(s, a, context)
                        => Allows(s, identity, a, context)

SomeAllows(S, identity, a, context) == \E s \in S : Allows(s, identity, a, context)

evaluate(identity, S, a, context) ==
    IF identity.status # "ACTIVE" THEN "barred"
    ELSE IF identity.type = "ROOT" THEN "root"
    ELSE IF \E s \in S : Denies(s, identity, a, context) THEN "denied"
    ELSE IF SomeAllows(S, identity, a, context) THEN "allowed"
    ELSE "implicit"

Allowed(identity, S, a, context) ==
    evaluate(identity, S, a, context) \in {"root", "allowed"}

(***************************************************************************)
(* The two functions built on it.                                          *)
(***************************************************************************)
\* "Assume self-context for permission discovery"
HintContext(identity) == [NoContext EXCEPT !.owner = identity.id]
BareContext(identity) == NoContext          \* variant: no self-context

DiscoveryContext(identity) == HintContext(identity)

computeEffectivePermissions(identity, S) ==
    {a \in Catalog : \/ identity.type = "ROOT"
                     \/ Allowed(identity, S, a, DiscoveryContext(identity))}

\* A granted pattern with a star stands for all it matches in the catalog.
Probes(p) == IF p.kind = "exact" THEN {p.of}
             ELSE {a \in Catalog : matchesActionPattern(p, a)}

UnheldInFull(identity, S, p) ==             \* variant: every instead of some
    \A a \in Probes(p) : ~Allowed(identity, S, a, NoContext)

Unheld(identity, S, p) ==
    \/ Probes(p) = {}
    \/ \E a \in Probes(p) : ~Allowed(identity, S, a, NoContext)

findUnheldActions(identity, S, granted) ==
    {p \in granted : Unheld(identity, S, p)}
===============================================================================
