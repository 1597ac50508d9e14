---------------------------- MODULE Holder_proofs ----------------------------
(***************************************************************************)
(* Proofs of the properties of Holder, for every catalog, statement,       *)
(* context and identity.                                                   *)
(***************************************************************************)
EXTENDS Holder, TLAPS

\* A statement on every resource matches whatever resource a request names.
LEMMA EverythingMatches ==
  ASSUME NEW s, NEW a, NEW context, Everything \in ResourcesOf(s),
         \E p \in s.actions : matchesActionPattern(p, a)
  PROVE  matchesTarget(s, a, context)
  BY DEF matchesTarget, matchesResourcePattern, Everything

\* A matching deny decides, whatever else is held.
LEMMA DenyDecides ==
  ASSUME NEW i, NEW S, NEW s \in S, NEW a, NEW context,
         i.type # "ROOT", Denies(s, i, a, context)
  PROVE  ~Allowed(i, S, a, context)
  BY DEF Allowed, evaluate

\* What evaluate allows, in terms of the statements.
LEMMA AllowedMeans ==
  ASSUME NEW i, NEW S, NEW a, NEW context
  PROVE  Allowed(i, S, a, context) <=>
           /\ i.status = "ACTIVE"
           /\ \/ i.type = "ROOT"
              \/ /\ \A s \in S : ~Denies(s, i, a, context)
                 /\ \E s \in S : Allows(s, i, a, context)
  BY DEF Allowed, evaluate, SomeAllows

(***************************************************************************)
(* A deny on every resource is final (policy-engine.ts:217-226): neither   *)
(* its conditions nor another statement gets past it.                      *)
(***************************************************************************)
THEOREM DenyWins == Spec => []DenyIsFinal
<1>1. DenyIsFinal
  BY EverythingMatches, DenyDecides DEF DenyIsFinal, May, Denies
<1>2. QED
  BY <1>1, PTL

\* The identity and what it holds keep their types.
LEMMA TypeInvariant == Spec => []TypeOK
<1>1. Init => TypeOK
  BY DEF Init, TypeOK, Identities
<1>2. TypeOK /\ [Next]_vars => TypeOK'
  <2> SUFFICES ASSUME TypeOK, [Next]_vars PROVE TypeOK'
    OBVIOUS
  <2>1. CASE \E s \in Statements : Attach(s) \/ Detach(s)
    BY <2>1 DEF TypeOK, Attach, Detach
  <2>2. ASSUME NEW status \in {"ACTIVE", "SUSPENDED", "DISABLED"}, SetStatus(status)
        PROVE  TypeOK'
    BY <2>2 DEF TypeOK, SetStatus, Identities
  <2>3. QED
    BY <2>1, <2>2 DEF Next, TypeOK, vars
<1>3. QED
  BY <1>1, <1>2, PTL DEF Spec

\* What decides between two sets of statements
LEMMA Swing ==
  ASSUME NEW i, NEW S, NEW T, NEW a, NEW context,
         Allowed(i, T, a, context), ~Allowed(i, S, a, context)
  PROVE  Gives(S, T)
<1>1. i.status = "ACTIVE" /\ i.type # "ROOT" /\ \A s \in T : ~Denies(s, i, a, context)
  BY AllowedMeans
<1>2. CASE \E s \in S : Denies(s, i, a, context)
  BY <1>1, <1>2 DEF Denies, Gives
<1>3. CASE ~\E s \in S : Denies(s, i, a, context)
  <2>1. PICK s \in T : Allows(s, i, a, context)
    BY <1>1, AllowedMeans
  <2>2. s \notin S /\ s.effect = "allow"
    BY <1>1, <1>3, <2>1, AllowedMeans DEF Allows
  <2>3. QED
    BY <2>1, <2>2 DEF Gives
<1>4. QED
  BY <1>2, <1>3

(***************************************************************************)
(* An ACTIVE identity gains an action only from an allow it is given or a  *)
(* deny it is rid of, and loses one only the other way round: the scan     *)
(* (policy-engine.ts:217-253) looks at every deny, and stops at no allow   *)
(* that fails.                                                             *)
(***************************************************************************)
THEOREM ChangeNeedsCause == Spec => ChangeHasCause
<1>1. ASSUME TypeOK, [Next]_vars, identity.status = "ACTIVE", identity'.status = "ACTIVE",
             NEW a \in Actions, NEW context \in Contexts
      PROVE  /\ ~May(a, context) /\ May(a, context)' => Gives(held, held')
             /\ May(a, context) /\ ~May(a, context)' => Gives(held', held)
  <2>1. identity' = identity
    <3>1. ASSUME NEW status \in {"ACTIVE", "SUSPENDED", "DISABLED"}, SetStatus(status)
          PROVE  identity' = identity
      <4>1. identity' = [identity EXCEPT !.status = status] /\ identity \in Identities
        BY <1>1, <3>1 DEF SetStatus, TypeOK
      <4>2. status = "ACTIVE"
        BY <1>1, <4>1 DEF Identities
      <4>3. QED
        BY <1>1, <4>1, <4>2 DEF Identities
    <3>2. QED
      BY <1>1, <3>1 DEF Next, Attach, Detach, vars
  <2>2. /\ May(a, context) <=> Allowed(identity, held, a, context)
        /\ May(a, context)' <=> Allowed(identity, held', a, context)
    BY <2>1 DEF May
  <2>3. QED
    BY <2>2, Swing
<1>2. TypeOK /\ [Next]_vars =>
        [identity.status = "ACTIVE" /\ identity'.status = "ACTIVE" =>
          \A a \in Actions, context \in Contexts :
              /\ ~May(a, context) /\ May(a, context)' => Gives(held, held')
              /\ May(a, context) /\ ~May(a, context)' => Gives(held', held)]_vars
  BY <1>1
<1>3. QED
  BY <1>2, TypeInvariant, PTL DEF Spec, ChangeHasCause

(***************************************************************************)
(* What plain statements allow depends on the context only through the     *)
(* ownership gate of the :self actions (policy-engine.ts:242-246).         *)
(***************************************************************************)
LEMMA PlainIgnoresContext ==
  ASSUME NEW i, NEW S, \A s \in S : Plain(s), NEW a, NEW c, NEW d,
         a \in SelfActions => c.owner = d.owner,
         Allowed(i, S, a, c)
  PROVE  Allowed(i, S, a, d)
<1>1. ASSUME NEW s \in S
      PROVE  /\ matchesTarget(s, a, c) <=> matchesTarget(s, a, d)
             /\ Denies(s, i, a, c) <=> Denies(s, i, a, d)
             /\ Allows(s, i, a, c) => Allows(s, i, a, d)
  <2>1. Everything \in ResourcesOf(s) /\ s.conditions = {}
    BY DEF Plain
  <2>2. matchesTarget(s, a, c) <=> matchesTarget(s, a, d)
    BY <2>1, EverythingMatches DEF matchesTarget
  <2>3. evaluateConditions(s, i, d)
    BY <2>1 DEF evaluateConditions
  <2>4. QED
    BY <2>2, <2>3 DEF Denies, Allows, OwnsTarget
<1>2. QED
  BY <1>1, AllowedMeans

(***************************************************************************)
(* For a holder of plain statements computeEffectivePermissions            *)
(* (policy-engine.ts:288-314) lists exactly what it may do on its own.     *)
(***************************************************************************)
THEOREM HintExact == Spec => []HintIsExact
<1>1. ASSUME TypeOK, \A s \in held : Plain(s)
      PROVE  computeEffectivePermissions(identity, held) =
                {a \in Catalog : \A context \in Contexts :
                    context.owner = identity.id => May(a, context)}
        \/ identity.status # "ACTIVE"
  <2>1. identity.id \in Owners
    BY <1>1, HolderConstants DEF TypeOK, Identities
  <2>2. /\ DiscoveryContext(identity) \in Contexts
        /\ DiscoveryContext(identity).owner = identity.id
    BY <2>1 DEF DiscoveryContext, HintContext, NoContext, Contexts
  <2>3. ASSUME NEW a, NEW context \in Contexts, context.owner = identity.id,
               Allowed(identity, held, a, DiscoveryContext(identity))
        PROVE  May(a, context)
    BY <1>1, <2>2, <2>3, PlainIgnoresContext DEF May
  <2>4. ASSUME identity.type = "ROOT", identity.status = "ACTIVE", NEW a, NEW context
        PROVE  May(a, context)
    BY <2>4, AllowedMeans DEF May
  <2>5. QED
    BY <2>2, <2>3, <2>4 DEF computeEffectivePermissions, May
<1>2. TypeOK => HintIsExact
  BY <1>1 DEF HintIsExact
<1>3. QED
  BY <1>2, TypeInvariant, PTL

(***************************************************************************)
(* A holder of plain statements whom findUnheldActions                     *)
(* (policy-engine.ts:161-187) lets grant a pattern may do, in every        *)
(* context, all that the pattern confers in the catalog.                   *)
(***************************************************************************)
THEOREM GrantsAreHeld == Spec => []GrantIsHeld
<1>1. ASSUME \A s \in held : Plain(s), NEW p, findUnheldActions(identity, held, {p}) = {},
             NEW a \in Catalog, NEW context \in Contexts, matchesActionPattern(p, a)
      PROVE  May(a, context)
  <2>1. ~Unheld(identity, held, p)
    BY <1>1 DEF findUnheldActions
  <2>2. a \in Probes(p)
    BY <1>1 DEF Probes, matchesActionPattern
  <2>3. Allowed(identity, held, a, NoContext)
    BY <2>1, <2>2 DEF Unheld
  <2>4. CASE identity.type = "ROOT"
    BY <2>3, <2>4, AllowedMeans DEF May
  <2>5. CASE identity.type # "ROOT"
    <3>1. a \notin SelfActions
      BY <2>3, <2>5, AllowedMeans DEF Allows, OwnsTarget, NoContext
    <3>2. QED
      BY <1>1, <2>3, <3>1, PlainIgnoresContext DEF May
  <2>6. QED
    BY <2>4, <2>5
<1>2. GrantIsHeld
  BY <1>1 DEF GrantIsHeld
<1>3. QED
  BY <1>2, PTL
====
