------------------------------- MODULE Iam_proofs --------------------------------
(***************************************************************************)
(* For any users, records, statements and requests: links never dangle,    *)
(* system records stand, a deny that stands is obeyed, and what nobody     *)
(* disturbs (a read, a grant, a creation, an update) is exact.             *)
(*                                                                         *)
(* What is said of a request is said of its record and of the paths that   *)
(* have stood since it began, so that a step has to be looked at only      *)
(* where it changes either.                                                *)
(***************************************************************************)
EXTENDS Iam, TLAPS

Bodies == (SUBSET Policies) \cup (SUBSET Statements)
CallType == [pc : Steps, op : Ops, asks : Actions \cup {Nothing}, actor : Users \cup {Nobody},
             of : Users \cup {Nobody}, on : Records \cup {Nobody}, body : Bodies, todo : Bodies,
             found : BOOLEAN, policy : Policies \cup {Nobody},
             granted : SUBSET UNION {s.actions : s \in Statements},
             why : {"guard", "grant", "inspect"}, reach : SUBSET Policies,
             shown : SUBSET Catalog]

TablesOK ==
    /\ row \in [Records -> {"unused", "live", "deleted"}]
    /\ content \in [Policies -> SUBSET Statements]
    /\ LinksHold /\ SystemIsLive

Active(r) == r.pc \notin Over \cup {"idle"}
AtGuard(r) == r.pc \in Reading /\ r.why = "guard"
ForGrant(r) == r.pc \in Granting \/ (r.pc \in Reading /\ r.why = "grant")
LetIn(r) ==
    \/ r.pc \in Granting \cup Writing \cup {"ok", "missing"}
    \/ r.pc \in Reading /\ r.why # "guard"

\* Which operation is where
Ordered(r) ==
    /\ r.pc = "w_insert" => r.op = "create"
    /\ r.pc = "w_protect" => r.op \in {"update", "rename", "delete"}
    /\ r.pc = "w_rename" => r.op \in {"update", "rename"}
    /\ r.pc = "w_clear" => r.op = "update"
    /\ r.pc = "w_fill" => r.op \in {"create", "update"} /\ r.on \in Policies
    /\ r.pc = "w_delete" => r.op = "delete"
    /\ ForGrant(r) => \/ r.op = "link" /\ r.on \in Policies
                      \/ r.op \in {"create", "update"} /\ r.on \in Roles \cup Groups

\* What it is about
About(r) ==
    /\ Active(r) => r.actor \in Users
    /\ Active(r) /\ r.op \in {"link", "unlink"} => r.of \in Users /\ r.on \in Records
    /\ Active(r) /\ r.op \in {"create", "update", "rename", "delete"} => r.on \in Records
    /\ Active(r) /\ r.op = "link" /\ r.on \in Policies => r.todo \subseteq Policies
    /\ Active(r) /\ r.op \in {"create", "update"} =>
          r.todo \subseteq IF r.on \in Policies THEN Statements ELSE Policies
    /\ ForGrant(r) /\ r.pc # "a_actor" => r.policy \in Policies

\* What it edits is no system record.
Spares(r) ==
    \/ r.op = "create" /\ r.pc # "idle"
    \/ r.op \in {"update", "rename", "delete"} /\ r.pc \in Editing \cup Granting
    \/ r.op = "update" /\ r.pc \in Reading /\ r.why = "grant"
    => r.on \in Records \ System

RecordOK(r) == Ordered(r) /\ About(r) /\ Spares(r)

\* The statements that have stood are among those that the guard will have read.
Reached(r, S) == AtGuard(r) =>
    \A path \in S :
        /\ r.pc # "q_direct" /\ path.via = Nobody => path.policy \in r.reach
        /\ r.pc \in {"q_groups", "q_statements"} /\ path.via \notin Groups
               => path.policy \in r.reach
        /\ r.pc = "q_statements" => path.policy \in r.reach

Obeys(r, S) == LetIn(r) /\ r.actor \in Users \ Roots =>
    \A path \in S : ~Denies(path.statement, Subject(r.actor), r.asks, NoContext)

Standing(r, S) == AtGuard(r) => \A path \in S : Applies(r.actor, path)

RequestOK(r, S) == RecordOK(r) /\ Reached(r, S) /\ Obeys(r, S)

IInv ==
    /\ TablesOK
    /\ call \in [Calls -> CallType]
    /\ calm \in [Calls -> SUBSET {"call", "read"}] /\ stood \in [Calls -> SUBSET Paths]
    /\ \A c \in Calls : RequestOK(call[c], stood[c]) /\ Standing(call[c], stood[c])

LEMMA IInvImplies == ASSUME IInv PROVE IamInv /\ StandingDenyHolds
<1>1. TypeOK
  BY DEF IInv, TypeOK, TablesOK, CallsOK, CallType, Bodies
<1>2. \A c \in Calls : Edits(c) => call[c].on \in Records \ System
  BY DEF IInv, RequestOK, RecordOK, Spares, Edits
<1>3. StandingDenyHolds
  BY DEF IInv, RequestOK, Obeys, LetIn, StandingDenyHolds, Authorised
<1> QED BY <1>1, <1>2, <1>3 DEF IInv, TablesOK, IamInv, EditsAreOfOthers

(***************************************************************************)
(* The forms that the record of a request takes.                           *)
(***************************************************************************)
Moved(r, pc) == [r EXCEPT !.pc = pc]
Reaching(r, pc, reach) == [r EXCEPT !.pc = pc, !.reach = reach]
Shown(r, shown) == [r EXCEPT !.pc = "ok", !.shown = shown]
Looking(r, why) == [r EXCEPT !.pc = "q_direct", !.why = why, !.reach = {}]
Granted(r, granted) == [r EXCEPT !.granted = granted]
Choosing(r, p, pc) == [r EXCEPT !.policy = p, !.pc = pc]
Having(r, todo, pc) == [r EXCEPT !.todo = todo, !.pc = pc]
Finding(r, found, pc) == [r EXCEPT !.found = found, !.pc = pc]

Same(r, s) == /\ s.op = r.op /\ s.asks = r.asks /\ s.actor = r.actor
              /\ s.of = r.of /\ s.on = r.on

LEMMA IdleRecord ==
    /\ Idle \in CallType /\ Idle.op = "inspect" /\ Idle.actor = Nobody /\ Idle.pc = "idle"
    /\ Idle.why = "guard"
BY DEF Idle, CallType, Bodies, Steps, Ops

LEMMA MovedRecord ==
    \A r \in CallType, pc \in Steps :
        /\ Moved(r, pc) \in CallType /\ Moved(r, pc).pc = pc /\ Same(r, Moved(r, pc))
        /\ Moved(r, pc).todo = r.todo /\ Moved(r, pc).policy = r.policy
        /\ Moved(r, pc).why = r.why /\ Moved(r, pc).reach = r.reach
BY DEF CallType, Moved, Same

LEMMA ReachingRecord ==
    \A r \in CallType, pc \in Steps, reach \in SUBSET Policies :
        LET to == Reaching(r, pc, reach)
        IN  /\ to \in CallType /\ to.pc = pc /\ Same(r, to)
            /\ to.todo = r.todo /\ to.policy = r.policy /\ to.why = r.why /\ to.reach = reach
<1> SUFFICES ASSUME NEW r \in CallType, NEW pc \in Steps, NEW reach \in SUBSET Policies
             PROVE  LET to == Reaching(r, pc, reach)
                    IN  /\ to \in CallType /\ to.pc = pc /\ Same(r, to)
                        /\ to.todo = r.todo /\ to.policy = r.policy /\ to.why = r.why /\ to.reach = reach
  OBVIOUS
<1>1. Reaching(r, pc, reach) \in CallType
  BY DEF CallType, Reaching
<1>2. Same(r, Reaching(r, pc, reach))
  BY DEF CallType, Reaching, Same
<1> QED BY <1>1, <1>2 DEF CallType, Reaching

\* One field set at a time
WithPc(r, x) == [r EXCEPT !.pc = x]
WithShown(r, x) == [r EXCEPT !.shown = x]
WithWhy(r, x) == [r EXCEPT !.why = x]
WithReach(r, x) == [r EXCEPT !.reach = x]

LEMMA SetPc == \A r \in CallType, x \in Steps : WithPc(r, x) \in CallType
BY DEF CallType, WithPc

LEMMA SetShown == \A r \in CallType, x \in SUBSET Catalog : WithShown(r, x) \in CallType
BY DEF CallType, WithShown

LEMMA SetWhy == \A r \in CallType, x \in {"grant", "inspect"} : WithWhy(r, x) \in CallType
BY DEF CallType, WithWhy

LEMMA SetReach == \A r \in CallType, x \in SUBSET Policies : WithReach(r, x) \in CallType
BY DEF CallType, WithReach

LEMMA ShownRecord ==
    \A r \in CallType, shown \in SUBSET Catalog :
        LET to == Shown(r, shown)
        IN  to \in CallType /\ to.pc = "ok" /\ Same(r, to)
<1> TAKE r \in CallType, shown \in SUBSET Catalog
<1>1. Shown(r, shown) = WithShown(WithPc(r, "ok"), shown)
  BY DEF Shown, WithShown, WithPc
<1>2. Shown(r, shown) \in CallType
  BY <1>1, SetPc, SetShown DEF Steps, Over
<1>3. Shown(r, shown).pc = "ok" /\ Same(r, Shown(r, shown))
  BY DEF CallType, Shown, Same
<1> QED BY <1>2, <1>3

LEMMA LookingRecord ==
    \A r \in CallType, why \in {"grant", "inspect"} :
        LET to == Looking(r, why)
        IN  /\ to \in CallType /\ to.pc = "q_direct" /\ to.why = why /\ Same(r, to)
            /\ to.todo = r.todo /\ to.policy = r.policy
<1> TAKE r \in CallType, why \in {"grant", "inspect"}
<1>1. Looking(r, why) = WithReach(WithWhy(WithPc(r, "q_direct"), why), {})
  BY DEF Looking, WithReach, WithWhy, WithPc
<1>2. Looking(r, why) \in CallType
  <2>1. "q_direct" \in Steps
    BY DEF Steps, Reading
  <2> QED BY <1>1, <2>1, SetPc, SetWhy, SetReach
<1>3. /\ Looking(r, why).pc = "q_direct" /\ Looking(r, why).why = why
      /\ Looking(r, why).todo = r.todo /\ Looking(r, why).policy = r.policy
  BY DEF CallType, Looking
<1>4. Same(r, Looking(r, why))
  BY DEF CallType, Looking, Same
<1> QED BY <1>2, <1>3, <1>4

LEMMA GrantedRecord ==
    \A r \in CallType, S \in SUBSET UNION {s.actions : s \in Statements} :
        LET to == Granted(r, S)
        IN  /\ to \in CallType /\ to.pc = r.pc /\ Same(r, to)
            /\ to.todo = r.todo /\ to.policy = r.policy /\ to.why = r.why
BY DEF CallType, Granted, Same

LEMMA ChoosingRecord ==
    \A r \in CallType, p \in Policies \cup {Nobody}, pc \in Steps :
        LET to == Choosing(r, p, pc)
        IN  /\ to \in CallType /\ to.pc = pc /\ Same(r, to)
            /\ to.policy = p /\ to.todo = r.todo
<1> SUFFICES ASSUME NEW r \in CallType, NEW p \in Policies \cup {Nobody}, NEW pc \in Steps
             PROVE  LET to == Choosing(r, p, pc)
                    IN  /\ to \in CallType /\ to.pc = pc /\ Same(r, to)
                        /\ to.policy = p /\ to.todo = r.todo
  OBVIOUS
<1>1. Choosing(r, p, pc) \in CallType
  BY DEF CallType, Choosing
<1>2. Same(r, Choosing(r, p, pc))
  BY DEF CallType, Choosing, Same
<1> QED BY <1>1, <1>2 DEF CallType, Choosing

LEMMA HavingRecord ==
    \A r \in CallType, todo \in Bodies, pc \in Steps :
        LET to == Having(r, todo, pc)
        IN  /\ to \in CallType /\ to.pc = pc /\ Same(r, to)
            /\ to.todo = todo /\ to.policy = r.policy /\ to.why = r.why
<1> SUFFICES ASSUME NEW r \in CallType, NEW todo \in Bodies, NEW pc \in Steps
             PROVE  LET to == Having(r, todo, pc)
                    IN  /\ to \in CallType /\ to.pc = pc /\ Same(r, to)
                        /\ to.todo = todo /\ to.policy = r.policy /\ to.why = r.why
  OBVIOUS
<1>1. Having(r, todo, pc) \in CallType
  BY DEF CallType, Having
<1>2. Same(r, Having(r, todo, pc))
  BY DEF CallType, Having, Same
<1> QED BY <1>1, <1>2 DEF CallType, Having

LEMMA FindingRecord ==
    \A r \in CallType, found \in BOOLEAN, pc \in Steps :
        LET to == Finding(r, found, pc)
        IN  /\ to \in CallType /\ to.pc = pc /\ Same(r, to)
            /\ to.todo = r.todo /\ to.policy = r.policy /\ to.why = r.why
<1> SUFFICES ASSUME NEW r \in CallType, NEW found \in BOOLEAN, NEW pc \in Steps
             PROVE  LET to == Finding(r, found, pc)
                    IN  /\ to \in CallType /\ to.pc = pc /\ Same(r, to)
                        /\ to.todo = r.todo /\ to.policy = r.policy /\ to.why = r.why
  OBVIOUS
<1>1. Finding(r, found, pc) \in CallType
  BY DEF CallType, Finding
<1>2. Same(r, Finding(r, found, pc))
  BY DEF CallType, Finding, Same
<1> QED BY <1>1, <1>2 DEF CallType, Finding

(***************************************************************************)
(* Frames.                                                                 *)
(***************************************************************************)
\* A query that changes no table
LEMMA ReadKeeps ==
    ASSUME IInv, NEW c \in Calls, NEW to \in CallType, Resume(c, to), UNCHANGED <<tables, stood>>,
           calm' \in [Calls -> SUBSET {"call", "read"}],
           RequestOK(to, stood[c]), Standing(to, stood[c])
    PROVE  IInv'
<1>1. call'[c] = to /\ \A d \in Calls \ {c} : call'[d] = call[d]
  BY DEF IInv, Resume
<1>2. call' \in [Calls -> CallType]
  BY DEF IInv, Resume
<1>3. \A d \in Calls : RequestOK(call'[d], stood'[d]) /\ Standing(call'[d], stood'[d])
  BY <1>1 DEF IInv
<1>4. TablesOK'
  BY DEF IInv, TablesOK, tables, LinksHold, SystemIsLive, Live
<1>5. \A u, path : Applies(u, path)' <=> Applies(u, path)
  BY DEF Applies, tables
<1> QED BY <1>2, <1>3, <1>4, <1>5 DEF IInv, Standing
\* A query that changes the tables.  Who was let in goes on as before; what stood
\* against the others is what stands now.
LEMMA WriteKeeps ==
    ASSUME IInv, NEW c \in Calls, NEW to \in CallType, Resume(c, to), Wrote(c), TablesOK',
           Same(call[c], to), LetIn(call[c]), ~AtGuard(to), RecordOK(to)
    PROVE  IInv'
<1>1. call'[c] = to /\ \A d \in Calls \ {c} : call'[d] = call[d]
  BY DEF IInv, Resume
<1>2. call' \in [Calls -> CallType]
  BY DEF IInv, Resume
<1>3. calm' \in [Calls -> SUBSET {"call", "read"}] /\ stood' \in [Calls -> SUBSET Paths]
  BY DEF IInv, Wrote
<1>4. \A d \in Calls : stood'[d] \subseteq stood[d]
  BY DEF IInv, Wrote
<1>5. \A d \in Calls : Standing(call[d], stood[d])'
  BY DEF Standing, Wrote
<1>6. \A d \in Calls \ {c} : RequestOK(call'[d], stood'[d])
  BY <1>1, <1>4 DEF IInv, RequestOK, Reached, Obeys
<1>7. Obeys(to, stood'[c])
  BY <1>4 DEF IInv, RequestOK, Obeys, Same
<1>8. RequestOK(to, stood'[c])
  BY <1>7 DEF RequestOK, Reached
<1> QED BY <1>1, <1>2, <1>3, <1>5, <1>6, <1>8 DEF IInv

\* Once let in, a request has no more to fear from what stands.
LEMMA GoesOn ==
    ASSUME IInv, NEW c \in Calls, NEW to \in CallType, Resume(c, to), UNCHANGED <<tables, stood>>,
           calm' \in [Calls -> SUBSET {"call", "read"}],
           Same(call[c], to), LetIn(call[c]), ~AtGuard(to), RecordOK(to)
    PROVE  IInv'
<1>1. RequestOK(to, stood[c])
  BY DEF IInv, RequestOK, Reached, Obeys, Same
<1>2. Standing(to, stood[c])
  BY DEF Standing
<1> QED BY <1>1, <1>2, ReadKeeps

(***************************************************************************)
(* getUserStatements.                                                      *)
(***************************************************************************)
Direct(u) == {p \in Policies : <<u, p>> \in userPolicies}

\* Each way that a policy comes by is one that a query follows.
LEMMA Ways ==
    ASSUME NEW u, NEW path \in Paths, Applies(u, path)
    PROVE  /\ path.via = Nobody => path.policy \in Direct(u)
           /\ path.via \in Roles => path.policy \in OfRoles(u)
           /\ path.via \in Groups => path.policy \in OfGroups(u)
           /\ path.policy \in Policies /\ path.via \in Roles \cup Groups \cup {Nobody}
<1>1. path.policy \in Policies /\ path.via \in Roles \cup Groups \cup {Nobody}
  BY DEF Paths
<1>2. Nobody \notin Roles \cup Groups /\ Roles \cap Groups = {}
  BY IamConstants DEF Records
<1> QED BY <1>1, <1>2 DEF Applies, Direct, OfRoles, OfGroups

\* One query of the guard, or of a request that is let in
LEMMA QueryKeeps ==
    ASSUME IInv, NEW c \in Calls, UNCHANGED <<tables, calm, stood>>,
           NEW pc \in {"q_roles", "q_groups", "q_statements"}, NEW reach \in SUBSET Policies,
           call[c].pc \in Reading, Resume(c, Reaching(call[c], pc, reach)),
           AtGuard(call[c]) => Reached(Reaching(call[c], pc, reach), stood[c])
    PROVE  IInv'
<1> DEFINE to == Reaching(call[c], pc, reach)
<1>1. call[c] \in CallType /\ RequestOK(call[c], stood[c]) /\ Standing(call[c], stood[c])
  BY DEF IInv
<1>2. /\ to \in CallType /\ to.pc = pc /\ Same(call[c], to) /\ to.todo = call[c].todo
      /\ to.policy = call[c].policy /\ to.why = call[c].why /\ to.reach = reach
  BY <1>1, ReachingRecord DEF Steps, Reading
<1>3. to.pc \in Reading /\ Resume(c, to) /\ (AtGuard(call[c]) => Reached(to, stood[c]))
  BY <1>2 DEF Reading
<1> HIDE DEF to
<1>4. RecordOK(to)
  <2>1. Ordered(to)
    BY <1>1, <1>2, <1>3 DEF RequestOK, RecordOK, Ordered, ForGrant, Same, Reading, Granting
  <2>2. About(to)
    BY <1>1, <1>2, <1>3 DEF RequestOK, RecordOK, About, Active, ForGrant, Same,
       Reading, Granting, Over
  <2>3. Spares(to)
    BY <1>1, <1>2, <1>3 DEF RequestOK, RecordOK, Spares, Same, Reading, Granting, Editing
  <2> QED BY <2>1, <2>2, <2>3 DEF RecordOK
<1>5. CASE ~AtGuard(call[c])
  <2>1. LetIn(call[c]) /\ ~AtGuard(to)
    BY <1>2, <1>3, <1>5 DEF LetIn, AtGuard
  <2> QED BY <1>2, <1>3, <1>4, <2>1, GoesOn DEF IInv
<1>6. CASE AtGuard(call[c])
  <2>1. ~LetIn(to)
    BY <1>2, <1>3, <1>6 DEF LetIn, AtGuard, Reading, Granting, Writing
  <2>2. Standing(to, stood[c])
    BY <1>1, <1>2, <1>6 DEF Standing, Same
  <2>3. RequestOK(to, stood[c])
    BY <1>3, <1>4, <1>6, <2>1 DEF RequestOK, Obeys
  <2> QED BY <1>2, <1>3, <2>2, <2>3, ReadKeeps DEF IInv
<1> QED BY <1>5, <1>6

LEMMA ReadDirectKeeps == ASSUME IInv, NEW c \in Calls, ReadDirect(c) PROVE IInv'
<1> DEFINE reach == Direct(Reader(c))
           to == Reaching(call[c], "q_roles", reach)
<1>1. call[c].pc = "q_direct" /\ Resume(c, to) /\ UNCHANGED <<tables, calm, stood>>
  BY DEF ReadDirect, Reads, Reaching, Direct
<1>2. reach \in SUBSET Policies
  BY DEF Direct
<1>3. to.pc = "q_roles" /\ to.reach = reach
  BY <1>2, ReachingRecord DEF IInv, Steps, Reading
<1>4. ASSUME AtGuard(call[c]) PROVE Reached(to, stood[c])
  <2>1. \A path \in stood[c] : Applies(Reader(c), path) /\ path \in Paths
    BY <1>4 DEF IInv, Standing, AtGuard, Reader
  <2>2. \A path \in stood[c] : path.via = Nobody => path.policy \in reach
    BY <2>1, Ways
  <2> QED BY <1>3, <2>2 DEF Reached
<1> HIDE DEF reach
<1> QED BY <1>1, <1>2, <1>4, QueryKeeps DEF Reading

LEMMA ReadRolesKeeps == ASSUME IInv, NEW c \in Calls, ReadRoles(c) PROVE IInv'
<1> DEFINE reach == call[c].reach \cup OfRoles(Reader(c))
           to == Reaching(call[c], "q_groups", reach)
<1>1. call[c].pc = "q_roles" /\ Resume(c, to) /\ UNCHANGED <<tables, calm, stood>>
  BY DEF ReadRoles, Reads, Reaching
<1>2. reach \in SUBSET Policies
  BY DEF IInv, CallType, OfRoles
<1>3. to.pc = "q_groups" /\ to.reach = reach
  BY <1>2, ReachingRecord DEF IInv, Steps, Reading
<1>4. ASSUME AtGuard(call[c]) PROVE Reached(to, stood[c])
  <2>1. \A path \in stood[c] : Applies(Reader(c), path) /\ path \in Paths
    BY <1>4 DEF IInv, Standing, AtGuard, Reader
  <2>2. \A path \in stood[c] : path.via = Nobody => path.policy \in call[c].reach
    BY <1>1, <1>4 DEF IInv, RequestOK, Reached
  <2>3. \A path \in stood[c] : path.via \notin Groups => path.policy \in reach
    BY <2>1, <2>2, Ways
  <2>4. \A path \in stood[c] : path.via = Nobody => path.policy \in reach
    BY <2>2
  <2> QED BY <1>3, <2>3, <2>4 DEF Reached
<1> HIDE DEF reach
<1> QED BY <1>1, <1>2, <1>4, QueryKeeps DEF Reading

\* What the guard has found by the end of its third query
Gathered(c) == call[c].reach \cup OfGroups(Reader(c))

LEMMA AllGathered ==
    ASSUME IInv, NEW c \in Calls, call[c].pc = "q_groups", AtGuard(call[c])
    PROVE  \A path \in stood[c] : path.policy \in Gathered(c)
<1>1. \A path \in stood[c] : Applies(Reader(c), path) /\ path \in Paths
  BY DEF IInv, Standing, AtGuard, Reader
<1>2. \A path \in stood[c] : path.via \notin Groups => path.policy \in call[c].reach
  BY DEF IInv, RequestOK, Reached
<1> QED BY <1>1, <1>2, Ways DEF Gathered

\* An ACTIVE user who is not ROOT is refused what a statement denies.
LEMMA DenyDecides ==
    ASSUME NEW u \in Users \ Roots, NEW S, NEW s \in S, NEW a, Denies(s, Subject(u), a, NoContext)
    PROVE  ~Allowed(Subject(u), S, a, NoContext)
BY DEF Allowed, evaluate, Subject

\* Where the handlers begin is where their kind of request may be.
LEMMA HandlerKeeps ==
    ASSUME NEW r \in CallType, RecordOK(r), AtGuard(r)
    PROVE  /\ Handler(r) \in Steps /\ RecordOK(Moved(r, Handler(r)))
           /\ ~AtGuard(Moved(r, Handler(r)))
<1> DEFINE to == Moved(r, Handler(r))
<1>1. Handler(r) \in {"w_subject", "w_insert", "w_protect", "a_actor", "w_apply"}
  BY DEF Handler
<1>2. /\ r.op = "inspect" => Handler(r) = "w_subject"
      /\ r.op = "create" => Handler(r) = "w_insert"
      /\ r.op \in {"update", "rename", "delete"} => Handler(r) = "w_protect"
      /\ r.op = "link" /\ r.on \in Policies => Handler(r) = "a_actor"
      /\ r.op = "link" /\ r.on \notin Policies => Handler(r) = "w_apply"
      /\ r.op = "unlink" => Handler(r) = "w_apply"
      /\ r.op \in Ops
  BY DEF Handler, CallType
<1>3. Handler(r) \in Steps
  BY <1>1 DEF Steps, Writing, Granting
<1>4. /\ to \in CallType /\ to.pc = Handler(r) /\ Same(r, to) /\ to.todo = r.todo
      /\ to.policy = r.policy /\ to.why = r.why
  BY <1>3, MovedRecord
<1> HIDE DEF to
<1>5. ~AtGuard(to)
  BY <1>1, <1>4 DEF AtGuard, Reading
<1>6. Ordered(to)
  BY <1>1, <1>2, <1>4 DEF Ordered, ForGrant, Same, Reading, Granting, Ops
<1>7. About(to)
  BY <1>1, <1>2, <1>4 DEF RecordOK, About, Active, AtGuard, ForGrant, Same, Reading, Granting, Over
<1>8. Spares(to)
  BY <1>1, <1>2, <1>4 DEF RecordOK, Spares, AtGuard, Same, Reading, Granting, Editing
<1> QED BY <1>3, <1>5, <1>6, <1>7, <1>8 DEF to, RecordOK

\* The guard with all that it has read: who is let in obeys.
LEMMA GuardKeeps ==
    ASSUME IInv, NEW c \in Calls, UNCHANGED <<tables, calm, stood>>, NEW S, AtGuard(call[c]),
           Resume(c, Moved(call[c], requirePermission(c, S))),
           \A path \in stood[c] : path.statement \in S
    PROVE  IInv'
<1> DEFINE pc == requirePermission(c, S)
           to == Moved(call[c], pc)
<1>1. call[c] \in CallType /\ RequestOK(call[c], stood[c]) /\ Standing(call[c], stood[c])
  BY DEF IInv
<1>2. Handler(call[c]) \in Steps /\ RecordOK(Moved(call[c], Handler(call[c])))
      /\ ~AtGuard(Moved(call[c], Handler(call[c])))
  BY <1>1, HandlerKeeps DEF RequestOK
<1>3. CASE Allowed(Subject(call[c].actor), S, call[c].asks, NoContext)
  <2>1. pc = Handler(call[c])
    BY <1>3 DEF requirePermission
  <2>2. to \in CallType /\ Same(call[c], to) /\ ~AtGuard(to) /\ RecordOK(to)
    BY <1>1, <1>2, <2>1, MovedRecord
  <2> HIDE DEF to
  <2>3. Obeys(to, stood[c])
    BY <1>3, <2>2, DenyDecides DEF Obeys, Same
  <2>4. RequestOK(to, stood[c]) /\ Standing(to, stood[c])
    BY <2>2, <2>3 DEF RequestOK, Reached, Standing
  <2>5. Resume(c, to)
    BY DEF to
  <2> QED BY <2>2, <2>4, <2>5, ReadKeeps DEF IInv
<1>4. CASE ~Allowed(Subject(call[c].actor), S, call[c].asks, NoContext)
  <2>1. pc = "refused" /\ pc \in Steps
    BY <1>4 DEF requirePermission, Steps, Over
  <2>2. to \in CallType /\ to.pc = "refused" /\ Same(call[c], to)
    BY <1>1, <2>1, MovedRecord
  <2> HIDE DEF to
  <2>3. ~AtGuard(to) /\ ~LetIn(to) /\ ~Active(to) /\ ~ForGrant(to)
    BY <2>2 DEF AtGuard, LetIn, Active, ForGrant, Over, Reading, Granting, Writing
  <2>4. RecordOK(to)
    BY <1>1, <2>2, <2>3 DEF RequestOK, RecordOK, Ordered, About, Spares, Same, AtGuard, Reading,
       Granting, Editing
  <2>5. RequestOK(to, stood[c]) /\ Standing(to, stood[c])
    BY <2>3, <2>4 DEF RequestOK, Reached, Obeys, Standing
  <2>6. Resume(c, to)
    BY DEF to
  <2> QED BY <2>2, <2>5, <2>6, ReadKeeps DEF IInv
<1> QED BY <1>3, <1>4

\* The end of the reading, for whatever it was
LEMMA ConcludeKeeps ==
    ASSUME IInv, NEW c \in Calls, UNCHANGED <<tables, calm, stood>>, NEW S,
           call[c].pc \in Reading, Conclude(c, S),
           AtGuard(call[c]) => \A path \in stood[c] : path.statement \in S
    PROVE  IInv'
<1>1. call[c] \in CallType /\ RequestOK(call[c], stood[c])
  BY DEF IInv
<1>2. CASE call[c].why = "guard"
  <2>1. AtGuard(call[c]) /\ Resume(c, Moved(call[c], requirePermission(c, S)))
    BY <1>2 DEF AtGuard, Conclude, Concluded, Moved
  <2> QED BY <2>1, GuardKeeps
<1>3. CASE call[c].why = "inspect"
  <2> DEFINE shown == computeEffectivePermissions(Subject(call[c].of), S)
             to == Shown(call[c], shown)
  <2>1. shown \in SUBSET Catalog
    BY DEF computeEffectivePermissions
  <2>2. to \in CallType /\ to.pc = "ok" /\ Same(call[c], to)
    BY <1>1, <2>1, ShownRecord
  <2>3. Resume(c, to) /\ LetIn(call[c])
    BY <1>3 DEF Conclude, Concluded, Shown, LetIn
  <2> HIDE DEF to
  <2>4. ~AtGuard(to) /\ ~Active(to) /\ ~ForGrant(to)
    BY <2>2 DEF AtGuard, Active, ForGrant, Over, Reading, Granting
  <2>5. RecordOK(to)
    BY <1>1, <2>2, <2>4 DEF RequestOK, RecordOK, Ordered, About, Spares, Same, Reading,
       Granting, Editing
  <2> QED BY <2>2, <2>3, <2>4, <2>5, GoesOn DEF IInv
<1>4. CASE call[c].why = "grant"
  <2> DEFINE pc == assertCanGrantPolicy(c, S)
             to == Moved(call[c], pc)
  <2>1. pc \in {"a_attach", "refused"} /\ pc \in Steps
    BY DEF assertCanGrantPolicy, Steps, Over, Granting
  <2>2. /\ to \in CallType /\ to.pc \in {"a_attach", "refused"} /\ Same(call[c], to)
        /\ to.todo = call[c].todo /\ to.policy = call[c].policy
    BY <1>1, <2>1, MovedRecord
  <2>3. Resume(c, to) /\ LetIn(call[c]) /\ ForGrant(call[c]) /\ Active(call[c])
    BY <1>4 DEF Conclude, Concluded, Moved, LetIn, ForGrant, Active, Reading, Over
  <2> HIDE DEF to
  <2>4. ~AtGuard(to)
    BY <2>2 DEF AtGuard, Reading
  <2>5. Ordered(to)
    BY <1>1, <2>2, <2>3 DEF RequestOK, RecordOK, Ordered, Same
  <2>6. About(to)
    BY <1>1, <2>2, <2>3 DEF RequestOK, RecordOK, About, Same, Reading, Granting, ForGrant
  <2>7. Spares(to)
    BY <1>1, <1>4, <2>2, <2>3 DEF RequestOK, RecordOK, Spares, Ordered, Same, Reading, Granting, Editing
  <2> QED BY <2>2, <2>3, <2>4, <2>5, <2>6, <2>7, GoesOn DEF IInv, RecordOK
<1> QED BY <1>1, <1>2, <1>3, <1>4 DEF CallType

LEMMA ReadGroupsKeeps == ASSUME IInv, NEW c \in Calls, ReadGroups(c) PROVE IInv'
<1>1. call[c].pc = "q_groups" /\ call[c].pc \in Reading /\ UNCHANGED <<tables, calm, stood>>
  BY DEF ReadGroups, Reads, Reading
<1>2. CASE Gathered(c) = {} /\ Conclude(c, {})
  <2>1. AtGuard(call[c]) => \A path \in stood[c] : path.statement \in {}
    BY <1>1, <1>2, AllGathered
  <2> QED BY <1>1, <1>2, <2>1, ConcludeKeeps
<1>3. CASE Resume(c, Reaching(call[c], "q_statements", Gathered(c)))
  <2> DEFINE to == Reaching(call[c], "q_statements", Gathered(c))
  <2>1. Gathered(c) \in SUBSET Policies
    BY DEF IInv, CallType, Gathered, OfGroups
  <2>2. to.reach = Gathered(c)
    BY <2>1, ReachingRecord DEF IInv, Steps, Reading
  <2>3. AtGuard(call[c]) => Reached(to, stood[c])
    BY <1>1, <2>2, AllGathered DEF Reached
  <2> HIDE DEF to
  <2>4. Resume(c, to)
    BY <1>3 DEF to
  <2> QED BY <1>1, <2>1, <2>3, <2>4, QueryKeeps DEF to
<1>4. (Gathered(c) = {} /\ Conclude(c, {})) \/ Resume(c, Reaching(call[c], "q_statements", Gathered(c)))
  BY DEF ReadGroups, Gathered, Reaching
<1> QED BY <1>2, <1>3, <1>4

LEMMA ReadStatementsKeeps == ASSUME IInv, NEW c \in Calls, ReadStatements(c) PROVE IInv'
<1> DEFINE S == UNION {content[p] : p \in call[c].reach}
<1>1. call[c].pc = "q_statements" /\ call[c].pc \in Reading /\ UNCHANGED <<tables, calm, stood>>
      /\ Conclude(c, S)
  BY DEF ReadStatements, Reads, Reading
<1>2. ASSUME AtGuard(call[c]) PROVE \A path \in stood[c] : path.statement \in S
  <2>1. \A path \in stood[c] : Applies(Reader(c), path)
    BY <1>2 DEF IInv, Standing, AtGuard, Reader
  <2>2. \A path \in stood[c] : path.policy \in call[c].reach
    BY <1>1, <1>2 DEF IInv, RequestOK, Reached
  <2> QED BY <2>1, <2>2 DEF Applies
<1> HIDE DEF S
<1> QED BY <1>1, <1>2, ConcludeKeeps

(***************************************************************************)
(* A request that ends where it is, having changed nothing.                *)
(***************************************************************************)
LEMMA EndedRecord ==
    ASSUME NEW r \in CallType, RecordOK(r), NEW pc \in Over, r.op = "create" => r.pc # "idle"
    PROVE  /\ Moved(r, pc) \in CallType /\ Same(r, Moved(r, pc)) /\ RecordOK(Moved(r, pc))
           /\ ~AtGuard(Moved(r, pc))
<1> DEFINE to == Moved(r, pc)
<1>1. to \in CallType /\ to.pc \in Over /\ Same(r, to)
  BY MovedRecord DEF Steps
<1> HIDE DEF to
<1>2. ~AtGuard(to) /\ ~Active(to) /\ ~ForGrant(to)
  BY <1>1 DEF AtGuard, Active, ForGrant, Over, Reading, Granting
<1>3. RecordOK(to)
  BY <1>1, <1>2 DEF RecordOK, Ordered, About, Spares, Same, Reading, Granting, Editing, Over
<1> QED BY <1>1, <1>2, <1>3 DEF to

\* A row that is gone fails the request, or a name that is taken.
LEMMA StopsKeeps ==
    ASSUME IInv, NEW c \in Calls, NEW pc \in Over, UNCHANGED <<tables, calm, stood>>,
           Goto(c, pc), call[c].pc \in Granting \cup Writing
    PROVE  IInv'
<1>1. call[c] \in CallType /\ RecordOK(call[c]) /\ LetIn(call[c]) /\ call[c].pc # "idle"
  BY DEF IInv, RequestOK, LetIn, Granting, Writing
<1>2. Resume(c, Moved(call[c], pc))
  BY DEF Goto, Moved
<1> QED BY <1>1, <1>2, EndedRecord, GoesOn DEF IInv

(***************************************************************************)
(* assertCanGrantPolicy.                                                   *)
(***************************************************************************)
LEMMA GrantActorKeeps == ASSUME IInv, NEW c \in Calls, GrantActor(c) PROVE IInv'
<1>1. PICK p \in call[c].todo :
        Resume(c, Choosing(call[c], p, IF call[c].actor \in Roots THEN "a_attach" ELSE "a_actions"))
  BY DEF GrantActor, Choosing
<1> DEFINE pc == IF call[c].actor \in Roots THEN "a_attach" ELSE "a_actions"
           to == Choosing(call[c], p, pc)
<1>2. call[c].pc = "a_actor" /\ UNCHANGED <<tables, calm, stood>>
  BY DEF GrantActor, Reads
<1>3. call[c] \in CallType /\ RecordOK(call[c]) /\ Ordered(call[c]) /\ About(call[c])
  BY DEF IInv, RequestOK, RecordOK
<1>4. LetIn(call[c]) /\ ForGrant(call[c]) /\ Active(call[c])
  BY <1>2 DEF LetIn, ForGrant, Active, Granting, Over
<1>5. p \in Policies
  BY <1>3, <1>4, IamConstants DEF Ordered, About
<1>6. pc \in {"a_attach", "a_actions"} /\ pc \in Steps
  BY DEF Steps, Granting
<1>7. /\ to \in CallType /\ to.pc \in {"a_attach", "a_actions"} /\ Same(call[c], to)
      /\ to.policy = p /\ to.todo = call[c].todo
  BY <1>3, <1>5, <1>6, ChoosingRecord
<1>8. Resume(c, to)
  BY <1>1
<1> HIDE DEF to, pc
<1>9. ~AtGuard(to)
  BY <1>7 DEF AtGuard, Reading
<1>10. Ordered(to)
  BY <1>3, <1>4, <1>7 DEF Ordered, Same
<1>11. About(to)
  BY <1>3, <1>4, <1>5, <1>7 DEF About, Same
<1>12. Spares(to)
  BY <1>2, <1>3, <1>4, <1>7 DEF RecordOK, Spares, Ordered, Same, Granting, Reading, Editing
<1> QED BY <1>2, <1>4, <1>7, <1>8, <1>9, <1>10, <1>11, <1>12, GoesOn DEF IInv, RecordOK

LEMMA getPolicyActionsKeeps == ASSUME IInv, NEW c \in Calls, getPolicyActions(c) PROVE IInv'
<1> DEFINE granted == PolicyActions(call[c].policy)
           middle == Granted(call[c], granted)
           to == Looking(middle, "grant")
<1>1. call[c].pc = "a_actions" /\ UNCHANGED <<tables, stood>> /\ Resume(c, to)
      /\ calm' = [calm EXCEPT ![c] = @ \cup {"read"}]
  BY DEF getPolicyActions, Ask, Looking, Granted
<1>2. call[c] \in CallType /\ RecordOK(call[c]) /\ Ordered(call[c]) /\ About(call[c])
      /\ content \in [Policies -> SUBSET Statements] /\ calm \in [Calls -> SUBSET {"call", "read"}]
  BY DEF IInv, RequestOK, RecordOK, TablesOK
<1>3. LetIn(call[c]) /\ ForGrant(call[c]) /\ Active(call[c])
  BY <1>1 DEF LetIn, ForGrant, Active, Granting, Over
<1>4. call[c].policy \in Policies
  BY <1>1, <1>2, <1>3 DEF About
<1>5. granted \in SUBSET UNION {s.actions : s \in Statements}
  BY <1>2, <1>4 DEF PolicyActions
<1>6. /\ middle \in CallType /\ Same(call[c], middle) /\ middle.todo = call[c].todo
      /\ middle.policy = call[c].policy
  BY <1>2, <1>5, GrantedRecord
<1> HIDE DEF middle
<1>7. /\ to \in CallType /\ to.pc = "q_direct" /\ to.why = "grant" /\ Same(middle, to)
      /\ to.todo = middle.todo /\ to.policy = middle.policy
  BY <1>6, LookingRecord
<1>8. Same(call[c], to) /\ to.todo = call[c].todo /\ to.policy = call[c].policy
  BY <1>6, <1>7 DEF Same
<1> HIDE DEF to
<1>9. ~AtGuard(to)
  BY <1>7 DEF AtGuard
<1>10. Ordered(to)
  BY <1>2, <1>3, <1>7, <1>8 DEF Ordered, Same
<1>11. About(to)
  BY <1>2, <1>3, <1>4, <1>7, <1>8 DEF About, Same
<1>12. Spares(to)
  BY <1>1, <1>2, <1>3, <1>7, <1>8 DEF RecordOK, Spares, Ordered, Same, Granting, Reading, Editing
<1>13. calm' \in [Calls -> SUBSET {"call", "read"}]
  BY <1>1, <1>2
<1> QED BY <1>1, <1>3, <1>7, <1>8, <1>9, <1>10, <1>11, <1>12, <1>13, GoesOn DEF RecordOK

LEMMA getEffectivePermissionsKeeps ==
    ASSUME IInv, NEW c \in Calls, getEffectivePermissions(c)
    PROVE  IInv'
<1> DEFINE to == Looking(call[c], "inspect")
<1>1. call[c].pc = "w_subject" /\ UNCHANGED <<tables, stood>> /\ Resume(c, to)
      /\ calm' = [calm EXCEPT ![c] = @ \cup {"read"}]
  BY DEF getEffectivePermissions, Ask, Looking
<1>2. call[c] \in CallType /\ RecordOK(call[c]) /\ Ordered(call[c]) /\ About(call[c])
      /\ calm \in [Calls -> SUBSET {"call", "read"}]
  BY DEF IInv, RequestOK, RecordOK
<1>3. LetIn(call[c]) /\ Active(call[c])
  BY <1>1 DEF LetIn, Active, Writing, Over
<1>4. /\ to \in CallType /\ to.pc = "q_direct" /\ to.why = "inspect" /\ Same(call[c], to)
      /\ to.todo = call[c].todo /\ to.policy = call[c].policy
  BY <1>2, LookingRecord
<1> HIDE DEF to
<1>5. ~AtGuard(to) /\ ~ForGrant(to)
  BY <1>4 DEF AtGuard, ForGrant, Granting
<1>6. Ordered(to)
  BY <1>4, <1>5 DEF Ordered
<1>7. About(to)
  BY <1>2, <1>3, <1>4, <1>5 DEF About, Same
<1>8. Spares(to)
  BY <1>1, <1>2, <1>4 DEF RecordOK, Spares, Same, Granting, Reading, Editing
<1>9. calm' \in [Calls -> SUBSET {"call", "read"}]
  BY <1>1, <1>2
<1> QED BY <1>1, <1>3, <1>4, <1>5, <1>6, <1>7, <1>8, <1>9, GoesOn DEF RecordOK

(***************************************************************************)
(* Writes.                                                                 *)
(***************************************************************************)
\* A write that ends the request, or leaves it where it was let in
LEMMA WrittenKeeps ==
    ASSUME IInv, NEW c \in Calls, NEW pc \in Over, Goto(c, pc), Wrote(c), TablesOK',
           call[c].pc \in Granting \cup Writing
    PROVE  IInv'
<1>1. call[c] \in CallType /\ RecordOK(call[c]) /\ LetIn(call[c]) /\ call[c].pc # "idle"
  BY DEF IInv, RequestOK, LetIn, Granting, Writing
<1>2. Resume(c, Moved(call[c], pc))
  BY DEF Goto, Moved
<1> QED BY <1>1, <1>2, EndedRecord, WriteKeeps

\* One policy more; the last one ends the request.
LEMMA AttachedRecord ==
    ASSUME NEW r \in CallType, RecordOK(r), r.pc = "a_attach"
    PROVE  LET todo == r.todo \ {r.policy}
               to == Having(r, todo, IF todo = {} THEN IF r.found THEN "ok" ELSE "missing" ELSE "a_actor")
           IN  to \in CallType /\ Same(r, to) /\ ~AtGuard(to) /\ RecordOK(to)
<1> DEFINE todo == r.todo \ {r.policy}
           pc == IF todo = {} THEN IF r.found THEN "ok" ELSE "missing" ELSE "a_actor"
           to == Having(r, todo, pc)
<1>1. Ordered(r) /\ About(r) /\ ForGrant(r) /\ Active(r)
  BY DEF RecordOK, ForGrant, Active, Granting, Over
<1>2. todo \in Bodies
  BY DEF CallType, Bodies
<1>3. pc \in {"ok", "missing", "a_actor"} /\ pc \in Steps
  BY DEF Steps, Over, Granting
<1>4. todo \subseteq r.todo
  OBVIOUS
<1> HIDE DEF todo, pc
<1>5. /\ to \in CallType /\ to.pc \in {"ok", "missing", "a_actor"} /\ Same(r, to)
      /\ to.todo \subseteq r.todo
  BY <1>2, <1>3, <1>4, HavingRecord
<1> HIDE DEF to
<1>6. ~AtGuard(to)
  BY <1>5 DEF AtGuard, Reading
<1>7. Ordered(to)
  BY <1>1, <1>5 DEF Ordered, Same
<1>8. About(to)
  BY <1>1, <1>5 DEF About, Same, ForGrant, Reading, Granting
<1>9. Spares(to)
  BY <1>1, <1>5 DEF RecordOK, Spares, Ordered, Same, Granting, Reading, Editing
<1> QED BY <1>5, <1>6, <1>7, <1>8, <1>9 DEF RecordOK, to, todo, pc

\* Rows that stay keep what they are named by.
LEMMA RowsStay ==
    ASSUME TablesOK, UNCHANGED row
    PROVE  Live' = Live /\ row' \in [Records -> {"unused", "live", "deleted"}] /\ SystemIsLive'
BY DEF TablesOK, Live, SystemIsLive

LEMMA AttachedKeeps ==
    ASSUME IInv, NEW c \in Calls, call[c].pc = "a_attach",
           Resume(c, LET todo == call[c].todo \ {call[c].policy}
                     IN  [call[c] EXCEPT !.todo = todo,
                            !.pc = IF todo = {} THEN Done(c) ELSE "a_actor"]),
           Wrote(c), TablesOK'
    PROVE  IInv'
<1> DEFINE todo == call[c].todo \ {call[c].policy}
           to == Having(call[c], todo,
                    IF todo = {} THEN IF call[c].found THEN "ok" ELSE "missing" ELSE "a_actor")
<1>1. call[c] \in CallType /\ RecordOK(call[c])
  BY DEF IInv, RequestOK
<1>2. LetIn(call[c])
  BY DEF LetIn, Granting
<1>3. to \in CallType /\ Same(call[c], to) /\ ~AtGuard(to) /\ RecordOK(to)
  BY <1>1, AttachedRecord
<1>4. Resume(c, to)
  BY DEF Having, Done
<1> HIDE DEF to
<1> QED BY <1>2, <1>3, <1>4, WriteKeeps

LEMMA attachPolicyToUserKeeps == ASSUME IInv, NEW c \in Calls, attachPolicyToUser(c) PROVE IInv'
<1>1. call[c].pc = "a_attach" /\ call[c].pc \in Granting \cup Writing
  BY DEF attachPolicyToUser, Granting
<1>2. CASE Goto(c, "failed") /\ Reads
  BY <1>1, <1>2, StopsKeeps DEF Reads, Over
<1>3. CASE ~(Goto(c, "failed") /\ Reads)
  <2>1. /\ call[c].policy \in Live /\ call[c].op = "link" /\ Wrote(c)
        /\ userPolicies' = userPolicies \cup {<<call[c].of, call[c].policy>>}
        /\ Resume(c, LET todo == call[c].todo \ {call[c].policy}
                     IN  [call[c] EXCEPT !.todo = todo,
                            !.pc = IF todo = {} THEN Done(c) ELSE "a_actor"])
        /\ UNCHANGED <<row, content, rolePolicies, groupPolicies, userRoles, userGroups>>
    BY <1>3 DEF attachPolicyToUser, Attached
  <2>2. call[c].of \in Users /\ call[c].policy \in Policies
    BY <1>1, <2>1 DEF IInv, RequestOK, RecordOK, About, Active, ForGrant, Granting, Over
  <2>3. TablesOK'
    BY <2>1, <2>2, RowsStay DEF IInv, TablesOK, LinksHold
  <2> QED BY <1>1, <2>1, <2>3, AttachedKeeps
<1> QED BY <1>2, <1>3

LEMMA attachPolicyToRoleKeeps == ASSUME IInv, NEW c \in Calls, attachPolicyToRole(c) PROVE IInv'
<1>1. call[c].pc = "a_attach" /\ call[c].pc \in Granting \cup Writing
  BY DEF attachPolicyToRole, Granting
<1>2. CASE Goto(c, "failed") /\ Reads
  BY <1>1, <1>2, StopsKeeps DEF Reads, Over
<1>3. CASE ~(Goto(c, "failed") /\ Reads)
  <2>1. /\ call[c].policy \in Live /\ call[c].on \in Roles /\ call[c].on \in Users \cup Live
        /\ rolePolicies' = rolePolicies \cup {<<call[c].on, call[c].policy>>} /\ Wrote(c)
        /\ Resume(c, LET todo == call[c].todo \ {call[c].policy}
                     IN  [call[c] EXCEPT !.todo = todo,
                            !.pc = IF todo = {} THEN Done(c) ELSE "a_actor"])
        /\ UNCHANGED <<row, content, userPolicies, groupPolicies, userRoles, userGroups>>
    BY <1>3 DEF attachPolicyToRole, Attached
  <2>2. call[c].policy \in Policies
    BY <1>1 DEF IInv, RequestOK, RecordOK, About, ForGrant, Granting
  <2>3. call[c].on \in Live
    BY <2>1, IamConstants DEF Records
  <2>4. TablesOK'
    BY <2>1, <2>2, <2>3, RowsStay DEF IInv, TablesOK, LinksHold
  <2> QED BY <1>1, <2>1, <2>4, AttachedKeeps
<1> QED BY <1>2, <1>3

LEMMA attachPolicyToGroupKeeps == ASSUME IInv, NEW c \in Calls, attachPolicyToGroup(c) PROVE IInv'
<1>1. call[c].pc = "a_attach" /\ call[c].pc \in Granting \cup Writing
  BY DEF attachPolicyToGroup, Granting
<1>2. CASE Goto(c, "failed") /\ Reads
  BY <1>1, <1>2, StopsKeeps DEF Reads, Over
<1>3. CASE ~(Goto(c, "failed") /\ Reads)
  <2>1. /\ call[c].policy \in Live /\ call[c].on \in Groups /\ call[c].on \in Users \cup Live
        /\ groupPolicies' = groupPolicies \cup {<<call[c].on, call[c].policy>>} /\ Wrote(c)
        /\ Resume(c, LET todo == call[c].todo \ {call[c].policy}
                     IN  [call[c] EXCEPT !.todo = todo,
                            !.pc = IF todo = {} THEN Done(c) ELSE "a_actor"])
        /\ UNCHANGED <<row, content, userPolicies, rolePolicies, userRoles, userGroups>>
    BY <1>3 DEF attachPolicyToGroup, Attached
  <2>2. call[c].policy \in Policies
    BY <1>1 DEF IInv, RequestOK, RecordOK, About, ForGrant, Granting
  <2>3. call[c].on \in Live
    BY <2>1, IamConstants DEF Records
  <2>4. TablesOK'
    BY <2>1, <2>2, <2>3, RowsStay DEF IInv, TablesOK, LinksHold
  <2> QED BY <1>1, <2>1, <2>4, AttachedKeeps
<1> QED BY <1>2, <1>3

LEMMA LinkedKeeps ==
    ASSUME IInv, NEW c \in Calls, assignRoleToUser(c) \/ addUserToGroup(c)
    PROVE  IInv'
<1>1. call[c].pc = "w_apply" /\ call[c].pc \in Granting \cup Writing /\ call[c].op = "link"
  BY DEF assignRoleToUser, addUserToGroup, Linked, Writing
<1>2. CASE Goto(c, "failed") /\ Reads
  BY <1>1, <1>2, StopsKeeps DEF Reads, Over
<1>3. CASE ~(Goto(c, "failed") /\ Reads)
  <2>1. /\ call[c].on \in Live /\ Goto(c, "ok") /\ Wrote(c)
        /\ UNCHANGED <<row, content, userPolicies, rolePolicies, groupPolicies>>
        /\ \/ /\ call[c].on \in Roles /\ UNCHANGED userGroups
              /\ userRoles' = userRoles \cup {<<call[c].of, call[c].on>>}
           \/ /\ call[c].on \in Groups /\ UNCHANGED userRoles
              /\ userGroups' = userGroups \cup {<<call[c].of, call[c].on>>}
    BY <1>3 DEF assignRoleToUser, addUserToGroup, Linked
  <2>2. call[c].of \in Users
    BY <1>1 DEF IInv, RequestOK, RecordOK, About, Active, Over
  <2>3. LinksHold'
    <3>1. CASE call[c].on \in Roles /\ UNCHANGED userGroups
               /\ userRoles' = userRoles \cup {<<call[c].of, call[c].on>>}
      BY <2>1, <2>2, <3>1, RowsStay DEF IInv, TablesOK, LinksHold
    <3>2. CASE call[c].on \in Groups /\ UNCHANGED userRoles
               /\ userGroups' = userGroups \cup {<<call[c].of, call[c].on>>}
      BY <2>1, <2>2, <3>2, RowsStay DEF IInv, TablesOK, LinksHold
    <3> QED BY <2>1, <3>1, <3>2
  <2>4. TablesOK'
    BY <2>1, <2>3, RowsStay DEF IInv, TablesOK
  <2> QED BY <1>1, <2>1, <2>4, WrittenKeeps DEF Over
<1> QED BY <1>2, <1>3

LEMMA UnlinkedKeeps ==
    ASSUME IInv, NEW c \in Calls,
           removeRoleFromUser(c) \/ removeUserFromGroup(c) \/ detachPolicyFromUser(c)
    PROVE  IInv'
<1>1. /\ call[c].pc \in Granting \cup Writing /\ Goto(c, "ok") /\ Wrote(c)
      /\ UNCHANGED <<row, content, rolePolicies, groupPolicies>>
      /\ userPolicies' \subseteq userPolicies /\ userRoles' \subseteq userRoles
      /\ userGroups' \subseteq userGroups
  BY DEF removeRoleFromUser, removeUserFromGroup, detachPolicyFromUser, Unlinked, Writing
<1>2. TablesOK'
  BY <1>1, RowsStay DEF IInv, TablesOK, LinksHold
<1> QED BY <1>1, <1>2, WrittenKeeps DEF Over

(***************************************************************************)
(* Creation and updates.                                                   *)
(***************************************************************************)
\* An edit that goes on: the tables may be written, the record is moved.
LEMMA EditKeeps ==
    ASSUME IInv, NEW c \in Calls, NEW pc \in {"a_actor", "w_fill", "w_delete", "w_rename", "w_clear"},
           Goto(c, pc), call[c].pc \in Writing, \/ UNCHANGED <<tables, calm, stood>>
                                                \/ Wrote(c) /\ TablesOK',
           Ordered(Moved(call[c], pc)), call[c].on \in Records \ System
    PROVE  IInv'
<1> DEFINE to == Moved(call[c], pc)
<1>1. call[c] \in CallType /\ RecordOK(call[c]) /\ LetIn(call[c]) /\ Active(call[c])
  BY DEF IInv, RequestOK, LetIn, Active, Writing, Over
<1>2. pc \in Steps
  BY DEF Steps, Writing, Granting
<1>3. /\ to \in CallType /\ to.pc = pc /\ Same(call[c], to) /\ to.todo = call[c].todo
      /\ to.policy = call[c].policy
  BY <1>1, <1>2, MovedRecord
<1>4. Resume(c, to) /\ Ordered(to)
  BY DEF Goto, Moved
<1> HIDE DEF to
<1>5. ~AtGuard(to)
  BY <1>3 DEF AtGuard, Reading
<1>6. About(to)
  BY <1>1, <1>3 DEF RecordOK, About, Same, ForGrant, Reading, Granting
<1>7. Spares(to)
  BY <1>3 DEF Spares, Same
<1>8. RecordOK(to)
  BY <1>4, <1>6, <1>7 DEF RecordOK
<1>9. CASE UNCHANGED <<tables, calm, stood>>
  BY <1>1, <1>3, <1>4, <1>5, <1>8, <1>9, GoesOn DEF IInv
<1>10. CASE Wrote(c) /\ TablesOK'
  BY <1>1, <1>3, <1>4, <1>5, <1>8, <1>10, WriteKeeps
<1> QED BY <1>9, <1>10

\* What an edit is about, and that the record it edits is no system record
LEMMA Editor ==
    ASSUME IInv, NEW c \in Calls, call[c].pc \in Editing
    PROVE  /\ call[c].on \in Records \ System /\ call[c] \in CallType /\ RecordOK(call[c])
           /\ call[c].op \in {"create", "update", "rename", "delete"}
           /\ call[c].pc \in Writing /\ Active(call[c])
<1>1. RecordOK(call[c]) /\ call[c] \in CallType
  BY DEF IInv, RequestOK
<1>2. call[c].op \in {"create", "update", "rename", "delete"}
  BY <1>1 DEF RecordOK, Ordered, Editing
<1>3. call[c].pc \in Writing /\ call[c].pc # "idle" /\ Active(call[c])
  BY DEF Editing, Writing, Active, Over
<1> QED BY <1>1, <1>2, <1>3 DEF RecordOK, Spares

LEMMA InsertKeeps ==
    ASSUME IInv, NEW c \in Calls, createRole(c) \/ createGroup(c) \/ createPolicy(c)
    PROVE  IInv'
<1>1. call[c].pc = "w_insert" /\ call[c].pc \in Editing
  BY DEF createRole, createGroup, createPolicy, Insert, Editing
<1>2. /\ call[c].on \in Records \ System /\ call[c] \in CallType /\ RecordOK(call[c])
      /\ call[c].pc \in Writing /\ call[c].op = "create"
  BY <1>1, Editor DEF RecordOK, Ordered
<1>3. CASE Goto(c, "failed") /\ Reads
  BY <1>2, <1>3, StopsKeeps DEF Reads, Over
<1>4. CASE ~(Goto(c, "failed") /\ Reads)
  <2>1. /\ row' = [row EXCEPT ![call[c].on] = "live"] /\ Wrote(c)
        /\ UNCHANGED <<content, userPolicies, rolePolicies, groupPolicies, userRoles, userGroups>>
    BY <1>4 DEF createRole, createGroup, createPolicy, Insert
  <2>2. \/ Goto(c, "ok")
        \/ Goto(c, "a_actor") /\ call[c].on \in Roles \cup Groups
        \/ Goto(c, "w_fill") /\ call[c].on \in Policies
    BY <1>4 DEF createRole, createGroup, createPolicy, Insert
  <2>3. Live \subseteq Live' /\ row' \in [Records -> {"unused", "live", "deleted"}]
    BY <1>2, <2>1 DEF IInv, TablesOK, Live
  <2>4. LinksHold'
    BY <2>1, <2>3 DEF IInv, TablesOK, LinksHold
  <2>5. TablesOK'
    BY <2>1, <2>3, <2>4 DEF IInv, TablesOK, SystemIsLive
  <2>6. CASE Goto(c, "ok")
    BY <1>2, <2>1, <2>5, <2>6, WrittenKeeps DEF Over
  <2>7. CASE Goto(c, "a_actor") /\ call[c].on \in Roles \cup Groups
    <3>1. Moved(call[c], "a_actor").pc = "a_actor" /\ Same(call[c], Moved(call[c], "a_actor"))
      BY <1>2, MovedRecord DEF Steps, Granting
    <3>2. Ordered(Moved(call[c], "a_actor"))
      BY <1>2, <2>7, <3>1 DEF Ordered, Same
    <3> QED BY <1>2, <2>1, <2>5, <2>7, <3>2, EditKeeps
  <2>8. CASE Goto(c, "w_fill") /\ call[c].on \in Policies
    <3>1. Moved(call[c], "w_fill").pc = "w_fill" /\ Same(call[c], Moved(call[c], "w_fill"))
      BY <1>2, MovedRecord DEF Steps, Writing
    <3>2. Ordered(Moved(call[c], "w_fill"))
      BY <1>2, <2>8, <3>1 DEF Ordered, Same, ForGrant, Granting, Reading
    <3> QED BY <1>2, <2>1, <2>5, <2>8, <3>2, EditKeeps
  <2> QED BY <2>2, <2>6, <2>7, <2>8
<1> QED BY <1>3, <1>4

LEMMA ProtectKeeps == ASSUME IInv, NEW c \in Calls, assertNotSystemRecord(c) PROVE IInv'
<1>1. /\ call[c].pc = "w_protect" /\ call[c].pc \in Writing /\ UNCHANGED <<tables, calm, stood>>
      /\ call[c] \in CallType /\ RecordOK(call[c]) /\ Active(call[c])
      /\ call[c].op \in {"update", "rename", "delete"}
  BY DEF assertNotSystemRecord, Reads, Writing, Active, Over, IInv, RequestOK, RecordOK, Ordered
<1>2. CASE call[c].on \in System \cap Live
  <2>1. Goto(c, "refused")
    BY <1>2 DEF assertNotSystemRecord
  <2> QED BY <1>1, <2>1, StopsKeeps DEF Over
<1>3. CASE call[c].on \notin System \cap Live
  <2>1. call[c].on \in Records \ System
    BY <1>1, <1>3 DEF IInv, TablesOK, SystemIsLive, RecordOK, About
  <2>2. CASE call[c].op = "delete"
    <3>1. Goto(c, "w_delete")
      BY <1>3, <2>2 DEF assertNotSystemRecord
    <3>2. Moved(call[c], "w_delete").pc = "w_delete" /\ Same(call[c], Moved(call[c], "w_delete"))
      BY <1>1, MovedRecord DEF Steps, Writing
    <3>3. Ordered(Moved(call[c], "w_delete"))
      BY <2>2, <3>2 DEF Ordered, Same, ForGrant, Granting, Reading
    <3> QED BY <1>1, <2>1, <3>1, <3>3, EditKeeps
  <2>3. CASE call[c].op # "delete"
    <3>1. Goto(c, "w_rename")
      BY <1>3, <2>3 DEF assertNotSystemRecord
    <3>2. Moved(call[c], "w_rename").pc = "w_rename" /\ Same(call[c], Moved(call[c], "w_rename"))
      BY <1>1, MovedRecord DEF Steps, Writing
    <3>3. Ordered(Moved(call[c], "w_rename"))
      BY <1>1, <2>3, <3>2 DEF Ordered, Same, ForGrant, Granting, Reading
    <3> QED BY <1>1, <2>1, <3>1, <3>3, EditKeeps
  <2> QED BY <2>2, <2>3
<1> QED BY <1>2, <1>3

LEMMA UpdateRowKeeps == ASSUME IInv, NEW c \in Calls, UpdateRow(c) PROVE IInv'
<1>1. /\ call[c].pc = "w_rename" /\ call[c].pc \in Editing /\ UNCHANGED <<tables, calm, stood>>
  BY DEF UpdateRow, Reads, Editing
<1>2. /\ call[c].on \in Records \ System /\ call[c] \in CallType /\ RecordOK(call[c])
      /\ call[c].pc \in Writing /\ Active(call[c]) /\ LetIn(call[c])
      /\ call[c].op \in {"update", "rename"}
  BY <1>1, Editor DEF RecordOK, Ordered, LetIn
<1>3. CASE Goto(c, "failed")
  BY <1>1, <1>2, <1>3, StopsKeeps DEF Over
<1>4. CASE ~Goto(c, "failed")
  <2> DEFINE found == call[c].on \in Live
             pc == IF call[c].op = "update" THEN "w_clear" ELSE IF found THEN "ok" ELSE "missing"
             to == Finding(call[c], found, pc)
  <2>1. Resume(c, to)
    BY <1>4 DEF UpdateRow, Finding
  <2>2. /\ found \in BOOLEAN /\ pc \in {"w_clear", "ok", "missing"} /\ pc \in Steps
        /\ pc = "w_clear" => call[c].op = "update"
    BY DEF Steps, Over, Writing
  <2> HIDE DEF found, pc
  <2>3. /\ to \in CallType /\ to.pc = pc /\ Same(call[c], to) /\ to.todo = call[c].todo
        /\ to.policy = call[c].policy
    BY <1>2, <2>2, FindingRecord
  <2> HIDE DEF to
  <2>4. ~AtGuard(to) /\ ~ForGrant(to)
    BY <2>2, <2>3 DEF AtGuard, ForGrant, Reading, Granting
  <2>5. Ordered(to)
    BY <2>2, <2>3, <2>4 DEF Ordered, Same
  <2>6. About(to)
    BY <1>2, <2>3, <2>4 DEF RecordOK, About, Same
  <2>7. Spares(to)
    BY <1>2, <2>3 DEF Spares, Same
  <2> QED BY <1>1, <1>2, <2>1, <2>3, <2>4, <2>5, <2>6, <2>7, GoesOn DEF IInv, RecordOK
<1> QED BY <1>3, <1>4

LEMMA ClearKeeps ==
    ASSUME IInv, NEW c \in Calls, updateRole(c) \/ updateGroup(c) \/ updatePolicy(c)
    PROVE  IInv'
<1>1. call[c].pc = "w_clear" /\ call[c].pc \in Editing /\ Wrote(c)
  BY DEF updateRole, updateGroup, updatePolicy, Cleared, Editing
<1>2. /\ call[c].on \in Records \ System /\ call[c] \in CallType /\ RecordOK(call[c])
      /\ call[c].pc \in Writing /\ call[c].op = "update"
  BY <1>1, Editor DEF RecordOK, Ordered
<1>3. /\ UNCHANGED <<row, userPolicies, userRoles, userGroups>>
      /\ rolePolicies' \subseteq rolePolicies /\ groupPolicies' \subseteq groupPolicies
      /\ content' = content \/ content' = [content EXCEPT ![call[c].on] = {}]
  BY DEF updateRole, updateGroup, updatePolicy, Cleared
<1>4. content' \in [Policies -> SUBSET Statements]
      /\ \A p \in Policies : content'[p] \subseteq content[p]
  BY <1>3 DEF IInv, TablesOK
<1>5. LinksHold'
  BY <1>3, <1>4, RowsStay DEF IInv, TablesOK, LinksHold
<1>6. TablesOK'
  BY <1>3, <1>4, <1>5, RowsStay DEF IInv, TablesOK
<1>7. \/ Goto(c, "ok") \/ Goto(c, "missing")
      \/ Goto(c, "a_actor") /\ call[c].on \in Roles \cup Groups
      \/ Goto(c, "w_fill") /\ call[c].on \in Policies
  BY DEF updateRole, updateGroup, updatePolicy, Cleared, Done
<1>8. CASE Goto(c, "ok") \/ Goto(c, "missing")
  BY <1>1, <1>2, <1>6, <1>8, WrittenKeeps DEF Over
<1>9. CASE Goto(c, "a_actor") /\ call[c].on \in Roles \cup Groups
  <2>1. Moved(call[c], "a_actor").pc = "a_actor" /\ Same(call[c], Moved(call[c], "a_actor"))
    BY <1>2, MovedRecord DEF Steps, Granting
  <2>2. Ordered(Moved(call[c], "a_actor"))
    BY <1>2, <1>9, <2>1 DEF Ordered, Same
  <2> QED BY <1>1, <1>2, <1>6, <1>9, <2>2, EditKeeps
<1>10. CASE Goto(c, "w_fill") /\ call[c].on \in Policies
  <2>1. Moved(call[c], "w_fill").pc = "w_fill" /\ Same(call[c], Moved(call[c], "w_fill"))
    BY <1>2, MovedRecord DEF Steps, Writing
  <2>2. Ordered(Moved(call[c], "w_fill"))
    BY <1>2, <1>10, <2>1 DEF Ordered, Same, ForGrant, Granting, Reading
  <2> QED BY <1>1, <1>2, <1>6, <1>10, <2>2, EditKeeps
<1> QED BY <1>7, <1>8, <1>9, <1>10

LEMMA InsertStatementKeeps == ASSUME IInv, NEW c \in Calls, InsertStatement(c) PROVE IInv'
<1>1. call[c].pc = "w_fill" /\ call[c].pc \in Editing
  BY DEF InsertStatement, Editing
<1>2. /\ call[c].on \in Records \ System /\ call[c] \in CallType /\ RecordOK(call[c])
      /\ call[c].pc \in Writing /\ Active(call[c]) /\ LetIn(call[c])
      /\ call[c].op \in {"create", "update"} /\ call[c].on \in Policies
      /\ call[c].todo \subseteq Statements
  BY <1>1, Editor DEF RecordOK, Ordered, About, LetIn
<1>3. CASE Goto(c, "failed") /\ Reads
  BY <1>2, <1>3, StopsKeeps DEF Reads, Over
<1>4. CASE ~(Goto(c, "failed") /\ Reads)
  <2> DEFINE Todo(s) == call[c].todo \ {s}
             Pc(s) == IF Todo(s) = {} THEN Done(c) ELSE "w_fill"
  <2>1. PICK s \in call[c].todo :
           /\ call[c].on \in Live /\ content' = [content EXCEPT ![call[c].on] = @ \cup {s}]
           /\ Resume(c, Having(call[c], Todo(s), Pc(s)))
           /\ UNCHANGED <<row, userPolicies, rolePolicies, groupPolicies, userRoles, userGroups>>
           /\ Wrote(c)
    BY <1>4 DEF InsertStatement, Having
  <2> DEFINE todo == Todo(s)
             pc == Pc(s)
             to == Having(call[c], todo, pc)
  <2>2. s \in Statements /\ todo \subseteq Statements /\ todo \in Bodies
    <3>1. s \in Statements
      BY <1>2
    <3>2. todo \subseteq Statements
      BY <1>2
    <3> HIDE DEF todo
    <3> QED BY <3>1, <3>2 DEF Bodies
  <2>3. pc \in {"ok", "missing", "w_fill"} /\ pc \in Steps
    BY DEF Done, Steps, Over, Writing
  <2>4. Resume(c, to) /\ Wrote(c)
    BY <2>1
  <2> HIDE DEF todo, pc
  <2>5. /\ to \in CallType /\ to.pc \in {"ok", "missing", "w_fill"} /\ Same(call[c], to)
        /\ to.todo = todo
    BY <1>2, <2>2, <2>3, HavingRecord
  <2> HIDE DEF to
  <2>6. ~AtGuard(to) /\ ~ForGrant(to)
    BY <2>5 DEF AtGuard, ForGrant, Reading, Granting
  <2>7. Ordered(to)
    BY <1>2, <2>5, <2>6 DEF Ordered, Same
  <2>8. About(to)
    BY <1>2, <2>2, <2>5, <2>6 DEF RecordOK, About, Same
  <2>9. Spares(to)
    BY <1>2, <2>5 DEF Spares, Same
  <2>10. content' \in [Policies -> SUBSET Statements]
         /\ \A p \in Policies \ {call[c].on} : content'[p] = content[p]
    BY <1>2, <2>1, <2>2 DEF IInv, TablesOK
  <2>11. LinksHold'
    BY <2>1, <2>10, RowsStay DEF IInv, TablesOK, LinksHold
  <2>12. TablesOK'
    BY <2>1, <2>10, <2>11, RowsStay DEF IInv, TablesOK
  <2> QED BY <1>2, <2>4, <2>5, <2>6, <2>7, <2>8, <2>9, <2>12, WriteKeeps DEF RecordOK
<1> QED BY <1>3, <1>4

(***************************************************************************)
(* Deletions.                                                              *)
(***************************************************************************)
LEMMA DeleteKeeps ==
    ASSUME IInv, NEW c \in Calls, deleteRole(c) \/ deleteGroup(c) \/ deletePolicy(c)
    PROVE  IInv'
<1>1. call[c].pc = "w_delete" /\ call[c].pc \in Editing
  BY DEF deleteRole, deleteGroup, deletePolicy, Delete, Editing
<1>2. call[c].on \in Records \ System /\ call[c].pc \in Writing
  BY <1>1, Editor
<1>3. CASE Goto(c, "missing") /\ Reads
  BY <1>2, <1>3, StopsKeeps DEF Reads, Over
<1>4. CASE ~(Goto(c, "missing") /\ Reads)
  <2> DEFINE x == call[c].on
  <2>1. row' = [row EXCEPT ![x] = "deleted"] /\ Cascade(x) /\ Goto(c, "ok") /\ Wrote(c)
    BY <1>4 DEF deleteRole, deleteGroup, deletePolicy, Delete
  <2> HIDE DEF x
  <2>2. x \in Records \ System
    BY <1>2 DEF x
  <2>3. Live \ {x} \subseteq Live' /\ row' \in [Records -> {"unused", "live", "deleted"}]
    BY <2>1, <2>2 DEF IInv, TablesOK, Live
  <2>4. content' \in [Policies -> SUBSET Statements]
        /\ \A p \in Policies \ {x} : content'[p] = content[p]
    BY <2>1 DEF IInv, TablesOK, Cascade
  <2>5. \A p \in Policies \ Live' : content'[p] = {}
    BY <2>1, <2>3, <2>4 DEF IInv, TablesOK, LinksHold, Cascade
  <2>7. /\ userPolicies' \subseteq Users \X (Policies \cap Live')
        /\ rolePolicies' \subseteq (Roles \cap Live') \X (Policies \cap Live')
        /\ groupPolicies' \subseteq (Groups \cap Live') \X (Policies \cap Live')
        /\ userRoles' \subseteq Users \X (Roles \cap Live')
        /\ userGroups' \subseteq Users \X (Groups \cap Live')
    <3>1. ASSUME NEW A, NEW B, NEW links, links \subseteq (A \cap Live) \X (B \cap Live)
          PROVE  Without(links, x) \subseteq (A \cap Live') \X (B \cap Live')
      BY <2>3, <3>1 DEF Without
    <3>2. ASSUME NEW B, NEW links, links \subseteq Users \X (B \cap Live)
          PROVE  Without(links, x) \subseteq Users \X (B \cap Live')
      BY <2>3, <3>2 DEF Without
    <3>3. userPolicies' \subseteq Users \X (Policies \cap Live')
      BY <2>1, <3>2 DEF IInv, TablesOK, LinksHold, Cascade
    <3>4. rolePolicies' \subseteq (Roles \cap Live') \X (Policies \cap Live')
      BY <2>1, <3>1 DEF IInv, TablesOK, LinksHold, Cascade
    <3>5. groupPolicies' \subseteq (Groups \cap Live') \X (Policies \cap Live')
      BY <2>1, <3>1 DEF IInv, TablesOK, LinksHold, Cascade
    <3>6. userRoles' \subseteq Users \X (Roles \cap Live')
      BY <2>1, <3>2 DEF IInv, TablesOK, LinksHold, Cascade
    <3>7. userGroups' \subseteq Users \X (Groups \cap Live')
      BY <2>1, <3>2 DEF IInv, TablesOK, LinksHold, Cascade
    <3> QED BY <3>3, <3>4, <3>5, <3>6, <3>7
  <2>8. SystemIsLive'
    BY <2>2, <2>3 DEF IInv, TablesOK, SystemIsLive
  <2>9. TablesOK'
    BY <2>3, <2>4, <2>5, <2>7, <2>8 DEF TablesOK, LinksHold
  <2> QED BY <1>2, <2>1, <2>9, WrittenKeeps DEF Over
<1> QED BY <1>3, <1>4

(***************************************************************************)
(* Arrivals and ends.                                                      *)
(***************************************************************************)
Arrived(u, asks, op, of, on, body) ==
    [Idle EXCEPT !.pc = "q_direct", !.actor = u, !.asks = asks, !.op = op,
                 !.of = of, !.on = on, !.body = body, !.todo = body]

\* A request that a route may begin with
MayBe(op, of, on, body) ==
    /\ op \in Ops /\ of \in Users \cup {Nobody} /\ on \in Records \cup {Nobody} /\ body \in Bodies
    /\ op \in {"link", "unlink"} => of \in Users /\ on \in Records
    /\ op = "link" /\ on \in Policies => body \subseteq Policies
    /\ op \in {"create", "update", "rename", "delete"} => on \in Records
    /\ op \in {"create", "update"} =>
          body \subseteq IF on \in Policies THEN Statements ELSE Policies
    /\ op = "create" => on \notin System

LEMMA ArrivedRecord ==
    ASSUME NEW u \in Users, NEW asks \in Actions, NEW op, NEW of, NEW on, NEW body,
           MayBe(op, of, on, body)
    PROVE  LET to == Arrived(u, asks, op, of, on, body)
           IN  /\ to \in CallType /\ to.pc = "q_direct" /\ to.why = "guard" /\ to.actor = u
               /\ RecordOK(to)
<1> DEFINE to == Arrived(u, asks, op, of, on, body)
<1>1. to \in CallType
  BY DEF MayBe, CallType, Arrived, Idle, Steps, Reading
<1>2. /\ to.pc = "q_direct" /\ to.why = "guard" /\ to.actor = u /\ to.op = op /\ to.of = of
      /\ to.on = on /\ to.todo = body
  BY DEF Arrived, Idle
<1> HIDE DEF to
<1>3. ~ForGrant(to)
  BY <1>2 DEF ForGrant, Granting
<1>4. Ordered(to)
  BY <1>2, <1>3 DEF Ordered
<1>5. About(to)
  BY <1>2, <1>3 DEF About, MayBe
<1>6. Spares(to)
  BY <1>2 DEF Spares, MayBe, Editing, Granting
<1> QED BY <1>1, <1>2, <1>4, <1>5, <1>6 DEF to, RecordOK

LEMMA RequestKeeps ==
    ASSUME IInv, NEW c \in Calls, NEW asks \in Actions, NEW op, NEW of, NEW on, NEW body,
           MayBe(op, of, on, body), Request(c, asks, op, of, on, body)
    PROVE  IInv'
<1>1. PICK u \in Users : /\ Resume(c, Arrived(u, asks, op, of, on, body))
                         /\ stood' = [stood EXCEPT ![c] = PathsOf(u)]
  BY DEF Request, Arrived
<1> DEFINE to == Arrived(u, asks, op, of, on, body)
<1>2. to \in CallType /\ to.pc = "q_direct" /\ to.why = "guard" /\ to.actor = u /\ RecordOK(to)
  BY ArrivedRecord
<1>3. Resume(c, to)
  BY <1>1
<1> HIDE DEF to
<1>4. UNCHANGED tables /\ calm' = [calm EXCEPT ![c] = {"call", "read"}]
  BY DEF Request
<1>5. call'[c] = to /\ stood'[c] = PathsOf(u)
      /\ \A d \in Calls \ {c} : call'[d] = call[d] /\ stood'[d] = stood[d]
  BY <1>1, <1>3 DEF IInv, Resume
<1>6. /\ call' \in [Calls -> CallType] /\ calm' \in [Calls -> SUBSET {"call", "read"}]
      /\ stood' \in [Calls -> SUBSET Paths]
  BY <1>1, <1>2, <1>3, <1>4 DEF IInv, Resume, PathsOf
<1>7. TablesOK'
  BY <1>4 DEF IInv, TablesOK, tables, LinksHold, SystemIsLive, Live
<1>8. \A v, path : Applies(v, path)' <=> Applies(v, path)
  BY <1>4 DEF Applies, tables
<1>9. RequestOK(to, PathsOf(u))
  BY <1>2 DEF RequestOK, Reached, Obeys, LetIn, Granting, Writing, Reading
<1>10. \A path \in PathsOf(u) : Applies(u, path)
  BY DEF PathsOf
<1>11. \A d \in Calls : RequestOK(call'[d], stood'[d])
  BY <1>5, <1>9 DEF IInv
<1>12. \A d \in Calls : Standing(call[d], stood[d])'
  BY <1>2, <1>5, <1>8, <1>10 DEF IInv, Standing
<1> QED BY <1>6, <1>7, <1>11, <1>12 DEF IInv

\* A row that has never been is no system record.
LEMMA UnclaimedIsNew == ASSUME IInv, NEW x \in Records, Unclaimed(x) PROVE x \notin System
BY DEF IInv, TablesOK, SystemIsLive, Live, Unclaimed

LEMMA ArriveKeeps == ASSUME IInv, NEW c \in Calls, Arrive(c) PROVE IInv'
<1>1. /\ Roles \subseteq Records /\ Groups \subseteq Records /\ Policies \subseteq Records
      /\ Roles \cap Policies = {} /\ Groups \cap Policies = {} /\ {} \in Bodies
      /\ (SUBSET Policies) \cup (SUBSET Statements) = Bodies
  BY IamConstants DEF Records, Bodies
<1>2. {"users:read", "roles:create", "roles:update", "roles:delete", "groups:create",
       "groups:update", "groups:delete", "policies:create", "policies:update",
       "policies:delete"} \subseteq Actions
  BY IamConstants
<1>3. CASE GetPermissions(c)
  <2>1. PICK u \in Users : Request(c, "users:read", "inspect", u, Nobody, {})
    BY <1>3 DEF GetPermissions
  <2>2. MayBe("inspect", u, Nobody, {})
    BY <1>1 DEF MayBe, Ops
  <2> QED BY <1>2, <2>1, <2>2, RequestKeeps
<1>4. CASE PostUserRole(c) \/ DeleteUserRole(c)
  <2>1. PICK u \in Users, r \in Roles, op \in {"link", "unlink"} :
           Request(c, "roles:update", op, u, r, {})
    BY <1>4 DEF PostUserRole, DeleteUserRole
  <2>2. MayBe(op, u, r, {})
    BY <1>1 DEF MayBe, Ops
  <2> QED BY <1>2, <2>1, <2>2, RequestKeeps
<1>5. CASE PostUserGroup(c) \/ DeleteUserGroup(c)
  <2>1. PICK u \in Users, g \in Groups, op \in {"link", "unlink"} :
           Request(c, "groups:update", op, u, g, {})
    BY <1>5 DEF PostUserGroup, DeleteUserGroup
  <2>2. MayBe(op, u, g, {})
    BY <1>1 DEF MayBe, Ops
  <2> QED BY <1>2, <2>1, <2>2, RequestKeeps
<1>6. CASE PostUserPolicy(c)
  <2>1. PICK u \in Users, p \in Policies : Request(c, "policies:update", "link", u, p, {p})
    BY <1>6 DEF PostUserPolicy
  <2>2. {p} \in Bodies /\ {p} \subseteq Policies
    BY <1>1
  <2>3. MayBe("link", u, p, {p})
    BY <1>1, <2>2 DEF MayBe, Ops
  <2> QED BY <1>2, <2>1, <2>3, RequestKeeps
<1>7. CASE DeleteUserPolicy(c)
  <2>1. PICK u \in Users, p \in Policies : Request(c, "policies:update", "unlink", u, p, {})
    BY <1>7 DEF DeleteUserPolicy
  <2>2. MayBe("unlink", u, p, {})
    BY <1>1 DEF MayBe, Ops
  <2> QED BY <1>2, <2>1, <2>2, RequestKeeps
<1>8. CASE PostRole(c) \/ PostGroup(c)
  <2>1. PICK asks \in Actions, x \in Roles \cup Groups, body \in SUBSET Policies :
           Unclaimed(x) /\ Request(c, asks, "create", Nobody, x, body)
    BY <1>2, <1>8 DEF PostRole, PostGroup
  <2>2. x \in Records \ System /\ x \notin Policies /\ body \in Bodies
    BY <1>1, <2>1, UnclaimedIsNew
  <2>3. MayBe("create", Nobody, x, body)
    BY <2>1, <2>2 DEF MayBe, Ops
  <2> QED BY <2>1, <2>3, RequestKeeps
<1>9. CASE PutRole(c) \/ PutGroup(c)
  <2>1. PICK asks \in Actions, x \in Roles \cup Groups, op \in {"update", "rename"},
             body \in SUBSET Policies : Request(c, asks, op, Nobody, x, body)
    <3>1. {} \in SUBSET Policies
      OBVIOUS
    <3>2. CASE PutRole(c)
      BY <1>2, <3>1, <3>2 DEF PutRole
    <3>3. CASE PutGroup(c)
      BY <1>2, <3>1, <3>3 DEF PutGroup
    <3> QED BY <1>9, <3>2, <3>3
  <2>2. x \in Records /\ x \notin Policies /\ body \in Bodies
    BY <1>1, <2>1
  <2>3. MayBe(op, Nobody, x, body)
    BY <2>1, <2>2 DEF MayBe, Ops
  <2> QED BY <2>1, <2>3, RequestKeeps
<1>10. CASE DeleteRole(c) \/ DeleteGroup(c) \/ DeletePolicy(c)
  <2>1. PICK asks \in Actions, x \in Records : Request(c, asks, "delete", Nobody, x, {})
    BY <1>1, <1>2, <1>10 DEF DeleteRole, DeleteGroup, DeletePolicy
  <2>2. MayBe("delete", Nobody, x, {})
    BY <1>1 DEF MayBe, Ops
  <2> QED BY <2>1, <2>2, RequestKeeps
<1>11. CASE PostPolicy(c)
  <2>1. PICK p \in Policies, body \in SUBSET Statements :
           Unclaimed(p) /\ Request(c, "policies:create", "create", Nobody, p, body)
    BY <1>11 DEF PostPolicy
  <2>2. p \in Records \ System /\ body \in Bodies
    BY <1>1, <2>1, UnclaimedIsNew
  <2>3. MayBe("create", Nobody, p, body)
    BY <2>1, <2>2 DEF MayBe, Ops
  <2> QED BY <1>2, <2>1, <2>3, RequestKeeps
<1>12. CASE PutPolicy(c)
  <2>1. PICK p \in Policies, op \in {"update", "rename"}, body \in SUBSET Statements :
           Request(c, "policies:update", op, Nobody, p, body)
    <3>1. {} \in SUBSET Statements
      OBVIOUS
    <3> QED BY <1>12, <3>1 DEF PutPolicy
  <2>2. p \in Records /\ body \in Bodies
    BY <1>1, <2>1
  <2>3. MayBe(op, Nobody, p, body)
    BY <2>1, <2>2 DEF MayBe, Ops
  <2> QED BY <1>2, <2>1, <2>3, RequestKeeps
<1> QED BY <1>3, <1>4, <1>5, <1>6, <1>7, <1>8, <1>9, <1>10, <1>11, <1>12 DEF Arrive

LEMMA FailKeeps == ASSUME IInv, NEW c \in Calls, Fail(c) PROVE IInv'
<1> DEFINE pc == IF Inspects(c) THEN "missing" ELSE "failed"
           to == Moved(Idle, pc)
<1>1. Resume(c, to) /\ UNCHANGED <<tables, calm, stood>>
  BY DEF Fail, Reads, Moved
<1>2. pc \in Over /\ pc \in Steps
  BY DEF Over, Steps
<1>3. RecordOK(Idle)
  BY IdleRecord DEF RecordOK, Ordered, About, Spares, Active, ForGrant, Over, Granting, Reading
<1>4. to \in CallType /\ Same(Idle, to) /\ RecordOK(to) /\ ~AtGuard(to)
  BY <1>2, <1>3, IdleRecord, EndedRecord
<1> HIDE DEF to
<1>5. to.actor \notin Users
  BY <1>4, IdleRecord, IamConstants DEF Same
<1>6. RequestOK(to, stood[c]) /\ Standing(to, stood[c])
  BY <1>4, <1>5 DEF RequestOK, Reached, Obeys, Standing
<1> QED BY <1>1, <1>4, <1>6, ReadKeeps DEF IInv

LEMMA StepKeeps == ASSUME IInv, NEW c \in Calls, Step(c) PROVE IInv'
<1>1. CASE ReadDirect(c) \/ ReadRoles(c) \/ ReadGroups(c) \/ ReadStatements(c)
  BY <1>1, ReadDirectKeeps, ReadRolesKeeps, ReadGroupsKeeps, ReadStatementsKeeps
<1>2. CASE GrantActor(c) \/ getPolicyActions(c) \/ getEffectivePermissions(c)
  BY <1>2, GrantActorKeeps, getPolicyActionsKeeps, getEffectivePermissionsKeeps
<1>3. CASE attachPolicyToUser(c) \/ attachPolicyToRole(c) \/ attachPolicyToGroup(c)
  BY <1>3, attachPolicyToUserKeeps, attachPolicyToRoleKeeps, attachPolicyToGroupKeeps
<1>4. CASE \/ assignRoleToUser(c) \/ removeRoleFromUser(c) \/ addUserToGroup(c)
           \/ removeUserFromGroup(c) \/ detachPolicyFromUser(c)
  BY <1>4, LinkedKeeps, UnlinkedKeeps
<1>5. CASE createRole(c) \/ createGroup(c) \/ createPolicy(c) \/ assertNotSystemRecord(c)
  BY <1>5, InsertKeeps, ProtectKeeps
<1>6. CASE UpdateRow(c) \/ updateRole(c) \/ updateGroup(c) \/ updatePolicy(c) \/ InsertStatement(c)
  BY <1>6, UpdateRowKeeps, ClearKeeps, InsertStatementKeeps
<1>7. CASE deleteRole(c) \/ deleteGroup(c) \/ deletePolicy(c)
  BY <1>7, DeleteKeeps
<1> QED BY <1>1, <1>2, <1>3, <1>4, <1>5, <1>6, <1>7 DEF Step

LEMMA StutterKeeps == ASSUME IInv, UNCHANGED vars PROVE IInv'
<1>1. UNCHANGED <<row, content, userPolicies, rolePolicies, groupPolicies, userRoles,
                  userGroups, call, calm, stood>>
  BY DEF vars, tables
<1>2. TablesOK'
  BY <1>1 DEF IInv, TablesOK, LinksHold, SystemIsLive, Live
<1>3. \A c \in Calls : RequestOK(call'[c], stood'[c])
  BY <1>1 DEF IInv
<1>4. \A c \in Calls : Standing(call[c], stood[c])'
  BY <1>1 DEF IInv, Standing, Applies
<1> QED BY <1>1, <1>2, <1>3, <1>4 DEF IInv

LEMMA InitHolds == ASSUME Init PROVE IInv
<1>1. PICK u \in Setups :
        /\ row = [x \in Records |-> IF x \in u.live THEN "live" ELSE "unused"]
        /\ content = u.content
        /\ userPolicies = u.userPolicies /\ rolePolicies = u.rolePolicies
        /\ groupPolicies = u.groupPolicies
        /\ userRoles = u.userRoles /\ userGroups = u.userGroups
  BY DEF Init
<1>2. /\ u.live \subseteq Records /\ System \subseteq u.live
      /\ u.userPolicies \subseteq Users \X (Policies \cap u.live)
      /\ u.rolePolicies \subseteq (Roles \cap u.live) \X (Policies \cap u.live)
      /\ u.groupPolicies \subseteq (Groups \cap u.live) \X (Policies \cap u.live)
      /\ u.userRoles \subseteq Users \X (Roles \cap u.live)
      /\ u.userGroups \subseteq Users \X (Groups \cap u.live)
      /\ u.content \in [Policies -> SUBSET Statements]
      /\ \A p \in Policies \ u.live : u.content[p] = {}
  BY IamConstants
<1>3. Live = u.live
  BY <1>1, <1>2 DEF Live
<1>4. row \in [Records -> {"unused", "live", "deleted"}]
  BY <1>1
<1>5. TablesOK
  BY <1>1, <1>2, <1>3, <1>4 DEF TablesOK, LinksHold, SystemIsLive
<1>6. call = [c \in Calls |-> Idle] /\ calm = [c \in Calls |-> {}] /\ stood = [c \in Calls |-> {}]
  BY DEF Init
<1>7. RecordOK(Idle)
  BY IdleRecord DEF RecordOK, Ordered, About, Spares, Active, ForGrant, Over, Granting, Reading
<1>8. RequestOK(Idle, {}) /\ Standing(Idle, {})
  BY <1>7 DEF RequestOK, Reached, Obeys, Standing
<1> QED BY <1>5, <1>6, <1>8, IdleRecord DEF IInv

LEMMA Inductive == IInv /\ [Next]_vars => IInv'
<1> SUFFICES ASSUME IInv, [Next]_vars PROVE IInv'
  OBVIOUS
<1>1. ASSUME NEW c \in Calls, Arrive(c) \/ Step(c) \/ Fail(c) PROVE IInv'
  BY <1>1, ArriveKeeps, StepKeeps, FailKeeps
<1>2. CASE UNCHANGED vars
  BY <1>2, StutterKeeps
<1> QED BY <1>1, <1>2 DEF Next

LEMMA Invariance == Spec => []IInv
<1>1. Init => IInv
  BY InitHolds
<1> QED BY <1>1, Inductive, PTL DEF Spec

(***************************************************************************)
(* For any users, records, statements and requests, with failures at every *)
(* query (iam-service.ts, the schema's foreign keys): links and statements *)
(* never dangle, and past assertNotSystemRecord no request is after a      *)
(* system record, although the check and the write are queries apart.      *)
(***************************************************************************)
THEOREM LinksNeverDangle == Spec => []IamInv
<1>1. IInv => IamInv
  BY IInvImplies
<1> QED BY <1>1, Invariance, PTL

(***************************************************************************)
(* However many requests move policies about while the guard reads its     *)
(* four queries (iam-service.ts:446-493), no request is let in against a   *)
(* deny that has reached its caller by the same way throughout.            *)
(***************************************************************************)
THEOREM StandingDeniesHold == Spec => []StandingDenyHolds
<1>1. IInv => StandingDenyHolds
  BY IInvImplies
<1> QED BY <1>1, Invariance, PTL

(***************************************************************************)
(* System records.                                                         *)
(***************************************************************************)
Spared == \A x \in System :
    /\ row'[x] = row[x]
    /\ x \in Policies => content'[x] = content[x]
    /\ \A y \in System : <<x, y>> \in rolePolicies \cup groupPolicies
                             <=> <<x, y>> \in (rolePolicies \cup groupPolicies)'

\* Links of users are none of theirs.
LEMMA UserLinksSpare ==
    ASSUME UNCHANGED <<row, content, rolePolicies, groupPolicies>>
    PROVE  Spared
BY DEF Spared

LEMMA AttachSpares ==
    ASSUME IInv, NEW c \in Calls,
           attachPolicyToUser(c) \/ attachPolicyToRole(c) \/ attachPolicyToGroup(c)
    PROVE  Spared
<1>1. CASE UNCHANGED <<row, content, rolePolicies, groupPolicies>>
  BY <1>1, UserLinksSpare
<1>2. CASE ~UNCHANGED <<row, content, rolePolicies, groupPolicies>>
  <2>1. /\ call[c].pc = "a_attach" /\ call[c].op # "link" /\ UNCHANGED <<row, content>>
        /\ \/ /\ rolePolicies' = rolePolicies \cup {<<call[c].on, call[c].policy>>}
              /\ UNCHANGED groupPolicies
           \/ /\ groupPolicies' = groupPolicies \cup {<<call[c].on, call[c].policy>>}
              /\ UNCHANGED rolePolicies
    BY <1>2 DEF attachPolicyToUser, attachPolicyToRole, attachPolicyToGroup, Attached, Reads, tables
  <2>2. call[c].on \notin System
    BY <2>1 DEF IInv, RequestOK, RecordOK, Ordered, Spares, ForGrant, Granting
  <2> QED BY <2>1, <2>2 DEF Spared
<1> QED BY <1>1, <1>2

LEMMA EditSpares ==
    ASSUME IInv, NEW c \in Calls,
           \/ createRole(c) \/ createGroup(c) \/ createPolicy(c)
           \/ updateRole(c) \/ updateGroup(c) \/ updatePolicy(c) \/ InsertStatement(c)
    PROVE  Spared
<1>1. call[c].pc \in Editing
  BY DEF createRole, createGroup, createPolicy, Insert, updateRole, updateGroup, updatePolicy,
     Cleared, InsertStatement, Editing
<1>2. call[c].on \in Records \ System
  BY <1>1, Editor
<1>3. \/ UNCHANGED row \/ row' = [row EXCEPT ![call[c].on] = "live"]
  BY DEF createRole, createGroup, createPolicy, Insert, updateRole, updateGroup, updatePolicy,
     Cleared, InsertStatement, Reads, tables
<1>4. \/ UNCHANGED content
      \/ \E S : content' = [content EXCEPT ![call[c].on] = S]
  BY DEF createRole, createGroup, createPolicy, Insert, updateRole, updateGroup, updatePolicy,
     Cleared, InsertStatement, Reads, tables
<1>5. /\ rolePolicies' \in {rolePolicies, {pair \in rolePolicies : pair[1] # call[c].on}}
      /\ groupPolicies' \in {groupPolicies, {pair \in groupPolicies : pair[1] # call[c].on}}
  BY DEF createRole, createGroup, createPolicy, Insert, updateRole, updateGroup, updatePolicy,
     Cleared, InsertStatement, Reads, tables
<1>6. \A x \in System : row'[x] = row[x]
  BY <1>2, <1>3, IamConstants DEF IInv, TablesOK
<1>7. \A x \in System : x \in Policies => content'[x] = content[x]
  BY <1>2, <1>4 DEF IInv, TablesOK
<1>8. \A x, y \in System : <<x, y>> \in rolePolicies \cup groupPolicies
                             <=> <<x, y>> \in (rolePolicies \cup groupPolicies)'
  BY <1>2, <1>5
<1> QED BY <1>6, <1>7, <1>8 DEF Spared

LEMMA DeleteSpares ==
    ASSUME IInv, NEW c \in Calls, deleteRole(c) \/ deleteGroup(c) \/ deletePolicy(c)
    PROVE  Spared
<1>1. call[c].pc \in Editing
  BY DEF deleteRole, deleteGroup, deletePolicy, Delete, Editing
<1>2. call[c].on \in Records \ System
  BY <1>1, Editor
<1>3. CASE UNCHANGED tables
  BY <1>3, UserLinksSpare DEF tables
<1>4. CASE ~UNCHANGED tables
  <2>1. row' = [row EXCEPT ![call[c].on] = "deleted"] /\ Cascade(call[c].on)
    BY <1>4 DEF deleteRole, deleteGroup, deletePolicy, Delete, Reads
  <2>2. \A x \in System : row'[x] = row[x]
    BY <1>2, <2>1 DEF IInv, TablesOK
  <2>3. \A x \in System : x \in Policies => content'[x] = content[x]
    BY <1>2, <2>1 DEF Cascade
  <2>4. \A x, y \in System : <<x, y>> \in rolePolicies \cup groupPolicies
                               <=> <<x, y>> \in (rolePolicies \cup groupPolicies)'
    BY <1>2, <2>1 DEF Cascade, Without
  <2> QED BY <2>2, <2>3, <2>4 DEF Spared
<1> QED BY <1>3, <1>4

LEMMA NextSpares == IInv /\ [Next]_vars => Spared
<1> SUFFICES ASSUME IInv, [Next]_vars PROVE Spared
  OBVIOUS
<1>1. CASE UNCHANGED <<row, content, rolePolicies, groupPolicies>>
  BY <1>1, UserLinksSpare
<1>2. CASE ~UNCHANGED <<row, content, rolePolicies, groupPolicies>>
  <2>0. Next
    BY <1>2 DEF vars, tables
  <2>1. PICK c \in Calls : Arrive(c) \/ Step(c) \/ Fail(c)
    BY <2>0 DEF Next
  <2>2. ~Arrive(c) /\ ~Fail(c)
    BY <1>2 DEF Arrive, GetPermissions, PostUserRole, DeleteUserRole, PostUserGroup, DeleteUserGroup,
       PostUserPolicy, DeleteUserPolicy, PostRole, PutRole, DeleteRole, PostGroup, PutGroup,
       DeleteGroup, PostPolicy, PutPolicy, DeletePolicy, Request, Fail, Reads, tables
  <2>3. ~(ReadDirect(c) \/ ReadRoles(c) \/ ReadGroups(c) \/ ReadStatements(c) \/ GrantActor(c)
          \/ getPolicyActions(c) \/ getEffectivePermissions(c) \/ assertNotSystemRecord(c)
          \/ UpdateRow(c))
    BY <1>2 DEF ReadDirect, ReadRoles, ReadGroups, ReadStatements, GrantActor, getPolicyActions,
       getEffectivePermissions, assertNotSystemRecord, UpdateRow, Ask, Reads, tables
  <2>4. ~(assignRoleToUser(c) \/ addUserToGroup(c) \/ removeRoleFromUser(c)
          \/ removeUserFromGroup(c) \/ detachPolicyFromUser(c))
    BY <1>2 DEF assignRoleToUser, addUserToGroup, removeRoleFromUser, removeUserFromGroup,
       detachPolicyFromUser, Linked, Unlinked, Reads, tables
  <2> QED BY <2>1, <2>2, <2>3, <2>4, AttachSpares, EditSpares, DeleteSpares DEF Step
<1> QED BY <1>1, <1>2

(***************************************************************************)
(* Nothing that requests do, alone or among others, with whatever failure, *)
(* renames, edits or deletes a system record, or takes a system policy     *)
(* from a system role or group (iam-service.ts:96, assertNotSystemRecord). *)
(***************************************************************************)
THEOREM SystemRecordsAreKept == Spec => SystemRecordsStand
<1>1. IInv /\ [Next]_vars => [Spared]_vars
  BY NextSpares
<1>2. [Spared]_vars <=> [\A x \in System :
        /\ row'[x] = row[x]
        /\ x \in Policies => content'[x] = content[x]
        /\ \A y \in System : <<x, y>> \in rolePolicies \cup groupPolicies
                                 <=> <<x, y>> \in (rolePolicies \cup groupPolicies)']_vars
  BY DEF Spared
<1> QED BY <1>1, <1>2, Invariance, PTL DEF Spec, SystemRecordsStand

(***************************************************************************)
(* Reads that nobody disturbs.                                             *)
(***************************************************************************)
\* What the queries of getUserStatements have found is what there is.
Exact(c) ==
    /\ call[c].pc = "q_roles" => call[c].reach = Direct(Reader(c))
    /\ call[c].pc = "q_groups" => call[c].reach = Direct(Reader(c)) \cup OfRoles(Reader(c))
    /\ call[c].pc = "q_statements" => call[c].reach = PoliciesOf(Reader(c))

\* A grant is checked for what the policy says, and was found to be held.
Checked(c) ==
    /\ call[c].pc \in Reading /\ call[c].why = "grant" =>
          call[c].granted = PolicyActions(call[c].policy)
    /\ call[c].pc = "a_attach" /\ call[c].actor \notin Roots =>
          findUnheldActions(Subject(call[c].actor), StatementsOf(call[c].actor),
                            PolicyActions(call[c].policy)) = {}

Calmly(c) == "read" \in calm[c] => Exact(c) /\ Checked(c)
CalmInv == \A c \in Calls : Calmly(c)

Rests(r) == r.pc \notin Reading \cup {"a_attach"}

LEMMA AllWays == ASSUME NEW u PROVE PoliciesOf(u) = Direct(u) \cup OfRoles(u) \cup OfGroups(u)
BY DEF PoliciesOf, Direct, OfRoles, OfGroups

LEMMA SameTables ==
    ASSUME UNCHANGED tables
    PROVE  /\ \A u : /\ Direct(u)' = Direct(u) /\ OfRoles(u)' = OfRoles(u)
                     /\ PoliciesOf(u)' = PoliciesOf(u) /\ StatementsOf(u)' = StatementsOf(u)
           /\ \A p : PolicyActions(p)' = PolicyActions(p)
<1>1. UNCHANGED <<content, userPolicies, rolePolicies, groupPolicies, userRoles, userGroups>>
  BY DEF tables
<1>2. \A u : Direct(u)' = Direct(u) /\ OfRoles(u)' = OfRoles(u) /\ PoliciesOf(u)' = PoliciesOf(u)
  BY <1>1 DEF Direct, OfRoles, PoliciesOf
<1>3. \A u : StatementsOf(u)' = StatementsOf(u)
  BY <1>1, <1>2 DEF StatementsOf
<1>4. \A p : PolicyActions(p)' = PolicyActions(p)
  BY <1>1 DEF PolicyActions
<1> QED BY <1>2, <1>3, <1>4

\* A step of one request that changes no table
LEMMA CalmRead ==
    ASSUME IInv, CalmInv, NEW c \in Calls, NEW to, Resume(c, to), UNCHANGED tables,
           \A d \in Calls \ {c} : calm'[d] = calm[d],
           call'[c] = to => Calmly(c)'
    PROVE  CalmInv'
<1>1. call'[c] = to /\ \A d \in Calls \ {c} : call'[d] = call[d]
  BY DEF IInv, Resume
<1>2. ASSUME NEW d \in Calls \ {c} PROVE Calmly(d)'
  <2>1. call'[d] = call[d] /\ calm'[d] = calm[d] /\ Calmly(d)
    BY <1>1 DEF CalmInv
  <2>2. Reader(d)' = Reader(d)
    BY <2>1 DEF Reader
  <2>3. Exact(d) => Exact(d)'
    BY <2>1, <2>2, SameTables DEF Exact
  <2>4. Checked(d) => Checked(d)'
    BY <2>1, SameTables DEF Checked
  <2> QED BY <2>1, <2>3, <2>4 DEF Calmly
<1> QED BY <1>1, <1>2 DEF CalmInv

\* One that goes where nothing is said of it
LEMMA CalmRest ==
    ASSUME IInv, CalmInv, NEW c \in Calls, NEW to, Resume(c, to), Rests(to),
           \/ UNCHANGED <<tables, calm, stood>>
           \/ Wrote(c)
    PROVE  CalmInv'
<1>1. call'[c] = to /\ \A d \in Calls \ {c} : call'[d] = call[d]
  BY DEF IInv, Resume
<1>2. Calmly(c)'
  BY <1>1 DEF Rests, Calmly, Exact, Checked, Reading
<1>3. CASE UNCHANGED <<tables, calm, stood>>
  BY <1>2, <1>3, CalmRead
<1>4. CASE Wrote(c)
  <2>1. \A d \in Calls \ {c} : calm'[d] = {}
    BY <1>4 DEF Wrote
  <2> QED BY <1>2, <2>1 DEF CalmInv, Calmly
<1> QED BY <1>3, <1>4

LEMMA CalmQueries ==
    ASSUME IInv, CalmInv, NEW c \in Calls, ReadDirect(c) \/ ReadRoles(c)
    PROVE  CalmInv'
<1> DEFINE pc == IF call[c].pc = "q_direct" THEN "q_roles" ELSE "q_groups"
           reach == IF call[c].pc = "q_direct" THEN Direct(Reader(c))
                    ELSE call[c].reach \cup OfRoles(Reader(c))
           to == Reaching(call[c], pc, reach)
<1>1. /\ call[c].pc \in {"q_direct", "q_roles"} /\ Resume(c, to) /\ UNCHANGED <<tables, calm, stood>>
  BY DEF ReadDirect, ReadRoles, Reads, Reaching, Direct
<1>2. call[c] \in CallType /\ reach \in SUBSET Policies /\ pc \in Steps
  BY DEF IInv, CallType, Direct, OfRoles, Steps, Reading
<1>3. /\ to.pc = pc /\ to.reach = reach /\ Same(call[c], to) /\ to.why = call[c].why
      /\ to.policy = call[c].policy /\ to.granted = call[c].granted
  BY <1>2 DEF Reaching, CallType, Same
<1>4. ASSUME call'[c] = to PROVE Calmly(c)'
  <2> HIDE DEF to
  <2>1. Reader(c)' = Reader(c)
    BY <1>3, <1>4 DEF Reader, Same
  <2>2. \/ pc = "q_roles" /\ reach = Direct(Reader(c))
        \/ /\ pc = "q_groups" /\ reach = call[c].reach \cup OfRoles(Reader(c))
           /\ call[c].pc = "q_roles"
    <3>1. CASE call[c].pc = "q_direct"
      BY <3>1
    <3>2. CASE call[c].pc = "q_roles"
      BY <3>2
    <3> QED BY <1>1, <3>1, <3>2
  <2> HIDE DEF pc, reach
  <2>3. "read" \in calm[c] => Exact(c)'
    BY <1>1, <1>3, <1>4, <2>1, <2>2, SameTables DEF CalmInv, Calmly, Exact
  <2>4. "read" \in calm[c] => Checked(c)'
    <3>1. to.pc \in Reading /\ to.pc # "a_attach" /\ call[c].pc \in Reading
      BY <1>1, <1>3, <2>2 DEF Reading
    <3> QED BY <1>1, <1>3, <1>4, <3>1, SameTables DEF CalmInv, Calmly, Checked
  <2> QED BY <1>1, <2>3, <2>4 DEF Calmly
<1> HIDE DEF to
<1> QED BY <1>1, <1>4, CalmRead

\* The end of the reading: a grant that goes on has been found to be held.
LEMMA CalmConclude ==
    ASSUME IInv, CalmInv, NEW c \in Calls, UNCHANGED <<tables, calm, stood>>, NEW S,
           call[c].pc \in Reading, Conclude(c, S),
           "read" \in calm[c] => S = StatementsOf(Reader(c))
    PROVE  CalmInv'
<1>1. call[c] \in CallType
  BY DEF IInv
<1>2. CASE call[c].why = "grant"
  <2> DEFINE to == Moved(call[c], assertCanGrantPolicy(c, S))
  <2>1. Resume(c, to)
    BY <1>2 DEF Conclude, Concluded, Moved
  <2>2. assertCanGrantPolicy(c, S) \in Steps /\ assertCanGrantPolicy(c, S) \in {"a_attach", "refused"}
    BY DEF assertCanGrantPolicy, Steps, Granting, Over
  <2>3. /\ to.pc = assertCanGrantPolicy(c, S) /\ Same(call[c], to) /\ to.policy = call[c].policy
    BY <1>1, <2>2, MovedRecord
  <2>4. ASSUME call'[c] = to PROVE Calmly(c)'
    <3> HIDE DEF to
    <3>1. Exact(c)'
      BY <2>2, <2>3, <2>4 DEF Exact
    <3>2. ASSUME "read" \in calm[c], to.pc = "a_attach" PROVE Checked(c)'
      <4>1. S = StatementsOf(call[c].actor) /\ call[c].granted = PolicyActions(call[c].policy)
        BY <1>2, <3>2 DEF CalmInv, Calmly, Checked, Reader
      <4>2. findUnheldActions(Subject(call[c].actor), S, call[c].granted) = {}
        BY <2>3, <3>2 DEF assertCanGrantPolicy
      <4> QED BY <2>3, <2>4, <3>2, <4>1, <4>2, SameTables DEF Checked, Same, Reading
    <3>3. to.pc = "refused" => Checked(c)'
      BY <2>4 DEF Checked, Reading
    <3> QED BY <2>2, <2>3, <3>1, <3>2, <3>3 DEF Calmly
  <2> HIDE DEF to
  <2> QED BY <2>1, <2>4, CalmRead
<1>3. CASE call[c].why = "inspect"
  <2> DEFINE to == Shown(call[c], computeEffectivePermissions(Subject(call[c].of), S))
  <2>1. Resume(c, to)
    BY <1>3 DEF Conclude, Concluded, Shown
  <2>2. to.pc = "ok"
    BY <1>1, ShownRecord DEF computeEffectivePermissions
  <2>3. Rests(to)
    BY <2>2 DEF Rests, Reading
  <2> HIDE DEF to
  <2> QED BY <2>1, <2>3, CalmRest
<1>4. CASE call[c].why = "guard"
  <2> DEFINE to == Moved(call[c], requirePermission(c, S))
  <2>1. Resume(c, to)
    BY <1>4 DEF Conclude, Concluded, Moved
  <2>2. requirePermission(c, S) \in {"w_subject", "w_insert", "w_protect", "a_actor", "w_apply", "refused"}
    BY DEF requirePermission, Handler
  <2>3. requirePermission(c, S) \in Steps
    BY <2>2 DEF Steps, Writing, Granting, Over
  <2>4. to.pc = requirePermission(c, S)
    BY <1>1, <2>3, MovedRecord
  <2>5. Rests(to)
    BY <2>2, <2>4 DEF Rests, Reading
  <2> HIDE DEF to
  <2> QED BY <2>1, <2>5, CalmRest
<1> QED BY <1>1, <1>2, <1>3, <1>4 DEF CallType

\* The third query and the fourth
LEMMA GatheredIsAll ==
    ASSUME CalmInv, NEW c \in Calls, "read" \in calm[c], call[c].pc = "q_groups"
    PROVE  Gathered(c) = PoliciesOf(Reader(c))
BY AllWays DEF CalmInv, Calmly, Exact, Gathered

LEMMA CalmReadGroups == ASSUME IInv, CalmInv, NEW c \in Calls, ReadGroups(c) PROVE CalmInv'
<1>1. call[c].pc = "q_groups" /\ call[c].pc \in Reading /\ UNCHANGED <<tables, calm, stood>>
  BY DEF ReadGroups, Reads, Reading
<1>2. CASE Gathered(c) = {} /\ Conclude(c, {})
  <2>1. "read" \in calm[c] => {} = StatementsOf(Reader(c))
    BY <1>1, <1>2, GatheredIsAll DEF StatementsOf
  <2> QED BY <1>1, <1>2, <2>1, CalmConclude
<1>3. CASE Resume(c, Reaching(call[c], "q_statements", Gathered(c)))
  <2> DEFINE to == Reaching(call[c], "q_statements", Gathered(c))
  <2>1. call[c] \in CallType /\ Gathered(c) \in SUBSET Policies
    BY DEF IInv, CallType, Gathered, OfGroups
  <2>2. /\ to.pc = "q_statements" /\ to.reach = Gathered(c) /\ Same(call[c], to)
        /\ to.why = call[c].why /\ to.policy = call[c].policy /\ to.granted = call[c].granted
    BY <2>1 DEF Reaching, CallType, Same
  <2>3. ASSUME call'[c] = to PROVE Calmly(c)'
    <3> HIDE DEF to
    <3>1. Reader(c)' = Reader(c)
      BY <2>2, <2>3 DEF Reader, Same
    <3>2. "read" \in calm[c] => Exact(c)'
      BY <1>1, <2>2, <2>3, <3>1, GatheredIsAll, SameTables DEF Exact
    <3>3. "read" \in calm[c] => Checked(c)'
      BY <1>1, <2>2, <2>3, SameTables DEF CalmInv, Calmly, Checked, Reading
    <3> QED BY <1>1, <3>2, <3>3 DEF Calmly
  <2> HIDE DEF to
  <2>4. Resume(c, to)
    BY <1>3 DEF to
  <2> QED BY <1>1, <2>3, <2>4, CalmRead
<1>4. (Gathered(c) = {} /\ Conclude(c, {})) \/ Resume(c, Reaching(call[c], "q_statements", Gathered(c)))
  BY DEF ReadGroups, Gathered, Reaching
<1> QED BY <1>2, <1>3, <1>4

LEMMA CalmReadStatements == ASSUME IInv, CalmInv, NEW c \in Calls, ReadStatements(c) PROVE CalmInv'
<1> DEFINE S == UNION {content[p] : p \in call[c].reach}
<1>1. call[c].pc = "q_statements" /\ call[c].pc \in Reading /\ UNCHANGED <<tables, calm, stood>>
      /\ Conclude(c, S)
  BY DEF ReadStatements, Reads, Reading
<1>2. "read" \in calm[c] => S = StatementsOf(Reader(c))
  BY <1>1 DEF CalmInv, Calmly, Exact, StatementsOf
<1> HIDE DEF S
<1> QED BY <1>1, <1>2, CalmConclude

LEMMA CalmGrantActor == ASSUME IInv, CalmInv, NEW c \in Calls, GrantActor(c) PROVE CalmInv'
<1>1. PICK p \in call[c].todo :
        Resume(c, Choosing(call[c], p, IF call[c].actor \in Roots THEN "a_attach" ELSE "a_actions"))
  BY DEF GrantActor, Choosing
<1> DEFINE pc == IF call[c].actor \in Roots THEN "a_attach" ELSE "a_actions"
           to == Choosing(call[c], p, pc)
<1>2. UNCHANGED <<tables, calm, stood>> /\ call[c] \in CallType
  BY DEF GrantActor, Reads, IInv
<1>3. to.pc = pc /\ to.actor = call[c].actor
  BY <1>2 DEF Choosing, CallType
<1>4. Resume(c, to)
  BY <1>1
<1>5. CASE call[c].actor \in Roots
  <2>1. to.pc = "a_attach" /\ to.actor \in Roots
    BY <1>3, <1>5
  <2> HIDE DEF to
  <2>2. call'[c] = to => Calmly(c)'
    BY <2>1 DEF Calmly, Exact, Checked, Reading
  <2> QED BY <1>2, <1>4, <2>2, CalmRead
<1>6. CASE call[c].actor \notin Roots
  <2>1. Rests(to)
    BY <1>3, <1>6 DEF Rests, Reading
  <2> HIDE DEF to
  <2> QED BY <1>2, <1>4, <2>1, CalmRest
<1> QED BY <1>5, <1>6

LEMMA CalmAsk ==
    ASSUME IInv, CalmInv, NEW c \in Calls, getPolicyActions(c) \/ getEffectivePermissions(c)
    PROVE  CalmInv'
<1>1. call[c] \in CallType /\ calm \in [Calls -> SUBSET {"call", "read"}]
  BY DEF IInv
<1>2. CASE getPolicyActions(c)
  <2> DEFINE granted == PolicyActions(call[c].policy)
             to == Looking(Granted(call[c], granted), "grant")
  <2>1. Resume(c, to) /\ UNCHANGED tables /\ calm' = [calm EXCEPT ![c] = @ \cup {"read"}]
    BY <1>2 DEF getPolicyActions, Ask, Looking, Granted
  <2>2. to.pc = "q_direct" /\ to.granted = granted /\ to.policy = call[c].policy
    BY <1>1 DEF Looking, Granted, CallType
  <2> HIDE DEF to
  <2>3. call'[c] = to => Calmly(c)'
    BY <2>1, <2>2, SameTables DEF Calmly, Exact, Checked
  <2> QED BY <1>1, <2>1, <2>3, CalmRead
<1>3. CASE getEffectivePermissions(c)
  <2> DEFINE to == Looking(call[c], "inspect")
  <2>1. Resume(c, to) /\ UNCHANGED tables /\ calm' = [calm EXCEPT ![c] = @ \cup {"read"}]
    BY <1>3 DEF getEffectivePermissions, Ask, Looking
  <2>2. to.pc = "q_direct" /\ to.why = "inspect"
    BY <1>1, LookingRecord
  <2> HIDE DEF to
  <2>3. call'[c] = to => Calmly(c)'
    BY <2>2 DEF Calmly, Exact, Checked
  <2> QED BY <1>1, <2>1, <2>3, CalmRead
<1> QED BY <1>2, <1>3

LEMMA CalmArrive == ASSUME IInv, CalmInv, NEW c \in Calls, Arrive(c) PROVE CalmInv'
<1>1. PICK asks, op, of, on, body : Request(c, asks, op, of, on, body)
  BY DEF Arrive, GetPermissions, PostUserRole, DeleteUserRole, PostUserGroup, DeleteUserGroup,
     PostUserPolicy, DeleteUserPolicy, PostRole, PutRole, DeleteRole, PostGroup, PutGroup,
     DeleteGroup, PostPolicy, PutPolicy, DeletePolicy
<1>2. PICK u \in Users : Resume(c, Arrived(u, asks, op, of, on, body))
  BY <1>1 DEF Request, Arrived
<1> DEFINE to == Arrived(u, asks, op, of, on, body)
<1>3. to.pc = "q_direct" /\ to.why = "guard"
  BY DEF Arrived, Idle
<1>4. Resume(c, to) /\ UNCHANGED tables /\ calm' = [calm EXCEPT ![c] = {"call", "read"}]
  BY <1>1, <1>2 DEF Request
<1> HIDE DEF to
<1>5. call'[c] = to => Calmly(c)'
  BY <1>3 DEF Calmly, Exact, Checked
<1> QED BY <1>4, <1>5, CalmRead DEF IInv

\* The other steps leave their request where nothing is said of it.
LEMMA CalmGoto ==
    ASSUME IInv, CalmInv, NEW c \in Calls, NEW pc \in Steps \ (Reading \cup {"a_attach"}), Goto(c, pc),
           \/ UNCHANGED <<tables, calm, stood>>
           \/ Wrote(c)
    PROVE  CalmInv'
<1>1. call[c] \in CallType /\ Resume(c, Moved(call[c], pc))
  BY DEF IInv, Goto, Moved
<1>2. Rests(Moved(call[c], pc))
  BY <1>1, MovedRecord DEF Rests
<1> QED BY <1>1, <1>2, CalmRest

LEMMA CalmWrites ==
    ASSUME IInv, CalmInv, NEW c \in Calls,
           \/ assignRoleToUser(c) \/ removeRoleFromUser(c) \/ addUserToGroup(c)
           \/ removeUserFromGroup(c) \/ detachPolicyFromUser(c)
           \/ createRole(c) \/ createGroup(c) \/ createPolicy(c) \/ assertNotSystemRecord(c)
           \/ updateRole(c) \/ updateGroup(c) \/ updatePolicy(c)
           \/ deleteRole(c) \/ deleteGroup(c) \/ deletePolicy(c)
    PROVE  CalmInv'
<1>1. \E pc \in {"ok", "failed", "missing", "refused", "a_actor", "w_fill", "w_delete", "w_rename"} :
         Goto(c, pc) /\ (Wrote(c) \/ UNCHANGED <<tables, calm, stood>>)
  <2>1. CASE assignRoleToUser(c) \/ addUserToGroup(c)
    BY <2>1 DEF assignRoleToUser, addUserToGroup, Linked, Reads
  <2>2. CASE removeRoleFromUser(c) \/ removeUserFromGroup(c) \/ detachPolicyFromUser(c)
    BY <2>2 DEF removeRoleFromUser, removeUserFromGroup, detachPolicyFromUser, Unlinked
  <2>3. CASE createRole(c) \/ createGroup(c) \/ createPolicy(c)
    BY <2>3 DEF createRole, createGroup, createPolicy, Insert, Reads
  <2>4. CASE assertNotSystemRecord(c)
    BY <2>4 DEF assertNotSystemRecord, Reads
  <2>5. CASE updateRole(c) \/ updateGroup(c) \/ updatePolicy(c)
    BY <2>5 DEF updateRole, updateGroup, updatePolicy, Cleared, Done
  <2>6. CASE deleteRole(c) \/ deleteGroup(c) \/ deletePolicy(c)
    BY <2>6 DEF deleteRole, deleteGroup, deletePolicy, Delete, Reads
  <2> QED BY <2>1, <2>2, <2>3, <2>4, <2>5, <2>6
<1>2. {"ok", "failed", "missing", "refused", "a_actor", "w_fill", "w_delete", "w_rename"}
        \subseteq Steps \ (Reading \cup {"a_attach"})
  BY DEF Steps, Over, Writing, Granting, Reading
<1> QED BY <1>1, <1>2, CalmGoto

LEMMA CalmAttach ==
    ASSUME IInv, CalmInv, NEW c \in Calls,
           attachPolicyToUser(c) \/ attachPolicyToRole(c) \/ attachPolicyToGroup(c)
    PROVE  CalmInv'
<1>1. CASE Goto(c, "failed") /\ Reads
  BY <1>1, CalmGoto DEF Reads, Steps, Over, Reading
<1>2. CASE ~(Goto(c, "failed") /\ Reads)
  <2> DEFINE todo == call[c].todo \ {call[c].policy}
             pc == IF todo = {} THEN Done(c) ELSE "a_actor"
             to == Having(call[c], todo, pc)
  <2>1. Resume(c, to) /\ Wrote(c)
    BY <1>2 DEF attachPolicyToUser, attachPolicyToRole, attachPolicyToGroup, Attached, Having
  <2>2. to.pc = pc /\ pc \in {"ok", "missing", "a_actor"}
    BY DEF IInv, CallType, Having, Done
  <2>3. Rests(to)
    BY <2>2 DEF Rests, Reading
  <2> HIDE DEF to
  <2> QED BY <2>1, <2>3, CalmRest
<1> QED BY <1>1, <1>2

LEMMA CalmInsertStatement ==
    ASSUME IInv, CalmInv, NEW c \in Calls, InsertStatement(c)
    PROVE  CalmInv'
<1>1. CASE Goto(c, "failed") /\ Reads
  BY <1>1, CalmGoto DEF Reads, Steps, Over, Reading
<1>2. CASE ~(Goto(c, "failed") /\ Reads)
  <2> DEFINE Todo(s) == call[c].todo \ {s}
             Pc(s) == IF Todo(s) = {} THEN Done(c) ELSE "w_fill"
             To(s) == Having(call[c], Todo(s), Pc(s))
  <2>1. PICK s : Resume(c, To(s)) /\ Wrote(c)
    BY <1>2 DEF InsertStatement, Having
  <2>2. To(s).pc = Pc(s) /\ Pc(s) \in {"ok", "missing", "w_fill"}
    BY DEF IInv, CallType, Having, Done
  <2>3. Rests(To(s))
    BY <2>2 DEF Rests, Reading
  <2> HIDE DEF To
  <2> QED BY <2>1, <2>3, CalmRest
<1> QED BY <1>1, <1>2

LEMMA CalmUpdateRow == ASSUME IInv, CalmInv, NEW c \in Calls, UpdateRow(c) PROVE CalmInv'
<1>1. UNCHANGED <<tables, calm, stood>>
  BY DEF UpdateRow, Reads
<1>2. CASE Goto(c, "failed")
  BY <1>1, <1>2, CalmGoto DEF Steps, Over, Reading
<1>3. CASE ~Goto(c, "failed")
  <2> DEFINE found == call[c].on \in Live
             pc == IF call[c].op = "update" THEN "w_clear" ELSE IF found THEN "ok" ELSE "missing"
             to == Finding(call[c], found, pc)
  <2>1. Resume(c, to)
    BY <1>3 DEF UpdateRow, Finding
  <2>2. to.pc = pc /\ pc \in {"w_clear", "ok", "missing"}
    BY DEF IInv, CallType, Finding
  <2>3. Rests(to)
    BY <2>2 DEF Rests, Reading
  <2> HIDE DEF to
  <2> QED BY <1>1, <2>1, <2>3, CalmRest
<1> QED BY <1>2, <1>3

LEMMA CalmFail == ASSUME IInv, CalmInv, NEW c \in Calls, Fail(c) PROVE CalmInv'
<1> DEFINE to == Moved(Idle, IF Inspects(c) THEN "missing" ELSE "failed")
<1>1. Resume(c, to) /\ UNCHANGED <<tables, calm, stood>>
  BY DEF Fail, Reads, Moved
<1>2. to.pc \in {"missing", "failed"}
  BY IdleRecord, MovedRecord DEF Steps, Over
<1>3. Rests(to)
  BY <1>2 DEF Rests, Reading
<1> HIDE DEF to
<1> QED BY <1>1, <1>3, CalmRest

LEMMA CalmStep == ASSUME IInv, CalmInv, NEW c \in Calls, Step(c) PROVE CalmInv'
<1>1. CASE ReadDirect(c) \/ ReadRoles(c) \/ ReadGroups(c) \/ ReadStatements(c)
  BY <1>1, CalmQueries, CalmReadGroups, CalmReadStatements
<1>2. CASE GrantActor(c) \/ getPolicyActions(c) \/ getEffectivePermissions(c)
  BY <1>2, CalmGrantActor, CalmAsk
<1>3. CASE attachPolicyToUser(c) \/ attachPolicyToRole(c) \/ attachPolicyToGroup(c)
  BY <1>3, CalmAttach
<1>4. CASE UpdateRow(c) \/ InsertStatement(c)
  BY <1>4, CalmUpdateRow, CalmInsertStatement
<1>5. CASE \/ assignRoleToUser(c) \/ removeRoleFromUser(c) \/ addUserToGroup(c)
           \/ removeUserFromGroup(c) \/ detachPolicyFromUser(c)
           \/ createRole(c) \/ createGroup(c) \/ createPolicy(c) \/ assertNotSystemRecord(c)
           \/ updateRole(c) \/ updateGroup(c) \/ updatePolicy(c)
           \/ deleteRole(c) \/ deleteGroup(c) \/ deletePolicy(c)
  BY <1>5, CalmWrites
<1> QED BY <1>1, <1>2, <1>3, <1>4, <1>5 DEF Step

LEMMA CalmStutter == ASSUME CalmInv, UNCHANGED vars PROVE CalmInv'
<1>1. UNCHANGED tables /\ call' = call /\ calm' = calm
  BY DEF vars
<1>2. \A c \in Calls : Reader(c)' = Reader(c)
  BY <1>1 DEF Reader
<1>3. \A c \in Calls : Exact(c) => Exact(c)'
  BY <1>1, <1>2, SameTables DEF Exact
<1>4. \A c \in Calls : Checked(c) => Checked(c)'
  BY <1>1, SameTables DEF Checked
<1> QED BY <1>1, <1>3, <1>4 DEF CalmInv, Calmly

LEMMA CalmInvariance == Spec => [](IInv /\ CalmInv)
<1>1. Init => IInv /\ CalmInv
  <2>1. Init => CalmInv
    BY DEF Init, CalmInv, Calmly
  <2> QED BY <2>1, InitHolds
<1>2. IInv /\ CalmInv /\ [Next]_vars => (IInv /\ CalmInv)'
  <2> SUFFICES ASSUME IInv, CalmInv, [Next]_vars PROVE (IInv /\ CalmInv)'
    OBVIOUS
  <2>1. ASSUME NEW c \in Calls, Arrive(c) \/ Step(c) \/ Fail(c) PROVE CalmInv'
    BY <2>1, CalmArrive, CalmStep, CalmFail
  <2>2. CalmInv'
    BY <2>1, CalmStutter DEF Next
  <2> QED BY <2>2, Inductive
<1> QED BY <1>1, <1>2, PTL DEF Spec

(***************************************************************************)
(* A policy that is attached while nobody else writes gives nothing that   *)
(* its granter does not hold (iam-service.ts:384-425,                      *)
(* assertCanGrantPolicy), whatever has gone on before.                     *)
(***************************************************************************)
THEOREM GrantsAreOwned == Spec => []GrantsAreHeld
<1>1. IInv /\ CalmInv => GrantsAreHeld
  BY DEF CalmInv, Calmly, Checked, GrantsAreHeld
<1> QED BY <1>1, CalmInvariance, PTL

\* Every step is a step of one request.
LEMMA Resumes ==
    ASSUME NEW c \in Calls, Arrive(c) \/ Step(c) \/ Fail(c)
    PROVE  \E to : Resume(c, to)
<1>1. CASE Arrive(c)
  <2>1. PICK asks, op, of, on, body : Request(c, asks, op, of, on, body)
    BY <1>1 DEF Arrive, GetPermissions, PostUserRole, DeleteUserRole, PostUserGroup, DeleteUserGroup,
       PostUserPolicy, DeleteUserPolicy, PostRole, PutRole, DeleteRole, PostGroup, PutGroup,
       DeleteGroup, PostPolicy, PutPolicy, DeletePolicy
  <2> QED BY <2>1 DEF Request
<1>2. CASE Fail(c)
  BY <1>2 DEF Fail
<1>3. CASE ReadDirect(c) \/ ReadRoles(c) \/ ReadGroups(c) \/ ReadStatements(c)
  BY <1>3 DEF ReadDirect, ReadRoles, ReadGroups, ReadStatements, Conclude
<1>4. CASE GrantActor(c) \/ getPolicyActions(c) \/ getEffectivePermissions(c)
  BY <1>4 DEF GrantActor, getPolicyActions, getEffectivePermissions, Ask
<1>5. CASE attachPolicyToUser(c) \/ attachPolicyToRole(c) \/ attachPolicyToGroup(c)
  BY <1>5 DEF attachPolicyToUser, attachPolicyToRole, attachPolicyToGroup, Attached, Goto
<1>6. CASE \/ assignRoleToUser(c) \/ removeRoleFromUser(c)
           \/ addUserToGroup(c) \/ removeUserFromGroup(c) \/ detachPolicyFromUser(c)
  BY <1>6 DEF assignRoleToUser, removeRoleFromUser, addUserToGroup, removeUserFromGroup,
     detachPolicyFromUser, Linked, Unlinked, Goto
<1>7. CASE \/ createRole(c) \/ createGroup(c) \/ createPolicy(c)
           \/ assertNotSystemRecord(c) \/ UpdateRow(c)
  BY <1>7 DEF createRole, createGroup, createPolicy, Insert, assertNotSystemRecord, UpdateRow, Goto
<1>8. CASE \/ updateRole(c) \/ updateGroup(c) \/ updatePolicy(c) \/ InsertStatement(c)
           \/ deleteRole(c) \/ deleteGroup(c) \/ deletePolicy(c)
  BY <1>8 DEF updateRole, updateGroup, updatePolicy, Cleared, InsertStatement,
     deleteRole, deleteGroup, deletePolicy, Delete, Goto
<1> QED BY <1>1, <1>2, <1>3, <1>4, <1>5, <1>6, <1>7, <1>8 DEF Step

\* A request that concludes takes one of two steps.
LEMMA Concluding ==
    ASSUME IInv, Next, NEW c \in Calls, Concludes(c)
    PROVE  ReadGroups(c) \/ ReadStatements(c)
<1>1. PICK d \in Calls : Arrive(d) \/ Step(d) \/ Fail(d)
  BY DEF Next
<1>2. PICK to : Resume(d, to)
  BY <1>1, Resumes
<1>3. call[c].pc \in {"q_groups", "q_statements"} /\ call'[c].pc \notin {"failed", "missing"}
      /\ call'[c].pc # call[c].pc
  BY DEF Concludes, Reading
<1>4. d = c
  <2>1. ASSUME d # c PROVE call'[c] = call[c]
    BY <1>2, <2>1 DEF IInv, Resume
  <2> QED BY <1>3, <2>1
<1>5. ~Fail(c)
  <2>1. ASSUME Fail(c) PROVE call'[c].pc \in {"failed", "missing"}
    <3>1. PICK pc \in {"failed", "missing"} : Resume(c, Moved(Idle, pc))
      BY <2>1 DEF Fail, Moved
    <3>2. call'[c] = Moved(Idle, pc)
      BY <3>1 DEF Resume, IInv
    <3>3. pc \in Steps
      BY DEF Steps, Over
    <3> QED BY <3>2, <3>3, IdleRecord, MovedRecord
  <2> QED BY <1>3, <2>1
<1>6. ~Arrive(c)
  BY <1>3 DEF Arrive, GetPermissions, PostUserRole, DeleteUserRole, PostUserGroup, DeleteUserGroup,
     PostUserPolicy, DeleteUserPolicy, PostRole, PutRole, DeleteRole, PostGroup, PutGroup,
     DeleteGroup, PostPolicy, PutPolicy, DeletePolicy, Request
<1>7. ~ (\/ ReadDirect(c) \/ ReadRoles(c) \/ GrantActor(c) \/ getPolicyActions(c)
         \/ getEffectivePermissions(c)
         \/ attachPolicyToUser(c) \/ attachPolicyToRole(c) \/ attachPolicyToGroup(c))
  BY <1>3 DEF ReadDirect, ReadRoles, GrantActor, getPolicyActions, getEffectivePermissions,
     attachPolicyToUser, attachPolicyToRole, attachPolicyToGroup
<1>8. ~ (\/ assignRoleToUser(c) \/ removeRoleFromUser(c)
         \/ addUserToGroup(c) \/ removeUserFromGroup(c) \/ detachPolicyFromUser(c)
         \/ createRole(c) \/ createGroup(c) \/ createPolicy(c)
         \/ assertNotSystemRecord(c) \/ UpdateRow(c))
  BY <1>3 DEF assignRoleToUser, removeRoleFromUser, addUserToGroup, removeUserFromGroup,
     detachPolicyFromUser, Linked, Unlinked, createRole, createGroup, createPolicy, Insert,
     assertNotSystemRecord, UpdateRow
<1>9. ~ (\/ updateRole(c) \/ updateGroup(c) \/ updatePolicy(c) \/ InsertStatement(c)
         \/ deleteRole(c) \/ deleteGroup(c) \/ deletePolicy(c))
  BY <1>3 DEF updateRole, updateGroup, updatePolicy, Cleared, InsertStatement,
     deleteRole, deleteGroup, deletePolicy, Delete
<1> QED BY <1>1, <1>4, <1>5, <1>6, <1>7, <1>8, <1>9 DEF Step

(***************************************************************************)
(* The four queries of getUserStatements (iam-service.ts:446-493) decide   *)
(* as one that sees everything at once, unless somebody writes meanwhile.  *)
(***************************************************************************)
THEOREM ReadsAreWhole == Spec => ReadsAreExact
<1> DEFINE A == \A c \in Calls : Concludes(c) /\ "read" \in calm[c] =>
                    call'[c] = Concluded(c, StatementsOf(Reader(c)))
<1>1. IInv /\ CalmInv /\ [Next]_vars => [A]_vars
  <2> SUFFICES ASSUME IInv, CalmInv, Next, NEW c \in Calls, Concludes(c), "read" \in calm[c]
               PROVE  call'[c] = Concluded(c, StatementsOf(Reader(c)))
    OBVIOUS
  <2>1. Exact(c)
    BY DEF CalmInv, Calmly
  <2>2. CASE ReadStatements(c)
    <3>1. call'[c] = Concluded(c, UNION {content[p] : p \in call[c].reach})
      BY <2>2 DEF ReadStatements, Conclude, Resume, IInv
    <3>2. call[c].reach = PoliciesOf(Reader(c))
      BY <2>1, <2>2 DEF ReadStatements, Exact
    <3> QED BY <3>1, <3>2 DEF StatementsOf
  <2>3. CASE ReadGroups(c)
    <3>1. Gathered(c) = PoliciesOf(Reader(c))
      BY <2>1, <2>3, AllWays DEF ReadGroups, Exact, Gathered
    <3>2. CASE Gathered(c) = {} /\ Conclude(c, {})
      <4>1. call'[c] = Concluded(c, {})
        BY <3>2 DEF Conclude, Resume, IInv
      <4>2. StatementsOf(Reader(c)) = {}
        BY <3>1, <3>2 DEF StatementsOf
      <4> QED BY <4>1, <4>2
    <3>3. CASE Resume(c, [call[c] EXCEPT !.pc = "q_statements", !.reach = Gathered(c)])
      <4>1. call'[c].pc = "q_statements"
        BY <3>3 DEF IInv, CallType, Resume
      <4> QED BY <4>1 DEF Concludes, Reading
    <3> QED BY <2>3, <3>2, <3>3 DEF ReadGroups, Gathered
  <2> QED BY <2>2, <2>3, Concluding
<1> QED BY <1>1, CalmInvariance, PTL DEF Spec, ReadsAreExact

(***************************************************************************)
(* Creations and updates that nobody disturbs: what a record holds and     *)
(* what is still to be inserted make up the body.                          *)
(***************************************************************************)
Fills(r) == r.op \in {"create", "update"} /\ Active(r)
Filling(r) == ForGrant(r) \/ r.pc = "w_fill"
Inspecting(r) == r.pc = "w_subject" \/ (r.pc \in Reading /\ r.why = "inspect")

Left(r, held, there) == Fills(r) =>
    /\ ~Inspecting(r)
    /\ r.todo \subseteq r.body
    /\ ForGrant(r) /\ r.pc # "a_actor" => r.policy \in r.todo
    /\ Filling(r) => held = r.body \ r.todo
    /\ ~Filling(r) => r.todo = r.body /\ (r.op = "create" => ~there)

Tells(c) == "call" \in calm[c] => Left(call[c], Holds(call[c].on), call[c].on \in Live)
LeftInv == \A c \in Calls : Tells(c)

LEMMA BodyRecord ==
    \A r \in CallType :
        /\ \A pc : Moved(r, pc).body = r.body
        /\ \A pc, reach : Reaching(r, pc, reach).body = r.body
        /\ \A why : Looking(r, why).body = r.body
        /\ \A granted : Granted(r, granted).body = r.body
        /\ \A p, pc : Choosing(r, p, pc).body = r.body
        /\ \A todo, pc : Having(r, todo, pc).body = r.body
        /\ \A found, pc : Finding(r, found, pc).body = r.body
BY DEF CallType, Moved, Reaching, Looking, Granted, Choosing, Having, Finding

LEMMA HoldsSame == ASSUME UNCHANGED tables PROVE \A x : Holds(x)' = Holds(x) /\ Live' = Live
BY DEF tables, Holds, Live

LEMMA LeftFrame ==
    ASSUME IInv, LeftInv, NEW c \in Calls, NEW to, Resume(c, to),
           "call" \in calm'[c] => Left(to, Holds(to.on)', to.on \in Live'),
           \/ UNCHANGED tables /\ \A d \in Calls \ {c} : calm'[d] = calm[d]
           \/ Wrote(c)
    PROVE  LeftInv'
<1>1. call'[c] = to /\ \A d \in Calls \ {c} : call'[d] = call[d]
  BY DEF IInv, Resume
<1>2. Tells(c)'
  BY <1>1 DEF Tells
<1>3. CASE UNCHANGED tables /\ \A d \in Calls \ {c} : calm'[d] = calm[d]
  <2>1. ASSUME NEW d \in Calls \ {c} PROVE Tells(d)'
    <3>1. Tells(d) /\ call'[d] = call[d] /\ calm'[d] = calm[d]
      BY <1>1, <1>3 DEF LeftInv
    <3>2. Holds(call[d].on)' = Holds(call[d].on) /\ Live' = Live
      BY <1>3, <3>1 DEF tables, Holds, Live
    <3> QED BY <3>1, <3>2 DEF Tells
  <2> QED BY <1>2, <2>1 DEF LeftInv
<1>4. CASE Wrote(c)
  <2>1. \A d \in Calls \ {c} : calm'[d] = {}
    BY <1>4 DEF Wrote
  <2> QED BY <1>2, <2>1 DEF LeftInv, Tells
<1> QED BY <1>3, <1>4

\* A step to where nothing is said
LEMMA LeftOver ==
    ASSUME IInv, LeftInv, NEW c \in Calls, NEW to, Resume(c, to), ~Fills(to),
           UNCHANGED <<tables, calm, stood>> \/ Wrote(c)
    PROVE  LeftInv'
<1>1. Left(to, Holds(to.on)', to.on \in Live')
  BY DEF Left
<1> QED BY <1>1, LeftFrame

\* A step that changes no table and stays on its side of the filling
LEMMA LeftRead ==
    ASSUME IInv, LeftInv, NEW c \in Calls, NEW to, Resume(c, to), UNCHANGED tables,
           \A d \in Calls \ {c} : calm'[d] = calm[d],
           "call" \in calm'[c] => "call" \in calm[c],
           Same(call[c], to), to.body = call[c].body, to.todo = call[c].todo,
           Fills(to) => /\ Active(call[c]) /\ ~Inspecting(to)
                        /\ Filling(to) <=> Filling(call[c])
                        /\ ForGrant(to) /\ to.pc # "a_actor" =>
                              \/ to.policy \in call[c].todo
                              \/ /\ to.policy = call[c].policy
                                 /\ ForGrant(call[c]) /\ call[c].pc # "a_actor"
    PROVE  LeftInv'
<1>1. to.on = call[c].on /\ to.op = call[c].op
  BY DEF Same
<1>2. PICK x : x = call[c].on
  OBVIOUS
<1>3. Holds(x)' = Holds(x) /\ Live' = Live
  BY HoldsSame
<1>4. "call" \in calm'[c] => Left(call[c], Holds(x), x \in Live)
  BY <1>2 DEF LeftInv, Tells
<1>5. "call" \in calm'[c] => Left(to, Holds(x)', x \in Live')
  BY <1>1, <1>3, <1>4 DEF Left, Fills
<1>6. to.on = x
  BY <1>1, <1>2
<1> QED BY <1>5, <1>6, LeftFrame

\* A step of reading moves no request to the other side.
LEMMA LeftReading ==
    ASSUME IInv, LeftInv, NEW c \in Calls, UNCHANGED <<tables, calm, stood>>,
           NEW pc \in Reading, NEW reach \in SUBSET Policies, call[c].pc \in Reading,
           Resume(c, Reaching(call[c], pc, reach))
    PROVE  LeftInv'
<1> DEFINE to == Reaching(call[c], pc, reach)
<1>1. call[c] \in CallType /\ pc \in Steps /\ Resume(c, to)
  BY DEF IInv, Steps
<1>2. /\ to.pc = pc /\ Same(call[c], to) /\ to.todo = call[c].todo /\ to.policy = call[c].policy
      /\ to.why = call[c].why /\ to.body = call[c].body
  BY <1>1, ReachingRecord, BodyRecord
<1> HIDE DEF to
<1>3. CASE ~Fills(to)
  BY <1>1, <1>3, LeftOver
<1>4. CASE Fills(to)
  <2>1. Active(call[c]) /\ Fills(call[c])
    BY <1>2, <1>4 DEF Active, Reading, Over, Fills, Same
  <2>2. (Filling(to) <=> Filling(call[c])) /\ (ForGrant(to) <=> ForGrant(call[c]))
        /\ (Inspecting(to) <=> Inspecting(call[c])) /\ call[c].pc # "a_actor"
    BY <1>2 DEF Filling, ForGrant, Inspecting, Reading, Granting
  <2>3. CASE "call" \in calm[c]
    <3>1. ~Inspecting(to)
      BY <2>1, <2>2, <2>3 DEF LeftInv, Tells, Left
    <3> QED BY <1>1, <1>2, <2>1, <2>2, <3>1, LeftRead
  <2>4. CASE "call" \notin calm[c]
    BY <1>1, <2>4, LeftFrame
  <2> QED BY <2>3, <2>4
<1> QED BY <1>3, <1>4

LEMMA LeftConclude ==
    ASSUME IInv, LeftInv, NEW c \in Calls, UNCHANGED <<tables, calm, stood>>, NEW S,
           call[c].pc \in Reading, Conclude(c, S)
    PROVE  LeftInv'
<1>1. call[c] \in CallType
  BY DEF IInv
<1>2. CASE call[c].why = "inspect"
  <2> DEFINE to == Shown(call[c], computeEffectivePermissions(Subject(call[c].of), S))
  <2>1. Resume(c, to)
    BY <1>2 DEF Conclude, Concluded, Shown
  <2>2. to.pc = "ok"
    BY <1>1, ShownRecord DEF computeEffectivePermissions
  <2>3. ~Fills(to)
    BY <2>2 DEF Fills, Active, Over
  <2> HIDE DEF to
  <2> QED BY <2>1, <2>3, LeftOver
<1>3. CASE call[c].why \in {"guard", "grant"}
  <2> DEFINE pc == IF call[c].why = "guard" THEN requirePermission(c, S)
                                            ELSE assertCanGrantPolicy(c, S)
             to == Moved(call[c], pc)
  <2>1. Resume(c, to)
    BY <1>3 DEF Conclude, Concluded, Moved
  <2>2. \/ call[c].why = "guard" /\ pc \in {"refused", Handler(call[c])}
        \/ call[c].why = "grant" /\ pc \in {"refused", "a_attach"}
    BY <1>3 DEF requirePermission, assertCanGrantPolicy
  <2>3. /\ Handler(call[c]) \in {"w_subject", "w_insert", "w_protect", "a_actor", "w_apply"}
        /\ call[c].op \in {"create", "update"} => Handler(call[c]) \in {"w_insert", "w_protect"}
    BY <1>1 DEF Handler, CallType, Ops
  <2>4. pc \in Steps
    BY <2>2, <2>3 DEF Steps, Writing, Granting, Over
  <2> HIDE DEF pc
  <2>5. /\ to.pc = pc /\ Same(call[c], to) /\ to.todo = call[c].todo /\ to.policy = call[c].policy
        /\ to.why = call[c].why /\ to.body = call[c].body
    BY <1>1, <2>4, MovedRecord, BodyRecord
  <2> HIDE DEF to
  <2>6. CASE ~Fills(to)
    BY <2>1, <2>6, LeftOver
  <2>7. CASE Fills(to)
    <3>1. Active(call[c]) /\ call[c].op \in {"create", "update"} /\ pc # "refused"
      BY <2>5, <2>7 DEF Active, Reading, Over, Fills, Same
    <3>2. \/ call[c].why = "guard" /\ pc \in {"w_insert", "w_protect"}
          \/ call[c].why = "grant" /\ pc = "a_attach"
      BY <2>2, <2>3, <3>1
    <3>3. (Filling(to) <=> Filling(call[c])) /\ (ForGrant(to) <=> ForGrant(call[c]))
          /\ ~Inspecting(to) /\ call[c].pc # "a_actor"
      BY <2>5, <3>2 DEF Filling, ForGrant, Inspecting, Reading, Granting
    <3> QED BY <2>1, <2>5, <3>1, <3>3, LeftRead
  <2> QED BY <2>6, <2>7
<1> QED BY <1>1, <1>2, <1>3 DEF CallType

LEMMA LeftQueries ==
    ASSUME IInv, LeftInv, NEW c \in Calls,
           ReadDirect(c) \/ ReadRoles(c) \/ ReadGroups(c) \/ ReadStatements(c)
    PROVE  LeftInv'
<1>1. UNCHANGED <<tables, calm, stood>> /\ call[c].pc \in Reading /\ call[c] \in CallType
  BY DEF ReadDirect, ReadRoles, ReadGroups, ReadStatements, Reads, Reading, IInv
<1>2. CASE ReadDirect(c) \/ ReadRoles(c)
  <2>1. \E pc \in {"q_roles", "q_groups"}, reach \in SUBSET Policies :
           Resume(c, Reaching(call[c], pc, reach))
    BY <1>1, <1>2 DEF ReadDirect, ReadRoles, Reaching, OfRoles, CallType
  <2>2. {"q_roles", "q_groups"} \subseteq Reading
    BY DEF Reading
  <2> QED BY <1>1, <2>1, <2>2, LeftReading
<1>3. CASE ReadGroups(c)
  <2>1. \/ Conclude(c, {})
        \/ Resume(c, Reaching(call[c], "q_statements", Gathered(c)))
    BY <1>3 DEF ReadGroups, Gathered, Reaching
  <2>2. Gathered(c) \in SUBSET Policies /\ "q_statements" \in Reading
    BY <1>1 DEF Gathered, OfGroups, CallType, Reading
  <2> QED BY <1>1, <2>1, <2>2, LeftConclude, LeftReading
<1>4. CASE ReadStatements(c)
  BY <1>1, <1>4, LeftConclude DEF ReadStatements
<1> QED BY <1>2, <1>3, <1>4

LEMMA LeftGrantActor == ASSUME IInv, LeftInv, NEW c \in Calls, GrantActor(c) PROVE LeftInv'
<1> DEFINE pc == IF call[c].actor \in Roots THEN "a_attach" ELSE "a_actions"
<1>1. PICK p \in call[c].todo : Resume(c, Choosing(call[c], p, pc))
  BY DEF GrantActor, Choosing
<1> DEFINE to == Choosing(call[c], p, pc)
<1>2. /\ UNCHANGED <<tables, calm, stood>> /\ call[c] \in CallType /\ call[c].pc = "a_actor"
      /\ About(call[c]) /\ Ordered(call[c])
  BY DEF GrantActor, Reads, IInv, RequestOK, RecordOK
<1>3. p \in Policies /\ pc \in {"a_attach", "a_actions"} /\ pc \in Steps
  <2>1. call[c].todo \subseteq Policies
    BY <1>2, IamConstants DEF About, Ordered, Active, ForGrant, Granting, Over
  <2> QED BY <2>1 DEF Steps, Granting
<1> HIDE DEF pc
<1>4. to.pc = pc /\ Same(call[c], to) /\ to.policy = p /\ to.todo = call[c].todo
      /\ to.body = call[c].body
  BY <1>2, <1>3, ChoosingRecord, BodyRecord
<1> HIDE DEF to
<1>5. Active(call[c]) /\ ~Inspecting(to) /\ Filling(to) /\ Filling(call[c])
  BY <1>2, <1>3, <1>4 DEF Active, Inspecting, Filling, ForGrant, Granting, Reading, Over
<1>6. Resume(c, to) /\ to.policy \in call[c].todo
  BY <1>1, <1>4 DEF to
<1> QED BY <1>2, <1>4, <1>5, <1>6, LeftRead

LEMMA LeftAsk ==
    ASSUME IInv, LeftInv, NEW c \in Calls, getPolicyActions(c) \/ getEffectivePermissions(c)
    PROVE  LeftInv'
<1>1. /\ call[c] \in CallType /\ UNCHANGED tables
      /\ calm \in [Calls -> SUBSET {"call", "read"}] /\ calm' = [calm EXCEPT ![c] = @ \cup {"read"}]
  BY DEF IInv, getPolicyActions, getEffectivePermissions, Ask
<1>2. ("call" \in calm'[c] => "call" \in calm[c]) /\ \A d \in Calls \ {c} : calm'[d] = calm[d]
  BY <1>1
<1>3. CASE getPolicyActions(c)
  <2> DEFINE granted == PolicyActions(call[c].policy)
             to == Looking(Granted(call[c], granted), "grant")
  <2>1. Resume(c, to) /\ call[c].pc = "a_actions"
    BY <1>3 DEF getPolicyActions, Ask, Looking, Granted
  <2>2. /\ to.pc = "q_direct" /\ to.why = "grant" /\ to.policy = call[c].policy
        /\ to.todo = call[c].todo /\ to.body = call[c].body /\ Same(call[c], to)
    BY <1>1 DEF Looking, Granted, CallType, Same
  <2> HIDE DEF to
  <2>3. Active(call[c]) /\ ~Inspecting(to) /\ ForGrant(to) /\ ForGrant(call[c])
    BY <2>1, <2>2 DEF Active, Inspecting, ForGrant, Granting, Reading, Over
  <2> QED BY <1>1, <1>2, <2>1, <2>2, <2>3, LeftRead DEF Filling
<1>4. CASE getEffectivePermissions(c)
  <2> DEFINE to == Looking(call[c], "inspect")
  <2>1. Resume(c, to) /\ call[c].pc = "w_subject"
    BY <1>4 DEF getEffectivePermissions, Ask, Looking
  <2>2. Same(call[c], to)
    BY <1>1, LookingRecord
  <2> HIDE DEF to
  <2>3. "call" \in calm'[c] => call[c].op \notin {"create", "update"}
    BY <1>2, <2>1 DEF LeftInv, Tells, Left, Fills, Inspecting, Active, Over
  <2>4. "call" \in calm'[c] => ~Fills(to)
    BY <2>2, <2>3 DEF Fills, Same
  <2> QED BY <1>1, <1>2, <2>1, <2>4, LeftFrame DEF Left
<1> QED BY <1>3, <1>4

LEMMA LeftChecks ==
    ASSUME IInv, LeftInv, NEW c \in Calls, assertNotSystemRecord(c) \/ UpdateRow(c)
    PROVE  LeftInv'
<1>1. /\ UNCHANGED <<tables, calm, stood>> /\ call[c] \in CallType
      /\ call[c].pc \in {"w_protect", "w_rename"} /\ call[c].op # "create"
  BY DEF assertNotSystemRecord, UpdateRow, Reads, IInv, RequestOK, RecordOK, Ordered
<1>2. \E to : /\ Resume(c, to) /\ to \in CallType /\ Same(call[c], to) /\ to.body = call[c].body
              /\ to.todo = call[c].todo
              /\ to.pc \in {"refused", "failed", "missing", "ok", "w_delete", "w_rename", "w_clear"}
  <2>1. {"refused", "failed", "missing", "ok", "w_delete", "w_rename", "w_clear"} \subseteq Steps
    BY DEF Steps, Over, Writing
  <2>2. ASSUME NEW pc \in {"refused", "failed", "w_delete", "w_rename"}, Goto(c, pc)
        PROVE  /\ Resume(c, Moved(call[c], pc)) /\ Moved(call[c], pc) \in CallType
               /\ Same(call[c], Moved(call[c], pc)) /\ Moved(call[c], pc).body = call[c].body
               /\ Moved(call[c], pc).todo = call[c].todo /\ Moved(call[c], pc).pc = pc
    <3>1. Resume(c, Moved(call[c], pc)) /\ pc \in Steps
      BY <2>1, <2>2 DEF Goto, Moved
    <3> QED BY <1>1, <3>1, MovedRecord, BodyRecord
  <2>3. CASE assertNotSystemRecord(c)
    <3>1. \E pc \in {"refused", "failed", "w_delete", "w_rename"} : Goto(c, pc)
      BY <2>3 DEF assertNotSystemRecord
    <3> QED BY <2>2, <3>1
  <2>4. CASE UpdateRow(c) /\ Goto(c, "failed")
    BY <2>2, <2>4
  <2>5. CASE UpdateRow(c) /\ ~Goto(c, "failed")
    <3> DEFINE found == call[c].on \in Live
               pc == IF call[c].op = "update" THEN "w_clear" ELSE IF found THEN "ok" ELSE "missing"
               to == Finding(call[c], found, pc)
    <3>1. Resume(c, to)
      BY <2>5 DEF UpdateRow, Finding
    <3>2. pc \in {"w_clear", "ok", "missing"} /\ pc \in Steps /\ found \in BOOLEAN
      BY <2>1
    <3> HIDE DEF pc, found
    <3>3. to \in CallType /\ to.pc = pc /\ Same(call[c], to) /\ to.todo = call[c].todo
          /\ to.body = call[c].body
      BY <1>1, <3>2, FindingRecord, BodyRecord
    <3> HIDE DEF to
    <3> QED BY <3>1, <3>2, <3>3
  <2> QED BY <2>3, <2>4, <2>5
<1>3. PICK to : /\ Resume(c, to) /\ Same(call[c], to) /\ to.body = call[c].body
                /\ to.todo = call[c].todo
                /\ to.pc \in {"refused", "failed", "missing", "ok", "w_delete", "w_rename", "w_clear"}
  BY <1>2
<1>4. Active(call[c]) /\ ~Inspecting(to) /\ ~Filling(to) /\ ~Filling(call[c]) /\ ~ForGrant(to)
  BY <1>1, <1>3 DEF Active, Inspecting, Filling, ForGrant, Granting, Reading, Over
<1> QED BY <1>1, <1>3, <1>4, LeftRead

LEMMA LeftArrive == ASSUME IInv, LeftInv, NEW c \in Calls, Arrive(c) PROVE LeftInv'
<1>1. PICK asks, op, of, on, body :
         Request(c, asks, op, of, on, body) /\ (op = "create" => row[on] = "unused")
  <2>1. CASE PostRole(c) \/ PostGroup(c) \/ PostPolicy(c)
    BY <2>1 DEF PostRole, PostGroup, PostPolicy, Unclaimed
  <2>2. CASE GetPermissions(c)
    BY <2>2 DEF GetPermissions
  <2>3. CASE PostUserRole(c) \/ PostUserGroup(c)
    BY <2>3 DEF PostUserRole, PostUserGroup
  <2>9. CASE PostUserPolicy(c)
    <3>1. PICK u \in Users, p \in Policies : Request(c, "policies:update", "link", u, p, {p})
      BY <2>9 DEF PostUserPolicy
    <3> QED BY <3>1
  <2>4. CASE DeleteUserRole(c) \/ DeleteUserGroup(c) \/ DeleteUserPolicy(c)
    BY <2>4 DEF DeleteUserRole, DeleteUserGroup, DeleteUserPolicy
  <2>5. CASE PutRole(c)
    BY <2>5 DEF PutRole
  <2>6. CASE PutGroup(c)
    BY <2>6 DEF PutGroup
  <2>7. CASE PutPolicy(c)
    BY <2>7 DEF PutPolicy
  <2>8. CASE DeleteRole(c) \/ DeleteGroup(c) \/ DeletePolicy(c)
    BY <2>8 DEF DeleteRole, DeleteGroup, DeletePolicy
  <2> QED BY <2>1, <2>2, <2>3, <2>4, <2>5, <2>6, <2>7, <2>8, <2>9 DEF Arrive
<1>2. PICK u \in Users : Resume(c, Arrived(u, asks, op, of, on, body))
  BY <1>1 DEF Request, Arrived
<1> DEFINE to == Arrived(u, asks, op, of, on, body)
<1>3. /\ to.pc = "q_direct" /\ to.why = "guard" /\ to.op = op /\ to.on = on
      /\ to.body = body /\ to.todo = body
  BY DEF Arrived, Idle
<1>4. Resume(c, to) /\ UNCHANGED tables /\ \A d \in Calls \ {c} : calm'[d] = calm[d]
  BY <1>1, <1>2 DEF Request, IInv
<1> HIDE DEF to
<1>5. op = "create" => on \notin Live'
  BY <1>1, <1>4, HoldsSame DEF Live
<1>6. ~Inspecting(to) /\ ~ForGrant(to) /\ ~Filling(to)
  BY <1>3 DEF Inspecting, ForGrant, Filling, Granting, Reading
<1>7. Left(to, Holds(to.on)', to.on \in Live')
  BY <1>3, <1>5, <1>6 DEF Left
<1> QED BY <1>4, <1>7, LeftFrame

LEMMA LeftFail == ASSUME IInv, LeftInv, NEW c \in Calls, Fail(c) PROVE LeftInv'
<1> DEFINE to == Moved(Idle, IF Inspects(c) THEN "missing" ELSE "failed")
<1>1. Resume(c, to) /\ UNCHANGED <<tables, calm, stood>>
  BY DEF Fail, Reads, Moved
<1>2. to.pc \in {"missing", "failed"}
  BY IdleRecord, MovedRecord DEF Steps, Over
<1>3. ~Fills(to)
  BY <1>2 DEF Fills, Active, Over
<1> HIDE DEF to
<1> QED BY <1>1, <1>3, LeftOver

\* The last query of a request
LEMMA LeftGoto ==
    ASSUME IInv, LeftInv, NEW c \in Calls, NEW pc \in Over, Goto(c, pc),
           UNCHANGED <<tables, calm, stood>> \/ Wrote(c)
    PROVE  LeftInv'
<1>1. call[c] \in CallType /\ Resume(c, Moved(call[c], pc)) /\ pc \in Steps
  BY DEF IInv, Goto, Moved, Steps
<1>2. ~Fills(Moved(call[c], pc))
  BY <1>1, MovedRecord DEF Fills, Active
<1> QED BY <1>1, <1>2, LeftOver

LEMMA LeftLinks ==
    ASSUME IInv, LeftInv, NEW c \in Calls,
           \/ assignRoleToUser(c) \/ removeRoleFromUser(c) \/ addUserToGroup(c)
           \/ removeUserFromGroup(c) \/ detachPolicyFromUser(c)
           \/ deleteRole(c) \/ deleteGroup(c) \/ deletePolicy(c)
    PROVE  LeftInv'
<1>1. \E pc \in Over : Goto(c, pc) /\ (Wrote(c) \/ UNCHANGED <<tables, calm, stood>>)
  <2>1. CASE assignRoleToUser(c) \/ addUserToGroup(c)
    BY <2>1 DEF assignRoleToUser, addUserToGroup, Linked, Reads, Over
  <2>2. CASE removeRoleFromUser(c) \/ removeUserFromGroup(c) \/ detachPolicyFromUser(c)
    BY <2>2 DEF removeRoleFromUser, removeUserFromGroup, detachPolicyFromUser, Unlinked, Over
  <2>3. CASE deleteRole(c) \/ deleteGroup(c) \/ deletePolicy(c)
    BY <2>3 DEF deleteRole, deleteGroup, deletePolicy, Delete, Reads, Over
  <2> QED BY <2>1, <2>2, <2>3
<1> QED BY <1>1, LeftGoto

\* The steps that fill a record
Inserts(c) == createRole(c) \/ createGroup(c) \/ createPolicy(c)
Clears(c) == updateRole(c) \/ updateGroup(c) \/ updatePolicy(c)
Attaches(c) == attachPolicyToRole(c) \/ attachPolicyToGroup(c)

\* What one of them leaves, where it does not fail
Leaves(c, x, to) ==
    /\ Resume(c, to) /\ Wrote(c) /\ to.on = x /\ to.body = call[c].body
    /\ Holds(x)' = to.body \ to.todo /\ to.todo \subseteq to.body
    /\ \/ to.pc = "ok" /\ to.todo = {}
       \/ to.pc \in {"missing", "a_actor", "w_fill"}

LEMMA HoldsNothing ==
    ASSUME TablesOK, NEW x \in Records, x \notin Live
    PROVE  Holds(x) = {}
BY DEF TablesOK, LinksHold, Holds, Records

LEMMA InsertLeaves ==
    ASSUME IInv, LeftInv, NEW c \in Calls, "call" \in calm[c], Inserts(c), NEW x, x = call[c].on
    PROVE  (Goto(c, "failed") /\ Reads) \/ \E to : Leaves(c, x, to)
<1>1. call[c].pc = "w_insert" /\ call[c].pc \in Editing
  BY DEF Inserts, createRole, createGroup, createPolicy, Insert, Editing
<1>2. /\ x \in Records /\ call[c] \in CallType /\ call[c].op = "create" /\ Active(call[c])
  BY <1>1, Editor DEF RecordOK, Ordered
<1>3. ~Filling(call[c])
  BY <1>1 DEF Filling, ForGrant, Granting, Reading
<1>4. call[c].todo = call[c].body /\ x \notin Live
  BY <1>2, <1>3 DEF LeftInv, Tells, Left, Fills
<1>5. Holds(x) = {}
  BY <1>2, <1>4, HoldsNothing DEF IInv
<1> SUFFICES ASSUME ~(Goto(c, "failed") /\ Reads) PROVE \E to : Leaves(c, x, to)
  OBVIOUS
<1>6. /\ Wrote(c)
      /\ UNCHANGED <<content, userPolicies, rolePolicies, groupPolicies, userRoles, userGroups>>
  BY DEF Inserts, createRole, createGroup, createPolicy, Insert
<1>7. \/ call[c].todo = {} /\ Goto(c, "ok")
      \/ Goto(c, "a_actor") \/ Goto(c, "w_fill")
  BY DEF Inserts, createRole, createGroup, createPolicy, Insert
<1>8. Holds(x)' = {}
  BY <1>5, <1>6 DEF Holds
<1>9. PICK pc \in {"ok", "a_actor", "w_fill"} : Goto(c, pc) /\ (pc = "ok" => call[c].todo = {})
  BY <1>7
<1> DEFINE to == Moved(call[c], pc)
<1>10. Resume(c, to) /\ pc \in Steps
  BY <1>9 DEF Goto, Moved, Steps, Over, Granting, Writing
<1>11. /\ to.pc = pc /\ to.on = x /\ to.todo = call[c].todo /\ to.body = call[c].body
  BY <1>2, <1>10, MovedRecord, BodyRecord DEF Same
<1> HIDE DEF to
<1>12. Leaves(c, x, to)
  BY <1>4, <1>6, <1>8, <1>9, <1>10, <1>11 DEF Leaves
<1> QED BY <1>12

LEMMA ClearLeaves ==
    ASSUME IInv, LeftInv, NEW c \in Calls, "call" \in calm[c], Clears(c), NEW x, x = call[c].on
    PROVE  \E to : Leaves(c, x, to)
<1>1. call[c].pc = "w_clear" /\ call[c].pc \in Editing /\ Wrote(c)
  BY DEF Clears, updateRole, updateGroup, updatePolicy, Cleared, Editing
<1>2. /\ x \in Records /\ call[c] \in CallType /\ call[c].op = "update" /\ Active(call[c])
  BY <1>1, Editor DEF RecordOK, Ordered
<1>3. ~Filling(call[c])
  BY <1>1 DEF Filling, ForGrant, Granting, Reading
<1>4. call[c].todo = call[c].body
  BY <1>2, <1>3 DEF LeftInv, Tells, Left, Fills
<1>5. Holds(x)' = {}
  <2>1. CASE updateRole(c)
    BY <2>1 DEF updateRole, Holds
  <2>2. CASE updateGroup(c)
    BY <2>2, IamConstants DEF updateGroup, Holds
  <2>3. CASE updatePolicy(c)
    <3>1. x \in Policies /\ x \notin Roles \cup Groups /\ content' = [content EXCEPT ![x] = {}]
      BY <2>3, IamConstants DEF updatePolicy
    <3>2. content'[x] = {}
      BY <3>1 DEF IInv, TablesOK
    <3> QED BY <3>1, <3>2 DEF Holds
  <2> QED BY <2>1, <2>2, <2>3 DEF Clears
<1>6. \/ call[c].todo = {} /\ (Goto(c, "ok") \/ Goto(c, "missing"))
      \/ Goto(c, "a_actor") \/ Goto(c, "w_fill")
  BY DEF Clears, updateRole, updateGroup, updatePolicy, Cleared, Done
<1>7. PICK pc \in {"ok", "missing", "a_actor", "w_fill"} :
         Goto(c, pc) /\ (pc = "ok" => call[c].todo = {})
  BY <1>6
<1> DEFINE to == Moved(call[c], pc)
<1>8. Resume(c, to) /\ pc \in Steps
  BY <1>7 DEF Goto, Moved, Steps, Over, Granting, Writing
<1>9. /\ to.pc = pc /\ to.on = x /\ to.todo = call[c].todo /\ to.body = call[c].body
  BY <1>2, <1>8, MovedRecord, BodyRecord DEF Same
<1> HIDE DEF to
<1>10. Leaves(c, x, to)
  BY <1>1, <1>4, <1>5, <1>7, <1>8, <1>9 DEF Leaves
<1> QED BY <1>10

LEMMA AttachLeaves ==
    ASSUME IInv, LeftInv, NEW c \in Calls, "call" \in calm[c], Attaches(c), NEW x, x = call[c].on
    PROVE  (Goto(c, "failed") /\ Reads) \/ \E to : Leaves(c, x, to)
<1> DEFINE p == call[c].policy
           todo == call[c].todo \ {p}
           pc == IF todo = {} THEN Done(c) ELSE "a_actor"
           to == Having(call[c], todo, pc)
<1>1. /\ call[c].pc = "a_attach" /\ call[c].op # "link" /\ x \in Roles \cup Groups
      /\ call[c] \in CallType /\ RecordOK(call[c])
  BY DEF Attaches, attachPolicyToRole, attachPolicyToGroup, IInv, RequestOK
<1>2. ForGrant(call[c]) /\ Active(call[c])
  BY <1>1 DEF ForGrant, Active, Granting, Over
<1>3. call[c].op \in {"create", "update"} /\ p \in Policies
  BY <1>1, <1>2 DEF RecordOK, Ordered, About
<1>4. Holds(x) = call[c].body \ call[c].todo /\ p \in call[c].todo /\ call[c].todo \subseteq call[c].body
  BY <1>1, <1>2, <1>3 DEF LeftInv, Tells, Left, Fills, Filling
<1> SUFFICES ASSUME ~(Goto(c, "failed") /\ Reads) PROVE \E t : Leaves(c, x, t)
  OBVIOUS
<1>5. Resume(c, to) /\ Wrote(c)
  BY DEF Attaches, attachPolicyToRole, attachPolicyToGroup, Attached, Having
<1>6. \/ /\ x \in Roles /\ rolePolicies' = rolePolicies \cup {<<x, p>>}
      \/ /\ x \in Groups /\ groupPolicies' = groupPolicies \cup {<<x, p>>}
  BY DEF Attaches, attachPolicyToRole, attachPolicyToGroup, Attached
<1>7. PICK q : q = p
  OBVIOUS
<1>8. Holds(x)' = Holds(x) \cup {q}
  <2>1. q \in Policies
    BY <1>3, <1>7
  <2>2. CASE x \in Roles /\ rolePolicies' = rolePolicies \cup {<<x, q>>}
    BY <2>1, <2>2 DEF Holds
  <2>3. CASE x \in Groups /\ x \notin Roles /\ groupPolicies' = groupPolicies \cup {<<x, q>>}
    BY <2>1, <2>3 DEF Holds
  <2> QED BY <1>6, <1>7, <2>2, <2>3, IamConstants
<1>9. todo \in Bodies /\ pc \in Steps /\ pc \in {"ok", "missing", "a_actor"} /\ (pc = "ok" => todo = {})
  BY <1>1 DEF CallType, Bodies, Done, Steps, Over, Granting
<1>10. Holds(x)' = call[c].body \ todo /\ todo \subseteq call[c].body
  BY <1>4, <1>7, <1>8
<1> HIDE DEF todo, pc
<1>11. /\ to.pc = pc /\ to.on = x /\ to.todo = todo /\ to.body = call[c].body
  BY <1>1, <1>9, HavingRecord, BodyRecord DEF Same
<1> HIDE DEF to
<1>12. Leaves(c, x, to)
  BY <1>5, <1>9, <1>10, <1>11 DEF Leaves
<1> QED BY <1>12

LEMMA InsertStatementLeaves ==
    ASSUME IInv, LeftInv, NEW c \in Calls, "call" \in calm[c], InsertStatement(c),
           NEW x, x = call[c].on
    PROVE  (Goto(c, "failed") /\ Reads) \/ \E to : Leaves(c, x, to)
<1>1. call[c].pc = "w_fill" /\ call[c].pc \in Editing
  BY DEF InsertStatement, Editing
<1>2. /\ call[c] \in CallType /\ Active(call[c]) /\ call[c].op \in {"create", "update"}
      /\ x \in Policies /\ x \notin Roles \cup Groups /\ call[c].todo \subseteq Statements
  BY <1>1, Editor, IamConstants DEF RecordOK, Ordered, About
<1>3. Holds(x) = call[c].body \ call[c].todo /\ call[c].todo \subseteq call[c].body
  BY <1>1, <1>2 DEF LeftInv, Tells, Left, Fills, Filling
<1> SUFFICES ASSUME ~(Goto(c, "failed") /\ Reads) PROVE \E to : Leaves(c, x, to)
  OBVIOUS
<1> DEFINE Todo(s) == call[c].todo \ {s}
           Pc(s) == IF Todo(s) = {} THEN Done(c) ELSE "w_fill"
<1>4. PICK s \in call[c].todo :
         /\ content' = [content EXCEPT ![x] = @ \cup {s}] /\ Wrote(c)
         /\ Resume(c, Having(call[c], Todo(s), Pc(s)))
  BY DEF InsertStatement, Having
<1> DEFINE todo == Todo(s)
           pc == Pc(s)
           to == Having(call[c], todo, pc)
<1>5. todo \subseteq Statements /\ pc \in {"ok", "missing", "w_fill"} /\ (pc = "ok" => todo = {})
  BY <1>2 DEF Done
<1>6. Holds(x)' = Holds(x) \cup {s}
  <2>1. content'[x] = content[x] \cup {s}
    BY <1>2, <1>4 DEF IInv, TablesOK
  <2> QED BY <1>2, <2>1 DEF Holds
<1>7. Holds(x)' = call[c].body \ todo /\ todo \subseteq call[c].body
  BY <1>3, <1>4, <1>6
<1>8. Resume(c, to)
  BY <1>4
<1> HIDE DEF todo, pc
<1>9. todo \in Bodies /\ pc \in Steps
  BY <1>5 DEF Bodies, Steps, Over, Writing
<1>10. /\ to.pc = pc /\ to.on = x /\ to.todo = todo /\ to.body = call[c].body
  BY <1>2, <1>9, HavingRecord, BodyRecord DEF Same
<1> HIDE DEF to
<1>11. Leaves(c, x, to)
  BY <1>4, <1>5, <1>7, <1>8, <1>10 DEF Leaves
<1> QED BY <1>11

LEMMA LeftFills ==
    ASSUME IInv, LeftInv, NEW c \in Calls,
           Inserts(c) \/ Clears(c) \/ Attaches(c) \/ InsertStatement(c)
    PROVE  LeftInv'
<1>1. CASE Goto(c, "failed") /\ Reads
  BY <1>1, LeftGoto DEF Reads, Over
<1>2. CASE ~(Goto(c, "failed") /\ Reads) /\ "call" \in calm[c]
  <2>1. PICK x : x = call[c].on
    OBVIOUS
  <2>2. PICK to : Leaves(c, x, to)
    BY <1>2, <2>1, InsertLeaves, ClearLeaves, AttachLeaves, InsertStatementLeaves
  <2>3. /\ to.on = x /\ Holds(x)' = to.body \ to.todo /\ to.todo \subseteq to.body
        /\ to.pc \in {"ok", "missing", "a_actor", "w_fill"}
    BY <2>2 DEF Leaves
  <2>4. to.pc \in {"a_actor", "w_fill"} => ~Inspecting(to) /\ Filling(to)
    BY DEF Inspecting, Filling, ForGrant, Granting, Reading
  <2>5. to.pc = "w_fill" => ~ForGrant(to)
    BY DEF ForGrant, Granting, Reading
  <2>6. to.pc \in {"ok", "missing"} => ~Fills(to)
    BY DEF Fills, Active, Over
  <2>7. Left(to, Holds(x)', x \in Live')
    BY <2>3, <2>4, <2>5, <2>6 DEF Left
  <2> QED BY <2>2, <2>3, <2>7, LeftFrame DEF Leaves
<1>3. CASE ~(Goto(c, "failed") /\ Reads) /\ "call" \notin calm[c]
  <2>1. PICK to : Resume(c, to)
    BY Resumes DEF Step, Inserts, Clears, Attaches
  <2>2. Wrote(c)
    <3>1. CASE Inserts(c)
      BY <1>3, <3>1 DEF Inserts, createRole, createGroup, createPolicy, Insert
    <3>2. CASE Clears(c)
      BY <3>2 DEF Clears, updateRole, updateGroup, updatePolicy
    <3>3. CASE Attaches(c)
      <4>1. CASE attachPolicyToRole(c)
        BY <1>3, <4>1 DEF attachPolicyToRole, Attached
      <4>2. CASE attachPolicyToGroup(c)
        BY <1>3, <4>2 DEF attachPolicyToGroup, Attached
      <4> QED BY <3>3, <4>1, <4>2 DEF Attaches
    <3>4. CASE InsertStatement(c)
      BY <1>3, <3>4 DEF InsertStatement
    <3> QED BY <3>1, <3>2, <3>3, <3>4
  <2>3. "call" \notin calm'[c]
    BY <1>3, <2>2 DEF Wrote
  <2> QED BY <2>1, <2>2, <2>3, LeftFrame
<1> QED BY <1>1, <1>2, <1>3

\* attachPolicyToUser is no part of a creation or an update.
LEMMA LeftAttachToUser ==
    ASSUME IInv, LeftInv, NEW c \in Calls, attachPolicyToUser(c)
    PROVE  LeftInv'
<1>1. CASE Goto(c, "failed") /\ Reads
  BY <1>1, LeftGoto DEF Reads, Over
<1>2. CASE ~(Goto(c, "failed") /\ Reads)
  <2> DEFINE todo == call[c].todo \ {call[c].policy}
             pc == IF todo = {} THEN Done(c) ELSE "a_actor"
             to == Having(call[c], todo, pc)
  <2>1. Resume(c, to) /\ Wrote(c) /\ call[c].op = "link" /\ call[c] \in CallType
    BY <1>2 DEF attachPolicyToUser, Attached, Having, IInv
  <2>2. to.op = "link"
    BY <2>1 DEF CallType, Having
  <2>3. ~Fills(to)
    BY <2>2 DEF Fills
  <2> HIDE DEF to
  <2> QED BY <2>1, <2>3, LeftOver
<1> QED BY <1>1, <1>2

LEMMA LeftInvariance == Spec => [](IInv /\ LeftInv)
<1>1. Init => IInv /\ LeftInv
  <2>1. Init => LeftInv
    BY DEF Init, LeftInv, Tells
  <2> QED BY <2>1, InitHolds
<1>2. IInv /\ LeftInv /\ [Next]_vars => (IInv /\ LeftInv)'
  <2> SUFFICES ASSUME IInv, LeftInv, [Next]_vars PROVE (IInv /\ LeftInv)'
    OBVIOUS
  <2>1. ASSUME NEW c \in Calls, Step(c) PROVE LeftInv'
    <3>1. CASE ReadDirect(c) \/ ReadRoles(c) \/ ReadGroups(c) \/ ReadStatements(c)
      BY <3>1, LeftQueries
    <3>2. CASE GrantActor(c) \/ getPolicyActions(c) \/ getEffectivePermissions(c)
      BY <3>2, LeftGrantActor, LeftAsk
    <3>3. CASE assertNotSystemRecord(c) \/ UpdateRow(c) \/ attachPolicyToUser(c)
      BY <3>3, LeftChecks, LeftAttachToUser
    <3>4. CASE Inserts(c) \/ Clears(c) \/ Attaches(c) \/ InsertStatement(c)
      BY <3>4, LeftFills
    <3>5. CASE \/ assignRoleToUser(c) \/ removeRoleFromUser(c) \/ addUserToGroup(c)
               \/ removeUserFromGroup(c) \/ detachPolicyFromUser(c)
               \/ deleteRole(c) \/ deleteGroup(c) \/ deletePolicy(c)
      BY <3>5, LeftLinks
    <3> QED BY <2>1, <3>1, <3>2, <3>3, <3>4, <3>5 DEF Step, Inserts, Clears, Attaches
  <2>2. ASSUME Next PROVE LeftInv'
    BY <2>1, <2>2, LeftArrive, LeftFail DEF Next
  <2>3. ASSUME UNCHANGED vars PROVE LeftInv'
    <3>1. UNCHANGED tables /\ call' = call /\ calm' = calm
      BY <2>3 DEF vars
    <3>2. ASSUME NEW c \in Calls PROVE Tells(c)'
      <4>1. Tells(c) /\ Holds(call[c].on)' = Holds(call[c].on) /\ Live' = Live
        BY <3>1 DEF LeftInv, tables, Holds, Live
      <4> QED BY <3>1, <4>1 DEF Tells
    <3> QED BY <3>2 DEF LeftInv
  <2> QED BY <2>2, <2>3, Inductive
<1> QED BY <1>1, <1>2, PTL DEF Spec

\* Only a step that fills ends a creation or an update well.
LEMMA Finishing ==
    ASSUME IInv, LeftInv, Next, NEW c \in Calls, Succeeds(c), "call" \in calm[c],
           call[c].op \in {"create", "update"}
    PROVE  Inserts(c) \/ Clears(c) \/ Attaches(c) \/ InsertStatement(c)
<1>1. PICK d \in Calls : Arrive(d) \/ Step(d) \/ Fail(d)
  BY DEF Next
<1>2. PICK to : Resume(d, to)
  BY <1>1, Resumes
<1>3. /\ call[c].pc \notin Over /\ call'[c].pc = "ok" /\ call'[c].pc # call[c].pc
      /\ call[c] \in CallType
  BY DEF Succeeds, Over, IInv
<1>4. d = c
  <2>1. ASSUME d # c PROVE call'[c] = call[c]
    BY <1>2, <2>1 DEF IInv, Resume
  <2> QED BY <1>3, <2>1
<1>5. ~Fail(c)
  <2>1. ASSUME Fail(c) PROVE call'[c].pc \in {"failed", "missing"}
    <3>1. PICK pc \in {"failed", "missing"} : Resume(c, Moved(Idle, pc))
      BY <2>1 DEF Fail, Moved
    <3>2. call'[c] = Moved(Idle, pc)
      BY <3>1 DEF Resume, IInv
    <3>3. pc \in Steps
      BY DEF Steps, Over
    <3> QED BY <3>2, <3>3, IdleRecord, MovedRecord
  <2> QED BY <1>3, <2>1
<1>6. ~Arrive(c)
  <2>1. ASSUME Arrive(c) PROVE call'[c].pc = "q_direct"
    <3>1. PICK asks, op, of, on, body : Request(c, asks, op, of, on, body)
      BY <2>1 DEF Arrive, GetPermissions, PostUserRole, DeleteUserRole, PostUserGroup, DeleteUserGroup,
         PostUserPolicy, DeleteUserPolicy, PostRole, PutRole, DeleteRole, PostGroup, PutGroup,
         DeleteGroup, PostPolicy, PutPolicy, DeletePolicy
    <3>2. PICK u \in Users : Resume(c, Arrived(u, asks, op, of, on, body))
      BY <3>1 DEF Request, Arrived
    <3>3. Arrived(u, asks, op, of, on, body).pc = "q_direct"
      BY DEF Arrived, Idle
    <3> QED BY <3>2, <3>3 DEF Resume, IInv
  <2> QED BY <1>3, <2>1
<1>7. ASSUME call[c].pc # "idle" PROVE Fills(call[c]) /\ ~Inspecting(call[c]) /\ Ordered(call[c])
  <2>1. Fills(call[c])
    BY <1>3, <1>7 DEF Fills, Active
  <2> QED BY <2>1 DEF LeftInv, Tells, Left, IInv, RequestOK, RecordOK
<1>8. ~(ReadDirect(c) \/ ReadRoles(c))
  <2>1. ASSUME ReadDirect(c) \/ ReadRoles(c) PROVE call'[c].pc \in {"q_roles", "q_groups"}
    <3>1. \E pc \in {"q_roles", "q_groups"} : \E reach : Resume(c, Reaching(call[c], pc, reach))
      BY <2>1 DEF ReadDirect, ReadRoles, Reaching
    <3>2. \A pc, reach : Reaching(call[c], pc, reach).pc = pc
      BY <1>3 DEF Reaching, CallType
    <3> QED BY <3>1, <3>2 DEF Resume, IInv
  <2> QED BY <1>3, <2>1
<1>9. ~(ReadGroups(c) \/ ReadStatements(c))
  <2>1. ASSUME ReadGroups(c) \/ ReadStatements(c) PROVE call[c].pc \in Reading /\ call[c].pc # "idle"
    BY <2>1 DEF ReadGroups, ReadStatements, Reading
  <2>2. ASSUME call[c].pc \in Reading, call[c].pc # "idle", NEW S, Conclude(c, S)
        PROVE  call'[c].pc # "ok"
    <3>1. call[c].why \in {"guard", "grant"}
      BY <1>3, <1>7, <2>2 DEF Inspecting, CallType
    <3>2. call'[c].pc \in {requirePermission(c, S), assertCanGrantPolicy(c, S)}
      BY <1>3, <2>2, <3>1 DEF Conclude, Concluded, Resume, IInv, CallType
    <3> QED BY <3>2 DEF requirePermission, assertCanGrantPolicy, Handler
  <2>3. CASE ReadStatements(c)
    BY <1>3, <2>1, <2>2, <2>3 DEF ReadStatements
  <2>4. CASE ReadGroups(c)
    <3>1. Resume(c, Reaching(call[c], "q_statements", Gathered(c))) => call'[c].pc = "q_statements"
      BY <1>3 DEF Resume, Reaching, IInv, CallType
    <3>2. Conclude(c, {}) \/ Resume(c, Reaching(call[c], "q_statements", Gathered(c)))
      BY <2>4 DEF ReadGroups, Gathered, Reaching
    <3> QED BY <1>3, <2>1, <2>2, <2>4, <3>1, <3>2
  <2> QED BY <2>3, <2>4
<1>10. ~(GrantActor(c) \/ getPolicyActions(c) \/ getEffectivePermissions(c))
  <2>1. ASSUME GrantActor(c) \/ getPolicyActions(c) \/ getEffectivePermissions(c)
        PROVE  call'[c].pc \in {"a_attach", "a_actions", "q_direct"}
    <3>1. ASSUME NEW t, Resume(c, t) PROVE call'[c] = t
      BY <3>1 DEF Resume, IInv
    <3>2. CASE GrantActor(c)
      <4> DEFINE pc == IF call[c].actor \in Roots THEN "a_attach" ELSE "a_actions"
      <4>1. PICK p \in call[c].todo : Resume(c, Choosing(call[c], p, pc))
        BY <3>2 DEF GrantActor, Choosing
      <4>2. Choosing(call[c], p, pc).pc = pc
        BY <1>3 DEF Choosing, CallType
      <4> QED BY <3>1, <4>1, <4>2
    <3>3. CASE getPolicyActions(c)
      <4>1. PICK granted : Resume(c, Looking(Granted(call[c], granted), "grant"))
        BY <3>3 DEF getPolicyActions, Ask, Looking, Granted
      <4>2. Looking(Granted(call[c], granted), "grant").pc = "q_direct"
        BY <1>3 DEF Looking, Granted, CallType
      <4> QED BY <3>1, <4>1, <4>2
    <3>4. CASE getEffectivePermissions(c)
      <4>1. Resume(c, Looking(call[c], "inspect"))
        BY <3>4 DEF getEffectivePermissions, Ask, Looking
      <4>2. Looking(call[c], "inspect").pc = "q_direct"
        BY <1>3 DEF Looking, CallType
      <4> QED BY <3>1, <4>1, <4>2
    <3> QED BY <2>1, <3>2, <3>3, <3>4
  <2> QED BY <1>3, <2>1
<1>11. ~(attachPolicyToUser(c) \/ assignRoleToUser(c) \/ removeRoleFromUser(c) \/ addUserToGroup(c)
         \/ removeUserFromGroup(c) \/ detachPolicyFromUser(c))
  BY DEF attachPolicyToUser, assignRoleToUser, removeRoleFromUser, addUserToGroup,
     removeUserFromGroup, detachPolicyFromUser, Linked, Unlinked
<1>12. ~(deleteRole(c) \/ deleteGroup(c) \/ deletePolicy(c))
  BY <1>7 DEF deleteRole, deleteGroup, deletePolicy, Delete, Ordered
<1>13. ~assertNotSystemRecord(c)
  <2>1. ASSUME assertNotSystemRecord(c) PROVE call'[c].pc \in {"refused", "w_delete", "w_rename"}
    BY <1>3, <2>1 DEF assertNotSystemRecord, Goto, Resume, IInv, CallType
  <2> QED BY <1>3, <2>1
<1>14. ~UpdateRow(c)
  <2>1. ASSUME UpdateRow(c) PROVE call'[c].pc \in {"w_clear", "failed"}
    <3>1. call[c].op = "update"
      BY <1>7, <2>1 DEF UpdateRow, Ordered
    <3>2. CASE Goto(c, "failed")
      BY <1>3, <3>2 DEF Goto, Resume, IInv, CallType
    <3>3. PICK found : Goto(c, "failed") \/ Resume(c, Finding(call[c], found, "w_clear"))
      BY <2>1, <3>1 DEF UpdateRow, Finding
    <3>4. Finding(call[c], found, "w_clear").pc = "w_clear"
      BY <1>3 DEF Finding, CallType
    <3> QED BY <3>2, <3>3, <3>4 DEF Resume, IInv
  <2> QED BY <1>3, <2>1
<1> QED BY <1>1, <1>4, <1>5, <1>6, <1>8, <1>9, <1>10, <1>11, <1>12, <1>13, <1>14
       DEF Step, Inserts, Clears, Attaches

(***************************************************************************)
(* A creation or an update that succeeds, with nobody else writing in the  *)
(* meantime, leaves what its body lists, although the old contents go      *)
(* first and the new come one by one (iam-service.ts:604-662, 886-963).    *)
(***************************************************************************)
THEOREM UpdatesAreWhole == Spec => UpdateReplaces
<1> DEFINE A == \A c \in Calls :
        Succeeds(c) /\ call[c].op \in {"create", "update"} /\ "call" \in calm[c] =>
            Holds(call[c].on)' = call[c].body
<1>1. IInv /\ LeftInv /\ [Next]_vars => [A]_vars
  <2> SUFFICES ASSUME IInv, LeftInv, Next, NEW c \in Calls, Succeeds(c), "call" \in calm[c],
                      call[c].op \in {"create", "update"}
               PROVE  Holds(call[c].on)' = call[c].body
    OBVIOUS
  <2>1. PICK x : x = call[c].on
    OBVIOUS
  <2>2. ~Goto(c, "failed")
    <3>1. ASSUME Goto(c, "failed") PROVE call'[c].pc = "failed"
      BY <3>1 DEF Goto, Resume, IInv, CallType
    <3> QED BY <3>1 DEF Succeeds
  <2>3. PICK to : Leaves(c, x, to)
    BY <2>1, <2>2, Finishing, InsertLeaves, ClearLeaves, AttachLeaves, InsertStatementLeaves
  <2>4. call'[c] = to
    BY <2>3 DEF Leaves, Resume, IInv
  <2>5. Holds(x)' = call[c].body
    BY <2>3, <2>4 DEF Leaves, Succeeds
  <2>6. call'[c].on = x
    BY <2>3, <2>4 DEF Leaves
  <2> QED BY <2>5, <2>6 DEF Holds
<1> QED BY <1>1, LeftInvariance, PTL DEF Spec, UpdateReplaces
=================================================================================
