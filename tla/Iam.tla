---------------------------------- MODULE Iam ----------------------------------
(***************************************************************************)
(* Administration of users, roles, groups and policies: the routes of      *)
(* apps/api/src/routes/v1/iam.ts, the guard each begins with               *)
(* (packages/iam/src/guard/authorization-guard.ts) and IamService          *)
(* (packages/iam/src/service/iam-service.ts) over its PostgreSQL tables.   *)
(*                                                                         *)
(* No method runs in a transaction, so the calls in flight interleave      *)
(* between any two queries.  Each action is one query, with the code that  *)
(* runs before the next is sent.  Row ids are never used twice.            *)
(***************************************************************************)
EXTENDS PolicyEngine, FiniteSets

CONSTANTS
    Users,          \* users.id; no route deletes a user
    Roots,          \* those whose identityType is ROOT
    Roles, Groups, Policies,    \* the ids that rows have or may get (bound)
    System,         \* the seeded rows with isSystem
    Statements,     \* what a policy may be made of
    Setups,         \* the contents the tables may start with
    Calls,          \* the requests of one behaviour (bound)
    Nobody,
    DbMayFail       \* may a query fail, or the process die?

Records == Roles \cup Groups \cup Policies

ASSUME IamConstants ==
    /\ Roots \subseteq Users
    /\ System \subseteq Records
    /\ Roles \cap Groups = {} /\ Roles \cap Policies = {} /\ Groups \cap Policies = {}
    /\ \A s \in Statements : s.effect \in {"allow", "deny"}
    /\ {"users:read", "roles:create", "roles:update", "roles:delete", "groups:create",
        "groups:update", "groups:delete", "policies:create", "policies:update",
        "policies:delete"} \subseteq Actions
    /\ Nobody \notin Users \cup Records /\ Users \cap Records = {}
    /\ DbMayFail \in BOOLEAN
    /\ \A u \in Setups :
        /\ u.live \subseteq Records /\ System \subseteq u.live
        /\ u.userPolicies \subseteq Users \X (Policies \cap u.live)
        /\ u.rolePolicies \subseteq (Roles \cap u.live) \X (Policies \cap u.live)
        /\ u.groupPolicies \subseteq (Groups \cap u.live) \X (Policies \cap u.live)
        /\ u.userRoles \subseteq Users \X (Roles \cap u.live)
        /\ u.userGroups \subseteq Users \X (Groups \cap u.live)
        /\ u.content \in [Policies -> SUBSET Statements]
        /\ \A p \in Policies \ u.live : u.content[p] = {}

VARIABLES
    row,            \* roles, groups and policies: is there a row with this id?
    content,        \* policyStatements, by policy
    userPolicies, rolePolicies, groupPolicies, userRoles, userGroups,
    call,           \* the local state of each request
    calm,           \* since when nobody else has written: "call", "read"
    stood           \* what has applied to the caller ever since the request began

tables == <<row, content, userPolicies, rolePolicies, groupPolicies, userRoles, userGroups>>
vars == <<tables, call, calm, stood>>

Live == {x \in Records : row[x] = "live"}

(***************************************************************************)
(* What applies to a user: direct policies, those of their roles and those *)
(* of their groups, each with the path it comes by.                        *)
(***************************************************************************)
PoliciesOf(u) ==
    {p \in Policies : \/ <<u, p>> \in userPolicies
                      \/ \E r \in Roles : <<u, r>> \in userRoles /\ <<r, p>> \in rolePolicies
                      \/ \E g \in Groups : <<u, g>> \in userGroups /\ <<g, p>> \in groupPolicies}

StatementsOf(u) == UNION {content[p] : p \in PoliciesOf(u)}

\* A path is a policy, a statement in it, and the role or group, or Nobody.
Applies(u, path) ==
    /\ path.statement \in content[path.policy]
    /\ \/ path.via = Nobody /\ <<u, path.policy>> \in userPolicies
       \/ /\ path.via \in Roles
          /\ <<u, path.via>> \in userRoles /\ <<path.via, path.policy>> \in rolePolicies
       \/ /\ path.via \in Groups
          /\ <<u, path.via>> \in userGroups /\ <<path.via, path.policy>> \in groupPolicies

Paths == [policy : Policies, via : Roles \cup Groups \cup {Nobody}, statement : Statements]
PathsOf(u) == {path \in Paths : Applies(u, path)}

Subject(u) == [id |-> u, status |-> "ACTIVE",
               type |-> IF u \in Roots THEN "ROOT" ELSE "EXTERNAL_USER"]

\* The action patterns of the allow statements
PolicyActions(p) == UNION {s.actions : s \in {t \in content[p] : t.effect = "allow"}}

(***************************************************************************)
(* Calls.  op on a row, for a user where the route names one; body is what *)
(* it shall hold afterwards and todo what is still to be inserted.         *)
(***************************************************************************)
Ops == {"link", "unlink", "create", "update", "rename", "delete", "inspect"}

\* q_: getUserStatements; a_: assertCanGrantPolicy; w_: the other queries
Reading == {"q_direct", "q_roles", "q_groups", "q_statements"}
Granting == {"a_actor", "a_actions", "a_attach"}
Writing == {"w_apply", "w_insert", "w_protect", "w_rename", "w_clear", "w_fill",
            "w_delete", "w_subject"}
Over == {"ok", "missing", "refused", "failed"}      \* 2xx, 404, 403 or 409, 500
Steps == {"idle"} \cup Reading \cup Granting \cup Writing \cup Over

Idle == [pc |-> "idle", op |-> "inspect", asks |-> Nothing, actor |-> Nobody, of |-> Nobody,
         on |-> Nobody, body |-> {}, todo |-> {}, found |-> TRUE, policy |-> Nobody,
         granted |-> {}, why |-> "guard", reach |-> {}, shown |-> {}]

Init ==
    /\ \E u \in Setups :
        /\ row = [x \in Records |-> IF x \in u.live THEN "live" ELSE "unused"]
        /\ content = u.content
        /\ userPolicies = u.userPolicies
        /\ rolePolicies = u.rolePolicies
        /\ groupPolicies = u.groupPolicies
        /\ userRoles = u.userRoles
        /\ userGroups = u.userGroups
    /\ call = [c \in Calls |-> Idle]
    /\ calm = [c \in Calls |-> {}]
    /\ stood = [c \in Calls |-> {}]

Resume(c, next) == call' = [call EXCEPT ![c] = next]
Goto(c, pc) == Resume(c, [call[c] EXCEPT !.pc = pc])

\* A query that changes nothing
Reads == UNCHANGED <<tables, calm, stood>>

\* One that does: the other requests are disturbed.
Wrote(c) ==
    /\ calm' = [d \in Calls |-> IF d = c THEN calm[d] ELSE {}]
    /\ stood' = [d \in Calls |-> {path \in stood[d] : Applies(call[d].actor, path)'}]

(***************************************************************************)
(* getUserStatements: three queries for policy ids and one for statements. *)
(***************************************************************************)
Ask(c, next, why) ==
    /\ Resume(c, [next EXCEPT !.pc = "q_direct", !.why = why, !.reach = {}])
    /\ calm' = [calm EXCEPT ![c] = @ \cup {"read"}]
    /\ UNCHANGED <<tables, stood>>

Reader(c) == IF call[c].why = "inspect" THEN call[c].of ELSE call[c].actor

ReadDirect(c) ==
    /\ call[c].pc = "q_direct"
    /\ Resume(c, [call[c] EXCEPT !.pc = "q_roles",
                    !.reach = {p \in Policies : <<Reader(c), p>> \in userPolicies}])
    /\ Reads

OfRoles(u) == {p \in Policies : \E r \in Roles :
                    <<u, r>> \in userRoles /\ <<r, p>> \in rolePolicies}
OfNoGroups(u) == {}                         \* variant: groups are forgotten
OfGroups(u) == {p \in Policies : \E g \in Groups :
                    <<u, g>> \in userGroups /\ <<g, p>> \in groupPolicies}

ReadRolesOnly(c) ==                         \* variant: the direct ones are lost
    /\ call[c].pc = "q_roles"
    /\ Resume(c, [call[c] EXCEPT !.pc = "q_groups", !.reach = OfRoles(Reader(c))])
    /\ Reads

ReadRoles(c) ==
    /\ call[c].pc = "q_roles"
    /\ Resume(c, [call[c] EXCEPT !.pc = "q_groups", !.reach = @ \cup OfRoles(Reader(c))])
    /\ Reads

\* Where the handler of a route begins
Handler(next) ==
    CASE next.op = "inspect" -> "w_subject"
      [] next.op = "create" -> "w_insert"
      [] next.op \in {"update", "rename", "delete"} -> "w_protect"
      [] next.op = "link" /\ next.on \in Policies -> "a_actor"
      [] OTHER -> "w_apply"

\* requirePermission and assertCanGrantPolicy, once they have the statements
requirePermission(c, S) ==
    IF Allowed(Subject(call[c].actor), S, call[c].asks, NoContext)
        THEN Handler(call[c]) ELSE "refused"

HoldsSome(c, S) ==                          \* variant: one action held is enough
    IF findUnheldActions(Subject(call[c].actor), S, call[c].granted) # call[c].granted
        THEN "a_attach" ELSE "refused"

assertCanGrantPolicy(c, S) ==
    IF findUnheldActions(Subject(call[c].actor), S, call[c].granted) = {}
        THEN "a_attach" ELSE "refused"

\* What the call goes on with, and what an inspection answers
Concluded(c, S) ==
    IF call[c].why = "inspect"
        THEN [call[c] EXCEPT !.pc = "ok",
                !.shown = computeEffectivePermissions(Subject(call[c].of), S)]
        ELSE [call[c] EXCEPT !.pc = IF call[c].why = "guard"
                THEN requirePermission(c, S) ELSE assertCanGrantPolicy(c, S)]

Conclude(c, S) == Resume(c, Concluded(c, S))

\* No policies, no fourth query
ReadGroups(c) ==
    /\ call[c].pc = "q_groups"
    /\ LET reach == call[c].reach \cup OfGroups(Reader(c))
       IN  \/ reach = {} /\ Conclude(c, {})
           \/ /\ reach # {}
              /\ Resume(c, [call[c] EXCEPT !.pc = "q_statements", !.reach = reach])
    /\ Reads

ReadStatements(c) ==
    /\ call[c].pc = "q_statements"
    /\ Conclude(c, UNION {content[p] : p \in call[c].reach})
    /\ Reads

(***************************************************************************)
(* assertCanGrantPolicy, once for each policy still to be attached.  ROOT  *)
(* may grant anything.                                                     *)
(***************************************************************************)
GrantActor(c) ==
    /\ call[c].pc = "a_actor"
    /\ \E p \in call[c].todo :
         Resume(c, [call[c] EXCEPT !.policy = p,
                     !.pc = IF call[c].actor \in Roots THEN "a_attach" ELSE "a_actions"])
    /\ Reads

getPolicyActions(c) ==
    /\ call[c].pc = "a_actions"
    /\ Ask(c, [call[c] EXCEPT !.granted = PolicyActions(call[c].policy)], "grant")

\* 200 or 201, or 404 for a row that an update did not find
Done(c) == IF call[c].found THEN "ok" ELSE "missing"

\* One more is in; a foreign key fails the insert if either row is gone.
Attached(c, holder, links, pair) ==
    \/ /\ holder \in Users \cup Live /\ call[c].policy \in Live
       /\ links' = links \cup {pair}
       /\ LET todo == call[c].todo \ {call[c].policy}
          IN  Resume(c, [call[c] EXCEPT !.todo = todo,
                          !.pc = IF todo = {} THEN Done(c) ELSE "a_actor"])
       /\ UNCHANGED <<row, content, userRoles, userGroups>>
       /\ Wrote(c)
    \/ /\ ~(holder \in Users \cup Live /\ call[c].policy \in Live)
       /\ Goto(c, "failed")
       /\ Reads

attachPolicyToUser(c) ==
    /\ call[c].pc = "a_attach" /\ call[c].op = "link"
    /\ UNCHANGED <<rolePolicies, groupPolicies>>
    /\ Attached(c, call[c].of, userPolicies, <<call[c].of, call[c].policy>>)

attachPolicyToRole(c) ==
    /\ call[c].pc = "a_attach" /\ call[c].op # "link" /\ call[c].on \in Roles
    /\ UNCHANGED <<userPolicies, groupPolicies>>
    /\ Attached(c, call[c].on, rolePolicies, <<call[c].on, call[c].policy>>)

attachPolicyToGroup(c) ==
    /\ call[c].pc = "a_attach" /\ call[c].op # "link" /\ call[c].on \in Groups
    /\ UNCHANGED <<userPolicies, rolePolicies>>
    /\ Attached(c, call[c].on, groupPolicies, <<call[c].on, call[c].policy>>)

(***************************************************************************)
(* The links of a user that no guard protects.                             *)
(***************************************************************************)
\* A foreign key fails the insert if the role or the group is gone.
Linked(c, links) ==
    /\ call[c].pc = "w_apply" /\ call[c].op = "link"
    /\ \/ /\ call[c].on \in Live
          /\ links' = links \cup {<<call[c].of, call[c].on>>}
          /\ Goto(c, "ok")
          /\ UNCHANGED <<row, content, userPolicies, rolePolicies, groupPolicies>>
          /\ Wrote(c)
       \/ call[c].on \notin Live /\ Goto(c, "failed") /\ Reads

Unlinked(c, links) ==
    /\ call[c].pc = "w_apply" /\ call[c].op = "unlink"
    /\ links' = links \ {<<call[c].of, call[c].on>>}
    /\ Goto(c, "ok")
    /\ UNCHANGED <<row, content, rolePolicies, groupPolicies>>
    /\ Wrote(c)

assignRoleToUser(c) ==
    call[c].on \in Roles /\ UNCHANGED userGroups /\ Linked(c, userRoles)
removeRoleFromUser(c) ==
    call[c].on \in Roles /\ UNCHANGED <<userPolicies, userGroups>> /\ Unlinked(c, userRoles)
addUserToGroup(c) ==
    call[c].on \in Groups /\ UNCHANGED userRoles /\ Linked(c, userGroups)
removeUserFromGroup(c) ==
    call[c].on \in Groups /\ UNCHANGED <<userPolicies, userRoles>> /\ Unlinked(c, userGroups)
detachPolicyFromUser(c) ==
    call[c].on \in Policies /\ UNCHANGED <<userRoles, userGroups>> /\ Unlinked(c, userPolicies)

(***************************************************************************)
(* Creation.  The name may be taken by another row of the kind; the row is *)
(* in before what belongs to it.                                           *)
(***************************************************************************)
Kind(x) == IF x \in Roles THEN Roles ELSE IF x \in Groups THEN Groups ELSE Policies

MayClash(x) == \E y \in Kind(x) \cap Live : y # x

Insert(c, next) ==
    /\ call[c].pc = "w_insert"
    /\ \/ /\ row' = [row EXCEPT ![call[c].on] = "live"]
          /\ Goto(c, IF call[c].todo = {} THEN "ok" ELSE next)
          /\ UNCHANGED <<content, userPolicies, rolePolicies, groupPolicies,
                         userRoles, userGroups>>
          /\ Wrote(c)
       \/ MayClash(call[c].on) /\ Goto(c, "failed") /\ Reads

createRole(c) == call[c].on \in Roles /\ Insert(c, "a_actor")
createGroup(c) == call[c].on \in Groups /\ Insert(c, "a_actor")
createPolicy(c) == call[c].on \in Policies /\ Insert(c, "w_fill")

(***************************************************************************)
(* assertNotSystemRecord.  A row that is not there passes.                 *)
(***************************************************************************)
Unprotected(c) ==                           \* variant: only deletions are checked
    /\ call[c].pc = "w_protect"
    /\ Goto(c, IF call[c].op # "delete" THEN "w_rename"
               ELSE IF call[c].on \in System \cap Live THEN "refused" ELSE "w_delete")
    /\ Reads

assertNotSystemRecord(c) ==
    /\ call[c].pc = "w_protect"
    /\ Goto(c, IF call[c].on \in System \cap Live THEN "refused"
               ELSE IF call[c].op = "delete" THEN "w_delete" ELSE "w_rename")
    /\ Reads

(***************************************************************************)
(* Updates: the row, then, where the body lists policies or statements,    *)
(* delete what it holds and insert what it shall hold one by one.          *)
(***************************************************************************)
UpdateRow(c) ==
    /\ call[c].pc = "w_rename"
    /\ LET found == call[c].on \in Live IN
       \/ Resume(c, [call[c] EXCEPT !.found = found,
                      !.pc = IF call[c].op = "update" THEN "w_clear"
                             ELSE IF found THEN "ok" ELSE "missing"])
       \/ found /\ MayClash(call[c].on) /\ Goto(c, "failed")
    /\ Reads

Cleared(c, next) ==
    /\ call[c].pc = "w_clear"
    /\ Goto(c, IF call[c].todo = {} THEN Done(c) ELSE next)
    /\ UNCHANGED <<row, userPolicies, userRoles, userGroups>>

updateRole(c) ==
    /\ call[c].on \in Roles
    /\ Cleared(c, "a_actor")
    /\ rolePolicies' = {pair \in rolePolicies : pair[1] # call[c].on}
    /\ UNCHANGED <<content, groupPolicies>>
    /\ Wrote(c)

updateGroup(c) ==
    /\ call[c].on \in Groups
    /\ Cleared(c, "a_actor")
    /\ groupPolicies' = {pair \in groupPolicies : pair[1] # call[c].on}
    /\ UNCHANGED <<content, rolePolicies>>
    /\ Wrote(c)

Appended(c) ==                              \* variant: the old statements stay
    /\ call[c].on \in Policies
    /\ Cleared(c, "w_fill")
    /\ UNCHANGED <<content, rolePolicies, groupPolicies>>
    /\ Wrote(c)

updatePolicy(c) ==
    /\ call[c].on \in Policies
    /\ Cleared(c, "w_fill")
    /\ content' = [content EXCEPT ![call[c].on] = {}]
    /\ UNCHANGED <<rolePolicies, groupPolicies>>
    /\ Wrote(c)

\* One statement of createPolicy or updatePolicy; its policy may be gone.
InsertStatement(c) ==
    /\ call[c].pc = "w_fill"
    /\ \/ \E s \in call[c].todo :
            /\ call[c].on \in Live
            /\ content' = [content EXCEPT ![call[c].on] = @ \cup {s}]
            /\ LET todo == call[c].todo \ {s}
               IN  Resume(c, [call[c] EXCEPT !.todo = todo,
                               !.pc = IF todo = {} THEN Done(c) ELSE "w_fill"])
            /\ UNCHANGED <<row, userPolicies, rolePolicies, groupPolicies,
                           userRoles, userGroups>>
            /\ Wrote(c)
       \/ call[c].on \notin Live /\ Goto(c, "failed") /\ Reads

(***************************************************************************)
(* Deletions.  Foreign keys cascade to the links and the statements.       *)
(***************************************************************************)
Without(links, x) == {pair \in links : pair[1] # x /\ pair[2] # x}

KeepsMembers(x) ==                          \* variant: user_groups does not cascade
    /\ content' = [p \in Policies |-> IF p = x THEN {} ELSE content[p]]
    /\ userPolicies' = Without(userPolicies, x)
    /\ rolePolicies' = Without(rolePolicies, x)
    /\ groupPolicies' = Without(groupPolicies, x)
    /\ userRoles' = Without(userRoles, x)
    /\ UNCHANGED userGroups

Cascade(x) ==
    /\ content' = [p \in Policies |-> IF p = x THEN {} ELSE content[p]]
    /\ userPolicies' = Without(userPolicies, x)
    /\ rolePolicies' = Without(rolePolicies, x)
    /\ groupPolicies' = Without(groupPolicies, x)
    /\ userRoles' = Without(userRoles, x)
    /\ userGroups' = Without(userGroups, x)

Delete(c) ==
    /\ call[c].pc = "w_delete"
    /\ \/ /\ call[c].on \in Live
          /\ row' = [row EXCEPT ![call[c].on] = "deleted"]
          /\ Cascade(call[c].on)
          /\ Goto(c, "ok")
          /\ Wrote(c)
       \/ call[c].on \notin Live /\ Goto(c, "missing") /\ Reads

deleteRole(c) == call[c].on \in Roles /\ Delete(c)
deleteGroup(c) == call[c].on \in Groups /\ Delete(c)
deletePolicy(c) == call[c].on \in Policies /\ Delete(c)

(***************************************************************************)
(* getEffectivePermissions reads the user and what the answer lists, then  *)
(* the statements its permissions are computed from.                       *)
(***************************************************************************)
getEffectivePermissions(c) ==
    /\ call[c].pc = "w_subject"
    /\ Ask(c, call[c], "inspect")

(***************************************************************************)
(* The routes: each asks for its permission first.                         *)
(***************************************************************************)
Request(c, asks, op, of, on, body) ==
    /\ call[c].pc = "idle"
    /\ \E u \in Users :
         /\ Resume(c, [Idle EXCEPT !.pc = "q_direct", !.actor = u, !.asks = asks, !.op = op,
                         !.of = of, !.on = on, !.body = body, !.todo = body])
         /\ stood' = [stood EXCEPT ![c] = PathsOf(u)]
    /\ calm' = [calm EXCEPT ![c] = {"call", "read"}]
    /\ UNCHANGED tables

\* Ids that a request may name, and ids that a new row may get
Known(x) == row[x] # "unused"
Unclaimed(x) == row[x] = "unused" /\ \A d \in Calls : call[d].on # x

GetPermissions(c) ==
    \E u \in Users : Request(c, "users:read", "inspect", u, Nobody, {})

PostUserRole(c) == \E u \in Users, r \in Roles :
    Known(r) /\ Request(c, "roles:update", "link", u, r, {})
DeleteUserRole(c) == \E u \in Users, r \in Roles :
    Known(r) /\ Request(c, "roles:update", "unlink", u, r, {})
PostUserGroup(c) == \E u \in Users, g \in Groups :
    Known(g) /\ Request(c, "groups:update", "link", u, g, {})
DeleteUserGroup(c) == \E u \in Users, g \in Groups :
    Known(g) /\ Request(c, "groups:update", "unlink", u, g, {})
PostUserPolicy(c) == \E u \in Users, p \in Policies :
    Known(p) /\ Request(c, "policies:update", "link", u, p, {p})
DeleteUserPolicy(c) == \E u \in Users, p \in Policies :
    Known(p) /\ Request(c, "policies:update", "unlink", u, p, {})

PostRole(c) == \E r \in Roles, body \in SUBSET Policies :
    Unclaimed(r) /\ Request(c, "roles:create", "create", Nobody, r, body)
PutRole(c) == \E r \in Roles :
    /\ Known(r)
    /\ \/ \E body \in SUBSET Policies : Request(c, "roles:update", "update", Nobody, r, body)
       \/ Request(c, "roles:update", "rename", Nobody, r, {})
DeleteRole(c) == \E r \in Roles :
    Known(r) /\ Request(c, "roles:delete", "delete", Nobody, r, {})

PostGroup(c) == \E g \in Groups, body \in SUBSET Policies :
    Unclaimed(g) /\ Request(c, "groups:create", "create", Nobody, g, body)
PutGroup(c) == \E g \in Groups :
    /\ Known(g)
    /\ \/ \E body \in SUBSET Policies : Request(c, "groups:update", "update", Nobody, g, body)
       \/ Request(c, "groups:update", "rename", Nobody, g, {})
DeleteGroup(c) == \E g \in Groups :
    Known(g) /\ Request(c, "groups:delete", "delete", Nobody, g, {})

\* CreatePolicySchema wants a statement at least.
PostPolicy(c) == \E p \in Policies, body \in (SUBSET Statements) \ {{}} :
    Unclaimed(p) /\ Request(c, "policies:create", "create", Nobody, p, body)
PutPolicy(c) == \E p \in Policies :
    /\ Known(p)
    /\ \/ \E body \in SUBSET Statements :
            Request(c, "policies:update", "update", Nobody, p, body)
       \/ Request(c, "policies:update", "rename", Nobody, p, {})
DeletePolicy(c) == \E p \in Policies :
    Known(p) /\ Request(c, "policies:delete", "delete", Nobody, p, {})

\* A query fails, or the process dies: what was written stays.  The route that
\* inspects a user answers 404 whatever went wrong.
Inspects(c) == call[c].pc = "w_subject" \/ (call[c].pc \in Reading /\ call[c].why = "inspect")

Fail(c) ==
    /\ DbMayFail
    /\ call[c].pc \notin Over \cup {"idle"}
    /\ Resume(c, [Idle EXCEPT !.pc = IF Inspects(c) THEN "missing" ELSE "failed"])
    /\ Reads

Step(c) ==
    \/ ReadDirect(c) \/ ReadRoles(c) \/ ReadGroups(c) \/ ReadStatements(c)
    \/ GrantActor(c) \/ getPolicyActions(c)
    \/ attachPolicyToUser(c) \/ attachPolicyToRole(c) \/ attachPolicyToGroup(c)
    \/ assignRoleToUser(c) \/ removeRoleFromUser(c)
    \/ addUserToGroup(c) \/ removeUserFromGroup(c) \/ detachPolicyFromUser(c)
    \/ createRole(c) \/ createGroup(c) \/ createPolicy(c)
    \/ assertNotSystemRecord(c) \/ UpdateRow(c)
    \/ updateRole(c) \/ updateGroup(c) \/ updatePolicy(c) \/ InsertStatement(c)
    \/ deleteRole(c) \/ deleteGroup(c) \/ deletePolicy(c)
    \/ getEffectivePermissions(c)

Arrive(c) ==
    \/ GetPermissions(c)
    \/ PostUserRole(c) \/ DeleteUserRole(c) \/ PostUserGroup(c) \/ DeleteUserGroup(c)
    \/ PostUserPolicy(c) \/ DeleteUserPolicy(c)
    \/ PostRole(c) \/ PutRole(c) \/ DeleteRole(c)
    \/ PostGroup(c) \/ PutGroup(c) \/ DeleteGroup(c)
    \/ PostPolicy(c) \/ PutPolicy(c) \/ DeletePolicy(c)

Next == \E c \in Calls : Arrive(c) \/ Step(c) \/ Fail(c)

Spec == Init /\ [][Next]_vars

(***************************************************************************)
(* The invariant.                                                          *)
(***************************************************************************)
CallsOK ==
    call \in [Calls -> [pc : Steps, op : Ops, asks : Actions \cup {Nothing},
                        actor : Users \cup {Nobody}, of : Users \cup {Nobody},
                        on : Records \cup {Nobody},
                        body : (SUBSET Policies) \cup (SUBSET Statements),
                        todo : (SUBSET Policies) \cup (SUBSET Statements),
                        found : BOOLEAN, policy : Policies \cup {Nobody},
                        granted : SUBSET UNION {s.actions : s \in Statements},
                        why : {"guard", "grant", "inspect"}, reach : SUBSET Policies,
                        shown : SUBSET Catalog]]

TypeOK ==
    /\ row \in [Records -> {"unused", "live", "deleted"}]
    /\ content \in [Policies -> SUBSET Statements]
    /\ CallsOK
    /\ calm \in [Calls -> SUBSET {"call", "read"}]
    /\ stood \in [Calls -> SUBSET Paths]

\* Every link joins rows that are there, and so does every statement.
LinksHold ==
    /\ userPolicies \subseteq Users \X (Policies \cap Live)
    /\ rolePolicies \subseteq (Roles \cap Live) \X (Policies \cap Live)
    /\ groupPolicies \subseteq (Groups \cap Live) \X (Policies \cap Live)
    /\ userRoles \subseteq Users \X (Roles \cap Live)
    /\ userGroups \subseteq Users \X (Groups \cap Live)
    /\ \A p \in Policies \ Live : content[p] = {}

\* Past assertNotSystemRecord no call is after a system row, and no system row
\* is among those that are still to be created.
SystemIsLive == System \subseteq Live

Editing == {"w_insert", "w_rename", "w_clear", "w_fill", "w_delete"}
Edits(c) ==
    \/ call[c].op = "create" /\ call[c].pc # "idle"
    \/ call[c].op \in {"update", "rename", "delete"} /\ call[c].pc \in Editing \cup Granting
    \/ call[c].op = "update" /\ call[c].pc \in Reading /\ call[c].why = "grant"
EditsAreOfOthers == \A c \in Calls : Edits(c) => call[c].on \in Records \ System

\* The type of the state, and what its parts say of one another.
IamInv == TypeOK /\ LinksHold /\ SystemIsLive /\ EditsAreOfOthers

(***************************************************************************)
(* Properties.                                                             *)
(***************************************************************************)
Authorised(c) ==
    \/ call[c].pc \in Granting \cup Writing \cup {"ok", "missing"}
    \/ call[c].pc \in Reading /\ call[c].why # "guard"

\* A request is not let in against a deny that has reached its caller, by the
\* same way, ever since the request began, whatever else is going on.
StandingDenyHolds == \A c \in Calls :
    Authorised(c) /\ call[c].actor \in Users \ Roots =>
        \A path \in stood[c] :
            ~Denies(path.statement, Subject(call[c].actor), call[c].asks, NoContext)

\* Unless another request writes in the meantime, a policy about to be attached
\* gives nothing its granter does not hold at that very moment.
GrantsAreHeld == \A c \in Calls :
    call[c].pc = "a_attach" /\ "read" \in calm[c] /\ call[c].actor \notin Roots =>
        findUnheldActions(Subject(call[c].actor), StatementsOf(call[c].actor),
                          PolicyActions(call[c].policy)) = {}

\* Unless another request writes in the meantime, the four queries decide as one
\* that sees everything at once.
Concludes(c) ==
    /\ call[c].pc \in {"q_groups", "q_statements"}
    /\ call'[c].pc \notin Reading \cup {"failed", "missing"}
ReadsAreExact == [][\A c \in Calls : Concludes(c) /\ "read" \in calm[c] =>
    call'[c] = Concluded(c, StatementsOf(Reader(c)))]_vars

\* What a role, a group or a policy holds
Holds(x) ==
    IF x \in Roles THEN {p \in Policies : <<x, p>> \in rolePolicies}
    ELSE IF x \in Groups THEN {p \in Policies : <<x, p>> \in groupPolicies}
    ELSE content[x]

\* Unless another request writes in the meantime, an update that succeeds leaves
\* what its body lists, no less and nothing of what was there before.
Succeeds(c) == call[c].pc \notin Over /\ call'[c].pc = "ok"
UpdateReplaces == [][\A c \in Calls :
    Succeeds(c) /\ call[c].op \in {"create", "update"} /\ "call" \in calm[c] =>
        Holds(call[c].on)' = call[c].body]_vars

\* Nothing a request does, alone or among others, renames, edits or deletes a
\* system row, or takes a system policy from a system role or group.
SystemRecordsStand == [][\A x \in System :
    /\ row'[x] = row[x]
    /\ x \in Policies => content'[x] = content[x]
    /\ \A y \in System : <<x, y>> \in rolePolicies \cup groupPolicies
                             <=> <<x, y>> \in (rolePolicies \cup groupPolicies)']_vars
===============================================================================
