--------------------------------- MODULE MCIam ---------------------------------
(***************************************************************************)
(* Instances of Iam for TLC: ROOT and ann, a role, a group, the seeded     *)
(* policy base and one other.  A setup is what administrators may have   *)
(* made of the seeded tables before; what it leaves out can be created.    *)
(***************************************************************************)
EXTENDS Iam, TLC

CONSTANTS root, ann, r, g, base, p      \* model values

MCActions == {"users:read", "roles:create", "roles:update", "roles:delete",
              "groups:create", "groups:update", "groups:delete",
              "policies:create", "policies:update", "policies:delete"}
MCNamespace == [a \in MCActions |->
    IF a = "users:read" THEN "users"
    ELSE IF a \in {"roles:create", "roles:update", "roles:delete"} THEN "roles"
    ELSE IF a \in {"groups:create", "groups:update", "groups:delete"} THEN "groups"
    ELSE "policies"]

St(effect, actions) ==
    [effect |-> effect, actions |-> actions, resources |-> Nothing, conditions |-> {}]

MayAll == St("allow", {Everything})
MayRoles == St("allow", {AllOf("roles"), Exactly("users:read")})
NoRoles == St("deny", {AllOf("roles")})
MCStatements == {MayAll, MayRoles, NoRoles}

Setup(live, inBase, inP, users, roles, groups, members) ==
    [live |-> live \cup {base},
     content |-> [x \in {base, p} |-> IF x = base THEN inBase ELSE inP],
     userPolicies |-> users, rolePolicies |-> roles, groupPolicies |-> groups,
     userRoles |-> members \cap ({root, ann} \X {r}),
     userGroups |-> members \cap ({root, ann} \X {g})]

\* ann administers by her role, and a policy she has another way holds her back.
MCSetups == {
    Setup({r, p}, {MayAll}, {NoRoles}, {<<ann, p>>}, {<<r, base>>}, {}, {<<ann, r>>}),
    Setup({g, p}, {MayAll}, {NoRoles, MayRoles}, {<<ann, base>>}, {}, {<<g, p>>},
          {<<ann, g>>}),
    Setup({r, g}, {MayRoles}, {}, {}, {<<r, base>>}, {}, {<<ann, r>>})}

Symmetry == Permutations(Calls)
===============================================================================
