------------------------------- MODULE MCHolder -------------------------------
(***************************************************************************)
(* An instance of Holder for TLC: a catalog with one namespace of two      *)
(* actions and one :self action, an action a route asks for that is in no  *)
(* catalog, and a pool of statements with one of each shape.               *)
(***************************************************************************)
EXTENDS Holder

MCActions == {"users:read", "users:delete", "profile:read:self", "jobs:run"}
MCCatalog == MCActions \ {"jobs:run"}
MCSelfActions == {"profile:read:self"}
MCNamespace == [a \in MCActions |-> IF a = "profile:read:self" THEN "profile"
                                    ELSE IF a = "jobs:run" THEN "jobs" ELSE "users"]
MCResources == {"docs:1", "docs:2"}
MCOwners == {"ann", "bob"}
MCKeys == {"department"}
MCValues == {"finance", "sales"}

St(effect, actions, resources, conditions) ==
    [effect |-> effect, actions |-> actions, resources |-> resources,
     conditions |-> conditions]

Clause(op, key, value) == [op |-> op, key |-> key, value |-> value]

All == {Everything}

MCStatements == {
    St("allow", All, All, {}),
    St("allow", {AllOf("users"), Stray}, Nothing, {}),
    St("allow", {Exactly("profile:read:self"), Exactly("jobs:run")}, All, {}),
    St("allow", {Exactly("users:read")}, {StartingWith(MCResources)}, {}),
    St("allow", {AllOf("users")}, All, {Clause("StringEquals", "department", "finance")}),
    St("allow", {Exactly("users:delete")}, All,
        {Clause("StringNotEquals", "department", "sales"), Clause("OwnerEquals", OwnerKey, Self)}),
    St("allow", {AllOf("users")}, All, {Clause("Bool", "department", "finance")}),
    St("deny", {Exactly("users:delete")}, All, {Clause("StringEquals", "department", "sales")}),
    St("deny", {AllOf("users")}, {Exactly("docs:1")}, {}),
    St("deny", {AllOf("profile")}, All, {Clause("unknown", "department", "sales")})}
===============================================================================
