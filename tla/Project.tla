-------------------------------- MODULE Project ---------------------------------
(***************************************************************************)
(* A project from its generation to its first data: the directory that     *)
(* Generator fills and the database that Seed fills from its .env, with    *)
(* scripts/setup.ts in between.                                            *)
(*                                                                         *)
(* One person does one thing after the other here; only the seeds of       *)
(* several deployments overlap.  Once there is a database the developer    *)
(* leaves the command alone, and of the directory only .env matters.       *)
(***************************************************************************)
EXTENDS Generator, Seed

ASSUME ProjectConstants == Secrets \cup {Placeholder, UsersOwn} \subseteq Passwords

VARIABLE touched    \* has .env been changed since it was generated?

vars == <<genVars, seedVars, touched>>

AtRest == ~Generating /\ \A r \in Runners : ~Running(r)

\* The command has succeeded; what a failed one has left, the developer removes.
Generated == gen.pc = "ready"

Init == GenInit /\ SeedInit /\ touched = FALSE

GeneratorStep ==
    /\ (AtRest /\ ~migrated /\ Invoke) \/ Generate \/ GenerationFails
    /\ UNCHANGED <<seedVars, touched>>

DeveloperStep ==
    /\ Develop
    /\ migrated \/ ~AtRest => tree' = tree
    /\ touched' = (touched \/ env' # env)
    /\ UNCHANGED seedVars

\* setup.ts makes .env of the example if there is none; what it runs then, the
\* migrations and the seed, stops it if it fails.
SetupEnv ==
    /\ AtRest /\ Generated /\ env = NoSecret /\ tree[".env.example"] # "none"
    /\ env' = Placeholder
    /\ UNCHANGED <<tree, gen, shown, seedVars, touched>>

\* The schema of the environment has the placeholder as the default.
EnvPassword == IF env = NoSecret THEN Placeholder ELSE env

DatabaseStep ==
    /\ \/ AtRest /\ Generated /\ (Migrate \/ SignupTakesAddress)
       \/ \E r \in Runners : \/ Generated /\ StartSeed(r, EnvPassword)
                             \/ Continue(r)
                             \/ SeedFails(r)
    /\ UNCHANGED <<genVars, touched>>

Next == GeneratorStep \/ DeveloperStep \/ SetupEnv \/ DatabaseStep

Spec == Init /\ [][Next]_vars

(***************************************************************************)
(* Properties.                                                             *)
(***************************************************************************)
\* The password that the command shows, once, opens the ROOT account that a seed of
\* the new database makes, unless the developer has changed .env first.
ShownOpensRoot == ~touched /\ Generated /\ root # NoRoot => root = shown

ProjectInv ==
    /\ GenTypeOK /\ SeedTypeOK
    /\ HalfMadeIsAccounted /\ PassedIsThere /\ RootIsThere
===============================================================================
