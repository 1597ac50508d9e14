---------------------------------- MODULE Seed ----------------------------------
(***************************************************************************)
(* The database that a project starts with: packages/db/src/migrate.ts and *)
(* seed.ts, run by hand, by scripts/setup.ts, or by several deployments at *)
(* once, any number of times.                                              *)
(*                                                                         *)
(* A seed has no transaction: it looks for each baseline record and makes  *)
(* it if it is not there, one statement after the other, and any statement *)
(* may be its last.  A policy is made in two, with its statements, and the *)
(* ADMIN role in two, with its policy.                                     *)
(***************************************************************************)
CONSTANTS
    Runners,        \* processes that run the seed (bound)
    Passwords,      \* values of INITIAL_ROOT_PASSWORD
    NoRoot

ASSUME SeedConstants == NoRoot \notin Passwords

VARIABLES
    migrated,       \* do the tables exist?
    record,         \* by baseline record: "none", "bare", "whole"
    root,           \* the password of the ROOT account
    taken,          \* has somebody signed up with the address meant for ROOT?
    seed,           \* by runner: where it is, and the password it has read
    left            \* the records that a runner has died over, half-made

db == <<migrated, record, root, taken>>
seedVars == <<db, seed, left>>

Records == {"AdministratorPolicy", "ExternalUserPolicy", "ADMIN"}
Stages == {"look", "insert", "complete"}

\* What a runner is at: a part of the seed, and for a record its stage
At(part, stage) == [part |-> part, stage |-> stage]
Parts == {"settings", "permissions"} \cup Records \cup {"ROOT", "audit", "idle", "done", "failed"}

After(part) ==
    CASE part = "settings" -> "permissions"
      [] part = "permissions" -> "AdministratorPolicy"
      [] part = "AdministratorPolicy" -> "ExternalUserPolicy"
      [] part = "ExternalUserPolicy" -> "ADMIN"
      [] part = "ADMIN" -> "ROOT"
      [] part = "ROOT" -> "audit"
      [] part = "audit" -> "done"

Running(r) == seed[r].part \notin {"idle", "done", "failed"}
Is(r, part, stage) == seed[r].part = part /\ seed[r].stage = stage
MovesTo(r, part, stage) == seed' = [seed EXCEPT ![r].part = part, ![r].stage = stage]
MovesOn(r) == MovesTo(r, After(seed[r].part), "look")

SeedInit ==
    /\ migrated = FALSE /\ root = NoRoot /\ taken = FALSE
    /\ record = [x \in Records |-> "none"]
    /\ seed = [r \in Runners |-> [part |-> "idle", stage |-> "look", password |-> NoRoot]]
    /\ left = {}

\* The migrator applies what is pending, in a transaction of its own.
Migrate == ~migrated /\ migrated' = TRUE /\ UNCHANGED <<record, root, taken, seed, left>>

\* getEnv reads the environment once for the process.
StartSeed(r, password) ==
    /\ ~Running(r)
    /\ seed' = [seed EXCEPT ![r] = [part |-> "settings", stage |-> "look", password |-> password]]
    /\ UNCHANGED <<db, left>>

\* Upserts of the settings; permissions that are there already stay as they are.
\* Either way the rows are there afterwards, and nothing here reads them.
WriteRows(r) ==
    /\ migrated
    /\ seed[r].part \in {"settings", "permissions"}
    /\ MovesOn(r)
    /\ UNCHANGED <<db, left>>

\* A record that is there is taken to be complete.
LookFor(r, x) ==
    /\ Is(r, x, "look")
    /\ IF record[x] = "none" THEN MovesTo(r, x, "insert") ELSE MovesOn(r)
    /\ UNCHANGED <<db, left>>

\* Names are unique: of two runners that found nothing, one fails here.
InsertRecord(r, x) ==
    /\ Is(r, x, "insert") /\ record[x] = "none"
    /\ record' = [record EXCEPT ![x] = "bare"]
    /\ MovesTo(r, x, "complete")
    /\ UNCHANGED <<migrated, root, taken, left>>

SkipsCompletion(r, x) ==            \* variant: the statements are forgotten
    Is(r, x, "complete") /\ MovesOn(r) /\ UNCHANGED <<db, left>>

\* The statement of a policy, or the policy of the role
CompleteRecord(r, x) ==
    /\ Is(r, x, "complete")
    /\ record' = [record EXCEPT ![x] = "whole"]
    /\ MovesOn(r)
    /\ UNCHANGED <<migrated, root, taken, left>>

LookForRoot(r) ==
    /\ Is(r, "ROOT", "look")
    /\ IF root = NoRoot THEN MovesTo(r, "ROOT", "insert") ELSE MovesOn(r)
    /\ UNCHANGED <<db, left>>

Overwrites(r) ==                    \* variant: the address of ROOT may be there already
    /\ Is(r, "ROOT", "insert")
    /\ root' = seed[r].password
    /\ MovesOn(r)
    /\ UNCHANGED <<migrated, record, taken, left>>

\* The address is unique too, among all accounts.
InsertRoot(r) ==
    /\ Is(r, "ROOT", "insert") /\ root = NoRoot /\ ~taken
    /\ root' = seed[r].password
    /\ MovesOn(r)
    /\ UNCHANGED <<migrated, record, taken, left>>

FinishSeed(r) == seed[r].part = "audit" /\ MovesOn(r) /\ UNCHANGED <<db, left>>

\* A statement fails, or the process is killed: the error is thrown on, and nothing
\* is undone.
SeedFails(r) ==
    /\ Running(r)
    /\ left' = left \cup {x \in Records : Is(r, x, "complete")}
    /\ MovesTo(r, "failed", "look")
    /\ UNCHANGED db

\* POST /auth/signup with the address that ROOT is to have
SignupTakesAddress ==
    /\ migrated /\ root = NoRoot /\ ~taken
    /\ taken' = TRUE
    /\ UNCHANGED <<migrated, record, root, seed, left>>

Continue(r) ==
    \/ WriteRows(r) \/ LookForRoot(r) \/ InsertRoot(r) \/ FinishSeed(r)
    \/ \E x \in Records : LookFor(r, x) \/ InsertRecord(r, x) \/ CompleteRecord(r, x)

SeedNext ==
    \/ Migrate \/ SignupTakesAddress
    \/ \E r \in Runners : \/ \E pw \in Passwords : StartSeed(r, pw)
                          \/ Continue(r) \/ SeedFails(r)

SeedSpec == SeedInit /\ [][SeedNext]_seedVars

(***************************************************************************)
(* Properties.                                                             *)
(***************************************************************************)
SeedTypeOK ==
    /\ migrated \in BOOLEAN /\ taken \in BOOLEAN
    /\ record \in [Records -> {"none", "bare", "whole"}]
    /\ root \in Passwords \cup {NoRoot}
    /\ seed \in [Runners -> [part : Parts, stage : Stages, password : Passwords \cup {NoRoot}]]
    /\ left \subseteq Records

\* Each half-made record has a runner at it, and one only, or was left by one that died.
Makers(x) == {r \in Runners : Is(r, x, "complete")}
HalfMadeIsAccounted ==
    \A x \in Records : record[x] = "bare" => x \in left \/ Makers(x) # {}

\* What a runner has passed is there; a later run repairs nothing of what was left.
Passed(r) ==
    CASE seed[r].part \in {"AdministratorPolicy", "settings", "permissions", "idle", "failed"} -> {}
      [] seed[r].part = "ExternalUserPolicy" -> {"AdministratorPolicy"}
      [] seed[r].part = "ADMIN" -> {"AdministratorPolicy", "ExternalUserPolicy"}
      [] seed[r].part \in {"ROOT", "audit", "done"} -> Records
PassedIsThere == \A r \in Runners : \A x \in Passed(r) : record[x] # "none"

RootIsThere == \A r \in Runners : seed[r].part \in {"audit", "done"} => root # NoRoot

\* Once a seed has finished and none is under way the baseline is whole, but for the
\* records that a seed died over between their two statements, which no seed repairs.
FinishedIsWhole ==
    (\E r \in Runners : seed[r].part = "done") /\ (\A r \in Runners : ~Running(r)) =>
        root # NoRoot /\ \A x \in Records : record[x] = "whole" \/ x \in left

\* skills/database/SKILL.md:33 asks that a repeated seed preserves credentials: no
\* runner, of any number, with whatever password, changes a ROOT that is there.
RootIsKept == [][root # NoRoot => root' = root]_seedVars
===============================================================================
