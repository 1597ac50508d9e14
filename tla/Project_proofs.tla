----------------------------- MODULE Project_proofs -----------------------------
(***************************************************************************)
(* For any number of seeds and secrets: what Generator leaves is whole and *)
(* never the developer's loss, the database that the seeds fill is whole   *)
(* but for what a crash has left, and the password shown opens ROOT.       *)
(***************************************************************************)
EXTENDS Project, TLAPS

USE DEF genVars, seedVars, db

(***************************************************************************)
(* The generator.                                                          *)
(***************************************************************************)
AfterCheck == {"copy", "transform", "env", "gitignore", "git", "install", "report"}
Whole == \A f \in Template : tree[f] = IF f \in Rewritten THEN "project" ELSE "template"

\* What each stage of a run has behind it
Stage ==
    /\ gen.pc = "check" => gen.copied = {}
    /\ gen.pc \in AfterCheck => \A f \in Files \ {".git"} : tree[f] # "user"
    /\ gen.pc \in {"copy", "transform", "env"} => env = NoSecret
    /\ gen.pc = "copy" => \A f \in gen.copied : tree[f] = "template"
    /\ gen.pc = "transform" =>
         \A f \in Template : \/ tree[f] = "template"
                             \/ /\ tree[f] = "project" /\ f \in Rewritten
                                /\ \A g \in Before(f) : tree[g] = "project"
    /\ gen.pc \in AfterCheck \ {"copy", "transform"} => Whole
    /\ gen.pc \in {"git", "install", "report"} => tree[".gitignore"] = "project"
    /\ gen.pc \in {"gitignore", "git", "install", "report"} =>
         gen.secret = env /\ env \in Secrets /\ env # shown

GenInv == GenTypeOK /\ Stage

\* A step outside a run leaves the run as it is.
LEMMA OutsideARun ==
    ASSUME GenInv, ~Generating, GenTypeOK', gen' = gen
    PROVE  GenInv'
BY DEF GenInv, Stage, Generating, AfterCheck

\* A run that ends, or begins, has nothing to show.
LEMMA NoStage ==
    ASSUME GenTypeOK', gen'.pc \notin AfterCheck \cup {"check"}
    PROVE  GenInv'
BY DEF GenInv, Stage, AfterCheck

LEMMA InvokeKeeps == ASSUME GenInv, Invoke PROVE GenInv'
<1>1. GenTypeOK'
  BY DEF GenInv, GenTypeOK, Invoke, Choices
<1>2. gen'.pc = "check" /\ gen'.copied = {}
  BY DEF Invoke
<1> QED BY <1>1, <1>2 DEF GenInv, Stage, AfterCheck

LEMMA FailsKeeps == ASSUME GenInv, GenerationFails PROVE GenInv'
<1>1. GenTypeOK'
  BY DEF GenInv, GenTypeOK, GenerationFails, Rest, Template, Files
<1>2. gen'.pc = "failed"
  BY DEF GenerationFails, Rest
<1> QED BY <1>1, <1>2, NoStage DEF AfterCheck

LEMMA DevelopKeeps == ASSUME GenInv, Develop PROVE GenInv'
<1>1. ~Generating /\ gen' = gen
  BY DEF Develop, EditFile, EditEnv, RemoveEnv, EmptyDirectory
<1>2. GenTypeOK'
  BY DEF Develop, EditFile, EditEnv, RemoveEnv, EmptyDirectory, GenInv, GenTypeOK
<1> QED BY <1>1, <1>2, OutsideARun

LEMMA CheckKeeps == ASSUME GenInv, RefuseName \/ CheckTarget PROVE GenInv'
<1>1. CASE IsEmpty /\ gen' = [gen EXCEPT !.pc = "copy"] /\ gen.pc = "check"
  <2>1. UNCHANGED <<tree, env, shown>>
    BY DEF RefuseName, CheckTarget
  <2>2. gen'.pc = "copy" /\ gen'.copied = {}
    BY <1>1 DEF GenInv, GenTypeOK, Stage
  <2>3. GenTypeOK'
    BY <1>1, <2>1 DEF GenInv, GenTypeOK
  <2> QED BY <1>1, <2>1, <2>2, <2>3 DEF IsEmpty, GenInv, Stage, AfterCheck
<1>2. CASE gen' = Rest("refused")
  <2>1. GenTypeOK'
    BY <1>2 DEF RefuseName, CheckTarget, GenInv, GenTypeOK, Rest
  <2> QED BY <1>2, <2>1, NoStage DEF Rest, AfterCheck
<1> QED BY <1>1, <1>2 DEF RefuseName, CheckTarget

LEMMA CopyKeeps == ASSUME GenInv, NEW f \in Template, CopyFile(f) PROVE GenInv'
<1>1. gen.pc = "copy" /\ gen'.copied = gen.copied \cup {f} /\ UNCHANGED <<env, shown>>
  BY DEF CopyFile, GenInv, GenTypeOK
<1>2. gen'.pc = IF gen.copied \cup {f} = Template THEN "transform" ELSE "copy"
  BY DEF CopyFile, GenInv, GenTypeOK
<1>3. f \in Files /\ tree' = [tree EXCEPT ![f] = "template"] /\ tree \in [Files -> {"none", "user", "template", "project"}]
  BY DEF CopyFile, GenInv, GenTypeOK, Files
<1>4. GenTypeOK'
  BY <1>3 DEF CopyFile, GenInv, GenTypeOK
<1>5. \A g \in Files \ {".git"} : tree'[g] # "user"
  BY <1>1, <1>3 DEF GenInv, Stage, AfterCheck
<1>6. \A g \in gen'.copied : tree'[g] = "template"
  BY <1>1, <1>3 DEF GenInv, Stage, GenTypeOK, Files
<1> QED BY <1>1, <1>2, <1>4, <1>5, <1>6 DEF GenInv, Stage, AfterCheck

LEMMA RewriteKeeps == ASSUME GenInv, NEW f \in Rewritten, Rewrite(f) PROVE GenInv'
<1> DEFINE next == IF f = "README.md" THEN "env" ELSE "transform"
<1>1. /\ gen.pc = "transform" /\ gen' = [gen EXCEPT !.pc = next]
      /\ gen'.pc = next /\ UNCHANGED <<env, shown>>
  BY DEF Rewrite, GoesTo, GenInv, GenTypeOK
<1>2. /\ f \in Template /\ f \in Files /\ Before(f) \subseteq Template /\ tree[f] = "template"
      /\ \A g \in Before(f) : tree[g] = "project"
      /\ tree' = [tree EXCEPT ![f] = "project"]
      /\ tree \in [Files -> {"none", "user", "template", "project"}]
  BY DEF Rewrite, Rewritten, Template, Files, Before, GenInv, GenTypeOK
<1>3. GenTypeOK'
  BY <1>1, <1>2 DEF GenInv, GenTypeOK
<1>4. \A g \in Files \ {".git"} : tree'[g] # "user"
  BY <1>1, <1>2 DEF GenInv, Stage, AfterCheck
<1>5. \A g \in Template : \/ tree'[g] = "template"
                           \/ /\ tree'[g] = "project" /\ g \in Rewritten
                              /\ \A h \in Before(g) : tree'[h] = "project"
  <2> SUFFICES ASSUME NEW g \in Template
               PROVE  \/ tree'[g] = "template"
                      \/ /\ tree'[g] = "project" /\ g \in Rewritten
                         /\ \A h \in Before(g) : tree'[h] = "project"
    OBVIOUS
  <2>1. \A h \in Files : tree[h] = "project" => tree'[h] = "project"
    BY <1>2
  <2>2. g \in Rewritten => Before(g) \subseteq Files
    BY DEF Rewritten, Before, Files, Template
  <2>3. \/ tree[g] = "template"
        \/ /\ tree[g] = "project" /\ g \in Rewritten
           /\ \A h \in Before(g) : tree[h] = "project"
    BY <1>1 DEF GenInv, Stage
  <2>4. CASE g = f
    BY <1>2, <2>1, <2>2, <2>4
  <2>5. CASE g # f
    BY <1>2, <2>1, <2>2, <2>3, <2>5 DEF Files
  <2> QED BY <2>4, <2>5
<1>6. CASE f = "README.md"
  <2>1. Whole'
    BY <1>2, <1>5, <1>6 DEF Whole, Template, Rewritten, Before, Files
  <2> QED BY <1>1, <1>3, <1>4, <1>6, <2>1 DEF GenInv, Stage, AfterCheck
<1>7. CASE f # "README.md"
  BY <1>1, <1>3, <1>4, <1>5, <1>7 DEF GenInv, Stage, AfterCheck
<1> QED BY <1>6, <1>7

LEMMA EnvKeeps == ASSUME GenInv, WriteEnv PROVE GenInv'
<1>1. gen.pc = "env" /\ env = NoSecret /\ UNCHANGED <<tree, shown>>
  BY DEF WriteEnv, GenInv, Stage
<1>2. PICK s \in Secrets \ {shown} :
        env' = s /\ gen' = [gen EXCEPT !.pc = "gitignore", !.secret = s]
  BY <1>1 DEF WriteEnv, Applied
<1>3. gen'.pc = "gitignore" /\ gen'.secret = s
  BY <1>2 DEF GenInv, GenTypeOK
<1>4. GenTypeOK'
  BY <1>1, <1>2 DEF GenInv, GenTypeOK
<1> QED BY <1>1, <1>2, <1>3, <1>4 DEF GenInv, Stage, AfterCheck, Whole

LEMMA IgnoreKeeps == ASSUME GenInv, WriteGitignore PROVE GenInv'
<1>1. /\ gen.pc = "gitignore" /\ gen'.pc = "git" /\ gen'.secret = gen.secret
      /\ tree' = [tree EXCEPT ![".gitignore"] = "project"] /\ UNCHANGED <<env, shown>>
  BY DEF WriteGitignore, GoesTo, GenInv, GenTypeOK
<1>2. GenTypeOK'
  BY DEF WriteGitignore, GoesTo, GenInv, GenTypeOK, Files
<1>3. \A f \in Files : tree'[f] = IF f = ".gitignore" THEN "project" ELSE tree[f]
  BY <1>1 DEF GenInv, GenTypeOK
<1>4. Whole'
  BY <1>1, <1>3 DEF GenInv, Stage, Whole, AfterCheck, Template, Files
<1>5. \A f \in Files \ {".git"} : tree'[f] # "user"
  BY <1>1, <1>3 DEF GenInv, Stage, AfterCheck
<1>6. tree'[".gitignore"] = "project"
  BY <1>3 DEF Files
<1> QED BY <1>1, <1>2, <1>4, <1>5, <1>6 DEF GenInv, Stage, AfterCheck

LEMMA GitKeeps == ASSUME GenInv, InitGit PROVE GenInv'
<1>1. /\ gen.pc = "git" /\ gen'.pc = "install" /\ gen'.secret = gen.secret
      /\ UNCHANGED <<env, shown>>
  BY DEF InitGit, GoesTo, GenInv, GenTypeOK
<1>2. GenTypeOK' /\ \A f \in Files \ {".git"} : tree'[f] = tree[f]
  BY DEF InitGit, GoesTo, GenInv, GenTypeOK, Files
<1>3. Whole'
  BY <1>1, <1>2 DEF GenInv, Stage, Whole, AfterCheck, Template, Files
<1>4. tree'[".gitignore"] = "project"
  BY <1>1, <1>2 DEF GenInv, Stage, Files
<1> QED BY <1>1, <1>2, <1>3, <1>4 DEF GenInv, Stage, AfterCheck

LEMMA InstallKeeps == ASSUME GenInv, Install PROVE GenInv'
<1>1. /\ gen.pc = "install" /\ gen'.pc = "report" /\ gen'.secret = gen.secret
      /\ UNCHANGED <<tree, env, shown>>
  BY DEF Install, GoesTo, GenInv, GenTypeOK
<1>2. GenTypeOK'
  BY DEF Install, GoesTo, GenInv, GenTypeOK
<1> QED BY <1>1, <1>2 DEF GenInv, Stage, Whole, AfterCheck

LEMMA ReportKeeps == ASSUME GenInv, Report PROVE GenInv'
<1>1. GenTypeOK'
  BY DEF Report, Rest, GenInv, GenTypeOK
<1>2. gen'.pc = "ready"
  BY DEF Report, Rest
<1> QED BY <1>1, <1>2, NoStage DEF AfterCheck

LEMMA GenerateKeeps == ASSUME GenInv, Generate PROVE GenInv'
BY CheckKeeps, EnvKeeps, IgnoreKeeps, GitKeeps, InstallKeeps, ReportKeeps, CopyKeeps,
   RewriteKeeps DEF Generate

\* Only the report makes a run a success.
LEMMA OnlyReportSucceeds ==
    ASSUME GenInv, Generate, gen'.pc = "ready"
    PROVE  Report
<1>1. ~RefuseName
  BY DEF RefuseName, Rest
<1>2. ~CheckTarget
  BY DEF CheckTarget, Rest, GenInv, GenTypeOK
<1>3. \A f \in Template : ~CopyFile(f)
  BY DEF CopyFile, GenInv, GenTypeOK
<1>4. \A f \in Rewritten : ~Rewrite(f)
  BY DEF Rewrite, GoesTo, GenInv, GenTypeOK
<1>5. ~WriteEnv
  BY DEF WriteEnv, GoesTo, GenInv, GenTypeOK
<1>6. ~WriteGitignore /\ ~InitGit /\ ~Install
  BY DEF WriteGitignore, InitGit, Install, GoesTo, GenInv, GenTypeOK
<1> QED BY <1>1, <1>2, <1>3, <1>4, <1>5, <1>6 DEF Generate

LEMMA SetupKeeps == ASSUME GenInv, SetupEnv PROVE GenInv'
<1>1. ~Generating /\ gen' = gen
  BY DEF SetupEnv, AtRest
<1>2. GenTypeOK'
  BY DEF SetupEnv, GenInv, GenTypeOK
<1> QED BY <1>1, <1>2, OutsideARun

\* What the developer has written stands through every step of the command.
LEMMA WorkStands ==
    ASSUME GenInv, Generate \/ GenerationFails, NEW f \in Files, tree[f] = "user"
    PROVE  tree'[f] = "user"
<1>1. CASE \E g \in Template : \/ CopyFile(g)
                               \/ gen.pc = "copy" /\ tree' = [tree EXCEPT ![g] = "template"]
  BY <1>1 DEF CopyFile, GenInv, GenTypeOK, Stage, AfterCheck, Template, Files
<1>2. CASE \E g \in Rewritten : Rewrite(g)
  BY <1>2 DEF Rewrite, GenInv, GenTypeOK
<1>3. CASE WriteGitignore
  BY <1>3 DEF WriteGitignore, GenInv, GenTypeOK, Stage, AfterCheck, Files
<1>4. CASE InitGit
  BY <1>4 DEF InitGit, GenInv, GenTypeOK
<1>5. CASE UNCHANGED tree
  BY <1>5
<1> QED BY <1>1, <1>2, <1>3, <1>4, <1>5
        DEF Generate, GenerationFails, RefuseName, CheckTarget, WriteEnv, Install, Report

LEMMA EnvStands ==
    ASSUME GenInv, Generate \/ GenerationFails, env = UsersOwn
    PROVE  env' = UsersOwn
BY GeneratorConstants DEF GenInv, Stage, Generate, GenerationFails, RefuseName, CheckTarget,
   CopyFile, Rewrite, WriteEnv, WriteGitignore, InitGit, Install, Report

(***************************************************************************)
(* The seeds.                                                              *)
(***************************************************************************)
\* What holds of one runner, whatever the others do
RunnerOK(r) ==
    /\ seed[r] \in [part : Parts, stage : Stages, password : Passwords \cup {NoRoot}]
    /\ Running(r) => seed[r].password \in Passwords
    /\ seed[r].part \notin {"idle", "settings", "failed"} => migrated
    /\ \A x \in Passed(r) : record[x] # "none"
    /\ seed[r].part \in {"audit", "done"} => root # NoRoot

TablesOK ==
    /\ migrated \in BOOLEAN /\ taken \in BOOLEAN
    /\ record \in [Records -> {"none", "bare", "whole"}]
    /\ root \in Passwords \cup {NoRoot}
    /\ left \subseteq Records
    /\ root # NoRoot => migrated

SeedInv ==
    /\ TablesOK
    /\ seed \in [Runners -> [part : Parts, stage : Stages, password : Passwords \cup {NoRoot}]]
    /\ \A r \in Runners : RunnerOK(r)
    /\ HalfMadeIsAccounted

LEMMA SeedInvImplies ==
    ASSUME SeedInv
    PROVE  SeedTypeOK /\ HalfMadeIsAccounted /\ PassedIsThere /\ RootIsThere
BY DEF SeedInv, TablesOK, RunnerOK, SeedTypeOK, PassedIsThere, RootIsThere

\* What is in the tables stays there.
Grows ==
    /\ \A x \in Records : record[x] # "none" => record'[x] # "none"
    /\ root # NoRoot => root' # NoRoot
    /\ migrated => migrated'

LEMMA OthersKeep ==
    ASSUME NEW q \in Runners, RunnerOK(q), Grows, seed'[q] = seed[q]
    PROVE  RunnerOK(q)'
<1>1. Passed(q)' = Passed(q) /\ Passed(q) \subseteq Records
  BY DEF Passed, Records, RunnerOK, Parts
<1> QED BY <1>1 DEF RunnerOK, Grows, Running

\* A record that no step has made by halves is still accounted for if its makers
\* are where they were.
LEMMA StillAccounted ==
    ASSUME HalfMadeIsAccounted, left \subseteq left',
           NEW r \in Runners,
           \A q \in Runners \ {r} : seed'[q] = seed[q],
           \A x \in Records : record'[x] = "bare" =>
               \/ record[x] = "bare" /\ (Is(r, x, "complete") => x \in left')
               \/ Is(r, x, "complete")'
    PROVE  HalfMadeIsAccounted'
<1> SUFFICES ASSUME NEW x \in Records, record'[x] = "bare", x \notin left'
             PROVE  \E q \in Runners : Is(q, x, "complete")'
  BY DEF HalfMadeIsAccounted, Makers
<1>1. CASE Is(r, x, "complete")'
  BY <1>1
<1>2. CASE record[x] = "bare" /\ ~Is(r, x, "complete")
  <2>1. PICK q \in Runners : Is(q, x, "complete")
    BY <1>2 DEF HalfMadeIsAccounted, Makers
  <2> QED BY <1>2, <2>1 DEF Is
<1> QED BY <1>1, <1>2

\* Where a runner goes on to, and what it has passed then
LEMMA NextPart ==
    ASSUME NEW r \in Runners, SeedInv, Running(r), MovesOn(r), Grows,
           seed[r].part \in Records => record'[seed[r].part] # "none",
           seed[r].part = "ROOT" => root' # NoRoot,
           seed[r].part = "settings" => migrated
    PROVE  /\ seed' = [seed EXCEPT ![r] = [@ EXCEPT !.part = After(seed[r].part), !.stage = "look"]]
           /\ RunnerOK(r)'
<1>1. seed'[r].part = After(seed[r].part) /\ seed'[r].stage = "look" /\ seed'[r].password = seed[r].password
  BY DEF MovesOn, MovesTo, SeedInv
<1>2. seed' = [seed EXCEPT ![r] = [@ EXCEPT !.part = After(seed[r].part), !.stage = "look"]]
  BY DEF MovesOn, MovesTo, SeedInv
<1>3. seed[r].part \in {"settings", "permissions", "AdministratorPolicy", "ExternalUserPolicy",
                         "ADMIN", "ROOT", "audit"}
  BY DEF Running, SeedInv, RunnerOK, Parts, Records
<1>4. seed'[r] \in [part : Parts, stage : Stages, password : Passwords \cup {NoRoot}]
  BY <1>2, <1>3 DEF SeedInv, After, Parts, Records, Stages
<1>5. Running(r)' => seed'[r].password \in Passwords
  BY <1>1 DEF SeedInv, RunnerOK
<1>6. migrated'
  BY <1>3 DEF SeedInv, RunnerOK, Grows
<1>7. \A x \in Passed(r)' : record'[x] # "none"
  BY <1>1, <1>3 DEF Passed, After, SeedInv, RunnerOK, Grows, Records
<1>8. seed'[r].part \in {"audit", "done"} => root' # NoRoot
  BY <1>1, <1>3 DEF After, SeedInv, RunnerOK, Grows
<1> QED BY <1>2, <1>4, <1>5, <1>6, <1>7, <1>8 DEF RunnerOK

\* All that a step of one runner has to show
LEMMA RunnerStep ==
    ASSUME NEW r \in Runners, SeedInv, NEW to,
           seed' = [seed EXCEPT ![r] = to], RunnerOK(r)', TablesOK', Grows, HalfMadeIsAccounted'
    PROVE  SeedInv'
<1>1. seed'[r] = to /\ \A q \in Runners \ {r} : seed'[q] = seed[q]
  BY DEF SeedInv
<1>2. \A q \in Runners : RunnerOK(q)'
  BY <1>1, OthersKeep DEF SeedInv
<1> QED BY <1>1, <1>2 DEF SeedInv, RunnerOK

\* A step that leaves the runners where they are
LEMMA TablesStep ==
    ASSUME SeedInv, TablesOK', Grows, UNCHANGED <<seed, record, left>>
    PROVE  SeedInv'
<1>1. \A q \in Runners : RunnerOK(q)'
  BY OthersKeep DEF SeedInv
<1>2. HalfMadeIsAccounted'
  BY DEF SeedInv, HalfMadeIsAccounted, Makers, Is
<1> QED BY <1>1, <1>2 DEF SeedInv

LEMMA MigrateKeeps == ASSUME SeedInv, Migrate \/ SignupTakesAddress PROVE SeedInv'
<1>1. TablesOK' /\ Grows /\ UNCHANGED <<seed, record, left>>
  BY DEF Migrate, SignupTakesAddress, SeedInv, TablesOK, Grows
<1> QED BY <1>1, TablesStep

LEMMA StartKeeps ==
    ASSUME SeedInv, NEW r \in Runners, NEW pw \in Passwords, StartSeed(r, pw)
    PROVE  SeedInv'
<1> DEFINE to == [part |-> "settings", stage |-> "look", password |-> pw]
<1>1. ~Running(r) /\ UNCHANGED <<db, left>> /\ seed' = [seed EXCEPT ![r] = to]
  BY DEF StartSeed
<1>2. TablesOK' /\ Grows
  BY <1>1 DEF SeedInv, TablesOK, Grows
<1>3. RunnerOK(r)'
  BY <1>1 DEF SeedInv, RunnerOK, Running, Passed, Parts, Stages
<1>4. \A x \in Records : ~Is(r, x, "complete")
  BY <1>1 DEF Is, Running, Records
<1>5. HalfMadeIsAccounted'
  BY <1>1, <1>4, StillAccounted DEF SeedInv
<1> QED BY <1>1, <1>2, <1>3, <1>5, RunnerStep

\* A part of the seed that is no record
LEMMA PlainPartKeeps ==
    ASSUME SeedInv, NEW r \in Runners, Running(r), seed[r].part \notin Records, MovesOn(r),
           TablesOK', Grows, UNCHANGED <<record, left>>,
           seed[r].part = "ROOT" => root' # NoRoot,
           seed[r].part = "settings" => migrated
    PROVE  SeedInv'
<1>1. /\ seed' = [seed EXCEPT ![r] = [@ EXCEPT !.part = After(seed[r].part), !.stage = "look"]]
      /\ RunnerOK(r)'
  BY NextPart
<1>2. \A x \in Records : ~Is(r, x, "complete")
  BY DEF Is
<1>3. HalfMadeIsAccounted'
  BY <1>1, <1>2, StillAccounted DEF SeedInv
<1> QED BY <1>1, <1>3, RunnerStep

LEMMA WriteKeeps == ASSUME SeedInv, NEW r \in Runners, WriteRows(r) PROVE SeedInv'
<1>1. TablesOK' /\ Grows /\ UNCHANGED <<record, left>> /\ migrated
  BY DEF WriteRows, SeedInv, TablesOK, Grows
<1>2. Running(r) /\ seed[r].part \notin Records \cup {"ROOT"} /\ MovesOn(r)
  BY DEF WriteRows, Running, Records
<1> QED BY <1>1, <1>2, PlainPartKeeps

LEMMA FinishKeeps == ASSUME SeedInv, NEW r \in Runners, FinishSeed(r) PROVE SeedInv'
<1>1. TablesOK' /\ Grows /\ UNCHANGED <<record, left>>
  BY DEF FinishSeed, SeedInv, TablesOK, Grows
<1>2. Running(r) /\ seed[r].part \notin Records \cup {"ROOT", "settings"} /\ MovesOn(r)
  BY DEF FinishSeed, Running, Records
<1> QED BY <1>1, <1>2, PlainPartKeeps

LEMMA InsertRootKeeps == ASSUME SeedInv, NEW r \in Runners, InsertRoot(r) PROVE SeedInv'
<1>1. Running(r) /\ seed[r].part = "ROOT" /\ seed[r].part \notin Records /\ MovesOn(r)
  BY DEF InsertRoot, Is, Running, Records
<1>2. root' \in Passwords /\ root' # NoRoot /\ migrated
  BY <1>1, SeedConstants DEF InsertRoot, SeedInv, RunnerOK
<1>3. TablesOK' /\ Grows /\ UNCHANGED <<record, left>>
  BY <1>2 DEF InsertRoot, SeedInv, TablesOK, Grows
<1> QED BY <1>1, <1>2, <1>3, PlainPartKeeps

\* A look that finds nothing keeps the runner at its part.
LEMMA LookKeeps ==
    ASSUME SeedInv, NEW r \in Runners, NEW part, Is(r, part, "look"),
           MovesTo(r, part, "insert"), UNCHANGED <<db, left>>
    PROVE  SeedInv'
<1> DEFINE to == [seed[r] EXCEPT !.stage = "insert"]
<1>1. seed' = [seed EXCEPT ![r] = to] /\ to.part = part /\ seed[r].part = part
      /\ to.password = seed[r].password
  BY DEF MovesTo, Is, SeedInv
<1>2. TablesOK' /\ Grows
  BY DEF SeedInv, TablesOK, Grows
<1>3. RunnerOK(r)'
  <2>1. to \in [part : Parts, stage : Stages, password : Passwords \cup {NoRoot}]
    BY DEF SeedInv, Stages
  <2>2. seed'[r] = to
    BY <1>1 DEF SeedInv
  <2>3. Passed(r)' = Passed(r) /\ Running(r)' = Running(r)
    BY <1>1, <2>2 DEF Passed, Running
  <2> QED BY <1>1, <2>1, <2>2, <2>3 DEF SeedInv, RunnerOK
<1>4. HalfMadeIsAccounted'
  <2>1. \A x \in Records : ~Is(r, x, "complete")
    BY DEF Is
  <2> QED BY <1>1, <2>1, StillAccounted DEF SeedInv
<1> HIDE DEF to
<1> QED BY <1>1, <1>2, <1>3, <1>4, RunnerStep

LEMMA LookForRootKeeps == ASSUME SeedInv, NEW r \in Runners, LookForRoot(r) PROVE SeedInv'
<1>1. CASE root = NoRoot
  BY <1>1, LookKeeps DEF LookForRoot
<1>2. CASE root # NoRoot
  <2>1. TablesOK' /\ Grows /\ UNCHANGED <<record, left>>
    BY DEF LookForRoot, SeedInv, TablesOK, Grows
  <2>2. Running(r) /\ seed[r].part = "ROOT" /\ seed[r].part \notin Records /\ MovesOn(r)
    BY <1>2 DEF LookForRoot, Is, Running, Records
  <2>3. root' # NoRoot
    BY <1>2 DEF LookForRoot
  <2> QED BY <2>1, <2>2, <2>3, PlainPartKeeps
<1> QED BY <1>1, <1>2

LEMMA LookForKeeps ==
    ASSUME SeedInv, NEW r \in Runners, NEW x \in Records, LookFor(r, x)
    PROVE  SeedInv'
<1>1. CASE record[x] = "none"
  BY <1>1, LookKeeps DEF LookFor
<1>2. CASE record[x] # "none"
  <2>1. Running(r) /\ seed[r].part = x /\ MovesOn(r) /\ seed[r].stage = "look"
    BY <1>2 DEF LookFor, Is, Running, Records
  <2>2. TablesOK' /\ Grows /\ UNCHANGED <<record, left>>
    BY DEF LookFor, SeedInv, TablesOK, Grows
  <2>3. /\ seed' = [seed EXCEPT ![r] = [@ EXCEPT !.part = After(seed[r].part), !.stage = "look"]]
        /\ RunnerOK(r)'
    <3>1. seed[r].part \notin {"ROOT", "settings"}
      BY <2>1 DEF Records
    <3> QED BY <1>2, <2>1, <2>2, <3>1, NextPart
  <2>4. \A y \in Records : ~Is(r, y, "complete")
    BY <2>1 DEF Is
  <2>5. HalfMadeIsAccounted'
    BY <2>2, <2>3, <2>4, StillAccounted DEF SeedInv
  <2> QED BY <2>2, <2>3, <2>5, RunnerStep
<1> QED BY <1>1, <1>2

LEMMA InsertKeeps ==
    ASSUME SeedInv, NEW r \in Runners, NEW x \in Records, InsertRecord(r, x)
    PROVE  SeedInv'
<1> DEFINE to == [seed[r] EXCEPT !.stage = "complete"]
<1>1. seed' = [seed EXCEPT ![r] = to] /\ to.part = x /\ seed[r].part = x
      /\ to.password = seed[r].password /\ to.stage = "complete"
  BY DEF InsertRecord, MovesTo, Is, SeedInv
<1>2. /\ record' = [record EXCEPT ![x] = "bare"] /\ record[x] = "none"
      /\ UNCHANGED <<migrated, root, taken, left>>
  BY DEF InsertRecord
<1>3. TablesOK' /\ Grows
  BY <1>2 DEF SeedInv, TablesOK, Grows
<1>4. seed'[r] = to
  BY <1>1 DEF SeedInv
<1>5. RunnerOK(r)'
  <2>1. to \in [part : Parts, stage : Stages, password : Passwords \cup {NoRoot}]
    BY DEF SeedInv, Stages
  <2>2. /\ Passed(r)' = Passed(r) /\ Running(r)' = Running(r) /\ Passed(r) \subseteq Records
    BY <1>1, <1>4 DEF Passed, Running, Records
  <2> QED BY <1>1, <1>2, <1>3, <1>4, <2>1, <2>2 DEF SeedInv, RunnerOK, Grows
<1>6. HalfMadeIsAccounted'
  <2>1. \A y \in Records : ~Is(r, y, "complete")
    BY DEF InsertRecord, Is
  <2>2. Is(r, x, "complete")'
    BY <1>1, <1>4 DEF Is
  <2>3. \A y \in Records \ {x} : record'[y] = record[y]
    BY <1>2 DEF SeedInv, TablesOK
  <2> QED BY <1>1, <1>2, <2>1, <2>2, <2>3, StillAccounted DEF SeedInv
<1> HIDE DEF to
<1> QED BY <1>1, <1>3, <1>5, <1>6, RunnerStep

LEMMA CompleteKeeps ==
    ASSUME SeedInv, NEW r \in Runners, NEW x \in Records, CompleteRecord(r, x)
    PROVE  SeedInv'
<1>1. Running(r) /\ seed[r].part = x /\ seed[r].stage = "complete" /\ MovesOn(r)
  BY DEF CompleteRecord, Is, Running, Records
<1>2. /\ record' = [record EXCEPT ![x] = "whole"]
      /\ UNCHANGED <<migrated, root, taken, left>>
  BY DEF CompleteRecord
<1>3. TablesOK' /\ Grows
  BY <1>2 DEF SeedInv, TablesOK, Grows
<1>4. record'[x] = "whole" /\ \A y \in Records \ {x} : record'[y] = record[y]
  BY <1>2 DEF SeedInv, TablesOK
<1>5. /\ seed' = [seed EXCEPT ![r] = [@ EXCEPT !.part = After(seed[r].part), !.stage = "look"]]
      /\ RunnerOK(r)'
  <2>1. seed[r].part \notin {"ROOT", "settings"}
    BY <1>1 DEF Records
  <2> QED BY <1>1, <1>3, <1>4, <2>1, NextPart
<1>6. HalfMadeIsAccounted'
  <2>1. \A y \in Records \ {x} : ~Is(r, y, "complete")
    BY <1>1 DEF Is
  <2> QED BY <1>2, <1>4, <1>5, <2>1, StillAccounted DEF SeedInv
<1> QED BY <1>3, <1>5, <1>6, RunnerStep

LEMMA SeedFailsKeeps == ASSUME SeedInv, NEW r \in Runners, SeedFails(r) PROVE SeedInv'
<1> DEFINE to == [seed[r] EXCEPT !.part = "failed", !.stage = "look"]
<1>1. seed' = [seed EXCEPT ![r] = to] /\ to.part = "failed" /\ UNCHANGED db
  BY DEF SeedFails, MovesTo, SeedInv
<1>2. TablesOK' /\ Grows
  BY <1>1 DEF SeedFails, SeedInv, TablesOK, Grows
<1>3. RunnerOK(r)'
  <2>1. to \in [part : Parts, stage : Stages, password : Passwords \cup {NoRoot}]
    BY DEF SeedInv, Parts, Stages
  <2>2. seed'[r] = to
    BY <1>1 DEF SeedInv
  <2> QED BY <1>1, <2>1, <2>2 DEF RunnerOK, Running, Passed
<1>4. HalfMadeIsAccounted'
  <2>1. left \subseteq left' /\ \A x \in Records : Is(r, x, "complete") => x \in left'
    BY DEF SeedFails
  <2> QED BY <1>1, <2>1, StillAccounted DEF SeedInv
<1> HIDE DEF to
<1> QED BY <1>1, <1>2, <1>3, <1>4, RunnerStep

LEMMA ContinueKeeps == ASSUME SeedInv, NEW r \in Runners, Continue(r) PROVE SeedInv'
BY WriteKeeps, LookForRootKeeps, InsertRootKeeps, FinishKeeps, LookForKeeps, InsertKeeps,
   CompleteKeeps DEF Continue

(***************************************************************************)
(* Both together.  While the command runs there is no database yet, and    *)
(* once it has succeeded what the seeds read is what it has shown.         *)
(***************************************************************************)
Together ==
    /\ touched \in BOOLEAN
    /\ Generating => ~migrated /\ \A r \in Runners : ~Running(r)
    /\ ~touched /\ Generated =>
         /\ env = shown /\ shown \in Secrets
         /\ root # NoRoot => root = shown
         /\ \A r \in Runners : Running(r) => seed[r].password = shown

PInv == GenInv /\ SeedInv /\ Together

LEMMA InitHolds == Init => PInv
<1> SUFFICES ASSUME Init PROVE PInv
  OBVIOUS
<1>1. GenTypeOK /\ gen.pc = "idle" /\ ~Generating /\ ~Generated
  BY DEF Init, GenInit, Rest, GenTypeOK, Generating, Generated, Files, Template
<1>2. GenInv
  BY <1>1 DEF GenInv, Stage, AfterCheck
<1>3. TablesOK /\ HalfMadeIsAccounted
  BY SeedConstants DEF Init, SeedInit, TablesOK, HalfMadeIsAccounted, Records
<1>4. seed \in [Runners -> [part : Parts, stage : Stages, password : Passwords \cup {NoRoot}]]
  BY DEF Init, SeedInit, Parts, Stages
<1>5. \A r \in Runners : RunnerOK(r)
  BY <1>4 DEF Init, SeedInit, RunnerOK, Running, Passed
<1> QED BY <1>1, <1>2, <1>3, <1>4, <1>5 DEF PInv, SeedInv, Together, Init

LEMMA GeneratorStepKeeps == ASSUME PInv, GeneratorStep PROVE PInv'
<1>1. GenInv'
  BY InvokeKeeps, GenerateKeeps, FailsKeeps DEF GeneratorStep, PInv
<1>2. SeedInv'
  <2>1. UNCHANGED <<seed, record, left>> /\ TablesOK' /\ Grows
    BY DEF GeneratorStep, PInv, SeedInv, TablesOK, Grows
  <2> QED BY <2>1, TablesStep DEF PInv
<1>3. ~migrated /\ \A r \in Runners : ~Running(r)
  <2>1. CASE Invoke
    <3>1. ~Generating
      BY <2>1 DEF Invoke
    <3> QED BY <2>1, <3>1 DEF GeneratorStep, AtRest, Generate, GenerationFails, Generating,
          RefuseName, CheckTarget, CopyFile, Rewrite, WriteEnv, WriteGitignore, InitGit,
          Install, Report
  <2>2. CASE Generate \/ GenerationFails
    <3>1. Generating
      BY <2>2 DEF Generate, GenerationFails, Generating, RefuseName, CheckTarget, CopyFile,
         Rewrite, WriteEnv, WriteGitignore, InitGit, Install, Report
    <3> QED BY <3>1 DEF PInv, Together
  <2> QED BY <2>1, <2>2 DEF GeneratorStep
<1>4. root = NoRoot
  BY <1>3 DEF PInv, SeedInv, TablesOK
<1>5. Generated' => env' = shown' /\ shown' \in Secrets
  <2>1. SUFFICES ASSUME gen'.pc = "ready" PROVE env' = shown' /\ shown' \in Secrets
    BY DEF Generated
  <2>2. ~Invoke /\ ~GenerationFails
    BY <2>1 DEF Invoke, GenerationFails, Rest
  <2>3. Report
    BY <2>1, <2>2, OnlyReportSucceeds DEF GeneratorStep, PInv
  <2> QED BY <2>3 DEF Report, PInv, GenInv, Stage, AfterCheck
<1>6. ~migrated' /\ root' = NoRoot /\ \A r \in Runners : ~Running(r)'
  BY <1>3, <1>4 DEF GeneratorStep, Running
<1>7. Together'
  BY <1>5, <1>6 DEF Together, GeneratorStep, PInv
<1> QED BY <1>1, <1>2, <1>7 DEF PInv

LEMMA DeveloperStepKeeps == ASSUME PInv, DeveloperStep PROVE PInv'
<1>1. GenInv'
  BY DevelopKeeps DEF DeveloperStep, PInv
<1>2. SeedInv'
  <2>1. UNCHANGED <<seed, record, left>> /\ TablesOK' /\ Grows
    BY DEF DeveloperStep, PInv, SeedInv, TablesOK, Grows
  <2> QED BY <2>1, TablesStep DEF PInv
<1>3. UNCHANGED <<gen, shown, root, seed, migrated>>
  BY DEF DeveloperStep, Develop, EditFile, EditEnv, RemoveEnv, EmptyDirectory
<1>4. touched' = (touched \/ env' # env)
  BY DEF DeveloperStep
<1>5. Together'
  BY <1>3, <1>4 DEF Together, PInv, Generating, Generated, Running
<1> QED BY <1>1, <1>2, <1>5 DEF PInv

\* setup.ts changes nothing where the developer has not.
LEMMA SetupStepKeeps == ASSUME PInv, SetupEnv PROVE PInv'
<1>1. GenInv'
  BY SetupKeeps DEF PInv
<1>2. SeedInv'
  <2>1. UNCHANGED <<seed, record, left>> /\ TablesOK' /\ Grows
    BY DEF SetupEnv, PInv, SeedInv, TablesOK, Grows
  <2> QED BY <2>1, TablesStep DEF PInv
<1>3. touched
  BY GeneratorConstants DEF SetupEnv, PInv, Together
<1>4. Together'
  BY <1>3 DEF SetupEnv, PInv, Together, Generating, Running
<1> QED BY <1>1, <1>2, <1>4 DEF PInv

LEMMA EnvPasswordOK ==
    ASSUME PInv
    PROVE  /\ EnvPassword \in Passwords
           /\ ~touched /\ Generated => EnvPassword = shown
BY GeneratorConstants, ProjectConstants
   DEF EnvPassword, PInv, Together, GenInv, GenTypeOK

LEMMA DatabaseStepKeeps == ASSUME PInv, DatabaseStep PROVE PInv'
<1>1. GenInv'
  BY DEF DatabaseStep, PInv, GenInv, GenTypeOK, Stage, Whole
<1>2. SeedInv'
  BY MigrateKeeps, StartKeeps, ContinueKeeps, SeedFailsKeeps, EnvPasswordOK
     DEF DatabaseStep, PInv
<1>3. ~Generating
  <2>1. SUFFICES ASSUME Generating PROVE FALSE
    OBVIOUS
  <2>2. ~Generated /\ \A r \in Runners : ~Running(r)
    BY <2>1 DEF PInv, Together, Generating, Generated
  <2>3. \A r \in Runners : ~Continue(r) /\ ~SeedFails(r)
    BY <2>2 DEF Continue, SeedFails, WriteRows, LookForRoot, InsertRoot, FinishSeed, LookFor,
       InsertRecord, CompleteRecord, Is, Running, Records
  <2> QED BY <2>2, <2>3 DEF DatabaseStep
<1>4. ASSUME ~touched, Generated
      PROVE  /\ root' # NoRoot => root' = shown
             /\ \A r \in Runners : Running(r)' => seed'[r].password = shown
  <2>1. CASE Migrate \/ SignupTakesAddress
    BY <1>4, <2>1 DEF Migrate, SignupTakesAddress, PInv, Together, Running
  <2>2. CASE \E r \in Runners : StartSeed(r, EnvPassword)
    <3>1. PICK r \in Runners : StartSeed(r, EnvPassword)
      BY <2>2
    <3>2. /\ root' = root
          /\ seed' = [seed EXCEPT ![r] = [part |-> "settings", stage |-> "look",
                                          password |-> shown]]
      BY <1>4, <3>1, EnvPasswordOK DEF StartSeed
    <3>3. seed'[r].password = shown /\ \A q \in Runners \ {r} : seed'[q] = seed[q]
      BY <3>2 DEF PInv, SeedInv
    <3> QED BY <1>4, <3>2, <3>3 DEF PInv, Together, Running
  <2>3. CASE \E r \in Runners : Continue(r) \/ SeedFails(r)
    <3>1. PICK r \in Runners : Continue(r) \/ SeedFails(r)
      BY <2>3
    <3>2. Running(r)
      BY <3>1 DEF Continue, SeedFails, WriteRows, LookForRoot, InsertRoot, FinishSeed, LookFor,
         InsertRecord, CompleteRecord, Is, Running, Records
    <3>3. PICK part, stage : MovesTo(r, part, stage)
      BY <3>1 DEF Continue, SeedFails, WriteRows, LookForRoot, InsertRoot, FinishSeed, LookFor,
         InsertRecord, CompleteRecord, MovesOn
    <3>4. \A q \in Runners : /\ seed'[q].password = seed[q].password
                             /\ q # r => seed'[q] = seed[q]
      BY <3>3 DEF MovesTo, PInv, SeedInv
    <3>5. root' \in {root, seed[r].password}
      BY <3>1 DEF Continue, SeedFails, WriteRows, LookForRoot, InsertRoot, FinishSeed, LookFor,
         InsertRecord, CompleteRecord
    <3> QED BY <1>4, <3>2, <3>4, <3>5 DEF PInv, Together, Running
  <2> QED BY <2>1, <2>2, <2>3 DEF DatabaseStep
<1>5. Together'
  BY <1>3, <1>4 DEF DatabaseStep, PInv, Together, Generating, Generated
<1> QED BY <1>1, <1>2, <1>5 DEF PInv

LEMMA StutterKeeps == ASSUME PInv, UNCHANGED vars PROVE PInv'
<1>1. SeedInv'
  <2>1. TablesOK' /\ Grows
    BY DEF vars, PInv, SeedInv, TablesOK, Grows
  <2> QED BY <2>1, TablesStep DEF vars, PInv
<1>2. GenInv' /\ Together'
  BY DEF vars, PInv, GenInv, GenTypeOK, Stage, Whole, Together, Generating, Generated, Running
<1> QED BY <1>1, <1>2 DEF PInv

LEMMA StepKeeps == ASSUME PInv, [Next]_vars PROVE PInv'
BY GeneratorStepKeeps, DeveloperStepKeeps, SetupStepKeeps, DatabaseStepKeeps, StutterKeeps
   DEF Next

LEMMA PInvAlways == Spec => []PInv
BY InitHolds, StepKeeps, PTL DEF Spec

(***************************************************************************)
(* Theorems.                                                               *)
(***************************************************************************)
\* Records half-made, made and passed are where the seeds say, for any number of
\* seeds, crashes and repetitions (packages/db/src/seed.ts).
THEOREM ProjectInvariant == Spec => []ProjectInv
<1>1. PInv => ProjectInv
  BY SeedInvImplies DEF PInv, GenInv, ProjectInv
<1> QED BY <1>1, PInvAlways, PTL

\* The baseline that finished seeds leave is whole, but for what a crash has left.
THEOREM SeedsFinishWhole == Spec => []FinishedIsWhole
<1>1. ASSUME PInv PROVE FinishedIsWhole
  <2> SUFFICES ASSUME NEW r \in Runners, seed[r].part = "done",
                      \A q \in Runners : ~Running(q),
                      NEW x \in Records
               PROVE  root # NoRoot /\ (record[x] = "whole" \/ x \in left)
    BY <1>1 DEF FinishedIsWhole, PInv, SeedInv, RunnerOK, Records
  <2>1. root # NoRoot /\ record[x] # "none"
    BY <1>1 DEF PInv, SeedInv, RunnerOK, Passed
  <2>2. Makers(x) = {}
    BY DEF Makers, Is, Running, Records
  <2> QED BY <1>1, <2>1, <2>2 DEF PInv, SeedInv, TablesOK, HalfMadeIsAccounted
<1> QED BY <1>1, PInvAlways, PTL

\* The password that the command has shown opens ROOT, unless .env was changed.
THEOREM PasswordOpensRoot == Spec => []ShownOpensRoot
<1>1. PInv => ShownOpensRoot
  BY DEF PInv, Together, ShownOpensRoot
<1> QED BY <1>1, PInvAlways, PTL

\* No run of the command overwrites what the developer has written.
THEOREM WorkIsKept == Spec => DevelopersWorkStands
<1>1. ASSUME PInv, [Next]_vars, Generating
      PROVE  UNCHANGED genVars \/ Generate \/ GenerationFails
  BY <1>1 DEF vars, Next, GeneratorStep, Invoke, DeveloperStep, Develop, EditFile, EditEnv,
     RemoveEnv, EmptyDirectory, SetupEnv, AtRest, DatabaseStep
<1>2. ASSUME PInv, [Next]_vars
      PROVE  [Generating => /\ \A f \in Files : tree[f] = "user" => tree'[f] = "user"
                            /\ env = UsersOwn => env' = UsersOwn]_genVars
  BY <1>1, <1>2, WorkStands, EnvStands DEF PInv
<1> QED BY <1>2, PInvAlways, PTL DEF Spec, DevelopersWorkStands

\* A run that reports success has left a whole project and a secret of its own.
THEOREM SuccessLeavesAll == Spec => SuccessIsWhole
<1>1. ASSUME PInv, [Next]_vars, gen.pc # "ready", gen'.pc = "ready"
      PROVE  Report
  <2>1. ~UNCHANGED gen
    BY <1>1
  <2>2. Generate
    BY <1>1, <2>1 DEF vars, Next, GeneratorStep, Invoke, GenerationFails, Rest, DeveloperStep,
       Develop, EditFile, EditEnv, RemoveEnv, EmptyDirectory, SetupEnv, DatabaseStep
  <2> QED BY <1>1, <2>2, OnlyReportSucceeds DEF PInv
<1>2. ASSUME PInv, [Next]_vars
      PROVE  [gen.pc # "ready" /\ gen'.pc = "ready" =>
                /\ \A f \in Template : tree[f] = IF f \in Rewritten THEN "project" ELSE "template"
                /\ tree[".gitignore"] = "project"
                /\ shown' = env /\ shown' \in Secrets /\ shown' # shown]_genVars
  BY <1>1, <1>2 DEF Report, PInv, GenInv, Stage, Whole, AfterCheck
<1> QED BY <1>2, PInvAlways, PTL DEF Spec, SuccessIsWhole

\* No seed changes a ROOT account that is there, whatever its password.
THEOREM RootStands == Spec => RootIsKept
<1>1. ASSUME [Next]_vars PROVE [root # NoRoot => root' = root]_seedVars
  BY <1>1 DEF vars, Next, GeneratorStep, DeveloperStep, SetupEnv, DatabaseStep, Migrate,
     SignupTakesAddress, StartSeed, Continue, SeedFails, WriteRows, LookForRoot, InsertRoot,
     FinishSeed, LookFor, InsertRecord, CompleteRecord
<1> QED BY <1>1, PTL DEF Spec, RootIsKept
================================================================================
