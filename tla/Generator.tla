------------------------------- MODULE Generator --------------------------------
(***************************************************************************)
(* The command create-odoo-app: src/cli.ts, src/prompts.ts, src/generator  *)
(* .ts, src/utils/fs.ts and the theme of src/themes.ts, run in one target  *)
(* directory, again and again, by a developer who works there in between.  *)
(*                                                                         *)
(* A run checks that the directory is empty, copies the template file by   *)
(* file, and then rewrites what names the project.  Any step may be the    *)
(* last: an error ends the command, and nothing is taken back.             *)
(***************************************************************************)
CONSTANTS
    Secrets,        \* passwords and session secrets, drawn afresh by each run (bound)
    Placeholder,    \* what .env.example says in their place
    UsersOwn,       \* what the developer writes into .env
    NoSecret,
    Edited          \* files that the developer writes (bound)

ASSUME GeneratorConstants ==
    /\ Placeholder # UsersOwn /\ NoSecret \notin {Placeholder, UsersOwn}
    /\ Secrets \cap {Placeholder, UsersOwn, NoSecret} = {}

VARIABLES
    tree,       \* by file of the directory: "none", "user", "template", "project"
    env,        \* what .env says, NoSecret if there is no such file
    gen,        \* the run of the command
    shown       \* the password that the last run to succeed has shown

genVars == <<tree, env, gen, shown>>

\* Files of the template, some of them for many; and one of the developer's own.
Template == {"package.json", "branding", "globals.css", "README.md", ".env.example", "sources"}
Files == Template \cup {".gitignore", ".git", "notes"}

Rewritten == {"package.json", "branding", "globals.css", "README.md"}

\* transformProjectMetadata rewrites them in this order.
Before(f) ==
    CASE f = "package.json" -> {}
      [] f = "branding" -> {"package.json"}
      [] f = "globals.css" -> {"package.json", "branding"}
      [] f = "README.md" -> {"package.json", "branding", "globals.css"}

\* Where the directory is: the current one, or a new one; and what is under way there
Rest(pc) == [pc |-> pc, here |-> FALSE, git |-> FALSE, copied |-> {}, secret |-> NoSecret]
Generating == gen.pc \notin {"idle", "refused", "ready", "failed"}
GoesTo(pc) == gen' = [gen EXCEPT !.pc = pc]

GenInit ==
    /\ \E mine \in SUBSET {"notes", ".git"} :
         tree = [f \in Files |-> IF f \in mine THEN "user" ELSE "none"]
    /\ env = NoSecret /\ shown = NoSecret
    /\ gen = Rest("idle")

\* What the prompts ask for, or flags say: the current directory, a repository
Choices == [here : BOOLEAN, git : BOOLEAN]

\* Cancelling the prompts, or a theme that is none, ends the command before this.
Invoke ==
    /\ ~Generating
    /\ \E choice \in Choices :
         gen' = [pc |-> "check", here |-> choice.here, git |-> choice.git,
                 copied |-> {}, secret |-> NoSecret]
    /\ UNCHANGED <<tree, env, shown>>

\* validateProjectName: a reserved name, or one that is no directory of its own
RefuseName == gen.pc = "check" /\ gen' = Rest("refused") /\ UNCHANGED <<tree, env, shown>>

IsEmptyHere ==                          \* variant: the current directory is not looked at
    gen.here \/ (env = NoSecret /\ \A f \in Files \ {".git"} : tree[f] = "none")

\* The check is for "." as well; a directory that only holds .git will do.
IsEmpty == env = NoSecret /\ \A f \in Files \ {".git"} : tree[f] = "none"

CheckTarget ==
    /\ gen.pc = "check"
    /\ gen' = IF IsEmpty THEN [gen EXCEPT !.pc = "copy"] ELSE Rest("refused")
    /\ UNCHANGED <<tree, env, shown>>

\* .git, .env and all that TEMPLATE_IGNORES names stay behind; the template of the
\* published package has no .gitignore.
CopyFile(f) ==
    /\ gen.pc = "copy" /\ f \notin gen.copied
    /\ tree' = [tree EXCEPT ![f] = "template"]
    /\ gen' = [gen EXCEPT !.copied = @ \cup {f},
                          !.pc = IF gen.copied \cup {f} = Template THEN "transform" ELSE @]
    /\ UNCHANGED <<env, shown>>

Rewrite(f) ==
    /\ gen.pc = "transform"
    /\ tree[f] = "template" /\ \A g \in Before(f) : tree[g] = "project"
    /\ tree' = [tree EXCEPT ![f] = "project"]
    /\ GoesTo(IF f = "README.md" THEN "env" ELSE "transform")
    /\ UNCHANGED <<env, shown>>

CopiesExample(s) == Placeholder         \* variant: .env is a copy of .env.example

\* applyGeneratedSecrets replaces the two lines, or adds them.
Applied(s) == s

WriteEnv ==
    /\ gen.pc = "env"
    /\ IF env = NoSecret
       THEN \E s \in Secrets \ {shown} :
              env' = Applied(s) /\ gen' = [gen EXCEPT !.pc = "gitignore", !.secret = s]
       ELSE GoesTo("gitignore") /\ UNCHANGED env
    /\ UNCHANGED <<tree, shown>>

WriteGitignore ==
    /\ gen.pc = "gitignore"
    /\ tree' = [tree EXCEPT ![".gitignore"] = "project"]
    /\ GoesTo("git")
    /\ UNCHANGED <<env, shown>>

\* This and what follows may fail: a warning, and the run goes on.  git init leaves
\* a repository that is there.
InitGit ==
    /\ gen.pc = "git"
    /\ tree' \in IF gen.git /\ tree[".git"] = "none"
                 THEN {tree, [tree EXCEPT ![".git"] = "project"]} ELSE {tree}
    /\ GoesTo("install")
    /\ UNCHANGED <<env, shown>>

\* pnpm install and docker compose, if they are asked for, write nothing of this; the
\* second is tried after an install that failed, too.
Install == gen.pc = "install" /\ GoesTo("report") /\ UNCHANGED <<tree, env, shown>>

\* The command prints the password of .env, this once.
Report ==
    /\ gen.pc = "report"
    /\ shown' = gen.secret
    /\ gen' = Rest("ready")
    /\ UNCHANGED <<tree, env>>

\* An error of the file system or of a parser is thrown to the CLI, which exits; or
\* the command is interrupted, perhaps in the middle of a file.
GenerationFails ==
    /\ Generating
    /\ \/ UNCHANGED tree
       \/ \E f \in Template : gen.pc = "copy" /\ f \notin gen.copied /\ tree' = [tree EXCEPT ![f] = "template"]
    /\ gen' = Rest("failed")
    /\ UNCHANGED <<env, shown>>

(***************************************************************************)
(* The developer, while the command does not run.                          *)
(***************************************************************************)
EditFile ==
    /\ ~Generating
    /\ \E f \in Edited : tree[f] # "user" /\ tree' = [tree EXCEPT ![f] = "user"]
    /\ UNCHANGED <<env, gen, shown>>

EditEnv ==
    /\ ~Generating /\ env # UsersOwn
    /\ env' = UsersOwn
    /\ UNCHANGED <<tree, gen, shown>>

\* A fresh start, or a clone of the project, which has no .env
RemoveEnv == ~Generating /\ env # NoSecret /\ env' = NoSecret /\ UNCHANGED <<tree, gen, shown>>
EmptyDirectory ==
    /\ ~Generating
    /\ tree' = [f \in Files |-> "none"] /\ env' = NoSecret
    /\ UNCHANGED <<gen, shown>>

Generate ==
    \/ RefuseName \/ CheckTarget \/ WriteEnv \/ WriteGitignore \/ InitGit \/ Install \/ Report
    \/ \E f \in Template : CopyFile(f)
    \/ \E f \in Rewritten : Rewrite(f)

Develop == EditFile \/ EditEnv \/ RemoveEnv \/ EmptyDirectory

(***************************************************************************)
(* Properties.                                                             *)
(***************************************************************************)
GenTypeOK ==
    /\ tree \in [Files -> {"none", "user", "template", "project"}]
    /\ env \in Secrets \cup {Placeholder, UsersOwn, NoSecret}
    /\ gen \in [pc : {"idle", "check", "copy", "transform", "env", "gitignore", "git", "install", "report",
                      "refused", "ready", "failed"},
                here : BOOLEAN, git : BOOLEAN, copied : SUBSET Template, secret : Secrets \cup {NoSecret}]
    /\ shown \in Secrets \cup {NoSecret}

\* generator.ts:262-265: a run never overwrites what the developer has written, be it
\* their own file or a change to what an earlier run left, in any directory.
DevelopersWorkStands ==
    [][Generating => /\ \A f \in Files : tree[f] = "user" => tree'[f] = "user"
                     /\ env = UsersOwn => env' = UsersOwn]_genVars

\* A run that reports success has left a whole project: every file of the template,
\* each that names the project rewritten, and in .env the password that it shows,
\* which the run before it has not shown.
SuccessIsWhole ==
    [][gen.pc # "ready" /\ gen'.pc = "ready" =>
         /\ \A f \in Template : tree[f] = IF f \in Rewritten THEN "project" ELSE "template"
         /\ tree[".gitignore"] = "project"
         /\ shown' = env /\ shown' \in Secrets /\ shown' # shown]_genVars
===============================================================================
