-------------------------------- MODULE Console --------------------------------
(***************************************************************************)
(* What the admin console shows of the server: the queries and mutations   *)
(* of apps/web/src/hooks/use-iam.ts over the cache of apps/web/src/app/    *)
(* providers.tsx, and the pages of app/(app)/admin that mount them.        *)
(*                                                                         *)
(* Of an answer only this is kept: is it "behind" a change that this tab   *)
(* made and is told of, or not?  A change that it cannot know of, another  *)
(* administrator's or one whose answer is lost, leaves the cache as it is. *)
(* Keys stand for: the list of users, the inspected user, that user's      *)
(* permissions, each list (roles, groups, policies), and one policy whose  *)
(* statements are looked at.  The cache itself is the query library's.     *)
(***************************************************************************)
EXTENDS FiniteSets

CONSTANTS
    Keys,           \* the queries that the tab makes (bound)
    Mutations       \* those done at the server and not heard of, at one time (bound)

ASSUME ConsoleConstants ==
    Keys \subseteq {"users", "user", "permissions", "roles", "groups", "policies", "policy"}

Lists == Keys \cap {"roles", "groups", "policies"}

\* "policy" is the page of the policies, with the policy's statements shown.
Pages == {"elsewhere", "overview", "inspector", "users", "policy"} \cup Lists

VARIABLES
    page,
    data,           \* by key: "none", "behind", "good"
    fetching,       \* by key: "idle", "sent", or the value of the answer on its way
    invalidated,    \* keys whose data is to be asked for again at the next mount
    gone,           \* is the policy deleted?
    mutation

cache == <<data, fetching, invalidated>>
consoleVars == <<page, cache, gone, mutation>>

Values == {"behind", "good"}
NoMutation == [kind |-> "none", from |-> "elsewhere"]

(***************************************************************************)
(* The tables.                                                             *)
(***************************************************************************)
\* The queries of a page.  The overview's count of users and that of permissions are
\* left out: nothing that the console does changes either.
Mounts(p) == Keys \cap
    CASE p = "inspector" -> {"user", "permissions"} \cup Lists
      [] p = "users" -> {"users"}
      [] p = "elsewhere" -> {}
      [] p = "overview" -> Lists
      [] p = "policy" -> {"policies", "policy"}
      [] OTHER -> {p, "policies"}

\* Those that start when it opens: to show a policy, or no longer, mounts nothing else.
Starts(p) ==
    IF p = "policy" THEN {"policy"}
    ELSE IF page = "policy" /\ p = "policies" THEN {} ELSE Mounts(p)

\* What a mutation changes at the server; a deletion takes its attachments with it,
\* and "drop" is the deletion of the policy.
Touches(c) == Keys \cap
    CASE c.kind = "status" -> {"users", "user", "permissions"}
      [] c.kind = "assign" -> {"user", "permissions"}
      [] c.kind = "create" -> {c.from}
      [] c.kind = "delete" -> {c.from, "user", "permissions"}
      [] c.kind = "drop" -> {c.from, "user", "permissions", "policy"}

Itemised == {"create", "delete", "drop"}

\* variant: the key of the user is taken not to cover the list
InvalidatesUser(c) ==
    Keys \cap IF c.kind \in Itemised THEN {c.from} ELSE {"user", "permissions"}

\* onSuccess of the hooks; the key of a user is a prefix of that of its permissions.
Invalidates(c) == Keys \cap
    CASE c.kind = "status" -> {"users", "user", "permissions"}
      [] c.kind = "assign" -> {"user", "permissions"}
      [] c.kind \in Itemised -> {c.from}

\* What the hooks leave out.  Nothing that shows the user hears of a deletion, and the
\* statements of a policy stay on show when it is deleted.
Overlooks(c) == Keys \cap
    CASE c.kind = "delete" -> {"user", "permissions"}
      [] c.kind = "drop" -> {"user", "permissions", "policy"}
      [] OTHER -> {}

\* The handlers of the pages, once mutateAsync has resolved
Refetches(c) == Keys \cap IF c.from = "inspector" THEN {"user", "permissions"} ELSE {c.from}

(***************************************************************************)
(* The cache (the query library).                                          *)
(***************************************************************************)
Outdated(f, keys) == [k \in Keys |-> IF k \in keys /\ f[k] = "good" THEN "behind" ELSE f[k]]
Excused(v) == IF v = "behind" THEN "good" ELSE v

ConsoleInit ==
    /\ page = "elsewhere"
    /\ data = [k \in Keys |-> "none"] /\ fetching = [k \in Keys |-> "idle"]
    /\ invalidated = {} /\ gone = FALSE
    /\ mutation = [c \in Mutations |-> NoMutation]

\* A query that mounts fetches without data or with data that is marked, and else if
\* its data is more than five seconds old; a fetch under way serves it too.  A policy
\* is chosen from the list; another chosen in its place closes it as the cross does.
Open(p) ==
    /\ p # page
    /\ p = "policy" => page = "policies" /\ data["policies"] # "none"
    /\ page' = p
    /\ \E aged \in SUBSET {k \in Starts(p) : data[k] # "none" /\ k \notin invalidated} :
         fetching' = [k \in Keys |->
             IF /\ k \in Starts(p) /\ fetching[k] = "idle"
                /\ data[k] = "none" \/ k \in invalidated \/ k \in aged
             THEN "sent" ELSE fetching[k]]
    /\ UNCHANGED <<data, invalidated, gone, mutation>>

\* There is no answer but a 404 for a policy that is deleted.
ServeQuery(k) ==
    /\ fetching[k] = "sent"
    /\ ~ (k = "policy" /\ gone)
    /\ fetching' = [fetching EXCEPT ![k] = "good"]
    /\ UNCHANGED <<page, data, invalidated, gone, mutation>>

HearQuery(k) ==
    /\ fetching[k] \in Values
    /\ data' = [data EXCEPT ![k] = fetching[k]]
    /\ fetching' = [fetching EXCEPT ![k] = "idle"]
    /\ invalidated' = invalidated \ {k}
    /\ UNCHANGED <<page, gone, mutation>>

\* After three retries the old data stays, and no page shows the error.
QueryFails(k) ==
    /\ fetching[k] # "idle"
    /\ fetching' = [fetching EXCEPT ![k] = "idle"]
    /\ data' = [data EXCEPT ![k] = Excused(@)]
    /\ UNCHANGED <<page, invalidated, gone, mutation>>

(***************************************************************************)
(* Mutations, from when the server has done them: the tab may have left    *)
(* the page they were sent from.  No button waits for the call before.     *)
(* One that fails, or whose answer is lost or late, shows a toast and      *)
(* changes nothing here.                                                   *)
(***************************************************************************)
Done(a, kind, from) ==
    LET c == [kind |-> kind, from |-> from] IN
    /\ mutation[a] = NoMutation
    /\ mutation' = [mutation EXCEPT ![a] = c]
    /\ data' = Outdated(data, Touches(c)) /\ fetching' = Outdated(fetching, Touches(c))
    /\ UNCHANGED <<page, invalidated>>

\* The inspector has nothing to click on before it has the user; the users page
\* has its rows.
Inspected == "user" \in Keys /\ data["user"] # "none"

ChangeStatus(a) ==
    /\ \/ Inspected /\ Done(a, "status", "inspector")
       \/ "users" \in Keys /\ data["users"] # "none" /\ Done(a, "status", "users")
    /\ UNCHANGED gone

\* Roles, groups and policies of the user, given or taken
Assign(a) == Inspected /\ Done(a, "assign", "inspector") /\ UNCHANGED gone

CreateItem(a, l) == Done(a, "create", l) /\ UNCHANGED gone
DeleteItem(a, l) == data[l] # "none" /\ Done(a, "delete", l) /\ UNCHANGED gone
DropPolicy(a) ==
    /\ "policies" \in Keys /\ data["policies"] # "none"
    /\ ~gone /\ gone' = TRUE
    /\ Done(a, "drop", "policies")

\* Invalidation asks again for what is mounted, the handler for what it names.
Restarted(c, k) == k \in (Invalidates(c) \cap Mounts(page)) \cup Refetches(c)

\* A fetch under way is given up for a new one if there is data to show meanwhile,
\* and otherwise lands as it is: an answer given before the change passes for news.
Joined(c, k) == fetching[k] # "idle" /\ (data[k] = "none" \/ ~Restarted(c, k))

HearSuccess(a) ==
    LET c == mutation[a] IN
    /\ c # NoMutation
    /\ invalidated' = invalidated \cup {k \in Invalidates(c) : data[k] # "none"}
    /\ fetching' = [k \in Keys |->
           IF Joined(c, k) THEN IF k \in Touches(c) THEN Excused(fetching[k]) ELSE fetching[k]
           ELSE IF Restarted(c, k) THEN "sent" ELSE fetching[k]]
    /\ data' = [k \in Keys |-> IF k \in Overlooks(c) THEN Excused(data[k]) ELSE data[k]]
    /\ mutation' = [mutation EXCEPT ![a] = NoMutation]
    /\ UNCHANGED <<page, gone>>

ConsoleNext ==
    \/ \E p \in Pages : Open(p)
    \/ \E k \in Keys : ServeQuery(k) \/ HearQuery(k) \/ QueryFails(k)
    \/ \E a \in Mutations : \/ ChangeStatus(a) \/ Assign(a) \/ DropPolicy(a) \/ HearSuccess(a)
                            \/ \E l \in Lists : CreateItem(a, l) \/ DeleteItem(a, l)

ConsoleSpec == ConsoleInit /\ [][ConsoleNext]_consoleVars

(***************************************************************************)
(* Properties.                                                             *)
(***************************************************************************)
ConsoleTypeOK ==
    /\ page \in Pages
    /\ data \in [Keys -> {"none"} \cup Values]
    /\ fetching \in [Keys -> {"idle", "sent"} \cup Values]
    /\ invalidated \subseteq Keys /\ gone \in BOOLEAN
    /\ mutation \in [Mutations ->
           [kind : {"none", "status", "assign"} \cup Itemised, from : Pages]]

\* Nothing that touches the key waits to be heard.
Told(k) == \A a \in Mutations : mutation[a] # NoMutation => k \notin Touches(mutation[a])

\* What a page shows once it is at rest is never from before a change that this tab has
\* made and was told of, whatever else was under way, clicked or left meanwhile, except
\* for: what Overlooks says of deletions; an answer given before the change to a first
\* fetch (Joined); and data that was asked for again in vain (QueryFails).
ConsoleIsExact == \A k \in Mounts(page) : Told(k) /\ fetching[k] = "idle" => data[k] # "behind"

ConsoleInv == ConsoleTypeOK /\ ConsoleIsExact
===============================================================================
