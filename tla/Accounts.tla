------------------------------- MODULE Accounts --------------------------------
(***************************************************************************)
(* Accounts and their addresses: the routes of apps/api/src/routes/v1      *)
(* auth.ts (signup, login, logout, session) and profile.ts, over the users *)
(* table and the identity that packages/auth/src/session caches with each  *)
(* session.                                                                *)
(*                                                                         *)
(* Each action is one query (signup's transaction counts as one) with the  *)
(* code that runs before the next.  Throttling is in Login, expiry and     *)
(* suspension are in Sessions; here a session lasts until logout, and its  *)
(* validation is one step.                                                 *)
(***************************************************************************)
EXTENDS FiniteSets

CONSTANTS
    Users, Tokens,      \* the ids and session tokens there may be (bound)
    Emails, Passwords,
    Calls,              \* the requests of one behaviour (bound)
    None,               \* no email, password, user or token
    registrationEnabled,    \* authConfig.registrationEnabled
    Seeded,             \* is the default policy of external users in the tables?
    MayFail             \* may PostgreSQL or Redis fail a request?

ASSUME AccountConstants ==
    /\ None \notin Users \cup Tokens \cup Emails \cup Passwords
    /\ registrationEnabled \in BOOLEAN /\ Seeded \in BOOLEAN /\ MayFail \in BOOLEAN

VARIABLES
    users,      \* by id: address, password, and has it the default policy?
    sessions,   \* by token: whose, and not revoked?
    copies,     \* by token: the address in the identity that Redis holds
    call        \* the local state of each request

vars == <<users, sessions, copies, call>>

NoAccount == [email |-> None, password |-> None, policy |-> FALSE]
Exists(u) == users[u].email # None
Taken(e) == \E u \in Users : users[u].email = e

Routes == {"signup", "login", "logout", "session", "profile", "update", "change"}
Over == {"ok", "unauthorized", "forbidden", "conflict", "failed"}
Steps == {"idle", "s_check", "s_commit", "l_verify", "c_read", "c_store", "answer",
          "o_revoke", "g_answer", "p_check", "p_update", "w_verify", "w_update"} \cup Over

\* Past these points a request has an identity, or an address and a new password.
Acting == {"c_read", "c_store", "p_check", "p_update", "w_verify", "w_update"}
Stating == {"s_check", "s_commit"}

\* who and seen are request.user's id and address; given and next, the passwords.
\* What the properties speak of: fresh, was seen the address of the row when the
\* request arrived; calm, has nobody else written users since; had, every <<user,
\* address, password>> since.
Idle == [pc |-> "idle", route |-> "session", token |-> None, who |-> None, seen |-> None,
         cached |-> FALSE, email |-> None, given |-> None, next |-> None,
         fresh |-> TRUE, calm |-> TRUE, had |-> {}]

Credentials == {<<u, users[u].email, users[u].password>> : u \in {v \in Users : Exists(v)}}

\* Somebody has signed up before and has a session, copied or not.
Init ==
    /\ \E u \in Users, e \in Emails, p \in Passwords, t \in Tokens, copied \in BOOLEAN :
         /\ users = [v \in Users |-> IF v # u THEN NoAccount
                        ELSE [email |-> e, password |-> p, policy |-> Seeded]]
         /\ sessions = [k \in Tokens |-> [user |-> IF k = t THEN u ELSE None, live |-> k = t]]
         /\ copies = [k \in Tokens |-> IF k = t /\ copied THEN e ELSE None]
    /\ call = [c \in Calls |-> Idle]

Resume(c, next) == call' = [call EXCEPT ![c] = next]
At(c, pc) == IF pc \in Over THEN [Idle EXCEPT !.pc = pc] ELSE [call[c] EXCEPT !.pc = pc]
Goto(c, pc) == Resume(c, At(c, pc))
Reads == UNCHANGED <<users, sessions, copies>>

\* Having written users, which the other requests may notice
Wrote(c, next) ==
    /\ call' = [d \in Calls |->
         IF d = c THEN next
         ELSE [call[d] EXCEPT !.calm = (@ /\ call[d].route # "update"),
                              !.had = IF call[d].given = None THEN {} ELSE @ \cup Credentials']]
    /\ UNCHANGED <<sessions, copies>>

(***************************************************************************)
(* The preHandler hook: the identity of a copy, or that of the row, which  *)
(* is copied.  Whatever fails leaves the request without an identity.      *)
(***************************************************************************)
Arrives(c, t, next) ==
    LET u == sessions[t].user
        stranger == [next EXCEPT !.token = IF next.route = "logout" THEN t ELSE None,
                            !.had = IF next.given = None THEN {} ELSE Credentials]
        identity(email, cached) ==
            IF next.pc # "g_answer" THEN stranger
            ELSE [stranger EXCEPT !.who = u, !.seen = email, !.cached = cached,
                                  !.fresh = (email = users[u].email)]
    IN  /\ call[c].pc = "idle"
        /\ \/ t = None /\ Resume(c, stranger) /\ UNCHANGED copies
           \/ /\ t # None /\ copies[t] # None
              /\ Resume(c, identity(copies[t], TRUE))
              /\ UNCHANGED copies
           \/ /\ t # None /\ (copies[t] = None \/ MayFail) /\ sessions[t].live
              /\ Resume(c, identity(users[u].email, FALSE))
              /\ copies' = [copies EXCEPT ![t] = users[u].email]
           \/ /\ t # None /\ (copies[t] = None \/ MayFail) /\ (~sessions[t].live \/ MayFail)
              /\ Resume(c, stranger)
              /\ UNCHANGED copies
        /\ UNCHANGED <<users, sessions>>

Cookies == {None} \cup {t \in Tokens : sessions[t].user # None}

(***************************************************************************)
(* POST /auth/signup                                                       *)
(***************************************************************************)
Signup(c) == \E e \in Emails, p \in Passwords, t \in Cookies :
    Arrives(c, t, [Idle EXCEPT !.route = "signup", !.email = e, !.next = p,
                    !.pc = IF registrationEnabled THEN "s_check" ELSE "forbidden"])

CheckAddress(c) ==
    /\ call[c].pc = "s_check"
    /\ Goto(c, IF Taken(call[c].email) THEN "conflict" ELSE "s_commit")
    /\ Reads

Account(c, policy) ==
    [email |-> call[c].email, password |-> call[c].next, policy |-> policy]

\* variant: the account and its policy are two statements, and the second may fail
CreateThenAttach(c) ==
    /\ call[c].pc = "s_commit"
    /\ ~Taken(call[c].email)
    /\ \E u \in Users, attached \in BOOLEAN :
         /\ ~Exists(u)
         /\ users' = [users EXCEPT ![u] = Account(c, Seeded /\ attached)]
         /\ Wrote(c, IF attached THEN [call[c] EXCEPT !.pc = "c_read", !.who = u]
                                ELSE At(c, "failed"))

\* The transaction: the account and its policy, or, if the index on the address
\* refuses it, nothing and a 500.
CreateAccount(c) ==
    /\ call[c].pc = "s_commit"
    /\ \/ /\ ~Taken(call[c].email)
          /\ \E u \in Users :
               /\ ~Exists(u)
               /\ users' = [users EXCEPT ![u] = Account(c, Seeded)]
               /\ Wrote(c, [call[c] EXCEPT !.pc = "c_read", !.who = u])
       \/ Taken(call[c].email) /\ Goto(c, "failed") /\ Reads

(***************************************************************************)
(* POST /auth/login                                                        *)
(***************************************************************************)
Login(c) == \E e \in Emails, p \in Passwords, t \in Cookies :
    Arrives(c, t, [Idle EXCEPT !.route = "login", !.pc = "l_verify", !.email = e, !.given = p])

MatchesAddress(c, u) == users[u].email = call[c].email      \* variant: any password
Matches(c, u) == users[u].email = call[c].email /\ users[u].password = call[c].given

VerifyPassword(c) ==
    /\ call[c].pc = "l_verify"
    /\ \/ \E u \in Users :
            Matches(c, u) /\ Resume(c, [call[c] EXCEPT !.pc = "c_read", !.who = u])
       \/ (\A u \in Users : ~Matches(c, u)) /\ Goto(c, "unauthorized")
    /\ Reads

(***************************************************************************)
(* createSession reads the account, then stores the session and a copy of  *)
(* what it read.  The audit and the permissions come after.                *)
(***************************************************************************)
ReadAccount(c) ==
    /\ call[c].pc = "c_read"
    /\ Resume(c, [call[c] EXCEPT !.pc = "c_store", !.seen = users[call[c].who].email])
    /\ Reads

StoreSession(c) ==
    /\ call[c].pc = "c_store"
    /\ \E t \in Tokens :
         /\ sessions[t].user = None
         /\ sessions' = [sessions EXCEPT ![t] = [user |-> call[c].who, live |-> TRUE]]
         /\ \/ /\ copies' = [copies EXCEPT ![t] = call[c].seen]
               /\ Goto(c, "answer")
            \/ MayFail /\ Goto(c, "failed") /\ UNCHANGED copies
    /\ UNCHANGED users

Answer(c) == call[c].pc = "answer" /\ Goto(c, "ok") /\ Reads

(***************************************************************************)
(* POST /auth/logout: the copy goes before the row.  Without a cookie      *)
(* there is nothing to revoke.                                             *)
(***************************************************************************)
Logout(c) == \E t \in Cookies :
    Arrives(c, t, [Idle EXCEPT !.route = "logout",
                    !.pc = IF t = None THEN "ok" ELSE "o_revoke"])

Revoke(c) ==
    /\ call[c].pc = "o_revoke"
    /\ copies' = [copies EXCEPT ![call[c].token] = None]
    /\ \/ /\ sessions' = [sessions EXCEPT ![call[c].token].live = FALSE]
          /\ Goto(c, "ok")
       \/ MayFail /\ Goto(c, "failed") /\ UNCHANGED sessions
    /\ UNCHANGED users

(***************************************************************************)
(* The routes that want an identity, and but for GET /auth/session the     *)
(* default policy.                                                         *)
(***************************************************************************)
Asks(c, route, next) == \E t \in Cookies : Arrives(c, t, [next EXCEPT !.pc = "g_answer", !.route = route])

GetSession(c) == Asks(c, "session", Idle)
GetProfile(c) == Asks(c, "profile", Idle)
UpdateProfile(c) == \E e \in Emails : Asks(c, "update", [Idle EXCEPT !.email = e])
ChangePassword(c) == \E p, q \in Passwords :
    Asks(c, "change", [Idle EXCEPT !.given = p, !.next = q])

HandledAlways(c) ==                     \* variant: the own address is not excepted
    CASE call[c].route = "session" -> IF call[c].cached THEN "failed" ELSE "ok"
      [] call[c].route = "profile" -> "ok"
      [] call[c].route = "update" -> "p_check"
      [] OTHER -> "w_verify"

\* The identity of a copy has its dates as strings, and toISOString fails on them.
Handled(c) ==
    CASE call[c].route = "session" -> IF call[c].cached THEN "failed" ELSE "ok"
      [] call[c].route = "profile" -> "ok"
      [] call[c].route = "update" ->
            IF call[c].email = call[c].seen THEN "p_update" ELSE "p_check"
      [] OTHER -> "w_verify"

Guard(c) ==
    /\ call[c].pc = "g_answer"
    /\ Goto(c, IF call[c].who = None THEN "unauthorized"
               ELSE IF call[c].route # "session" /\ ~users[call[c].who].policy THEN "forbidden"
               ELSE Handled(c))
    /\ Reads

\* PUT /profile: an address that is not that of request.user must be free
CheckOther(c) ==
    /\ call[c].pc = "p_check"
    /\ Goto(c, IF Taken(call[c].email) THEN "conflict" ELSE "p_update")
    /\ Reads

\* The address is left alone if it is that of request.user.
StoreProfile(c) ==
    /\ call[c].pc = "p_update"
    /\ \/ call[c].email = call[c].seen /\ Goto(c, "ok") /\ Reads
       \/ /\ call[c].email # call[c].seen
          /\ \A u \in Users \ {call[c].who} : users[u].email # call[c].email
          /\ users' = [users EXCEPT ![call[c].who].email = call[c].email]
          /\ Wrote(c, At(c, "ok"))
       \/ /\ call[c].email # call[c].seen
          /\ \E u \in Users \ {call[c].who} : users[u].email = call[c].email
          /\ Goto(c, "failed")
          /\ Reads

\* POST /profile/change-password
VerifyCurrent(c) ==
    /\ call[c].pc = "w_verify"
    /\ Goto(c, IF users[call[c].who].password = call[c].given
                   THEN "w_update" ELSE "unauthorized")
    /\ Reads

StorePassword(c) ==
    /\ call[c].pc = "w_update"
    /\ users' = [users EXCEPT ![call[c].who].password = call[c].next]
    /\ Wrote(c, At(c, "ok"))

(***************************************************************************)
(* Failures.                                                               *)
(***************************************************************************)
\* A query fails; in Revoke and StoreSession, it may be the second of two.
Fail(c) ==
    /\ MayFail
    /\ call[c].pc \notin Over \cup {"idle"}
    /\ Goto(c, "failed")
    /\ Reads

\* Redis loses a copy.
CopyLost ==
    /\ \E t \in Tokens :
         copies[t] # None /\ copies' = [copies EXCEPT ![t] = None]
    /\ UNCHANGED <<users, sessions, call>>

Arrive(c) ==
    \/ Signup(c) \/ Login(c) \/ Logout(c) \/ GetSession(c)
    \/ GetProfile(c) \/ UpdateProfile(c) \/ ChangePassword(c)

Step(c) ==
    \/ CheckAddress(c) \/ CreateAccount(c) \/ VerifyPassword(c)
    \/ ReadAccount(c) \/ StoreSession(c) \/ Answer(c)
    \/ Revoke(c) \/ Guard(c) \/ CheckOther(c) \/ StoreProfile(c)
    \/ VerifyCurrent(c) \/ StorePassword(c)

Next == (\E c \in Calls : Arrive(c) \/ Step(c) \/ Fail(c)) \/ CopyLost

Spec == Init /\ [][Next]_vars

(***************************************************************************)
(* The invariant.                                                          *)
(***************************************************************************)
Maybe(S) == S \cup {None}

TypeOK ==
    /\ users \in [Users -> [email : Maybe(Emails), password : Maybe(Passwords), policy : BOOLEAN]]
    /\ sessions \in [Tokens -> [user : Maybe(Users), live : BOOLEAN]]
    /\ copies \in [Tokens -> Maybe(Emails)]
    /\ call \in [Calls -> [pc : Steps, route : Routes, token : Maybe(Tokens),
                          who : Maybe(Users), seen : Maybe(Emails), fresh : BOOLEAN,
                          cached : BOOLEAN, email : Maybe(Emails),
                          given : Maybe(Passwords), next : Maybe(Passwords),
                          calm : BOOLEAN,
                          had : SUBSET (Users \X Maybe(Emails) \X Maybe(Passwords))]]

\* No two accounts share an address.
EmailsDistinct ==
    \A u, v \in Users : Exists(u) /\ users[u].email = users[v].email => u = v

\* No account is without the policy that lets it manage itself, "able to log in and
\* do nothing, and unable to sign up again because the email was taken".
SignupIsWhole == \A u \in Users : Exists(u) => users[u].policy = Seeded

\* What a session, a copy or a request names is there.
NamesExist ==
    /\ \A t \in Tokens : sessions[t].user # None => Exists(sessions[t].user)
    /\ \A t \in Tokens : sessions[t].live \/ copies[t] # None => sessions[t].user # None
    /\ \A c \in Calls : /\ call[c].who # None => Exists(call[c].who)
                        /\ call[c].pc \in Acting => call[c].who # None
                        /\ call[c].pc \in Stating => call[c].email # None /\ call[c].next # None

AccountsInv == TypeOK /\ EmailsDistinct /\ SignupIsWhole /\ NamesExist

(***************************************************************************)
(* Properties.                                                             *)
(***************************************************************************)
\* A session is made for those who gave the address and the password that the
\* account had at one moment of the request, or signed up in it, and a password
\* gives way to those who gave it, however the requests race.
Gave(c, u) == \E k \in call[c].had : k[1] = u /\ k[3] = call[c].given
SignsIn(c, u) ==
    /\ call[c].pc = "c_store" /\ call[c].who = u
    /\ call[c].route = "signup" \/ <<u, call[c].email, call[c].given>> \in call[c].had
ChangesPassword(c, u) == call[c].pc = "w_update" /\ call[c].who = u /\ Gave(c, u)
AccessIsEarned == [][
    /\ \A t \in Tokens : sessions'[t].user # sessions[t].user
            => \E c \in Calls : SignsIn(c, sessions'[t].user)
    /\ \A u \in Users : Exists(u) /\ users'[u].password # users[u].password
            => \E c \in Calls : ChangesPassword(c, u)]_vars

\* Of an update whose session holds the address the account had, and which no other
\* write to users disturbs: a 200 leaves the address that was asked for, and a 409
\* means that another account has it.
Undisturbed(c) == call[c].route = "update" /\ call[c].calm /\ call[c].fresh /\ call[c].pc \notin Over
UpdateIsExact == [][\A c \in Calls : Undisturbed(c) =>
    /\ call'[c].pc = "ok" => users'[call[c].who].email = call[c].email
    /\ call'[c].pc = "conflict" =>
          \E u \in Users \ {call[c].who} : users[u].email = call[c].email]_vars

\* "Email address is already in use by another account" (profile.ts:112).
Refuses(c) == call[c].route = "update" /\ call[c].pc = "p_check" /\ call'[c].pc = "conflict"
ConflictIsWithAnother == [][\A c \in Calls : Refuses(c) =>
    \E u \in Users \ {call[c].who} : users[u].email = call[c].email]_vars
===============================================================================
