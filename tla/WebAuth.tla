-------------------------------- MODULE WebAuth --------------------------------
(***************************************************************************)
(* Who a tab of the web application takes its user for: the AuthProvider   *)
(* of apps/web/src/contexts/auth-context.tsx, the calls it makes through   *)
(* apps/web/src/lib/api-client.ts, and the pages that start them.          *)
(*                                                                         *)
(* A call is sent with the cookie of that moment, served at another, and   *)
(* heard at a third, or given up after ten seconds, by the client alone.   *)
(* The server's side is what Accounts and Sessions do in several steps.    *)
(* The cookie is the browser's, and other tabs use it too.                 *)
(***************************************************************************)
EXTENDS FiniteSets

CONSTANTS
    People,
    Tokens,         \* session tokens (bound)
    Calls,          \* calls that may be under way at one time (bound)
    Nobody, NoToken

ASSUME WebConstants == Nobody \notin People /\ NoToken \notin Tokens

VARIABLES
    owner,      \* by token: whose session, Nobody before it is created
    live,       \* the sessions that are not revoked
    copied,     \* those of which Redis holds a copy
    cookie,     \* of the browser
    user,       \* the context: whom the tab takes its user for
    isLoading,
    call,       \* what is under way
    alone       \* the calls during which nothing else has happened to cookie or user:
                \* no other call but the saving of a profile, which concerns neither

web == <<cookie, user, isLoading, call, alone>>
server == <<owner, live, copied>>
vars == <<server, web>>

\* tab: does it still listen?  token: the cookie it was sent with, or the session
\* that a login has made; person: who logs in, or whose session it is.
NoCall == [pc |-> "none", kind |-> "refresh", token |-> NoToken, tab |-> FALSE,
           person |-> Nobody, ok |-> FALSE]

UnderWay(a) == call[a].pc # "none"
Saving(a) == call[a].kind = "save"
Listening == {a \in Calls : call[a].tab /\ ~Saving(a)}

Sent(kind, person, token) ==
    [NoCall EXCEPT !.pc = "sent", !.kind = kind, !.tab = TRUE, !.token = token, !.person = person]

\* With another call under way, neither is alone.
Joins(a) == alone' = IF \E b \in Calls : UnderWay(b) /\ ~Saving(b) THEN {} ELSE {a}

\* What the functions of the provider do first
Send(a, kind, person) ==
    /\ call' = [call EXCEPT ![a] = Sent(kind, person, cookie)]
    /\ Joins(a)
    /\ isLoading' = TRUE
    /\ UNCHANGED <<server, cookie, user>>

(***************************************************************************)
(* The tab loads, with or without a session, and on mount asks whose it is.*)
(***************************************************************************)
Init ==
    /\ \E u \in People, t \in Tokens :
         /\ owner = [k \in Tokens |-> IF k = t THEN u ELSE Nobody]
         /\ live = {t}
         /\ copied \in SUBSET {t}
         /\ cookie \in {t, NoToken}
    /\ user = Nobody /\ isLoading = TRUE
    /\ \E a \in Calls :
         /\ call = [b \in Calls |-> IF b = a THEN Sent("refresh", Nobody, cookie) ELSE NoCall]
         /\ alone = {a}

\* What the tab had under way goes on at the server.
Reload(a) ==
    /\ ~UnderWay(a)
    /\ call' = [b \in Calls |-> IF b = a THEN Sent("refresh", Nobody, cookie)
                                ELSE IF call[b].pc = "sent" THEN [call[b] EXCEPT !.tab = FALSE]
                                ELSE NoCall]
    /\ Joins(a)
    /\ user' = Nobody /\ isLoading' = TRUE
    /\ UNCHANGED <<server, cookie>>

\* AppLayout shows its pages, and the top bar, to a known user alone.
Shown == user # Nobody /\ ~isLoading

\* The profile page: the provider knows nothing of it before it is saved.
SaveProfile(a) ==
    /\ Shown /\ ~UnderWay(a)
    /\ call' = [call EXCEPT ![a] = Sent("save", Nobody, cookie)]
    /\ alone' = alone \ {a}
    /\ UNCHANGED <<server, cookie, user, isLoading>>

\* Both pages send a known user to the dashboard, and neither form waits for isLoading.
\* What a form does wait for is its own call, and no longer: who goes from one page
\* to the other may send a second while the first is under way.
SubmitCredentials(a) == user = Nobody /\ ~UnderWay(a) /\ \E u \in People : Send(a, "login", u)

\* The menu of the top bar
SignOut(a) == Shown /\ ~UnderWay(a) /\ Send(a, "logout", Nobody)

(***************************************************************************)
(* The server.  An answer that nobody waits for is dropped.                *)
(***************************************************************************)
Answers(a, answer) == call' = [call EXCEPT ![a] = IF @.tab THEN answer ELSE NoCall]
Refuses(a) == Answers(a, [call[a] EXCEPT !.pc = "served"])
Grants(a, person, token) ==
    Answers(a, [call[a] EXCEPT !.pc = "served", !.ok = TRUE, !.person = person, !.token = token])

\* GET /auth/session: the dates of a copy are strings, and formatting them fails;
\* an answer from the row makes a copy.  Any other failure looks the same.
ServeSession(a) ==
    /\ call[a].pc = "sent" /\ call[a].kind = "refresh"
    /\ \/ /\ call[a].token \in live \ copied
          /\ Grants(a, owner[call[a].token], call[a].token)
          /\ copied' = copied \cup {call[a].token}
       \/ Refuses(a) /\ UNCHANGED copied
    /\ UNCHANGED <<owner, live, cookie, user, isLoading, alone>>

\* PUT /profile needs a session, from its copy or from its row; no date is formatted
\* that a copy has as a string.
ServeSave(a) ==
    /\ call[a].pc = "sent" /\ Saving(a)
    /\ \/ /\ call[a].token \in live
          /\ Grants(a, owner[call[a].token], call[a].token)
          /\ copied' = copied \cup {call[a].token}
       \/ Refuses(a) /\ UNCHANGED copied
    /\ UNCHANGED <<owner, live, cookie, user, isLoading, alone>>

\* POST /auth/login or /auth/signup: a session for the right password
ServeLogin(a) ==
    /\ call[a].pc = "sent" /\ call[a].kind = "login"
    /\ \/ \E t \in Tokens :
            /\ owner[t] = Nobody
            /\ owner' = [owner EXCEPT ![t] = call[a].person]
            /\ live' = live \cup {t} /\ copied' = copied \cup {t}
            /\ Grants(a, call[a].person, t)
       \/ Refuses(a) /\ UNCHANGED server
    /\ UNCHANGED <<cookie, user, isLoading, alone>>

\* POST /auth/logout: a failure leaves the session, or all but its copy.
ServeLogout(a) ==
    /\ call[a].pc = "sent" /\ call[a].kind = "logout"
    /\ \/ /\ live' = live \ {call[a].token} /\ copied' = copied \ {call[a].token}
          /\ Grants(a, Nobody, NoToken)
       \/ /\ copied' \in {copied, copied \ {call[a].token}}
          /\ Refuses(a)
          /\ UNCHANGED live
    /\ UNCHANGED <<owner, cookie, user, isLoading, alone>>

(***************************************************************************)
(* The tab hears, or fetchApi aborts and throws.                           *)
(***************************************************************************)
Succeeded(a) == call[a].pc = "served" /\ call[a].ok

StaysKnown(a) ==                        \* variant: a failed refresh clears nothing
    IF Succeeded(a) THEN call[a].person
    ELSE IF call[a].kind = "logout" THEN Nobody ELSE user

\* What the try, catch and finally blocks leave: a login that fails clears nothing.
Known(a) ==
    IF Succeeded(a) THEN call[a].person
    ELSE IF call[a].kind = "login" THEN user ELSE Nobody

LoadedOnSuccess(a) == isLoading /\ ~Succeeded(a)        \* variant: no finally block
LoadingAfter(a) == FALSE

Ends(a) ==
    /\ call[a].tab /\ ~Saving(a)
    /\ user' = Known(a)
    /\ isLoading' = LoadingAfter(a)
    /\ UNCHANGED <<server, alone>>

\* A login sets the cookie and a logout clears it; asking whose the session is leaves it.
Hear(a) ==
    /\ call[a].pc = "served"
    /\ cookie' = IF call[a].ok /\ call[a].kind # "refresh" THEN call[a].token ELSE cookie
    /\ call' = [call EXCEPT ![a] = NoCall]
    /\ Ends(a)

Timeout(a) ==
    /\ call[a].pc = "sent"
    /\ call' = [call EXCEPT ![a].tab = FALSE]
    /\ UNCHANGED cookie
    /\ Ends(a)

\* Once it has saved, the handler asks for the session again, whatever has become of the
\* page and its user meanwhile.
ProfileSaved(a) == Saving(a) /\ Succeeded(a) /\ Send(a, "refresh", Nobody)

SaveFails(a) ==
    /\ Saving(a) /\ call[a].tab
    /\ \/ /\ call[a].pc = "served" /\ ~call[a].ok
          /\ call' = [call EXCEPT ![a] = NoCall]
       \/ /\ call[a].pc = "sent"
          /\ call' = [call EXCEPT ![a].tab = FALSE]
    /\ UNCHANGED <<server, cookie, user, isLoading, alone>>

(***************************************************************************)
(* What else happens to the session.                                       *)
(***************************************************************************)
OtherTabSignsIn ==
    /\ \E t \in Tokens, u \in People :
         /\ owner[t] = Nobody
         /\ owner' = [owner EXCEPT ![t] = u]
         /\ live' = live \cup {t} /\ copied' = copied \cup {t}
         /\ cookie' = t
    /\ alone' = {}
    /\ UNCHANGED <<user, isLoading, call>>

OtherTabSignsOut ==
    /\ cookie # NoToken
    /\ live' = live \ {cookie} /\ copied' = copied \ {cookie}
    /\ cookie' = NoToken
    /\ alone' = {}
    /\ UNCHANGED <<owner, user, isLoading, call>>

\* Suspension, expiry; and a copy that Redis loses
Revoked == \E t \in live :
    live' = live \ {t} /\ copied' = copied \ {t} /\ UNCHANGED <<owner, web>>
CopyLost == \E t \in copied : copied' = copied \ {t} /\ UNCHANGED <<owner, live, web>>

Serve(a) == ServeSession(a) \/ ServeSave(a) \/ ServeLogin(a) \/ ServeLogout(a)

Next ==
    \/ \E a \in Calls : \/ Reload(a) \/ SaveProfile(a) \/ SubmitCredentials(a) \/ SignOut(a)
                        \/ Serve(a) \/ Hear(a) \/ Timeout(a)
                        \/ ProfileSaved(a) \/ SaveFails(a)
    \/ OtherTabSignsIn \/ OtherTabSignsOut \/ Revoked \/ CopyLost

Spec == Init /\ [][Next]_vars

\* The timer of fetchApi fires, if nothing comes before; it is cleared once the head
\* of an answer is there, and the network is trusted with the rest.
Fairness == \A a \in Calls : WF_vars(Timeout(a)) /\ WF_vars(Hear(a))
FairSpec == Spec /\ Fairness

(***************************************************************************)
(* Properties.                                                             *)
(***************************************************************************)
TypeOK ==
    /\ owner \in [Tokens -> People \cup {Nobody}]
    /\ copied \subseteq live /\ live \subseteq {t \in Tokens : owner[t] # Nobody}
    /\ cookie \in {NoToken} \cup {t \in Tokens : owner[t] # Nobody}
    /\ user \in People \cup {Nobody} /\ isLoading \in BOOLEAN
    /\ call \in [Calls -> [pc : {"none", "sent", "served"}, kind : {"refresh", "save", "login", "logout"},
                           token : Tokens \cup {NoToken}, tab : BOOLEAN,
                           person : People \cup {Nobody}, ok : BOOLEAN]]
    /\ alone \subseteq Calls

\* The tab shows that it is loading only while it waits for something: of several
\* calls the first to end stops it, and none leaves it on.
LoadingIsWaiting == isLoading => Listening # {}
WebInv == TypeOK /\ LoadingIsWaiting

\* A call that overlaps no other, and no other tab, leaves the tab with the owner of
\* the cookie it leaves, if it succeeds, and with nobody if it fails.
OwnerOf(t) == IF t = NoToken THEN Nobody ELSE owner[t]
AloneIsExact == [][\A a \in alone \cap alone' : call[a].tab /\ ~call'[a].tab =>
    user' = IF Succeeded(a) THEN OwnerOf(cookie)' ELSE Nobody]_vars

\* No page waits for ever for the session, be its calls answered, refused or given up
\* (an answer that has begun does arrive), unless its user reloads it again and again.
LoadingEnds == (<>[][\A a \in Calls : ~Reload(a)]_vars) => (isLoading ~> ~isLoading)
===============================================================================
