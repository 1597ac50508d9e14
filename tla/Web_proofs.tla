------------------------------- MODULE Web_proofs -------------------------------
(***************************************************************************)
(* For any numbers of people, sessions and calls: whom a tab takes its     *)
(* user for (WebAuth), and what the admin console shows (Console, below).  *)
(***************************************************************************)
EXTENDS WebAuth, Console, TLAPS

Kinds == {"refresh", "save", "login", "logout"}
CallType == [pc : {"none", "sent", "served"}, kind : Kinds,
             token : Tokens \cup {NoToken}, tab : BOOLEAN, person : People \cup {Nobody},
             ok : BOOLEAN]

\* Of a call, and of whose the sessions are: it goes on with a session that is
\* somebody's, and a good answer names its owner.
Owner(t, o) == IF t = NoToken THEN Nobody ELSE o[t]
Carries(r, o) == r.token # NoToken => o[r.token] # Nobody
Waits(r) == (r.tab => r.pc # "none") /\ (r.pc = "sent" => ~r.ok)
NamesOwner(r, o) ==
    /\ r.kind = "login" => r.person \in People
    /\ r.pc = "served" /\ r.ok => r.person = Owner(r.token, o)
CallOK(r, o) == Carries(r, o) /\ Waits(r) /\ NamesOwner(r, o)

\* Nothing but savings is under way beside a call that is alone; who logs in is not
\* known yet, and who asks whose session it is has the cookie of now.
AloneOK ==
    \A a \in alone :
        /\ \A b \in Calls \ {a} : UnderWay(b) => Saving(b)
        /\ UnderWay(a) => ~Saving(a)
        /\ call[a].tab /\ call[a].kind = "login" => user = Nobody
        /\ call[a].tab /\ call[a].kind = "refresh" => call[a].token = cookie

\* The server's part
OwnersOK ==
    /\ owner \in [Tokens -> People \cup {Nobody}]
    /\ copied \subseteq live /\ live \subseteq {t \in Tokens : owner[t] # Nobody}

CookieOK == cookie \in {NoToken} \cup {t \in Tokens : owner[t] # Nobody}

TabOK == user \in People \cup {Nobody} /\ isLoading \in BOOLEAN /\ alone \subseteq Calls

CallsOK == call \in [Calls -> CallType] /\ \A a \in Calls : CallOK(call[a], owner)

IInv == OwnersOK /\ CookieOK /\ TabOK /\ CallsOK /\ LoadingIsWaiting /\ AloneOK

LEMMA IInvImplies == ASSUME IInv PROVE WebInv
BY DEF IInv, OwnersOK, CookieOK, TabOK, CallsOK, CallType, Kinds, WebInv, TypeOK

(***************************************************************************)
(* The forms that a call takes, one field set at a time.                   *)
(***************************************************************************)
WithPc(r, x) == [r EXCEPT !.pc = x]
WithKind(r, x) == [r EXCEPT !.kind = x]
WithToken(r, x) == [r EXCEPT !.token = x]
WithTab(r, x) == [r EXCEPT !.tab = x]
WithPerson(r, x) == [r EXCEPT !.person = x]
WithOk(r, x) == [r EXCEPT !.ok = x]

LEMMA SetPc == \A r \in CallType, x \in {"none", "sent", "served"} : WithPc(r, x) \in CallType
BY DEF CallType, WithPc

LEMMA SetKind ==
    \A r \in CallType, x \in Kinds : WithKind(r, x) \in CallType
BY DEF CallType, WithKind

LEMMA SetToken == \A r \in CallType, x \in Tokens \cup {NoToken} : WithToken(r, x) \in CallType
BY DEF CallType, WithToken

LEMMA SetTab == \A r \in CallType, x \in BOOLEAN : WithTab(r, x) \in CallType
BY DEF CallType, WithTab

LEMMA SetPerson ==
    \A r \in CallType, x \in People \cup {Nobody} : WithPerson(r, x) \in CallType
BY DEF CallType, WithPerson

LEMMA SetOk == \A r \in CallType, x \in BOOLEAN : WithOk(r, x) \in CallType
BY DEF CallType, WithOk

LEMMA NoCallRecord ==
    /\ NoCall \in CallType /\ NoCall.pc = "none" /\ NoCall.kind = "refresh"
    /\ NoCall.token = NoToken /\ ~NoCall.tab /\ NoCall.person = Nobody /\ ~NoCall.ok
BY DEF NoCall, CallType, Kinds

LEMMA SentRecord ==
    \A kind \in Kinds, p \in People \cup {Nobody},
       t \in Tokens \cup {NoToken} :
        LET to == Sent(kind, p, t)
        IN  /\ to \in CallType /\ to.pc = "sent" /\ to.kind = kind
            /\ to.token = t /\ to.tab /\ to.person = p /\ ~to.ok
<1> TAKE kind \in Kinds, p \in People \cup {Nobody},
         t \in Tokens \cup {NoToken}
<1>1. Sent(kind, p, t)
        = WithPerson(WithToken(WithTab(WithKind(WithPc(NoCall, "sent"), kind), TRUE), t), p)
  BY DEF Sent, WithPerson, WithToken, WithTab, WithKind, WithPc
<1>2. Sent(kind, p, t) \in CallType
  <2>1. WithPc(NoCall, "sent") \in CallType
    BY NoCallRecord, SetPc
  <2>2. WithTab(WithKind(WithPc(NoCall, "sent"), kind), TRUE) \in CallType
    BY <2>1, SetKind, SetTab
  <2> QED BY <1>1, <2>2, SetToken, SetPerson
<1>3. LET to == Sent(kind, p, t)
      IN  to.pc = "sent" /\ to.kind = kind /\ to.token = t /\ to.tab /\ to.person = p /\ ~to.ok
  BY DEF Sent, NoCall
<1> QED BY <1>2, <1>3

Refused(r) == [r EXCEPT !.pc = "served"]
Granted(r, p, t) == [r EXCEPT !.pc = "served", !.ok = TRUE, !.person = p, !.token = t]
Left(r) == [r EXCEPT !.tab = FALSE]

LEMMA RefusedRecord ==
    \A r \in CallType :
        LET to == Refused(r)
        IN  /\ to \in CallType /\ to.pc = "served" /\ to.kind = r.kind /\ to.token = r.token
            /\ to.tab = r.tab /\ to.person = r.person /\ to.ok = r.ok
BY DEF CallType, Refused

LEMMA GrantedRecord ==
    \A r \in CallType, p \in People \cup {Nobody}, t \in Tokens \cup {NoToken} :
        LET to == Granted(r, p, t)
        IN  /\ to \in CallType /\ to.pc = "served" /\ to.kind = r.kind /\ to.token = t
            /\ to.tab = r.tab /\ to.person = p /\ to.ok
<1> TAKE r \in CallType, p \in People \cup {Nobody}, t \in Tokens \cup {NoToken}
<1>1. Granted(r, p, t) = WithToken(WithPerson(WithOk(WithPc(r, "served"), TRUE), p), t)
  BY DEF Granted, WithToken, WithPerson, WithOk, WithPc
<1>2. Granted(r, p, t) \in CallType
  BY <1>1, SetToken, SetPerson, SetOk, SetPc
<1>3. LET to == Granted(r, p, t)
      IN  /\ to.pc = "served" /\ to.kind = r.kind /\ to.token = t /\ to.tab = r.tab
          /\ to.person = p /\ to.ok
  BY DEF CallType, Granted
<1> QED BY <1>2, <1>3

LEMMA LeftRecord ==
    \A r \in CallType :
        LET to == Left(r)
        IN  /\ to \in CallType /\ to.pc = r.pc /\ to.kind = r.kind /\ to.token = r.token
            /\ ~to.tab /\ to.person = r.person /\ to.ok = r.ok
<1> TAKE r \in CallType
<1>1. Left(r) = WithTab(r, FALSE)
  BY DEF Left, WithTab
<1>2. Left(r) \in CallType
  BY <1>1, SetTab
<1>3. LET to == Left(r)
      IN  /\ to.pc = r.pc /\ to.kind = r.kind /\ to.token = r.token
          /\ ~to.tab /\ to.person = r.person /\ to.ok = r.ok
  BY DEF CallType, Left
<1> QED BY <1>2, <1>3

(***************************************************************************)
(* What most steps leave alone.                                            *)
(***************************************************************************)
\* Sessions do not change hands.
Kept == \A t \in Tokens : owner[t] # Nobody => owner'[t] = owner[t]

LEMMA StaysOK ==
    ASSUME NEW r \in CallType, CallOK(r, owner), Kept PROVE CallOK(r, owner')
<1>1. r.token # NoToken => r.token \in Tokens /\ owner'[r.token] = owner[r.token]
  BY DEF CallType, CallOK, Carries, Kept
<1> QED BY <1>1 DEF CallOK, Carries, Waits, NamesOwner, Owner

LEMMA CallFrame ==
    ASSUME IInv, NEW a \in Calls, NEW to \in CallType, call' = [call EXCEPT ![a] = to], Kept,
           CallOK(to, owner')
    PROVE  CallsOK' /\ call'[a] = to /\ \A b \in Calls \ {a} : call'[b] = call[b]
<1>1. call' \in [Calls -> CallType] /\ call'[a] = to /\ \A b \in Calls \ {a} : call'[b] = call[b]
  BY DEF IInv, CallsOK
<1>2. ASSUME NEW b \in Calls PROVE CallOK(call'[b], owner')
  <2>1. CASE b = a
    BY <1>1, <2>1
  <2>2. CASE b # a
    <3>1. call[b] \in CallType /\ CallOK(call[b], owner)
      BY DEF IInv, CallsOK
    <3> QED BY <1>1, <2>2, <3>1, StaysOK
  <2> QED BY <2>1, <2>2
<1> QED BY <1>1, <1>2 DEF CallsOK

\* A change to the sessions, or to the cookie, while the calls wait
LEMMA CallsWait ==
    ASSUME IInv, OwnersOK', CookieOK', Kept, UNCHANGED <<user, isLoading, call>>,
           alone' = {} \/ UNCHANGED <<alone, cookie>>
    PROVE  IInv'
<1>1. ASSUME NEW b \in Calls PROVE CallOK(call'[b], owner')
  <2>1. call[b] \in CallType /\ CallOK(call[b], owner)
    BY DEF IInv, CallsOK
  <2> QED BY <2>1, StaysOK
<1>2. CallsOK'
  BY <1>1 DEF IInv, CallsOK
<1>3. TabOK' /\ LoadingIsWaiting' /\ AloneOK'
  BY DEF IInv, TabOK, LoadingIsWaiting, Listening, AloneOK, UnderWay, Saving
<1> QED BY <1>2, <1>3 DEF IInv

\* A call that joins the others is alone if there are none but savings.
LEMMA JoinsKeeps ==
    ASSUME IInv, NEW a \in Calls, Joins(a),
           \A b \in Calls \ {a} : UnderWay(b)' => UnderWay(b) /\ (Saving(b) => Saving(b)'),
           ~Saving(a)', call'[a].token = cookie', call'[a].kind = "login" => user' = Nobody
    PROVE  AloneOK' /\ alone' \subseteq Calls
<1>1. alone' = {} \/ (alone' = {a} /\ \A b \in Calls : UnderWay(b) => Saving(b))
  BY DEF Joins
<1> QED BY <1>1 DEF AloneOK

LEMMA SendKeeps ==
    ASSUME IInv, NEW a \in Calls, NEW kind \in {"refresh", "login", "logout"},
           NEW person \in People \cup {Nobody}, Send(a, kind, person),
           kind = "login" => person \in People /\ user = Nobody
    PROVE  IInv'
<1> DEFINE to == Sent(kind, person, cookie)
<1>1. /\ to \in CallType /\ to.pc = "sent" /\ to.kind = kind /\ to.token = cookie
      /\ to.tab /\ to.person = person /\ ~to.ok
  <2>1. cookie \in Tokens \cup {NoToken}
    BY DEF IInv, CookieOK
  <2> QED BY <2>1, SentRecord DEF Kinds
<1>2. call' = [call EXCEPT ![a] = to] /\ Joins(a) /\ UNCHANGED <<owner, live, copied, cookie, user>>
      /\ isLoading' = TRUE
  BY DEF Send, server
<1> HIDE DEF to
<1>3. CallOK(to, owner')
  <2>1. Carries(to, owner') /\ Waits(to)
    BY <1>1, <1>2 DEF IInv, CookieOK, Carries, Waits
  <2>2. NamesOwner(to, owner')
    BY <1>1 DEF NamesOwner
  <2> QED BY <2>1, <2>2 DEF CallOK
<1>4. CallsOK' /\ call'[a] = to /\ \A b \in Calls \ {a} : call'[b] = call[b]
  <2>1. Kept
    BY <1>2 DEF Kept
  <2> QED BY <1>1, <1>2, <1>3, <2>1, CallFrame
<1>5. AloneOK' /\ alone' \subseteq Calls
  <2>1. /\ \A b \in Calls \ {a} : UnderWay(b)' => UnderWay(b) /\ (Saving(b) => Saving(b)')
        /\ ~Saving(a)' /\ call'[a].token = cookie'
    BY <1>1, <1>2, <1>4 DEF UnderWay, Saving
  <2> QED BY <1>1, <1>2, <1>4, <2>1, JoinsKeeps
<1>6. LoadingIsWaiting'
  BY <1>1, <1>4 DEF LoadingIsWaiting, Listening, Saving
<1>7. OwnersOK' /\ CookieOK' /\ TabOK'
  BY <1>2, <1>5 DEF IInv, OwnersOK, CookieOK, TabOK
<1> QED BY <1>4, <1>5, <1>6, <1>7 DEF IInv

LEMMA ReloadKeeps == ASSUME IInv, NEW a \in Calls, Reload(a) PROVE IInv'
<1> DEFINE to == Sent("refresh", Nobody, cookie)
<1>1. /\ to \in CallType /\ to.pc = "sent" /\ to.kind = "refresh" /\ to.token = cookie
      /\ to.tab /\ to.person = Nobody /\ ~to.ok
  <2>1. cookie \in Tokens \cup {NoToken}
    BY DEF IInv, CookieOK
  <2> QED BY <2>1, SentRecord DEF Kinds
<1>2. /\ Joins(a) /\ user' = Nobody /\ isLoading' = TRUE
      /\ UNCHANGED <<owner, live, copied, cookie>>
      /\ call' = [b \in Calls |-> IF b = a THEN to
                                  ELSE IF call[b].pc = "sent" THEN Left(call[b]) ELSE NoCall]
  BY DEF Reload, server, Left
<1> HIDE DEF to
<1>3. CallOK(to, owner)
  <2>1. Carries(to, owner) /\ Waits(to)
    BY <1>1 DEF IInv, CookieOK, Carries, Waits
  <2>2. NamesOwner(to, owner)
    BY <1>1 DEF NamesOwner
  <2> QED BY <2>1, <2>2 DEF CallOK
<1>4. ASSUME NEW b \in Calls \ {a}
      PROVE  /\ call'[b] \in CallType /\ CallOK(call'[b], owner)
             /\ UnderWay(b)' => UnderWay(b) /\ (Saving(b) => Saving(b)')
  <2>1. call[b] \in CallType /\ CallOK(call[b], owner)
    BY DEF IInv, CallsOK
  <2>2. CASE call[b].pc = "sent"
    <3> DEFINE l == Left(call[b])
    <3>1. call'[b] = l
      BY <1>2, <2>2
    <3>2. /\ l \in CallType /\ l.pc = call[b].pc /\ l.kind = call[b].kind
          /\ l.token = call[b].token /\ ~l.tab /\ l.person = call[b].person /\ l.ok = call[b].ok
      BY <2>1, LeftRecord
    <3> HIDE DEF l
    <3> QED BY <2>1, <2>2, <3>1, <3>2 DEF CallOK, Carries, Waits, NamesOwner, UnderWay, Saving
  <2>3. CASE call[b].pc # "sent"
    <3>1. call'[b] = NoCall
      BY <1>2, <2>3
    <3> QED BY <3>1, NoCallRecord DEF CallOK, Carries, Waits, NamesOwner, UnderWay
  <2> QED BY <2>2, <2>3
<1>5. call'[a] = to
  BY <1>2
<1>6. CallsOK'
  <2>1. call' \in [Calls -> CallType]
    BY <1>1, <1>2, <1>4, <1>5
  <2> QED BY <1>2, <1>3, <1>4, <1>5, <2>1 DEF CallsOK
<1>7. AloneOK' /\ alone' \subseteq Calls
  <2>1. ~Saving(a)' /\ call'[a].token = cookie'
    BY <1>1, <1>2, <1>5 DEF Saving
  <2> QED BY <1>1, <1>2, <1>4, <1>5, <2>1, JoinsKeeps
<1>8. LoadingIsWaiting'
  BY <1>1, <1>5 DEF LoadingIsWaiting, Listening, Saving
<1>9. OwnersOK' /\ CookieOK' /\ TabOK'
  BY <1>2, <1>7 DEF IInv, OwnersOK, CookieOK, TabOK
<1> QED BY <1>6, <1>7, <1>8, <1>9 DEF IInv

(***************************************************************************)
(* The server answers.                                                     *)
(***************************************************************************)
LEMMA AnswerKeeps ==
    ASSUME IInv, NEW a \in Calls, call[a].pc = "sent", NEW to \in CallType, Answers(a, to),
           to.tab = call[a].tab, to.pc = "served", to.kind = call[a].kind,
           call[a].kind = "refresh" => to.token = call[a].token,
           Carries(to, owner'), NamesOwner(to, owner'), Kept, OwnersOK',
           UNCHANGED <<cookie, user, isLoading, alone>>
    PROVE  IInv'
<1>1. PICK next \in {to, NoCall} : /\ call' = [call EXCEPT ![a] = next]
                                   /\ next = IF call[a].tab THEN to ELSE NoCall
  BY DEF Answers, IInv, CallsOK
<1>2. next \in CallType /\ CallOK(next, owner') /\ next.tab = call[a].tab
  <2>1. CASE next = to
    <3>1. Waits(to)
      BY DEF Waits
    <3> QED BY <1>1, <2>1, <3>1 DEF CallOK
  <2>2. CASE next = NoCall /\ ~call[a].tab
    <3>1. call[a] \in CallType
      BY DEF IInv, CallsOK
    <3> QED BY <2>2, <3>1, NoCallRecord DEF CallOK, Carries, Waits, NamesOwner, CallType
  <2> QED BY <1>1, <2>1, <2>2
<1>3. CallsOK' /\ call'[a] = next /\ \A b \in Calls \ {a} : call'[b] = call[b]
  BY <1>1, <1>2, CallFrame
<1>4. next.pc # "none" =>
        next.kind = call[a].kind /\ (next.kind = "refresh" => next.token = call[a].token)
  BY <1>1, NoCallRecord
<1>5. AloneOK'
  <2>1. ASSUME NEW b \in alone
        PROVE  /\ \A d \in Calls \ {b} : UnderWay(d)' => Saving(d)'
               /\ UnderWay(b)' => ~Saving(b)'
               /\ call'[b].tab /\ call'[b].kind = "login" => user' = Nobody
               /\ call'[b].tab /\ call'[b].kind = "refresh" => call'[b].token = cookie'
    <3>1. \A d \in Calls \ {b} : UnderWay(d)' => Saving(d)'
      BY <1>3, <1>4, <2>1 DEF IInv, AloneOK, UnderWay, Saving
    <3>2. b \in Calls /\ (b = a => ~Saving(b))
      BY <2>1 DEF IInv, TabOK, AloneOK, UnderWay
    <3>3. UnderWay(b)' => ~Saving(b)'
      BY <1>3, <1>4, <2>1, <3>2 DEF IInv, AloneOK, UnderWay, Saving
    <3>4. CASE b # a
      BY <1>3, <2>1, <3>1, <3>2, <3>3, <3>4 DEF IInv, AloneOK
    <3>5. CASE b = a
      <4>1. next.tab => next.pc # "none" /\ call[a].tab
        BY <1>2 DEF CallOK, Waits
      <4>2. call'[b] = next
        BY <1>3, <3>5
      <4> QED BY <1>4, <2>1, <3>1, <3>3, <3>5, <4>1, <4>2 DEF IInv, AloneOK
    <3> QED BY <3>4, <3>5
  <2> QED BY <2>1 DEF AloneOK
<1>6. LoadingIsWaiting'
  <2>1. next.tab => next.pc # "none"
    BY <1>2 DEF CallOK, Waits
  <2> QED BY <1>2, <1>3, <1>4, <2>1 DEF IInv, LoadingIsWaiting, Listening, Saving
<1>7. CookieOK'
  BY DEF IInv, OwnersOK, CookieOK, Kept
<1> QED BY <1>3, <1>5, <1>6, <1>7 DEF IInv, TabOK

LEMMA RefusalKeeps ==
    ASSUME IInv, NEW a \in Calls, call[a].pc = "sent", Refuses(a), OwnersOK',
           UNCHANGED <<owner, cookie, user, isLoading, alone>>
    PROVE  IInv'
<1> DEFINE to == Refused(call[a])
<1>1. call[a] \in CallType /\ CallOK(call[a], owner)
  BY DEF IInv, CallsOK
<1>2. /\ to \in CallType /\ to.pc = "served" /\ to.kind = call[a].kind
      /\ to.token = call[a].token /\ to.tab = call[a].tab /\ to.person = call[a].person
      /\ to.ok = call[a].ok
  BY <1>1, RefusedRecord
<1>3. Answers(a, to)
  BY DEF Refuses, Refused
<1> HIDE DEF to
<1>4. Carries(to, owner') /\ NamesOwner(to, owner')
  BY <1>1, <1>2 DEF CallOK, Carries, Waits, NamesOwner
<1> QED BY <1>2, <1>3, <1>4, AnswerKeeps DEF Kept

LEMMA GrantKeeps ==
    ASSUME IInv, NEW a \in Calls, call[a].pc = "sent", NEW p \in People \cup {Nobody},
           NEW t \in Tokens \cup {NoToken}, Grants(a, p, t), p = Owner(t, owner'),
           t # NoToken => p # Nobody, call[a].kind = "login" => p \in People,
           call[a].kind = "refresh" => t = call[a].token,
           Kept, OwnersOK', UNCHANGED <<cookie, user, isLoading, alone>>
    PROVE  IInv'
<1> DEFINE to == Granted(call[a], p, t)
<1>1. call[a] \in CallType
  BY DEF IInv, CallsOK
<1>2. /\ to \in CallType /\ to.pc = "served" /\ to.kind = call[a].kind /\ to.token = t
      /\ to.tab = call[a].tab /\ to.person = p /\ to.ok
  BY <1>1, GrantedRecord
<1>3. Answers(a, to)
  BY DEF Grants, Granted
<1> HIDE DEF to
<1>4. Carries(to, owner') /\ NamesOwner(to, owner')
  BY <1>2 DEF Carries, NamesOwner, Owner
<1> QED BY <1>2, <1>3, <1>4, AnswerKeeps

LEMMA ServeSessionKeeps == ASSUME IInv, NEW a \in Calls, ServeSession(a) PROVE IInv'
<1>1. call[a].pc = "sent" /\ call[a].kind = "refresh" /\ Kept
      /\ UNCHANGED <<owner, live, cookie, user, isLoading, alone>>
  BY DEF ServeSession, Kept
<1>2. CASE Refuses(a) /\ UNCHANGED copied
  <2>1. OwnersOK'
    BY <1>1, <1>2 DEF IInv, OwnersOK
  <2> QED BY <1>1, <1>2, <2>1, RefusalKeeps
<1>3. ASSUME call[a].token \in live \ copied, Grants(a, owner[call[a].token], call[a].token),
             copied' = copied \cup {call[a].token}
      PROVE  IInv'
  <2> DEFINE t == call[a].token
             p == owner[t]
  <2>1. t \in Tokens /\ t # NoToken /\ p # Nobody /\ p \in People
    BY <1>3, WebConstants DEF IInv, OwnersOK, WebConstants
  <2>2. OwnersOK'
    BY <1>1, <1>3 DEF IInv, OwnersOK
  <2>3. p = Owner(t, owner')
    BY <1>1, <2>1 DEF Owner
  <2>4. Grants(a, p, t) /\ t = call[a].token
    BY <1>3
  <2> HIDE DEF t, p
  <2> QED BY <1>1, <2>1, <2>2, <2>3, <2>4, GrantKeeps
<1> QED BY <1>2, <1>3 DEF ServeSession

LEMMA ServeSaveKeeps == ASSUME IInv, NEW a \in Calls, ServeSave(a) PROVE IInv'
<1>1. call[a].pc = "sent" /\ call[a].kind = "save" /\ Kept
      /\ UNCHANGED <<owner, live, cookie, user, isLoading, alone>>
  BY DEF ServeSave, Saving, Kept
<1>2. CASE Refuses(a) /\ UNCHANGED copied
  <2>1. OwnersOK'
    BY <1>1, <1>2 DEF IInv, OwnersOK
  <2> QED BY <1>1, <1>2, <2>1, RefusalKeeps
<1>3. ASSUME call[a].token \in live, Grants(a, owner[call[a].token], call[a].token),
             copied' = copied \cup {call[a].token}
      PROVE  IInv'
  <2> DEFINE t == call[a].token
             p == owner[t]
  <2>1. t \in Tokens /\ t # NoToken /\ p # Nobody /\ p \in People
    BY <1>3, WebConstants DEF IInv, OwnersOK, WebConstants
  <2>2. OwnersOK'
    BY <1>1, <1>3 DEF IInv, OwnersOK
  <2>3. p = Owner(t, owner')
    BY <1>1, <2>1 DEF Owner
  <2>4. Grants(a, p, t)
    BY <1>3
  <2> HIDE DEF t, p
  <2> QED BY <1>1, <2>1, <2>2, <2>3, <2>4, GrantKeeps
<1> QED BY <1>2, <1>3 DEF ServeSave

LEMMA ServeLoginKeeps == ASSUME IInv, NEW a \in Calls, ServeLogin(a) PROVE IInv'
<1>1. call[a].pc = "sent" /\ call[a].kind = "login"
      /\ UNCHANGED <<cookie, user, isLoading, alone>>
  BY DEF ServeLogin
<1>2. CASE Refuses(a) /\ UNCHANGED server
  <2>1. OwnersOK' /\ UNCHANGED owner
    BY <1>2 DEF server, IInv, OwnersOK
  <2> QED BY <1>1, <1>2, <2>1, RefusalKeeps
<1>3. ASSUME NEW t \in Tokens, owner[t] = Nobody,
             owner' = [owner EXCEPT ![t] = call[a].person],
             live' = live \cup {t}, copied' = copied \cup {t}, Grants(a, call[a].person, t)
      PROVE  IInv'
  <2> DEFINE p == call[a].person
  <2>1. p \in People /\ p # Nobody
    BY <1>1, WebConstants DEF IInv, CallsOK, CallOK, NamesOwner, WebConstants
  <2>2. owner' = [owner EXCEPT ![t] = p] /\ Grants(a, p, t)
    BY <1>3
  <2> HIDE DEF p
  <2>3. OwnersOK' /\ Kept /\ owner'[t] = p
    BY <1>3, <2>1, <2>2 DEF IInv, OwnersOK, Kept
  <2>4. p = Owner(t, owner')
    BY <2>3, WebConstants DEF Owner, WebConstants
  <2> QED BY <1>1, <2>1, <2>2, <2>3, <2>4, GrantKeeps
<1> QED BY <1>2, <1>3 DEF ServeLogin

LEMMA ServeLogoutKeeps == ASSUME IInv, NEW a \in Calls, ServeLogout(a) PROVE IInv'
<1>1. call[a].pc = "sent" /\ call[a].kind = "logout" /\ Kept
      /\ UNCHANGED <<owner, cookie, user, isLoading, alone>>
  BY DEF ServeLogout, Kept
<1>2. OwnersOK'
  BY DEF ServeLogout, IInv, OwnersOK
<1>3. CASE Refuses(a)
  BY <1>1, <1>2, <1>3, RefusalKeeps
<1>4. CASE Grants(a, Nobody, NoToken)
  BY <1>1, <1>2, <1>4, GrantKeeps DEF Owner
<1> QED BY <1>3, <1>4 DEF ServeLogout

(***************************************************************************)
(* The tab hears, or gives up.                                             *)
(***************************************************************************)
\* If a call is alone, it is the only one there is, but for savings.
LEMMA OnlyOne ==
    ASSUME IInv, NEW a \in Calls, UnderWay(a), ~Saving(a), NEW b \in alone PROVE b = a
BY DEF IInv, AloneOK

LEMMA EndKeeps ==
    ASSUME IInv, NEW a \in Calls, UnderWay(a), Ends(a), NEW to \in CallType,
           call' = [call EXCEPT ![a] = to], ~to.tab, CallOK(to, owner), CookieOK',
           to.pc # "none" => to.kind = call[a].kind
    PROVE  IInv'
<1>1. UNCHANGED <<owner, live, copied, alone>> /\ isLoading' = FALSE /\ user' = Known(a)
  BY DEF Ends, server, LoadingAfter
<1>2. CallsOK' /\ call'[a] = to /\ \A b \in Calls \ {a} : call'[b] = call[b]
  <2>1. Kept /\ CallOK(to, owner')
    BY <1>1 DEF Kept
  <2> QED BY <2>1, CallFrame
<1>3. user' \in People \cup {Nobody}
  <2>1. call[a].person \in People \cup {Nobody} /\ user \in People \cup {Nobody}
    BY DEF IInv, CallsOK, CallType, TabOK
  <2> QED BY <1>1, <2>1 DEF Known
<1>4. AloneOK'
  <2>1. ~Saving(a)
    BY DEF Ends
  <2>2. ASSUME NEW b \in alone
        PROVE  /\ b = a /\ (UnderWay(b)' => ~Saving(b)')
               /\ \A d \in Calls \ {b} : UnderWay(d)' => Saving(d)'
    <3>1. b = a
      BY <2>1, OnlyOne
    <3> QED BY <1>2, <2>1, <3>1 DEF IInv, AloneOK, UnderWay, Saving
  <2> QED BY <1>1, <1>2, <2>2 DEF AloneOK
<1>5. LoadingIsWaiting' /\ OwnersOK' /\ TabOK'
  BY <1>1, <1>3 DEF IInv, LoadingIsWaiting, OwnersOK, TabOK
<1> QED BY <1>2, <1>4, <1>5 DEF IInv

LEMMA HearKeeps == ASSUME IInv, NEW a \in Calls, Hear(a) PROVE IInv'
<1>1. /\ UnderWay(a) /\ Ends(a) /\ call' = [call EXCEPT ![a] = NoCall]
      /\ UNCHANGED owner
  BY DEF Hear, UnderWay, Ends, server
<1>2. CookieOK'
  <2>1. call[a] \in CallType /\ Carries(call[a], owner)
    BY DEF IInv, CallsOK, CallOK
  <2> QED BY <1>1, <2>1 DEF Hear, IInv, CookieOK, Carries, CallType
<1>3. CallOK(NoCall, owner)
  BY NoCallRecord DEF CallOK, Carries, Waits, NamesOwner
<1> QED BY <1>1, <1>2, <1>3, NoCallRecord, EndKeeps

LEMMA SaveFailsKeeps == ASSUME IInv, NEW a \in Calls, SaveFails(a) PROVE IInv'
<1>1. Saving(a) /\ UnderWay(a)
      /\ UNCHANGED <<owner, live, copied, cookie, user, isLoading, alone>>
  BY DEF SaveFails, UnderWay, server, IInv, CallsOK, CallOK, Waits
<1>2. call[a] \in CallType /\ CallOK(call[a], owner)
  BY DEF IInv, CallsOK
<1>3. PICK next \in CallType :
        /\ call' = [call EXCEPT ![a] = next] /\ CallOK(next, owner) /\ ~next.tab
        /\ next.pc # "none" => next.kind = "save"
  <2>1. CASE call' = [call EXCEPT ![a] = NoCall]
    <3>1. CallOK(NoCall, owner)
      BY NoCallRecord DEF CallOK, Carries, Waits, NamesOwner
    <3> QED BY <2>1, <3>1, NoCallRecord
  <2>2. CASE call[a].pc = "sent" /\ call' = [call EXCEPT ![a] = Left(call[a])]
    <3> DEFINE to == Left(call[a])
    <3>1. /\ to \in CallType /\ to.pc = call[a].pc /\ to.kind = call[a].kind
          /\ to.token = call[a].token /\ ~to.tab /\ to.person = call[a].person
          /\ to.ok = call[a].ok
      BY <1>2, LeftRecord
    <3>2. call' = [call EXCEPT ![a] = to]
      BY <2>2
    <3> HIDE DEF to
    <3>3. CallOK(to, owner)
      BY <1>2, <3>1 DEF CallOK, Carries, Waits, NamesOwner
    <3> QED BY <1>1, <3>1, <3>2, <3>3 DEF Saving
  <2> QED BY <2>1, <2>2 DEF SaveFails, Left
<1>4. CallsOK' /\ call'[a] = next /\ \A b \in Calls \ {a} : call'[b] = call[b]
  <2>1. Kept /\ CallOK(next, owner')
    BY <1>1, <1>3 DEF Kept
  <2> QED BY <1>3, <2>1, CallFrame
<1>5. AloneOK'
  <2>1. a \notin alone
    BY <1>1 DEF IInv, AloneOK
  <2>2. ASSUME NEW b \in alone, NEW d \in Calls \ {b}, UnderWay(d)' PROVE Saving(d)'
    BY <1>1, <1>3, <1>4, <2>2 DEF IInv, AloneOK, UnderWay, Saving
  <2>3. ASSUME NEW b \in alone PROVE b \in Calls \ {a} /\ call'[b] = call[b]
    BY <1>4, <2>1 DEF IInv, TabOK
  <2> QED BY <1>1, <2>2, <2>3 DEF IInv, AloneOK, UnderWay, Saving
<1>6. LoadingIsWaiting'
  BY <1>1, <1>4 DEF IInv, LoadingIsWaiting, Listening, Saving
<1>7. OwnersOK' /\ CookieOK' /\ TabOK'
  BY <1>1 DEF IInv, OwnersOK, CookieOK, TabOK
<1> QED BY <1>4, <1>5, <1>6, <1>7 DEF IInv

LEMMA TimeoutKeeps == ASSUME IInv, NEW a \in Calls, Timeout(a) PROVE IInv'
<1> DEFINE to == Left(call[a])
<1>1. call[a] \in CallType /\ CallOK(call[a], owner)
  BY DEF IInv, CallsOK
<1>2. /\ to \in CallType /\ to.pc = call[a].pc /\ to.kind = call[a].kind
      /\ to.token = call[a].token /\ ~to.tab /\ to.person = call[a].person /\ to.ok = call[a].ok
  BY <1>1, LeftRecord
<1>3. UnderWay(a) /\ Ends(a) /\ call' = [call EXCEPT ![a] = to] /\ UNCHANGED <<cookie, owner>>
  BY DEF Timeout, UnderWay, Left, Ends, server
<1> HIDE DEF to
<1>4. CallOK(to, owner)
  BY <1>1, <1>2 DEF CallOK, Carries, Waits, NamesOwner
<1>5. CookieOK'
  BY <1>3 DEF IInv, CookieOK
<1> QED BY <1>2, <1>3, <1>4, <1>5, EndKeeps

(***************************************************************************)
(* What else happens to the session, and the invariant.                    *)
(***************************************************************************)
LEMMA OtherTabKeeps == ASSUME IInv, OtherTabSignsIn \/ OtherTabSignsOut PROVE IInv'
<1>1. CASE OtherTabSignsIn
  <2>1. OwnersOK' /\ CookieOK' /\ Kept
    BY <1>1, WebConstants DEF OtherTabSignsIn, IInv, OwnersOK, CookieOK, Kept, WebConstants
  <2> QED BY <1>1, <2>1, CallsWait DEF OtherTabSignsIn
<1>2. CASE OtherTabSignsOut
  <2>1. OwnersOK' /\ CookieOK' /\ Kept
    BY <1>2 DEF OtherTabSignsOut, IInv, OwnersOK, CookieOK, Kept
  <2> QED BY <1>2, <2>1, CallsWait DEF OtherTabSignsOut
<1> QED BY <1>1, <1>2

LEMMA SessionLostKeeps == ASSUME IInv, Revoked \/ CopyLost PROVE IInv'
<1>1. UNCHANGED <<owner, cookie, user, isLoading, call, alone>> /\ Kept
  BY DEF Revoked, CopyLost, web, Kept
<1>2. OwnersOK' /\ CookieOK'
  BY <1>1 DEF Revoked, CopyLost, IInv, OwnersOK, CookieOK
<1> QED BY <1>1, <1>2, CallsWait

LEMMA StutterKeeps == ASSUME IInv, UNCHANGED vars PROVE IInv'
<1>1. UNCHANGED <<owner, live, copied, cookie, user, isLoading, call, alone>> /\ Kept
  BY DEF vars, server, web, Kept
<1>2. OwnersOK' /\ CookieOK'
  BY <1>1 DEF IInv, OwnersOK, CookieOK
<1> QED BY <1>1, <1>2, CallsWait

LEMMA SaveProfileKeeps == ASSUME IInv, NEW a \in Calls, SaveProfile(a) PROVE IInv'
<1> DEFINE to == Sent("save", Nobody, cookie)
<1>1. /\ to \in CallType /\ to.pc = "sent" /\ to.kind = "save" /\ to.token = cookie
      /\ to.tab /\ to.person = Nobody /\ ~to.ok
  <2>1. cookie \in Tokens \cup {NoToken}
    BY DEF IInv, CookieOK
  <2> QED BY <2>1, SentRecord DEF Kinds
<1>2. /\ call' = [call EXCEPT ![a] = to] /\ alone' = alone \ {a} /\ ~UnderWay(a)
      /\ UNCHANGED <<owner, live, copied, cookie, user, isLoading>>
  BY DEF SaveProfile, server
<1> HIDE DEF to
<1>3. CallOK(to, owner')
  BY <1>1, <1>2 DEF IInv, CookieOK, CallOK, Carries, Waits, NamesOwner
<1>4. CallsOK' /\ call'[a] = to /\ \A b \in Calls \ {a} : call'[b] = call[b]
  <2>1. Kept
    BY <1>2 DEF Kept
  <2> QED BY <1>1, <1>2, <1>3, <2>1, CallFrame
<1>5. AloneOK'
  <2>1. ASSUME NEW b \in alone', NEW d \in Calls \ {b}, UnderWay(d)' PROVE Saving(d)'
    BY <1>1, <1>2, <1>4, <2>1 DEF IInv, AloneOK, UnderWay, Saving
  <2>2. ASSUME NEW b \in alone' PROVE b \in alone /\ b \in Calls \ {a} /\ call'[b] = call[b]
    BY <1>2, <1>4 DEF IInv, TabOK
  <2> QED BY <1>2, <2>1, <2>2 DEF IInv, AloneOK, UnderWay, Saving
<1>6. LoadingIsWaiting'
  <2>1. ~call[a].tab
    BY <1>2 DEF IInv, CallsOK, CallOK, Waits, UnderWay
  <2> QED BY <1>2, <1>4, <2>1 DEF IInv, LoadingIsWaiting, Listening, Saving
<1>7. OwnersOK' /\ CookieOK' /\ TabOK'
  BY <1>2 DEF IInv, OwnersOK, CookieOK, TabOK
<1> QED BY <1>4, <1>5, <1>6, <1>7 DEF IInv

LEMMA PageKeeps ==
    ASSUME IInv, NEW a \in Calls, ProfileSaved(a) \/ SubmitCredentials(a) \/ SignOut(a)
    PROVE  IInv'
<1>1. CASE ProfileSaved(a)
  BY <1>1, SendKeeps DEF ProfileSaved
<1>2. CASE SubmitCredentials(a)
  BY <1>2, SendKeeps DEF SubmitCredentials
<1>3. CASE SignOut(a)
  BY <1>3, SendKeeps DEF SignOut
<1> QED BY <1>1, <1>2, <1>3

LEMMA StepKeeps == ASSUME IInv, [Next]_vars PROVE IInv'
<1>1. ASSUME NEW a \in Calls, Serve(a) PROVE IInv'
  BY <1>1, ServeSessionKeeps, ServeSaveKeeps, ServeLoginKeeps, ServeLogoutKeeps DEF Serve
<1>2. ASSUME NEW a \in Calls,
             Hear(a) \/ Timeout(a) \/ SaveFails(a) \/ SaveProfile(a) \/ Reload(a)
      PROVE  IInv'
  BY <1>2, HearKeeps, TimeoutKeeps, SaveFailsKeeps, SaveProfileKeeps, ReloadKeeps
<1> QED BY <1>1, <1>2, PageKeeps, OtherTabKeeps, SessionLostKeeps, StutterKeeps DEF Next

LEMMA InitHolds == Init => IInv
<1> SUFFICES ASSUME Init PROVE IInv
  OBVIOUS
<1>1. PICK u \in People, t \in Tokens :
        /\ owner = [k \in Tokens |-> IF k = t THEN u ELSE Nobody]
        /\ live = {t} /\ copied \in SUBSET {t} /\ cookie \in {t, NoToken}
  BY DEF Init
<1>2. OwnersOK /\ CookieOK
  BY <1>1, WebConstants DEF OwnersOK, CookieOK, WebConstants
<1>3. PICK a \in Calls :
        /\ call = [b \in Calls |-> IF b = a THEN Sent("refresh", Nobody, cookie) ELSE NoCall]
        /\ alone = {a}
  BY DEF Init
<1> DEFINE first == Sent("refresh", Nobody, cookie)
<1>4. /\ first \in CallType /\ first.pc = "sent" /\ first.kind = "refresh" /\ first.token = cookie
      /\ first.tab /\ first.person = Nobody /\ ~first.ok
  <2>1. cookie \in Tokens \cup {NoToken}
    BY <1>1
  <2> QED BY <2>1, SentRecord DEF Kinds
<1>5. call[a] = first /\ \A b \in Calls \ {a} : call[b] = NoCall
  BY <1>3
<1>6. call \in [Calls -> CallType]
  <2> HIDE DEF first
  <2>1. call = [b \in Calls |-> IF b = a THEN first ELSE NoCall]
    BY <1>3 DEF first
  <2> QED BY <1>4, <2>1, NoCallRecord
<1> HIDE DEF first
<1>7. CallOK(first, owner)
  BY <1>2, <1>4 DEF CookieOK, CallOK, Carries, Waits, NamesOwner
<1>8. CallOK(NoCall, owner)
  BY NoCallRecord DEF CallOK, Carries, Waits, NamesOwner
<1>9. CallsOK
  BY <1>5, <1>6, <1>7, <1>8 DEF CallsOK
<1>10. user = Nobody /\ isLoading = TRUE
  BY DEF Init
<1>11. TabOK /\ LoadingIsWaiting /\ AloneOK
  BY <1>3, <1>4, <1>5, <1>10, NoCallRecord
     DEF TabOK, LoadingIsWaiting, Listening, AloneOK, UnderWay, Saving
<1> QED BY <1>2, <1>9, <1>11 DEF IInv

LEMMA IInvAlways == Spec => []IInv
BY InitHolds, StepKeeps, PTL DEF Spec

\* The tab shows that it is loading only while it waits for an answer, whatever calls
\* overlap, fail or are given up (auth-context.tsx:29-86), and neither the cookie nor a
\* copy in Redis names a session that nobody has.
THEOREM LoadingMeansWaiting == Spec => []WebInv
<1>1. IInv => WebInv
  BY IInvImplies
<1> QED BY <1>1, IInvAlways, PTL

(***************************************************************************)
(* What a call that is alone leaves.                                       *)
(***************************************************************************)
Lands(a) == a \in alone \cap alone' /\ call[a].tab /\ ~call'[a].tab

\* It lands when the tab hears of it, or gives it up.
LEMMA OthersKeepIt ==
    ASSUME IInv, Next, NEW a \in Calls, Lands(a) PROVE Hear(a) \/ Timeout(a)
<1>1. UnderWay(a) /\ a \in alone /\ a \in alone' /\ call'[a] # call[a]
  BY DEF Lands, IInv, CallsOK, CallOK, Waits, UnderWay
<1>2. ~Saving(a) /\ \A b \in Calls : ~Joins(b)
  BY <1>1 DEF IInv, AloneOK, Joins
<1>3. ASSUME NEW b \in Calls
      PROVE  /\ ~ (Reload(b) \/ ProfileSaved(b) \/ SubmitCredentials(b) \/ SignOut(b))
             /\ ~SaveProfile(b) /\ ~SaveFails(b)
  <2>1. ~ (Reload(b) \/ ProfileSaved(b) \/ SubmitCredentials(b) \/ SignOut(b))
    BY <1>2 DEF Reload, ProfileSaved, SubmitCredentials, SignOut, Send
  <2>2. ASSUME SaveProfile(b) \/ SaveFails(b) PROVE FALSE
    <3>1. a # b
      BY <1>1, <1>2, <2>2 DEF SaveProfile, SaveFails
    <3> QED BY <1>1, <2>2, <3>1 DEF SaveProfile, SaveFails, IInv, CallsOK
  <2> QED BY <2>1, <2>2
<1>4. ASSUME NEW b \in Calls, Serve(b) PROVE FALSE
  <2>1. PICK to : Answers(b, to) /\ to.tab = call[b].tab
    <3>1. call[b] \in CallType
      BY DEF IInv, CallsOK
    <3>2. Refused(call[b]).tab = call[b].tab
      BY <3>1, RefusedRecord
    <3>3. \A p, t : Granted(call[b], p, t).tab = call[b].tab
      BY <3>1 DEF CallType, Granted
    <3>4. Refuses(b) \/ \E p, t : Grants(b, p, t)
      BY <1>4 DEF Serve, ServeSession, ServeSave, ServeLogin, ServeLogout
    <3>5. CASE Refuses(b)
      BY <3>2, <3>5 DEF Refuses, Refused
    <3>6. ASSUME NEW p, NEW t, Grants(b, p, t)
          PROVE  \E to : Answers(b, to) /\ to.tab = call[b].tab
      <4>1. Answers(b, Granted(call[b], p, t))
        BY <3>6 DEF Grants, Granted
      <4> QED BY <3>3, <4>1
    <3> QED BY <3>4, <3>5, <3>6
  <2>2. b # a => call'[a] = call[a]
    BY <2>1 DEF Answers, IInv, CallsOK
  <2>3. b = a => call'[a].tab
    BY <2>1 DEF Answers, IInv, CallsOK, Lands
  <2> QED BY <1>1, <2>2, <2>3 DEF Lands
<1>5. ~OtherTabSignsIn /\ ~OtherTabSignsOut /\ ~Revoked /\ ~CopyLost
  BY <1>1 DEF OtherTabSignsIn, OtherTabSignsOut, Revoked, CopyLost, web
<1>6. ASSUME NEW b \in Calls, Hear(b) \/ Timeout(b) PROVE b = a
  BY <1>1, <1>6 DEF Hear, Timeout, Ends, UnderWay, IInv, AloneOK
<1> QED BY <1>3, <1>4, <1>5, <1>6 DEF Next

LEMMA LandsExactly ==
    ASSUME IInv, Next, NEW a \in Calls, Lands(a)
    PROVE  user' = IF Succeeded(a) THEN OwnerOf(cookie)' ELSE Nobody
<1>1. (Hear(a) \/ Timeout(a)) /\ user' = Known(a) /\ UNCHANGED owner
  BY OthersKeepIt DEF Hear, Timeout, Ends, server
<1>2. call[a].kind = "login" => user = Nobody
  BY DEF Lands, IInv, AloneOK
<1>3. CASE Succeeded(a)
  <2>1. Hear(a) /\ cookie' = call[a].token
    BY <1>1, <1>3 DEF Lands, IInv, AloneOK, Succeeded, Hear, Timeout
  <2>2. call[a].person = Owner(call[a].token, owner)
    BY <1>3 DEF IInv, CallsOK, CallOK, NamesOwner, Succeeded
  <2> QED BY <1>1, <1>3, <2>1, <2>2 DEF Known, Owner, OwnerOf
<1>4. CASE ~Succeeded(a)
  BY <1>1, <1>2, <1>4 DEF Known
<1> QED BY <1>3, <1>4

\* A call that overlaps no other, and no other tab, leaves the tab with the owner of the
\* cookie it leaves, if it succeeds, and with nobody if it fails or is given up
\* (auth-context.tsx:29-86, api-client.ts:46-99).
THEOREM AloneLandsExactly == Spec => AloneIsExact
<1>1. IInv /\ [Next]_vars =>
        [\A a \in alone \cap alone' : call[a].tab /\ ~call'[a].tab =>
            user' = IF Succeeded(a) THEN OwnerOf(cookie)' ELSE Nobody]_vars
  <2>1. IInv /\ Next => \A a \in alone \cap alone' : call[a].tab /\ ~call'[a].tab =>
            user' = IF Succeeded(a) THEN OwnerOf(cookie)' ELSE Nobody
    BY LandsExactly DEF Lands, IInv, TabOK
  <2> QED BY <2>1
<1> QED BY <1>1, IInvAlways, PTL DEF Spec, AloneIsExact

(***************************************************************************)
(* The admin console, for any of its queries and any number of mutations.  *)
(***************************************************************************)
\* What has no kind is no mutation, and what makes or deletes an item names its list.
CallsKnown == \A a \in Mutations :
    /\ mutation[a].kind = "none" => mutation[a] = NoMutation
    /\ mutation[a].kind \in Itemised => mutation[a].from \in Lists

\* An answer on its way, and data that is not to be asked for again, are behind only
\* a change that the tab has not heard of.
AnswersOK == \A k \in Keys : fetching[k] = "behind" => ~Told(k)
DataOK == \A k \in Keys : data[k] = "behind" /\ Told(k) => k \in invalidated

CacheInv == ConsoleTypeOK /\ CallsKnown /\ AnswersOK /\ DataOK /\ ConsoleIsExact

MutationKinds == {"status", "assign"} \cup Itemised

LEMMA MountsKeys == ASSUME NEW p PROVE Mounts(p) \subseteq Keys
BY DEF Mounts

\* What does not start with a page was mounted before it.
LEMMA MountedBefore ==
    ASSUME NEW p \in Pages, Open(p) PROVE Mounts(p) \ Starts(p) \subseteq Mounts(page)
BY DEF Open, Mounts, Starts

LEMMA KnownMutation ==
    ASSUME CacheInv, NEW a \in Mutations, mutation[a] # NoMutation
    PROVE  mutation[a].kind \in MutationKinds
BY DEF CacheInv, ConsoleTypeOK, CallsKnown, MutationKinds

\* Of what a mutation changes, the hooks mark all that they do not overlook.
LEMMA TouchedIsMarked ==
    ASSUME NEW c, c.kind \in MutationKinds
    PROVE  Touches(c) = Invalidates(c) \cup Overlooks(c)
BY DEF Touches, Invalidates, Overlooks, MutationKinds, Itemised

LEMMA ExcusedIsGood ==
    ASSUME NEW v
    PROVE  /\ Excused(v) # "behind" /\ (v # "behind" => Excused(v) = v)
           /\ v \in {"none"} \cup Values => Excused(v) \in {"none"} \cup Values
           /\ v \in {"idle", "sent"} \cup Values => Excused(v) \in {"idle", "sent"} \cup Values
           /\ v # "idle" => Excused(v) # "idle"
BY DEF Excused, Values

LEMMA OpenKeeps == ASSUME CacheInv, NEW p \in Pages, Open(p) PROVE CacheInv'
<1>1. UNCHANGED <<data, invalidated, gone, mutation>> /\ page' = p
  BY DEF Open
<1>2. \A k \in Keys : Told(k)' <=> Told(k)
  BY <1>1 DEF Told
<1>3. PICK aged : fetching' = [k \in Keys |->
          IF /\ k \in Starts(p) /\ fetching[k] = "idle"
             /\ data[k] = "none" \/ k \in invalidated \/ k \in aged
          THEN "sent" ELSE fetching[k]]
  BY DEF Open
<1>4. ConsoleTypeOK' /\ CallsKnown'
  BY <1>1, <1>3 DEF CacheInv, ConsoleTypeOK, CallsKnown
<1>5. AnswersOK' /\ DataOK'
  BY <1>1, <1>2, <1>3 DEF CacheInv, AnswersOK, DataOK
<1>6. ConsoleIsExact'
  <2>1. Mounts(p) \subseteq Keys /\ Mounts(p) \ Starts(p) \subseteq Mounts(page)
    BY MountsKeys, MountedBefore
  <2> QED BY <1>1, <1>2, <1>3, <2>1 DEF CacheInv, ConsoleIsExact, DataOK
<1> QED BY <1>4, <1>5, <1>6 DEF CacheInv

\* A query that ends, one way or another: key by key
LEMMA QueryKeeps ==
    ASSUME CacheInv, NEW k \in Keys, UNCHANGED <<page, gone, mutation>>,
           NEW f \in {"idle", "good"}, fetching' = [fetching EXCEPT ![k] = f],
           NEW d \in {"none"} \cup Values, data' = [data EXCEPT ![k] = d],
           invalidated' \subseteq invalidated, invalidated \ {k} \subseteq invalidated',
           Told(k) /\ d = "behind" => k \in invalidated',
           Told(k) /\ d = "behind" /\ k \in Mounts(page) => f = "good"
    PROVE  CacheInv'
<1>1. \A j \in Keys : Told(j)' <=> Told(j)
  BY DEF Told
<1>2. /\ fetching'[k] = f /\ data'[k] = d
      /\ \A j \in Keys \ {k} : fetching'[j] = fetching[j] /\ data'[j] = data[j]
                               /\ (j \in invalidated => j \in invalidated')
  BY DEF CacheInv, ConsoleTypeOK
<1>3. ConsoleTypeOK' /\ CallsKnown'
  BY DEF CacheInv, ConsoleTypeOK, CallsKnown, Values
<1>4. AnswersOK' /\ DataOK'
  BY <1>1, <1>2 DEF CacheInv, AnswersOK, DataOK
<1>5. ConsoleIsExact'
  <2>1. page' = page /\ Mounts(page) \subseteq Keys
    BY MountsKeys DEF CacheInv, ConsoleTypeOK
  <2> QED BY <1>1, <1>2, <2>1 DEF CacheInv, ConsoleIsExact
<1> QED BY <1>3, <1>4, <1>5 DEF CacheInv

LEMMA ServeQueryKeeps == ASSUME CacheInv, NEW k \in Keys, ServeQuery(k) PROVE CacheInv'
<1>1. data[k] \in {"none"} \cup Values /\ data' = [data EXCEPT ![k] = data[k]]
  BY DEF ServeQuery, CacheInv, ConsoleTypeOK
<1>2. Told(k) /\ data[k] = "behind" => k \in invalidated'
  BY DEF ServeQuery, CacheInv, DataOK
<1> QED BY <1>1, <1>2, QueryKeeps DEF ServeQuery

LEMMA HearQueryKeeps == ASSUME CacheInv, NEW k \in Keys, HearQuery(k) PROVE CacheInv'
<1>1. ~(Told(k) /\ fetching[k] = "behind")
  BY DEF CacheInv, AnswersOK
<1> QED BY <1>1, QueryKeeps DEF HearQuery

LEMMA QueryFailsKeeps == ASSUME CacheInv, NEW k \in Keys, QueryFails(k) PROVE CacheInv'
<1>1. data[k] \in {"none"} \cup Values
  BY DEF CacheInv, ConsoleTypeOK
<1> DEFINE d == Excused(data[k])
<1>2. d \in {"none"} \cup Values /\ d # "behind"
  BY <1>1, ExcusedIsGood
<1>3. data' = [data EXCEPT ![k] = d]
  BY DEF QueryFails
<1> HIDE DEF d
<1> QED BY <1>2, <1>3, QueryKeeps DEF QueryFails

\* A change that is done at the server and not heard of spares only what it touches.
LEMMA DoneKeeps ==
    ASSUME CacheInv, NEW a \in Mutations, NEW from \in Pages,
           NEW kind \in MutationKinds, Done(a, kind, from), gone' \in BOOLEAN,
           kind \in Itemised => from \in Lists
    PROVE  CacheInv'
<1> DEFINE c == [kind |-> kind, from |-> from]
<1>1. c # NoMutation /\ c.kind # "none" /\ (c.kind \in Itemised => c.from \in Lists)
      /\ c \in [kind : {"none", "status", "assign"} \cup Itemised, from : Pages]
  BY DEF NoMutation, MutationKinds, Itemised
<1>2. /\ mutation[a] = NoMutation /\ mutation' = [mutation EXCEPT ![a] = c]
      /\ data' = Outdated(data, Touches(c))
      /\ fetching' = Outdated(fetching, Touches(c))
      /\ UNCHANGED <<page, invalidated>>
  BY DEF Done
<1> HIDE DEF c
<1>3. mutation'[a] = c /\ \A b \in Mutations \ {a} : mutation'[b] = mutation[b]
  BY <1>2 DEF CacheInv, ConsoleTypeOK
<1>4. \A k : Told(k)' => Told(k) /\ k \notin Touches(c)
  BY <1>1, <1>2, <1>3 DEF Told
<1>5. \A k \in Keys \ Touches(c) : data'[k] = data[k] /\ fetching'[k] = fetching[k]
  BY <1>2 DEF Outdated
<1>6. ConsoleTypeOK'
  <2>1. data' \in [Keys -> {"none"} \cup Values]
    BY <1>2 DEF CacheInv, ConsoleTypeOK, Outdated, Values
  <2>2. fetching' \in [Keys -> {"idle", "sent"} \cup Values]
    BY <1>2 DEF CacheInv, ConsoleTypeOK, Outdated, Values
  <2> QED BY <1>1, <1>2, <2>1, <2>2 DEF CacheInv, ConsoleTypeOK
<1>7. CallsKnown'
  BY <1>1, <1>3 DEF CacheInv, CallsKnown
<1>8. AnswersOK' /\ DataOK'
  BY <1>2, <1>4, <1>5 DEF CacheInv, AnswersOK, DataOK
<1>9. ConsoleIsExact'
  <2>1. page' = page /\ Mounts(page) \subseteq Keys
    BY <1>2, MountsKeys DEF CacheInv, ConsoleTypeOK
  <2> QED BY <1>4, <1>5, <2>1 DEF CacheInv, ConsoleIsExact
<1> QED BY <1>6, <1>7, <1>8, <1>9 DEF CacheInv

LEMMA MutationKeeps ==
    ASSUME CacheInv, NEW a \in Mutations,
           \/ ChangeStatus(a) \/ Assign(a) \/ DropPolicy(a)
           \/ \E l \in Lists : CreateItem(a, l) \/ DeleteItem(a, l)
    PROVE  CacheInv'
<1> USE DEF MutationKinds, Itemised, Pages
<1>1. gone \in BOOLEAN
  BY DEF CacheInv, ConsoleTypeOK
<1>2. CASE ChangeStatus(a)
  BY <1>1, <1>2, DoneKeeps DEF ChangeStatus
<1>3. CASE Assign(a)
  BY <1>1, <1>3, DoneKeeps DEF Assign
<1>4. CASE \E l \in Lists : CreateItem(a, l) \/ DeleteItem(a, l)
  BY <1>1, <1>4, DoneKeeps DEF CreateItem, DeleteItem
<1>5. CASE DropPolicy(a)
  <2>1. "policies" \in Lists /\ gone' \in BOOLEAN
    BY <1>5 DEF DropPolicy, Lists
  <2> QED BY <1>5, <2>1, DoneKeeps DEF DropPolicy
<1> QED BY <1>2, <1>3, <1>4, <1>5

\* A mutation that is heard of: what it touched is asked for again or excused, and the
\* rest is asked for again or left as it is.
LEMMA HearSuccessKeeps ==
    ASSUME CacheInv, NEW a \in Mutations, HearSuccess(a)
    PROVE  CacheInv'
<1> DEFINE c == mutation[a]
<1>1. /\ c # NoMutation /\ UNCHANGED <<page, gone>>
      /\ mutation' = [mutation EXCEPT ![a] = NoMutation]
      /\ invalidated' = invalidated \cup {k \in Invalidates(c) : data[k] # "none"}
      /\ data' = [k \in Keys |-> IF k \in Overlooks(c) THEN Excused(data[k])
                                                               ELSE data[k]]
      /\ fetching' = [k \in Keys |->
             IF Joined(c, k)
             THEN IF k \in Touches(c) THEN Excused(fetching[k]) ELSE fetching[k]
             ELSE IF Restarted(c, k) THEN "sent" ELSE fetching[k]]
  BY DEF HearSuccess
<1>2. c.kind \in MutationKinds /\ c.from \in Pages /\ (c.kind \in Itemised => c.from \in Lists)
  BY <1>1, KnownMutation DEF CacheInv, ConsoleTypeOK, CallsKnown
<1>3. Touches(c) = Invalidates(c) \cup Overlooks(c)
  BY <1>2, TouchedIsMarked
<1>4. \A k : Told(k)' /\ k \notin Touches(c) => Told(k)
  BY <1>1 DEF Told, CacheInv, ConsoleTypeOK
<1>5. \A k \in Keys : Restarted(c, k) <=>
        k \in (Invalidates(c) \cap Mounts(page)) \cup Refetches(c)
  BY DEF Restarted
<1>6. \A k \in Keys : Joined(c, k) <=>
        fetching[k] # "idle" /\ (data[k] = "none" \/ ~Restarted(c, k))
  BY DEF Joined
<1>7. page \in Pages /\ Mounts(page) \subseteq Keys
  BY MountsKeys DEF CacheInv, ConsoleTypeOK
<1> HIDE DEF c
<1>8. \A k \in Keys :
        /\ data'[k] = IF k \in Overlooks(c) THEN Excused(data[k]) ELSE data[k]
        /\ fetching'[k] = IF Joined(c, k)
                          THEN IF k \in Touches(c) THEN Excused(fetching[k])
                                                           ELSE fetching[k]
                          ELSE IF Restarted(c, k) THEN "sent" ELSE fetching[k]
  BY <1>1
<1>9. \A k \in Keys :
        /\ data'[k] \in {"none"} \cup Values
        /\ fetching'[k] \in {"idle", "sent"} \cup Values
  BY <1>8, ExcusedIsGood DEF CacheInv, ConsoleTypeOK
<1>10. ConsoleTypeOK' /\ CallsKnown'
  <2>1. data' \in [Keys -> {"none"} \cup Values]
        /\ fetching' \in [Keys -> {"idle", "sent"} \cup Values]
    BY <1>1, <1>9
  <2>2. invalidated' \subseteq Keys
    BY <1>1 DEF CacheInv, ConsoleTypeOK, Invalidates
  <2>3. NoMutation \in [kind : {"none", "status", "assign"} \cup Itemised, from : Pages]
        /\ NoMutation.kind = "none"
    BY DEF NoMutation, Pages
  <2>4. mutation'[a] = NoMutation /\ \A b \in Mutations \ {a} : mutation'[b] = mutation[b]
    BY <1>1 DEF CacheInv, ConsoleTypeOK
  <2>5. CallsKnown'
    BY <2>3, <2>4 DEF CacheInv, CallsKnown, Itemised
  <2> QED BY <1>1, <2>1, <2>2, <2>3, <2>5 DEF CacheInv, ConsoleTypeOK
<1>11. \A k \in Keys : fetching'[k] = "behind" => ~Told(k)'
  BY <1>3, <1>4, <1>6, <1>8, ExcusedIsGood DEF CacheInv, AnswersOK
<1>12. \A k \in Keys : data'[k] = "behind" /\ Told(k)' => k \in invalidated'
  BY <1>1, <1>3, <1>4, <1>8, ExcusedIsGood DEF CacheInv, DataOK
<1>13. ASSUME NEW k \in Mounts(page), Told(k)', fetching'[k] = "idle"
       PROVE  data'[k] # "behind"
  <2> k \in Keys
    BY <1>7
  <2>1. CASE k \in Overlooks(c)
    BY <2>1, <1>8, ExcusedIsGood
  <2>2. CASE k \notin Overlooks(c) /\ k \in Invalidates(c)
    BY <2>2, <1>5, <1>6, <1>8, <1>13, ExcusedIsGood
  <2>3. CASE k \notin Touches(c)
    BY <2>3, <1>3, <1>4, <1>6, <1>8, <1>13 DEF CacheInv, ConsoleIsExact
  <2> QED BY <1>3, <2>1, <2>2, <2>3
<1> QED BY <1>1, <1>10, <1>11, <1>12, <1>13 DEF CacheInv, AnswersOK, DataOK, ConsoleIsExact

LEMMA CacheStutters == ASSUME CacheInv, UNCHANGED consoleVars PROVE CacheInv'
<1>1. UNCHANGED <<page, data, fetching, invalidated, gone, mutation>>
  BY DEF consoleVars, cache
<1> QED BY <1>1 DEF CacheInv, ConsoleTypeOK, CallsKnown, AnswersOK, DataOK, ConsoleIsExact, Told

LEMMA CacheSteps == ASSUME CacheInv, [ConsoleNext]_consoleVars PROVE CacheInv'
BY OpenKeeps, ServeQueryKeeps, HearQueryKeeps, QueryFailsKeeps, MutationKeeps, HearSuccessKeeps, CacheStutters
   DEF ConsoleNext

LEMMA CacheInit == ConsoleInit => CacheInv
<1> SUFFICES ASSUME ConsoleInit PROVE CacheInv
  OBVIOUS
<1>1. /\ page = "elsewhere" /\ invalidated = {} /\ gone = FALSE
      /\ data = [k \in Keys |-> "none"] /\ fetching = [k \in Keys |-> "idle"]
      /\ mutation = [c \in Mutations |-> NoMutation]
  BY DEF ConsoleInit
<1>2. ConsoleTypeOK /\ CallsKnown
  BY <1>1 DEF ConsoleTypeOK, CallsKnown, Pages, NoMutation, Itemised
<1>3. AnswersOK /\ DataOK /\ ConsoleIsExact
  BY <1>1, MountsKeys DEF AnswersOK, DataOK, ConsoleIsExact
<1> QED BY <1>2, <1>3 DEF CacheInv

LEMMA CacheInvAlways == ConsoleSpec => []CacheInv
BY CacheInit, CacheSteps, PTL DEF ConsoleSpec

\* What a page of the console shows at rest is never from before a change that this tab
\* made and was told of (the onSuccess handlers of use-iam.ts over the cache of
\* providers.tsx): what is behind and mounted is being asked for.  Excepted are what
\* no hook marks (Overlooks: a deletion, in what shows a user and in the policy that is
\* looked at, use-iam.ts:280-288), a first fetch that a change overtakes, and a fetch
\* that fails.
THEOREM ConsoleShowsNews == ConsoleSpec => []ConsoleInv
<1>1. CacheInv => ConsoleInv
  BY DEF CacheInv, ConsoleInv
<1> QED BY <1>1, CacheInvAlways, PTL
=================================================================================
