----------------------------- MODULE Accounts_proofs -----------------------------
(***************************************************************************)
(* For any numbers of users, sessions, addresses and requests: accounts    *)
(* stay apart and whole, and access is given to those who earned it.       *)
(*                                                                         *)
(* What is said of a request is said of its record and of a users table,   *)
(* so that a step has to be looked at only where it changes either.        *)
(***************************************************************************)
EXTENDS Accounts, TLAPS

UsersType == [Users -> [email : Maybe(Emails), password : Maybe(Passwords), policy : BOOLEAN]]
Triples == Users \X Maybe(Emails) \X Maybe(Passwords)
CallType == [pc : Steps, route : Routes, token : Maybe(Tokens), who : Maybe(Users),
             seen : Maybe(Emails), fresh : BOOLEAN, cached : BOOLEAN, email : Maybe(Emails),
             given : Maybe(Passwords), next : Maybe(Passwords), calm : BOOLEAN,
             had : SUBSET Triples]

CredentialsIn(U) == {<<u, U[u].email, U[u].password>> : u \in {v \in Users : U[v].email # None}}

\* A request knows every password there has been since it gave its own, and has
\* come no further than what it gave allows.
Knows(r, U) == IF r.given = None THEN r.had = {} ELSE CredentialsIn(U) \subseteq r.had
Earned(r) ==
    /\ r.pc \in {"c_read", "c_store"} => r.route = "signup" \/ <<r.who, r.email, r.given>> \in r.had
    /\ r.pc = "w_update" => \E k \in r.had : k[1] = r.who /\ k[3] = r.given
Stated(r) ==
    /\ r.pc \in Stating =>
          r.route = "signup" /\ r.email # None /\ r.next # None /\ r.given = None
    /\ r.pc \in {"l_verify", "w_verify", "w_update"} => r.given # None
    /\ r.pc = "l_verify" => r.email # None
    /\ r.pc \in {"p_check", "p_update"} => r.email # None
    /\ r.pc = "o_revoke" => r.token # None
    /\ r.pc = "g_answer" => /\ r.route \in {"session", "profile", "update", "change"}
                            /\ r.route = "change" => r.given # None
                            /\ r.route = "update" => r.email # None
Named(r, U) ==
    /\ r.who # None => U[r.who].email # None
    /\ r.pc \in Acting => r.who # None

CallOK(r, U) == Knows(r, U) /\ Earned(r) /\ Stated(r) /\ Named(r, U)

SessionsOK(S, C, U) ==
    /\ S \in [Tokens -> [user : Maybe(Users), live : BOOLEAN]] /\ C \in [Tokens -> Maybe(Emails)]
    /\ \A t \in Tokens : S[t].user # None => U[S[t].user].email # None
    /\ \A t \in Tokens : S[t].live \/ C[t] # None => S[t].user # None

AInv ==
    /\ users \in UsersType /\ EmailsDistinct /\ SignupIsWhole
    /\ SessionsOK(sessions, copies, users)
    /\ call \in [Calls -> CallType]
    /\ \A c \in Calls : CallOK(call[c], users)

(***************************************************************************)
(* The forms that the record of a request takes.                           *)
(***************************************************************************)
Moved(r, pc) == [r EXCEPT !.pc = pc]
Taking(r, pc, u) == [r EXCEPT !.pc = pc, !.who = u]
Seeing(r, pc, e) == [r EXCEPT !.pc = pc, !.seen = e]
Noticing(r, calm, S) == [r EXCEPT !.calm = calm, !.had = S]
Stranger(r, t, S) == [r EXCEPT !.token = t, !.had = S]
Known(r, u, e, cached, fresh) ==
    [r EXCEPT !.who = u, !.seen = e, !.cached = cached, !.fresh = fresh]

LEMMA IdleType == Idle \in CallType
BY DEF Idle, CallType, Steps, Over, Routes, Maybe, Triples

LEMMA IdleFields ==
    /\ Idle.pc = "idle" /\ Idle.route = "session" /\ Idle.token = None /\ Idle.who = None
    /\ Idle.seen = None /\ Idle.email = None /\ Idle.given = None /\ Idle.next = None
    /\ Idle.had = {}
BY DEF Idle

\* One field set at a time
WithPc(r, x) == [r EXCEPT !.pc = x]
WithRoute(r, x) == [r EXCEPT !.route = x]
WithToken(r, x) == [r EXCEPT !.token = x]
WithWho(r, x) == [r EXCEPT !.who = x]
WithSeen(r, x) == [r EXCEPT !.seen = x]
WithFresh(r, x) == [r EXCEPT !.fresh = x]
WithCached(r, x) == [r EXCEPT !.cached = x]
WithEmail(r, x) == [r EXCEPT !.email = x]
WithGiven(r, x) == [r EXCEPT !.given = x]
WithNext(r, x) == [r EXCEPT !.next = x]
WithCalm(r, x) == [r EXCEPT !.calm = x]
WithHad(r, x) == [r EXCEPT !.had = x]

LEMMA SetPc == \A r \in CallType, x \in Steps : WithPc(r, x) \in CallType
BY DEF CallType, WithPc

LEMMA SetRoute == \A r \in CallType, x \in Routes : WithRoute(r, x) \in CallType
BY DEF CallType, WithRoute

LEMMA SetToken == \A r \in CallType, x \in Maybe(Tokens) : WithToken(r, x) \in CallType
BY DEF CallType, WithToken

LEMMA SetWho == \A r \in CallType, x \in Maybe(Users) : WithWho(r, x) \in CallType
BY DEF CallType, WithWho

LEMMA SetSeen == \A r \in CallType, x \in Maybe(Emails) : WithSeen(r, x) \in CallType
BY DEF CallType, WithSeen

LEMMA SetFresh == \A r \in CallType, x \in BOOLEAN : WithFresh(r, x) \in CallType
BY DEF CallType, WithFresh

LEMMA SetCached == \A r \in CallType, x \in BOOLEAN : WithCached(r, x) \in CallType
BY DEF CallType, WithCached

LEMMA SetEmail == \A r \in CallType, x \in Maybe(Emails) : WithEmail(r, x) \in CallType
BY DEF CallType, WithEmail

LEMMA SetGiven == \A r \in CallType, x \in Maybe(Passwords) : WithGiven(r, x) \in CallType
BY DEF CallType, WithGiven

LEMMA SetNext == \A r \in CallType, x \in Maybe(Passwords) : WithNext(r, x) \in CallType
BY DEF CallType, WithNext

LEMMA SetCalm == \A r \in CallType, x \in BOOLEAN : WithCalm(r, x) \in CallType
BY DEF CallType, WithCalm

LEMMA SetHad == \A r \in CallType, x \in SUBSET Triples : WithHad(r, x) \in CallType
BY DEF CallType, WithHad

LEMMA MovedRecord ==
    \A r \in CallType, pc \in Steps :
        /\ Moved(r, pc) \in CallType /\ Moved(r, pc).pc = pc
        /\ Moved(r, pc).route = r.route /\ Moved(r, pc).token = r.token
        /\ Moved(r, pc).who = r.who /\ Moved(r, pc).seen = r.seen
        /\ Moved(r, pc).email = r.email /\ Moved(r, pc).given = r.given
        /\ Moved(r, pc).next = r.next /\ Moved(r, pc).had = r.had
        /\ Moved(r, pc).calm = r.calm /\ Moved(r, pc).fresh = r.fresh
BY DEF CallType, Moved

LEMMA TakingRecord ==
    \A r \in CallType, pc \in Steps, u \in Users :
        /\ Taking(r, pc, u) \in CallType
        /\ Taking(r, pc, u).pc = pc /\ Taking(r, pc, u).route = r.route
        /\ Taking(r, pc, u).token = r.token /\ Taking(r, pc, u).who = u
        /\ Taking(r, pc, u).seen = r.seen /\ Taking(r, pc, u).fresh = r.fresh
        /\ Taking(r, pc, u).cached = r.cached /\ Taking(r, pc, u).email = r.email
        /\ Taking(r, pc, u).given = r.given /\ Taking(r, pc, u).next = r.next
        /\ Taking(r, pc, u).calm = r.calm /\ Taking(r, pc, u).had = r.had
<1> TAKE r \in CallType, pc \in Steps, u \in Users
<1>1. Taking(r, pc, u) = WithWho(WithPc(r, pc), u)
  BY DEF Taking, WithPc, WithWho
<1>2. Taking(r, pc, u) \in CallType
  BY <1>1, SetPc, SetWho DEF Maybe
<1> QED BY <1>2 DEF CallType, Taking

LEMMA SeeingRecord ==
    \A r \in CallType, pc \in Steps, e \in Maybe(Emails) :
        /\ Seeing(r, pc, e) \in CallType
        /\ Seeing(r, pc, e).pc = pc /\ Seeing(r, pc, e).route = r.route
        /\ Seeing(r, pc, e).token = r.token /\ Seeing(r, pc, e).who = r.who
        /\ Seeing(r, pc, e).seen = e /\ Seeing(r, pc, e).fresh = r.fresh
        /\ Seeing(r, pc, e).cached = r.cached /\ Seeing(r, pc, e).email = r.email
        /\ Seeing(r, pc, e).given = r.given /\ Seeing(r, pc, e).next = r.next
        /\ Seeing(r, pc, e).calm = r.calm /\ Seeing(r, pc, e).had = r.had
<1> TAKE r \in CallType, pc \in Steps, e \in Maybe(Emails)
<1>1. Seeing(r, pc, e) = WithSeen(WithPc(r, pc), e)
  BY DEF Seeing, WithPc, WithSeen
<1>2. Seeing(r, pc, e) \in CallType
  BY <1>1, SetPc, SetSeen
<1> QED BY <1>2 DEF CallType, Seeing

LEMMA NoticingRecord ==
    \A r \in CallType, b \in BOOLEAN, S \in SUBSET Triples :
        /\ Noticing(r, b, S) \in CallType
        /\ Noticing(r, b, S).pc = r.pc /\ Noticing(r, b, S).route = r.route
        /\ Noticing(r, b, S).token = r.token /\ Noticing(r, b, S).who = r.who
        /\ Noticing(r, b, S).seen = r.seen /\ Noticing(r, b, S).fresh = r.fresh
        /\ Noticing(r, b, S).cached = r.cached /\ Noticing(r, b, S).email = r.email
        /\ Noticing(r, b, S).given = r.given /\ Noticing(r, b, S).next = r.next
        /\ Noticing(r, b, S).calm = b /\ Noticing(r, b, S).had = S
<1> TAKE r \in CallType, b \in BOOLEAN, S \in SUBSET Triples
<1>1. Noticing(r, b, S) = WithHad(WithCalm(r, b), S)
  BY DEF Noticing, WithCalm, WithHad
<1>2. Noticing(r, b, S) \in CallType
  BY <1>1, SetCalm, SetHad
<1> QED BY <1>2 DEF CallType, Noticing

LEMMA StrangerRecord ==
    \A r \in CallType, t \in Maybe(Tokens), S \in SUBSET Triples :
        /\ Stranger(r, t, S) \in CallType
        /\ Stranger(r, t, S).pc = r.pc /\ Stranger(r, t, S).route = r.route
        /\ Stranger(r, t, S).token = t /\ Stranger(r, t, S).who = r.who
        /\ Stranger(r, t, S).seen = r.seen /\ Stranger(r, t, S).fresh = r.fresh
        /\ Stranger(r, t, S).cached = r.cached /\ Stranger(r, t, S).email = r.email
        /\ Stranger(r, t, S).given = r.given /\ Stranger(r, t, S).next = r.next
        /\ Stranger(r, t, S).calm = r.calm /\ Stranger(r, t, S).had = S
<1> TAKE r \in CallType, t \in Maybe(Tokens), S \in SUBSET Triples
<1>1. Stranger(r, t, S) = WithHad(WithToken(r, t), S)
  BY DEF Stranger, WithToken, WithHad
<1>2. Stranger(r, t, S) \in CallType
  BY <1>1, SetToken, SetHad
<1> QED BY <1>2 DEF CallType, Stranger

LEMMA KnownRecord ==
    \A r \in CallType, u \in Maybe(Users), e \in Maybe(Emails), b \in BOOLEAN, f \in BOOLEAN :
        /\ Known(r, u, e, b, f) \in CallType
        /\ Known(r, u, e, b, f).pc = r.pc /\ Known(r, u, e, b, f).route = r.route
        /\ Known(r, u, e, b, f).token = r.token /\ Known(r, u, e, b, f).who = u
        /\ Known(r, u, e, b, f).seen = e /\ Known(r, u, e, b, f).fresh = f
        /\ Known(r, u, e, b, f).cached = b /\ Known(r, u, e, b, f).email = r.email
        /\ Known(r, u, e, b, f).given = r.given /\ Known(r, u, e, b, f).next = r.next
        /\ Known(r, u, e, b, f).calm = r.calm /\ Known(r, u, e, b, f).had = r.had
<1> TAKE r \in CallType, u \in Maybe(Users), e \in Maybe(Emails), b \in BOOLEAN, f \in BOOLEAN
<1>1. Known(r, u, e, b, f) = WithFresh(WithCached(WithSeen(WithWho(r, u), e), b), f)
  BY DEF Known, WithWho, WithSeen, WithCached, WithFresh
<1>2. Known(r, u, e, b, f) \in CallType
  BY <1>1, SetWho, SetSeen, SetCached, SetFresh
<1> QED BY <1>2 DEF CallType, Known

LEMMA CredentialsType ==
    ASSUME NEW U \in UsersType PROVE CredentialsIn(U) \in SUBSET Triples
<1>1. ASSUME NEW u \in Users PROVE <<u, U[u].email, U[u].password>> \in Triples
  BY DEF UsersType, Triples
<1> QED BY <1>1 DEF CredentialsIn

\* A request that is over asks for nothing.
LEMMA OverOK ==
    \A pc \in Over, U \in UsersType :
        Moved(Idle, pc) \in CallType /\ CallOK(Moved(Idle, pc), U)
<1>1. \A pc \in Over : pc \in Steps /\ pc \notin Acting \cup Stating
          \cup {"l_verify", "o_revoke", "g_answer"}
  BY DEF Over, Steps, Acting, Stating
<1>2. {"l_verify", "c_read", "c_store", "w_verify", "w_update", "p_check", "p_update", "o_revoke",
       "g_answer"} \subseteq Acting \cup {"l_verify", "o_revoke", "g_answer"}
  BY DEF Acting
<1> QED BY <1>1, <1>2, IdleType, IdleFields, MovedRecord
        DEF CallOK, Knows, Earned, Stated, Named

(***************************************************************************)
(* What the queries leave alone.                                           *)
(***************************************************************************)
LEMMA ReadKeeps ==
    ASSUME AInv, NEW c \in Calls, NEW to \in CallType, Resume(c, to), UNCHANGED users,
           SessionsOK(sessions', copies', users), CallOK(to, users)
    PROVE  AInv'
<1>1. call' \in [Calls -> CallType] /\ \A d \in Calls : CallOK(call'[d], users)
  BY DEF AInv, Resume
<1> QED BY <1>1 DEF AInv, EmailsDistinct, SignupIsWhole, Exists

LEMMA GotoOver ==
    ASSUME AInv, NEW c \in Calls, NEW pc \in Over, Goto(c, pc), UNCHANGED users,
           SessionsOK(sessions', copies', users)
    PROVE  AInv'
<1>1. At(c, pc) = Moved(Idle, pc)
  BY DEF At, Moved
<1>2. users \in UsersType
  BY DEF AInv
<1> QED BY <1>1, <1>2, OverOK, ReadKeeps DEF Goto

LEMMA GotoOn ==
    ASSUME AInv, NEW c \in Calls, NEW pc \in Steps \ Over, Goto(c, pc), UNCHANGED users,
           SessionsOK(sessions', copies', users), CallOK(Moved(call[c], pc), users)
    PROVE  AInv'
<1>1. At(c, pc) = Moved(call[c], pc)
  BY DEF At, Moved
<1>2. Moved(call[c], pc) \in CallType
  <2>1. call[c] \in CallType
    BY DEF AInv
  <2> QED BY <2>1, MovedRecord
<1> QED BY <1>1, <1>2, ReadKeeps DEF Goto

LEMMA SameSessions ==
    ASSUME AInv, UNCHANGED <<sessions, copies>> PROVE SessionsOK(sessions', copies', users)
BY DEF AInv

\* Going on, a request keeps what it named and what it knows.
LEMMA MovedOK ==
    ASSUME NEW r \in CallType, NEW U, CallOK(r, U), NEW pc \in Steps,
           Earned(Moved(r, pc)), Stated(Moved(r, pc)), pc \in Acting => r.who # None
    PROVE  CallOK(Moved(r, pc), U)
<1> DEFINE to == Moved(r, pc)
<1>1. to.pc = pc /\ to.who = r.who /\ to.given = r.given /\ to.had = r.had
  BY MovedRecord
<1> HIDE DEF to
<1>2. Knows(to, U) /\ Named(to, U)
  BY <1>1 DEF CallOK, Knows, Named
<1> QED BY <1>2 DEF CallOK, to

\* A write to users: addresses and policies stay, the others notice the passwords.
LEMMA NoticedOK ==
    ASSUME NEW r \in CallType, NEW U, NEW V \in UsersType, NEW b \in BOOLEAN, CallOK(r, U),
           \A u \in Users : U[u].email # None => V[u].email # None
    PROVE  LET S == IF r.given = None THEN {} ELSE r.had \cup CredentialsIn(V)
           IN  Noticing(r, b, S) \in CallType /\ CallOK(Noticing(r, b, S), V)
<1> DEFINE S == IF r.given = None THEN {} ELSE r.had \cup CredentialsIn(V)
           to == Noticing(r, b, S)
<1>1. S \in SUBSET Triples /\ r.had \subseteq S
  <2>1. r.had \in SUBSET Triples
    BY DEF CallType
  <2> QED BY <2>1, CredentialsType DEF CallOK, Knows
<1>2. /\ to \in CallType /\ to.pc = r.pc /\ to.route = r.route /\ to.token = r.token
      /\ to.who = r.who /\ to.email = r.email /\ to.given = r.given /\ to.next = r.next
      /\ to.had = S
  <2> HIDE DEF S
  <2> QED BY <1>1, NoticingRecord
<1>3. Knows(to, V)
  BY <1>2 DEF Knows
<1> HIDE DEF to, S
<1>4. Earned(to)
  BY <1>1, <1>2 DEF CallOK, Earned
<1>5. Stated(to)
  BY <1>2 DEF CallOK, Stated
<1>6. Named(to, V)
  <2>1. r.who # None => r.who \in Users
    BY DEF CallType, Maybe
  <2> QED BY <1>2, <2>1 DEF CallOK, Named
<1> QED BY <1>2, <1>3, <1>4, <1>5, <1>6 DEF CallOK, S, to

LEMMA WriteKeeps ==
    ASSUME AInv, NEW c \in Calls, NEW to \in CallType, Wrote(c, to), CallOK(to, users'),
           users' \in UsersType, \A u \in Users : Exists(u) => users'[u].email # None,
           EmailsDistinct', SignupIsWhole'
    PROVE  AInv'
<1>1. ASSUME NEW d \in Calls
      PROVE  call'[d] \in CallType /\ CallOK(call'[d], users')
  <2>1. CASE d = c
    BY <2>1 DEF Wrote
  <2>2. CASE d # c
    <3> DEFINE b == call[d].calm /\ call[d].route # "update"
               S == IF call[d].given = None THEN {} ELSE call[d].had \cup CredentialsIn(users')
    <3>1. call'[d] = Noticing(call[d], b, S)
      BY <2>2 DEF Wrote, Noticing, Credentials, CredentialsIn, Exists
    <3>2. call[d] \in CallType /\ CallOK(call[d], users) /\ b \in BOOLEAN
      BY DEF AInv, CallType
    <3> HIDE DEF b
    <3> QED BY <3>1, <3>2, NoticedOK DEF Exists
  <2> QED BY <2>1, <2>2
<1>2. call' \in [Calls -> CallType]
  BY <1>1 DEF Wrote
<1>3. SessionsOK(sessions', copies', users')
  BY DEF Wrote, AInv, SessionsOK, Exists, Maybe
<1> QED BY <1>1, <1>2, <1>3 DEF AInv

(***************************************************************************)
(* Arrivals.                                                               *)
(***************************************************************************)
\* What the routes make of a request that has no identity yet
Fresh(n) ==
    /\ n \in CallType /\ n.who = None /\ n.pc \notin Acting
    /\ n.pc \in Stating =>
          n.route = "signup" /\ n.email # None /\ n.next # None /\ n.given = None
    /\ n.pc = "l_verify" => n.email # None /\ n.given # None
    /\ n.pc = "g_answer" => /\ n.route \in {"session", "profile", "update", "change"}
                            /\ n.route = "change" => n.given # None
                            /\ n.route = "update" => n.email # None
    /\ n.route = "update" => n.pc = "g_answer"

LEMMA StrangerOK ==
    ASSUME AInv, NEW n, Fresh(n), NEW t \in Maybe(Tokens), n.pc = "o_revoke" => t # None
    PROVE  LET S == IF n.given = None THEN {} ELSE CredentialsIn(users)
           IN  Stranger(n, t, S) \in CallType /\ CallOK(Stranger(n, t, S), users)
<1> DEFINE S == IF n.given = None THEN {} ELSE CredentialsIn(users)
           to == Stranger(n, t, S)
<1>1. S \in SUBSET Triples
  BY CredentialsType DEF AInv
<1>2. /\ to \in CallType /\ to.pc = n.pc /\ to.route = n.route /\ to.token = t
      /\ to.who = None /\ to.email = n.email /\ to.given = n.given /\ to.next = n.next
      /\ to.had = S
  <2> HIDE DEF S
  <2> QED BY <1>1, StrangerRecord DEF Fresh
<1>3. Knows(to, users)
  BY <1>2 DEF Knows
<1> HIDE DEF to, S
<1>4. Earned(to) /\ Stated(to) /\ Named(to, users)
  <2>1. {"c_read", "c_store", "w_verify", "w_update", "p_check", "p_update"} \subseteq Acting
    BY DEF Acting
  <2> QED BY <1>2, <2>1 DEF Fresh, Earned, Stated, Named
<1> QED BY <1>2, <1>3, <1>4 DEF CallOK, S, to

LEMMA IdentityOK ==
    ASSUME NEW r \in CallType, NEW U, CallOK(r, U), r.pc = "g_answer", NEW u \in Users,
           U[u].email # None, NEW e \in Maybe(Emails), NEW b \in BOOLEAN, NEW f \in BOOLEAN
    PROVE  Known(r, u, e, b, f) \in CallType /\ CallOK(Known(r, u, e, b, f), U)
<1> DEFINE to == Known(r, u, e, b, f)
<1>1. /\ to \in CallType /\ to.pc = "g_answer" /\ to.route = r.route /\ to.token = r.token
      /\ to.who = u /\ to.email = r.email /\ to.given = r.given /\ to.next = r.next
      /\ to.had = r.had
  <2>1. u \in Maybe(Users)
    BY DEF Maybe
  <2> QED BY <2>1, KnownRecord
<1> HIDE DEF to
<1>2. Knows(to, U)
  BY <1>1 DEF CallOK, Knows
<1>3. Earned(to) /\ Named(to, U)
  BY <1>1, AccountConstants DEF AccountConstants, Earned, Named
<1>4. Stated(to)
  BY <1>1 DEF CallOK, Stated, Stating
<1> QED BY <1>1, <1>2, <1>3, <1>4 DEF to, CallOK

Identify(c, r, t, e, b) ==
    Resume(c, [r EXCEPT !.who = sessions[t].user, !.seen = e, !.cached = b,
                        !.fresh = (e = users[sessions[t].user].email)])

LEMMA ArrivesKeeps ==
    ASSUME AInv, NEW c \in Calls, NEW t \in Cookies, NEW n, Fresh(n),
           n.pc = "o_revoke" => t # None /\ n.route = "logout", Arrives(c, t, n)
    PROVE  AInv'
<1> DEFINE S == IF n.given = None THEN {} ELSE CredentialsIn(users)
           k == IF n.route = "logout" THEN t ELSE None
           stranger == Stranger(n, k, S)
<1>1. k \in Maybe(Tokens) /\ (n.pc = "o_revoke" => k # None)
  BY DEF Cookies, Maybe
<1>2. stranger \in CallType /\ CallOK(stranger, users) /\ stranger.pc = n.pc
  <2>1. stranger \in CallType /\ CallOK(stranger, users)
    <3> HIDE DEF k
    <3> QED BY <1>1, StrangerOK
  <2>2. S \in SUBSET Triples
    BY CredentialsType DEF AInv
  <2>3. stranger.pc = n.pc
    <3> HIDE DEF k, S
    <3> QED BY <1>1, <2>2, StrangerRecord DEF Fresh
  <2> QED BY <2>1, <2>3
<1>3. stranger = [n EXCEPT !.token = IF n.route = "logout" THEN t ELSE None,
                           !.had = IF n.given = None THEN {} ELSE Credentials]
  BY DEF Stranger, Credentials, CredentialsIn, Exists
<1> HIDE DEF S, k, stranger
<1>4. UNCHANGED <<users, sessions>>
  BY DEF Arrives
<1>5. CASE Resume(c, stranger) /\ UNCHANGED copies
  BY <1>2, <1>4, <1>5, ReadKeeps DEF AInv
<1>6. ASSUME t # None, NEW e \in Maybe(Emails), NEW b \in BOOLEAN, n.pc = "g_answer",
             sessions[t].user # None, copies' = copies \/ copies' = [copies EXCEPT ![t] = e],
             Identify(c, stranger, t, e, b)
      PROVE  AInv'
  <2> DEFINE u == sessions[t].user
             f == (e = users[u].email)
             to == Known(stranger, u, e, b, f)
  <2>1. u \in Users /\ users[u].email # None /\ t \in Tokens
    BY <1>6 DEF AInv, SessionsOK, Cookies, Maybe
  <2>2. f \in BOOLEAN
    OBVIOUS
  <2>3. Resume(c, to)
    BY <1>6 DEF Known, Identify
  <2> HIDE DEF f
  <2>4. to \in CallType /\ CallOK(to, users)
    <3> HIDE DEF u
    <3> QED BY <1>2, <1>6, <2>1, <2>2, IdentityOK
  <2>5. SessionsOK(sessions, copies', users)
    BY <1>6, <2>1 DEF AInv, SessionsOK
  <2> HIDE DEF to
  <2> QED BY <1>4, <2>3, <2>4, <2>5, ReadKeeps
<1>7. CASE n.pc # "g_answer"
  <2>1. Resume(c, stranger)
    BY <1>3, <1>7 DEF Arrives
  <2>2. copies' = copies \/ (t # None /\ sessions[t].live /\ copies' = [copies EXCEPT ![t] = users[sessions[t].user].email])
    BY DEF Arrives
  <2>3. SessionsOK(sessions, copies', users)
    BY <2>2 DEF AInv, SessionsOK, Cookies, UsersType, Maybe
  <2> QED BY <1>2, <1>4, <2>1, <2>3, ReadKeeps
<1>8. CASE n.pc = "g_answer"
  <2> DEFINE e == users[sessions[t].user].email
  <2>1. \/ Resume(c, stranger) /\ UNCHANGED copies
        \/ /\ t # None /\ copies[t] # None /\ UNCHANGED copies
           /\ Identify(c, stranger, t, copies[t], TRUE)
        \/ /\ t # None /\ sessions[t].live /\ copies' = [copies EXCEPT ![t] = e]
           /\ Identify(c, stranger, t, e, FALSE)
    BY <1>3, <1>8 DEF Arrives, Identify
  <2>2. t # None => t \in Tokens /\ copies[t] \in Maybe(Emails)
    BY DEF Cookies, AInv, SessionsOK
  <2>3. ASSUME t # None, copies[t] # None, UNCHANGED copies,
               Identify(c, stranger, t, copies[t], TRUE)
        PROVE  AInv'
    <3>1. sessions[t].user # None
      BY <2>2, <2>3 DEF AInv, SessionsOK
    <3> QED BY <1>6, <1>8, <2>2, <2>3, <3>1
  <2>4. ASSUME t # None, sessions[t].live, copies' = [copies EXCEPT ![t] = e],
               Identify(c, stranger, t, e, FALSE)
        PROVE  AInv'
    <3>1. sessions[t].user # None /\ e \in Maybe(Emails)
      BY <2>2, <2>4 DEF AInv, SessionsOK, UsersType, Maybe
    <3> HIDE DEF e
    <3> QED BY <1>6, <1>8, <2>4, <3>1
  <2> QED BY <1>5, <2>1, <2>3, <2>4
<1> QED BY <1>7, <1>8

LEMMA ArrivalIsFresh ==
    ASSUME NEW c \in Calls, Arrive(c)
    PROVE  \E t \in Cookies, n \in CallType :
               Fresh(n) /\ (n.pc = "o_revoke" => t # None /\ n.route = "logout") /\ Arrives(c, t, n)
<1> USE DEF Steps, Over, Routes, Acting, Stating, Maybe
<1>1. Idle.who = None /\ Idle.email = None /\ Idle.given = None /\ Idle.next = None
  BY DEF Idle
<1>2. CASE Signup(c)
  <2> DEFINE pc == IF registrationEnabled THEN "s_check" ELSE "forbidden"
  <2>1. PICK e \in Emails, p \in Passwords, t \in Cookies :
          Arrives(c, t, [Idle EXCEPT !.route = "signup", !.email = e, !.next = p, !.pc = pc])
    BY <1>2 DEF Signup
  <2>2. pc \in {"s_check", "forbidden"}
    OBVIOUS
  <2> HIDE DEF pc
  <2> DEFINE n == [Idle EXCEPT !.route = "signup", !.email = e, !.next = p, !.pc = pc]
  <2>3. /\ n \in CallType /\ n.who = None /\ n.pc = pc /\ n.route = "signup"
        /\ n.email = e /\ n.next = p /\ n.given = None
    <3>1. n = WithPc(WithNext(WithEmail(WithRoute(Idle, "signup"), e), p), pc)
      BY DEF WithPc, WithNext, WithEmail, WithRoute
    <3>2. n \in CallType
      BY <2>2, <3>1, IdleType, SetRoute, SetEmail, SetNext, SetPc
    <3> QED BY <1>1, <3>2, IdleType DEF CallType
  <2> HIDE DEF n
  <2>4. Fresh(n)
    BY <2>2, <2>3, AccountConstants DEF AccountConstants, Fresh
  <2>5. Arrives(c, t, n)
    BY <2>1 DEF n
  <2> QED BY <2>2, <2>3, <2>4, <2>5
<1>3. CASE Login(c)
  <2>1. PICK e \in Emails, p \in Passwords, t \in Cookies : Arrives(c, t, [Idle EXCEPT !.route = "login", !.pc = "l_verify", !.email = e, !.given = p])
    BY <1>3 DEF Login
  <2> DEFINE n == [Idle EXCEPT !.route = "login", !.pc = "l_verify", !.email = e, !.given = p]
  <2>2. /\ n \in CallType /\ n.who = None /\ n.pc = "l_verify" /\ n.route = "login"
        /\ n.email = e /\ n.given = p
    <3>1. n = WithGiven(WithEmail(WithPc(WithRoute(Idle, "login"), "l_verify"), e), p)
      BY DEF WithGiven, WithEmail, WithPc, WithRoute
    <3>2. n \in CallType
      BY <3>1, IdleType, SetRoute, SetPc, SetEmail, SetGiven
    <3> QED BY <1>1, <3>2, IdleType DEF CallType
  <2> HIDE DEF n
  <2>3. Fresh(n)
    BY <2>2, AccountConstants DEF AccountConstants, Fresh
  <2>4. Arrives(c, t, n)
    BY <2>1 DEF n
  <2> QED BY <2>2, <2>3, <2>4
<1>4. CASE Logout(c)
  <2>1. PICK t \in Cookies : Arrives(c, t, [Idle EXCEPT !.route = "logout",
                    !.pc = IF t = None THEN "ok" ELSE "o_revoke"])
    BY <1>4 DEF Logout
  <2> DEFINE pc == IF t = None THEN "ok" ELSE "o_revoke"
             n == [Idle EXCEPT !.route = "logout", !.pc = pc]
  <2>2. pc \in {"ok", "o_revoke"} /\ (pc = "o_revoke" => t # None) /\ Arrives(c, t, n)
    BY <2>1
  <2> HIDE DEF pc
  <2>3. n \in CallType /\ n.who = None /\ n.route = "logout" /\ n.pc = pc
    <3>1. n = WithPc(WithRoute(Idle, "logout"), pc)
      BY DEF WithRoute, WithPc
    <3>2. n \in CallType
      BY <2>2, <3>1, IdleType, SetRoute, SetPc
    <3> QED BY <1>1, <3>2, IdleType DEF CallType
  <2> HIDE DEF n
  <2>4. Fresh(n)
    BY <2>2, <2>3 DEF Fresh
  <2> QED BY <2>2, <2>3, <2>4
<1>5. CASE GetSession(c)
  <2>1. PICK t \in Cookies : Arrives(c, t, [Idle EXCEPT !.pc = "g_answer", !.route = "session"])
    BY <1>5 DEF GetSession, Asks
  <2> DEFINE n == [Idle EXCEPT !.pc = "g_answer", !.route = "session"]
  <2>2. n \in CallType /\ n.who = None /\ n.pc = "g_answer" /\ n.route = "session"
    BY <1>1, IdleType DEF CallType
  <2> HIDE DEF n
  <2>3. Fresh(n)
    BY <2>2 DEF Fresh
  <2>4. Arrives(c, t, n)
    BY <2>1 DEF n
  <2> QED BY <2>2, <2>3, <2>4
<1>6. CASE GetProfile(c)
  <2>1. PICK t \in Cookies : Arrives(c, t, [Idle EXCEPT !.pc = "g_answer", !.route = "profile"])
    BY <1>6 DEF GetProfile, Asks
  <2> DEFINE n == [Idle EXCEPT !.pc = "g_answer", !.route = "profile"]
  <2>2. n \in CallType /\ n.who = None /\ n.pc = "g_answer" /\ n.route = "profile"
    BY <1>1, IdleType DEF CallType
  <2> HIDE DEF n
  <2>3. Fresh(n)
    BY <2>2 DEF Fresh
  <2>4. Arrives(c, t, n)
    BY <2>1 DEF n
  <2> QED BY <2>2, <2>3, <2>4
<1>7. CASE UpdateProfile(c)
  <2>1. PICK e \in Emails, t \in Cookies : Arrives(c, t, [[Idle EXCEPT !.email = e] EXCEPT !.pc = "g_answer", !.route = "update"])
    BY <1>7 DEF UpdateProfile, Asks
  <2> DEFINE n == [[Idle EXCEPT !.email = e] EXCEPT !.pc = "g_answer", !.route = "update"]
  <2>2. /\ n \in CallType /\ n.who = None /\ n.pc = "g_answer" /\ n.route = "update"
        /\ n.email = e
    BY <1>1, IdleType DEF CallType
  <2> HIDE DEF n
  <2>3. Fresh(n)
    BY <2>2, AccountConstants DEF AccountConstants, Fresh
  <2>4. Arrives(c, t, n)
    BY <2>1 DEF n
  <2> QED BY <2>2, <2>3, <2>4
<1>8. CASE ChangePassword(c)
  <2>1. PICK p \in Passwords, q \in Passwords, t \in Cookies : Arrives(c, t, [[Idle EXCEPT !.given = p, !.next = q] EXCEPT !.pc = "g_answer", !.route = "change"])
    BY <1>8 DEF ChangePassword, Asks
  <2> DEFINE n == [[Idle EXCEPT !.given = p, !.next = q] EXCEPT !.pc = "g_answer", !.route = "change"]
  <2>2. /\ n \in CallType /\ n.who = None /\ n.pc = "g_answer" /\ n.route = "change"
        /\ n.given = p
    BY <1>1, IdleType DEF CallType
  <2> HIDE DEF n
  <2>3. Fresh(n)
    BY <2>2, AccountConstants DEF AccountConstants, Fresh
  <2>4. Arrives(c, t, n)
    BY <2>1 DEF n
  <2> QED BY <2>2, <2>3, <2>4
<1> QED BY <1>2, <1>3, <1>4, <1>5, <1>6, <1>7, <1>8 DEF Arrive

LEMMA ArriveKeeps == ASSUME AInv, NEW c \in Calls, Arrive(c) PROVE AInv'
BY ArrivalIsFresh, ArrivesKeeps

(***************************************************************************)
(* Signup and login.                                                       *)
(***************************************************************************)
LEMMA CheckAddressKeeps == ASSUME AInv, NEW c \in Calls, CheckAddress(c) PROVE AInv'
<1>1. call[c] \in CallType /\ CallOK(call[c], users) /\ call[c].pc = "s_check"
      /\ UNCHANGED users /\ SessionsOK(sessions', copies', users)
  BY SameSessions DEF CheckAddress, AInv, Reads
<1>2. CASE Goto(c, "conflict")
  BY <1>1, <1>2, GotoOver DEF Over
<1>3. CASE Goto(c, "s_commit")
  <2>1. "s_commit" \in Steps \ Over /\ "s_commit" \notin Acting
    BY DEF Steps, Over, Acting
  <2>2. Earned(Moved(call[c], "s_commit")) /\ Stated(Moved(call[c], "s_commit"))
    BY <1>1, <2>1, MovedRecord DEF CallOK, Earned, Stated, Stating
  <2>3. CallOK(Moved(call[c], "s_commit"), users)
    BY <1>1, <2>1, <2>2, MovedOK
  <2> QED BY <1>1, <1>3, <2>1, <2>3, GotoOn
<1> QED BY <1>2, <1>3 DEF CheckAddress

\* The index on the address holds the accounts apart.
LEMMA CreateAccountKeeps == ASSUME AInv, NEW c \in Calls, CreateAccount(c) PROVE AInv'
<1>1. call[c] \in CallType /\ CallOK(call[c], users) /\ call[c].pc = "s_commit"
  BY DEF CreateAccount, AInv
<1>2. CASE Goto(c, "failed") /\ Reads
  <2>1. UNCHANGED users /\ SessionsOK(sessions', copies', users)
    BY <1>2, SameSessions DEF Reads
  <2> QED BY <1>2, <2>1, GotoOver DEF Over
<1>3. ASSUME ~Taken(call[c].email), NEW u \in Users, ~Exists(u),
             users' = [users EXCEPT ![u] = Account(c, Seeded)],
             Wrote(c, [call[c] EXCEPT !.pc = "c_read", !.who = u])
      PROVE  AInv'
  <2>1. call[c].email # None /\ call[c].route = "signup" /\ call[c].given = None
    BY <1>1 DEF CallOK, Stated, Stating
  <2>2. Account(c, Seeded) \in [email : Maybe(Emails), password : Maybe(Passwords), policy : BOOLEAN]
        /\ Account(c, Seeded).email = call[c].email /\ Account(c, Seeded).policy = Seeded
    BY <1>1, AccountConstants DEF AccountConstants, Account, CallType
  <2>3. users' \in UsersType /\ users'[u].email = call[c].email /\ users'[u].policy = Seeded
        /\ \A v \in Users \ {u} : users'[v] = users[v]
    BY <1>3, <2>2 DEF AInv, UsersType
  <2>4. \A v \in Users : Exists(v) => users'[v].email # None
    BY <1>3, <2>1, <2>3 DEF Exists
  <2>5. EmailsDistinct' /\ SignupIsWhole'
    BY <1>3, <2>1, <2>3 DEF AInv, EmailsDistinct, SignupIsWhole, Exists, Taken
  <2> DEFINE to == Taking(call[c], "c_read", u)
  <2>6. /\ to \in CallType /\ to.pc = "c_read" /\ to.route = "signup" /\ to.who = u
        /\ to.given = None /\ to.had = call[c].had
    BY <1>1, <2>1, TakingRecord DEF Steps
  <2>7. Wrote(c, to)
    BY <1>3 DEF Taking
  <2> HIDE DEF to
  <2>8. CallOK(to, users')
    <3>1. Knows(to, users') /\ Earned(to)
      BY <1>1, <2>1, <2>6 DEF CallOK, Knows, Earned
    <3>2. Stated(to)
      BY <2>6 DEF Stated, Stating
    <3>3. Named(to, users')
      BY <2>1, <2>3, <2>6, AccountConstants DEF Named, AccountConstants
    <3> QED BY <3>1, <3>2, <3>3 DEF CallOK
  <2> QED BY <2>3, <2>4, <2>5, <2>6, <2>7, <2>8, WriteKeeps
<1> QED BY <1>2, <1>3 DEF CreateAccount

LEMMA VerifyPasswordKeeps == ASSUME AInv, NEW c \in Calls, VerifyPassword(c) PROVE AInv'
<1>1. call[c] \in CallType /\ CallOK(call[c], users) /\ call[c].pc = "l_verify"
      /\ UNCHANGED users /\ SessionsOK(sessions', copies', users)
  BY SameSessions DEF VerifyPassword, AInv, Reads
<1>2. CASE Goto(c, "unauthorized")
  BY <1>1, <1>2, GotoOver DEF Over
<1>3. ASSUME NEW u \in Users, Matches(c, u),
             Resume(c, [call[c] EXCEPT !.pc = "c_read", !.who = u])
      PROVE  AInv'
  <2>1. /\ users[u].email = call[c].email /\ users[u].password = call[c].given
        /\ call[c].email # None /\ call[c].given # None
    BY <1>1, <1>3 DEF Matches, CallOK, Stated
  <2>2. <<u, call[c].email, call[c].given>> \in CredentialsIn(users)
    BY <2>1 DEF CredentialsIn
  <2> DEFINE to == Taking(call[c], "c_read", u)
  <2>3. /\ to \in CallType /\ to.pc = "c_read" /\ to.who = u /\ to.email = call[c].email
        /\ to.given = call[c].given /\ to.had = call[c].had
    BY <1>1, TakingRecord DEF Steps
  <2>4. Resume(c, to)
    BY <1>3 DEF Taking
  <2> HIDE DEF to
  <2>5. CallOK(to, users)
    <3>1. Knows(to, users) /\ Earned(to)
      BY <1>1, <2>1, <2>2, <2>3 DEF CallOK, Knows, Earned
    <3>2. Stated(to)
      BY <2>3 DEF Stated, Stating
    <3>3. Named(to, users)
      BY <2>1, <2>3, AccountConstants DEF Named, AccountConstants
    <3> QED BY <3>1, <3>2, <3>3 DEF CallOK
  <2> QED BY <1>1, <2>3, <2>4, <2>5, ReadKeeps
<1> QED BY <1>2, <1>3 DEF VerifyPassword

LEMMA ReadAccountKeeps == ASSUME AInv, NEW c \in Calls, ReadAccount(c) PROVE AInv'
<1>1. call[c] \in CallType /\ CallOK(call[c], users) /\ call[c].pc = "c_read"
      /\ UNCHANGED users /\ SessionsOK(sessions', copies', users)
  BY SameSessions DEF ReadAccount, AInv, Reads
<1>2. call[c].who \in Users /\ users[call[c].who].email \in Maybe(Emails)
  BY <1>1 DEF CallOK, Named, Acting, CallType, Maybe, AInv, UsersType
<1> DEFINE e == users[call[c].who].email
           to == Seeing(call[c], "c_store", e)
<1>3. Resume(c, to)
  BY DEF ReadAccount, Seeing
<1> HIDE DEF e
<1>4. /\ to \in CallType /\ to.pc = "c_store" /\ to.route = call[c].route
      /\ to.who = call[c].who /\ to.email = call[c].email /\ to.given = call[c].given
      /\ to.had = call[c].had
  BY <1>1, <1>2, SeeingRecord DEF Steps, e
<1> HIDE DEF to
<1>5. CallOK(to, users)
  <2>1. Knows(to, users) /\ Earned(to) /\ Named(to, users)
    BY <1>1, <1>4 DEF CallOK, Knows, Earned, Named, Acting
  <2>2. Stated(to)
    BY <1>4 DEF Stated, Stating
  <2> QED BY <2>1, <2>2 DEF CallOK
<1> QED BY <1>1, <1>3, <1>4, <1>5, ReadKeeps


(***************************************************************************)
(* Sessions.                                                               *)
(***************************************************************************)
LEMMA StoreSessionKeeps == ASSUME AInv, NEW c \in Calls, StoreSession(c) PROVE AInv'
<1>1. call[c] \in CallType /\ CallOK(call[c], users) /\ call[c].pc = "c_store" /\ UNCHANGED users
  BY DEF StoreSession, AInv
<1>2. call[c].who \in Users /\ users[call[c].who].email # None /\ call[c].who # None
  BY <1>1 DEF CallOK, Named, Acting, CallType, Maybe
<1>3. SessionsOK(sessions', copies', users)
  <2>1. PICK t \in Tokens :
          /\ sessions[t].user = None
          /\ sessions' = [sessions EXCEPT ![t] = [user |-> call[c].who, live |-> TRUE]]
          /\ copies' = [copies EXCEPT ![t] = call[c].seen] \/ copies' = copies
    BY DEF StoreSession
  <2>2. [user |-> call[c].who, live |-> TRUE] \in [user : Maybe(Users), live : BOOLEAN]
        /\ call[c].seen \in Maybe(Emails)
    BY <1>1, <1>2 DEF Maybe, CallType
  <2>3. sessions'[t].user = call[c].who /\ \A k \in Tokens \ {t} :
          sessions'[k] = sessions[k] /\ copies'[k] = copies[k]
    BY <2>1 DEF AInv, SessionsOK
  <2>4. sessions' \in [Tokens -> [user : Maybe(Users), live : BOOLEAN]]
        /\ copies' \in [Tokens -> Maybe(Emails)]
    BY <2>1, <2>2 DEF AInv, SessionsOK
  <2> QED BY <1>2, <2>3, <2>4 DEF AInv, SessionsOK
<1>4. CASE Goto(c, "failed")
  BY <1>1, <1>3, <1>4, GotoOver DEF Over
<1>5. CASE Goto(c, "answer")
  <2>1. "answer" \in Steps \ Over /\ "answer" \notin Acting
    BY DEF Steps, Over, Acting
  <2>2. Earned(Moved(call[c], "answer")) /\ Stated(Moved(call[c], "answer"))
    BY <1>1, <2>1, MovedRecord DEF Earned, Stated, Stating
  <2>3. CallOK(Moved(call[c], "answer"), users)
    BY <1>1, <2>1, <2>2, MovedOK
  <2> QED BY <1>1, <1>3, <1>5, <2>1, <2>3, GotoOn
<1> QED BY <1>4, <1>5 DEF StoreSession

LEMMA AnswerKeeps == ASSUME AInv, NEW c \in Calls, Answer(c) PROVE AInv'
<1>1. Goto(c, "ok") /\ UNCHANGED users /\ SessionsOK(sessions', copies', users)
  BY SameSessions DEF Answer, Reads
<1> QED BY <1>1, GotoOver DEF Over

LEMMA RevokeKeeps == ASSUME AInv, NEW c \in Calls, Revoke(c) PROVE AInv'
<1>1. call[c].token \in Tokens
  BY DEF Revoke, AInv, CallOK, Stated, CallType, Maybe
<1>2. \E pc \in {"ok", "failed"} : Goto(c, pc)
  BY DEF Revoke
<1>3. /\ copies' = [copies EXCEPT ![call[c].token] = None] /\ UNCHANGED users
      /\ sessions' = sessions \/ sessions' = [sessions EXCEPT ![call[c].token].live = FALSE]
  BY DEF Revoke
<1>4. copies' \in [Tokens -> Maybe(Emails)] /\ \A t \in Tokens : copies'[t] \in {copies[t], None}
  BY <1>1, <1>3 DEF AInv, SessionsOK, Maybe
<1>5. sessions' \in [Tokens -> [user : Maybe(Users), live : BOOLEAN]]
  BY <1>1, <1>3 DEF AInv, SessionsOK
<1>6. ASSUME NEW t \in Tokens
      PROVE  sessions'[t].user = sessions[t].user /\ (sessions'[t].live => sessions[t].live)
  BY <1>1, <1>3, <1>6 DEF AInv, SessionsOK
<1>7. SessionsOK(sessions', copies', users)
  BY <1>4, <1>5, <1>6 DEF AInv, SessionsOK
<1> QED BY <1>2, <1>3, <1>7, GotoOver DEF Over

LEMMA CopyLostKeeps == ASSUME AInv, CopyLost PROVE AInv'
<1>1. SessionsOK(sessions, copies', users)
  BY DEF CopyLost, AInv, SessionsOK, Maybe
<1> QED BY <1>1 DEF CopyLost, AInv, EmailsDistinct, SignupIsWhole, Exists

(***************************************************************************)
(* The routes that want an identity.                                       *)
(***************************************************************************)
LEMMA GuardKeeps == ASSUME AInv, NEW c \in Calls, Guard(c) PROVE AInv'
<1>1. call[c] \in CallType /\ CallOK(call[c], users) /\ call[c].pc = "g_answer"
      /\ UNCHANGED users /\ SessionsOK(sessions', copies', users)
  BY SameSessions DEF Guard, AInv, Reads
<1>2. ASSUME NEW pc \in Over, Goto(c, pc) PROVE AInv'
  BY <1>1, <1>2, GotoOver
<1>3. ASSUME NEW pc \in {"p_update", "p_check", "w_verify"}, Goto(c, pc), call[c].who # None,
             pc = "w_verify" => call[c].route = "change",
             pc \in {"p_update", "p_check"} => call[c].route = "update"
      PROVE  AInv'
  <2>1. pc \in Steps \ Over
    BY DEF Steps, Over
  <2>2. Earned(Moved(call[c], pc)) /\ Stated(Moved(call[c], pc))
    BY <1>1, <1>3, <2>1, MovedRecord DEF CallOK, Earned, Stated, Stating
  <2>3. CallOK(Moved(call[c], pc), users)
    BY <1>1, <1>3, <2>1, <2>2, MovedOK
  <2> QED BY <1>1, <1>3, <2>1, <2>3, GotoOn
<1>4. call[c].route \in {"session", "profile", "update", "change"}
  BY <1>1 DEF CallOK, Stated
<1>5. CASE call[c].who # None /\ Goto(c, Handled(c))
  <2>1. CASE call[c].route = "session"
    BY <1>2, <1>5, <2>1 DEF Handled, Over
  <2>2. CASE call[c].route = "profile"
    BY <1>2, <1>5, <2>2 DEF Handled, Over
  <2>3. CASE call[c].route = "update"
    <3>1. Handled(c) \in {"p_update", "p_check"}
      BY <2>3 DEF Handled
    <3> QED BY <1>3, <1>5, <2>3, <3>1
  <2>4. CASE call[c].route = "change"
    <3>1. Handled(c) = "w_verify"
      BY <2>4 DEF Handled
    <3> QED BY <1>3, <1>5, <2>4, <3>1
  <2> QED BY <1>4, <2>1, <2>2, <2>3, <2>4
<1>6. CASE Goto(c, "unauthorized") \/ Goto(c, "forbidden")
  BY <1>2, <1>6 DEF Over
<1> QED BY <1>5, <1>6 DEF Guard

LEMMA CheckOtherKeeps == ASSUME AInv, NEW c \in Calls, CheckOther(c) PROVE AInv'
<1>1. call[c] \in CallType /\ CallOK(call[c], users) /\ call[c].pc = "p_check"
      /\ UNCHANGED users /\ SessionsOK(sessions', copies', users)
  BY SameSessions DEF CheckOther, AInv, Reads
<1>2. CASE Goto(c, "conflict")
  BY <1>1, <1>2, GotoOver DEF Over
<1>3. CASE Goto(c, "p_update")
  <2>1. "p_update" \in Steps \ Over /\ call[c].who # None
    BY <1>1 DEF Steps, Over, Acting, CallOK, Named
  <2>2. Earned(Moved(call[c], "p_update")) /\ Stated(Moved(call[c], "p_update"))
    BY <1>1, <2>1, MovedRecord DEF CallOK, Earned, Stated, Stating
  <2>3. CallOK(Moved(call[c], "p_update"), users)
    BY <1>1, <2>1, <2>2, MovedOK
  <2> QED BY <1>1, <1>3, <2>1, <2>3, GotoOn
<1> QED BY <1>2, <1>3 DEF CheckOther

\* A row of users is written: what is over has nothing to keep.
LEMMA RowWrittenKeeps ==
    ASSUME AInv, NEW c \in Calls, Wrote(c, At(c, "ok")), users' \in UsersType,
           \A u \in Users : Exists(u) => users'[u].email # None, EmailsDistinct', SignupIsWhole'
    PROVE  AInv'
<1>1. At(c, "ok") = Moved(Idle, "ok") /\ "ok" \in Over
  BY DEF At, Moved, Over
<1> QED BY <1>1, OverOK, WriteKeeps

LEMMA StoreProfileKeeps == ASSUME AInv, NEW c \in Calls, StoreProfile(c) PROVE AInv'
<1>1. call[c] \in CallType /\ CallOK(call[c], users) /\ call[c].pc = "p_update"
  BY DEF StoreProfile, AInv
<1>2. CASE (Goto(c, "ok") \/ Goto(c, "failed")) /\ Reads
  <2>1. UNCHANGED users /\ SessionsOK(sessions', copies', users)
    BY <1>2, SameSessions DEF Reads
  <2> QED BY <1>2, <2>1, GotoOver DEF Over
<1>3. ASSUME \A u \in Users \ {call[c].who} : users[u].email # call[c].email,
             users' = [users EXCEPT ![call[c].who].email = call[c].email],
             Wrote(c, At(c, "ok"))
      PROVE  AInv'
  <2>1. call[c].who \in Users /\ users[call[c].who].email # None
        /\ call[c].email \in Emails /\ call[c].email # None
    BY <1>1 DEF CallOK, Named, Stated, Acting, CallType, Maybe
  <2> DEFINE w == call[c].who
             a == call[c].email
  <2>2. w \in Users /\ a \in Maybe(Emails) /\ users' = [users EXCEPT ![w].email = a]
    BY <1>3, <2>1 DEF Maybe
  <2> HIDE DEF w, a
  <2>3. users' \in UsersType /\ users'[w].email = a /\ users'[w].policy = users[w].policy
        /\ \A v \in Users \ {w} : users'[v] = users[v]
    BY <2>2 DEF AInv, UsersType
  <2>4. (\A v \in Users : Exists(v) => users'[v].email # None) /\ EmailsDistinct' /\ SignupIsWhole'
    BY <1>3, <2>1, <2>3 DEF AInv, EmailsDistinct, SignupIsWhole, Exists, w, a
  <2> QED BY <1>3, <2>3, <2>4, RowWrittenKeeps
<1> QED BY <1>2, <1>3 DEF StoreProfile

LEMMA VerifyCurrentKeeps == ASSUME AInv, NEW c \in Calls, VerifyCurrent(c) PROVE AInv'
<1>1. call[c] \in CallType /\ CallOK(call[c], users) /\ call[c].pc = "w_verify"
      /\ UNCHANGED users /\ SessionsOK(sessions', copies', users)
  BY SameSessions DEF VerifyCurrent, AInv, Reads
<1>2. CASE Goto(c, "unauthorized")
  BY <1>1, <1>2, GotoOver DEF Over
<1>3. CASE Goto(c, "w_update") /\ users[call[c].who].password = call[c].given
  <2> DEFINE k == <<call[c].who, users[call[c].who].email, users[call[c].who].password>>
  <2>1. "w_update" \in Steps \ Over
    BY DEF Steps, Over
  <2>2. call[c].who \in Users /\ call[c].who # None /\ call[c].given # None
        /\ users[call[c].who].email # None
    BY <1>1 DEF CallOK, Named, Stated, Acting, CallType, Maybe
  <2>3. k \in call[c].had /\ k[1] = call[c].who /\ k[3] = call[c].given
    BY <1>1, <1>3, <2>2 DEF CallOK, Knows, CredentialsIn
  <2> HIDE DEF k
  <2>4. Earned(Moved(call[c], "w_update")) /\ Stated(Moved(call[c], "w_update"))
    BY <1>1, <2>1, <2>2, <2>3, MovedRecord DEF Earned, Stated, Stating
  <2>5. CallOK(Moved(call[c], "w_update"), users)
    BY <1>1, <2>1, <2>2, <2>4, MovedOK
  <2> QED BY <1>1, <1>3, <2>1, <2>5, GotoOn
<1> QED BY <1>2, <1>3 DEF VerifyCurrent

LEMMA StorePasswordKeeps == ASSUME AInv, NEW c \in Calls, StorePassword(c) PROVE AInv'
<1>1. call[c] \in CallType /\ CallOK(call[c], users) /\ call[c].pc = "w_update"
  BY DEF StorePassword, AInv
<1> DEFINE w == call[c].who
           p == call[c].next
<1>2. w \in Users /\ p \in Maybe(Passwords) /\ users' = [users EXCEPT ![w].password = p]
  BY <1>1 DEF CallOK, Named, Acting, CallType, Maybe, StorePassword
<1> HIDE DEF w, p
<1>3. users' \in UsersType /\ \A v \in Users : users'[v].email = users[v].email
                                            /\ users'[v].policy = users[v].policy
  BY <1>2 DEF AInv, UsersType
<1>4. (\A v \in Users : Exists(v) => users'[v].email # None) /\ EmailsDistinct' /\ SignupIsWhole'
  BY <1>3 DEF AInv, EmailsDistinct, SignupIsWhole, Exists
<1> QED BY <1>3, <1>4, RowWrittenKeeps DEF StorePassword

LEMMA FailKeeps == ASSUME AInv, NEW c \in Calls, Fail(c) PROVE AInv'
<1>1. Goto(c, "failed") /\ UNCHANGED users /\ SessionsOK(sessions', copies', users)
  BY SameSessions DEF Fail, Reads
<1> QED BY <1>1, GotoOver DEF Over

LEMMA StutterKeeps == ASSUME AInv, UNCHANGED vars PROVE AInv'
BY DEF vars, AInv, EmailsDistinct, SignupIsWhole, Exists

LEMMA StepKeeps == ASSUME AInv, [Next]_vars PROVE AInv'
<1>1. ASSUME NEW c \in Calls, Step(c) PROVE AInv'
  BY <1>1, CheckAddressKeeps, CreateAccountKeeps, VerifyPasswordKeeps, ReadAccountKeeps,
     StoreSessionKeeps, AnswerKeeps, RevokeKeeps, GuardKeeps, CheckOtherKeeps,
     StoreProfileKeeps, VerifyCurrentKeeps, StorePasswordKeeps DEF Step
<1> QED BY <1>1, ArriveKeeps, FailKeeps, CopyLostKeeps, StutterKeeps DEF Next

LEMMA InitHolds == Init => AInv
<1> SUFFICES ASSUME Init PROVE AInv
  OBVIOUS
<1>1. PICK u \in Users, e \in Emails, p \in Passwords, t \in Tokens, copied \in BOOLEAN :
        /\ users = [v \in Users |-> IF v # u THEN NoAccount
                       ELSE [email |-> e, password |-> p, policy |-> Seeded]]
        /\ sessions = [k \in Tokens |-> [user |-> IF k = t THEN u ELSE None, live |-> k = t]]
        /\ copies = [k \in Tokens |-> IF k = t /\ copied THEN e ELSE None]
  BY DEF Init
<1>2. users \in UsersType /\ users[u].email = e /\ e # None /\ users[u].policy = Seeded
      /\ \A v \in Users \ {u} : users[v].email = None
  BY <1>1, AccountConstants DEF AccountConstants, UsersType, NoAccount, Maybe
<1>3. EmailsDistinct /\ SignupIsWhole
  BY <1>2 DEF EmailsDistinct, SignupIsWhole, Exists
<1>4. SessionsOK(sessions, copies, users)
  <2>1. /\ sessions \in [Tokens -> [user : Maybe(Users), live : BOOLEAN]]
        /\ sessions[t].user = u /\ u # None
        /\ \A k \in Tokens \ {t} : sessions[k].user = None /\ ~sessions[k].live
    BY <1>1, AccountConstants DEF AccountConstants, Maybe
  <2>2. copies \in [Tokens -> Maybe(Emails)] /\ \A k \in Tokens \ {t} : copies[k] = None
    BY <1>1 DEF Maybe
  <2> QED BY <1>2, <2>1, <2>2 DEF SessionsOK
<1>5. \A c \in Calls : call[c] = Idle
  BY DEF Init
<1>6. \A c \in Calls : CallOK(call[c], users)
  BY <1>5, IdleFields DEF CallOK, Knows, Earned, Stated, Named, Acting, Stating
<1> QED BY <1>2, <1>3, <1>4, <1>6, IdleType DEF Init, AInv

LEMMA AInvAlways == Spec => []AInv
BY InitHolds, StepKeeps, PTL DEF Spec

(***************************************************************************)
(* Theorems.                                                               *)
(***************************************************************************)
LEMMA AInvImplies == ASSUME AInv PROVE AccountsInv
<1>1. TypeOK
  BY DEF AInv, TypeOK, UsersType, SessionsOK, CallType, Triples
<1>2. \A c \in Calls : Named(call[c], users) /\ Stated(call[c])
  BY DEF AInv, CallOK
<1>3. NamesExist
  BY <1>2 DEF AInv, NamesExist, SessionsOK, Named, Stated, Exists
<1> QED BY <1>1, <1>3 DEF AInv, AccountsInv

\* No two accounts share an address, no account is without the policy it was to get,
\* and what a session, a copy or a request names is there (auth.ts:89-159,
\* profile.ts:98-146).
THEOREM AccountsAreWhole == Spec => []AccountsInv
<1>1. AInv => AccountsInv
  BY AInvImplies
<1> QED BY <1>1, AInvAlways, PTL

LEMMA ArriveLeaves == ASSUME NEW c \in Calls, Arrive(c) PROVE UNCHANGED <<users, sessions>>
<1>1. ASSUME NEW t, NEW n, Arrives(c, t, n) PROVE UNCHANGED <<users, sessions>>
  BY <1>1 DEF Arrives
<1> QED BY <1>1 DEF Arrive, Signup, Login, Logout, GetSession, GetProfile, UpdateProfile,
                    ChangePassword, Asks

LEMMA StepLeaves ==
    ASSUME NEW c \in Calls, Step(c)
    PROVE  /\ UNCHANGED sessions \/ Revoke(c) \/ StoreSession(c)
           /\ UNCHANGED users \/ CreateAccount(c) \/ StoreProfile(c) \/ StorePassword(c)
<1>1. CASE CheckAddress(c) \/ VerifyPassword(c) \/ ReadAccount(c) \/ Answer(c) \/ Guard(c)
           \/ CheckOther(c) \/ VerifyCurrent(c)
  <2>1. CASE CheckAddress(c) \/ VerifyPassword(c) \/ ReadAccount(c) \/ Answer(c)
    BY <2>1 DEF CheckAddress, VerifyPassword, ReadAccount, Answer, Reads
  <2>2. CASE Guard(c) \/ CheckOther(c) \/ VerifyCurrent(c)
    BY <2>2 DEF Guard, CheckOther, VerifyCurrent, Reads
  <2> QED BY <1>1, <2>1, <2>2
<1>2. CASE CreateAccount(c)
  BY <1>2 DEF CreateAccount, Wrote, Reads
<1>3. CASE StoreProfile(c)
  BY <1>3 DEF StoreProfile, Wrote, Reads
<1>4. CASE StorePassword(c)
  BY <1>4 DEF StorePassword, Wrote
<1>5. CASE StoreSession(c) \/ Revoke(c)
  BY <1>5 DEF StoreSession, Revoke
<1> QED BY <1>1, <1>2, <1>3, <1>4, <1>5 DEF Step

LEMMA NextLeaves ==
    ASSUME Next
    PROVE  /\ UNCHANGED sessions \/ \E c \in Calls : Revoke(c) \/ StoreSession(c)
           /\ \/ UNCHANGED users
              \/ \E c \in Calls : CreateAccount(c) \/ StoreProfile(c) \/ StorePassword(c)
<1>1. CASE CopyLost
  BY <1>1 DEF CopyLost
<1>2. ASSUME NEW c \in Calls, Fail(c) PROVE UNCHANGED <<users, sessions>>
  BY <1>2 DEF Fail, Reads
<1> QED BY <1>1, <1>2, ArriveLeaves, StepLeaves DEF Next

LEMMA NewSession ==
    ASSUME AInv, Next, NEW t \in Tokens, sessions'[t].user # sessions[t].user
    PROVE  \E c \in Calls : SignsIn(c, sessions'[t].user)
<1>1. PICK c \in Calls : Revoke(c) \/ StoreSession(c)
  BY NextLeaves
<1>2. CASE Revoke(c)
  BY <1>2 DEF Revoke, AInv, SessionsOK
<1>3. CASE StoreSession(c)
  <2>1. sessions'[t].user = call[c].who /\ call[c].pc = "c_store"
    BY <1>3 DEF StoreSession, AInv, SessionsOK
  <2> QED BY <2>1 DEF AInv, CallOK, Earned, SignsIn
<1> QED BY <1>1, <1>2, <1>3

LEMMA NewPassword ==
    ASSUME AInv, Next, NEW u \in Users, Exists(u), users'[u].password # users[u].password
    PROVE  \E c \in Calls : ChangesPassword(c, u)
<1>1. PICK c \in Calls : CreateAccount(c) \/ StoreProfile(c) \/ StorePassword(c)
  BY NextLeaves
<1>2. CASE CreateAccount(c)
  BY <1>2 DEF CreateAccount, Reads, AInv, UsersType
<1>3. CASE StoreProfile(c)
  BY <1>3 DEF StoreProfile, Reads, AInv, UsersType
<1>4. CASE StorePassword(c)
  <2>1. u = call[c].who /\ call[c].pc = "w_update"
    BY <1>4 DEF StorePassword, AInv, UsersType
  <2> QED BY <2>1 DEF AInv, CallOK, Earned, ChangesPassword, Gave
<1> QED BY <1>1, <1>2, <1>3, <1>4

\* However the requests race, a session goes to those who signed up or gave the address
\* and password the account had at one moment of the request, and a password gives way
\* to those who gave it (auth.ts:262-353,
\* profile.ts:172-211).
THEOREM AccessGoesToItsOwner == Spec => AccessIsEarned
<1>1. AInv /\ [Next]_vars =>
        [ /\ \A t \in Tokens : sessions'[t].user # sessions[t].user
                 => \E c \in Calls : SignsIn(c, sessions'[t].user)
          /\ \A u \in Users : Exists(u) /\ users'[u].password # users[u].password
                 => \E c \in Calls : ChangesPassword(c, u)]_vars
  BY NewSession, NewPassword
<1> QED BY <1>1, AInvAlways, PTL DEF Spec, AccessIsEarned

(***************************************************************************)
(* Updates of a profile: one that nothing disturbs has seen the address    *)
(* that the account has, and asks for another if it is to check it.        *)
(***************************************************************************)
Tracks(r, U) ==
    r.route = "update" =>
        /\ r.pc \in {"g_answer", "p_check", "p_update"}
        /\ r.pc = "p_check" => r.email # r.seen
        /\ r.calm /\ r.fresh /\ r.who # None => U[r.who].email = r.seen

UInv == AInv /\ \A c \in Calls : Tracks(call[c], users)

LEMMA TracksOver == \A U : \A pc \in Over : Tracks(Moved(Idle, pc), U)
BY IdleType, IdleFields, MovedRecord DEF Tracks, Over, Steps

LEMMA TracksRead ==
    ASSUME UInv, NEW c \in Calls, NEW to, Resume(c, to), UNCHANGED users, Tracks(to, users)
    PROVE  \A d \in Calls : Tracks(call'[d], users')
BY DEF UInv, AInv, Resume

LEMMA TracksGoto ==
    ASSUME UInv, NEW c \in Calls, NEW pc \in Steps, Goto(c, pc), UNCHANGED users,
           pc \notin Over => Tracks(Moved(call[c], pc), users)
    PROVE  \A d \in Calls : Tracks(call'[d], users')
<1>1. At(c, pc) = IF pc \in Over THEN Moved(Idle, pc) ELSE Moved(call[c], pc)
  BY DEF At, Moved
<1>2. Tracks(At(c, pc), users)
  BY <1>1, TracksOver
<1> QED BY <1>2, TracksRead DEF Goto

\* Whatever goes on from where no update is, is none.
LEMMA TracksOther ==
    ASSUME UInv, NEW c \in Calls, NEW pc \in Steps, Goto(c, pc), UNCHANGED users,
           call[c].pc \notin {"g_answer", "p_check", "p_update"}
    PROVE  \A d \in Calls : Tracks(call'[d], users')
<1>1. call[c] \in CallType /\ call[c].route # "update"
  BY DEF UInv, AInv, Tracks
<1>2. Tracks(Moved(call[c], pc), users)
  BY <1>1, MovedRecord DEF Tracks
<1> QED BY <1>2, TracksGoto

\* A write disturbs the other updates.
LEMMA TracksWrite ==
    ASSUME UInv, NEW c \in Calls, NEW to, Wrote(c, to), users' \in UsersType, Tracks(to, users')
    PROVE  \A d \in Calls : Tracks(call'[d], users')
<1> SUFFICES ASSUME NEW d \in Calls, d # c PROVE Tracks(call'[d], users')
  BY DEF Wrote
<1> DEFINE b == call[d].calm /\ call[d].route # "update"
           S == IF call[d].given = None THEN {} ELSE call[d].had \cup CredentialsIn(users')
<1>1. call'[d] = Noticing(call[d], b, S)
  BY DEF Wrote, Noticing, Credentials, CredentialsIn, Exists
<1>2. call[d] \in CallType /\ Tracks(call[d], users) /\ b \in BOOLEAN
      /\ (call[d].route = "update" => ~b)
  BY DEF UInv, AInv, CallType
<1>3. S \in SUBSET Triples
  <2>1. call[d].had \in SUBSET Triples
    BY <1>2 DEF CallType
  <2> QED BY <2>1, CredentialsType
<1> HIDE DEF b, S
<1> QED BY <1>1, <1>2, <1>3, NoticingRecord DEF Tracks

LEMMA ArriveTracks ==
    ASSUME UInv, NEW c \in Calls, Arrive(c) PROVE \A d \in Calls : Tracks(call'[d], users')
<1>1. PICK t \in Cookies, n \in CallType : Fresh(n) /\ Arrives(c, t, n)
  BY ArrivalIsFresh
<1> DEFINE S == IF n.given = None THEN {} ELSE CredentialsIn(users)
           k == IF n.route = "logout" THEN t ELSE None
           stranger == Stranger(n, k, S)
<1>2. k \in Maybe(Tokens) /\ S \in SUBSET Triples
  BY CredentialsType DEF Cookies, Maybe, UInv, AInv
<1>3. stranger = [n EXCEPT !.token = IF n.route = "logout" THEN t ELSE None,
                           !.had = IF n.given = None THEN {} ELSE Credentials]
  BY DEF Stranger, Credentials, CredentialsIn, Exists
<1> HIDE DEF S, k
<1>4. /\ stranger \in CallType /\ stranger.pc = n.pc /\ stranger.route = n.route
      /\ stranger.who = None
  BY <1>1, <1>2, StrangerRecord DEF Fresh
<1> HIDE DEF stranger
<1>5. UNCHANGED users
  BY <1>1 DEF Arrives
<1>6. CASE Resume(c, stranger)
  <2>1. Tracks(stranger, users)
    BY <1>1, <1>4 DEF Tracks, Fresh
  <2> QED BY <1>5, <1>6, <2>1, TracksRead
<1>7. ASSUME t # None, NEW e \in Maybe(Emails), NEW b \in BOOLEAN, n.pc = "g_answer",
             sessions[t].user # None, Identify(c, stranger, t, e, b)
      PROVE  \A d \in Calls : Tracks(call'[d], users')
  <2> DEFINE u == sessions[t].user
             f == (e = users[u].email)
             to == Known(stranger, u, e, b, f)
  <2>1. u \in Maybe(Users) /\ Resume(c, to) /\ f \in BOOLEAN /\ (f => users[u].email = e)
    BY <1>7 DEF UInv, AInv, SessionsOK, Cookies, Known, Identify
  <2> HIDE DEF u, f
  <2>2. /\ to.pc = "g_answer" /\ to.who = u /\ to.seen = e /\ to.fresh = f
    BY <1>4, <1>7, <2>1, KnownRecord
  <2> HIDE DEF to
  <2>3. Tracks(to, users)
    BY <2>1, <2>2 DEF Tracks
  <2> QED BY <1>5, <2>1, <2>3, TracksRead
<1>8. CASE n.pc # "g_answer"
  BY <1>1, <1>3, <1>6, <1>8 DEF Arrives
<1>9. CASE n.pc = "g_answer" /\ ~Resume(c, stranger)
  <2> DEFINE e == users[sessions[t].user].email
  <2>1. /\ t # None
        /\ \/ copies[t] # None /\ Identify(c, stranger, t, copies[t], TRUE)
           \/ sessions[t].live /\ Identify(c, stranger, t, e, FALSE)
    BY <1>1, <1>3, <1>9 DEF Arrives, Identify
  <2>2. t \in Tokens /\ sessions[t].user # None /\ copies[t] \in Maybe(Emails)
    BY <2>1 DEF Cookies, UInv, AInv, SessionsOK
  <2>3. e \in Maybe(Emails)
    BY <2>2 DEF UInv, AInv, SessionsOK, UsersType, Maybe
  <2> HIDE DEF e
  <2> QED BY <1>7, <1>9, <2>1, <2>2, <2>3
<1> QED BY <1>6, <1>8, <1>9

LEMMA OtherStepTracks ==
    ASSUME UInv, NEW c \in Calls, Step(c), ~Guard(c), ~CheckOther(c), ~StoreProfile(c)
    PROVE  \A d \in Calls : Tracks(call'[d], users')
<1>1. call[c] \in CallType /\ users \in UsersType
  BY DEF UInv, AInv
<1>2. CASE CheckAddress(c) \/ Answer(c) \/ Revoke(c) \/ VerifyCurrent(c)
  <2>1. \E pc \in {"conflict", "s_commit", "ok", "failed", "w_update", "unauthorized"} : Goto(c, pc)
    BY <1>2 DEF CheckAddress, Answer, Revoke, VerifyCurrent
  <2>2. call[c].pc \in {"s_check", "answer", "o_revoke", "w_verify"} /\ UNCHANGED users
    BY <1>2 DEF CheckAddress, Answer, Revoke, VerifyCurrent, Reads
  <2> QED BY <2>1, <2>2, TracksOther DEF Steps, Over
<1>3. CASE StoreSession(c)
  BY <1>3, TracksOther DEF StoreSession, Steps, Over
<1>4. CASE VerifyPassword(c)
  <2>1. CASE Goto(c, "unauthorized")
    BY <1>4, <2>1, TracksOther DEF VerifyPassword, Reads, Steps, Over
  <2>2. ASSUME NEW u \in Users, Resume(c, [call[c] EXCEPT !.pc = "c_read", !.who = u])
        PROVE  \A d \in Calls : Tracks(call'[d], users')
    <3>1. Resume(c, Taking(call[c], "c_read", u)) /\ UNCHANGED users /\ call[c].pc = "l_verify"
      BY <1>4, <2>2 DEF Taking, VerifyPassword, Reads
    <3>2. Tracks(Taking(call[c], "c_read", u), users)
      <4>1. call[c].route # "update" /\ "c_read" \in Steps
        BY <3>1 DEF UInv, Tracks, Steps
      <4> QED BY <1>1, <4>1, TakingRecord DEF Tracks
    <3> QED BY <3>1, <3>2, TracksRead
  <2> QED BY <1>4, <2>1, <2>2 DEF VerifyPassword
<1>5. CASE ReadAccount(c)
  <2> DEFINE e == users[call[c].who].email
  <2>1. Resume(c, Seeing(call[c], "c_store", e)) /\ UNCHANGED users /\ call[c].pc = "c_read"
    BY <1>5 DEF Seeing, ReadAccount, Reads
  <2>2. e \in Maybe(Emails)
    BY <1>1, <2>1 DEF UInv, AInv, CallOK, Named, Acting, CallType, UsersType, Maybe
  <2> HIDE DEF e
  <2>3. Tracks(Seeing(call[c], "c_store", e), users)
    <3>1. call[c].route # "update" /\ "c_store" \in Steps
      BY <2>1 DEF UInv, Tracks, Steps
    <3> QED BY <1>1, <2>2, <3>1, SeeingRecord DEF Tracks
  <2> QED BY <2>1, <2>3, TracksRead
<1>6. CASE CreateAccount(c)
  <2>1. CASE Goto(c, "failed") /\ Reads
    BY <1>6, <2>1, TracksOther DEF CreateAccount, Reads, Steps, Over
  <2>2. ASSUME NEW u \in Users, Wrote(c, [call[c] EXCEPT !.pc = "c_read", !.who = u])
        PROVE  \A d \in Calls : Tracks(call'[d], users')
    <3>1. Wrote(c, Taking(call[c], "c_read", u)) /\ call[c].pc = "s_commit"
      BY <1>6, <2>2 DEF Taking, CreateAccount
    <3>2. Tracks(Taking(call[c], "c_read", u), users')
      <4>1. call[c].route # "update" /\ "c_read" \in Steps
        BY <3>1 DEF UInv, Tracks, Steps
      <4> QED BY <1>1, <4>1, TakingRecord DEF Tracks
    <3>3. users' \in UsersType
      BY <1>6, CreateAccountKeeps DEF UInv, AInv
    <3> QED BY <3>1, <3>2, <3>3, TracksWrite
  <2> QED BY <1>6, <2>1, <2>2 DEF CreateAccount
<1>7. CASE StorePassword(c)
  <2>1. Wrote(c, Moved(Idle, "ok"))
    BY <1>7 DEF StorePassword, At, Moved, Over
  <2>2. users' \in UsersType
    BY <1>7, StorePasswordKeeps DEF UInv, AInv
  <2> QED BY <2>1, <2>2, TracksOver, TracksWrite DEF Over
<1> QED BY <1>2, <1>3, <1>4, <1>5, <1>6, <1>7 DEF Step

LEMMA UpdateStepTracks ==
    ASSUME UInv, NEW c \in Calls, Guard(c) \/ CheckOther(c) \/ StoreProfile(c)
    PROVE  \A d \in Calls : Tracks(call'[d], users')
<1>1. call[c] \in CallType /\ Tracks(call[c], users)
  BY DEF UInv, AInv
<1>2. CASE Guard(c)
  <2>1. UNCHANGED users /\ call[c].pc = "g_answer"
    BY <1>2 DEF Guard, Reads
  <2>2. \E pc \in Over : Goto(c, pc)
        \/ /\ call[c].route = "update" /\ call[c].email = call[c].seen /\ Goto(c, "p_update")
        \/ /\ call[c].route = "update" /\ call[c].email # call[c].seen /\ Goto(c, "p_check")
        \/ /\ call[c].route # "update" /\ Goto(c, "w_verify")
    BY <1>2 DEF Guard, Handled, Over
  <2>3. ASSUME NEW pc \in {"p_update", "p_check", "w_verify"},
               pc = "w_verify" <=> call[c].route # "update",
               pc = "p_check" => call[c].email # call[c].seen
        PROVE  Tracks(Moved(call[c], pc), users) /\ pc \in Steps
    <3>1. pc \in Steps
      BY DEF Steps
    <3> DEFINE to == Moved(call[c], pc)
    <3>2. /\ to.pc = pc /\ to.route = call[c].route /\ to.who = call[c].who
          /\ to.seen = call[c].seen /\ to.email = call[c].email
          /\ to.calm = call[c].calm /\ to.fresh = call[c].fresh
      BY <1>1, <3>1, MovedRecord
    <3> HIDE DEF to
    <3>3. Tracks(to, users)
      BY <1>1, <2>3, <3>2 DEF Tracks
    <3> QED BY <3>1, <3>3 DEF to
  <2> QED BY <2>1, <2>2, <2>3, TracksGoto DEF Over, Steps
<1>3. CASE CheckOther(c)
  <2>1. UNCHANGED users /\ call[c].pc = "p_check"
    BY <1>3 DEF CheckOther, Reads
  <2>2. Tracks(Moved(call[c], "p_update"), users)
    BY <1>1, <2>1, MovedRecord DEF Tracks, Steps
  <2> QED BY <1>3, <2>1, <2>2, TracksGoto DEF CheckOther, Over, Steps
<1>4. CASE StoreProfile(c)
  <2>1. CASE Wrote(c, At(c, "ok"))
    <3>1. Wrote(c, Moved(Idle, "ok"))
      BY <2>1 DEF At, Moved, Over
    <3>2. users' \in UsersType
      BY <1>4, StoreProfileKeeps DEF UInv, AInv
    <3> QED BY <3>1, <3>2, TracksOver, TracksWrite DEF Over
  <2>2. CASE (Goto(c, "ok") \/ Goto(c, "failed")) /\ Reads
    BY <2>2, TracksGoto DEF Reads, Over, Steps
  <2> QED BY <1>4, <2>1, <2>2 DEF StoreProfile
<1> QED BY <1>2, <1>3, <1>4

LEMMA FailTracks ==
    ASSUME UInv, NEW c \in Calls, Fail(c) PROVE \A d \in Calls : Tracks(call'[d], users')
BY TracksGoto DEF Fail, Reads, Over, Steps

LEMMA UInvAlways == Spec => []UInv
<1>1. Init => UInv
  BY InitHolds, IdleFields DEF Init, UInv, Tracks
<1>2. UInv /\ [Next]_vars => UInv'
  <2>1. ASSUME UInv, [Next]_vars PROVE AInv'
    BY <2>1, StepKeeps DEF UInv
  <2>2. ASSUME UInv, Next PROVE \A d \in Calls : Tracks(call'[d], users')
    BY <2>2, ArriveTracks, OtherStepTracks, UpdateStepTracks, FailTracks DEF Next, CopyLost, UInv, Step
  <2>3. ASSUME UInv, UNCHANGED vars PROVE \A d \in Calls : Tracks(call'[d], users')
    BY <2>3 DEF vars, UInv
  <2> QED BY <2>1, <2>2, <2>3 DEF UInv
<1> QED BY <1>1, <1>2, PTL DEF Spec

\* An update that answers has moved its own request, and no other request is moved.
LEMMA OnlyItsOwn ==
    ASSUME UInv, NEW c \in Calls, Undisturbed(c), Next, call'[c].pc \in {"ok", "conflict"}
    PROVE  Guard(c) \/ CheckOther(c) \/ StoreProfile(c)
<1>1. call[c] \in CallType /\ call[c].pc \in {"g_answer", "p_check", "p_update"}
  BY DEF UInv, AInv, Undisturbed, Tracks
<1>2. call'[c].pc # call[c].pc
  BY <1>1
<1>3. ASSUME NEW d \in Calls, NEW to, Resume(d, to) PROVE d = c
  BY <1>2, <1>3 DEF Resume, UInv, AInv
<1>4. ASSUME NEW d \in Calls, NEW to, Wrote(d, to) PROVE d = c
  BY <1>1, <1>2, <1>4 DEF Wrote, CallType
<1>5. ASSUME NEW d \in Calls, Arrive(d) PROVE FALSE
  <2>1. PICK t \in Cookies, n \in CallType : Arrives(d, t, n)
    BY <1>5, ArrivalIsFresh
  <2>2. d = c /\ call[d].pc = "idle"
    BY <1>3, <2>1 DEF Arrives
  <2> QED BY <1>1, <2>2
<1>6. ASSUME NEW d \in Calls, Fail(d) PROVE FALSE
  <2>1. d = c /\ Goto(c, "failed")
    BY <1>3, <1>6 DEF Fail, Goto
  <2>2. call'[c].pc = "failed"
    BY <2>1, IdleType, IdleFields, MovedRecord DEF Goto, Resume, At, Moved, UInv, AInv, Over, Steps
  <2> QED BY <2>2
<1>7. ASSUME NEW d \in Calls, Step(d) PROVE d = c
  BY <1>3, <1>4, <1>7 DEF Step, CheckAddress, CreateAccount, VerifyPassword, ReadAccount,
     StoreSession, Answer, Revoke, Guard, CheckOther, StoreProfile, VerifyCurrent,
     StorePassword, Goto
<1>8. Step(c)
  BY <1>2, <1>5, <1>6, <1>7 DEF Next, CopyLost
<1> QED BY <1>1, <1>8 DEF Step, CheckAddress, CreateAccount, VerifyPassword, ReadAccount,
                         StoreSession, Answer, Revoke, VerifyCurrent, StorePassword

\* A step of a request to somewhere
LEMMA GotoLands ==
    ASSUME UInv, NEW c \in Calls, NEW pc \in Steps, Goto(c, pc) PROVE call'[c].pc = pc
<1>1. call'[c] = Moved(call[c], pc) \/ call'[c] = Moved(Idle, pc)
  BY DEF Goto, Resume, At, Moved, UInv, AInv
<1> QED BY <1>1, IdleType, MovedRecord DEF UInv, AInv

LEMMA UpdateEndsExactly ==
    ASSUME UInv, NEW c \in Calls, Undisturbed(c), Next
    PROVE  /\ call'[c].pc = "ok" => users'[call[c].who].email = call[c].email
           /\ call'[c].pc = "conflict" =>
                 \E u \in Users \ {call[c].who} : users[u].email = call[c].email
<1> SUFFICES ASSUME call'[c].pc \in {"ok", "conflict"}
             PROVE  /\ call'[c].pc = "ok" => users'[call[c].who].email = call[c].email
                    /\ call'[c].pc = "conflict" =>
                          \E u \in Users \ {call[c].who} : users[u].email = call[c].email
  OBVIOUS
<1>1. Tracks(call[c], users) /\ CallOK(call[c], users) /\ call[c] \in CallType
      /\ call[c].route = "update" /\ call[c].calm /\ call[c].fresh
  BY DEF UInv, AInv, Undisturbed
<1>2. "p_check" \in Steps /\ "p_update" \in Steps /\ "conflict" \in Steps
      /\ "unauthorized" \in Steps /\ "forbidden" \in Steps /\ "failed" \in Steps
  BY DEF Steps, Over
<1>3. CASE Guard(c)
  <2>1. \E pc \in {"unauthorized", "forbidden", "p_check", "p_update"} : Goto(c, pc)
    BY <1>1, <1>3 DEF Guard, Handled
  <2> QED BY <1>2, <2>1, GotoLands
<1>4. CASE CheckOther(c)
  <2>1. call[c].pc = "p_check" /\ (Goto(c, "p_update") \/ Taken(call[c].email))
    BY <1>4 DEF CheckOther
  <2>2. ~Goto(c, "p_update") /\ call'[c].pc = "conflict"
    BY <1>2, <1>4, GotoLands DEF CheckOther
  <2>3. call[c].who # None /\ users[call[c].who].email # call[c].email
    BY <1>1, <2>1 DEF Tracks, CallOK, Named, Acting
  <2> QED BY <2>1, <2>2, <2>3 DEF Taken
<1>5. CASE StoreProfile(c)
  <2>1. call[c].pc = "p_update" /\ call[c].who \in Users
        /\ users[call[c].who].email = call[c].seen
    BY <1>1, <1>5 DEF StoreProfile, Tracks, CallOK, Named, Acting, CallType, Maybe
  <2>2. call'[c].pc # "conflict"
    <3>1. CASE Wrote(c, At(c, "ok"))
      <4>1. call'[c] = Moved(Idle, "ok") /\ "ok" \in Steps
        BY <3>1 DEF Wrote, At, Moved, Over, Steps
      <4> QED BY <4>1, IdleType, MovedRecord
    <3>2. CASE Goto(c, "ok") \/ Goto(c, "failed")
      BY <1>2, <3>2, GotoLands DEF Steps, Over
    <3> QED BY <1>5, <3>1, <3>2 DEF StoreProfile
  <2>3. CASE Goto(c, "failed")
    BY <1>2, <2>2, <2>3, GotoLands
  <2>4. CASE ~Goto(c, "failed")
    BY <1>5, <2>1, <2>2, <2>4 DEF StoreProfile, Reads, UInv, AInv, UsersType
  <2> QED BY <2>3, <2>4
<1> QED BY <1>3, <1>4, <1>5, OnlyItsOwn

\* An update that nothing disturbs and whose session holds the address the account has
\* leaves the address that was asked for when it answers 200, and answers 409 only to an
\* address that another account has (profile.ts:98-146).
THEOREM UpdateAnswersExactly == Spec => UpdateIsExact
<1>1. UInv /\ [Next]_vars =>
        [\A c \in Calls : Undisturbed(c) =>
            /\ call'[c].pc = "ok" => users'[call[c].who].email = call[c].email
            /\ call'[c].pc = "conflict" =>
                  \E u \in Users \ {call[c].who} : users[u].email = call[c].email]_vars
  BY UpdateEndsExactly
<1> QED BY <1>1, UInvAlways, PTL DEF Spec, UpdateIsExact
=================================================================================
