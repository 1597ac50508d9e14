---------------------------- MODULE Sessions_proofs ----------------------------
EXTENDS Revocation, TLAPS

CallInv(c) == CarriesActive(c) /\ HasRow(c) /\ KnowsEnds(c)

StoreInv ==
    \A t \in Tokens :
        /\ cache[t].status = "ACTIVE"
        /\ cache[t].ttl > 0 \/ held[t] => row[t] # "none"
        /\ row[t] # "none" => owner[t] # Nobody
        /\ owner[t] = Nobody => life[t] = Ttl

\* The invariant, cut into a part about each token and one about each call.
LEMMA InvParts ==
  SessionInv <=> TypeOK /\ StoreInv /\ TokensAreFresh /\ \A r \in Reqs : CallInv(call[r])
  BY DEF SessionInv, CopiesSayActive, CopiesHaveRows, EndsStand, StoreInv, CallInv

\* A call that is over satisfies whatever the invariant says of a call.
LEMMA IdleType == Idle \in Call /\ CallInv(Idle)
  BY SessionConstants DEF Idle, Call, Steps, Status, Reasons, CallInv,
     CarriesActive, HasRow, KnowsEnds, Filling, TokenSteps

\* An absent key is well typed.
LEMMA NoEntryType == NoEntry \in Entry
  BY SessionConstants DEF NoEntry, Entry, Status

\* What the stores record about a token only advances.
Advance ==
    \A t \in Tokens :
        /\ owner[t] # Nobody => owner'[t] = owner[t]
        /\ row[t] # "none" => row'[t] # "none"
        /\ row[t] = "revoked" => row'[t] = "revoked"
        /\ life'[t] <= life[t]
        /\ owner'[t] = Nobody => owner[t] = Nobody /\ life'[t] = life[t]

\* What the invariant says of a call depends on nothing but these values.
LEMMA Frame ==
  ASSUME TypeOK, TypeOK', Advance, NEW c \in Call, CallInv(c)
  PROVE  CallInv(c)'
<1>1. CASE c.tok \in Tokens
  BY <1>1, SessionConstants
  DEF TypeOK, Advance, Call, CallInv, CarriesActive, HasRow, KnowsEnds, Filling,
      TokenSteps, Steps
<1>2. CASE c.tok \notin Tokens
  BY <1>2
  DEF CallInv, CarriesActive, HasRow, KnowsEnds, Filling, TokenSteps, Steps
<1>3. QED
  BY <1>1, <1>2

StoreTypes ==
    /\ status \in [Users -> Status]
    /\ owner \in [Tokens -> Users \cup {Nobody}]
    /\ row \in [Tokens -> {"none", "active", "revoked"}]
    /\ life \in [Tokens -> -1..Ttl]
    /\ cache \in [Tokens -> Entry]
    /\ held \in [Tokens -> BOOLEAN]
    /\ answer \in [Reqs -> Answers]

\* A call that goes on from c keeps the invariant if c fits in it.
LEMMA ResumeInv ==
  ASSUME SessionInv, StoreTypes', StoreInv', Advance, TokensAreFresh',
         NEW r \in Reqs, NEW c \in Call, Resume(r, c), CallInv(c)'
  PROVE  SessionInv' /\ Advance
<1>1. TypeOK'
  BY InvParts DEF StoreTypes, TypeOK, Resume
<1>2. ASSUME NEW q \in Reqs PROVE CallInv(call[q])'
  <2>1. CASE q = r
    BY <2>1, InvParts DEF Resume, TypeOK
  <2>2. CASE q # r
    <3>1. call'[q] = call[q] /\ call[q] \in Call
      BY <2>2, InvParts DEF Resume, TypeOK
    <3>2. CallInv(call[q])
      BY InvParts
    <3>3. QED
      BY <3>1, <3>2, <1>1, Frame, InvParts
  <2>3. QED
    BY <2>1, <2>2
<1>3. QED
  BY <1>1, <1>2
  DEF SessionInv, TokensAreFresh, StoreInv, CallInv, CopiesSayActive, CopiesHaveRows, EndsStand

\* No token becomes fresh when a call goes on to another step than the insert.
RowsByCall(r) ==
    \A t \in Tokens : row[t] = "none" =>
        row'[t] = "none" \/ (call[r].pc = "c_insert" /\ call[r].tok = t)

\* A call that is not inserting takes no token from one that is.
LEMMA FreshElse ==
  ASSUME SessionInv, NEW r \in Reqs, NEW c \in Call, Resume(r, c), RowsByCall(r),
         c.pc # "c_insert",
         c.pc \in TokenSteps =>
            \/ row[c.tok] # "none"
            \/ call[r].pc = "c_insert" /\ c.tok = call[r].tok
  PROVE  TokensAreFresh'
<1> SUFFICES ASSUME NEW q \in Reqs, NEW p \in Reqs, call'[q].pc = "c_insert"
             PROVE  /\ row'[call'[q].tok] = "none"
                    /\ p # q /\ call'[p].pc \in TokenSteps
                          => call'[p].tok # call'[q].tok
  BY DEF TokensAreFresh
<1>1. TypeOK /\ TokensAreFresh /\ \A x \in Reqs : HasRow(call[x])
  BY InvParts DEF CallInv
<1>2. /\ call'[r] = c
      /\ \A x \in Reqs : x # r => call'[x] = call[x]
      /\ q # r
  BY <1>1 DEF Resume, TypeOK
<1>3. /\ call[q].pc = "c_insert"
      /\ call[q].tok \in Tokens
      /\ row[call[q].tok] = "none"
      /\ call[r].pc \in TokenSteps => call[r].tok # call[q].tok
      /\ \A x \in Reqs : x # q /\ call[x].pc \in TokenSteps
                             => call[x].tok # call[q].tok
  BY <1>1, <1>2 DEF HasRow, TokensAreFresh, TokenSteps, Steps
<1>4. "c_insert" \in TokenSteps
  BY DEF TokenSteps, Steps
<1>5. row'[call'[q].tok] = "none"
  BY <1>2, <1>3, <1>4 DEF RowsByCall
<1>6. p # q /\ call'[p].pc \in TokenSteps => call'[p].tok # call'[q].tok
  BY <1>2, <1>3, <1>4
<1>7. QED
  BY <1>5, <1>6

\* A call that returns keeps the invariant if the stores do.
LEMMA ReturnInv ==
  ASSUME SessionInv, StoreTypes', StoreInv', Advance, NEW r \in Reqs, RowsByCall(r),
         Resume(r, Idle)
  PROVE  SessionInv' /\ Advance
<1>1. CallInv(Idle)'
  BY SessionConstants
  DEF Idle, CallInv, CarriesActive, HasRow, KnowsEnds, Filling, TokenSteps, Steps
<1>2. TokensAreFresh'
  BY IdleType, FreshElse DEF Idle, TokenSteps
<1>3. QED
  BY <1>1, <1>2, IdleType, ResumeInv

\* The stores unchanged, every end known stays known.
LEMMA SameStores ==
  ASSUME SessionInv, UNCHANGED <<stored, life, cache>>, answer' \in [Reqs -> Answers]
  PROVE  StoreTypes' /\ StoreInv' /\ Advance
<1>1. TypeOK /\ StoreInv
  BY InvParts
<1>2. QED
  BY <1>1 DEF stored, TypeOK, StoreTypes, StoreInv, Advance

\* A copy that says ACTIVE, of a session that has a row, may be written.
LEMMA PutEntry ==
  ASSUME SessionInv, NEW t \in Tokens, NEW e \in Entry,
         e.status = "ACTIVE", e.ttl > 0 => row[t] # "none",
         CachePut(t, e) \/ UNCHANGED cache,
         UNCHANGED <<status, owner, row, life>>,
         held' \in [Tokens -> BOOLEAN],
         \A s \in Tokens : held'[s] => held[s] \/ row[s] # "none",
         answer' \in [Reqs -> Answers]
  PROVE  StoreTypes' /\ StoreInv' /\ Advance
<1>1. TypeOK /\ StoreInv
  BY InvParts
<1>2. cache' \in [Tokens -> Entry]
  BY <1>1 DEF TypeOK, CachePut
<1> StoreTypes' /\ Advance
  BY <1>1, <1>2, SessionConstants DEF TypeOK, StoreTypes, Advance
<1>3. StoreInv'
  BY <1>1 DEF TypeOK, StoreInv, CachePut
<1>4. QED
  BY <1>3

\* Revoking rows loses none and revives none.
LEMMA MarkRow ==
  ASSUME SessionInv, row' \in [Tokens -> {"none", "active", "revoked"}],
         \A t \in Tokens : /\ row[t] # "none" => row'[t] # "none"
                           /\ row[t] = "revoked" => row'[t] = "revoked"
                           /\ row'[t] # "none" => owner[t] # Nobody,
         UNCHANGED <<status, owner, life, cache, held>>,
         answer' \in [Reqs -> Answers]
  PROVE  StoreTypes' /\ StoreInv' /\ Advance
<1>1. TypeOK /\ StoreInv
  BY InvParts
<1>2. StoreTypes' /\ Advance
  BY <1>1, SessionConstants DEF TypeOK, StoreTypes, Advance
<1>3. StoreInv'
  BY <1>1 DEF TypeOK, StoreInv
<1>4. QED
  BY <1>2, <1>3

\* Answers are well typed after a return or a start.
LEMMA AnswerType ==
  ASSUME SessionInv, NEW r \in Reqs, NEW a \in Answers,
         answer' = [answer EXCEPT ![r] = a]
  PROVE  answer' \in [Reqs -> Answers]
  BY InvParts DEF TypeOK

\* One field set at a time
WithPc(c, x) == [c EXCEPT !.pc = x]
WithTok(c, x) == [c EXCEPT !.tok = x]
WithSeen(c, x) == [c EXCEPT !.seen = x]

LEMMA SetPc == \A c \in Call, x \in Steps : WithPc(c, x) \in Call
  BY DEF Call, WithPc

LEMMA SetTok == \A c \in Call, x \in Tokens : WithTok(c, x) \in Call
  BY DEF Call, WithTok

LEMMA SetSeen == \A c \in Call, x \in Status : WithSeen(c, x) \in Call
  BY DEF Call, WithSeen

\* What createSession goes on with is a call.
Inserting(t, seen) == [Idle EXCEPT !.pc = "c_insert", !.tok = t, !.seen = seen]

LEMMA InsertingType == \A t \in Tokens, s \in Status : Inserting(t, s) \in Call
<1> TAKE t \in Tokens, s \in Status
<1>1. Inserting(t, s) = WithSeen(WithTok(WithPc(Idle, "c_insert"), t), s)
  BY DEF Inserting, WithPc, WithTok, WithSeen
<1>2. QED
  BY <1>1, IdleType, SetPc, SetTok, SetSeen DEF Steps

\* CreateRead preserves the invariant.
LEMMA CreateReadInv ==
  ASSUME SessionInv, NEW r \in Reqs, NEW u \in Users, CreateRead(r, u)
  PROVE  SessionInv' /\ Advance
<1> USE InvParts
<1>1. CASE Barred(status[u]) /\ Return(r, "refused") /\ UNCHANGED owner
  <2>1. answer' \in [Reqs -> Answers]
    BY <1>1, AnswerType DEF Return, Answers
  <2>2. QED
    BY <1>1, <2>1, SameStores, ReturnInv DEF CreateRead, Return, stored, RowsByCall
<1>2. ASSUME NEW t \in Tokens, ~Barred(status[u]), owner[t] = Nobody,
             owner' = [owner EXCEPT ![t] = u],
             Start(r, [Idle EXCEPT !.pc = "c_insert", !.tok = t, !.seen = status[u]])
      PROVE  SessionInv' /\ Advance
  <2> PICK c : c = [Idle EXCEPT !.pc = "c_insert", !.tok = t, !.seen = status[u]]
    OBVIOUS
  <2>1. answer' \in [Reqs -> Answers]
    BY <1>2, AnswerType DEF Start, Answers
  <2>2. UNCHANGED <<status, row, life, cache, held>>
    BY DEF CreateRead
  <2>3. StoreTypes'
    BY <1>2, <2>1, <2>2 DEF TypeOK, StoreTypes
  <2>4. StoreInv'
    BY <1>2, <2>2, SessionConstants DEF TypeOK, StoreInv
  <2>5. Advance
    BY <1>2, <2>2, SessionConstants DEF TypeOK, Advance
  <2>6. StoreTypes' /\ StoreInv' /\ Advance
    BY <2>3, <2>4, <2>5
  <2>7. c \in Call /\ c.seen = "ACTIVE"
    <3>1. status[u] = "ACTIVE"
      BY <1>2 DEF TypeOK, Status, Barred
    <3>2. c = Inserting(t, "ACTIVE") /\ "ACTIVE" \in Status
      BY <3>1 DEF Inserting, Status
    <3>3. c \in Call
      BY <3>2, InsertingType
    <3>4. QED
      BY <3>1, <3>3 DEF Idle
  <2>8. CallInv(c)'
    BY <1>2, <2>7, SessionConstants
    DEF TypeOK, Idle, CallInv, CarriesActive, HasRow, KnowsEnds, Filling
  <2>9. TokensAreFresh'
    <3>1. /\ row[t] = "none"
          /\ \A q \in Reqs : call[q].pc \in TokenSteps => call[q].tok # t
      BY <1>2 DEF StoreInv, CallInv, HasRow
    <3>2. /\ call'[r] = c
          /\ \A q \in Reqs : q # r => call'[q] = call[q]
      BY <1>2 DEF Start, Resume, TypeOK
    <3>3. c.tok = t
      BY DEF Idle
    <3>4. "c_insert" \in TokenSteps
      BY DEF TokenSteps, Steps
    <3>5. SUFFICES ASSUME NEW q \in Reqs, NEW s \in Reqs, call'[q].pc = "c_insert"
                   PROVE  /\ row[call'[q].tok] = "none"
                          /\ s # q /\ call'[s].pc \in TokenSteps
                                => call'[s].tok # call'[q].tok
      BY <2>2 DEF TokensAreFresh
    <3>6. CASE q = r
      BY <3>1, <3>2, <3>3, <3>6
    <3>7. CASE q # r
      <4>1. call'[q] = call[q] /\ call[q].pc = "c_insert" /\ call[q].tok # t
        BY <3>1, <3>2, <3>4, <3>5, <3>7
      <4>2. row[call'[q].tok] = "none"
        BY <4>1 DEF TokensAreFresh
      <4>3. CASE s = r
        BY <3>2, <3>3, <4>1, <4>2, <4>3
      <4>4. CASE s # r
        <5>1. call'[s] = call[s]
          BY <3>2, <4>4
        <5>2. s # q /\ call[s].pc \in TokenSteps => call[s].tok # call[q].tok
          BY <4>1 DEF TokensAreFresh
        <5>3. QED
          BY <4>1, <4>2, <5>1, <5>2
      <4>5. QED
        BY <4>3, <4>4
    <3>8. QED
      BY <3>6, <3>7
  <2>10. QED
    BY <1>2, <2>6, <2>7, <2>8, <2>9, ResumeInv DEF Start
<1>3. QED
  BY <1>1, <1>2 DEF CreateRead

\* CreateInsert preserves the invariant.
LEMMA CreateInsertInv ==
  ASSUME SessionInv, NEW r \in Reqs, CreateInsert(r)
  PROVE  SessionInv' /\ Advance
<1> PICK c : c = [call[r] EXCEPT !.pc = "c_store"]
  OBVIOUS
<1>1. /\ call[r] \in Call /\ call[r].pc = "c_insert"
      /\ CallInv(call[r])
      /\ TypeOK
  BY InvParts DEF CreateInsert, TypeOK
<1>2. c \in Call
  BY <1>1 DEF Call, Steps
<1>3. call[r].tok \in Tokens /\ owner[call[r].tok] # Nobody
  BY <1>1 DEF CallInv, HasRow, TokenSteps, Steps
<1>4. /\ row' = [row EXCEPT ![call[r].tok] = "active"]
      /\ UNCHANGED <<status, owner, life, cache, held, answer>>
  BY DEF CreateInsert
<1>5. row[call[r].tok] = "none"
  BY <1>1, InvParts DEF TokensAreFresh
<1>6. StoreTypes' /\ StoreInv' /\ Advance
  BY <1>1, <1>3, <1>4, <1>5, MarkRow, InvParts DEF TypeOK, StoreInv
<1>7. /\ c.pc = "c_store" /\ c.tok = call[r].tok /\ c.seen = "ACTIVE"
      /\ c.began = call[r].began
      /\ row'[c.tok] = "active"
  BY <1>1, <1>3, <1>4 DEF Call, CallInv, CarriesActive, TypeOK
<1>8. CallInv(c)'
  BY <1>1, <1>3, <1>4, <1>5, <1>7 DEF CallInv, CarriesActive, HasRow, KnowsEnds, Filling
<1>9. RowsByCall(r)
  BY <1>1, <1>3, <1>4 DEF RowsByCall, TypeOK
<1>10. TokensAreFresh'
  BY <1>1, <1>2, <1>9, FreshElse DEF CreateInsert, Goto, Call
<1>11. QED
  BY <1>2, <1>6, <1>8, <1>10, ResumeInv DEF CreateInsert, Goto

\* CreateStore preserves the invariant.
LEMMA CreateStoreInv ==
  ASSUME SessionInv, NEW r \in Reqs, CreateStore(r)
  PROVE  SessionInv' /\ Advance
<1> DEFINE t == call[r].tok
           e == [ttl |-> Ttl, status |-> call[r].seen]
<1>1. /\ call[r] \in Call /\ call[r].pc = "c_store"
      /\ CallInv(call[r])
      /\ TypeOK
  BY InvParts DEF CreateStore, TypeOK
<1>2. t \in Tokens /\ row[t] # "none" /\ e \in Entry /\ e.status = "ACTIVE"
  BY <1>1, SessionConstants
  DEF CallInv, CarriesActive, HasRow, TokenSteps, Steps, Entry, Status
<1>3. Resume(r, Idle) /\ answer' \in [Reqs -> Answers]
  BY AnswerType DEF CreateStore, Return, Answers
<1>4. CachePut(t, e) \/ UNCHANGED cache
  BY DEF CreateStore, Rejected
<1>5. /\ held' \in [Tokens -> BOOLEAN]
      /\ \A s \in Tokens : held'[s] => held[s] \/ row[s] # "none"
  BY <1>1, <1>2 DEF CreateStore, TypeOK
<1>6. StoreTypes' /\ StoreInv' /\ Advance
  BY <1>2, <1>3, <1>4, <1>5, PutEntry DEF CreateStore
<1>7. QED
  BY <1>3, <1>6, ReturnInv DEF CreateStore, RowsByCall

\* ValidateGet preserves the invariant.
LEMMA ValidateGetInv ==
  ASSUME SessionInv, NEW r \in Reqs, NEW t \in Tokens, ValidateGet(r, t)
  PROVE  SessionInv' /\ Advance
<1>1. TypeOK /\ StoreInv /\ held[t]
  BY InvParts DEF ValidateGet
<1>2. PICK hit \in BOOLEAN :
         /\ hit => cache[t].ttl > 0
         /\ Start(r, [Idle EXCEPT !.pc = IF hit THEN "v_hit" ELSE "v_query",
                                   !.tok = t,
                                   !.seen = IF hit THEN cache[t].status ELSE @,
                                   !.stamp = IF hit THEN @ ELSE life[t],
                                   !.began = EndedNow(t)])
  BY DEF ValidateGet
<1>3. PICK c : c = [Idle EXCEPT !.pc = IF hit THEN "v_hit" ELSE "v_query",
                               !.tok = t,
                               !.seen = IF hit THEN cache[t].status ELSE @,
                               !.stamp = IF hit THEN @ ELSE life[t],
                               !.began = EndedNow(t)]
  OBVIOUS
<1>4. /\ c.pc = IF hit THEN "v_hit" ELSE "v_query"
      /\ c.tok = t
      /\ c.seen = "ACTIVE"
      /\ c.stamp = IF hit THEN -1 ELSE life[t]
      /\ c.began = EndedNow(t)
  BY <1>1, <1>3 DEF Idle, StoreInv
<1>5. EndedNow(t) \subseteq Reasons
  BY DEF EndedNow
<1>6. c \in Call
  <2>1. cache[t].status \in Status /\ life[t] \in -1..Ttl
    BY <1>1 DEF StoreInv, Status, TypeOK
  <2>2. QED
    BY <2>1, <1>5, <1>3, IdleType DEF Call, Steps
<1>7. StoreTypes' /\ StoreInv' /\ Advance
  BY <1>2, AnswerType, SameStores DEF ValidateGet, Start, Answers
<1>8. row[t] # "none" /\ owner[t] # Nobody
  BY <1>1 DEF StoreInv
<1>9. UNCHANGED <<life, row, owner>>
  BY DEF ValidateGet, stored
<1>10. CarriesActive(c)' /\ HasRow(c)'
  BY <1>4, <1>8, <1>9 DEF CarriesActive, HasRow, Filling
<1>11. KnowsEnds(c)'
  BY <1>1, <1>4, <1>9, SessionConstants DEF KnowsEnds, Filling, EndedNow, TypeOK
<1>12. c.pc # "c_insert" /\ RowsByCall(r)
  BY <1>4, <1>9 DEF RowsByCall
<1>13. Resume(r, c)
  BY <1>2, <1>3 DEF Start
<1>14. row[c.tok] # "none"
  BY <1>4, <1>8
<1>15. TokensAreFresh'
  BY <1>6, <1>12, <1>13, <1>14, FreshElse
<1>16. QED
  BY <1>6, <1>7, <1>10, <1>11, <1>15, <1>13, ResumeInv DEF CallInv

\* A call that returns, or that goes on to step pc of validateSession, without a
\* change to any store.
LEMMA ReturnSame ==
  ASSUME SessionInv, NEW r \in Reqs, NEW a \in Answers, Return(r, a),
         UNCHANGED <<stored, life, cache>>
  PROVE  SessionInv' /\ Advance
<1>1. answer' \in [Reqs -> Answers] /\ Resume(r, Idle)
  BY AnswerType DEF Return
<1>2. RowsByCall(r)
  BY DEF RowsByCall, stored
<1>3. QED
  BY <1>1, <1>2, SameStores, ReturnInv

\* A call that goes on with what it already knew keeps the invariant.
LEMMA ResumeSame ==
  ASSUME SessionInv, NEW r \in Reqs, NEW c \in Call, Resume(r, c),
         UNCHANGED <<stored, life, cache, answer>>,
         c.pc \notin {"c_insert"},
         c.pc \in TokenSteps => row[c.tok] # "none",
         CallInv(c)
  PROVE  SessionInv' /\ Advance
<1>1. answer' \in [Reqs -> Answers]
  BY InvParts DEF TypeOK
<1>2. StoreTypes' /\ StoreInv' /\ Advance
  BY <1>1, SameStores
<1>3. TokensAreFresh'
  <2>1. RowsByCall(r) /\ c.pc # "c_insert"
    BY DEF RowsByCall, stored
  <2>2. QED
    BY <2>1, FreshElse
<1>4. CallInv(c)'
  BY DEF CallInv, CarriesActive, HasRow, KnowsEnds, stored
<1>5. QED
  BY <1>2, <1>3, <1>4, ResumeInv

\* ValidateHit preserves the invariant.
LEMMA ValidateHitInv ==
  ASSUME SessionInv, NEW r \in Reqs, ValidateHit(r)
  PROVE  SessionInv' /\ Advance
<1>1. /\ call[r] \in Call /\ call[r].pc = "v_hit" /\ CallInv(call[r])
      /\ UNCHANGED <<stored, life, cache>>
  BY InvParts DEF ValidateHit, TypeOK
<1>2. CASE CopyExpired(call[r].tok) /\ Goto(r, "v_purge") /\ UNCHANGED answer
  <2>1. PICK c : c = [call[r] EXCEPT !.pc = "v_purge"]
    OBVIOUS
  <2>2. /\ c \in Call /\ c.pc = "v_purge" /\ c.tok = call[r].tok
        /\ c.began = call[r].began
    BY <1>1, <2>1 DEF Call, Steps
  <2>3. CallInv(c)
    BY <1>1, <1>2, <2>2
    DEF CopyExpired, CallInv, CarriesActive, HasRow, KnowsEnds, Filling, TokenSteps,
        Steps
  <2>4. row[c.tok] # "none"
    BY <1>1, <2>2 DEF CallInv, HasRow
  <2>5. QED
    BY <1>1, <1>2, <2>1, <2>2, <2>3, <2>4, ResumeSame DEF Goto
<1>3. CASE Return(r, IF Barred(call[r].seen) THEN "refused" ELSE "cached")
  <2>1. (IF Barred(call[r].seen) THEN "refused" ELSE "cached") \in Answers
    BY DEF Answers
  <2>2. QED
    BY <1>1, <1>3, <2>1, ReturnSame
<1>4. QED
  BY <1>2, <1>3 DEF ValidateHit

\* ValidatePurge preserves the invariant.
LEMMA ValidatePurgeInv ==
  ASSUME SessionInv, NEW r \in Reqs, ValidatePurge(r)
  PROVE  SessionInv' /\ Advance
<1> DEFINE t == call[r].tok
<1>1. /\ call[r] \in Call /\ call[r].pc = "v_purge" /\ CallInv(call[r])
      /\ UNCHANGED <<stored, life>>
      /\ CachePut(t, NoEntry) \/ UNCHANGED cache
      /\ TypeOK
  BY InvParts DEF ValidatePurge, Rejected, CacheDelete, TypeOK
<1>2. t \in Tokens /\ row[t] # "none"
  BY <1>1 DEF CallInv, HasRow, TokenSteps, Steps
<1>3. answer' \in [Reqs -> Answers]
  BY <1>1, AnswerType DEF ValidatePurge, Return, Answers, TypeOK
<1>4. StoreTypes' /\ StoreInv' /\ Advance
  <2>1. NoEntry.status = "ACTIVE" /\ UNCHANGED <<status, owner, row, life>>
        /\ held' \in [Tokens -> BOOLEAN] /\ UNCHANGED held
    BY <1>1 DEF NoEntry, stored, TypeOK
  <2>2. QED
    BY <1>1, <1>2, <1>3, <2>1, NoEntryType, PutEntry
<1>5. RowsByCall(r)
  BY <1>1 DEF stored, RowsByCall
<1>6. CASE Return(r, "ended")
  BY <1>4, <1>5, <1>6, ReturnInv DEF Return
<1>7. CASE Resume(r, [call[r] EXCEPT !.pc = "v_query", !.stamp = life[t]])
  <2>1. PICK c : c = [call[r] EXCEPT !.pc = "v_query", !.stamp = life[t]]
    OBVIOUS
  <2>2. /\ c \in Call /\ c.pc = "v_query" /\ c.tok = t
        /\ c.began = call[r].began /\ c.stamp = life[t]
    BY <1>1, <1>2, <2>1 DEF Call, Steps, TypeOK
  <2>3. CallInv(c)'
    BY <1>1, <1>2, <2>2, SessionConstants
    DEF CallInv, CarriesActive, HasRow, KnowsEnds, Filling, TokenSteps, Steps,
        stored, TypeOK
  <2>4. c.pc # "c_insert" /\ row[c.tok] # "none"
    BY <1>2, <2>2
  <2>5. TokensAreFresh'
    BY <1>5, <1>7, <2>1, <2>2, <2>4, FreshElse
  <2>6. QED
    BY <1>4, <1>7, <2>1, <2>2, <2>3, <2>5, ResumeInv
<1>8. QED
  BY <1>6, <1>7 DEF ValidatePurge

\* ValidateQuery preserves the invariant.
LEMMA ValidateQueryInv ==
  ASSUME SessionInv, NEW r \in Reqs, ValidateQuery(r)
  PROVE  SessionInv' /\ Advance
<1> DEFINE t == call[r].tok
<1>1. /\ call[r] \in Call /\ call[r].pc = "v_query" /\ CallInv(call[r])
      /\ UNCHANGED <<stored, life, cache>>
      /\ TypeOK
  BY InvParts DEF ValidateQuery, TypeOK
<1>2. CASE Return(r, "ended")
  BY <1>1, <1>2, ReturnSame DEF Answers
<1>3. ASSUME RowFound(t, call[r].stamp), UNCHANGED answer,
             Resume(r, [call[r] EXCEPT !.pc = "v_found", !.seen = status[owner[t]]])
      PROVE  SessionInv' /\ Advance
  <2>1. PICK c : c = [call[r] EXCEPT !.pc = "v_found", !.seen = status[owner[t]]]
    OBVIOUS
  <2>2. t \in Tokens /\ row[t] = "active" /\ call[r].stamp > 0 /\ owner[t] \in Users
    BY <1>1, <1>3, SessionConstants
    DEF RowFound, CallInv, HasRow, TokenSteps, Steps, TypeOK
  <2>3. status[owner[t]] \in Status
    BY <1>1, <2>2 DEF TypeOK
  <2>4. /\ c \in Call /\ c.pc = "v_found" /\ c.tok = t
        /\ c.began = call[r].began
    BY <1>1, <2>1, <2>3 DEF Call, Steps
  <2>5. c.began = {}
    BY <1>1, <2>2, <2>4 DEF CallInv, KnowsEnds, Call, Reasons
  <2>6. CallInv(c)
    BY <1>1, <2>2, <2>4, <2>5
    DEF CallInv, CarriesActive, HasRow, KnowsEnds, Filling, TokenSteps, Steps
  <2>7. c.pc \notin {"c_insert"} /\ row[c.tok] # "none"
    BY <2>2, <2>4
  <2>8. QED
    BY <1>1, <1>3, <2>1, <2>4, <2>6, <2>7, ResumeSame
<1>4. QED
  BY <1>2, <1>3 DEF ValidateQuery

\* ValidateFound preserves the invariant.
LEMMA ValidateFoundInv ==
  ASSUME SessionInv, NEW r \in Reqs, ValidateFound(r)
  PROVE  SessionInv' /\ Advance
<1> DEFINE left == life[call[r].tok]
           shown == IF left > 1 THEN left ELSE 1
<1>1. /\ call[r] \in Call /\ call[r].pc = "v_found" /\ CallInv(call[r])
      /\ UNCHANGED <<stored, life, cache>>
      /\ TypeOK
  BY InvParts DEF ValidateFound, TypeOK
<1>2. CASE Return(r, "refused")
  BY <1>1, <1>2, ReturnSame DEF Answers
<1>3. ASSUME ~Barred(call[r].seen), UNCHANGED answer,
             Resume(r, [call[r] EXCEPT !.pc = "v_store", !.stamp = shown])
      PROVE  SessionInv' /\ Advance
  <2>1. PICK c : c = [call[r] EXCEPT !.pc = "v_store", !.stamp = shown]
    OBVIOUS
  <2>2. /\ call[r].tok \in Tokens /\ row[call[r].tok] # "none"
        /\ call[r].began = {} /\ call[r].seen = "ACTIVE"
    BY <1>1, <1>3
    DEF CallInv, HasRow, KnowsEnds, Filling, TokenSteps, Steps, Barred, Call, Status
  <2>3. shown \in 1..Ttl
    BY <1>1, <2>2, SessionConstants DEF TypeOK
  <2>4. /\ c \in Call /\ c.pc = "v_store" /\ c.tok = call[r].tok
        /\ c.began = {} /\ c.seen = "ACTIVE" /\ c.stamp > 0
    <3>1. PICK s \in 1..Ttl : s = shown
      BY <2>3
    <3>2. s \in -1..Ttl /\ s > 0
      BY SessionConstants
    <3>3. c = [call[r] EXCEPT !.pc = "v_store", !.stamp = s]
      BY <2>1, <3>1
    <3>4. QED
      BY <1>1, <2>2, <3>2, <3>3 DEF Call, Steps
  <2>5. CallInv(c)
    BY <1>1, <2>2, <2>4
    DEF CallInv, CarriesActive, HasRow, KnowsEnds, Filling, TokenSteps, Steps
  <2>6. c.pc \notin {"c_insert"} /\ row[c.tok] # "none"
    BY <2>2, <2>4
  <2>7. QED
    BY <1>1, <1>3, <2>1, <2>4, <2>5, <2>6, ResumeSame
<1>4. QED
  BY <1>2, <1>3 DEF ValidateFound

\* ValidateStore preserves the invariant.
LEMMA ValidateStoreInv ==
  ASSUME SessionInv, NEW r \in Reqs, ValidateStore(r)
  PROVE  SessionInv' /\ Advance
<1> DEFINE t == call[r].tok
           e == [ttl |-> call[r].stamp, status |-> call[r].seen]
<1>1. /\ call[r] \in Call /\ call[r].pc = "v_store" /\ CallInv(call[r])
      /\ UNCHANGED <<status, owner, row, life, held>>
      /\ CachePut(t, e) \/ UNCHANGED cache
      /\ TypeOK
  BY InvParts DEF ValidateStore, Rejected, TypeOK, stored
<1>2. t \in Tokens /\ row[t] # "none" /\ e.status = "ACTIVE"
  BY <1>1 DEF CallInv, CarriesActive, HasRow, Filling, TokenSteps, Steps
<1>3. e \in Entry
  BY <1>1, SessionConstants DEF CallInv, KnowsEnds, Entry, Call
<1>4. Resume(r, Idle) /\ answer' \in [Reqs -> Answers]
  BY AnswerType DEF ValidateStore, Return, Answers
<1>5. StoreTypes' /\ StoreInv' /\ Advance
  <2>1. /\ held' \in [Tokens -> BOOLEAN]
        /\ \A s \in Tokens : held'[s] => held[s] \/ row[s] # "none"
    BY <1>1 DEF TypeOK
  <2>2. QED
    BY <1>1, <1>2, <1>3, <1>4, <2>1, PutEntry
<1>6. QED
  BY <1>1, <1>4, <1>5, ReturnInv DEF RowsByCall

\* A DEL that reaches Redis, or that may have been rejected.
LEMMA DeleteEntry ==
  ASSUME SessionInv, NEW t \in Tokens, CachePut(t, NoEntry) \/ UNCHANGED cache,
         UNCHANGED <<stored, life>>, answer' \in [Reqs -> Answers]
  PROVE  StoreTypes' /\ StoreInv' /\ Advance
<1>1. UNCHANGED <<status, owner, row, life, held>>
  BY DEF stored
<1>2. NoEntry.status = "ACTIVE" /\ ~(NoEntry.ttl > 0)
  BY DEF NoEntry
<1>3. /\ held' \in [Tokens -> BOOLEAN]
      /\ \A s \in Tokens : held'[s] => held[s] \/ row[s] # "none"
  BY <1>1, InvParts DEF TypeOK
<1>4. QED
  BY <1>1, <1>2, <1>3, NoEntryType, PutEntry

\* RevokeDelete preserves the invariant.
LEMMA RevokeDeleteInv ==
  ASSUME SessionInv, NEW r \in Reqs, NEW t \in Tokens, RevokeDelete(r, t)
  PROVE  SessionInv' /\ Advance
<1>1. /\ held[t] /\ UNCHANGED <<stored, life>>
      /\ CachePut(t, NoEntry) \/ UNCHANGED cache
      /\ TypeOK /\ StoreInv
  BY InvParts DEF RevokeDelete, Rejected, CacheDelete
<1>2. answer' \in [Reqs -> Answers]
  BY AnswerType DEF RevokeDelete, Start, Return, Answers
<1>3. StoreTypes' /\ StoreInv' /\ Advance
  BY <1>1, <1>2, DeleteEntry
<1>4. RowsByCall(r)
  BY <1>1 DEF stored, RowsByCall
<1>5. CASE Return(r, "error")
  BY <1>3, <1>4, <1>5, ReturnInv DEF Return
<1>6. CASE Start(r, [Idle EXCEPT !.pc = "r_update", !.tok = t])
  <2>1. PICK c : c = [Idle EXCEPT !.pc = "r_update", !.tok = t]
    OBVIOUS
  <2>2. c \in Call /\ c.pc = "r_update" /\ c.tok = t /\ c.began = {}
    BY <2>1, IdleType DEF Idle, Call, Steps
  <2>3. row[t] # "none" /\ owner[t] # Nobody
    BY <1>1 DEF StoreInv
  <2>4. CallInv(c)'
    BY <1>1, <2>2, <2>3 DEF CallInv, CarriesActive, HasRow, KnowsEnds, Filling, stored
  <2>5. TokensAreFresh'
    <3>1. c.pc # "c_insert" /\ row[c.tok] # "none" /\ Resume(r, c)
      BY <1>6, <2>1, <2>2, <2>3 DEF Start
    <3>2. QED
      BY <1>4, <2>2, <3>1, FreshElse
  <2>6. QED
    BY <1>3, <1>6, <2>1, <2>2, <2>4, <2>5, ResumeInv DEF Start
<1>7. QED
  BY <1>5, <1>6 DEF RevokeDelete

\* An UPDATE that revokes rows keeps the invariant as its call returns.
LEMMA RevokeRowsInv ==
  ASSUME SessionInv, NEW r \in Reqs, NEW S, RevokeRows(S), Return(r, "done"),
         UNCHANGED <<status, owner, life, cache, held>>
  PROVE  SessionInv' /\ Advance
<1>1. TypeOK /\ StoreInv
  BY InvParts
<1>2. /\ row' \in [Tokens -> {"none", "active", "revoked"}]
      /\ \A t \in Tokens : /\ row[t] # "none" => row'[t] # "none"
                           /\ row[t] = "revoked" => row'[t] = "revoked"
                           /\ row'[t] # "none" => owner[t] # Nobody
  BY <1>1 DEF RevokeRows, TypeOK, StoreInv
<1>3. answer' \in [Reqs -> Answers] /\ Resume(r, Idle)
  BY AnswerType DEF Return, Answers
<1>4. StoreTypes' /\ StoreInv' /\ Advance
  BY <1>2, <1>3, MarkRow
<1>5. RowsByCall(r)
  BY <1>1 DEF RowsByCall, RevokeRows
<1>6. QED
  BY <1>3, <1>4, <1>5, ReturnInv

\* RevokeUpdate preserves the invariant.
LEMMA RevokeUpdateInv ==
  ASSUME SessionInv, NEW r \in Reqs, RevokeUpdate(r)
  PROVE  SessionInv' /\ Advance
  BY RevokeRowsInv DEF RevokeUpdate

\* RevokeAllUpdate preserves the invariant.
LEMMA RevokeAllUpdateInv ==
  ASSUME SessionInv, NEW r \in Reqs, RevokeAllUpdate(r)
  PROVE  SessionInv' /\ Advance
  BY RevokeRowsInv DEF RevokeAllUpdate

\* StatusUpdate preserves the invariant.
LEMMA StatusUpdateInv ==
  ASSUME SessionInv, NEW r \in Reqs, NEW u \in Users, NEW s \in Status,
         NEW actor, StatusUpdate(r, actor, u, s)
  PROVE  SessionInv' /\ Advance
<1>1. /\ status' = [status EXCEPT ![u] = s]
      /\ UNCHANGED <<owner, row, life, cache, held>>
      /\ TypeOK /\ StoreInv
  BY InvParts DEF StatusUpdate
<1>2. answer' \in [Reqs -> Answers]
  BY AnswerType DEF StatusUpdate, Start, Return, Answers
<1>3. StoreTypes' /\ StoreInv' /\ Advance
  BY <1>1, <1>2, SessionConstants DEF TypeOK, StoreTypes, StoreInv, Advance
<1>4. RowsByCall(r)
  BY <1>1 DEF RowsByCall
<1>5. CASE Return(r, "done")
  BY <1>3, <1>4, <1>5, ReturnInv DEF Return
<1>6. CASE Start(r, [Idle EXCEPT !.pc = "s_select", !.user = u])
  <2>1. PICK c : c = [Idle EXCEPT !.pc = "s_select", !.user = u]
    OBVIOUS
  <2>2. c \in Call /\ c.pc = "s_select" /\ c.began = {}
    BY <2>1, IdleType DEF Idle, Call, Steps
  <2>3. CallInv(c)'
    BY <2>2
    DEF CallInv, CarriesActive, HasRow, KnowsEnds, Filling, TokenSteps, Steps
  <2>4. TokensAreFresh'
    <3>1. c.pc # "c_insert" /\ c.pc \notin TokenSteps /\ Resume(r, c)
      BY <1>6, <2>1, <2>2 DEF Start, TokenSteps
    <3>2. QED
      BY <1>4, <2>2, <3>1, FreshElse
  <2>5. QED
    BY <1>3, <1>6, <2>1, <2>2, <2>3, <2>4, ResumeInv DEF Start
<1>7. QED
  BY <1>5, <1>6 DEF StatusUpdate

\* RevokeAllSelect preserves the invariant.
LEMMA RevokeAllSelectInv ==
  ASSUME SessionInv, NEW r \in Reqs, RevokeAllSelect(r)
  PROVE  SessionInv' /\ Advance
<1> DEFINE S == SessionsOf(call[r].user)
<1>1. /\ call[r] \in Call /\ call[r].pc = "s_select" /\ CallInv(call[r])
      /\ UNCHANGED <<stored, life, cache, answer>>
      /\ S \subseteq Tokens
  BY InvParts DEF RevokeAllSelect, SessionsOf, TypeOK
<1>2. PICK c : c = [call[r] EXCEPT !.pc = "s_delete", !.todo = S]
  OBVIOUS
<1>3. c \in Call /\ c.pc = "s_delete" /\ c.tok = call[r].tok /\ c.began = call[r].began
  BY <1>1, <1>2 DEF Call, Steps
<1>4. CallInv(c)
  BY <1>1, <1>3
  DEF CallInv, CarriesActive, HasRow, KnowsEnds, Filling, TokenSteps, Steps
<1>5. c.pc \notin {"c_insert"} /\ c.pc \notin TokenSteps
  BY <1>3 DEF TokenSteps
<1>6. QED
  BY <1>1, <1>2, <1>3, <1>4, <1>5, ResumeSame DEF RevokeAllSelect

\* RevokeAllDelete preserves the invariant.
LEMMA RevokeAllDeleteInv ==
  ASSUME SessionInv, NEW r \in Reqs, NEW t \in Tokens, RevokeAllDelete(r, t)
  PROVE  SessionInv' /\ Advance
<1>1. /\ call[r] \in Call /\ call[r].pc = "s_delete" /\ CallInv(call[r])
      /\ UNCHANGED <<stored, life, answer>>
      /\ CachePut(t, NoEntry) \/ UNCHANGED cache
      /\ TypeOK
  BY InvParts DEF RevokeAllDelete, Rejected, CacheDelete, TypeOK
<1>2. StoreTypes' /\ StoreInv' /\ Advance
  BY <1>1, DeleteEntry DEF TypeOK
<1>3. PICK c : c = [call[r] EXCEPT !.todo = @ \ {t}]
  OBVIOUS
<1>4. c \in Call /\ c.pc = "s_delete" /\ c.tok = call[r].tok /\ c.began = call[r].began
  BY <1>1, <1>3 DEF Call, Steps
<1>5. CallInv(c)'
  <2>1. CallInv(c)
    BY <1>1, <1>4
    DEF CallInv, CarriesActive, HasRow, KnowsEnds, Filling, TokenSteps, Steps
  <2>2. QED
    BY <1>1, <2>1 DEF CallInv, CarriesActive, HasRow, KnowsEnds, stored
<1>6. TokensAreFresh'
  <2>1. c.pc # "c_insert" /\ c.pc \notin TokenSteps /\ Resume(r, c) /\ RowsByCall(r)
    BY <1>1, <1>3, <1>4 DEF RevokeAllDelete, TokenSteps, RowsByCall, stored
  <2>2. QED
    BY <1>4, <2>1, FreshElse
<1>7. QED
  BY <1>2, <1>3, <1>4, <1>5, <1>6, ResumeInv DEF RevokeAllDelete

\* Abort preserves the invariant.
LEMMA AbortInv ==
  ASSUME SessionInv, NEW r \in Reqs, Abort(r)
  PROVE  SessionInv' /\ Advance
  BY ReturnSame DEF Abort, Answers

\* A step of the environment touches no call.
LEMMA NoCallStep ==
  ASSUME SessionInv, UNCHANGED <<call, owner, row, held, status, answer>>,
         life' \in [Tokens -> -1..Ttl], \A t \in Tokens : life'[t] <= life[t],
         \A t \in Tokens : owner[t] = Nobody => life'[t] = life[t],
         cache' \in [Tokens -> Entry],
         \A t \in Tokens : /\ cache'[t].status = "ACTIVE"
                           /\ cache'[t].ttl > 0 => cache[t].ttl > 0
  PROVE  SessionInv' /\ Advance
<1>1. TypeOK /\ StoreInv /\ TokensAreFresh /\ \A r \in Reqs : CallInv(call[r])
  BY InvParts
<1>2. TypeOK'
  BY <1>1 DEF TypeOK
<1>3. Advance
  BY <1>1 DEF Advance
<1>4. StoreInv' /\ TokensAreFresh'
  BY <1>1 DEF StoreInv, TokensAreFresh
<1>5. ASSUME NEW r \in Reqs PROVE CallInv(call[r])'
  <2>1. PICK c : c = call[r]
    OBVIOUS
  <2>2. c \in Call /\ CallInv(c)
    BY <1>1, <2>1 DEF TypeOK
  <2>3. CallInv(c)'
    BY <1>1, <1>2, <1>3, <2>2, Frame
  <2>4. QED
    BY <2>1, <2>3 DEF CallInv, CarriesActive, HasRow, KnowsEnds, Filling
<1>6. QED
  BY <1>2, <1>3, <1>4, <1>5
  DEF SessionInv, StoreInv, CallInv, CopiesSayActive, CopiesHaveRows, EndsStand

\* Tick preserves the invariant.
LEMMA TickInv == SessionInv /\ Tick => SessionInv' /\ Advance
<1> SUFFICES ASSUME SessionInv, Tick PROVE SessionInv' /\ Advance
  OBVIOUS
<1>1. TypeOK /\ StoreInv
  BY InvParts
<1>2. /\ life' \in [Tokens -> -1..Ttl]
      /\ \A t \in Tokens : /\ life'[t] <= life[t]
                           /\ owner[t] = Nobody => life'[t] = life[t]
  BY <1>1, SessionConstants DEF Tick, Ages, TypeOK
<1>3. ASSUME NEW t \in Tokens
      PROVE  /\ cache'[t] \in Entry
             /\ cache'[t].status = "ACTIVE"
             /\ cache'[t].ttl > 0 => cache[t].ttl > 0
  <2>1. cache[t] \in Entry /\ cache[t].status = "ACTIVE"
    BY <1>1 DEF TypeOK, StoreInv
  <2>2. CASE cache[t].ttl > 1
    <3>1. cache'[t] = [cache[t] EXCEPT !.ttl = @ - 1]
      BY <2>2 DEF Tick
    <3>2. QED
      BY <2>1, <2>2, <3>1, SessionConstants DEF Entry
  <2>3. CASE ~(cache[t].ttl > 1)
    <3>1. cache'[t] = NoEntry
      BY <2>3 DEF Tick
    <3>2. QED
      BY <3>1, NoEntryType DEF NoEntry
  <2>4. QED
    BY <2>2, <2>3
<1>4. cache' \in [Tokens -> Entry]
  BY <1>3 DEF Tick
<1>5. UNCHANGED <<call, owner, row, held, status, answer>>
  BY DEF Tick, stored
<1>6. \A t \in Tokens : life'[t] <= life[t]
  BY <1>2
<1>7. \A t \in Tokens : owner[t] = Nobody => life'[t] = life[t]
  BY <1>2
<1>8. \A t \in Tokens : /\ cache'[t].status = "ACTIVE"
                        /\ cache'[t].ttl > 0 => cache[t].ttl > 0
  BY <1>3
<1>9. QED
  BY <1>2, <1>4, <1>5, <1>6, <1>7, <1>8, NoCallStep

\* Evict preserves the invariant.
LEMMA EvictInv ==
  ASSUME SessionInv, NEW t \in Tokens, Evict(t)
  PROVE  SessionInv' /\ Advance
<1>1. TypeOK /\ StoreInv
  BY InvParts
<1>2. /\ cache' = [cache EXCEPT ![t] = NoEntry]
      /\ UNCHANGED <<call, owner, row, held, status, answer, life>>
  BY DEF Evict, CacheDelete, CachePut, stored
<1>3. cache' \in [Tokens -> Entry]
  BY <1>1, <1>2, NoEntryType DEF TypeOK
<1>4. \A s \in Tokens : /\ cache'[s].status = "ACTIVE"
                        /\ cache'[s].ttl > 0 => cache[s].ttl > 0
  BY <1>1, <1>2 DEF TypeOK, StoreInv, NoEntry
<1>5. life' \in [Tokens -> -1..Ttl] /\ \A s \in Tokens : life'[s] <= life[s]
  BY <1>1, <1>2, SessionConstants DEF TypeOK
<1>6. \A s \in Tokens : life'[s] = life[s]
  BY <1>2
<1>7. QED
  BY <1>2, <1>3, <1>4, <1>5, <1>6, NoCallStep

\* Nothing changes, nothing breaks.
LEMMA StutterInv == SessionInv /\ UNCHANGED vars => SessionInv' /\ Advance
<1> SUFFICES ASSUME SessionInv, UNCHANGED vars PROVE SessionInv' /\ Advance
  OBVIOUS
<1>1. TypeOK /\ StoreInv
  BY InvParts
<1>2. cache' \in [Tokens -> Entry] /\ life' \in [Tokens -> -1..Ttl]
  BY <1>1 DEF vars, TypeOK
<1>3. \A s \in Tokens : /\ cache'[s].status = "ACTIVE"
                        /\ cache'[s].ttl > 0 => cache[s].ttl > 0
                        /\ life'[s] <= life[s]
  BY <1>1, SessionConstants DEF vars, TypeOK, StoreInv
<1>4. \A s \in Tokens : life'[s] = life[s]
  BY DEF vars
<1>5. QED
  BY <1>2, <1>3, <1>4, NoCallStep DEF vars

\* Every step preserves the invariant, and no session comes back.
LEMMA StepInv == SessionInv /\ [Next]_vars => SessionInv' /\ Advance
<1> SUFFICES ASSUME SessionInv, [Next]_vars PROVE SessionInv' /\ Advance
  OBVIOUS
<1>1. ASSUME NEW r \in Reqs, Begin(r) PROVE SessionInv' /\ Advance
  BY <1>1, CreateReadInv, ValidateGetInv, RevokeDeleteInv, StatusUpdateInv DEF Begin
<1>2. ASSUME NEW r \in Reqs, Continue(r) PROVE SessionInv' /\ Advance
  BY <1>2, CreateInsertInv, CreateStoreInv, ValidateHitInv, ValidatePurgeInv,
     ValidateQueryInv, ValidateFoundInv, ValidateStoreInv, RevokeUpdateInv,
     RevokeAllSelectInv, RevokeAllDeleteInv, RevokeAllUpdateInv
  DEF Continue
<1>3. QED
  BY <1>1, <1>2, AbortInv, TickInv, EvictInv, StutterInv DEF Next

\* No session, no call: the invariant holds at the start.
LEMMA InitInv == Init => SessionInv
<1> SUFFICES ASSUME Init PROVE SessionInv
  OBVIOUS
<1>1. TypeOK
  BY SessionConstants, IdleType, NoEntryType DEF Init, TypeOK, Status, Answers
<1>2. StoreInv /\ TokensAreFresh
  BY DEF Init, StoreInv, TokensAreFresh, NoEntry, Idle
<1>3. \A r \in Reqs : CallInv(call[r])
  <2>1. \A r \in Reqs : call[r] = Idle
    BY DEF Init
  <2>2. QED
    BY <2>1, IdleType
<1>4. QED
  BY <1>1, <1>2, <1>3, InvParts

(***************************************************************************)
(* In every reachable state the stores and the calls in flight agree: what *)
(* Redis holds says ACTIVE and has a row, and what a call knew when it     *)
(* began still holds.                                                      *)
(***************************************************************************)
THEOREM SessionInvariant == Spec => []SessionInv
<1>1. SessionInv /\ [Next]_vars => SessionInv'
  BY StepInv
<1>2. QED
  BY <1>1, InitInv, PTL DEF Spec

(***************************************************************************)
(* What a step that returns from a call knows.                             *)
(***************************************************************************)

\* A step of one call leaves the others where they are.
LEMMA OtherCalls ==
  ASSUME SessionInv, NEW q \in Reqs, NEW r \in Reqs, q # r, Begin(q) \/ Continue(q) \/ Abort(q)
  PROVE  call'[r] = call[r]
<1>1. ASSUME NEW c, Resume(q, c) PROVE call'[r] = call[r]
  BY <1>1, InvParts DEF Resume, TypeOK
<1>2. CASE Begin(q)
  BY <1>1, <1>2
  DEF Begin, CreateRead, ValidateGet, RevokeDelete, StatusUpdate, Start, Return
<1>3. CASE Continue(q)
  BY <1>1, <1>3
  DEF Continue, CreateInsert, CreateStore, ValidateHit, ValidatePurge, ValidateQuery,
      ValidateFound, ValidateStore, RevokeUpdate, RevokeAllSelect, RevokeAllDelete,
      RevokeAllUpdate, Goto, Return
<1>4. CASE Abort(q)
  BY <1>1, <1>4 DEF Abort, Return
<1>5. QED
  BY <1>2, <1>3, <1>4

\* A call returns by a step of its own.
LEMMA ReturningStep ==
  ASSUME SessionInv, [Next]_vars, NEW r \in Reqs, Returns(r)
  PROVE  Continue(r) \/ Abort(r)
<1>1. call'[r] # call[r]
  BY DEF Returns
<1>2. ~UNCHANGED vars /\ ~Tick /\ ~\E t \in Tokens : Evict(t)
  BY <1>1 DEF vars, Tick, Evict, stored
<1>3. ~Begin(r)
  BY DEF Begin, CreateRead, ValidateGet, RevokeDelete, StatusUpdate, Returns
<1>4. QED
  BY <1>1, <1>2, <1>3, OtherCalls DEF Next

\* What a call knows when it is answered { valid: true }, or told that the
\* session has ended.
LEMMA ReturningCall ==
  ASSUME SessionInv, [Next]_vars, NEW r \in Reqs, Returns(r)
  PROVE  /\ answer'[r] = "cached" => ValidateHit(r) /\ ~CopyExpired(call[r].tok)
         /\ answer'[r] = "stored" => ValidateStore(r)
         /\ answer'[r] = "ended" =>
               \/ call[r].pc = "v_purge"
               \/ ValidateQuery(r) /\ ~RowFound(call[r].tok, call[r].stamp)
<1>1. /\ call'[r].pc = "idle"
      /\ \A c : Resume(r, c) => call'[r] = c
      /\ \A a : Return(r, a) => answer'[r] = a
      /\ call[r] \in Call
  BY InvParts DEF Returns, Return, Resume, TypeOK
<1>2. \A pc : Goto(r, pc) => pc = "idle"
  BY <1>1 DEF Goto, Call
<1>3. CASE Abort(r)
  BY <1>1, <1>3 DEF Abort
<1>4. CASE CreateInsert(r) \/ CreateStore(r)
  BY <1>1, <1>2, <1>4 DEF CreateInsert, CreateStore
<1>5. CASE ValidateHit(r)
  BY <1>1, <1>2, <1>5 DEF ValidateHit
<1>6. CASE ValidatePurge(r)
  <2>1. answer'[r] = "ended" \/ call'[r].pc = "v_query"
    BY <1>1, <1>6 DEF ValidatePurge, Call
  <2>2. QED
    BY <1>1, <1>6, <2>1 DEF ValidatePurge
<1>7. CASE ValidateQuery(r)
  <2>1. \/ answer'[r] = "ended" /\ ~RowFound(call[r].tok, call[r].stamp)
        \/ call'[r].pc = "v_found"
    BY <1>1, <1>7 DEF ValidateQuery, Call
  <2>2. QED
    BY <1>1, <1>7, <2>1
<1>8. CASE ValidateFound(r)
  <2>1. answer'[r] = "refused" \/ call'[r].pc = "v_store"
    BY <1>1, <1>8 DEF ValidateFound, Call
  <2>2. QED
    BY <1>1, <2>1
<1>9. CASE ValidateStore(r)
  BY <1>1, <1>9 DEF ValidateStore
<1>10. CASE RevokeUpdate(r) \/ RevokeAllUpdate(r)
  BY <1>1, <1>10 DEF RevokeUpdate, RevokeAllUpdate
<1>11. ~RevokeAllSelect(r)
  BY <1>1 DEF RevokeAllSelect, Call
<1>12. \A t : ~RevokeAllDelete(r, t)
  BY <1>1 DEF RevokeAllDelete, Call
<1>13. QED
  BY <1>3, <1>4, <1>5, <1>6, <1>7, <1>8, <1>9, <1>10, <1>11, <1>12, ReturningStep
  DEF Continue

(***************************************************************************)
(* validateSession answers no request that began after expiresAt as the    *)
(* session's user, although the copy in Redis can outlive expiresAt.       *)
(***************************************************************************)
THEOREM ExpiredIsRefused == Spec => NeverAcceptsExpired
<1>1. ASSUME SessionInv, [Next]_vars, NEW r \in Reqs, Accepts(r)
      PROVE  "expired" \notin call[r].began
  <2>1. Returns(r) /\ KnowsEnds(call[r]) /\ HasRow(call[r]) /\ call[r] \in Call /\ TypeOK
    BY <1>1, InvParts DEF Accepts, CallInv, TypeOK
  <2>2. CASE ValidateHit(r) /\ ~CopyExpired(call[r].tok)
    <3>1. call[r].tok \in Tokens
      BY <2>1, <2>2 DEF ValidateHit, HasRow, TokenSteps, Steps
    <3>2. ~(life[call[r].tok] < 0)
      BY <2>2 DEF CopyExpired
    <3>3. QED
      BY <2>1, <3>2 DEF KnowsEnds
  <2>3. CASE ValidateStore(r)
    BY <2>1, <2>3 DEF ValidateStore, KnowsEnds, Filling
  <2>4. QED
    BY <1>1, <2>1, <2>2, <2>3, ReturningCall DEF Accepts, Valid
<1>2. SessionInv /\ [Next]_vars => [\A r \in Reqs : Accepts(r) => "expired" \notin call[r].began]_vars
  BY <1>1
<1>3. QED
  BY <1>2, SessionInvariant, PTL DEF Spec, NeverAcceptsExpired

(***************************************************************************)
(* A request validateSession answers from the database began before the    *)
(* session was revoked and before it expired.                              *)
(***************************************************************************)
THEOREM DatabaseIsCurrent == Spec => DatabaseNeverAcceptsEnded
<1>1. ASSUME SessionInv, [Next]_vars, NEW r \in Reqs, Accepts(r), answer'[r] = "stored"
      PROVE  call[r].began = {}
  <2>1. Returns(r) /\ KnowsEnds(call[r])
    BY <1>1, InvParts DEF Accepts, CallInv
  <2>2. ValidateStore(r)
    BY <1>1, <2>1, ReturningCall
  <2>3. QED
    BY <2>1, <2>2 DEF ValidateStore, KnowsEnds, Filling
<1>2. SessionInv /\ [Next]_vars
        => [\A r \in Reqs : Accepts(r) /\ answer'[r] = "stored" => call[r].began = {}]_vars
  BY <1>1
<1>3. QED
  BY <1>2, SessionInvariant, PTL DEF Spec, DatabaseNeverAcceptsEnded

(***************************************************************************)
(* validateSession says INVALID_SESSION or SESSION_EXPIRED only of a       *)
(* session that was revoked or has no time left.                           *)
(***************************************************************************)
THEOREM EndedForCause == Spec => EndedHasCause
<1>1. ASSUME SessionInv, [Next]_vars, NEW r \in Reqs, Returns(r), answer'[r] = "ended"
      PROVE  row[call[r].tok] = "revoked" \/ life[call[r].tok] <= 0
  <2>1. /\ KnowsEnds(call[r]) /\ HasRow(call[r])
        /\ call[r] \in Call /\ TypeOK
    BY <1>1, InvParts DEF CallInv, TypeOK
  <2>2. CASE call[r].pc = "v_purge"
    <3>1. call[r].tok \in Tokens /\ life[call[r].tok] < 0
      BY <2>1, <2>2 DEF HasRow, KnowsEnds, TokenSteps, Steps
    <3>2. life[call[r].tok] \in -1..Ttl
      BY <2>1, <3>1 DEF TypeOK
    <3>3. QED
      BY <3>1, <3>2, SessionConstants
  <2>3. CASE ValidateQuery(r) /\ ~RowFound(call[r].tok, call[r].stamp)
    <3>1. /\ call[r].tok \in Tokens /\ row[call[r].tok] # "none"
          /\ call[r].stamp >= life[call[r].tok]
      BY <2>1, <2>3 DEF ValidateQuery, HasRow, KnowsEnds, TokenSteps, Steps
    <3>2. /\ row[call[r].tok] \in {"none", "active", "revoked"}
          /\ life[call[r].tok] \in -1..Ttl /\ call[r].stamp \in -1..Ttl
      BY <2>1, <3>1 DEF TypeOK, Call
    <3>3. row[call[r].tok] # "active" \/ ~(call[r].stamp > 0)
      BY <2>3 DEF RowFound
    <3>4. QED
      BY <3>1, <3>2, <3>3, SessionConstants
  <2>4. QED
    BY <1>1, <2>2, <2>3, ReturningCall
<1>2. SessionInv /\ [Next]_vars
        => [\A r \in Reqs : Returns(r) /\ answer'[r] = "ended"
              => row[call[r].tok] = "revoked" \/ life[call[r].tok] <= 0]_vars
  BY <1>1
<1>3. QED
  BY <1>2, SessionInvariant, PTL DEF Spec, EndedHasCause

(***************************************************************************)
(* The session manager implements its contract: once no request can be     *)
(* answered as a session's user, none ever can again.                      *)
(***************************************************************************)

\* The part of Acceptable about the stores.
StoreAccepts(t) ==
    \/ row[t] = "active" /\ life[t] > 0
    \/ cache[t].ttl > 0 /\ life[t] >= 0

\* A step of another call revives nothing for a call that waits.
LEMMA WaitingCall ==
  ASSUME TypeOK, TypeOK', Advance, NEW t \in Tokens, NEW d \in Call, HasRow(d),
         MayAccept(d, t)'
  PROVE  MayAccept(d, t)
<1>1. d.tok = t /\ life'[t] <= life[t] /\ life[t] \in -1..Ttl /\ life'[t] \in -1..Ttl
  BY DEF MayAccept, Advance, TypeOK
<1>2. life'[t] >= 0 => life[t] >= 0
  BY <1>1, SessionConstants
<1>3. d.pc = "v_query" /\ row'[t] = "active" => row[t] = "active"
  BY <1>1 DEF HasRow, Advance, TypeOK
<1>4. QED
  BY <1>1, <1>2, <1>3 DEF MayAccept, Creating, Filling

\* A step of call r is harmless if neither the stores nor what r goes on with
\* make acceptable what was not.
LEMMA CallKeeps ==
  ASSUME SessionInv, SessionInv', Advance, NEW r \in Reqs, NEW c \in Call,
         Resume(r, c), NEW t \in Tokens,
         StoreAccepts(t)' => Acceptable(t),
         MayAccept(c, t)' => Acceptable(t),
         Acceptable(t)'
  PROVE  Acceptable(t)
<1>1. TypeOK /\ TypeOK' /\ \A q \in Reqs : call[q] \in Call /\ HasRow(call[q])
  BY InvParts DEF SessionInv, CallInv, TypeOK
<1>2. /\ call'[r] = c
      /\ \A q \in Reqs : q # r => call'[q] = call[q]
  BY <1>1 DEF Resume, TypeOK
<1>3. CASE StoreAccepts(t)'
  BY <1>3
<1>4. ASSUME NEW q \in Reqs, MayAccept(call[q], t)' PROVE Acceptable(t)
  <2>1. CASE q = r
    BY <1>2, <1>4, <2>1 DEF MayAccept, Creating, Filling
  <2>2. CASE q # r
    <3>1. MayAccept(call[q], t)
      <4> PICK d \in Call : d = call[q]
        BY <1>1
      <4>1. MayAccept(d, t)' /\ HasRow(d)
        BY <1>1, <1>2, <1>4, <2>2 DEF MayAccept, Creating, Filling
      <4>2. QED
        BY <1>1, <4>1, WaitingCall
    <3>2. QED
      BY <3>1 DEF Acceptable
  <2>3. QED
    BY <2>1, <2>2
<1>5. QED
  BY <1>3, <1>4 DEF Acceptable, StoreAccepts

\* A call that returns is harmless if the stores are.
LEMMA ReturnKeeps ==
  ASSUME SessionInv, SessionInv', Advance, NEW r \in Reqs, Resume(r, Idle),
         NEW t \in Tokens, StoreAccepts(t)' => Acceptable(t), Acceptable(t)'
  PROVE  Acceptable(t)
<1>1. ~MayAccept(Idle, t)'
  BY DEF MayAccept, Idle, Creating, Filling
<1>2. QED
  BY <1>1, IdleType, CallKeeps

\* Stores that lose copies and rows accept no more than before.
LEMMA LosingKeeps ==
  ASSUME SessionInv, SessionInv', Advance, NEW t \in Tokens,
         row'[t] = "active" => row[t] = "active",
         cache'[t].ttl > 0 => cache[t].ttl > 0
  PROVE  StoreAccepts(t)' => StoreAccepts(t)
<1>1. life[t] \in -1..Ttl /\ life'[t] \in -1..Ttl /\ life'[t] <= life[t]
  BY DEF SessionInv, TypeOK, Advance
<1>2. QED
  BY <1>1, SessionConstants DEF StoreAccepts

\* Deleting a copy, or failing to, leaves no copy that was not there.
LEMMA DeletingLoses ==
  ASSUME TypeOK, NEW s \in Tokens, CacheDelete(s) \/ Rejected(CacheDelete(s)),
         NEW t \in Tokens
  PROVE  cache'[t].ttl > 0 => cache[t].ttl > 0
BY DEF CacheDelete, CachePut, Rejected, NoEntry, TypeOK

\* The steps of createSession after the user was read: the session they store is
\* the one they are creating.
LEMMA CreateKeeps ==
  ASSUME SessionInv, SessionInv', Advance, NEW r \in Reqs,
         CreateInsert(r) \/ CreateStore(r), NEW t \in Tokens, Acceptable(t)'
  PROVE  Acceptable(t)
<1>1. /\ TypeOK /\ call[r] \in Call /\ call[r].tok \in Tokens
      /\ life[t] \in -1..Ttl
  BY InvParts
  DEF CreateInsert, CreateStore, CallInv, HasRow, TokenSteps, Steps, TypeOK
<1>2. life[t] > 0 => life[t] >= 0
  BY <1>1, SessionConstants
<1>3. Creating(call[r]) /\ UNCHANGED life
  BY DEF CreateInsert, CreateStore, Creating
<1>4. CASE CreateInsert(r)
  <2>1. PICK c : c = [call[r] EXCEPT !.pc = "c_store"]
    OBVIOUS
  <2>2. c \in Call /\ c.pc = "c_store" /\ c.tok = call[r].tok /\ Resume(r, c)
    BY <1>1, <1>4, <2>1 DEF CreateInsert, Goto, Call, Steps
  <2>3. MayAccept(c, t)' => MayAccept(call[r], t)
    BY <1>3, <2>2 DEF MayAccept, Creating, Filling
  <2>4. StoreAccepts(t)' => StoreAccepts(t) \/ MayAccept(call[r], t)
    BY <1>1, <1>2, <1>3, <1>4 DEF StoreAccepts, MayAccept, CreateInsert, TypeOK
  <2>5. QED
    BY <2>2, <2>3, <2>4, CallKeeps DEF Acceptable, StoreAccepts
<1>5. CASE CreateStore(r)
  <2>1. Resume(r, Idle)
    BY <1>5 DEF CreateStore, Return
  <2>2. StoreAccepts(t)' => StoreAccepts(t) \/ MayAccept(call[r], t)
    BY <1>1, <1>3, <1>5
    DEF StoreAccepts, MayAccept, CreateStore, Rejected, CachePut, TypeOK
  <2>3. QED
    BY <2>1, <2>2, ReturnKeeps DEF Acceptable, StoreAccepts
<1>6. QED
  BY <1>4, <1>5

\* validateSession writes again only a copy of a session that is live, and holds
\* no copy of one that is over.
LEMMA ValidateKeeps ==
  ASSUME SessionInv, SessionInv', Advance, NEW r \in Reqs,
         \/ ValidateHit(r) \/ ValidatePurge(r) \/ ValidateQuery(r)
         \/ ValidateFound(r) \/ ValidateStore(r),
         NEW t \in Tokens, Acceptable(t)'
  PROVE  Acceptable(t)
<1>1. /\ TypeOK /\ call[r] \in Call /\ call[r].tok \in Tokens
      /\ CallInv(call[r]) /\ UNCHANGED <<row, life>>
  BY InvParts
  DEF ValidateHit, ValidatePurge, ValidateQuery, ValidateFound, ValidateStore,
      stored, CallInv, HasRow, TokenSteps, Steps, TypeOK
<1>2. /\ StoreAccepts(t) => Acceptable(t)
      /\ MayAccept(call[r], t) => Acceptable(t)
  BY DEF StoreAccepts, Acceptable
<1>3. ASSUME NEW c, Resume(r, c), UNCHANGED cache,
             c = Idle \/ (c \in Call /\ (MayAccept(c, t)' => MayAccept(call[r], t)))
      PROVE  Acceptable(t)
  <2>1. StoreAccepts(t)' => StoreAccepts(t)
    BY <1>1, <1>3 DEF StoreAccepts
  <2>2. QED
    BY <1>2, <1>3, <2>1, ReturnKeeps, CallKeeps
<1>4. CASE ValidateHit(r)
  <2> PICK c : c = [call[r] EXCEPT !.pc = "v_purge"]
    OBVIOUS
  <2>1. c \in Call /\ ~MayAccept(c, t)'
    BY <1>1 DEF Call, Steps, MayAccept, Creating, Filling
  <2>2. QED
    BY <1>3, <1>4, <2>1 DEF ValidateHit, Goto, Return
<1>5. CASE ValidatePurge(r)
  <2>1. StoreAccepts(t)' => StoreAccepts(t)
    BY <1>1, <1>5, DeletingLoses, LosingKeeps DEF ValidatePurge
  <2>2. CASE Resume(r, [call[r] EXCEPT !.pc = "v_query", !.stamp = life[call[r].tok]])
    <3>1. PICK c : c = [call[r] EXCEPT !.pc = "v_query", !.stamp = life[call[r].tok]]
      OBVIOUS
    <3>2. c \in Call /\ c.pc = "v_query" /\ c.stamp = life[call[r].tok]
      BY <1>1, <3>1 DEF Call, Steps, TypeOK
    <3>3. life[call[r].tok] < 0 /\ life[call[r].tok] \in -1..Ttl
      BY <1>1, <1>5 DEF ValidatePurge, CallInv, KnowsEnds, TypeOK
    <3>4. ~MayAccept(c, t)'
      BY <3>2, <3>3, SessionConstants DEF MayAccept, Creating, Filling
    <3>5. QED
      BY <1>2, <2>1, <2>2, <3>1, <3>2, <3>4, CallKeeps
  <2>3. QED
    BY <1>2, <1>5, <2>1, <2>2, ReturnKeeps DEF ValidatePurge, Return
<1>6. CASE ValidateQuery(r)
  <2> PICK c : c = [call[r] EXCEPT !.pc = "v_found", !.seen = status[owner[call[r].tok]]]
    OBVIOUS
  <2>1. CASE Resume(r, c) /\ RowFound(call[r].tok, call[r].stamp)
    <3>1. status[owner[call[r].tok]] \in Status
      BY <1>1, <2>1, SessionConstants, InvParts DEF RowFound, StoreInv, TypeOK
    <3>2. c \in Call /\ c.tok = call[r].tok
      BY <1>1, <3>1 DEF Call, Steps
    <3>3. MayAccept(c, t)' => MayAccept(call[r], t)
      BY <1>6, <2>1, <3>2 DEF MayAccept, ValidateQuery, RowFound
    <3>4. QED
      BY <1>3, <1>6, <2>1, <3>2, <3>3 DEF ValidateQuery
  <2>2. QED
    BY <1>3, <1>6, <2>1 DEF ValidateQuery, Return
<1>7. CASE ValidateFound(r)
  <2> DEFINE left == life[call[r].tok]
             shown == IF left > 1 THEN left ELSE 1
  <2> PICK c : c = [call[r] EXCEPT !.pc = "v_store", !.stamp = shown]
    OBVIOUS
  <2>1. shown \in -1..Ttl
    BY <1>1, SessionConstants DEF TypeOK
  <2>2. c \in Call /\ c.tok = call[r].tok
    BY <1>1, <2>1 DEF Call, Steps
  <2>3. MayAccept(c, t)' => MayAccept(call[r], t)
    BY <1>7, <2>2 DEF MayAccept, ValidateFound, Filling
  <2>4. QED
    BY <1>3, <1>7, <2>2, <2>3 DEF ValidateFound, Return
<1>8. CASE ValidateStore(r)
  <2>1. StoreAccepts(t)' => StoreAccepts(t) \/ MayAccept(call[r], t)
    BY <1>1, <1>8
    DEF StoreAccepts, MayAccept, ValidateStore, Filling, Rejected, CachePut, TypeOK
  <2>2. QED
    BY <1>2, <1>8, <2>1, ReturnKeeps DEF ValidateStore, Return
<1>9. QED
  BY <1>4, <1>5, <1>6, <1>7, <1>8

\* Revoking, whichever store it has reached, makes nothing acceptable; nor does
\* a call that is aborted.
LEMMA RevokeKeeps ==
  ASSUME SessionInv, SessionInv', Advance, NEW r \in Reqs,
         \/ RevokeUpdate(r) \/ RevokeAllSelect(r) \/ RevokeAllUpdate(r) \/ Abort(r)
         \/ \E s \in Tokens : RevokeAllDelete(r, s) \/ RevokeDelete(r, s),
         NEW t \in Tokens, Acceptable(t)'
  PROVE  Acceptable(t)
<1>1. TypeOK /\ TypeOK' /\ call[r] \in Call /\ (StoreAccepts(t) => Acceptable(t))
  BY DEF SessionInv, TypeOK, StoreAccepts, Acceptable
<1>2. /\ row'[t] = "active" => row[t] = "active"
      /\ cache'[t].ttl > 0 => cache[t].ttl > 0
  BY <1>1, DeletingLoses
  DEF RevokeUpdate, RevokeAllSelect, RevokeAllUpdate, Abort, RevokeAllDelete,
      RevokeDelete, RevokeRows, stored
<1>3. StoreAccepts(t)' => Acceptable(t)
  BY <1>1, <1>2, LosingKeeps
<1>4. ASSUME NEW c, Resume(r, c), c.pc \in {"r_update", "s_delete"} \/ c = Idle
      PROVE  Acceptable(t)
  <2>1. c \in Call
    BY <1>1, <1>4, IdleType DEF Resume, TypeOK
  <2>2. ~MayAccept(c, t)'
    BY <1>4 DEF MayAccept, Creating, Filling, Idle
  <2>3. QED
    BY <1>3, <1>4, <2>1, <2>2, CallKeeps
<1>5. ASSUME NEW S, NEW s,
             \/ Resume(r, [call[r] EXCEPT !.pc = "s_delete", !.todo = S])
             \/ call[r].pc = "s_delete" /\ Resume(r, [call[r] EXCEPT !.todo = @ \ {s}])
             \/ Resume(r, [Idle EXCEPT !.pc = "r_update", !.tok = s])
      PROVE  Acceptable(t)
  BY <1>1, <1>4, <1>5 DEF Call, Idle
<1>6. QED
  BY <1>4, <1>5
  DEF RevokeUpdate, RevokeAllSelect, RevokeAllUpdate, Abort, RevokeAllDelete,
      RevokeDelete, Return, Start

\* A request begins to validate a session only as live as it already was.
LEMMA GetKeeps ==
  ASSUME SessionInv, SessionInv', Advance, NEW r \in Reqs, NEW s \in Tokens,
         ValidateGet(r, s), NEW t \in Tokens, Acceptable(t)'
  PROVE  Acceptable(t)
<1>1. TypeOK /\ TypeOK' /\ UNCHANGED <<row, life, cache>>
  BY DEF SessionInv, ValidateGet, stored
<1>2. PICK hit \in BOOLEAN :
         /\ hit => cache[s].ttl > 0
         /\ Resume(r, [Idle EXCEPT !.pc = IF hit THEN "v_hit" ELSE "v_query",
                                   !.tok = s,
                                   !.seen = IF hit THEN cache[s].status ELSE @,
                                   !.stamp = IF hit THEN @ ELSE life[s],
                                   !.began = EndedNow(s)])
  BY DEF ValidateGet, Start
<1>3. PICK c : c = [Idle EXCEPT !.pc = IF hit THEN "v_hit" ELSE "v_query",
                               !.tok = s,
                               !.seen = IF hit THEN cache[s].status ELSE @,
                               !.stamp = IF hit THEN @ ELSE life[s],
                               !.began = EndedNow(s)]
  OBVIOUS
<1>4. /\ c.pc = IF hit THEN "v_hit" ELSE "v_query"
      /\ c.tok = s
      /\ ~hit => c.stamp = life[s]
  BY <1>3 DEF Idle
<1>5. c \in Call
  BY <1>1, <1>2, <1>3 DEF Resume, TypeOK
<1>6. MayAccept(c, t)' => StoreAccepts(t)
  BY <1>1, <1>2, <1>4 DEF MayAccept, StoreAccepts, Creating, Filling
<1>7. StoreAccepts(t)' => StoreAccepts(t)
  BY <1>1 DEF StoreAccepts
<1>8. QED
  BY <1>2, <1>3, <1>5, <1>6, <1>7, CallKeeps DEF Acceptable, StoreAccepts

\* A change of status touches no session.
LEMMA StatusKeeps ==
  ASSUME SessionInv, SessionInv', Advance, NEW r \in Reqs,
         NEW actor \in Users, NEW u \in Users, NEW s \in Status,
         StatusUpdate(r, actor, u, s), NEW t \in Tokens, Acceptable(t)'
  PROVE  Acceptable(t)
<1>1. StoreAccepts(t)' => Acceptable(t)
  BY DEF StatusUpdate, StoreAccepts, Acceptable
<1>2. CASE Resume(r, Idle)
  BY <1>1, <1>2, ReturnKeeps
<1>3. CASE Resume(r, [Idle EXCEPT !.pc = "s_select", !.user = u])
  <2>1. PICK c : c = [Idle EXCEPT !.pc = "s_select", !.user = u]
    OBVIOUS
  <2>2. c \in Call /\ ~MayAccept(c, t)'
    BY <2>1, IdleType DEF Call, Steps, Idle, MayAccept, Creating, Filling
  <2>3. QED
    BY <1>1, <1>3, <2>1, <2>2, CallKeeps
<1>4. QED
  BY <1>2, <1>3 DEF StatusUpdate, Return, Start

\* Nor does time, or the loss of a key, make acceptable what was not.
LEMMA EnvironmentKeeps ==
  ASSUME SessionInv, SessionInv', Advance,
         Tick \/ (\E s \in Tokens : Evict(s)) \/ UNCHANGED vars,
         NEW t \in Tokens, Acceptable(t)'
  PROVE  Acceptable(t)
<1>1. /\ TypeOK /\ TypeOK' /\ UNCHANGED <<row, call>>
      /\ \A r \in Reqs : call[r] \in Call /\ HasRow(call[r])
  BY InvParts DEF SessionInv, CallInv, TypeOK, Tick, Evict, vars, stored
<1>2. cache'[t].ttl > 0 => cache[t].ttl > 0
  <2>1. CASE Tick
    BY <1>1, <2>1 DEF Tick, NoEntry, TypeOK, Entry
  <2>2. CASE (\E s \in Tokens : Evict(s)) \/ UNCHANGED vars
    BY <1>1, <2>2, DeletingLoses DEF Evict, vars
  <2>3. QED
    BY <2>1, <2>2
<1>3. StoreAccepts(t)' => StoreAccepts(t)
  BY <1>1, <1>2, LosingKeeps
<1>4. ASSUME NEW r \in Reqs, MayAccept(call[r], t)' PROVE MayAccept(call[r], t)
  <2> PICK d \in Call : d = call[r]
    BY <1>1
  <2>1. MayAccept(d, t)' /\ HasRow(d)
    BY <1>1, <1>4 DEF MayAccept, Creating, Filling
  <2>2. QED
    BY <1>1, <2>1, WaitingCall
<1>5. QED
  BY <1>3, <1>4 DEF Acceptable, StoreAccepts

\* createSession issues the token it has just generated, and nothing else.
LEMMA CreateIssues ==
  ASSUME SessionInv, SessionInv', Advance, NEW r \in Reqs, NEW u \in Users,
         CreateRead(r, u), ~UNCHANGED owner
  PROVE  Contract!Next
<1>1. TypeOK /\ TypeOK' /\ call[r].pc = "idle" /\ UNCHANGED <<row, life, cache>>
  BY DEF SessionInv, CreateRead
<1>2. PICK s \in Tokens :
         /\ owner[s] = Nobody
         /\ owner' = [owner EXCEPT ![s] = u]
         /\ Resume(r, [Idle EXCEPT !.pc = "c_insert", !.tok = s, !.seen = status[u]])
  BY DEF CreateRead, Start
<1>3. PICK c : c = [Idle EXCEPT !.pc = "c_insert", !.tok = s, !.seen = status[u]]
  OBVIOUS
<1>4. /\ c \in Call /\ c.pc = "c_insert" /\ c.tok = s
      /\ call'[r] = c
      /\ \A q \in Reqs : q # r => call'[q] = call[q]
  BY <1>1, <1>2, <1>3 DEF Resume, TypeOK, Idle
<1>5. Phase(s) = "unissued" /\ Phase(s)' = "live"
  <2>1. life'[s] = Ttl /\ owner'[s] # Nobody
    BY <1>1, <1>2, InvParts, SessionConstants DEF StoreInv, TypeOK
  <2>2. MayAccept(call[r], s)'
    BY <1>4, <2>1, SessionConstants DEF MayAccept, Creating
  <2>3. QED
    BY <1>2, <2>1, <2>2 DEF Phase, Acceptable
<1>6. ASSUME NEW t \in Tokens, t # s PROVE Phase(t)' = Phase(t)
  <2>1. owner'[t] = owner[t] /\ (StoreAccepts(t)' <=> StoreAccepts(t))
    BY <1>1, <1>2, <1>6 DEF TypeOK, StoreAccepts
  <2>2. ~MayAccept(c, t)' /\ ~MayAccept(call[r], t)
    BY <1>1, <1>4, <1>6 DEF MayAccept, Creating, Filling
  <2>3. Acceptable(t)' => Acceptable(t)
    BY <1>2, <1>3, <1>4, <2>1, <2>2, CallKeeps DEF Acceptable, StoreAccepts
  <2>4. ASSUME NEW q \in Reqs, MayAccept(call[q], t) PROVE MayAccept(call[q], t)'
    BY <1>1, <1>4, <2>2, <2>4 DEF MayAccept, Creating, Filling
  <2>5. Acceptable(t) => Acceptable(t)'
    BY <2>1, <2>4 DEF Acceptable, StoreAccepts
  <2>6. QED
    BY <2>1, <2>3, <2>5 DEF Phase
<1>7. Contract!Issue(s, u)
  BY <1>2, <1>5, <1>6 DEF Contract!Issue
<1>8. QED
  BY <1>7 DEF Contract!Next

\* Any other step ends the sessions that it leaves nothing to accept of.
LEMMA OthersEnd ==
  ASSUME UNCHANGED owner, \A t \in Tokens : Acceptable(t)' => Acceptable(t)
  PROVE  Contract!Next
<1> DEFINE S == {t \in Tokens : Phase(t) = "live" /\ Phase(t)' = "over"}
<1>1. S \in SUBSET Tokens /\ \A t \in S : Phase(t) = "live"
  OBVIOUS
<1>2. \A t \in Tokens : Phase(t)' = IF t \in S THEN "over" ELSE Phase(t)
  BY DEF Phase
<1>3. Contract!End(S)
  BY <1>1, <1>2 DEF Contract!End
<1>4. QED
  BY <1>1, <1>3 DEF Contract!Next

(***************************************************************************)
(* The session manager implements SessionContract: a token is issued once, *)
(* to one user, and a session nobody can be accepted with stays over,      *)
(* whatever calls overlap and whichever commands are lost.                 *)
(***************************************************************************)
THEOREM ContractImplemented == Spec => ImplementsContract
<1>1. Init => Contract!Init
  BY DEF Init, Contract!Init, Phase
<1>2. SessionInv /\ [Next]_vars => [Contract!Next]_Contract!vars
  <2> SUFFICES ASSUME SessionInv, [Next]_vars PROVE Contract!Next
    OBVIOUS
  <2>1. SessionInv' /\ Advance
    BY StepInv
  <2>2. CASE Tick \/ (\E s \in Tokens : Evict(s)) \/ UNCHANGED vars
    BY <2>1, <2>2, EnvironmentKeeps, OthersEnd DEF Tick, Evict, vars, stored
  <2>3. ASSUME NEW r \in Reqs, Continue(r) \/ Abort(r) PROVE Contract!Next
    <3>1. UNCHANGED owner
      BY <2>3
      DEF Continue, Abort, CreateInsert, CreateStore, ValidateHit, ValidatePurge,
          ValidateQuery, ValidateFound, ValidateStore, RevokeUpdate,
          RevokeAllSelect, RevokeAllUpdate, RevokeAllDelete, stored
    <3>2. QED
      BY <2>1, <2>3, <3>1, CreateKeeps, ValidateKeeps, RevokeKeeps, OthersEnd
      DEF Continue
  <2>4. ASSUME NEW r \in Reqs, NEW u \in Users, CreateRead(r, u) PROVE Contract!Next
    <3>1. CASE UNCHANGED owner
      <4>1. Resume(r, Idle) /\ UNCHANGED <<row, life, cache>>
        BY <2>4, <3>1, <2>1, SessionConstants
        DEF CreateRead, Return, SessionInv, TypeOK
      <4>2. \A t \in Tokens : Acceptable(t)' => Acceptable(t)
        BY <2>1, <4>1, ReturnKeeps DEF StoreAccepts, Acceptable
      <4>3. QED
        BY <3>1, <4>2, OthersEnd
    <3>2. QED
      BY <2>1, <2>4, <3>1, CreateIssues
  <2>5. ASSUME NEW r \in Reqs, Begin(r), \A u \in Users : ~CreateRead(r, u)
        PROVE  Contract!Next
    <3>1. UNCHANGED owner
      BY <2>5 DEF Begin, ValidateGet, RevokeDelete, StatusUpdate, stored
    <3>2. QED
      BY <2>1, <2>5, <3>1, GetKeeps, RevokeKeeps, StatusKeeps, OthersEnd DEF Begin
  <2>6. QED
    BY <2>2, <2>3, <2>4, <2>5 DEF Next
<1>3. QED
  BY <1>1, <1>2, SessionInvariant, PTL DEF Spec, ImplementsContract, Contract!Spec

(***************************************************************************)
(* A revocation that no refill and no failure disturbs leaves nothing.     *)
(***************************************************************************)

\* What a call at work on session t has done so far, undisturbed: a copy it holds
\* is of a row that stands, a revocation has deleted the copy it is past, and the
\* user it inserts a row for is not barred.
Stands(c, t) ==
    /\ c.tok = t /\ (c.pc = "c_store" \/ Filling(c)) => row[t] # "revoked"
    /\ c.tok = t /\ c.pc = "r_update" => cache[t].ttl = 0
    /\ c.tok = t /\ c.pc = "c_insert" => ~Barred(status[owner[t]])
    /\ c.pc = "s_delete" /\ c.user = owner[t] /\ row[t] = "active" /\ t \notin c.todo
          => cache[t].ttl = 0

Attended(t) ==
    row[t] = "active" /\ Barred(status[owner[t]])
        => \E r \in Reqs : Suspends(call[r], owner[t])

Undisturbed(t) ==
    /\ ~Meets(t)
    /\ row[t] = "revoked" => cache[t].ttl = 0
    /\ Attended(t)
    /\ \A r \in Reqs : Stands(call[r], t)

\* The row of t and the status of its user stay, and no copy of it appears.
Same(t) ==
    /\ row'[t] = row[t]
    /\ owner'[t] = owner[t]
    /\ owner[t] # Nobody => status'[owner[t]] = status[owner[t]]
    /\ cache[t].ttl = 0 => cache'[t].ttl = 0

\* A call that waits stands as it did.
LEMMA WaitingStands ==
  ASSUME NEW t \in Tokens, NEW d \in Call, HasRow(d), Same(t), Stands(d, t)
  PROVE  Stands(d, t)'
  BY DEF HasRow, Same, Stands, Filling, TokenSteps, Steps

\* A step of call r that leaves t the same disturbs nothing if r stands where it
\* goes on and does not turn away from a barred user.
LEMMA StepStands ==
  ASSUME SessionInv, NEW t \in Tokens, Undisturbed(t), ~Meets(t)', Same(t),
         NEW r \in Reqs, \A q \in Reqs : q # r => call'[q] = call[q],
         Stands(call[r], t)',
         Suspends(call[r], owner[t]) => Suspends(call'[r], owner[t]) \/ row[t] # "active"
  PROVE  Undisturbed(t)'
<1>1. ASSUME NEW q \in Reqs PROVE Stands(call[q], t)'
  <2>1. CASE q = r
    BY <2>1
  <2>2. CASE q # r
    <3>1. PICK d : d = call[q]
      OBVIOUS
    <3>2. d \in Call /\ HasRow(d) /\ Stands(d, t) /\ call'[q] = d
      BY <2>2, <3>1, InvParts DEF Undisturbed, CallInv, TypeOK
    <3>3. Stands(d, t)'
      BY <3>2, WaitingStands
    <3>4. QED
      BY <3>2, <3>3 DEF Stands, Filling
  <2>3. QED
    BY <2>1, <2>2
<1>2. row'[t] = "revoked" => cache'[t].ttl = 0
  BY DEF Undisturbed, Same
<1>3. Attended(t)'
  <2> SUFFICES ASSUME row'[t] = "active", Barred(status'[owner'[t]])
               PROVE  \E q \in Reqs : Suspends(call'[q], owner'[t])
    BY DEF Attended, Suspends
  <2>1. owner[t] # Nobody
    BY InvParts DEF StoreInv, Same
  <2>2. PICK q \in Reqs : Suspends(call[q], owner[t])
    BY <2>1 DEF Undisturbed, Attended, Same
  <2>3. Suspends(call'[q], owner[t])
    BY <2>2 DEF Same
  <2>4. QED
    BY <2>3 DEF Same
<1>4. QED
  BY <1>1, <1>2, <1>3 DEF Undisturbed

\* A step of the environment disturbs nothing.
LEMMA NobodyStands ==
  ASSUME SessionInv, NEW t \in Tokens, Undisturbed(t), ~Meets(t)', Same(t), UNCHANGED call
  PROVE  Undisturbed(t)'
<1>1. ASSUME NEW q \in Reqs PROVE Stands(call[q], t)'
  <2>1. PICK d : d = call[q]
    OBVIOUS
  <2>2. d \in Call /\ HasRow(d) /\ Stands(d, t) /\ call'[q] = d
    BY <2>1, InvParts DEF Undisturbed, CallInv, TypeOK
  <2>3. Stands(d, t)'
    BY <2>2, WaitingStands
  <2>4. QED
    BY <2>2, <2>3 DEF Stands, Filling
<1>2. Attended(t)'
  <2>1. row[t] = "active" => owner[t] # Nobody
    BY InvParts DEF StoreInv
  <2>2. QED
    BY <2>1 DEF Undisturbed, Attended, Same, Suspends
<1>3. QED
  BY <1>1, <1>2 DEF Undisturbed, Same

\* The user of t is read, and t is issued: it has neither a row nor another call.
LEMMA IssueStands ==
  ASSUME SessionInv, SessionInv', NEW t \in Tokens, ~Meets(t)', NEW r \in Reqs,
         NEW u \in Users, CreateRead(r, u), owner[t] = Nobody, owner'[t] # Nobody
  PROVE  Undisturbed(t)'
<1>1. TypeOK /\ StoreInv /\ \A q \in Reqs : HasRow(call[q])
  BY InvParts DEF CallInv
<1>2. /\ owner'[t] = u /\ ~Barred(status'[u])
      /\ row'[t] = "none"
      /\ call'[r].pc = "c_insert"
  <2>1. PICK s \in Tokens :
           /\ ~Barred(status[u])
           /\ owner' = [owner EXCEPT ![s] = u]
           /\ Resume(r, [Idle EXCEPT !.pc = "c_insert", !.tok = s, !.seen = status[u]])
    BY DEF CreateRead, Start
  <2>2. owner'[t] = u
    BY <1>1, <2>1 DEF TypeOK
  <2>3. PICK c : c = [Idle EXCEPT !.pc = "c_insert", !.tok = s, !.seen = status[u]]
    OBVIOUS
  <2>4. c.pc = "c_insert" /\ call'[r] = c
    BY <1>1, <2>1, <2>3 DEF Idle, Resume, TypeOK
  <2>5. QED
    BY <1>1, <2>1, <2>2, <2>4 DEF CreateRead, StoreInv
<1>3. ASSUME NEW q \in Reqs PROVE Stands(call[q], t)'
  <2>1. CASE q = r
    BY <1>2, <2>1 DEF Stands, Filling
  <2>2. CASE q # r
    <3>1. call'[q] = call[q]
      BY <2>2, OtherCalls DEF Begin
    <3>2. call'[q].pc \in TokenSteps => call'[q].tok # t
      BY <1>1, <3>1 DEF HasRow
    <3>3. QED
      BY <1>2, <3>2 DEF Stands, Filling, TokenSteps, Steps
  <2>3. QED
    BY <2>1, <2>2
<1>4. QED
  BY <1>2, <1>3 DEF Undisturbed, Attended

\* A row or a copy of t is stored: nobody is revoking it.
LEMMA RefillStands ==
  ASSUME SessionInv, NEW t \in Tokens, Undisturbed(t), ~Meets(t)', NEW r \in Reqs,
         \A q \in Reqs : q # r => call'[q] = call[q],
         Refills(call[r], t), row'[t] # "revoked",
         row'[t] = "active" => row[t] = "active" \/ call[r].pc = "c_insert",
         call'[r].pc \in {"idle", "c_store"}, UNCHANGED <<status, owner>>
  PROVE  Undisturbed(t)'
<1>1. \A q \in Reqs : ~Revokes(call[q], t, owner[t])
  BY DEF Undisturbed, Meets
<1>2. ASSUME NEW q \in Reqs PROVE Stands(call[q], t)'
  <2>1. CASE q = r
    BY <2>1 DEF Stands, Filling
  <2>2. CASE q # r
    <3>1. call'[q] = call[q] /\ Stands(call[q], t)
      BY <2>2 DEF Undisturbed
    <3>2. QED
      BY <1>1, <3>1 DEF Stands, Revokes, Suspends, Filling
  <2>3. QED
    BY <2>1, <2>2
<1>3. row'[t] = "active" => ~Barred(status[owner[t]])
  <2>1. CASE row[t] = "active"
    BY <1>1, <2>1 DEF Undisturbed, Attended, Revokes
  <2>2. CASE call[r].pc = "c_insert"
    BY <2>2 DEF Undisturbed, Stands, Refills
  <2>3. QED
    BY <2>1, <2>2
<1>4. QED
  BY <1>2, <1>3 DEF Undisturbed, Attended

\* The row of t is revoked: the copy is gone, and nobody holds another.
LEMMA RevokeStands ==
  ASSUME SessionInv, NEW t \in Tokens, Undisturbed(t), ~Meets(t)', NEW r \in Reqs,
         \A q \in Reqs : q # r => call'[q] = call[q],
         Revokes(call[r], t, owner[t]), call'[r].pc = "idle",
         row'[t] = IF row[t] = "active" THEN "revoked" ELSE row[t],
         row[t] = "active" => cache[t].ttl = 0,
         UNCHANGED <<status, owner, cache>>
  PROVE  Undisturbed(t)'
<1>1. \A q \in Reqs : ~Refills(call[q], t)
  BY DEF Undisturbed, Meets
<1>2. ASSUME NEW q \in Reqs PROVE Stands(call[q], t)'
  <2>1. CASE q = r
    BY <2>1 DEF Stands, Filling
  <2>2. CASE q # r
    <3>1. call'[q] = call[q] /\ Stands(call[q], t)
      BY <2>2 DEF Undisturbed
    <3>2. QED
      BY <1>1, <3>1 DEF Stands, Refills, Filling
  <2>3. QED
    BY <2>1, <2>2
<1>3. QED
  BY <1>2 DEF Undisturbed, Attended

\* The status of the user of t changes.
LEMMA StatusStands ==
  ASSUME SessionInv, NEW t \in Tokens, Undisturbed(t), ~Meets(t)', NEW r \in Reqs,
         NEW actor \in Users, NEW s \in Status, owner[t] \in Users,
         StatusUpdate(r, actor, owner[t], s)
  PROVE  Undisturbed(t)'
<1>1. /\ TypeOK /\ status'[owner[t]] = s
      /\ call[r].pc = "idle"
      /\ UNCHANGED <<owner, row, life, cache, held>>
  BY InvParts DEF StatusUpdate, TypeOK
<1>2. \A q \in Reqs : q # r => call'[q] = call[q]
  BY OtherCalls DEF Begin
<1>3. \/ ~Barred(s) /\ call'[r].pc = "idle"
      \/ Suspends(call'[r], owner[t]) /\ call'[r].pc = "s_select"
  <2>1. CASE Return(r, "done") /\ ~EndsSessions(s)
    BY <1>1, <2>1 DEF Return, Resume, Idle, EndsSessions, Barred, TypeOK
  <2>2. CASE Start(r, [Idle EXCEPT !.pc = "s_select", !.user = owner[t]])
    <3>1. PICK c : c = [Idle EXCEPT !.pc = "s_select", !.user = owner[t]]
      OBVIOUS
    <3>2. c.pc = "s_select" /\ c.user = owner[t] /\ call'[r] = c
      BY <1>1, <2>2, <3>1 DEF Idle, Start, Resume, TypeOK
    <3>3. QED
      BY <3>2 DEF Suspends
  <2>3. QED
    BY <2>1, <2>2 DEF StatusUpdate
<1>4. Attended(t)'
  BY <1>1, <1>3 DEF Attended
<1>5. ASSUME NEW q \in Reqs PROVE Stands(call[q], t)'
  <2>1. CASE q = r
    BY <1>3, <2>1 DEF Stands, Filling
  <2>2. CASE q # r
    <3>1. call'[q] = call[q] /\ Stands(call[q], t)
      BY <1>2, <2>2 DEF Undisturbed
    <3>2. call[q].tok = t /\ call[q].pc = "c_insert" => ~Barred(s)
      BY <1>1, <1>3, <3>1 DEF Meets, Revokes, Suspends, Refills
    <3>3. QED
      BY <1>1, <3>1, <3>2 DEF Stands, Filling
  <2>3. QED
    BY <2>1, <2>2
<1>6. QED
  BY <1>1, <1>4, <1>5 DEF Undisturbed

\* A call that returns, or goes on within validateSession, leaving t the same.
LEMMA PassingStands ==
  ASSUME SessionInv, NEW t \in Tokens, Undisturbed(t), ~Meets(t)', Same(t),
         NEW r \in Reqs, \A q \in Reqs : q # r => call'[q] = call[q],
         call'[r].pc \in {"idle", "c_insert", "v_hit", "v_purge", "v_query"},
         call'[r].pc = "c_insert" => call'[r].tok # t,
         ~Suspends(call[r], owner[t])
  PROVE  Undisturbed(t)'
<1>1. Stands(call[r], t)'
  BY DEF Stands, Filling
<1>2. QED
  BY <1>1, StepStands

\* createSession disturbs nothing that does not meet it.
LEMMA CreateStands ==
  ASSUME SessionInv, SessionInv', NEW t \in Tokens, Undisturbed(t), ~Meets(t)', NEW r \in Reqs,
         CreateInsert(r) \/ CreateStore(r) \/ \E u \in Users : CreateRead(r, u)
  PROVE  Undisturbed(t)'
<1>1. /\ TypeOK /\ StoreInv /\ call[r] \in Call /\ HasRow(call[r])
      /\ \A q \in Reqs : q # r => call'[q] = call[q]
      /\ ~Suspends(call[r], owner[t])
      /\ \A c : Resume(r, c) => call'[r] = c
  BY InvParts, OtherCalls
  DEF TypeOK, CallInv, Begin, Continue, Suspends, CreateInsert, CreateStore,
      CreateRead, Resume
<1>2. ASSUME NEW u \in Users, CreateRead(r, u) PROVE Undisturbed(t)'
  <2>1. UNCHANGED <<row, cache, status>>
    BY <1>2 DEF CreateRead
  <2>2. CASE Return(r, "refused") /\ UNCHANGED owner
    <3>1. Same(t) /\ call'[r].pc = "idle"
      BY <1>1, <2>1, <2>2 DEF Same, Return, Idle
    <3>2. QED
      BY <1>1, <3>1, PassingStands
  <2>3. ASSUME NEW s \in Tokens, owner[s] = Nobody, owner' = [owner EXCEPT ![s] = u],
               Start(r, [Idle EXCEPT !.pc = "c_insert", !.tok = s, !.seen = status[u]])
        PROVE  Undisturbed(t)'
    <3>1. PICK c : c = [Idle EXCEPT !.pc = "c_insert", !.tok = s, !.seen = status[u]]
      OBVIOUS
    <3>2. call'[r] = c /\ c.pc = "c_insert" /\ c.tok = s
      BY <1>1, <2>3, <3>1 DEF Start, Idle
    <3>3. CASE s = t
      <4>1. owner'[t] # Nobody
        BY <1>1, <2>3, <3>3, SessionConstants DEF TypeOK
      <4>2. QED
        BY <1>2, <2>3, <3>3, <4>1, IssueStands
    <3>4. CASE s # t
      <4>1. Same(t)
        BY <1>1, <2>1, <2>3, <3>4 DEF Same, TypeOK
      <4>2. QED
        BY <1>1, <3>2, <3>4, <4>1, PassingStands
    <3>5. QED
      BY <3>3, <3>4
  <2>4. QED
    BY <1>2, <2>2, <2>3 DEF CreateRead
<1>3. CASE CreateInsert(r)
  <2>1. /\ call[r].pc = "c_insert" /\ call[r].tok \in Tokens
        /\ row' = [row EXCEPT ![call[r].tok] = "active"]
        /\ UNCHANGED <<status, owner, cache>>
        /\ row[call[r].tok] = "none"
    BY <1>1, <1>3, InvParts DEF CreateInsert, HasRow, TokenSteps, Steps, TokensAreFresh
  <2>2. call'[r].pc = "c_store" /\ call'[r].tok = call[r].tok
    BY <1>1, <1>3 DEF CreateInsert, Goto, Call
  <2>3. CASE call[r].tok = t
    BY <1>1, <2>1, <2>2, <2>3, RefillStands DEF Refills, TypeOK
  <2>4. CASE call[r].tok # t
    <3>1. Same(t) /\ Stands(call[r], t)'
      BY <1>1, <2>1, <2>2, <2>4 DEF Same, Stands, TypeOK
    <3>2. QED
      BY <1>1, <3>1, StepStands
  <2>5. QED
    BY <2>3, <2>4
<1>4. CASE CreateStore(r)
  <2>1. /\ call[r].pc = "c_store" /\ call[r].tok \in Tokens
        /\ UNCHANGED <<status, owner, row>>
        /\ call'[r].pc = "idle"
    BY <1>1, <1>4 DEF CreateStore, Return, Idle, HasRow, TokenSteps, Steps
  <2>2. CASE call[r].tok = t
    <3>1. row[t] # "revoked"
      BY <2>1, <2>2 DEF Undisturbed, Stands
    <3>2. QED
      BY <1>1, <2>1, <2>2, <3>1, RefillStands DEF Refills
  <2>3. CASE call[r].tok # t
    <3>1. Same(t)
      BY <1>1, <1>4, <2>1, <2>3 DEF Same, CreateStore, Rejected, CachePut, TypeOK
    <3>2. QED
      BY <1>1, <2>1, <3>1, PassingStands
  <2>4. QED
    BY <2>2, <2>3
<1>5. QED
  BY <1>2, <1>3, <1>4

\* validateSession disturbs nothing that does not meet it.
LEMMA ValidateStands ==
  ASSUME SessionInv, SessionInv', NEW t \in Tokens, Undisturbed(t), ~Meets(t)', NEW r \in Reqs,
         \/ ValidateHit(r) \/ ValidatePurge(r) \/ ValidateQuery(r)
         \/ ValidateFound(r) \/ ValidateStore(r)
         \/ \E s \in Tokens : ValidateGet(r, s)
  PROVE  Undisturbed(t)'
<1>1. /\ TypeOK /\ call[r] \in Call /\ HasRow(call[r])
      /\ \A q \in Reqs : q # r => call'[q] = call[q]
      /\ ~Suspends(call[r], owner[t])
      /\ UNCHANGED <<status, row, owner>>
      /\ \A c : Resume(r, c) => call'[r] = c
  BY InvParts, OtherCalls
  DEF TypeOK, CallInv, Begin, Continue, Suspends, ValidateHit, ValidatePurge,
      ValidateQuery, ValidateFound, ValidateStore, ValidateGet, stored, Resume
<1>2. \A a : Return(r, a) => call'[r].pc = "idle"
  BY <1>1 DEF Return, Idle
<1>3. ASSUME NEW s \in Tokens, ValidateGet(r, s) PROVE Undisturbed(t)'
  <2>1. call'[r].pc \in {"v_hit", "v_query"}
    <3>1. PICK hit \in BOOLEAN :
             Resume(r, [Idle EXCEPT !.pc = IF hit THEN "v_hit" ELSE "v_query",
                                    !.tok = s,
                                    !.seen = IF hit THEN cache[s].status ELSE @,
                                    !.stamp = IF hit THEN @ ELSE life[s],
                                    !.began = EndedNow(s)])
      BY <1>3 DEF ValidateGet, Start
    <3>2. QED
      BY <1>1, <3>1 DEF Idle
  <2>2. Same(t)
    BY <1>1, <1>3 DEF ValidateGet, Same
  <2>3. QED
    BY <1>1, <2>1, <2>2, PassingStands
<1>4. CASE ValidateHit(r)
  <2>1. call'[r].pc \in {"v_purge", "idle"}
    BY <1>1, <1>2, <1>4 DEF ValidateHit, Goto, Call
  <2>2. Same(t)
    BY <1>1, <1>4 DEF ValidateHit, Same
  <2>3. QED
    BY <1>1, <2>1, <2>2, PassingStands
<1>5. CASE ValidatePurge(r)
  <2>1. call'[r].pc \in {"v_query", "idle"}
    BY <1>1, <1>2, <1>5 DEF ValidatePurge, Call
  <2>2. CacheDelete(call[r].tok) \/ UNCHANGED cache
    BY <1>5 DEF ValidatePurge, Rejected
  <2>3. Same(t)
    BY <1>1, <2>2 DEF Same, CacheDelete, CachePut, NoEntry, TypeOK
  <2>4. QED
    BY <1>1, <2>1, <2>3, PassingStands
<1>6. CASE ValidateQuery(r)
  <2>1. Same(t)
    BY <1>1, <1>6 DEF ValidateQuery, Same
  <2>2. CASE Return(r, "ended")
    BY <1>1, <1>2, <2>1, <2>2, PassingStands
  <2>3. CASE /\ RowFound(call[r].tok, call[r].stamp)
             /\ Resume(r, [call[r] EXCEPT !.pc = "v_found",
                                          !.seen = status[owner[call[r].tok]]])
    <3>1. call'[r].pc = "v_found" /\ call'[r].tok = call[r].tok
      BY <1>1, <2>3 DEF Call
    <3>2. row'[call[r].tok] = "active"
      BY <1>1, <2>3 DEF RowFound
    <3>3. Stands(call[r], t)'
      BY <3>1, <3>2 DEF Stands
    <3>4. QED
      BY <1>1, <2>1, <3>3, StepStands
  <2>4. QED
    BY <1>6, <2>2, <2>3 DEF ValidateQuery
<1>7. CASE ValidateFound(r)
  <2>1. Same(t)
    BY <1>1, <1>7 DEF ValidateFound, Same
  <2>2. CASE Return(r, "refused")
    BY <1>1, <1>2, <2>1, <2>2, PassingStands
  <2>3. ASSUME NEW n, Resume(r, [call[r] EXCEPT !.pc = "v_store", !.stamp = n])
        PROVE  Undisturbed(t)'
    <3>1. call'[r].pc = "v_store" /\ call'[r].tok = call[r].tok
      BY <1>1, <2>3 DEF Call
    <3>2. call[r].tok = t => row[t] # "revoked"
      BY <1>7 DEF ValidateFound, Undisturbed, Stands, Filling
    <3>3. Stands(call[r], t)'
      BY <1>1, <3>1, <3>2 DEF Stands
    <3>4. QED
      BY <1>1, <2>1, <3>3, StepStands
  <2>4. QED
    BY <1>7, <2>2, <2>3 DEF ValidateFound
<1>8. CASE ValidateStore(r)
  <2>1. call[r].pc = "v_store" /\ call[r].tok \in Tokens /\ call'[r].pc = "idle"
    BY <1>1, <1>2, <1>8 DEF ValidateStore, HasRow, TokenSteps, Steps
  <2>2. CASE call[r].tok = t
    <3>1. row[t] # "revoked"
      BY <2>1, <2>2 DEF Undisturbed, Stands, Filling
    <3>2. QED
      BY <1>1, <2>1, <2>2, <3>1, RefillStands DEF Refills
  <2>3. CASE call[r].tok # t
    <3>1. Same(t)
      BY <1>1, <1>8, <2>1, <2>3 DEF Same, ValidateStore, Rejected, CachePut, TypeOK
    <3>2. QED
      BY <1>1, <2>1, <3>1, PassingStands
  <2>4. QED
    BY <2>2, <2>3
<1>9. QED
  BY <1>3, <1>4, <1>5, <1>6, <1>7, <1>8

\* Logging out revokes the session once its copy is deleted.
LEMMA LogoutStands ==
  ASSUME SessionInv, SessionInv', NEW t \in Tokens, Undisturbed(t), ~Meets(t)', NEW r \in Reqs,
         RevokeUpdate(r) \/ \E s \in Tokens : RevokeDelete(r, s)
  PROVE  Undisturbed(t)'
<1>1. /\ TypeOK /\ call[r] \in Call
      /\ \A q \in Reqs : q # r => call'[q] = call[q]
      /\ ~Suspends(call[r], owner[t])
      /\ UNCHANGED <<status, owner>>
      /\ \A c : Resume(r, c) => call'[r] = c
  BY InvParts, OtherCalls
  DEF TypeOK, Begin, Continue, Suspends, RevokeUpdate, RevokeDelete, stored, Resume
<1>2. CASE RevokeUpdate(r)
  <2>1. /\ call[r].pc = "r_update" /\ call'[r].pc = "idle" /\ UNCHANGED cache
        /\ row'[t] = IF t = call[r].tok /\ row[t] = "active" THEN "revoked" ELSE row[t]
    BY <1>1, <1>2 DEF RevokeUpdate, Return, Idle, RevokeRows
  <2>2. CASE call[r].tok = t
    <3>1. cache[t].ttl = 0 /\ Revokes(call[r], t, owner[t])
      BY <2>1, <2>2 DEF Undisturbed, Stands, Revokes
    <3>2. row'[t] = IF row[t] = "active" THEN "revoked" ELSE row[t]
      BY <2>1, <2>2
    <3>3. QED
      BY <1>1, <2>1, <3>1, <3>2, RevokeStands
  <2>3. CASE call[r].tok # t
    <3>1. Same(t)
      BY <1>1, <2>1, <2>3 DEF Same
    <3>2. QED
      BY <1>1, <2>1, <3>1, PassingStands
  <2>4. QED
    BY <2>2, <2>3
<1>3. ASSUME NEW s \in Tokens, RevokeDelete(r, s) PROVE Undisturbed(t)'
  <2>1. Same(t)
    <3>1. UNCHANGED row /\ (CacheDelete(s) \/ UNCHANGED cache)
      BY <1>3 DEF RevokeDelete, Rejected, stored
    <3>2. QED
      BY <1>1, <3>1 DEF Same, CacheDelete, CachePut, NoEntry, TypeOK
  <2>2. CASE Return(r, "error")
    <3>1. call'[r].pc = "idle"
      BY <1>1, <2>2 DEF Return, Idle
    <3>2. QED
      BY <1>1, <2>1, <3>1, PassingStands
  <2>3. CASE CacheDelete(s) /\ Start(r, [Idle EXCEPT !.pc = "r_update", !.tok = s])
    <3>1. call'[r].pc = "r_update" /\ call'[r].tok = s
      BY <1>1, <2>3 DEF Start, Idle
    <3>2. cache'[s].ttl = 0
      BY <1>1, <2>3 DEF CacheDelete, CachePut, NoEntry, TypeOK
    <3>3. Stands(call[r], t)'
      BY <3>1, <3>2 DEF Stands, Filling
    <3>4. QED
      BY <1>1, <2>1, <3>3, StepStands
  <2>4. QED
    BY <1>3, <2>2, <2>3 DEF RevokeDelete
<1>4. QED
  BY <1>2, <1>3

\* Suspending revokes each session of the user once its copy is deleted.
LEMMA SuspendStands ==
  ASSUME SessionInv, SessionInv', NEW t \in Tokens, Undisturbed(t), ~Meets(t)', ~Leaves(t),
         NEW r \in Reqs,
         \/ RevokeAllSelect(r) \/ RevokeAllUpdate(r)
         \/ \E s \in Tokens : RevokeAllDelete(r, s)
         \/ \E actor, u \in Users, s \in Status : StatusUpdate(r, actor, u, s)
  PROVE  Undisturbed(t)'
<1>1. /\ TypeOK /\ TypeOK' /\ call[r] \in Call
      /\ \A q \in Reqs : q # r => call'[q] = call[q]
      /\ UNCHANGED owner
      /\ \A c : Resume(r, c) => call'[r] = c
  BY InvParts, OtherCalls
  DEF SessionInv, TypeOK, Begin, Continue, RevokeAllSelect, RevokeAllUpdate,
      RevokeAllDelete, StatusUpdate, stored, Resume
<1>2. CASE RevokeAllSelect(r)
  <2>1. /\ call'[r].pc = "s_delete" /\ call'[r].user = call[r].user
        /\ call'[r].todo = SessionsOf(call[r].user)
    BY <1>1, <1>2 DEF RevokeAllSelect, Call
  <2>2. Same(t) /\ UNCHANGED row
    BY <1>2 DEF Same, RevokeAllSelect, stored
  <2>3. Stands(call[r], t)'
    BY <1>1, <2>1, <2>2 DEF Stands, Filling, SessionsOf
  <2>4. Suspends(call[r], owner[t]) => Suspends(call'[r], owner[t])
    BY <2>1 DEF Suspends
  <2>5. QED
    BY <1>1, <2>2, <2>3, <2>4, StepStands
<1>3. CASE RevokeAllUpdate(r)
  <2>1. /\ call[r].pc = "s_delete" /\ call[r].todo = {}
        /\ call'[r].pc = "idle" /\ UNCHANGED <<status, cache>>
        /\ row'[t] = IF owner[t] = call[r].user /\ row[t] = "active"
                     THEN "revoked" ELSE row[t]
    BY <1>1, <1>3 DEF RevokeAllUpdate, Return, Idle, RevokeRows, SessionsOf
  <2>2. CASE call[r].user = owner[t]
    <3>1. row[t] = "active" => cache[t].ttl = 0
      BY <2>1, <2>2 DEF Undisturbed, Stands
    <3>2. Revokes(call[r], t, owner[t])
      BY <2>1, <2>2 DEF Revokes, Suspends
    <3>3. row'[t] = IF row[t] = "active" THEN "revoked" ELSE row[t]
      BY <2>1, <2>2
    <3>4. QED
      BY <1>1, <2>1, <3>1, <3>2, <3>3, RevokeStands
  <2>3. CASE call[r].user # owner[t]
    <3>1. Same(t) /\ ~Suspends(call[r], owner[t])
      BY <1>1, <2>1, <2>3 DEF Same, Suspends
    <3>2. QED
      BY <1>1, <2>1, <3>1, PassingStands
  <2>4. QED
    BY <2>2, <2>3
<1>4. ASSUME NEW s \in Tokens, RevokeAllDelete(r, s) PROVE Undisturbed(t)'
  <2>1. /\ call[r].pc = "s_delete" /\ call'[r].pc = "s_delete"
        /\ call'[r].user = call[r].user
        /\ call'[r].todo = call[r].todo \ {s} /\ s \in call[r].todo
        /\ UNCHANGED row
    BY <1>1, <1>4 DEF RevokeAllDelete, Call, stored
  <2>2. Same(t)
    BY <1>1, <1>4
    DEF Same, RevokeAllDelete, Rejected, CacheDelete, CachePut, NoEntry, stored, TypeOK
  <2>3. s = t => cache'[t].ttl = 0
    <3>1. s = t => ~(cache'[t].ttl > 0)
      BY <2>1 DEF Leaves
    <3>2. cache'[t].ttl \in Nat
      BY <1>1, SessionConstants DEF TypeOK, Entry
    <3>3. QED
      BY <3>1, <3>2
  <2>4. Stands(call[r], t)'
    <3>1. Stands(call[r], t)
      BY DEF Undisturbed
    <3>2. QED
      BY <1>1, <2>1, <2>2, <2>3, <3>1 DEF Stands, Same, Filling
  <2>5. Suspends(call[r], owner[t]) => Suspends(call'[r], owner[t])
    BY <2>1 DEF Suspends
  <2>6. QED
    BY <1>1, <2>2, <2>4, <2>5, StepStands
<1>5. ASSUME NEW actor \in Users, NEW u \in Users, NEW s \in Status,
             StatusUpdate(r, actor, u, s)
      PROVE  Undisturbed(t)'
  <2>1. CASE owner[t] = u
    BY <1>5, <2>1, StatusStands
  <2>2. CASE owner[t] # u
    <3>1. Same(t) /\ ~Suspends(call[r], owner[t])
      BY <1>1, <1>5, <2>2 DEF Same, StatusUpdate, Suspends, TypeOK
    <3>2. CASE call'[r].pc = "idle"
      BY <1>1, <3>1, <3>2, PassingStands
    <3>3. CASE Start(r, [Idle EXCEPT !.pc = "s_select", !.user = u])
      <4>1. call'[r].pc = "s_select"
        BY <1>1, <3>3 DEF Start, Idle
      <4>2. Stands(call[r], t)'
        BY <4>1 DEF Stands, Filling
      <4>3. QED
        BY <1>1, <3>1, <4>2, StepStands
    <3>4. Return(r, "done") => call'[r].pc = "idle"
      BY <1>1 DEF Return, Idle
    <3>5. QED
      BY <1>5, <3>2, <3>3, <3>4 DEF StatusUpdate
  <2>3. QED
    BY <2>1, <2>2
<1>6. QED
  BY <1>2, <1>3, <1>4, <1>5

\* Neither does the environment, but for a revocation it ends.
LEMMA OutsideStands ==
  ASSUME SessionInv, SessionInv', NEW t \in Tokens, Undisturbed(t), ~Meets(t)', ~Fails(t),
         Tick \/ (\E s \in Tokens : Evict(s)) \/ \E r \in Reqs : Abort(r)
  PROVE  Undisturbed(t)'
<1>1. TypeOK
  BY InvParts
<1>2. CASE Tick
  <2>1. Same(t) /\ UNCHANGED call
    BY <1>1, <1>2 DEF Same, Tick, stored, NoEntry
  <2>2. QED
    BY <2>1, NobodyStands
<1>3. ASSUME NEW s \in Tokens, Evict(s) PROVE Undisturbed(t)'
  <2>1. Same(t) /\ UNCHANGED call
    BY <1>1, <1>3 DEF Same, Evict, CacheDelete, CachePut, stored, NoEntry, TypeOK
  <2>2. QED
    BY <2>1, NobodyStands
<1>4. ASSUME NEW r \in Reqs, Abort(r) PROVE Undisturbed(t)'
  <2>1. Same(t)
    BY <1>4 DEF Abort, Same, stored
  <2>2. call'[r].pc = "idle" /\ answer'[r] = "error"
    BY <1>1, <1>4 DEF Abort, Return, Resume, Idle, TypeOK
  <2>3. ~Suspends(call[r], owner[t])
    BY <2>2 DEF Fails, Revokes
  <2>4. \A q \in Reqs : q # r => call'[q] = call[q]
    BY <1>4, OtherCalls
  <2>5. QED
    BY <2>1, <2>2, <2>3, <2>4, PassingStands
<1>5. QED
  BY <1>2, <1>3, <1>4

RevocationInv == \A t \in Tokens \ disturbed : Undisturbed(t)

\* Every step preserves it.
LEMMA RevocationStep ==
  SessionInv /\ SessionInv' /\ RevocationInv /\ [Next /\ Watch]_<<vars, disturbed>>
    => RevocationInv'
<1> SUFFICES ASSUME SessionInv, SessionInv', RevocationInv,
                    [Next /\ Watch]_<<vars, disturbed>>
             PROVE  RevocationInv'
  OBVIOUS
<1>1. CASE UNCHANGED <<vars, disturbed>>
  BY <1>1
  DEF vars, RevocationInv, Undisturbed, Meets, Revokes, Suspends, Refills, Attended,
      Stands, Filling
<1>2. ASSUME Next, Watch, NEW t \in Tokens, t \notin disturbed' PROVE Undisturbed(t)'
  <2>1. Undisturbed(t) /\ ~Meets(t)' /\ ~Fails(t) /\ ~Leaves(t)
    BY <1>2 DEF Watch, RevocationInv
  <2>2. ASSUME NEW r \in Reqs, Begin(r) \/ Continue(r) PROVE Undisturbed(t)'
    BY <2>1, <2>2, CreateStands, ValidateStands, LogoutStands, SuspendStands
    DEF Begin, Continue
  <2>3. QED
    BY <1>2, <2>1, <2>2, OutsideStands DEF Next
<1>3. QED
  BY <1>1, <1>2 DEF RevocationInv

(***************************************************************************)
(* Revoking a session, by logout or by a change of status, leaves neither  *)
(* an unattended active row nor a copy, unless a call was on its way to    *)
(* store one of them meanwhile, or the revocation itself failed.           *)
(***************************************************************************)
THEOREM UndisturbedRevocation == RevocationSpec => []RevocationIsWhole
<1>1. RevocationSpec => []SessionInv
  <2>1. [Next /\ Watch]_<<vars, disturbed>> => [Next]_vars
    OBVIOUS
  <2>2. SessionInv /\ [Next]_vars => SessionInv'
    BY StepInv
  <2>3. QED
    BY <2>1, <2>2, InitInv, PTL DEF RevocationSpec
<1>2. disturbed = {} /\ Init => RevocationInv
  BY DEF Init, Idle, RevocationInv, Undisturbed, Meets, Revokes, Suspends, Refills,
     Attended, Stands, Filling
<1>3. RevocationInv => RevocationIsWhole
  BY DEF RevocationInv, RevocationIsWhole, Undisturbed, Attended
<1>4. QED
  BY <1>1, <1>2, <1>3, RevocationStep, PTL DEF RevocationSpec
=================================================================================
