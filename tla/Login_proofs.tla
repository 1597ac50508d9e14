----------------------------- MODULE Login_proofs -----------------------------
(***************************************************************************)
(* Proofs about Login, for any number of attempts in flight, any threshold *)
(* and any window.                                                         *)
(***************************************************************************)
EXTENDS Counting, FiniteSetTheorems, TLAPS

\* Any set of attempts is finite and has a size.
LEMMA AttemptsFinite ==
  ASSUME NEW U, U \subseteq Reqs
  PROVE  IsFiniteSet(U) /\ Cardinality(U) \in Nat
  BY LoginConstants, FS_Subset, FS_CardinalityType

\* So is the set of failures still to be counted.
LEMMA UncountedFinite ==
  IsFiniteSet(Uncounted) /\ Cardinality(Uncounted) \in Nat
  BY AttemptsFinite DEF Uncounted

\* How an attempt that moves changes the number of failures still to be counted.
LEMMA UncountedStep ==
  ASSUME TypeOK, NEW r \in Reqs, NEW c \in Call, Resume(r, c)
  PROVE  Cardinality(Uncounted') =
            Cardinality(Uncounted) + (IF c.pc = "f_get" THEN 1 ELSE 0)
                                   - (IF call[r].pc = "f_get" THEN 1 ELSE 0)
<1>1. \A q \in Reqs : call'[q] = IF q = r THEN c ELSE call[q]
  BY DEF Resume, TypeOK
<1>2. CASE c.pc = "f_get" /\ call[r].pc # "f_get"
  <2>1. Uncounted' = Uncounted \cup {r} /\ r \notin Uncounted
    BY <1>1, <1>2 DEF Uncounted
  <2>2. Cardinality(Uncounted \cup {r}) = Cardinality(Uncounted) + 1
    BY <2>1, UncountedFinite, FS_AddElement
  <2>3. QED
    BY <1>2, <2>1, <2>2, UncountedFinite
<1>3. CASE c.pc # "f_get" /\ call[r].pc = "f_get"
  <2>1. Uncounted' = Uncounted \ {r} /\ r \in Uncounted
    BY <1>1, <1>3 DEF Uncounted
  <2>2. Cardinality(Uncounted \ {r}) = Cardinality(Uncounted) - 1
    BY <2>1, UncountedFinite, FS_RemoveElement
  <2>3. QED
    BY <1>3, <2>1, <2>2, UncountedFinite
<1>4. CASE c.pc = "f_get" <=> call[r].pc = "f_get"
  <2>1. Uncounted' = Uncounted
    BY <1>1, <1>4 DEF Uncounted
  <2>2. QED
    BY <1>4, <2>1, UncountedFinite
<1>5. QED
  BY <1>2, <1>3, <1>4

\* A step of one attempt keeps the invariant if the count it reads, writes or
\* locks for is one that was at hand.
LEMMA CallStep ==
  ASSUME LoginInv, Remember, NEW r \in Reqs, NEW c \in Call, Resume(r, c),
         answer' \in [Reqs -> Answers],
         attempts' \in [n : 0..MaxAttempts, ttl : 0..Window],
         lock' \in [left : 0..Lockout, ttl : 0..Lockout],
         LockOutlasts', attempts'.ttl = 0 => attempts'.n = 0,
         \/ attempts'.n <= attempts.n
         \/ call[r].pc = "f_set" /\ attempts'.n = call[r].n,
         c.pc = "f_get" => call[r].pc = "verify",
         c.pc = "f_set" => call[r].pc = "f_get" /\ c.n = Counted(attempts.n),
         c.pc = "f_lock" => call[r].pc = "f_set" /\ LockDue(call[r].n)
  PROVE  LoginInv'
<1> DEFINE K == Cardinality(Uncounted)
<1>1. TypeOK /\ CountsMisses /\ (attempts.ttl = 0 => attempts.n = 0)
  BY DEF LoginInv
<1>2. \A q \in Reqs : call'[q] = IF q = r THEN c ELSE call[q]
  BY DEF LoginInv, Resume, TypeOK
<1>3. K \in Nat /\ K' \in Nat
  <2>1. Uncounted' \subseteq Reqs
    BY DEF Uncounted
  <2>2. QED
    BY <2>1, UncountedFinite, AttemptsFinite
<1>4. K' = K + (IF c.pc = "f_get" THEN 1 ELSE 0) - (IF call[r].pc = "f_get" THEN 1 ELSE 0)
  BY <1>1, UncountedStep
<1>5. /\ misses \in 0..MaxAttempts /\ span \in 0..Window /\ call \in [Reqs -> Call]
      /\ attempts.n \in 0..MaxAttempts /\ attempts'.n \in 0..MaxAttempts
      /\ \A q \in Reqs : call[q] \in Call /\ call[q].n \in 0..MaxAttempts
      /\ c.n \in 0..MaxAttempts /\ MaxAttempts \in Nat \ {0} /\ Window \in Nat \ {0}
  BY <1>1, LoginConstants DEF TypeOK, Call
<1>6. (\E q \in Reqs : Missed(q)) <=> c.pc = "f_get"
  <2>1. ASSUME NEW q \in Reqs, Missed(q) PROVE q = r
    BY <1>2, <2>1 DEF Missed
  <2>2. QED
    BY <1>2, <2>1 DEF Missed
<1>7. misses' = IF Clean' THEN 0 ELSE IF c.pc = "f_get" THEN Bump(misses) ELSE misses
  BY <1>6 DEF Remember
<1>8. TypeOK'
  <2>1. misses' \in 0..MaxAttempts
    BY <1>5, <1>7 DEF Bump
  <2>2. span' \in 0..Window
    BY <1>5 DEF Remember
  <2>3. call' \in [Reqs -> Call]
    BY <1>1 DEF Resume, TypeOK
  <2>4. QED
    BY <2>1, <2>2, <2>3 DEF TypeOK
<1>9. CASE Clean'
  <2>1. misses' = 0 /\ attempts'.n = 0
    BY <1>7, <1>9 DEF Clean
  <2>2. \A q \in Reqs : call'[q].pc \notin {"f_get", "f_set", "f_lock"}
    BY <1>9 DEF Clean
  <2>3. Uncounted' = {}
    BY <2>2 DEF Uncounted
  <2>4. K' = 0
    BY <2>3, FS_EmptySet
  <2>5. CountsMisses'
    BY <1>5, <2>1, <2>2, <2>4 DEF CountsMisses
  <2>6. QED
    BY <1>8, <2>5 DEF LoginInv
<1>10. CASE ~Clean'
  <2>1. misses' = IF c.pc = "f_get" THEN Bump(misses) ELSE misses
    BY <1>7, <1>10
  <2>2. misses' < MaxAttempts =>
           /\ misses < MaxAttempts
           /\ misses' = misses + (IF c.pc = "f_get" THEN 1 ELSE 0)
    BY <1>5, <2>1 DEF Bump
  <2>3. misses < MaxAttempts =>
           /\ attempts.n + K <= misses
           /\ \A q \in Reqs : call[q].pc = "f_set" => call[q].n + K <= misses
    BY <1>1 DEF CountsMisses
  <2>4. misses' < MaxAttempts => attempts'.n + K' <= misses'
    BY <1>3, <1>4, <1>5, <2>2, <2>3
  <2>5. ASSUME NEW q \in Reqs, call'[q].pc = "f_set", misses' < MaxAttempts
        PROVE  call'[q].n + K' <= misses'
    <3>1. CASE q = r
      <4>1. c.pc = "f_set" /\ call[r].pc = "f_get" /\ c.n = Counted(attempts.n)
        BY <1>2, <2>5, <3>1
      <4>2. c.n = attempts.n + 1
        BY <1>3, <1>5, <2>2, <2>3, <2>5, <4>1 DEF Counted, Bump
      <4>3. QED
        BY <1>2, <1>3, <1>4, <1>5, <2>2, <2>3, <2>5, <3>1, <4>1, <4>2
    <3>2. CASE q # r
      BY <1>2, <1>3, <1>4, <1>5, <2>2, <2>3, <2>5, <3>2
    <3>3. QED
      BY <3>1, <3>2
  <2>6. ASSUME NEW q \in Reqs, call'[q].pc = "f_lock" PROVE misses' = MaxAttempts
    <3>1. misses = MaxAttempts
      <4>1. CASE q = r
        BY <1>2, <1>3, <1>5, <2>3, <2>6, <4>1 DEF LockDue
      <4>2. CASE q # r
        BY <1>1, <1>2, <2>6, <4>2 DEF CountsMisses
      <4>3. QED
        BY <4>1, <4>2
    <3>2. QED
      BY <1>5, <2>1, <3>1 DEF Bump
  <2>7. CountsMisses'
    BY <2>4, <2>5, <2>6 DEF CountsMisses
  <2>8. QED
    BY <1>8, <2>7 DEF LoginInv
<1>11. QED
  BY <1>9, <1>10

\* The parts of the invariant that every action needs.
LEMMA Types ==
  ASSUME LoginInv
  PROVE  /\ TypeOK /\ LockOutlasts /\ (attempts.ttl = 0 => attempts.n = 0)
         /\ \A r \in Reqs : call[r] \in Call
  BY DEF LoginInv, TypeOK

\* The two absent keys are well typed.
LEMMA NoKeys ==
  /\ NoAttempts \in [n : 0..MaxAttempts, ttl : 0..Window]
  /\ NoLock \in [left : 0..Lockout, ttl : 0..Lockout]
  /\ Idle \in Call
  /\ NoAttempts.n = 0 /\ NoLock.left <= NoLock.ttl /\ Idle.pc = "idle"
  BY LoginConstants DEF NoAttempts, NoLock, Idle, Call, Steps

\* A step that leaves the count alone, or clears it, and moves to a step of its own.
LEMMA MoveStep ==
  ASSUME LoginInv, Remember, NEW r \in Reqs, NEW c \in Call, Resume(r, c),
         answer' \in [Reqs -> Answers],
         attempts' \in {attempts, NoAttempts},
         lock' \in {lock, NoLock},
         c.pc = "f_get" => call[r].pc = "verify",
         c.pc \notin {"f_set", "f_lock"}
  PROVE  LoginInv'
<1>1. /\ attempts' \in [n : 0..MaxAttempts, ttl : 0..Window]
      /\ lock' \in [left : 0..Lockout, ttl : 0..Lockout]
      /\ LockOutlasts' /\ (attempts'.ttl = 0 => attempts'.n = 0)
      /\ attempts'.n <= attempts.n
  BY Types, NoKeys, LoginConstants DEF TypeOK, LockOutlasts
<1>2. QED
  BY <1>1, CallStep

\* An attempt that returns, leaving the keys alone or deleting them, keeps the invariant.
LEMMA ReturnStep ==
  ASSUME LoginInv, Remember, NEW r \in Reqs, NEW a \in Answers, Return(r, a),
         attempts' \in {attempts, NoAttempts},
         lock' \in {lock, NoLock}
  PROVE  LoginInv'
<1>1. answer' \in [Reqs -> Answers]
  BY Types DEF Return, TypeOK
<1>2. QED
  BY <1>1, NoKeys, MoveStep DEF Return

\* So does one that only moves on, away from the counting steps.
LEMMA GotoStep ==
  ASSUME LoginInv, Remember, NEW r \in Reqs, NEW pc \in Steps, Goto(r, pc),
         attempts' \in {attempts, NoAttempts},
         lock' \in {lock, NoLock},
         pc = "f_get" => call[r].pc = "verify",
         pc \notin {"f_set", "f_lock"}
  PROVE  LoginInv'
<1>1. PICK c : c = [call[r] EXCEPT !.pc = pc]
  OBVIOUS
<1>2. c \in Call /\ c.pc = pc
  BY <1>1, Types DEF Call
<1>3. answer' \in [Reqs -> Answers] /\ Resume(r, c)
  BY <1>1, Types DEF Goto, TypeOK
<1>4. QED
  BY <1>2, <1>3, MoveStep

\* CheckGet preserves the invariant.
LEMMA CheckGetInv ==
  ASSUME LoginInv, Remember, NEW r \in Reqs, CheckGet(r)
  PROVE  LoginInv'
<1>1. /\ answer' \in [Reqs -> Answers]
      /\ UNCHANGED <<attempts, lock>>
      /\ lock.left \in 0..Lockout
  BY Types DEF CheckGet, TypeOK, Answers
<1>2. ASSUME NEW c \in {[Idle EXCEPT !.pc = "verify"],
                        [Idle EXCEPT !.pc = "k_read", !.left = lock.left]}
      PROVE  c \in Call /\ c.pc \in {"verify", "k_read"}
  BY <1>1, <1>2, NoKeys DEF Idle, Call, Steps
<1>3. PICK c \in {[Idle EXCEPT !.pc = "verify"],
                  [Idle EXCEPT !.pc = "k_read", !.left = lock.left]} : Resume(r, c)
  BY DEF CheckGet
<1>4. c \in Call /\ c.pc \in {"verify", "k_read"}
  BY <1>2
<1>5. QED
  BY <1>1, <1>3, <1>4, MoveStep

\* CheckRead preserves the invariant.
LEMMA CheckReadInv ==
  ASSUME LoginInv, Remember, NEW r \in Reqs, CheckRead(r)
  PROVE  LoginInv'
<1>1. UNCHANGED <<attempts, lock>>
  BY DEF CheckRead, Keep
<1>2. Return(r, "locked") \/ Goto(r, "k_delete")
  BY DEF CheckRead
<1>3. QED
  BY <1>1, <1>2, ReturnStep, GotoStep DEF Answers, Steps

\* CheckDelete preserves the invariant.
LEMMA CheckDeleteInv ==
  ASSUME LoginInv, Remember, NEW r \in Reqs, CheckDelete(r)
  PROVE  LoginInv'
  BY GotoStep DEF CheckDelete, Steps

\* Verify preserves the invariant.
LEMMA VerifyInv ==
  ASSUME LoginInv, Remember, NEW r \in Reqs, Verify(r)
  PROVE  LoginInv'
  BY GotoStep, ReturnStep DEF Verify, Steps, Answers

\* FailGet preserves the invariant.
LEMMA FailGetInv ==
  ASSUME LoginInv, Remember, NEW r \in Reqs, FailGet(r)
  PROVE  LoginInv'
<1>1. /\ call[r].pc = "f_get" /\ call[r] \in Call
      /\ UNCHANGED <<attempts, lock>>
      /\ TypeOK /\ LockOutlasts /\ (attempts.ttl = 0 => attempts.n = 0)
  BY Types DEF FailGet
<1>2. CASE Return(r, "wrong")
  BY <1>1, <1>2, ReturnStep DEF Answers
<1>3. CASE /\ Resume(r, [call[r] EXCEPT !.pc = "f_set", !.n = Counted(attempts.n)])
           /\ UNCHANGED answer
  <2>1. attempts.n \in 0..MaxAttempts /\ Counted(attempts.n) \in 0..MaxAttempts
    BY <1>1, LoginConstants DEF TypeOK, Counted, Bump
  <2>2. PICK c : c = [call[r] EXCEPT !.pc = "f_set", !.n = Counted(attempts.n)]
    OBVIOUS
  <2>3. c \in Call /\ c.pc = "f_set" /\ c.n = Counted(attempts.n)
    BY <1>1, <2>1, <2>2 DEF Call, Steps
  <2>4. /\ attempts' \in [n : 0..MaxAttempts, ttl : 0..Window]
        /\ lock' \in [left : 0..Lockout, ttl : 0..Lockout]
        /\ answer' \in [Reqs -> Answers]
        /\ LockOutlasts' /\ (attempts'.ttl = 0 => attempts'.n = 0)
        /\ attempts'.n <= attempts.n
    BY <1>1, <1>3, <2>1 DEF TypeOK, LockOutlasts
  <2>5. QED
    BY <1>1, <1>3, <2>2, <2>3, <2>4, CallStep
<1>4. QED
  BY <1>2, <1>3 DEF FailGet

\* FailSet preserves the invariant.
LEMMA FailSetInv ==
  ASSUME LoginInv, Remember, NEW r \in Reqs, FailSet(r)
  PROVE  LoginInv'
<1>1. /\ call[r].pc = "f_set" /\ call[r] \in Call
      /\ UNCHANGED lock
      /\ TypeOK /\ LockOutlasts /\ (attempts.ttl = 0 => attempts.n = 0)
  BY Types DEF FailSet
<1>2. CASE UNCHANGED attempts /\ Return(r, "wrong")
  BY <1>1, <1>2, ReturnStep DEF Answers
<1>3. CASE attempts' = [n |-> call[r].n, ttl |-> Window]
  <2>1. /\ attempts' \in [n : 0..MaxAttempts, ttl : 0..Window]
        /\ lock' \in [left : 0..Lockout, ttl : 0..Lockout]
        /\ LockOutlasts' /\ (attempts'.ttl = 0 => attempts'.n = 0)
        /\ attempts'.n = call[r].n
    BY <1>1, <1>3, LoginConstants DEF TypeOK, Call, LockOutlasts
  <2>2. CASE Return(r, "wrong")
    <3>1. answer' \in [Reqs -> Answers]
      BY <1>1, <2>2 DEF Return, TypeOK, Answers
    <3>2. QED
      BY <1>1, <2>1, <2>2, <3>1, NoKeys, CallStep DEF Return
  <2>3. CASE /\ LockDue(call[r].n)
             /\ Resume(r, [call[r] EXCEPT !.pc = "f_lock", !.left = Lockout])
             /\ UNCHANGED answer
    <3>1. PICK c : c = [call[r] EXCEPT !.pc = "f_lock", !.left = Lockout]
      OBVIOUS
    <3>2. Lockout \in 0..Lockout /\ "f_lock" \in Steps
      BY LoginConstants DEF Steps
    <3>3. c \in Call /\ c.pc = "f_lock"
      BY <1>1, <3>1, <3>2 DEF Call
    <3>4. answer' \in [Reqs -> Answers]
      BY <1>1, <2>3 DEF TypeOK
    <3>5. QED
      BY <1>1, <2>1, <2>3, <3>1, <3>3, <3>4, CallStep
  <2>4. QED
    BY <1>2, <1>3, <2>2, <2>3 DEF FailSet
<1>4. QED
  BY <1>2, <1>3 DEF FailSet

\* FailLock preserves the invariant.
LEMMA FailLockInv ==
  ASSUME LoginInv, Remember, NEW r \in Reqs, FailLock(r)
  PROVE  LoginInv'
<1>1. /\ call[r].pc = "f_lock" /\ call[r] \in Call
      /\ UNCHANGED attempts
      /\ TypeOK /\ LockOutlasts /\ (attempts.ttl = 0 => attempts.n = 0)
  BY Types DEF FailLock
<1>2. CASE UNCHANGED lock
  BY <1>1, <1>2, ReturnStep, GotoStep DEF FailLock, Answers, Steps
<1>3. CASE lock' = [left |-> call[r].left, ttl |-> Lockout]
  <2>1. /\ attempts' \in [n : 0..MaxAttempts, ttl : 0..Window]
        /\ lock' \in [left : 0..Lockout, ttl : 0..Lockout]
        /\ LockOutlasts' /\ (attempts'.ttl = 0 => attempts'.n = 0)
        /\ attempts'.n <= attempts.n
    BY <1>1, <1>3, LoginConstants DEF TypeOK, Call, LockOutlasts
  <2>2. CASE Return(r, "wrong")
    <3>1. answer' \in [Reqs -> Answers]
      BY <1>1, <2>2 DEF Return, TypeOK, Answers
    <3>2. QED
      BY <1>1, <2>1, <2>2, <3>1, NoKeys, CallStep DEF Return
  <2>3. CASE Goto(r, "f_clear")
    <3>1. PICK c : c = [call[r] EXCEPT !.pc = "f_clear"]
      OBVIOUS
    <3>2. c \in Call /\ c.pc = "f_clear"
      BY <1>1, <3>1 DEF Call, Steps
    <3>3. answer' \in [Reqs -> Answers] /\ Resume(r, c)
      BY <1>1, <2>3, <3>1 DEF Goto, TypeOK
    <3>4. QED
      BY <1>1, <2>1, <3>2, <3>3, CallStep
  <2>4. QED
    BY <2>2, <2>3 DEF FailLock
<1>4. QED
  BY <1>2, <1>3 DEF FailLock

\* FailClear preserves the invariant.
LEMMA FailClearInv ==
  ASSUME LoginInv, Remember, NEW r \in Reqs, FailClear(r)
  PROVE  LoginInv'
  BY ReturnStep DEF FailClear, Answers

\* recordSuccess and createSession: they only delete.
LEMMA SuccessInv ==
  ASSUME LoginInv, Remember, NEW r \in Reqs,
         SuccessAttempts(r) \/ SuccessLock(r) \/ Create(r)
  PROVE  LoginInv'
<1>1. CASE SuccessAttempts(r)
  BY <1>1, GotoStep DEF SuccessAttempts, Steps
<1>2. CASE SuccessLock(r)
  BY <1>2, GotoStep DEF SuccessLock, Steps
<1>3. CASE Create(r)
  BY <1>3, ReturnStep DEF Create, Answers
<1>4. QED
  BY <1>1, <1>2, <1>3

\* Abort preserves the invariant.
LEMMA AbortInv ==
  ASSUME LoginInv, Remember, NEW r \in Reqs, Abort(r)
  PROVE  LoginInv'
  BY ReturnStep DEF Abort, Answers

\* A step of the environment moves no attempt and leaves no count but the stored one.
LEMMA EnvironmentStep ==
  ASSUME LoginInv, Remember,
         call' \in [Reqs -> Call],
         \A r \in Reqs : call'[r].pc = call[r].pc /\ call'[r].n = call[r].n,
         UNCHANGED answer,
         attempts' \in [n : 0..MaxAttempts, ttl : 0..Window],
         attempts'.n <= attempts.n, attempts'.ttl = 0 => attempts'.n = 0,
         lock' \in [left : 0..Lockout, ttl : 0..Lockout],
         LockOutlasts'
  PROVE  LoginInv'
<1>1. Uncounted' = Uncounted
  BY DEF Uncounted
<1>2. Cardinality(Uncounted) \in Nat /\ Cardinality(Uncounted') = Cardinality(Uncounted)
  BY <1>1, UncountedFinite
<1>3. ~\E r \in Reqs : Missed(r)
  BY DEF Missed
<1>4. misses' = IF Clean' THEN 0 ELSE misses
  BY <1>3 DEF Remember
<1>5. /\ misses \in 0..MaxAttempts /\ span \in 0..Window /\ attempts.n \in 0..MaxAttempts
      /\ attempts'.n \in 0..MaxAttempts /\ MaxAttempts \in Nat \ {0}
  BY Types, LoginConstants DEF TypeOK
<1>6. span' \in 0..Window
  BY <1>5, LoginConstants DEF Remember
<1>7. TypeOK'
  BY <1>4, <1>5, <1>6, Types DEF TypeOK
<1>8. CASE Clean'
  <2>1. misses' = 0 /\ attempts'.n = 0
    BY <1>4, <1>8 DEF Clean
  <2>2. \A q \in Reqs : call'[q].pc \notin {"f_get", "f_set", "f_lock"}
    BY <1>8 DEF Clean
  <2>3. Uncounted' = {}
    BY <2>2 DEF Uncounted
  <2>4. Cardinality(Uncounted') = 0
    BY <2>3, FS_EmptySet
  <2>5. CountsMisses'
    BY <1>5, <2>1, <2>2, <2>4 DEF CountsMisses
  <2>6. QED
    BY <1>7, <2>5 DEF LoginInv
<1>9. CASE ~Clean'
  <2>1. misses' = misses /\ CountsMisses
    BY <1>4, <1>9 DEF LoginInv
  <2>2. CountsMisses'
    BY <1>2, <1>5, <2>1 DEF CountsMisses
  <2>3. QED
    BY <1>7, <2>2 DEF LoginInv
<1>10. QED
  BY <1>8, <1>9

\* Tick preserves the invariant.
LEMMA TickInv ==
  ASSUME LoginInv, Remember, Tick
  PROVE  LoginInv'
<1>1. TypeOK /\ LockOutlasts /\ \A r \in Reqs : call[r] \in Call
  BY Types
<1>2. /\ attempts.n \in 0..MaxAttempts /\ attempts.ttl \in 0..Window
      /\ lock.left \in 0..Lockout /\ lock.ttl \in 0..Lockout /\ lock.left <= lock.ttl
      /\ attempts \in [n : 0..MaxAttempts, ttl : 0..Window]
  BY <1>1 DEF TypeOK, LockOutlasts
<1>3. /\ attempts' \in [n : 0..MaxAttempts, ttl : 0..Window]
      /\ attempts'.n <= attempts.n
      /\ attempts'.ttl = 0 => attempts'.n = 0
  <2>1. CASE attempts.ttl > 1
    <3>1. attempts' = [attempts EXCEPT !.ttl = @ - 1]
      BY <2>1 DEF Tick
    <3>2. attempts' \in [n : 0..MaxAttempts, ttl : 0..Window]
      BY <1>2, <2>1, <3>1, LoginConstants
    <3>3. attempts'.n = attempts.n /\ attempts'.ttl = attempts.ttl - 1
      BY <1>2, <3>1
    <3>4. QED
      BY <1>2, <2>1, <3>2, <3>3, LoginConstants
  <2>2. CASE ~(attempts.ttl > 1)
    <3>1. attempts' = NoAttempts
      BY <2>2 DEF Tick
    <3>2. QED
      BY <1>2, <3>1, NoKeys, LoginConstants
  <2>3. QED
    BY <2>1, <2>2
<1>4. lock' \in [left : 0..Lockout, ttl : 0..Lockout] /\ LockOutlasts'
  <2>1. CASE lock.ttl > 1
    <3>1. lock' = [left |-> Less(lock.left), ttl |-> lock.ttl - 1]
      BY <2>1 DEF Tick
    <3>2. Less(lock.left) \in 0..Lockout /\ Less(lock.left) <= lock.ttl - 1
      BY <1>2, <2>1, LoginConstants DEF Less
    <3>3. QED
      BY <1>2, <2>1, <3>1, <3>2, LoginConstants DEF LockOutlasts
  <2>2. CASE ~(lock.ttl > 1)
    BY <2>2, NoKeys DEF Tick, LockOutlasts
  <2>3. QED
    BY <2>1, <2>2
<1>5. ASSUME NEW r \in Reqs
      PROVE  call'[r] \in Call /\ call'[r].pc = call[r].pc /\ call'[r].n = call[r].n
  <2>1. call[r].left \in 0..Lockout /\ call[r] \in Call
    BY <1>1 DEF Call
  <2>2. Less(call[r].left) \in 0..Lockout
    BY <2>1, LoginConstants DEF Less
  <2>3. call'[r] = [call[r] EXCEPT !.left = Less(@)]
    BY DEF Tick
  <2>4. QED
    BY <2>1, <2>2, <2>3 DEF Call
<1>6. call' \in [Reqs -> Call]
  BY <1>5 DEF Tick
<1>7. UNCHANGED answer
  BY DEF Tick
<1>8. QED
  BY <1>3, <1>4, <1>5, <1>6, <1>7, EnvironmentStep

\* Forget preserves the invariant.
LEMMA ForgetInv ==
  ASSUME LoginInv, Remember, Forget
  PROVE  LoginInv'
<1>1. /\ attempts' \in {attempts, NoAttempts} /\ lock' \in {lock, NoLock}
      /\ UNCHANGED <<call, answer>>
  BY DEF Forget
<1>2. /\ attempts' \in [n : 0..MaxAttempts, ttl : 0..Window]
      /\ lock' \in [left : 0..Lockout, ttl : 0..Lockout]
      /\ LockOutlasts' /\ (attempts'.ttl = 0 => attempts'.n = 0)
      /\ attempts'.n <= attempts.n
  BY <1>1, Types, NoKeys, LoginConstants DEF TypeOK, LockOutlasts
<1>3. call' \in [Reqs -> Call]
  BY <1>1, Types DEF TypeOK
<1>4. QED
  BY <1>1, <1>2, <1>3, EnvironmentStep

\* No attempt, no key: the invariant holds at the start.
LEMMA InitInv == Init => LoginInv
<1> SUFFICES ASSUME Init PROVE LoginInv
  OBVIOUS
<1>1. TypeOK /\ LockOutlasts /\ attempts.n = 0
  BY NoKeys, LoginConstants DEF Init, TypeOK, LockOutlasts, Answers
<1>2. Uncounted = {} /\ \A r \in Reqs : call[r].pc = "idle"
  BY NoKeys DEF Init, Uncounted
<1>3. Cardinality(Uncounted) = 0
  BY <1>2, FS_EmptySet
<1>4. CountsMisses
  BY <1>1, <1>2, <1>3, LoginConstants DEF Init, CountsMisses
<1>5. QED
  BY <1>1, <1>4 DEF LoginInv

\* Every step preserves the invariant.
LEMMA NextInv == LoginInv /\ [Next]_vars => LoginInv'
<1> SUFFICES ASSUME LoginInv, [Next]_vars PROVE LoginInv'
  OBVIOUS
<1>1. CASE UNCHANGED vars
  <2>1. Uncounted' = Uncounted
    BY <1>1 DEF vars, Uncounted
  <2>2. Cardinality(Uncounted') = Cardinality(Uncounted)
    BY <2>1
  <2>3. QED
    BY <1>1, <2>2 DEF vars, LoginInv, TypeOK, CountsMisses, LockOutlasts
<1>2. ASSUME NEW r \in Reqs, CheckGet(r) \/ Continue(r) \/ Abort(r), Remember
      PROVE  LoginInv'
  BY <1>2, CheckGetInv, CheckReadInv, CheckDeleteInv, VerifyInv, FailGetInv, FailSetInv,
     FailLockInv, FailClearInv, SuccessInv, AbortInv
  DEF Continue
<1>3. QED
  BY <1>1, <1>2, TickInv, ForgetInv DEF Next, Step

(***************************************************************************)
(* The counts at hand never exceed the wrong passwords given, in whatever  *)
(* order the commands of the attempts run, and a lock's key outlasts the   *)
(* deadline in it.                                                         *)
(***************************************************************************)
THEOREM LoginInvariant == Spec => []LoginInv
  BY InitInv, NextInv, PTL DEF Spec

(***************************************************************************)
(* recordFailure (login-throttle.ts:73-94) locks an account only after     *)
(* MaxAttempts wrong passwords.                                            *)
(***************************************************************************)
THEOREM LockNeedsCause == Spec => LockHasCause
<1>1. ASSUME LoginInv, Next, Engages
      PROVE  misses = MaxAttempts
  <2>1. lock' # lock /\ lock' # NoLock
    BY <1>1 DEF Engages, Locked, NoLock
  <2>2. ~Forget
    BY <2>1 DEF Forget
  <2>3. ~Tick
    <3>1. lock.left \in 0..Lockout /\ lock.ttl \in 0..Lockout
      BY <1>1, Types DEF TypeOK
    <3>2. QED
      BY <1>1, <2>1, <3>1, LoginConstants DEF Tick, Engages, Locked, Less
  <2>4. PICK r \in Reqs : CheckGet(r) \/ Continue(r) \/ Abort(r)
    BY <1>1, <2>2, <2>3 DEF Next, Step
  <2>5. FailLock(r)
    BY <2>1, <2>4
    DEF CheckGet, Continue, Abort, CheckRead, Keep, CheckDelete, Verify, FailGet, FailSet,
        FailClear, SuccessAttempts, SuccessLock, Create
  <2>6. QED
    BY <1>1, <2>5 DEF FailLock, LoginInv, CountsMisses
<1>2. LoginInv /\ [Next]_vars => [Engages => misses = MaxAttempts]_vars
  BY <1>1 DEF vars
<1>3. QED
  BY <1>2, LoginInvariant, PTL DEF Spec, LockHasCause

\* An attempt on its way to delete a lock has found a deadline past.
DeletesPast == \A r \in Reqs : call[r].pc = "k_delete" => call[r].left = 0

LEMMA MovedPast ==
  ASSUME LoginInv, DeletesPast, NEW r \in Reqs, NEW c, Resume(r, c), c.pc = "k_delete" => c.left = 0
  PROVE  DeletesPast'
  BY Types DEF Resume, TypeOK, DeletesPast

LEMMA GotoPast ==
  ASSUME LoginInv, DeletesPast, NEW r \in Reqs, NEW pc, Goto(r, pc),
         pc = "k_delete" => call[r].left = 0
  PROVE  DeletesPast'
<1>1. PICK c : c = [call[r] EXCEPT !.pc = pc]
  OBVIOUS
<1>2. c.pc = pc /\ c.left = call[r].left
  BY <1>1, Types DEF Call
<1>3. QED
  BY <1>1, <1>2, MovedPast DEF Goto

LEMMA ReturnPast ==
  ASSUME LoginInv, DeletesPast, NEW r \in Reqs, NEW a, Return(r, a)
  PROVE  DeletesPast'
  BY NoKeys, MovedPast DEF Return

LEMMA AttemptPast ==
  ASSUME LoginInv, DeletesPast, NEW r \in Reqs, CheckGet(r) \/ Continue(r) \/ Abort(r)
  PROVE  DeletesPast'
<1>1. CASE CheckGet(r)
  <2>1. \A c \in {[Idle EXCEPT !.pc = "verify"], [Idle EXCEPT !.pc = "k_read", !.left = lock.left]} :
          c.pc # "k_delete"
    BY DEF Idle
  <2>2. QED
    BY <1>1, <2>1, MovedPast DEF CheckGet
<1>2. CASE CheckRead(r)
  <2>1. call[r].left \in 0..Lockout
    BY Types DEF Call
  <2>2. Return(r, "locked") \/ (Goto(r, "k_delete") /\ call[r].left = 0)
    BY <1>2, <2>1, LoginConstants DEF CheckRead, Past
  <2>3. QED
    BY <2>2, GotoPast, ReturnPast
<1>3. CASE CheckDelete(r) \/ Verify(r) \/ FailClear(r) \/ SuccessAttempts(r) \/ SuccessLock(r)
           \/ Create(r) \/ Abort(r)
  <2>1. \/ \E pc \in {"verify", "f_get", "s_attempts", "s_lock", "create"} : Goto(r, pc)
        \/ \E a \in Answers : Return(r, a)
    BY <1>3 DEF CheckDelete, Verify, FailClear, SuccessAttempts, SuccessLock, Create, Abort, Answers
  <2>2. QED
    BY <2>1, GotoPast, ReturnPast
<1>4. CASE FailGet(r) \/ FailSet(r)
  <2>1. call[r] \in Call
    BY Types
  <2>2. ASSUME NEW n PROVE [call[r] EXCEPT !.pc = "f_set", !.n = n].pc = "f_set"
    BY <2>1 DEF Call
  <2>3. ASSUME NEW n PROVE [call[r] EXCEPT !.pc = "f_lock", !.left = n].pc = "f_lock"
    BY <2>1 DEF Call
  <2>4. \/ Return(r, "wrong")
        \/ Resume(r, [call[r] EXCEPT !.pc = "f_set", !.n = Counted(attempts.n)])
        \/ Resume(r, [call[r] EXCEPT !.pc = "f_lock", !.left = Lockout])
    BY <1>4 DEF FailGet, FailSet
  <2>5. QED
    BY <2>2, <2>3, <2>4, MovedPast, ReturnPast
<1>5. CASE FailLock(r)
  BY <1>5, GotoPast, ReturnPast DEF FailLock
<1>6. QED
  BY <1>1, <1>2, <1>3, <1>4, <1>5 DEF Continue

LEMMA TickPast ==
  ASSUME LoginInv, DeletesPast, Tick PROVE DeletesPast'
<1>1. ASSUME NEW r \in Reqs PROVE call'[r].pc = call[r].pc /\ call'[r].left = Less(call[r].left)
  <2>1. call[r] \in Call
    BY Types
  <2>2. call'[r] = [call[r] EXCEPT !.left = Less(@)]
    BY DEF Tick
  <2>3. QED
    BY <2>1, <2>2 DEF Call
<1>2. QED
  BY <1>1 DEF DeletesPast, Less

LEMMA PastAlways == Spec => [](LoginInv /\ DeletesPast)
<1>1. Init => DeletesPast
  BY DEF Init, DeletesPast, Idle
<1>2. LoginInv /\ DeletesPast /\ [Next]_vars => DeletesPast'
  <2>1. ASSUME LoginInv, DeletesPast, UNCHANGED vars PROVE DeletesPast'
    BY <2>1 DEF vars, DeletesPast
  <2>2. ASSUME LoginInv, DeletesPast, Forget PROVE DeletesPast'
    BY <2>2 DEF Forget, DeletesPast
  <2>3. QED
    BY <2>1, <2>2, AttemptPast, TickPast DEF Next, Step
<1>3. QED
  BY <1>1, <1>2, LoginInvariant, PTL DEF Spec

\* What brings the deadline of a lock nearer
LEMMA LockGoes ==
  ASSUME LoginInv, DeletesPast, Next, Locked, lock'.left < lock.left
  PROVE  \/ Tick /\ lock'.left = lock.left - 1
         \/ Forget
         \/ \E r \in Reqs : SetsBack(r)
<1>1. lock.left \in 1..Lockout /\ lock.ttl \in 1..Lockout /\ lock.left <= lock.ttl /\ lock' # lock
  BY Types, LoginConstants DEF TypeOK, LockOutlasts, Locked
<1>2. CASE Tick
  <2>1. CASE lock.ttl > 1
    <3>1. lock' = [left |-> Less(lock.left), ttl |-> lock.ttl - 1]
      BY <1>2, <2>1 DEF Tick
    <3>2. lock'.left = lock.left - 1
      BY <1>1, <3>1, LoginConstants DEF Less
    <3>3. QED
      BY <1>2, <3>2
  <2>2. CASE ~(lock.ttl > 1)
    <3>1. lock' = NoLock
      BY <1>2, <2>2 DEF Tick
    <3>2. lock.left = 1
      BY <1>1, <2>2, LoginConstants
    <3>3. QED
      BY <1>2, <3>1, <3>2 DEF NoLock
  <2>3. QED
    BY <2>1, <2>2
<1>3. ASSUME NEW r \in Reqs, CheckGet(r) \/ Continue(r) \/ Abort(r)
      PROVE  SetsBack(r)
  <2>1. FailLock(r) \/ SuccessLock(r) \/ CheckDelete(r)
    BY <1>1, <1>3
    DEF CheckGet, Continue, Abort, CheckRead, Keep, Verify, FailGet, FailSet, FailClear,
        SuccessAttempts, Create
  <2>2. FailLock(r) => call[r].left < lock.left
    BY <1>1 DEF FailLock
  <2>3. CheckDelete(r) => call[r].left = 0
    BY DEF CheckDelete, DeletesPast
  <2>4. QED
    BY <2>1, <2>2, <2>3 DEF SetsBack
<1>4. QED
  BY <1>2, <1>3 DEF Next, Step

(***************************************************************************)
(* The deadline of a lock that holds comes nearer by time alone, unless    *)
(* the owner logs in, Redis loses the key, an attempt that found an        *)
(* earlier lock past deletes this one, or a failure that computed its own  *)
(* deadline earlier writes it later (login-throttle.ts:48-104).            *)
(***************************************************************************)
THEOREM LockStays == Spec => LockLasts
<1>1. LoginInv /\ DeletesPast /\ [Next]_vars =>
        [Locked /\ lock'.left < lock.left => \/ Tick /\ lock'.left = lock.left - 1
                                            \/ Forget
                                            \/ \E r \in Reqs : SetsBack(r)]_vars
  BY LockGoes DEF vars
<1>2. QED
  BY <1>1, PastAlways, PTL DEF Spec, LockLasts

(***************************************************************************)
(* Recordings that nothing disturbs count every wrong password.            *)
(***************************************************************************)

\* The failure being recorded has been given and not been written, or read and
\* not yet counted; between two of them nothing is missing.
Counts ==
    /\ \A r \in Reqs : call[r].pc = "f_get" => attempts.n + 1 = misses
    /\ \A r \in Reqs : call[r].pc = "f_set" => call[r].n = misses
    /\ (\A r \in Reqs : ~Recording(call[r])) => attempts.n = misses /\ misses < MaxAttempts

CountingInv ==
    /\ Clean => misses = 0
    /\ ~disturbed => Counts /\ (Clean \/ ~Overlaps)

\* On a clean slate there is nothing to count.
LEMMA CleanCounts ==
  ASSUME LoginInv, Clean, misses = 0
  PROVE  Counts
<1>1. attempts.n = 0 /\ MaxAttempts > 0
  BY LoginConstants DEF LoginInv, Clean
<1>2. QED
  BY <1>1 DEF Counts, Clean

\* A step that undisturbed recordings survive, and after which a count is at hand
UndisturbedStep ==
    /\ LoginInv /\ LoginInv' /\ CountingInv
    /\ Next /\ Watch
    /\ ~disturbed' /\ ~Clean'

\* What is known of such a step
LEMMA UndisturbedFacts ==
  ASSUME UndisturbedStep
  PROVE  /\ Counts /\ (Clean \/ ~Overlaps)
         /\ ~Overlaps' /\ ~Stops /\ ~Vanishes
         /\ misses' = IF \E r \in Reqs : Missed(r) THEN Bump(misses) ELSE misses
         /\ misses \in 0..MaxAttempts /\ attempts.n \in 0..MaxAttempts
         /\ attempts.ttl \in 0..Window /\ attempts'.ttl \in 0..Window
         /\ MaxAttempts \in Nat \ {0} /\ Window \in Nat
         /\ attempts.ttl = 0 => attempts.n = 0
         /\ attempts'.ttl = 0 => attempts'.n = 0
<1>1. ~disturbed /\ ~Overlaps' /\ ~Stops /\ ~Vanishes
  BY DEF UndisturbedStep, Watch
<1>2. TypeOK /\ TypeOK'
  BY DEF UndisturbedStep, LoginInv
<1>3. QED
  BY <1>1, <1>2, LoginConstants
  DEF UndisturbedStep, CountingInv, Next, Remember, LoginInv, TypeOK

\* A step that moves no recording
LEMMA Elsewhere ==
  ASSUME UndisturbedStep,
         \A q \in Reqs : Recording(call[q]) \/ Recording(call'[q])
                           => call'[q].pc = call[q].pc /\ call'[q].n = call[q].n,
         attempts'.n = attempts.n \/ attempts'.ttl = 0
  PROVE  Counts'
<1> USE UndisturbedFacts
<1>1. misses' = misses
  BY DEF Missed, Recording
<1>2. ASSUME NEW q \in Reqs, call'[q].pc = "f_get" PROVE attempts'.n + 1 = misses'
  <2>1. call[q].pc = "f_get"
    BY <1>2 DEF Recording
  <2>2. attempts'.n = attempts.n
    BY <2>1 DEF Vanishes
  <2>3. QED
    BY <1>1, <2>1, <2>2 DEF Counts
<1>3. ASSUME NEW q \in Reqs, call'[q].pc = "f_set" PROVE call'[q].n = misses'
  BY <1>1, <1>3 DEF Recording, Counts
<1>4. ASSUME \A q \in Reqs : ~Recording(call'[q])
      PROVE  attempts'.n = misses' /\ misses' < MaxAttempts
  <2>1. \A q \in Reqs : ~Recording(call[q])
    BY <1>4 DEF Recording
  <2>2. attempts'.ttl # 0
    BY <1>4 DEF UndisturbedStep, Clean, Recording
  <2>3. QED
    BY <1>1, <2>1, <2>2 DEF Counts
<1>5. QED
  BY <1>2, <1>3, <1>4 DEF Counts, Recording

\* A step of the attempt that is recording: it is the only one
LEMMA Recorded ==
  ASSUME UndisturbedStep, NEW r \in Reqs, \A q \in Reqs : q # r => call'[q] = call[q],
         Recording(call'[r]),
         call'[r].pc = "f_get" => attempts'.n + 1 = misses',
         call'[r].pc = "f_set" => call'[r].n = misses'
  PROVE  Counts'
<1>1. \A q \in Reqs : q # r => ~Recording(call'[q])
  BY UndisturbedFacts DEF Overlaps
<1>2. QED
  BY <1>1 DEF Counts, Recording

\* A wrong password is given.
LEMMA MissCounts ==
  ASSUME UndisturbedStep, NEW r \in Reqs, \A q \in Reqs : q # r => call'[q] = call[q],
         call[r].pc = "verify", call'[r].pc = "f_get", UNCHANGED attempts
  PROVE  Counts'
<1> USE UndisturbedFacts
<1>1. Recording(call'[r]) /\ misses' = Bump(misses)
  BY DEF Recording, Missed
<1>2. \A q \in Reqs : ~Recording(call[q])
  BY <1>1 DEF Overlaps, Recording
<1>3. attempts.n = misses /\ misses < MaxAttempts
  BY <1>2 DEF Counts
<1>4. QED
  BY <1>1, <1>3, Recorded DEF Bump

\* The count is read, and the failure added.
LEMMA ReadCounts ==
  ASSUME UndisturbedStep, NEW r \in Reqs, \A q \in Reqs : q # r => call'[q] = call[q],
         call[r].pc = "f_get", call'[r].pc = "f_set", call'[r].n = Counted(attempts.n)
  PROVE  Counts'
<1> USE UndisturbedFacts
<1>1. Recording(call'[r]) /\ misses' = misses
  BY DEF Recording, Missed
<1>2. attempts.n + 1 = misses
  BY DEF Counts
<1>3. QED
  BY <1>1, <1>2, Recorded DEF Counted, Bump

\* The count is written, short of MaxAttempts.
LEMMA WriteCounts ==
  ASSUME UndisturbedStep, NEW r \in Reqs, \A q \in Reqs : q # r => call'[q] = call[q],
         call[r].pc = "f_set", call'[r].pc = "idle"
  PROVE  Counts'
<1> USE UndisturbedFacts
<1>1. attempts'.n = call[r].n /\ ~LockDue(call[r].n)
  BY DEF Stops, Recording
<1>2. misses' = misses
  BY DEF Missed
<1>3. call[r].n = misses /\ misses < MaxAttempts
  BY <1>1 DEF Counts, LockDue
<1>4. \A q \in Reqs : q # r => ~Recording(call[q])
  BY DEF Clean, Overlaps, Recording
<1>5. \A q \in Reqs : ~Recording(call'[q])
  BY <1>4 DEF Recording
<1>6. QED
  BY <1>1, <1>2, <1>3, <1>5 DEF Counts, Recording

\* An attempt that is given up, or whose command is rejected, was not recording.
LEMMA NotStopped ==
  ASSUME UndisturbedStep, NEW r \in Reqs, Recording(call[r]), call'[r].pc = "idle"
  PROVE  call[r].pc = "f_set"
  BY UndisturbedFacts DEF Stops

\* Every step of an attempt leaves the count exact.
LEMMA AttemptCounts ==
  ASSUME UndisturbedStep, NEW r \in Reqs, CheckGet(r) \/ Continue(r) \/ Abort(r)
  PROVE  Counts'
<1>1. /\ TypeOK /\ call[r] \in Call /\ UndisturbedStep
      /\ \A c : Resume(r, c) => /\ call'[r] = c
                                /\ \A q \in Reqs : q # r => call'[q] = call[q]
  BY DEF UndisturbedStep, LoginInv, TypeOK, Resume
<1>2. /\ \A a : Return(r, a) => call'[r].pc = "idle"
      /\ \A pc : Goto(r, pc) => call'[r].pc = pc /\ call'[r].n = call[r].n
  BY <1>1 DEF Return, Goto, Idle, Call
<1>3. \A q \in Reqs : q # r => call'[q] = call[q]
  BY <1>1
  DEF CheckGet, Continue, Abort, CheckRead, CheckDelete, Verify, FailGet, FailSet, FailLock,
      FailClear, SuccessAttempts, SuccessLock, Create, Return, Goto
<1>4. ASSUME ~Recording(call[r]), ~Recording(call'[r]),
             attempts' = attempts \/ attempts' = NoAttempts
      PROVE  Counts'
  BY <1>1, <1>3, <1>4, Elsewhere DEF NoAttempts
<1>5. CASE CheckGet(r)
  <2>1. \A c \in {[Idle EXCEPT !.pc = "verify"], [Idle EXCEPT !.pc = "k_read", !.left = lock.left]} :
          c.pc \in {"verify", "k_read"}
    BY DEF Idle
  <2>2. call'[r].pc \in {"verify", "k_read"}
    BY <1>1, <1>5, <2>1 DEF CheckGet
  <2>3. QED
    BY <1>4, <1>5, <2>2 DEF CheckGet, Recording
<1>6. CASE CheckRead(r) \/ CheckDelete(r) \/ SuccessAttempts(r) \/ SuccessLock(r) \/ Create(r)
  <2>1. call'[r].pc \in {"idle", "k_delete", "verify", "s_lock", "create"}
    BY <1>2, <1>6 DEF CheckRead, CheckDelete, SuccessAttempts, SuccessLock, Create
  <2>2. call[r].pc \in {"k_read", "k_delete", "s_attempts", "s_lock", "create"}
    BY <1>6 DEF CheckRead, CheckDelete, SuccessAttempts, SuccessLock, Create
  <2>3. attempts' = attempts \/ attempts' = NoAttempts
    BY <1>6 DEF CheckRead, CheckDelete, SuccessAttempts, SuccessLock, Create
  <2>4. QED
    BY <1>4, <2>1, <2>2, <2>3 DEF Recording
<1>7. CASE Verify(r)
  <2>1. call'[r].pc \in {"f_get", "s_attempts", "idle"} /\ call[r].pc = "verify" /\ UNCHANGED attempts
    BY <1>2, <1>7 DEF Verify
  <2>2. QED
    BY <1>1, <1>3, <1>4, <2>1, MissCounts DEF Recording
<1>8. CASE FailGet(r)
  <2>1. call'[r].pc # "idle"
    BY <1>1, <1>8, NotStopped DEF FailGet, Recording
  <2>2. Resume(r, [call[r] EXCEPT !.pc = "f_set", !.n = Counted(attempts.n)])
    BY <1>2, <1>8, <2>1 DEF FailGet
  <2>3. call'[r].pc = "f_set" /\ call'[r].n = Counted(attempts.n)
    <3>1. PICK c : c = [call[r] EXCEPT !.pc = "f_set", !.n = Counted(attempts.n)]
      OBVIOUS
    <3>2. c.pc = "f_set" /\ c.n = Counted(attempts.n)
      BY <1>1, <3>1 DEF Call
    <3>3. call'[r] = c
      BY <1>1, <2>2, <3>1
    <3>4. QED
      BY <3>2, <3>3
  <2>4. QED
    BY <1>1, <1>3, <1>8, <2>3, ReadCounts DEF FailGet
<1>9. CASE FailSet(r)
  <2>1. CASE call'[r].pc = "idle"
    BY <1>1, <1>3, <1>9, <2>1, WriteCounts DEF FailSet
  <2>2. CASE Resume(r, [call[r] EXCEPT !.pc = "f_lock", !.left = Lockout])
    <3>1. call'[r].pc = "f_lock"
      <4>1. PICK c : c = [call[r] EXCEPT !.pc = "f_lock", !.left = Lockout]
        OBVIOUS
      <4>2. c.pc = "f_lock"
        BY <1>1, <4>1 DEF Call
      <4>3. call'[r] = c
        BY <1>1, <2>2, <4>1
      <4>4. QED
        BY <4>2, <4>3
    <3>2. QED
      BY <1>1, <1>3, <3>1, Recorded DEF Recording
  <2>3. QED
    BY <1>2, <1>9, <2>1, <2>2 DEF FailSet
<1>10. CASE FailLock(r)
  <2>1. call'[r].pc # "idle"
    BY <1>1, <1>10, NotStopped DEF FailLock, Recording
  <2>2. call'[r].pc = "f_clear"
    BY <1>2, <1>10, <2>1 DEF FailLock
  <2>3. QED
    BY <1>1, <1>3, <2>2, Recorded DEF Recording
<1>11. ~FailClear(r)
  BY <1>1, <1>2, NotStopped DEF FailClear, Recording
<1>12. CASE Abort(r)
  <2>1. call'[r].pc = "idle" /\ UNCHANGED attempts
    BY <1>2, <1>12 DEF Abort
  <2>2. CASE Recording(call[r])
    BY <1>1, <1>3, <2>1, <2>2, NotStopped, WriteCounts
  <2>3. QED
    BY <1>4, <2>1, <2>2 DEF Recording
<1>13. QED
  BY <1>5, <1>6, <1>7, <1>8, <1>9, <1>10, <1>11, <1>12 DEF Continue

\* So does time, and so does Redis when it loses a key.
LEMMA OutsideCounts ==
  ASSUME UndisturbedStep, Tick \/ Forget
  PROVE  Counts'
<1>1. TypeOK /\ \A q \in Reqs : call[q] \in Call
  BY DEF UndisturbedStep, LoginInv, TypeOK
<1>2. attempts'.n = attempts.n \/ attempts'.ttl = 0
  BY <1>1 DEF Tick, Forget, NoAttempts, TypeOK
<1>3. \A q \in Reqs : call'[q].pc = call[q].pc /\ call'[q].n = call[q].n
  <2>1. CASE Tick
    BY <1>1, <2>1 DEF Tick, Call
  <2>2. CASE Forget
    BY <2>2 DEF Forget
  <2>3. QED
    BY <2>1, <2>2
<1>4. QED
  BY <1>2, <1>3, Elsewhere

\* Every step leaves the count exact, or is a disturbance.
LEMMA CountingStep ==
  LoginInv /\ LoginInv' /\ CountingInv /\ [Next /\ Watch]_<<vars, disturbed>> => CountingInv'
<1> SUFFICES ASSUME LoginInv, LoginInv', CountingInv, [Next /\ Watch]_<<vars, disturbed>>
             PROVE  CountingInv'
  OBVIOUS
<1>1. CASE UNCHANGED <<vars, disturbed>>
  BY <1>1 DEF vars, CountingInv, Counts, Clean, Overlaps, Recording
<1>2. CASE Next /\ Watch
  <2>1. Clean' => misses' = 0
    BY <1>2 DEF Next, Remember
  <2>2. CASE Clean'
    <3>1. Counts'
      <4>1. attempts'.n = 0 /\ MaxAttempts > 0
        BY <2>2, LoginConstants DEF LoginInv, Clean
      <4>2. QED
        BY <2>1, <2>2, <4>1 DEF Counts, Clean
    <3>2. QED
      BY <2>1, <2>2, <3>1 DEF CountingInv
  <2>3. CASE ~Clean' /\ ~disturbed'
    <3>1. UndisturbedStep
      BY <1>2, <2>3 DEF UndisturbedStep
    <3>2. Counts'
      BY <1>2, <3>1, AttemptCounts, OutsideCounts DEF Next, Step
    <3>3. QED
      BY <2>3, <3>1, <3>2, UndisturbedFacts DEF CountingInv
  <2>4. QED
    BY <2>1, <2>2, <2>3 DEF CountingInv
<1>3. QED
  BY <1>1, <1>2

(***************************************************************************)
(* recordFailure counts every wrong password and locks at MaxAttempts,     *)
(* whoever else is checked, let in or given up on meanwhile, unless two    *)
(* recordings overlap, one is not completed, or the count goes between the *)
(* wrong password and the GET.                                             *)
(***************************************************************************)
THEOREM UndisturbedCount == CountingSpec => []CountIsExact
<1>1. CountingSpec => []LoginInv
  <2>1. [Next /\ Watch]_<<vars, disturbed>> => [Next]_vars
    OBVIOUS
  <2>2. QED
    BY <2>1, InitInv, NextInv, PTL DEF CountingSpec
<1>2. disturbed = FALSE /\ Init => CountingInv
  <2>1. Init => Clean /\ misses = 0 /\ LoginInv
    BY InitInv DEF Init, Clean, NoAttempts, Idle
  <2>2. QED
    BY <2>1, CleanCounts DEF CountingInv
<1>3. CountingInv => CountIsExact
  BY DEF CountingInv, CountIsExact, Counts
<1>4. QED
  BY <1>1, <1>2, <1>3, CountingStep, PTL DEF CountingSpec
====
