------------------------------ MODULE Health_proofs ------------------------------
(***************************************************************************)
(* For any number of probes: what their answers say of the dependencies.   *)
(***************************************************************************)
EXTENDS Health, TLAPS

ProbeType == [pc : Steps \cup {"none"}, bad : SUBSET Dependencies, seen : SUBSET Dependencies,
              steady : BOOLEAN, broken : BOOLEAN, answer : {0, 200, 503}]

Found(p) == probe[p].bad \cup probe[p].seen

\* A probe under way: what it has asked is down or has been seen up.
UnderWay(p) == Asking(p) =>
    /\ server \in {"up", "closing"} /\ pool
    /\ up \subseteq probe[p].seen /\ probe[p].answer = 0
    /\ probe[p].pc # "database" => "database" \in Found(p)
    /\ probe[p].pc \in {"storage", "answer"} => "redis" \in Found(p)
    /\ probe[p].pc = "answer" => "storage" \in Found(p)

\* One that nothing has disturbed is alone, has seen what there is, and has found
\* down only what is.
Steady(p) == Asking(p) /\ probe[p].steady =>
    /\ probe[p].seen = up /\ probe[p].bad \cap up = {}
    /\ probe[p].broken => "redis" \notin up
    /\ probe[p].pc \in {"database", "redis"} => link \in {"wait", "ready"}
    /\ \A q \in Probes \ {p} : ~Asking(q)

Answered(p) == ~Asking(p) =>
    /\ probe[p].answer = 200 => probe[p].seen = Dependencies
    /\ probe[p].answer = 503 /\ probe[p].steady => probe[p].seen # Dependencies

ProbeOK(p) == UnderWay(p) /\ Steady(p) /\ Answered(p)

ProcessOK ==
    /\ server \in {"down", "up", "closing", "exited"}
    /\ up \subseteq Dependencies /\ mute \subseteq Dependencies \ up /\ pool \in BOOLEAN
    /\ link \in {"wait", "connecting", "connect", "ready"}
    /\ link = "ready" => "redis" \in up \cup mute
    /\ server = "up" => pool

IInv == ProcessOK /\ probe \in [Probes -> ProbeType] /\ \A p \in Probes : ProbeOK(p)

\* Records of probes that differ in some fields
SeenToo(r, S, b) == [r EXCEPT !.seen = @ \cup S, !.steady = FALSE, !.broken = b]
Checked(r, pc, bad) == [r EXCEPT !.pc = pc, !.bad = @ \cup bad, !.broken = FALSE]

\* One field set at a time
WithPc(r, x) == [r EXCEPT !.pc = x]
WithBad(r, x) == [r EXCEPT !.bad = x]
WithSeen(r, x) == [r EXCEPT !.seen = x]
WithSteady(r, x) == [r EXCEPT !.steady = x]
WithBroken(r, x) == [r EXCEPT !.broken = x]
WithAnswer(r, x) == [r EXCEPT !.answer = x]

LEMMA SetPc == \A r \in ProbeType, x \in Steps \cup {"none"} : WithPc(r, x) \in ProbeType
BY DEF ProbeType, WithPc

LEMMA SetBad == \A r \in ProbeType, x \in SUBSET Dependencies : WithBad(r, x) \in ProbeType
BY DEF ProbeType, WithBad

LEMMA SetSeen == \A r \in ProbeType, x \in SUBSET Dependencies : WithSeen(r, x) \in ProbeType
BY DEF ProbeType, WithSeen

LEMMA SetSteady == \A r \in ProbeType, x \in BOOLEAN : WithSteady(r, x) \in ProbeType
BY DEF ProbeType, WithSteady

LEMMA SetBroken == \A r \in ProbeType, x \in BOOLEAN : WithBroken(r, x) \in ProbeType
BY DEF ProbeType, WithBroken

LEMMA SetAnswer == \A r \in ProbeType, x \in {0, 200, 503} : WithAnswer(r, x) \in ProbeType
BY DEF ProbeType, WithAnswer

LEMMA DisturbedRecord ==
    \A r \in ProbeType, S \in SUBSET Dependencies, b \in BOOLEAN :
        /\ SeenToo(r, S, b) \in ProbeType /\ SeenToo(r, S, b).seen = r.seen \cup S
        /\ SeenToo(r, S, b).steady = FALSE /\ SeenToo(r, S, b).pc = r.pc
        /\ SeenToo(r, S, b).bad = r.bad /\ SeenToo(r, S, b).answer = r.answer
<1> TAKE r \in ProbeType, S \in SUBSET Dependencies, b \in BOOLEAN
<1> PICK seen \in SUBSET Dependencies : seen = r.seen \cup S
  BY DEF ProbeType
<1>1. SeenToo(r, S, b) = WithBroken(WithSteady(WithSeen(r, seen), FALSE), b)
  BY DEF SeenToo, WithSeen, WithSteady, WithBroken
<1>2. SeenToo(r, S, b) \in ProbeType
  BY <1>1, SetSeen, SetSteady, SetBroken
<1>3. /\ SeenToo(r, S, b).seen = seen /\ SeenToo(r, S, b).steady = FALSE
      /\ SeenToo(r, S, b).pc = r.pc /\ SeenToo(r, S, b).bad = r.bad
      /\ SeenToo(r, S, b).answer = r.answer
  BY DEF SeenToo, ProbeType
<1> QED BY <1>2, <1>3

LEMMA UnsteadyRecord ==
    ASSUME NEW r \in ProbeType
    PROVE  LET to == [r EXCEPT !.steady = FALSE]
           IN  /\ to \in ProbeType /\ to.steady = FALSE /\ to.pc = r.pc /\ to.bad = r.bad
               /\ to.seen = r.seen /\ to.answer = r.answer
<1> DEFINE to == [r EXCEPT !.steady = FALSE]
<1>1. WithSteady(r, FALSE) \in ProbeType
  BY SetSteady
<1>2. to \in ProbeType
  BY <1>1 DEF WithSteady
<1>3. /\ to.steady = FALSE /\ to.pc = r.pc /\ to.bad = r.bad
      /\ to.seen = r.seen /\ to.answer = r.answer
  BY DEF ProbeType
<1> QED BY <1>2, <1>3

LEMMA CheckedRecord ==
    \A r \in ProbeType, pc \in Steps, bad \in SUBSET Dependencies :
        /\ Checked(r, pc, bad) \in ProbeType /\ Checked(r, pc, bad).pc = pc
        /\ Checked(r, pc, bad).bad = r.bad \cup bad /\ Checked(r, pc, bad).broken = FALSE
        /\ Checked(r, pc, bad).seen = r.seen /\ Checked(r, pc, bad).answer = r.answer
        /\ Checked(r, pc, bad).steady = r.steady
<1> TAKE r \in ProbeType, pc \in Steps, bad \in SUBSET Dependencies
<1> PICK all \in SUBSET Dependencies : all = r.bad \cup bad
  BY DEF ProbeType
<1>1. Checked(r, pc, bad) = WithBroken(WithBad(WithPc(r, pc), all), FALSE)
  BY DEF Checked, WithPc, WithBad, WithBroken
<1>2. Checked(r, pc, bad) \in ProbeType
  BY <1>1, SetPc, SetBad, SetBroken
<1>3. /\ Checked(r, pc, bad).pc = pc /\ Checked(r, pc, bad).bad = all
      /\ Checked(r, pc, bad).broken = FALSE /\ Checked(r, pc, bad).seen = r.seen
      /\ Checked(r, pc, bad).answer = r.answer /\ Checked(r, pc, bad).steady = r.steady
  BY DEF Checked, ProbeType
<1> QED BY <1>2, <1>3

LEMMA IInvImplies ==
    ASSUME IInv
    PROVE  HealthInv /\ ReadyMeansUp /\ SteadyIsReady
BY DEF IInv, ProcessOK, ProbeOK, UnderWay, Answered, HealthInv, TypeOK, ProbeType,
   ReadyMeansUp, SteadyIsReady

LEMMA NoProbeOK ==
    ASSUME ProcessOK', probe' = [p \in Probes |-> NoProbe]
    PROVE  IInv'
<1>1. \A p \in Probes : probe'[p] = NoProbe /\ NoProbe \in ProbeType
  BY DEF NoProbe, ProbeType, Dependencies
<1>2. \A p \in Probes : ProbeOK(p)'
  BY <1>1 DEF ProbeOK, UnderWay, Steady, Answered, Asking, Steps, NoProbe
<1> QED BY <1>1, <1>2 DEF IInv

LEMMA InitHolds == Init => IInv
<1> SUFFICES ASSUME Init PROVE IInv
  OBVIOUS
<1>1. \A p \in Probes : probe[p] = NoProbe /\ NoProbe \in ProbeType
  BY DEF Init, NoProbe, ProbeType, Dependencies
<1>2. \A p \in Probes : ProbeOK(p)
  BY <1>1 DEF ProbeOK, UnderWay, Steady, Answered, Asking, Steps, NoProbe
<1> QED BY <1>1, <1>2, HealthConstants DEF Init, IInv, ProcessOK, HealthConstants

LEMMA ResetKeeps == ASSUME IInv, StartServer \/ Crash \/ Exit PROVE IInv'
BY NoProbeOK DEF StartServer, Crash, Exit, IInv, ProcessOK

\* A change outside the probes: none of those under way is steady any more.
LEMMA DisturbedKeeps == ASSUME IInv, Changes \/ Traffic PROVE IInv'
<1>1. ProcessOK' /\ probe' = Disturbed /\ UNCHANGED <<server, pool>>
  BY HealthConstants DEF Changes, Traffic, IInv, ProcessOK, HealthConstants
<1>2. ASSUME NEW p \in Probes
      PROVE  probe'[p] \in ProbeType /\ ProbeOK(p)'
  <2>1. CASE Asking(p)
    <3>1. probe'[p] = SeenToo(probe[p], up', Breaks(p))
      BY <1>1, <2>1 DEF Disturbed, SeenToo
    <3>2. Breaks(p) \in BOOLEAN /\ probe[p] \in ProbeType /\ up' \in SUBSET Dependencies
      BY <1>1 DEF Breaks, IInv, ProbeType, ProcessOK
    <3> HIDE DEF Breaks
    <3> PICK r \in ProbeType, S \in SUBSET Dependencies, b \in BOOLEAN :
               r = probe[p] /\ S = up' /\ b = Breaks(p)
      BY <3>2
    <3> DEFINE to == SeenToo(r, S, b)
    <3>7. /\ to \in ProbeType /\ to.seen = r.seen \cup S /\ to.steady = FALSE
          /\ to.pc = r.pc /\ to.bad = r.bad /\ to.answer = r.answer
      BY DisturbedRecord
    <3>8. probe'[p] = to
      BY <3>1
    <3> HIDE DEF to
    <3>3. probe'[p] \in ProbeType
      BY <3>7, <3>8
    <3>4. /\ probe'[p].pc = probe[p].pc /\ probe'[p].bad = probe[p].bad
          /\ probe'[p].seen = probe[p].seen \cup up' /\ probe'[p].steady = FALSE
          /\ probe'[p].answer = probe[p].answer
      BY <3>7, <3>8
    <3>5. UnderWay(p)'
      BY <1>1, <2>1, <3>4 DEF IInv, ProbeOK, UnderWay, Asking, Found
    <3>6. Steady(p)' /\ Answered(p)'
      BY <2>1, <3>4 DEF Steady, Answered, Asking
    <3> QED BY <3>3, <3>5, <3>6 DEF ProbeOK
  <2>2. CASE ~Asking(p)
    <3>1. probe'[p] = probe[p]
      BY <1>1, <2>2 DEF Disturbed
    <3> QED BY <2>2, <3>1 DEF IInv, ProbeOK, UnderWay, Steady, Answered, Asking
  <2> QED BY <2>1, <2>2
<1>3. probe' \in [Probes -> ProbeType]
  BY <1>1, <1>2 DEF Disturbed
<1> QED BY <1>1, <1>2, <1>3 DEF IInv

\* The connection moves on, or back to the start if Redis does not answer.
LEMMA LinkKeeps == ASSUME IInv, LinkMoves PROVE IInv'
<1>1. /\ ProcessOK' /\ UNCHANGED <<server, up, mute, pool>>
      /\ link \in {"connecting", "connect"} /\ (link' = "wait" => "redis" \notin up)
      /\ probe' = [p \in Probes |-> [probe[p] EXCEPT !.broken = Breaks(p)]]
  BY DEF LinkMoves, IInv, ProcessOK
<1>2. ASSUME NEW p \in Probes
      PROVE  probe'[p] \in ProbeType /\ ProbeOK(p)'
  <2>1. Breaks(p) \in BOOLEAN /\ (Breaks(p) => probe[p].broken \/ "redis" \notin up)
    BY <1>1 DEF Breaks, IInv, ProbeType
  <2>2. probe'[p] = [probe[p] EXCEPT !.broken = Breaks(p)]
    BY <1>1
  <2> HIDE DEF Breaks
  <2>3. probe'[p] \in ProbeType
    BY <2>1, <2>2 DEF IInv, ProbeType
  <2>4. \A q \in Probes : Asking(q)' = Asking(q)
    BY <1>1 DEF Asking, IInv, ProbeType
  <2>5. /\ UnderWay(p)'
        /\ Answered(p)'
    BY <1>1, <2>2, <2>4 DEF IInv, ProbeOK, UnderWay, Answered, Found, ProbeType
  <2>6. Steady(p)'
    BY <1>1, <2>1, <2>2, <2>4 DEF IInv, ProbeOK, Steady, ProbeType
  <2> QED BY <2>3, <2>5, <2>6 DEF ProbeOK
<1>3. probe' \in [Probes -> ProbeType]
  BY <1>1, <1>2
<1> QED BY <1>1, <1>2, <1>3 DEF IInv

LEMMA ArrivesKeeps == ASSUME IInv, NEW p \in Probes, ProbeArrives(p) PROVE IInv'
<1> DEFINE others == \E q \in Probes \ {p} : Asking(q)
           begun == [NoProbe EXCEPT !.pc = "database", !.seen = up,
                                    !.steady = ~others /\ link \in {"wait", "ready"}]
<1>1. /\ server = "up" /\ ~Asking(p) /\ UNCHANGED <<server, up, mute, pool, link>> /\ ProcessOK'
      /\ probe' = [q \in Probes |-> IF q = p THEN begun
                     ELSE IF Asking(q) THEN [probe[q] EXCEPT !.steady = FALSE] ELSE probe[q]]
  BY DEF ProbeArrives, IInv, ProcessOK
<1>2. /\ probe'[p] = begun /\ begun.pc = "database" /\ begun.seen = up /\ begun.bad = {}
      /\ begun.answer = 0 /\ begun.broken = FALSE
      /\ begun.steady = (~others /\ link \in {"wait", "ready"})
  BY <1>1 DEF NoProbe
<1>3. begun \in ProbeType
  BY DEF NoProbe, ProbeType, Steps, IInv, ProcessOK
<1>4. \A q \in Probes \ {p} : probe'[q].pc = probe[q].pc
  <2> SUFFICES ASSUME NEW q \in Probes \ {p} PROVE probe'[q].pc = probe[q].pc
    OBVIOUS
  <2>1. probe'[q] \in {probe[q], [probe[q] EXCEPT !.steady = FALSE]} /\ probe[q] \in ProbeType
    BY <1>1 DEF IInv
  <2> QED BY <2>1, UnsteadyRecord
<1>5. ProbeOK(p)'
  <2>1. Asking(p)'
    BY <1>2 DEF Asking, Steps
  <2>2. UnderWay(p)'
    BY <1>1, <1>2 DEF UnderWay, IInv, ProcessOK
  <2>3. Steady(p)'
    BY <1>1, <1>2, <1>4 DEF Steady, Asking
  <2> QED BY <2>1, <2>2, <2>3 DEF ProbeOK, Answered
<1>6. ASSUME NEW q \in Probes \ {p}
      PROVE  probe'[q] \in ProbeType /\ ProbeOK(q)'
  <2>1. CASE Asking(q)
    <3>1. probe'[q] = [probe[q] EXCEPT !.steady = FALSE]
      BY <1>1, <2>1
    <3>2. /\ probe'[q] \in ProbeType /\ probe'[q].steady = FALSE
          /\ probe'[q].pc = probe[q].pc /\ probe'[q].bad = probe[q].bad
          /\ probe'[q].seen = probe[q].seen /\ probe'[q].answer = probe[q].answer
      <4>1. probe[q] \in ProbeType
        BY DEF IInv
      <4> QED BY <3>1, <4>1, UnsteadyRecord
    <3>3. UnderWay(q)'
      BY <1>1, <2>1, <3>2 DEF IInv, ProbeOK, UnderWay, Asking, Found
    <3>4. Steady(q)' /\ Answered(q)'
      BY <2>1, <3>2 DEF Steady, Answered, Asking
    <3> QED BY <3>2, <3>3, <3>4 DEF ProbeOK
  <2>2. CASE ~Asking(q)
    <3>1. probe'[q] = probe[q]
      BY <1>1, <2>2
    <3> QED BY <2>2, <3>1 DEF IInv, ProbeOK, UnderWay, Steady, Answered, Asking
  <2> QED BY <2>1, <2>2
<1>7. probe' \in [Probes -> ProbeType]
  BY <1>1, <1>2, <1>3, <1>6
<1> QED BY <1>1, <1>5, <1>6, <1>7 DEF IInv

\* A step of one probe: the others under way are not steady, and only it matters.
LEMMA OneProbe ==
    ASSUME IInv, NEW p \in Probes, Asking(p), NEW to \in ProbeType,
           probe' = [probe EXCEPT ![p] = to], ProcessOK', UNCHANGED <<server, up, mute, pool>>,
           ProbeOK(p)'
    PROVE  IInv'
<1>1. probe'[p] = to /\ \A q \in Probes \ {p} : probe'[q] = probe[q]
  BY DEF IInv
<1>2. ASSUME NEW q \in Probes \ {p} PROVE ProbeOK(q)'
  <2>1. ~(Asking(q) /\ probe[q].steady)
    BY DEF IInv, ProbeOK, Steady
  <2> QED BY <1>1, <2>1 DEF IInv, ProbeOK, UnderWay, Steady, Answered, Asking, Found
<1> QED BY <1>1, <1>2 DEF IInv

\* One that stays alone, asking or waiting, has no other beside it.
LEMMA StaysAlone ==
    ASSUME IInv, NEW p \in Probes, Asking(p), probe[p].steady, NEW to,
           probe' = [probe EXCEPT ![p] = to]
    PROVE  \A q \in Probes \ {p} : ~Asking(q)'
BY DEF IInv, ProbeOK, Steady, Asking

\* What a probe goes on with after one of its checks
LEMMA CheckedKeeps ==
    ASSUME IInv, NEW p \in Probes, Asking(p), NEW to \in ProbeType,
           probe' = [probe EXCEPT ![p] = to], ProcessOK', UNCHANGED <<server, up, mute, pool>>,
           to.pc \in Steps, to.seen = probe[p].seen, to.answer = probe[p].answer,
           to.steady = probe[p].steady,
           to.pc # "database" => "database" \in to.bad \cup to.seen,
           to.pc \in {"storage", "answer"} => "redis" \in to.bad \cup to.seen,
           to.pc = "answer" => "storage" \in to.bad \cup to.seen,
           to.steady => /\ to.bad \cap up = {}
                        /\ to.broken => "redis" \notin up
                        /\ to.pc \in {"database", "redis"} => link' \in {"wait", "ready"}
    PROVE  IInv'
<1>1. probe'[p] = to /\ Asking(p)'
  BY DEF IInv, Asking
<1>2. UnderWay(p)'
  BY <1>1 DEF IInv, ProbeOK, UnderWay, Found
<1>3. Steady(p)'
  BY <1>1, StaysAlone DEF IInv, ProbeOK, Steady
<1>4. Answered(p)'
  BY <1>1 DEF Answered
<1> QED BY <1>2, <1>3, <1>4, OneProbe DEF ProbeOK

\* The two forms of a step of a probe
BecomesFound(p, to, pc, bad) ==
    /\ probe' = [probe EXCEPT ![p] = to]
    /\ to.pc = pc /\ to.bad = probe[p].bad \cup bad /\ to.broken = FALSE
    /\ to.seen = probe[p].seen /\ to.answer = probe[p].answer /\ to.steady = probe[p].steady

LEMMA FindsIs ==
    ASSUME IInv, NEW p \in Probes
    PROVE  \A pc \in Steps, bad \in SUBSET Dependencies : Finds(p, pc, bad) =>
               \E to \in ProbeType : BecomesFound(p, to, pc, bad)
<1> SUFFICES ASSUME NEW pc \in Steps, NEW bad \in SUBSET Dependencies, Finds(p, pc, bad)
             PROVE  \E to \in ProbeType : BecomesFound(p, to, pc, bad)
  OBVIOUS
<1> DEFINE to == Checked(probe[p], pc, bad)
<1>1. probe \in [Probes -> ProbeType]
  BY DEF IInv
<1>2. probe' = [probe EXCEPT ![p] = to]
  BY <1>1 DEF Finds, ProbeType, Checked
<1>3. /\ to \in ProbeType /\ to.pc = pc /\ to.bad = probe[p].bad \cup bad
      /\ to.broken = FALSE /\ to.seen = probe[p].seen /\ to.answer = probe[p].answer
      /\ to.steady = probe[p].steady
  BY <1>1, CheckedRecord
<1> HIDE DEF to
<1> QED BY <1>2, <1>3 DEF BecomesFound

LEMMA GoesIs ==
    ASSUME IInv, NEW p \in Probes, NEW pc \in Steps, Goes(p, pc)
    PROVE  \E to \in ProbeType :
               /\ probe' = [probe EXCEPT ![p] = to]
               /\ to.pc = pc /\ to.bad = probe[p].bad /\ to.broken = probe[p].broken
               /\ to.seen = probe[p].seen /\ to.answer = probe[p].answer
               /\ to.steady = probe[p].steady
<1> DEFINE to == [probe[p] EXCEPT !.pc = pc]
<1>1. probe \in [Probes -> ProbeType]
  BY DEF IInv
<1>2. probe' = [probe EXCEPT ![p] = to] /\ to \in ProbeType
  BY <1>1 DEF Goes, ProbeType
<1>3. /\ to.pc = pc /\ to.bad = probe[p].bad /\ to.broken = probe[p].broken
      /\ to.seen = probe[p].seen /\ to.answer = probe[p].answer /\ to.steady = probe[p].steady
  BY <1>1 DEF ProbeType
<1> HIDE DEF to
<1> QED BY <1>2, <1>3

\* A check that finds a dependency up or down: the dependency is where it says, or the
\* probe has been disturbed.
LEMMA FindsKeeps ==
    ASSUME IInv, NEW p \in Probes, Asking(p), NEW d \in Dependencies,
           NEW bad \in {{}, {d}}, NEW pc \in {"redis", "storage", "answer"}, Finds(p, pc, bad),
           UNCHANGED <<server, up, mute, pool, link>>,
           bad = {} => d \in up,
           bad # {} /\ probe[p].steady => d \notin up,
           \/ pc = "redis" /\ d = "database" /\ probe[p].pc = "database"
           \/ pc = "storage" /\ d = "redis" /\ probe[p].pc \in {"redis", "connecting", "ping"}
           \/ pc = "answer" /\ d = "storage" /\ probe[p].pc = "storage"
    PROVE  IInv'
<1>1. PICK to \in ProbeType :
        /\ probe' = [probe EXCEPT ![p] = to]
        /\ to.pc = pc /\ to.bad = probe[p].bad \cup bad /\ to.broken = FALSE
        /\ to.seen = probe[p].seen /\ to.answer = probe[p].answer /\ to.steady = probe[p].steady
  <2>1. pc \in Steps /\ bad \in SUBSET Dependencies
    BY DEF Steps
  <2>2. \E to \in ProbeType : BecomesFound(p, to, pc, bad)
    BY <2>1, FindsIs
  <2> QED BY <2>2 DEF BecomesFound
<1>2. d \in to.bad \cup to.seen
  BY <1>1 DEF IInv, ProbeOK, UnderWay
<1>3. /\ "database" \in to.bad \cup to.seen
      /\ pc \in {"storage", "answer"} => "redis" \in to.bad \cup to.seen
      /\ pc = "answer" => "storage" \in to.bad \cup to.seen
  BY <1>1, <1>2 DEF IInv, ProbeOK, UnderWay, Found
<1>4. to.steady => to.bad \cap up = {}
  BY <1>1 DEF IInv, ProbeOK, Steady
<1>5. to.steady /\ pc = "redis" => link \in {"wait", "ready"}
  BY <1>1 DEF IInv, ProbeOK, Steady
<1>6. ProcessOK' /\ pc \in Steps /\ pc # "database"
  BY DEF IInv, ProcessOK, Steps
<1> QED BY <1>1, <1>3, <1>4, <1>5, <1>6, CheckedKeeps

LEMMA DatabaseKeeps == ASSUME IInv, NEW p \in Probes, CheckDatabase(p) PROVE IInv'
<1>1. PICK bad \in {{}, {"database"}} :
        /\ bad = {} => "database" \in up
        /\ bad # {} => "database" \notin up \/ ~probe[p].steady
        /\ Finds(p, "redis", bad)
  BY DEF CheckDatabase
<1>2. Asking(p) /\ probe[p].pc = "database" /\ UNCHANGED <<server, up, mute, pool, link>>
  BY DEF CheckDatabase, Asking, Steps
<1> QED BY <1>1, <1>2, FindsKeeps DEF Dependencies

LEMMA StorageKeeps == ASSUME IInv, NEW p \in Probes, CheckStorage(p) PROVE IInv'
<1>1. Asking(p) /\ probe[p].pc = "storage" /\ UNCHANGED <<server, up, mute, pool, link>>
  BY DEF CheckStorage, Asking, Steps
<1>2. CASE "storage" \in up
  BY <1>1, <1>2, FindsKeeps DEF CheckStorage, Dependencies
<1>3. CASE "storage" \notin up
  BY <1>1, <1>3, FindsKeeps DEF CheckStorage, Dependencies
<1> QED BY <1>2, <1>3

\* What the checks of Redis share: a probe that waits goes on to wait.
LEMMA WaitsKeeps ==
    ASSUME IInv, NEW p \in Probes, Asking(p), NEW pc \in {"connecting", "ping"}, Goes(p, pc),
           probe[p].pc # "database", probe[p].pc \notin {"storage", "answer"},
           ProcessOK', UNCHANGED <<server, up, mute, pool>>
    PROVE  IInv'
<1>1. PICK to \in ProbeType :
        /\ probe' = [probe EXCEPT ![p] = to]
        /\ to.pc = pc /\ to.bad = probe[p].bad /\ to.broken = probe[p].broken
        /\ to.seen = probe[p].seen /\ to.answer = probe[p].answer /\ to.steady = probe[p].steady
  <2>1. pc \in Steps
    BY DEF Steps
  <2> QED BY <2>1, GoesIs
<1>2. pc \in Steps /\ pc \notin {"database", "redis", "storage", "answer"}
  BY DEF Steps
<1>3. "database" \in to.bad \cup to.seen
  BY <1>1 DEF IInv, ProbeOK, UnderWay, Found
<1>4. to.steady => to.bad \cap up = {} /\ (to.broken => "redis" \notin up)
  BY <1>1 DEF IInv, ProbeOK, Steady
<1> QED BY <1>1, <1>2, <1>3, <1>4, CheckedKeeps

LEMMA RedisKeeps ==
    ASSUME IInv, NEW p \in Probes, CheckRedis(p) \/ Connected(p) \/ Pong(p)
    PROVE  IInv'
<1>1. /\ Asking(p) /\ probe[p].pc \in {"redis", "connecting", "ping"}
      /\ UNCHANGED <<server, up, mute, pool>>
  BY DEF CheckRedis, Connected, Pong, Asking, Steps
<1>2. CASE \E pc \in {"connecting", "ping"} : Goes(p, pc)
  <2>1. ProcessOK'
    <3>1. link' \in {link, "connecting"}
      BY DEF CheckRedis, Connected, Pong
    <3> QED BY <1>1, <3>1 DEF IInv, ProcessOK
  <2> QED BY <1>1, <1>2, <2>1, WaitsKeeps
<1>3. CASE Finds(p, "storage", {"redis"}) /\ UNCHANGED link /\ (probe[p].steady => "redis" \notin up)
  BY <1>1, <1>3, FindsKeeps DEF Dependencies
<1>4. CASE Finds(p, "storage", {}) /\ UNCHANGED link /\ "redis" \in up
  BY <1>1, <1>4, FindsKeeps DEF Dependencies
<1>5. probe[p].broken /\ probe[p].steady => "redis" \notin up
  BY <1>1 DEF IInv, ProbeOK, Steady
<1>6. CASE CheckRedis(p)
  <2>1. link \notin {"wait", "ready", "connecting"} => ~probe[p].steady
    BY <1>1, <1>6 DEF CheckRedis, IInv, ProbeOK, Steady
  <2> QED BY <1>2, <1>3, <1>6, <2>1 DEF CheckRedis, NeedsNoConnect
<1>7. CASE Connected(p)
  BY <1>2, <1>3, <1>5, <1>7 DEF Connected
<1>8. CASE Pong(p)
  BY <1>3, <1>4, <1>5, <1>8 DEF Pong
<1> QED BY <1>6, <1>7, <1>8

LEMMA AnswerKeeps == ASSUME IInv, NEW p \in Probes, Answer(p) PROVE IInv'
<1> DEFINE to == [probe[p] EXCEPT !.pc = "none", !.bad = {}, !.answer = StatusCode(probe[p].bad)]
<1>1. /\ Asking(p) /\ probe[p].pc = "answer" /\ probe' = [probe EXCEPT ![p] = to]
      /\ UNCHANGED <<server, up, mute, pool, link>> /\ ProcessOK'
  BY DEF Answer, Asking, Steps, IInv, ProcessOK
<1>2. /\ to \in ProbeType /\ to.pc = "none" /\ to.answer = StatusCode(probe[p].bad)
      /\ to.seen = probe[p].seen /\ to.steady = probe[p].steady
  <2> PICK r \in ProbeType, s \in {0, 200, 503} : r = probe[p] /\ s = StatusCode(probe[p].bad)
    BY DEF IInv, StatusCode
  <2>1. to = WithAnswer(WithBad(WithPc(r, "none"), {}), s)
    BY DEF WithPc, WithBad, WithAnswer
  <2>2. to \in ProbeType
    BY <2>1, SetPc, SetBad, SetAnswer
  <2>3. to.pc = "none" /\ to.answer = s /\ to.seen = r.seen /\ to.steady = r.steady
    BY DEF ProbeType
  <2> QED BY <2>2, <2>3
<1>3. probe'[p] = to
  BY <1>1 DEF IInv
<1>4. probe[p].bad \subseteq Dependencies /\ probe[p].seen \subseteq Dependencies
  BY DEF IInv, ProbeType
<1>5. Dependencies \subseteq Found(p)
  BY <1>1 DEF IInv, ProbeOK, UnderWay, Dependencies
<1>6. probe[p].steady => probe[p].seen = up /\ probe[p].bad \cap up = {}
  BY <1>1 DEF IInv, ProbeOK, Steady
<1> HIDE DEF to
<1>7. ProbeOK(p)'
  <2>1. ~Asking(p)'
    BY <1>2, <1>3 DEF Asking, Steps
  <2>2. CASE probe[p].bad = {}
    <3>1. to.answer = 200 /\ to.seen = Dependencies
      BY <1>2, <1>4, <1>5, <2>2 DEF StatusCode, Found
    <3> QED BY <1>3, <2>1, <3>1 DEF ProbeOK, UnderWay, Steady, Answered
  <2>3. CASE probe[p].bad # {}
    <3>1. to.answer = 503 /\ (to.steady => to.seen # Dependencies)
      BY <1>2, <1>4, <1>6, <2>3 DEF StatusCode
    <3> QED BY <1>3, <2>1, <3>1 DEF ProbeOK, UnderWay, Steady, Answered
  <2> QED BY <2>2, <2>3
<1> QED BY <1>1, <1>2, <1>7, OneProbe

\* The process stops once nobody asks.
LEMMA StopsKeeps == ASSUME IInv, Signal \/ CloseServices PROVE IInv'
<1>1. ProcessOK' /\ UNCHANGED <<up, mute, probe>>
  BY DEF Signal, CloseServices, IInv, ProcessOK
<1>2. \A p \in Probes : Asking(p) => server' = "closing" /\ UNCHANGED <<pool, link>>
  BY DEF Signal, CloseServices, MayClose, IInv, ProbeOK, UnderWay
<1>3. ASSUME NEW p \in Probes PROVE ProbeOK(p)'
  BY <1>1, <1>2 DEF IInv, ProbeOK, UnderWay, Steady, Answered, Asking, Found
<1> QED BY <1>1, <1>3 DEF IInv

LEMMA StutterKeeps == ASSUME IInv, UNCHANGED vars PROVE IInv'
<1>1. ASSUME NEW p \in Probes PROVE ProbeOK(p)'
  BY DEF vars, IInv, ProbeOK, UnderWay, Steady, Answered, Asking, Found
<1> QED BY <1>1 DEF vars, IInv, ProcessOK

LEMMA StepKeeps == ASSUME IInv, [Next]_vars PROVE IInv'
BY ResetKeeps, DisturbedKeeps, LinkKeeps, ArrivesKeeps, DatabaseKeeps, RedisKeeps, StorageKeeps,
   AnswerKeeps, StopsKeeps, StutterKeeps DEF Next, Probing

LEMMA IInvAlways == Spec => []IInv
BY InitHolds, StepKeeps, PTL DEF Spec

(***************************************************************************)
(* Theorems.                                                               *)
(***************************************************************************)
\* A ready connection has a Redis behind it, if a silent one, and probes run only in a process that
\* serves or drains, with its pool open (plugins/services.ts, server.ts).
THEOREM ProbesHavePool == Spec => []HealthInv
<1>1. IInv => HealthInv
  BY IInvImplies
<1> QED BY <1>1, IInvAlways, PTL

\* A 200 has seen every dependency up, whatever came and went (routes/health.ts:62).
THEOREM OkIsGenuine == Spec => []ReadyMeansUp
<1>1. IInv => ReadyMeansUp
  BY IInvImplies
<1> QED BY <1>1, IInvAlways, PTL

\* A 503 of a probe that nothing has disturbed has found a dependency down.
THEOREM RefusalIsGenuine == Spec => []SteadyIsReady
<1>1. IInv => SteadyIsReady
  BY IInvImplies
<1> QED BY <1>1, IInvAlways, PTL
================================================================================
