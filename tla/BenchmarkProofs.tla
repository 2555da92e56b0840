--------------------------- MODULE BenchmarkProofs ---------------------------
(***************************************************************************)
(* What TLAPS proves of the benchmark, for every value of the constants:   *)
(* failures say why (BenchmarkInv), requests for repair stand behind the   *)
(* attempts they are about (RepairInv), reports add up (TallyInv).         *)
(***************************************************************************)
EXTENDS Benchmark, NaturalFacts, SequenceTheorems

USE BenchmarkAssumption

Names   == {<<"none", 0>>} \cup (STRING \X Nat)
Reasons == {"none", "infrastructure", "cancelled", "attempts"}
Errors  == {"none", "refused", "error"}
CaseRecords    == [id : STRING, MaxAttempts : Int, setup : BOOLEAN]
AttemptRecords == [Passed : BOOLEAN, Usage : Nat, RunErr : Errors]
ResultRecords  == [Passed : BOOLEAN, OneShot : BOOLEAN, Attempts : Nat, TotalUsage : Nat,
                   WastedUsage : Nat, AttemptLog : Seq(AttemptRecords), ErrMsg : Reasons]
JobRecords     == [dir : Names, key : Names, attempt : Nat, feedback : Errors,
                   runErr : Errors, usage : Nat]

Early == {"sandbox", "setup", "session"}
Late  == {"attempt", "run", "running", "validate"}

Typed ==
  /\ now \in Nat
  /\ pc \in [Suites -> Early \cup Late \cup {"over"}]
  /\ at \in [Suites -> Nat] /\ job \in [Suites -> JobRecords]
  /\ res \in [Suites -> ResultRecords] /\ results \in [Suites -> Seq(ResultRecords)]

\* What FailuresAreExplained says of the result of one case.
Explained(r, c) ==
  /\ r.Passed <=> r.ErrMsg = "none"
  /\ r.ErrMsg = "attempts" => Len(r.AttemptLog) = attemptLimit(c)
  /\ r.ErrMsg = "infrastructure" => r.AttemptLog = <<>>
  /\ r.Attempts = Len(r.AttemptLog)

\* A suite has a result for every case before the one it has come to.
Placed(s) ==
  /\ at[s] = Len(results[s]) + 1
  /\ pc[s] # "over" => at[s] <= Len(CasesOf[s])
  /\ Len(results[s]) <= Len(CasesOf[s])

\* The result of the case under way has only failed attempts and no reason, and
\* the attempt under way is the next one and one the case may have.
UnderWay(s) ==
  /\ pc[s] \in Early \cup Late =>
       ~ res[s].Passed /\ res[s].ErrMsg = "none" /\ res[s].Attempts = Len(res[s].AttemptLog)
  /\ pc[s] \in Early => res[s].AttemptLog = <<>>
  /\ pc[s] \in Late => /\ job[s].attempt = Len(res[s].AttemptLog) + 1
                       /\ job[s].attempt <= attemptLimit(Case(s))

BenchmarkInv ==
  /\ Typed
  /\ \A s \in Suites : Placed(s) /\ UnderWay(s)
  /\ FailuresAreExplained

-----------------------------------------------------------------------------
LEMMA CasesAreTyped ==
  ASSUME NEW s \in Suites
  PROVE  CasesOf[s] \in Seq(CaseRecords)
  BY DEF CaseRecords

LEMMA CaseIsTyped ==
  ASSUME NEW s \in Suites, NEW i \in 1..Len(CasesOf[s])
  PROVE  /\ CasesOf[s][i].id \in STRING
         /\ attemptLimit(CasesOf[s][i]) \in Nat /\ attemptLimit(CasesOf[s][i]) >= 1
<1>1. CasesOf[s][i] \in CaseRecords
  BY CasesAreTyped
<1>2. CasesOf[s][i].id \in STRING /\ CasesOf[s][i].MaxAttempts \in Int
  BY <1>1 DEF CaseRecords
<1> QED BY <1>2 DEF attemptLimit

LEMMA NewOnes == NewResult \in ResultRecords /\ NewJob \in JobRecords
<1>1. <<>> \in Seq(AttemptRecords)
  OBVIOUS
<1>2. <<"none", 0>> \in Names
  BY DEF Names
<1>3. NewResult \in ResultRecords
  BY <1>1 DEF NewResult, ResultRecords, Reasons
<1>4. NewJob \in JobRecords
  BY <1>2 DEF NewJob, JobRecords, Errors
<1> QED BY <1>3, <1>4

LEMMA BenchmarkInit == Init => BenchmarkInv
<1> SUFFICES ASSUME Init PROVE BenchmarkInv
  OBVIOUS
<1>1. Typed
  BY NewOnes DEF Init, Typed, Early, Late
<1>2. ASSUME NEW s \in Suites PROVE Placed(s) /\ UnderWay(s)
  <2>1. CasesOf[s] \in Seq(CaseRecords)
    BY CasesAreTyped
  <2>2. results[s] = <<>> /\ at[s] = 1 /\ res[s] = NewResult
        /\ pc[s] = IF CasesOf[s] = <<>> THEN "over" ELSE "sandbox"
    BY DEF Init
  <2>3. Placed(s)
    BY <2>1, <2>2 DEF Placed
  <2>4. UnderWay(s)
    BY <2>2 DEF UnderWay, NewResult, Early, Late
  <2> QED BY <2>3, <2>4
<1>3. FailuresAreExplained
  BY DEF Init, FailuresAreExplained
<1> QED BY <1>1, <1>2, <1>3 DEF BenchmarkInv

\* Nothing but the case under way of one suite changes.
LEMMA WorkPreserves ==
  ASSUME BenchmarkInv, NEW s \in Suites, UNCHANGED <<now, at, results>>,
         pc' \in [Suites -> Early \cup Late \cup {"over"}],
         job' \in [Suites -> JobRecords], res' \in [Suites -> ResultRecords],
         pc[s] # "over", UnderWay(s)',
         \A t \in Suites \ {s} : pc'[t] = pc[t] /\ job'[t] = job[t] /\ res'[t] = res[t]
  PROVE  BenchmarkInv'
<1> USE DEF BenchmarkInv
<1>1. Typed'
  BY DEF Typed
<1>2. FailuresAreExplained'
  BY DEF FailuresAreExplained
<1>3. ASSUME NEW t \in Suites PROVE Placed(t)' /\ UnderWay(t)'
  <2>1. CASE t = s
    BY <2>1 DEF Placed
  <2>2. CASE t # s
    BY <2>2 DEF Placed, UnderWay, Case
  <2> QED BY <2>1, <2>2
<1> QED BY <1>1, <1>2, <1>3

\* A case ends with a result that explains itself.
LEMMA DonePreserves ==
  ASSUME BenchmarkInv, NEW s \in Suites, NEW r \in ResultRecords, pc[s] # "over",
         Explained(r, Case(s)), Done(s, r), now' = now
  PROVE  BenchmarkInv'
<1> USE DEF BenchmarkInv
<1>1. /\ results' = [results EXCEPT ![s] = Append(results[s], r)]
      /\ at' = [at EXCEPT ![s] = at[s] + 1]
      /\ job' = [job EXCEPT ![s] = NewJob] /\ res' = [res EXCEPT ![s] = NewResult]
      /\ pc' = [pc EXCEPT ![s] = IF at[s] = Len(CasesOf[s]) THEN "over" ELSE "sandbox"]
  BY DEF Done, Goto
<1>2. /\ results[s] \in Seq(ResultRecords) /\ at[s] = Len(results[s]) + 1
      /\ CasesOf[s] \in Seq(CaseRecords)
      /\ at[s] <= Len(CasesOf[s])
  BY CasesAreTyped DEF Typed, Placed
<1>3. Typed'
  BY <1>1, <1>2, NewOnes DEF Typed, Early, Late
<1>4. ASSUME NEW t \in Suites PROVE Placed(t)' /\ UnderWay(t)'
  <2>1. CASE t = s
    <3>1. Placed(s)'
      BY <1>1, <1>2 DEF Placed, Typed
    <3>2. UnderWay(s)'
      BY <1>1 DEF UnderWay, Typed, NewResult, Early, Late
    <3> QED BY <2>1, <3>1, <3>2
  <2>2. CASE t # s
    BY <1>1, <2>2 DEF Placed, UnderWay, Case, Typed
  <2> QED BY <2>1, <2>2
<1>5. ASSUME NEW t \in Suites, NEW i \in DOMAIN results'[t]
      PROVE  Explained(results'[t][i], CasesOf[t][i])
  <2>1. CASE t = s /\ i = at[s]
    BY <1>1, <1>2, <2>1 DEF Typed, Case
  <2>2. CASE ~ (t = s /\ i = at[s])
    <3>1. i \in DOMAIN results[t] /\ results'[t][i] = results[t][i]
      BY <1>1, <1>2, <2>2 DEF Typed
    <3> QED BY <3>1 DEF FailuresAreExplained, Explained
  <2> QED BY <2>1, <2>2
<1>6. FailuresAreExplained'
  BY <1>5 DEF FailuresAreExplained, Explained
<1> QED BY <1>3, <1>4, <1>6

-----------------------------------------------------------------------------
(* Results. *)

LEMMA RecordedIs ==
  ASSUME BenchmarkInv, NEW s \in Suites, NEW passed \in BOOLEAN
  PROVE  /\ Recorded(s, passed) \in ResultRecords
         /\ Recorded(s, passed).Passed = passed
         /\ Recorded(s, passed).ErrMsg = res[s].ErrMsg
         /\ Recorded(s, passed).Attempts = job[s].attempt
         /\ Len(Recorded(s, passed).AttemptLog) = Len(res[s].AttemptLog) + 1
         /\ Recorded(s, passed).AttemptLog # <<>>
<1> DEFINE a == [Passed |-> passed, Usage |-> job[s].usage, RunErr |-> job[s].runErr]
           log == Append(res[s].AttemptLog, a)
<1>1. res[s] \in ResultRecords /\ job[s] \in JobRecords
  BY DEF BenchmarkInv, Typed
<1>2. a \in AttemptRecords
  BY <1>1 DEF AttemptRecords, JobRecords
<1>3. res[s].AttemptLog \in Seq(AttemptRecords)
  BY <1>1 DEF ResultRecords
<1>4. log \in Seq(AttemptRecords) /\ Len(log) = Len(res[s].AttemptLog) + 1 /\ log # <<>>
  <2> HIDE DEF a
  <2>1. PICK old \in Seq(AttemptRecords) : old = res[s].AttemptLog
    BY <1>3
  <2>2. /\ Append(old, a) \in Seq(AttemptRecords) /\ Append(old, a) # <<>>
        /\ Len(Append(old, a)) = Len(old) + 1
    BY <1>2, AppendProperties
  <2> QED BY <2>1, <2>2
<1> DEFINE total == res[s].TotalUsage + job[s].usage
           wasted == IF passed THEN res[s].WastedUsage ELSE res[s].WastedUsage + job[s].usage
           first == passed /\ job[s].attempt = 1
<1>5. job[s].attempt \in Nat /\ total \in Nat /\ wasted \in Nat /\ first \in BOOLEAN
  <2>1. job[s].attempt \in Nat /\ job[s].usage \in Nat
    BY <1>1 DEF JobRecords
  <2>2. res[s].TotalUsage \in Nat /\ res[s].WastedUsage \in Nat
    BY <1>1 DEF ResultRecords
  <2>3. first \in BOOLEAN
    OBVIOUS
  <2> QED BY <2>1, <2>2, <2>3
<1>6. Recorded(s, passed) =
        [res[s] EXCEPT !.Attempts = job[s].attempt, !.TotalUsage = total, !.WastedUsage = wasted,
                       !.Passed = passed, !.OneShot = first, !.AttemptLog = log]
  BY <1>1 DEF Recorded, ResultRecords
<1> HIDE DEF log, total, wasted, first
<1> QED BY <1>1, <1>4, <1>5, <1>6 DEF ResultRecords

LEMMA Reasoned ==
  ASSUME NEW r \in ResultRecords
  PROVE  /\ FailureReason(r) \in ResultRecords
         /\ FailureReason(r).Passed = r.Passed
         /\ FailureReason(r).Attempts = r.Attempts
         /\ FailureReason(r).AttemptLog = r.AttemptLog
         /\ FailureReason(r).ErrMsg =
              IF r.Passed \/ r.ErrMsg # "none" \/ r.AttemptLog = <<>> THEN r.ErrMsg ELSE "attempts"
  BY DEF FailureReason, ResultRecords, Reasons

-----------------------------------------------------------------------------
(* Steps. *)

\* Before the first attempt a case ends only for want of its infrastructure.
LEMMA InfrastructurePreserves ==
  ASSUME BenchmarkInv, NEW s \in Suites, pc[s] \in Early, Infrastructure(s)
  PROVE  BenchmarkInv'
<1> DEFINE r == [res[s] EXCEPT !.ErrMsg = "infrastructure"]
<1>1. res[s] \in ResultRecords
  BY DEF BenchmarkInv, Typed
<1>2. r \in ResultRecords /\ Explained(r, Case(s))
  BY <1>1 DEF ResultRecords, Reasons, Explained, BenchmarkInv, UnderWay
<1> QED BY <1>2, DonePreserves DEF Infrastructure, Early

LEMMA EndPreserves ==
  ASSUME BenchmarkInv, NEW s \in Suites, GiveUp(s) \/ Pass(s) \/ Fail(s)
  PROVE  BenchmarkInv'
<1>1. res[s] \in ResultRecords /\ pc[s] \in Late
  BY DEF BenchmarkInv, Typed, GiveUp, Pass, Fail, Late
<1>2. /\ ~ res[s].Passed /\ res[s].ErrMsg = "none" /\ res[s].Attempts = Len(res[s].AttemptLog)
      /\ job[s].attempt = Len(res[s].AttemptLog) + 1
      /\ job[s].attempt <= attemptLimit(Case(s))
  BY <1>1 DEF BenchmarkInv, UnderWay
<1>3. CASE GiveUp(s)
  <2> DEFINE r == [res[s] EXCEPT !.ErrMsg = "cancelled"]
  <2>1. /\ r \in ResultRecords /\ r.ErrMsg = "cancelled" /\ ~ r.Passed
        /\ r.Attempts = Len(r.AttemptLog)
    BY <1>1, <1>2 DEF ResultRecords, Reasons
  <2>2. FailureReason(r) \in ResultRecords /\ Explained(FailureReason(r), Case(s))
    <3> HIDE DEF r
    <3> QED BY <2>1, Reasoned DEF Explained
  <2> QED BY <1>3, <2>2, DonePreserves DEF GiveUp
<1>4. CASE Pass(s)
  <2> DEFINE r == Recorded(s, TRUE)
  <2>1. r \in ResultRecords /\ r.ErrMsg = "none" /\ r.Passed /\ r.Attempts = Len(r.AttemptLog)
    BY <1>2, RecordedIs
  <2>2. FailureReason(r) \in ResultRecords /\ Explained(FailureReason(r), Case(s))
    <3> HIDE DEF r
    <3> QED BY <2>1, Reasoned DEF Explained
  <2> QED BY <1>4, <2>2, DonePreserves DEF Pass
<1>5. CASE Fail(s)
  <2> DEFINE r == Recorded(s, FALSE)
  <2>1. /\ r \in ResultRecords /\ r.ErrMsg = "none" /\ ~ r.Passed /\ r.AttemptLog # <<>>
        /\ r.Attempts = Len(r.AttemptLog) /\ r.Attempts = job[s].attempt
    BY <1>2, RecordedIs
  <2>2. job[s].attempt = attemptLimit(Case(s))
    <3>1. job[s].attempt >= attemptLimit(Case(s))
      BY <1>5 DEF Fail
    <3>2. at[s] \in 1..Len(CasesOf[s])
      BY <1>1, CasesAreTyped DEF BenchmarkInv, Typed, Placed, Late
    <3>3. attemptLimit(Case(s)) \in Nat /\ job[s].attempt \in Nat
      BY <3>2, CaseIsTyped DEF Case, BenchmarkInv, Typed, JobRecords
    <3> QED BY <1>2, <3>1, <3>3
  <2>3. FailureReason(r) \in ResultRecords /\ Explained(FailureReason(r), Case(s))
    <3> HIDE DEF r
    <3> QED BY <2>1, <2>2, Reasoned DEF Explained
  <2> QED BY <1>5, <2>3, DonePreserves DEF Fail
<1> QED BY <1>3, <1>4, <1>5

\* Steps that only bring the case under way further.
LEMMA AdvancePreserves ==
  ASSUME BenchmarkInv, NEW s \in Suites,
         MakeSandbox(s) \/ SetUp(s) \/ Prompt(s) \/ StartRun(s) \/ RefuseRun(s) \/ EndRun(s)
  PROVE  BenchmarkInv'
<1> USE DEF Goto, Early, Late
<1>1. job[s] \in JobRecords /\ Typed /\ UnderWay(s)
  BY DEF BenchmarkInv, Typed
<1>2. CASE MakeSandbox(s)
  <2> DEFINE j == [job[s] EXCEPT !.dir = <<Case(s).id, now>>]
  <2>1. at[s] \in 1..Len(CasesOf[s])
    BY <1>2, CasesAreTyped DEF BenchmarkInv, Typed, Placed, MakeSandbox
  <2>2. <<Case(s).id, now>> \in Names
    BY <2>1, CaseIsTyped DEF Case, Names, BenchmarkInv, Typed
  <2>3. j \in JobRecords
    BY <1>1, <2>2 DEF JobRecords
  <2>4. job' = [job EXCEPT ![s] = j]
    BY <1>1, <1>2 DEF MakeSandbox, Typed
  <2> HIDE DEF j
  <2>5. UnderWay(s)'
    BY <1>1, <1>2 DEF MakeSandbox, UnderWay, Typed
  <2> QED BY <1>1, <1>2, <2>3, <2>4, <2>5, WorkPreserves DEF MakeSandbox, Typed
<1>3. CASE SetUp(s) \/ Prompt(s) \/ StartRun(s)
  <2>1. UnderWay(s)'
    BY <1>1, <1>3 DEF SetUp, Prompt, StartRun, UnderWay, Typed, Case
  <2> QED BY <1>1, <1>3, <2>1, WorkPreserves DEF SetUp, Prompt, StartRun, Typed
<1>4. CASE RefuseRun(s) \/ EndRun(s)
  <2>1. PICK e \in Errors, u \in Nat :
          job' = [job EXCEPT ![s].runErr = e, ![s].usage = u]
    <3>1. CASE RefuseRun(s)
      BY <3>1 DEF RefuseRun, Errors
    <3>2. CASE EndRun(s)
      <4>1. PICK e \in {"none", "error"}, u \in 0..MaxUsage :
              job' = [job EXCEPT ![s].runErr = e, ![s].usage = u]
        BY <3>2 DEF EndRun
      <4>2. e \in Errors /\ u \in Nat
        BY DEF Errors
      <4> QED BY <4>1, <4>2
    <3> QED BY <1>4, <3>1, <3>2
  <2> DEFINE j == [job[s] EXCEPT !.runErr = e, !.usage = u]
  <2>2. j \in JobRecords /\ j.attempt = job[s].attempt
    BY <1>1 DEF JobRecords
  <2>3. job' = [job EXCEPT ![s] = j]
    BY <1>1, <2>1 DEF Typed
  <2> HIDE DEF j
  <2>4. UnderWay(s)'
    BY <1>1, <1>4, <2>2, <2>3 DEF RefuseRun, EndRun, UnderWay, Typed, Case
  <2> QED BY <1>1, <1>4, <2>2, <2>3, <2>4, WorkPreserves DEF RefuseRun, EndRun, Typed
<1> QED BY <1>2, <1>3, <1>4

\* The first attempt, and the next one after a failure, is one the case may have.
LEMMA AttemptPreserves ==
  ASSUME BenchmarkInv, NEW s \in Suites, GetSession(s) \/ Repair(s)
  PROVE  BenchmarkInv'
<1> USE DEF Goto, Early, Late
<1>1. job[s] \in JobRecords /\ Typed /\ UnderWay(s) /\ now' = now /\ at' = at /\ results' = results
  BY DEF BenchmarkInv, Typed, GetSession, Repair
<1>2. at[s] \in 1..Len(CasesOf[s])
  <2>1. pc[s] # "over"
    BY DEF GetSession, Repair
  <2> QED BY <2>1, CasesAreTyped DEF BenchmarkInv, Typed, Placed
<1>3. attemptLimit(Case(s)) \in Nat /\ attemptLimit(Case(s)) >= 1
  BY <1>2, CaseIsTyped DEF Case
<1>4. CASE GetSession(s)
  <2> DEFINE j == [job[s] EXCEPT !.key = SessionKey(s), !.attempt = 1]
  <2>1. SessionKey(s) \in Names
    BY <1>2, CaseIsTyped DEF SessionKey, Case, Names, BenchmarkInv, Typed
  <2>2. j \in JobRecords /\ j.attempt = 1
    BY <1>1, <2>1 DEF JobRecords
  <2>3. job' = [job EXCEPT ![s] = j] /\ res' = res /\ pc' = [pc EXCEPT ![s] = "attempt"]
        /\ pc[s] = "session"
    BY <1>1, <1>4 DEF GetSession, Typed
  <2> HIDE DEF j
  <2>4. UnderWay(s)'
    BY <1>1, <1>3, <2>2, <2>3 DEF UnderWay, Typed, Case
  <2> QED BY <1>1, <2>2, <2>3, <2>4, WorkPreserves DEF Typed
<1>5. CASE Repair(s)
  <2> DEFINE r == Recorded(s, FALSE)
             n == job[s].attempt + 1
             j == [job[s] EXCEPT !.attempt = n, !.feedback = Feedback(s)]
  <2>1. /\ r \in ResultRecords /\ r.ErrMsg = res[s].ErrMsg /\ ~ r.Passed
        /\ r.Attempts = job[s].attempt /\ Len(r.AttemptLog) = Len(res[s].AttemptLog) + 1
    BY RecordedIs
  <2>2. j \in JobRecords /\ j.attempt = job[s].attempt + 1
    <3>1. n \in Nat /\ Feedback(s) \in Errors
      BY <1>1 DEF JobRecords, Feedback
    <3> HIDE DEF n
    <3>2. j \in JobRecords /\ j.attempt = n
      BY <1>1, <3>1 DEF JobRecords
    <3> QED BY <3>2 DEF n
  <2>3. job' = [job EXCEPT ![s] = j] /\ res' = [res EXCEPT ![s] = r]
        /\ pc' = [pc EXCEPT ![s] = "attempt"] /\ pc[s] = "validate"
        /\ job[s].attempt < attemptLimit(Case(s))
    BY <1>1, <1>5 DEF Repair, Typed
  <2> HIDE DEF j, r
  <2>4. job[s].attempt \in Nat
    BY <1>1 DEF JobRecords
  <2>5. UnderWay(s)'
    BY <1>1, <1>3, <2>1, <2>2, <2>3, <2>4 DEF UnderWay, Typed, Case
  <2> QED BY <1>1, <2>1, <2>2, <2>3, <2>5, WorkPreserves DEF Typed
<1> QED BY <1>4, <1>5

LEMMA BenchmarkStep == BenchmarkInv /\ [Next]_vars => BenchmarkInv'
<1> SUFFICES ASSUME BenchmarkInv, [Next]_vars PROVE BenchmarkInv'
  OBVIOUS
<1>1. CASE \E s \in Suites : SuiteStep(s)
  <2>1. PICK s \in Suites : SuiteStep(s)
    BY <1>1
  <2>2. CASE NoSandbox(s) \/ SetupFails(s) \/ NoProvider(s)
    BY <2>2, InfrastructurePreserves DEF NoSandbox, SetupFails, NoProvider, Early
  <2> QED BY <2>1, <2>2, EndPreserves, AdvancePreserves, AttemptPreserves DEF SuiteStep
<1>2. CASE (\E s \in Suites : Cancel(s)) \/ Tick \/ AllOver \/ UNCHANGED vars
  <2>1. now' \in Nat /\ UNCHANGED <<pc, at, job, res, results>>
    BY <1>2 DEF Cancel, Tick, AllOver, vars, BenchmarkInv, Typed
  <2> QED BY <2>1 DEF BenchmarkInv, Typed, Placed, UnderWay, Case, FailuresAreExplained
<1> QED BY <1>1, <1>2 DEF Next

\* Every case that has not passed says why, whatever fails, is cancelled or runs
\* beside it ( runTest, attemptLimit, fillFailureReason ).
THEOREM FailuresExplained == Spec => []FailuresAreExplained
<1>1. BenchmarkInv => FailuresAreExplained
  BY DEF BenchmarkInv
<1> QED BY <1>1, BenchmarkInit, BenchmarkStep, PTL DEF Spec


-----------------------------------------------------------------------------
(* Sessions. *)

MessageRecords == [suite : Suites, case : Nat \ {0}, attempt : Nat \ {0}, feedback : Errors]
SessionRecords == [workspace : Names, history : Seq(MessageRecords), running : BOOLEAN]

\* The attempts at a case that a suite has come to.
LogOf(s, c) == IF c < at[s] THEN results[s][c].AttemptLog ELSE res[s].AttemptLog

\* A message is about a case that has been come to, and the one that asks for
\* repair tells the error of the attempt before, which has failed.
Told(m) == LET log == LogOf(m.suite, m.case) IN
  /\ m.case <= at[m.suite] /\ m.attempt <= Len(log) + 1
  /\ m.attempt > 1 => ~ log[m.attempt - 1].Passed /\ m.feedback = log[m.attempt - 1].RunErr

\* A message of one attempt at a case.
Asks(m, s, c, k) == m.suite = s /\ m.case = c /\ m.attempt = k

Preceded(h, i) == h[i].attempt > 1 =>
  \E j \in 1 .. i - 1 : Asks(h[j], h[i].suite, h[i].case, h[i].attempt - 1)

\* What is known of the attempt under way: its message is in the session, and
\* before it is, that of the attempt before, whose error is to be told.
Talk(s) ==
  /\ pc[s] # "over" => \A k \in DOMAIN res[s].AttemptLog : ~ res[s].AttemptLog[k].Passed
  /\ pc[s] \in Late =>
       /\ Key(s) \in DOMAIN sessions
       /\ pc[s] = "attempt" /\ job[s].attempt > 1 =>
            /\ \E j \in DOMAIN sessions[Key(s)].history :
                 Asks(sessions[Key(s)].history[j], s, at[s], job[s].attempt - 1)
            /\ job[s].feedback = res[s].AttemptLog[job[s].attempt - 1].RunErr
       /\ pc[s] # "attempt" =>
            \E j \in DOMAIN sessions[Key(s)].history :
              Asks(sessions[Key(s)].history[j], s, at[s], job[s].attempt)

RepairInv ==
  /\ \A key \in DOMAIN sessions : sessions[key] \in SessionRecords
  /\ \A key \in DOMAIN sessions : LET h == sessions[key].history IN
       \A i \in DOMAIN h : Told(h[i]) /\ Preceded(h, i)
  /\ \A s \in Suites : Talk(s)


LogNext(s, c) == IF c < at'[s] THEN results'[s][c].AttemptLog ELSE res'[s].AttemptLog
ToldNext(m) == LET log == LogNext(m.suite, m.case) IN
  /\ m.case <= at'[m.suite] /\ m.attempt <= Len(log) + 1
  /\ m.attempt > 1 => ~ log[m.attempt - 1].Passed /\ m.feedback = log[m.attempt - 1].RunErr

\* A sequence goes on.
Extends(new, old) == Len(old) <= Len(new) /\ \A k \in DOMAIN old : new[k] = old[k]

OnlySuite(s) == \A t \in Suites \ {s} :
  pc'[t] = pc[t] /\ at'[t] = at[t] /\ job'[t] = job[t] /\ res'[t] = res[t]

\* What has been attempted is not forgotten.
LogsGrow == \A s \in Suites :
  at[s] <= at'[s] /\ \A c \in 1..at[s] : Extends(LogNext(s, c), LogOf(s, c))

HistoriesGrow ==
  /\ DOMAIN sessions \subseteq DOMAIN sessions'
  /\ \A key \in DOMAIN sessions : Extends(sessions'[key].history, sessions[key].history)

LEMMA LogsAreTyped ==
  ASSUME BenchmarkInv, NEW s \in Suites, NEW c \in 1..at[s]
  PROVE  LogOf(s, c) \in Seq(AttemptRecords)
<1>1. /\ res[s] \in ResultRecords /\ results[s] \in Seq(ResultRecords)
      /\ at[s] = Len(results[s]) + 1
  BY DEF BenchmarkInv, Typed, Placed
<1>2. CASE c < at[s]
  <2>1. c \in 1..Len(results[s])
    BY <1>1, <1>2
  <2>2. results[s][c] \in ResultRecords
    BY <1>1, <2>1
  <2>. QED
    BY <1>2, <2>2 DEF LogOf, ResultRecords
<1>3. CASE ~ (c < at[s])
  BY <1>1, <1>3 DEF LogOf, ResultRecords
<1>. QED
  BY <1>2, <1>3

LEMMA NextLogsAreTyped ==
  ASSUME BenchmarkInv', NEW s \in Suites, NEW c \in 1..at'[s]
  PROVE  LogNext(s, c) \in Seq(AttemptRecords)
<1>1. /\ res'[s] \in ResultRecords /\ results'[s] \in Seq(ResultRecords)
      /\ at'[s] = Len(results'[s]) + 1
  BY DEF BenchmarkInv, Typed, Placed
<1>2. CASE c < at'[s]
  <2>1. c \in 1..Len(results'[s])
    BY <1>1, <1>2
  <2>2. results'[s][c] \in ResultRecords
    BY <1>1, <2>1
  <2>. QED
    BY <1>2, <2>2 DEF LogNext, ResultRecords
<1>3. CASE ~ (c < at'[s])
  BY <1>1, <1>3 DEF LogNext, ResultRecords
<1>. QED
  BY <1>2, <1>3

\* What a message has told stays true.
LEMMA ToldStays ==
  ASSUME BenchmarkInv, BenchmarkInv', LogsGrow, NEW m \in MessageRecords, Told(m)
  PROVE  ToldNext(m)
<1>1. PICK s \in Suites, c \in Nat \ {0}, k \in Nat \ {0} :
        s = m.suite /\ c = m.case /\ k = m.attempt
  BY DEF MessageRecords
<1>2. at[s] \in Nat /\ at'[s] \in Nat /\ at[s] <= at'[s] /\ c <= at[s]
  BY <1>1 DEF BenchmarkInv, Typed, LogsGrow, Told
<1>3. c \in 1..at[s] /\ c \in 1..at'[s]
  BY <1>2
<1>4. PICK log \in Seq(AttemptRecords), new \in Seq(AttemptRecords) :
        log = LogOf(s, c) /\ new = LogNext(s, c)
  BY <1>3, LogsAreTyped, NextLogsAreTyped
<1>5. Len(log) <= Len(new) /\ \A i \in DOMAIN log : new[i] = log[i]
  BY <1>3, <1>4 DEF LogsGrow, Extends
<1>6. k <= Len(log) + 1 /\ (k > 1 => ~ log[k - 1].Passed /\ m.feedback = log[k - 1].RunErr)
  BY <1>1, <1>4 DEF Told
<1>7. Len(log) \in Nat /\ Len(new) \in Nat /\ DOMAIN log = 1..Len(log)
  OBVIOUS
<1>8. k <= Len(new) + 1 /\ (k > 1 => k - 1 \in DOMAIN log)
  BY <1>5, <1>6, <1>7
<1>9. k > 1 => ~ new[k - 1].Passed /\ m.feedback = new[k - 1].RunErr
  BY <1>5, <1>6, <1>8
<1>. QED
  BY <1>1, <1>2, <1>4, <1>8, <1>9 DEF ToldNext

\* A message that has been preceded stays so.
LEMMA PrecededStays ==
  ASSUME NEW h \in Seq(MessageRecords), NEW g \in Seq(MessageRecords), Extends(g, h),
         NEW i \in DOMAIN h, Preceded(h, i)
  PROVE  g[i] = h[i] /\ Preceded(g, i)
<1>1. g[i] = h[i] /\ i \in Nat /\ DOMAIN h = 1..Len(h)
  BY DEF Extends
<1>2. \A j \in 1 .. i - 1 : g[j] = h[j]
  BY <1>1 DEF Extends
<1>. QED
  BY <1>1, <1>2 DEF Preceded

\* Talk of a suite that takes no step stays true: its session only grows.
LEMMA TalkStays ==
  ASSUME BenchmarkInv, RepairInv, HistoriesGrow, NEW t \in Suites, Talk(t),
         \A key \in DOMAIN sessions' : sessions'[key] \in SessionRecords,
         pc'[t] = pc[t], at'[t] = at[t], job'[t] = job[t], res'[t] = res[t]
  PROVE  Talk(t)'
<1>1. CASE pc[t] \notin Late
  BY <1>1 DEF Talk
<1>2. CASE pc[t] \in Late
  <2>1. Key(t) \in DOMAIN sessions /\ Key(t)' = Key(t)
    BY <1>2 DEF Talk, Key
  <2>2. PICK h \in Seq(MessageRecords), g \in Seq(MessageRecords) :
          h = sessions[Key(t)].history /\ g = sessions'[Key(t)].history
    BY <2>1 DEF RepairInv, SessionRecords, HistoriesGrow
  <2>3. Key(t) \in DOMAIN sessions' /\ Extends(g, h)
    BY <2>1, <2>2 DEF HistoriesGrow
  <2>4. ASSUME NEW k, \E j \in DOMAIN h : Asks(h[j], t, at[t], k)
        PROVE  \E j \in DOMAIN g : Asks(g[j], t, at[t], k)
    <3>1. PICK j \in DOMAIN h : Asks(h[j], t, at[t], k)
      BY <2>4
    <3>2. j \in DOMAIN g /\ g[j] = h[j]
      BY <2>3 DEF Extends
    <3>. QED
      BY <3>1, <3>2
  <2>. QED
    BY <1>2, <2>1, <2>2, <2>3, <2>4 DEF Talk
<1>. QED
  BY <1>1, <1>2

\* A step of one suite that adds to logs and histories only.
LEMMA RepairKept ==
  ASSUME BenchmarkInv, BenchmarkInv', RepairInv, NEW s \in Suites, OnlySuite(s),
         LogsGrow, HistoriesGrow,
         \A key \in DOMAIN sessions' : sessions'[key] \in SessionRecords,
         \A key \in DOMAIN sessions' : LET g == sessions'[key].history IN
           \A i \in DOMAIN g :
             \/ key \in DOMAIN sessions /\ i \in DOMAIN sessions[key].history
             \/ ToldNext(g[i]) /\ Preceded(g, i),
         Talk(s)'
  PROVE  RepairInv'
<1>1. ASSUME NEW key \in DOMAIN sessions', NEW i \in DOMAIN sessions'[key].history
      PROVE  ToldNext(sessions'[key].history[i]) /\ Preceded(sessions'[key].history, i)
  <2>1. CASE key \in DOMAIN sessions /\ i \in DOMAIN sessions[key].history
    <3>1. PICK h \in Seq(MessageRecords), g \in Seq(MessageRecords) :
            h = sessions[key].history /\ g = sessions'[key].history
      BY <2>1 DEF RepairInv, SessionRecords
    <3>2. Extends(g, h) /\ i \in DOMAIN h
      BY <2>1, <3>1 DEF HistoriesGrow
    <3>3. Told(h[i]) /\ Preceded(h, i) /\ h[i] \in MessageRecords
      BY <2>1, <3>1 DEF RepairInv
    <3>4. ToldNext(h[i])
      BY <3>3, ToldStays
    <3>5. g[i] = h[i] /\ Preceded(g, i)
      BY <3>2, <3>3, PrecededStays
    <3>. QED
      BY <3>1, <3>4, <3>5
  <2>. QED
    BY <2>1
<1>2. ASSUME NEW t \in Suites PROVE Talk(t)'
  <2>1. CASE t # s
    <3>1. pc'[t] = pc[t] /\ at'[t] = at[t] /\ job'[t] = job[t] /\ res'[t] = res[t]
      BY <2>1 DEF OnlySuite
    <3>2. Talk(t)
      BY DEF RepairInv
    <3>. QED
      BY <3>1, <3>2, TalkStays
  <2>. QED
    BY <2>1
<1>3. ASSUME NEW m PROVE ToldNext(m) <=> Told(m)'
  BY DEF ToldNext, Told, LogNext, LogOf
<1>. QED
  BY <1>1, <1>2, <1>3 DEF RepairInv, Told, ToldNext, LogNext, LogOf


-----------------------------------------------------------------------------
(* What the steps do to logs and sessions. *)

LEMMA ExtendsItself ==
  ASSUME NEW S, NEW log \in Seq(S)
  PROVE  /\ Extends(log, log)
         /\ \A x \in S : Extends(Append(log, x), log)
  BY AppendProperties DEF Extends

LEMMA HistoriesAreTyped ==
  ASSUME RepairInv, NEW key \in DOMAIN sessions
  PROVE  /\ sessions[key] \in SessionRecords
         /\ sessions[key].history \in Seq(MessageRecords)
  BY DEF RepairInv, SessionRecords

LEMMA SameSessions ==
  ASSUME RepairInv, sessions' = sessions
  PROVE  /\ HistoriesGrow
         /\ \A key \in DOMAIN sessions' : sessions'[key] \in SessionRecords
         /\ \A key \in DOMAIN sessions' : \A i \in DOMAIN sessions'[key].history :
              key \in DOMAIN sessions /\ i \in DOMAIN sessions[key].history
  BY HistoriesAreTyped, ExtendsItself DEF HistoriesGrow

LEMMA LogIsTyped ==
  ASSUME BenchmarkInv, NEW s \in Suites
  PROVE  res[s].AttemptLog \in Seq(AttemptRecords)
<1>1. res[s] \in ResultRecords
  BY DEF BenchmarkInv, Typed
<1>. QED
  BY <1>1 DEF ResultRecords

LEMMA WorkGrows ==
  ASSUME BenchmarkInv, UNCHANGED <<at, results>>,
         \A u \in Suites : Extends(res'[u].AttemptLog, res[u].AttemptLog)
  PROVE  LogsGrow
<1> SUFFICES ASSUME NEW u \in Suites, NEW c \in 1..at[u]
             PROVE  at[u] <= at'[u] /\ Extends(LogNext(u, c), LogOf(u, c))
  <2>1. \A u \in Suites : at[u] <= at'[u]
    BY DEF BenchmarkInv, Typed
  <2>. QED
    BY <2>1 DEF LogsGrow
<1>1. at[u] \in Nat
  BY DEF BenchmarkInv, Typed
<1>2. PICK log \in Seq(AttemptRecords) : log = LogOf(u, c)
  BY LogsAreTyped
<1>3. CASE c < at[u]
  <2>1. LogNext(u, c) = LogOf(u, c)
    BY <1>3 DEF LogNext, LogOf
  <2>. QED
    BY <1>1, <1>2, <2>1, ExtendsItself
<1>4. CASE ~ (c < at[u])
  BY <1>1, <1>4 DEF LogNext, LogOf
<1>. QED
  BY <1>3, <1>4

LEMMA DoneGrows ==
  ASSUME BenchmarkInv, BenchmarkInv', NEW s \in Suites, NEW r \in ResultRecords, Done(s, r),
         Extends(r.AttemptLog, res[s].AttemptLog)
  PROVE  LogsGrow
<1>1. /\ results' = [results EXCEPT ![s] = Append(results[s], r)]
      /\ at' = [at EXCEPT ![s] = at[s] + 1] /\ res' = [res EXCEPT ![s] = NewResult]
  BY DEF Done
<1>2. /\ at \in [Suites -> Nat] /\ res \in [Suites -> ResultRecords]
      /\ results \in [Suites -> Seq(ResultRecords)]
  BY DEF BenchmarkInv, Typed
<1>3. SUFFICES ASSUME NEW u \in Suites, NEW c \in 1..at[u]
               PROVE  at[u] <= at'[u] /\ Extends(LogNext(u, c), LogOf(u, c))
  <2>1. \A u \in Suites : at[u] <= at'[u]
    BY <1>1, <1>2
  <2>. QED
    BY <1>3, <2>1 DEF LogsGrow
<1>4. PICK log \in Seq(AttemptRecords) : log = LogOf(u, c)
  BY LogsAreTyped
<1>5. PICK n \in Nat : n = at[u] /\ n >= c
  BY <1>2
<1>6. CASE u # s
  <2>1. LogNext(u, c) = LogOf(u, c) /\ at'[u] = at[u]
    BY <1>1, <1>2, <1>6 DEF LogNext, LogOf
  <2>. QED
    BY <1>4, <1>5, <2>1, ExtendsItself
<1>7. CASE u = s
  <2>1. at'[s] = n + 1 /\ results'[s] = Append(results[s], r) /\ n = Len(results[s]) + 1
    BY <1>1, <1>2, <1>5, <1>7 DEF BenchmarkInv, Placed
  <2>2. c < at'[s] /\ at[s] <= at'[s]
    BY <1>5, <1>7, <2>1
  <2>3. LogNext(s, c) = results'[s][c].AttemptLog
    BY <2>2 DEF LogNext
  <2>4. CASE c < n
    <3>1. results'[s][c] = results[s][c]
      BY <1>2, <2>1, <2>4, AppendProperties
    <3>2. LogNext(u, c) = LogOf(u, c)
      BY <1>5, <1>7, <2>3, <2>4, <3>1 DEF LogOf
    <3>. QED
      BY <1>4, <1>7, <2>2, <3>2, ExtendsItself
  <2>5. CASE c = n
    <3>1. results'[s][c] = r
      BY <1>2, <2>1, <2>5, AppendProperties
    <3>2. LogOf(s, c) = res[s].AttemptLog
      BY <1>5, <1>7, <2>5 DEF LogOf
    <3>. QED
      BY <1>7, <2>2, <2>3, <3>1, <3>2
  <2>. QED
    BY <1>5, <2>4, <2>5
<1>. QED
  BY <1>6, <1>7

\* A case ends: its attempts go into the results.
LEMMA DoneRepairs ==
  ASSUME BenchmarkInv, BenchmarkInv', RepairInv, NEW s \in Suites, NEW r \in ResultRecords,
         Done(s, r), Extends(r.AttemptLog, res[s].AttemptLog), sessions' = sessions
  PROVE  RepairInv'
<1>1. LogsGrow
  BY DoneGrows
<1>2. /\ pc' = [pc EXCEPT ![s] = IF at[s] = Len(CasesOf[s]) THEN "over" ELSE "sandbox"]
      /\ at' = [at EXCEPT ![s] = at[s] + 1]
      /\ job' = [job EXCEPT ![s] = NewJob] /\ res' = [res EXCEPT ![s] = NewResult]
  BY DEF Done, Goto
<1>3. OnlySuite(s) /\ pc'[s] \notin Late /\ res'[s].AttemptLog = <<>>
  BY <1>2 DEF OnlySuite, BenchmarkInv, Typed, Late, NewResult
<1>4. Talk(s)'
  BY <1>3 DEF Talk
<1>. QED
  BY <1>1, <1>3, <1>4, SameSessions, RepairKept

\* The case under way goes on, and nothing is said.
LEMMA WorkRepairs ==
  ASSUME BenchmarkInv, BenchmarkInv', RepairInv, NEW s \in Suites, OnlySuite(s),
         UNCHANGED <<at, results, sessions>>,
         Extends(res'[s].AttemptLog, res[s].AttemptLog), Talk(s)'
  PROVE  RepairInv'
<1>1. \A u \in Suites : Extends(res'[u].AttemptLog, res[u].AttemptLog)
  BY LogIsTyped, ExtendsItself DEF OnlySuite
<1>2. LogsGrow
  BY <1>1, WorkGrows
<1>. QED
  BY <1>2, SameSessions, RepairKept

LEMMA RecordedLog ==
  ASSUME BenchmarkInv, NEW s \in Suites, NEW passed \in BOOLEAN
  PROVE  LET a == [Passed |-> passed, Usage |-> job[s].usage, RunErr |-> job[s].runErr] IN
         /\ a \in AttemptRecords
         /\ Recorded(s, passed).AttemptLog = Append(res[s].AttemptLog, a)
         /\ Extends(Recorded(s, passed).AttemptLog, res[s].AttemptLog)
<1> DEFINE a == [Passed |-> passed, Usage |-> job[s].usage, RunErr |-> job[s].runErr]
<1>1. job[s] \in JobRecords /\ res[s] \in ResultRecords
  BY DEF BenchmarkInv, Typed
<1>2. a \in AttemptRecords
  BY <1>1 DEF JobRecords, AttemptRecords
<1>3. Recorded(s, passed).AttemptLog = Append(res[s].AttemptLog, a)
  BY <1>1 DEF Recorded, ResultRecords
<1> HIDE DEF a
<1>4. Extends(Append(res[s].AttemptLog, a), res[s].AttemptLog)
  BY <1>2, LogIsTyped, ExtendsItself
<1>. QED
  BY <1>2, <1>3, <1>4 DEF a

LEMMA EndsRepair ==
  ASSUME BenchmarkInv, BenchmarkInv', RepairInv, NEW s \in Suites,
         Infrastructure(s) \/ GiveUp(s) \/ Pass(s) \/ Fail(s)
  PROVE  RepairInv'
<1>1. res[s] \in ResultRecords /\ sessions' = sessions
  BY DEF BenchmarkInv, Typed, Infrastructure, GiveUp, Pass, Fail
<1>2. Extends(res[s].AttemptLog, res[s].AttemptLog)
  BY LogIsTyped, ExtendsItself
<1>3. CASE Infrastructure(s)
  <2> DEFINE r == [res[s] EXCEPT !.ErrMsg = "infrastructure"]
  <2>1. r \in ResultRecords /\ r.AttemptLog = res[s].AttemptLog
    BY <1>1 DEF ResultRecords, Reasons
  <2>2. Done(s, r)
    BY <1>3 DEF Infrastructure
  <2> HIDE DEF r
  <2>. QED
    BY <1>1, <1>2, <2>1, <2>2, DoneRepairs
<1>4. CASE GiveUp(s)
  <2> DEFINE r == [res[s] EXCEPT !.ErrMsg = "cancelled"]
  <2>1. r \in ResultRecords /\ r.AttemptLog = res[s].AttemptLog
    BY <1>1 DEF ResultRecords, Reasons
  <2>2. Done(s, FailureReason(r))
    BY <1>4 DEF GiveUp
  <2> HIDE DEF r
  <2>3. FailureReason(r) \in ResultRecords /\ FailureReason(r).AttemptLog = r.AttemptLog
    BY <2>1, Reasoned
  <2>. QED
    BY <1>1, <1>2, <2>1, <2>2, <2>3, DoneRepairs
<1>5. CASE Pass(s) \/ Fail(s)
  <2>1. PICK passed \in BOOLEAN : Done(s, FailureReason(Recorded(s, passed)))
    BY <1>5 DEF Pass, Fail
  <2>2. Recorded(s, passed) \in ResultRecords
        /\ Extends(Recorded(s, passed).AttemptLog, res[s].AttemptLog)
    BY RecordedIs, RecordedLog
  <2>3. FailureReason(Recorded(s, passed)) \in ResultRecords
        /\ FailureReason(Recorded(s, passed)).AttemptLog = Recorded(s, passed).AttemptLog
    BY <2>2, Reasoned
  <2>. QED
    BY <1>1, <2>1, <2>2, <2>3, DoneRepairs
<1>. QED
  BY <1>3, <1>4, <1>5

LEMMA AdvancesRepair ==
  ASSUME BenchmarkInv, BenchmarkInv', RepairInv, NEW s \in Suites,
         MakeSandbox(s) \/ SetUp(s) \/ RefuseRun(s)
  PROVE  RepairInv'
<1>1. /\ UNCHANGED <<at, results, sessions, res>> /\ OnlySuite(s)
      /\ pc[s] # "over"
  BY DEF MakeSandbox, SetUp, RefuseRun, Goto, OnlySuite, BenchmarkInv, Typed
<1>2. Talk(s)
  BY DEF RepairInv
<1>3. Talk(s)'
  <2>1. CASE MakeSandbox(s) \/ SetUp(s)
    <3>1. pc'[s] \notin Late
      BY <2>1 DEF MakeSandbox, SetUp, Goto, Late, BenchmarkInv, Typed
    <3>. QED
      BY <1>1, <1>2, <3>1 DEF Talk
  <2>2. CASE RefuseRun(s)
    <3>1. /\ pc[s] = "run" /\ pc'[s] = "validate" /\ Key(s)' = Key(s)
          /\ job'[s].attempt = job[s].attempt
      BY <2>2 DEF RefuseRun, Goto, BenchmarkInv, Typed, JobRecords, Key
    <3>. QED
      BY <1>1, <1>2, <3>1 DEF Talk, Late
  <2>. QED
    BY <2>1, <2>2
<1>4. Extends(res'[s].AttemptLog, res[s].AttemptLog)
  BY <1>1, LogIsTyped, ExtendsItself
<1>. QED
  BY <1>1, <1>3, <1>4, WorkRepairs


\* A failed attempt that is to be repaired: its message is the one before.
LEMMA RepairRepairs ==
  ASSUME BenchmarkInv, BenchmarkInv', RepairInv, NEW s \in Suites, Repair(s)
  PROVE  RepairInv'
<1> DEFINE a == [Passed |-> FALSE, Usage |-> job[s].usage, RunErr |-> job[s].runErr]
<1>1. /\ pc[s] = "validate" /\ pc' = [pc EXCEPT ![s] = "attempt"]
      /\ res' = [res EXCEPT ![s] = Recorded(s, FALSE)]
      /\ job' = [job EXCEPT ![s].attempt = @ + 1, ![s].feedback = Feedback(s)]
      /\ UNCHANGED <<at, results, sessions>>
  BY DEF Repair, Goto
<1>2. /\ res \in [Suites -> ResultRecords] /\ job \in [Suites -> JobRecords]
      /\ pc \in [Suites -> Early \cup Late \cup {"over"}] /\ job[s] \in JobRecords
  BY DEF BenchmarkInv, Typed
<1>3. OnlySuite(s)
  BY <1>1, <1>2 DEF OnlySuite
<1>4. PICK log \in Seq(AttemptRecords) : log = res[s].AttemptLog
  BY LogIsTyped
<1>5. /\ a \in AttemptRecords /\ res'[s].AttemptLog = Append(log, a)
      /\ Extends(res'[s].AttemptLog, res[s].AttemptLog)
  BY <1>1, <1>2, <1>4, RecordedLog
<1>6. PICK n \in Nat : n = job[s].attempt /\ n = Len(log) + 1
  BY <1>1, <1>2, <1>4 DEF BenchmarkInv, UnderWay, Late, JobRecords
<1>7. job'[s].attempt = n + 1 /\ job'[s].feedback = job[s].runErr /\ job'[s].key = job[s].key
  BY <1>1, <1>2, <1>6 DEF JobRecords, Feedback
<1>8. ~ a.Passed /\ a.RunErr = job[s].runErr
  OBVIOUS
<1> HIDE DEF a
<1>9. /\ Len(Append(log, a)) = n /\ Append(log, a)[n] = a
      /\ \A k \in 1..(n - 1) : Append(log, a)[k] = log[k]
      /\ DOMAIN Append(log, a) = 1..n
  BY <1>5, <1>6, AppendProperties
<1>10. /\ \A k \in DOMAIN log : ~ log[k].Passed
       /\ Key(s) \in DOMAIN sessions
       /\ \E j \in DOMAIN sessions[Key(s)].history :
            Asks(sessions[Key(s)].history[j], s, at[s], n)
  BY <1>1, <1>4, <1>6 DEF RepairInv, Talk, Late
<1>11. \A k \in DOMAIN Append(log, a) : ~ Append(log, a)[k].Passed
  <2> SUFFICES ASSUME NEW k \in 1..n PROVE ~ Append(log, a)[k].Passed
    BY <1>9
  <2>1. CASE k = n
    BY <1>8, <1>9, <2>1
  <2>2. CASE k # n
    <3>1. k \in 1..(n - 1) /\ k \in DOMAIN log
      BY <1>6, <2>2
    <3>. QED
      BY <1>9, <1>10, <3>1
  <2>. QED
    BY <2>1, <2>2
<1>12. Talk(s)'
  <2>1. Key(s)' = Key(s) /\ pc'[s] = "attempt" /\ (n + 1) - 1 = n
    BY <1>1, <1>2, <1>7 DEF Key
  <2>. QED
    BY <1>1, <1>5, <1>7, <1>8, <1>9, <1>10, <1>11, <2>1 DEF Talk
<1>. QED
  BY <1>1, <1>3, <1>5, <1>12, WorkRepairs

\* A session is there or new; the first attempt tells nothing.
LEMMA SessionRepairs ==
  ASSUME BenchmarkInv, BenchmarkInv', RepairInv, NEW s \in Suites, GetSession(s)
  PROVE  RepairInv'
<1>1. /\ pc[s] = "session" /\ pc' = [pc EXCEPT ![s] = "attempt"]
      /\ job' = [job EXCEPT ![s].key = SessionKey(s), ![s].attempt = 1]
      /\ UNCHANGED <<at, results, res>>
      /\ sessions' =
            IF SessionKey(s) \in DOMAIN sessions THEN sessions
            ELSE [k \in DOMAIN sessions \cup {SessionKey(s)} |->
                    IF k = SessionKey(s)
                    THEN [workspace |-> job[s].dir, history |-> <<>>, running |-> FALSE]
                    ELSE sessions[k]]
  BY DEF GetSession, Goto
<1>2. /\ job \in [Suites -> JobRecords] /\ job[s] \in JobRecords
      /\ pc \in [Suites -> Early \cup Late \cup {"over"}]
  BY DEF BenchmarkInv, Typed
<1>3. OnlySuite(s)
  BY <1>1, <1>2 DEF OnlySuite
<1>4. job'[s].key = SessionKey(s) /\ job'[s].attempt = 1
  BY <1>1, <1>2 DEF JobRecords
<1> DEFINE empty == [workspace |-> job[s].dir, history |-> <<>>, running |-> FALSE]
<1>5. empty \in SessionRecords /\ empty.history = <<>>
  BY <1>2 DEF SessionRecords, JobRecords
<1> HIDE DEF empty
<1>6. /\ DOMAIN sessions \subseteq DOMAIN sessions' /\ SessionKey(s) \in DOMAIN sessions'
      /\ \A key \in DOMAIN sessions' :
           sessions'[key] = IF key \in DOMAIN sessions THEN sessions[key] ELSE empty
  BY <1>1 DEF empty
<1>7. \A key \in DOMAIN sessions' : sessions'[key] \in SessionRecords
  BY <1>5, <1>6, HistoriesAreTyped
<1>8. HistoriesGrow
  BY <1>6, HistoriesAreTyped, ExtendsItself DEF HistoriesGrow
<1>9. ASSUME NEW key \in DOMAIN sessions', NEW i \in DOMAIN sessions'[key].history
      PROVE  key \in DOMAIN sessions /\ i \in DOMAIN sessions[key].history
  BY <1>5, <1>6
<1>10. LogsGrow
  <2>1. \A u \in Suites : Extends(res'[u].AttemptLog, res[u].AttemptLog)
    BY <1>1, LogIsTyped, ExtendsItself
  <2>. QED
    BY <1>1, <2>1, WorkGrows
<1>11. Talk(s)'
  <2>1. Key(s)' \in DOMAIN sessions' /\ pc'[s] = "attempt" /\ job'[s].attempt = 1
    BY <1>1, <1>2, <1>4, <1>6 DEF Key
  <2>2. \A k \in DOMAIN res[s].AttemptLog : ~ res[s].AttemptLog[k].Passed
    BY <1>1 DEF RepairInv, Talk
  <2>3. \A k \in DOMAIN res'[s].AttemptLog : ~ res'[s].AttemptLog[k].Passed
    <3>1. res'[s] = res[s]
      BY <1>1
    <3>. QED
      BY <2>2, <3>1
  <2>4. ~ (1 > 1)
    OBVIOUS
  <2>. QED
    BY <2>1, <2>3, <2>4 DEF Talk
<1>. QED
  BY <1>3, <1>7, <1>8, <1>9, <1>10, <1>11, RepairKept

\* Only the flag of a session changes.
LEMMA FlagRepairs ==
  ASSUME BenchmarkInv, BenchmarkInv', RepairInv, NEW s \in Suites, StartRun(s) \/ EndRun(s)
  PROVE  RepairInv'
<1>1. /\ pc[s] \in {"run", "running"} /\ pc'[s] \in {"running", "validate"}
      /\ UNCHANGED <<at, results, res>> /\ OnlySuite(s) /\ Key(s)' = Key(s)
      /\ job'[s].attempt = job[s].attempt
  <2>1. /\ job \in [Suites -> JobRecords] /\ job[s] \in JobRecords
        /\ pc \in [Suites -> Early \cup Late \cup {"over"}]
    BY DEF BenchmarkInv, Typed
  <2>2. CASE StartRun(s)
    BY <2>1, <2>2 DEF StartRun, Goto, OnlySuite, Key
  <2>3. CASE EndRun(s)
    <3>1. PICK e, u : job' = [job EXCEPT ![s].runErr = e, ![s].usage = u]
      BY <2>3 DEF EndRun
    <3>2. /\ job'[s].key = job[s].key /\ job'[s].attempt = job[s].attempt
          /\ \A t \in Suites \ {s} : job'[t] = job[t]
      BY <2>1, <3>1 DEF JobRecords
    <3>. QED
      BY <2>1, <2>3, <3>2 DEF EndRun, Goto, OnlySuite, Key
  <2>. QED
    BY <2>2, <2>3
<1>2. PICK flag \in BOOLEAN : sessions' = [sessions EXCEPT ![Key(s)].running = flag]
  BY DEF StartRun, EndRun
<1>3. Talk(s) /\ Key(s) \in DOMAIN sessions
  BY <1>1 DEF RepairInv, Talk, Late
<1>4. /\ DOMAIN sessions' = DOMAIN sessions
      /\ \A key \in DOMAIN sessions :
           sessions'[key] = IF key = Key(s) THEN [sessions[key] EXCEPT !.running = flag]
                            ELSE sessions[key]
  BY <1>2
<1>5. ASSUME NEW key \in DOMAIN sessions
      PROVE  sessions'[key] \in SessionRecords /\ sessions'[key].history = sessions[key].history
  <2>1. sessions[key] \in SessionRecords
    BY HistoriesAreTyped
  <2>2. /\ [sessions[key] EXCEPT !.running = flag] \in SessionRecords
        /\ [sessions[key] EXCEPT !.running = flag].history = sessions[key].history
    BY <2>1 DEF SessionRecords
  <2>. QED
    BY <1>4, <2>1, <2>2
<1>6. HistoriesGrow
  BY <1>4, <1>5, HistoriesAreTyped, ExtendsItself DEF HistoriesGrow
<1>7. LogsGrow
  <2>1. \A u \in Suites : Extends(res'[u].AttemptLog, res[u].AttemptLog)
    BY <1>1, LogIsTyped, ExtendsItself
  <2>. QED
    BY <1>1, <2>1, WorkGrows
<1>8. Talk(s)'
  <2>1. pc[s] # "attempt" /\ pc[s] \in Late /\ pc[s] # "over"
    BY <1>1 DEF Late
  <2>2. /\ \A k \in DOMAIN res[s].AttemptLog : ~ res[s].AttemptLog[k].Passed
        /\ \E j \in DOMAIN sessions[Key(s)].history :
             Asks(sessions[Key(s)].history[j], s, at[s], job[s].attempt)
    BY <1>3, <2>1 DEF Talk
  <2>. QED
    BY <1>1, <1>3, <1>4, <1>5, <2>2 DEF Talk
<1>. QED
  BY <1>1, <1>4, <1>5, <1>6, <1>7, <1>8, RepairKept

\* The message of an attempt goes behind that of the attempt before.
LEMMA PromptRepairs ==
  ASSUME BenchmarkInv, BenchmarkInv', RepairInv, NEW s \in Suites, Prompt(s)
  PROVE  RepairInv'
<1>1. /\ pc[s] = "attempt" /\ pc' = [pc EXCEPT ![s] = "run"]
      /\ sessions' = [sessions EXCEPT ![Key(s)].history = Append(@, Message(s))]
      /\ UNCHANGED <<at, results, res, job>>
  BY DEF Prompt, Goto
<1>2. /\ job[s] \in JobRecords /\ pc \in [Suites -> Early \cup Late \cup {"over"}]
  BY DEF BenchmarkInv, Typed
<1>3. OnlySuite(s)
  BY <1>1, <1>2 DEF OnlySuite
<1>4. Talk(s) /\ Key(s) \in DOMAIN sessions
  BY <1>1 DEF RepairInv, Talk, Late
<1>5. PICK log \in Seq(AttemptRecords) : log = res[s].AttemptLog
  BY LogIsTyped
<1>6. PICK n \in Nat \ {0} : n = job[s].attempt /\ n = Len(log) + 1
  BY <1>1, <1>2, <1>5 DEF BenchmarkInv, UnderWay, Late, JobRecords
<1>7. PICK c \in Nat \ {0} : c = at[s]
  BY DEF BenchmarkInv, Placed, Typed
<1>8. PICK h \in Seq(MessageRecords) : h = sessions[Key(s)].history
  BY <1>4, HistoriesAreTyped
<1> DEFINE m == Message(s)
           g == Append(h, m)
<1>9. /\ m \in MessageRecords /\ m.suite = s /\ m.case = c /\ m.attempt = n
      /\ m.feedback = job[s].feedback
  BY <1>2, <1>6, <1>7 DEF Message, MessageRecords, JobRecords
<1> HIDE DEF m
<1>10. /\ Len(h) \in Nat /\ DOMAIN h = 1..Len(h)
       /\ g \in Seq(MessageRecords) /\ Len(g) = Len(h) + 1 /\ DOMAIN g = 1..(Len(h) + 1)
       /\ g[Len(h) + 1] = m /\ \A j \in 1..Len(h) : g[j] = h[j]
  BY <1>9, AppendProperties
<1> HIDE DEF g
<1>11. /\ DOMAIN sessions' = DOMAIN sessions
       /\ \A key \in DOMAIN sessions :
            sessions'[key] = IF key = Key(s) THEN [sessions[key] EXCEPT !.history = g]
                             ELSE sessions[key]
  BY <1>1, <1>8 DEF g, m
<1>12. ASSUME NEW key \in DOMAIN sessions
       PROVE  /\ sessions'[key] \in SessionRecords
              /\ sessions'[key].history = IF key = Key(s) THEN g ELSE sessions[key].history
  <2>1. sessions[key] \in SessionRecords
    BY HistoriesAreTyped
  <2>2. /\ [sessions[key] EXCEPT !.history = g] \in SessionRecords
        /\ [sessions[key] EXCEPT !.history = g].history = g
    BY <1>10, <2>1 DEF SessionRecords
  <2>. QED
    BY <1>11, <2>1, <2>2
<1>13. HistoriesGrow
  <2>1. Extends(g, h)
    BY <1>10 DEF Extends
  <2>. QED
    BY <1>8, <1>11, <1>12, <2>1, HistoriesAreTyped, ExtendsItself DEF HistoriesGrow
<1>14. LogsGrow
  <2>1. \A u \in Suites : Extends(res'[u].AttemptLog, res[u].AttemptLog)
    BY <1>1, LogIsTyped, ExtendsItself
  <2>. QED
    BY <1>1, <2>1, WorkGrows
<1>15. n > 1 => /\ \E j \in DOMAIN h : Asks(h[j], s, c, n - 1)
                /\ m.feedback = log[n - 1].RunErr /\ ~ log[n - 1].Passed
  <2> SUFFICES ASSUME n > 1
               PROVE  /\ \E j \in DOMAIN h : Asks(h[j], s, c, n - 1)
                      /\ m.feedback = log[n - 1].RunErr /\ ~ log[n - 1].Passed
    OBVIOUS
  <2>1. n - 1 \in DOMAIN log
    BY <1>6
  <2>. QED
    BY <1>1, <1>4, <1>5, <1>6, <1>7, <1>8, <1>9, <2>1 DEF Talk, Late
<1>16. ToldNext(m)
  <2>1. LogNext(s, c) = log
    BY <1>1, <1>5, <1>7 DEF LogNext
  <2>. QED
    BY <1>1, <1>6, <1>7, <1>9, <1>15, <2>1 DEF ToldNext
<1>17. Preceded(g, Len(h) + 1)
  <2> SUFFICES ASSUME n > 1 PROVE \E j \in 1 .. (Len(h) + 1) - 1 : Asks(g[j], s, c, n - 1)
    BY <1>9, <1>10 DEF Preceded
  <2>1. PICK j \in DOMAIN h : Asks(h[j], s, c, n - 1)
    BY <1>15
  <2>2. j \in 1 .. (Len(h) + 1) - 1 /\ g[j] = h[j]
    BY <1>10
  <2>. QED
    BY <2>1, <2>2
<1>18. ASSUME NEW key \in DOMAIN sessions', NEW i \in DOMAIN sessions'[key].history
       PROVE  \/ key \in DOMAIN sessions /\ i \in DOMAIN sessions[key].history
              \/ ToldNext(sessions'[key].history[i]) /\ Preceded(sessions'[key].history, i)
  <2>1. CASE key = Key(s)
    <3>1. sessions'[key].history = g /\ i \in DOMAIN g
      BY <1>4, <1>12, <2>1
    <3>2. i \in DOMAIN h \/ i = Len(h) + 1
      BY <1>10, <3>1
    <3>. QED
      BY <1>4, <1>8, <1>10, <1>16, <1>17, <2>1, <3>1, <3>2
  <2>2. CASE key # Key(s)
    BY <1>11, <1>12, <2>2
  <2>. QED
    BY <2>1, <2>2
<1>19. Talk(s)'
  <2>1. Key(s)' = Key(s) /\ pc'[s] = "run"
    BY <1>1, <1>2 DEF Key
  <2>2. \A k \in DOMAIN res[s].AttemptLog : ~ res[s].AttemptLog[k].Passed
    BY <1>1, <1>4 DEF Talk
  <2>3. \E j \in DOMAIN g : Asks(g[j], s, c, n)
    <3>1. Len(h) + 1 \in DOMAIN g /\ Asks(g[Len(h) + 1], s, c, n)
      BY <1>9, <1>10 DEF Asks
    <3>. QED
      BY <3>1
  <2>4. sessions'[Key(s)].history = g
    BY <1>4, <1>12
  <2>. QED
    BY <1>1, <1>4, <1>6, <1>7, <1>11, <2>1, <2>2, <2>3, <2>4 DEF Talk
<1>. QED
  BY <1>3, <1>11, <1>12, <1>13, <1>14, <1>18, <1>19, RepairKept

LEMMA RepairInit == Init => RepairInv
<1> SUFFICES ASSUME Init PROVE RepairInv
  OBVIOUS
<1>1. sessions = <<>> /\ DOMAIN sessions = {}
  BY DEF Init
<1>2. ASSUME NEW s \in Suites PROVE Talk(s)
  BY DEF Init, Talk, NewResult, Late
<1>. QED
  BY <1>1, <1>2 DEF RepairInv

LEMMA RepairStep == BenchmarkInv /\ BenchmarkInv' /\ RepairInv /\ [Next]_vars => RepairInv'
<1> SUFFICES ASSUME BenchmarkInv, BenchmarkInv', RepairInv, [Next]_vars PROVE RepairInv'
  OBVIOUS
<1>1. CASE \E s \in Suites : SuiteStep(s)
  <2>1. PICK s \in Suites : SuiteStep(s)
    BY <1>1
  <2>2. CASE NoSandbox(s) \/ SetupFails(s) \/ NoProvider(s)
    BY <2>2, EndsRepair DEF NoSandbox, SetupFails, NoProvider
  <2>. QED
    BY <2>1, <2>2, EndsRepair, AdvancesRepair, RepairRepairs, SessionRepairs, FlagRepairs,
       PromptRepairs DEF SuiteStep
<1>2. CASE (\E s \in Suites : Cancel(s)) \/ Tick \/ AllOver \/ UNCHANGED vars
  <2>1. UNCHANGED <<sessions, pc, at, job, res, results>>
    BY <1>2 DEF Cancel, Tick, AllOver, vars
  <2>. QED
    <3>1. ASSUME NEW m PROVE Told(m)' <=> Told(m)
      BY <2>1 DEF Told, LogOf
    <3>2. \A s \in Suites : Talk(s)' <=> Talk(s)
      BY <2>1 DEF Talk, Key
    <3>. QED
      BY <2>1, <3>1, <3>2 DEF RepairInv
<1>. QED
  BY <1>1, <1>2 DEF Next

LEMMA RepairsTell == RepairInv => RepairsFollowFailures
<1> SUFFICES ASSUME RepairInv, NEW key \in DOMAIN sessions,
                    NEW i \in DOMAIN sessions[key].history,
                    sessions[key].history[i].attempt > 1
             PROVE  LET h == sessions[key].history  m == h[i]
                        log == IF m.case < at[m.suite] THEN results[m.suite][m.case].AttemptLog
                               ELSE res[m.suite].AttemptLog
                    IN  /\ \E j \in 1 .. i - 1 :
                             h[j] = [m EXCEPT !.attempt = @ - 1, !.feedback = h[j].feedback]
                        /\ ~ log[m.attempt - 1].Passed
                        /\ m.feedback = log[m.attempt - 1].RunErr
  BY DEF RepairsFollowFailures
<1>1. PICK h \in Seq(MessageRecords) : h = sessions[key].history
  BY HistoriesAreTyped
<1>2. Told(h[i]) /\ Preceded(h, i) /\ i \in 1..Len(h) /\ Len(h) \in Nat
  BY <1>1 DEF RepairInv
<1>3. PICK m \in MessageRecords : m = h[i]
  BY <1>2
<1>4. PICK j \in 1 .. i - 1 : Asks(h[j], m.suite, m.case, m.attempt - 1)
  BY <1>1, <1>2, <1>3 DEF Preceded
<1>5. PICK e \in MessageRecords : e = h[j]
  BY <1>2
<1>6. e = [m EXCEPT !.attempt = @ - 1, !.feedback = e.feedback]
  BY <1>4, <1>5 DEF Asks, MessageRecords
<1>. QED
  BY <1>1, <1>2, <1>3, <1>4, <1>5, <1>6 DEF Told, LogOf

\* In whatever session the attempts of suites and cases meet, a request for
\* repair stands behind the message of the attempt it is about, tells the error
\* of its run, and that attempt has failed ( runTest:229, 254 ).
THEOREM RepairsFollow == Spec => []RepairsFollowFailures
  BY BenchmarkInit, BenchmarkStep, RepairInit, RepairStep, RepairsTell, PTL DEF Spec

-----------------------------------------------------------------------------
(* Reports. *)

\* The numbers of a result are those of its attempts, and none but the last of
\* them has passed.
Tallied(r) ==
  /\ r.TotalUsage = UsedIn(r) /\ r.WastedUsage = WastedIn(r)
  /\ PassedIn(r) = IF r.Passed THEN 1 ELSE 0
  /\ r.Attempts = Len(r.AttemptLog)
  /\ r.OneShot <=> r.Passed /\ r.Attempts = 1
  /\ r.Passed => r.Attempts >= 1
  /\ \A k \in DOMAIN r.AttemptLog : r.AttemptLog[k].Passed => r.Passed /\ k = Len(r.AttemptLog)

TallyInv ==
  /\ \A s \in Suites : Tallied(res[s]) /\ ~ res[s].Passed
  /\ \A s \in Suites : \A i \in DOMAIN results[s] : Tallied(results[s][i])
  /\ \A s \in Suites : pc[s] = "over" => at[s] = Len(CasesOf[s]) + 1

LEMMA NewTallied == Tallied(NewResult) /\ ~ NewResult.Passed
<1> DEFINE used == [i \in DOMAIN <<>> |-> (<<>>)[i].Usage]
           wasted == [i \in DOMAIN <<>> |-> IF (<<>>)[i].Passed THEN 0 ELSE (<<>>)[i].Usage]
           passed == [i \in DOMAIN <<>> |-> IF (<<>>)[i].Passed THEN 1 ELSE 0]
<1>1. used \in [1..0 -> Nat] /\ wasted \in [1..0 -> Nat] /\ passed \in [1..0 -> Nat]
  OBVIOUS
<1>2. /\ UsedIn(NewResult) = SumFunction(used) /\ WastedIn(NewResult) = SumFunction(wasted)
      /\ PassedIn(NewResult) = SumFunction(passed)
  BY DEF UsedIn, WastedIn, PassedIn, CountIf, Sum, IsPassed, NewResult
<1> HIDE DEF used, wasted, passed
<1>3. UsedIn(NewResult) = 0 /\ WastedIn(NewResult) = 0 /\ PassedIn(NewResult) = 0
  BY <1>1, <1>2, SumOfNone
<1>. QED
  BY <1>3 DEF Tallied, NewResult

\* The reason for a failure is no number.
LEMMA ReasonIsNotTallied ==
  ASSUME NEW r, NEW q, Tallied(r),
         q.TotalUsage = r.TotalUsage, q.WastedUsage = r.WastedUsage, q.Passed = r.Passed,
         q.OneShot = r.OneShot, q.Attempts = r.Attempts, q.AttemptLog = r.AttemptLog
  PROVE  Tallied(q)
  BY DEF Tallied, UsedIn, WastedIn, PassedIn

LEMMA RecordedNumbers ==
  ASSUME BenchmarkInv, NEW s \in Suites, NEW passed \in BOOLEAN
  PROVE  /\ Recorded(s, passed).TotalUsage = res[s].TotalUsage + job[s].usage
         /\ Recorded(s, passed).WastedUsage =
              IF passed THEN res[s].WastedUsage ELSE res[s].WastedUsage + job[s].usage
         /\ Recorded(s, passed).OneShot = (passed /\ job[s].attempt = 1)
         /\ Recorded(s, passed).AttemptLog =
              Append(res[s].AttemptLog,
                     [Passed |-> passed, Usage |-> job[s].usage, RunErr |-> job[s].runErr])
<1>1. res[s] \in ResultRecords /\ job[s] \in JobRecords
  BY DEF BenchmarkInv, Typed
<1> DEFINE log == Append(res[s].AttemptLog,
                     [Passed |-> passed, Usage |-> job[s].usage, RunErr |-> job[s].runErr])
           total == res[s].TotalUsage + job[s].usage
           wasted == IF passed THEN res[s].WastedUsage ELSE res[s].WastedUsage + job[s].usage
           first == passed /\ job[s].attempt = 1
<1>2. Recorded(s, passed) =
        [res[s] EXCEPT !.Attempts = job[s].attempt, !.TotalUsage = total, !.WastedUsage = wasted,
                       !.Passed = passed, !.OneShot = first, !.AttemptLog = log]
  BY <1>1 DEF Recorded, ResultRecords
<1> HIDE DEF log, total, wasted, first
<1>3. /\ Recorded(s, passed).TotalUsage = total /\ Recorded(s, passed).WastedUsage = wasted
      /\ Recorded(s, passed).OneShot = first /\ Recorded(s, passed).AttemptLog = log
  BY <1>1, <1>2 DEF ResultRecords
<1>. QED
  BY <1>3 DEF log, total, wasted, first

\* The sums over a log of attempts, and how one attempt more changes them.
Used(log)   == [i \in DOMAIN log |-> log[i].Usage]
Wasted(log) == [i \in DOMAIN log |-> IF log[i].Passed THEN 0 ELSE log[i].Usage]
Passes(log) == [i \in DOMAIN log |-> IF log[i].Passed THEN 1 ELSE 0]

LEMMA LogSums ==
  ASSUME NEW r
  PROVE  /\ UsedIn(r) = SumFunction(Used(r.AttemptLog))
         /\ WastedIn(r) = SumFunction(Wasted(r.AttemptLog))
         /\ PassedIn(r) = SumFunction(Passes(r.AttemptLog))
  BY DEF UsedIn, WastedIn, PassedIn, CountIf, Sum, IsPassed, Used, Wasted, Passes

LEMMA LogSumsAreTyped ==
  ASSUME NEW log \in Seq(AttemptRecords)
  PROVE  /\ Used(log) \in [1..Len(log) -> Nat] /\ Wasted(log) \in [1..Len(log) -> Nat]
         /\ Passes(log) \in [1..Len(log) -> Nat]
<1>1. DOMAIN log = 1..Len(log) /\ \A i \in DOMAIN log : log[i] \in AttemptRecords
  OBVIOUS
<1>2. \A i \in DOMAIN log : log[i].Usage \in Nat
  BY <1>1 DEF AttemptRecords
<1>. QED
  BY <1>1, <1>2 DEF Used, Wasted, Passes

LEMMA LogSumsGoOn ==
  ASSUME NEW log \in Seq(AttemptRecords), NEW a \in AttemptRecords
  PROVE  /\ SumFunction(Used(Append(log, a))) = SumFunction(Used(log)) + a.Usage
         /\ SumFunction(Wasted(Append(log, a))) =
              SumFunction(Wasted(log)) + IF a.Passed THEN 0 ELSE a.Usage
         /\ SumFunction(Passes(Append(log, a))) =
              SumFunction(Passes(log)) + IF a.Passed THEN 1 ELSE 0
<1>1. PICK n \in Nat : n = Len(log)
  OBVIOUS
<1>2. PICK new \in Seq(AttemptRecords) : new = Append(log, a)
  BY AppendProperties
<1>3. /\ Len(new) = n + 1 /\ DOMAIN new = 1..n + 1 /\ DOMAIN log = 1..n /\ n + 1 \in 1..n + 1
      /\ new[n + 1] = a /\ \A i \in 1..n : i \in 1..n + 1 /\ new[i] = log[i]
  BY <1>1, <1>2, AppendProperties
<1>4. /\ Used(log) \in [1..n -> Nat] /\ Used(new) \in [1..n + 1 -> Nat]
      /\ Wasted(log) \in [1..n -> Nat] /\ Wasted(new) \in [1..n + 1 -> Nat]
      /\ Passes(log) \in [1..n -> Nat] /\ Passes(new) \in [1..n + 1 -> Nat]
  BY <1>1, <1>3, LogSumsAreTyped
<1>5. /\ \A i \in 1..n : Used(new)[i] = Used(log)[i]
      /\ Used(new)[n + 1] = a.Usage
  BY <1>3 DEF Used
<1>6. /\ \A i \in 1..n : Wasted(new)[i] = Wasted(log)[i]
      /\ Wasted(new)[n + 1] = IF a.Passed THEN 0 ELSE a.Usage
  BY <1>3 DEF Wasted
<1>7. /\ \A i \in 1..n : Passes(new)[i] = Passes(log)[i]
      /\ Passes(new)[n + 1] = IF a.Passed THEN 1 ELSE 0
  BY <1>3 DEF Passes
<1>8. SumFunction(Used(new)) = SumFunction(Used(log)) + Used(new)[n + 1]
  BY <1>4, <1>5, SumGoesOn
<1>9. SumFunction(Wasted(new)) = SumFunction(Wasted(log)) + Wasted(new)[n + 1]
  BY <1>4, <1>6, SumGoesOn
<1>10. SumFunction(Passes(new)) = SumFunction(Passes(log)) + Passes(new)[n + 1]
  BY <1>4, <1>7, SumGoesOn
<1>. QED
  BY <1>2, <1>5, <1>6, <1>7, <1>8, <1>9, <1>10

LEMMA RecordedTallied ==
  ASSUME BenchmarkInv, NEW s \in Suites, pc[s] \in Late, Tallied(res[s]), ~ res[s].Passed,
         NEW passed \in BOOLEAN
  PROVE  Tallied(Recorded(s, passed))
<1>1. res[s] \in ResultRecords /\ job[s] \in JobRecords
  BY DEF BenchmarkInv, Typed
<1>2. PICK log \in Seq(AttemptRecords), total \in Nat, wasted \in Nat :
        log = res[s].AttemptLog /\ total = res[s].TotalUsage /\ wasted = res[s].WastedUsage
  BY <1>1 DEF ResultRecords
<1>3. PICK n \in Nat, u \in Nat : n = Len(log) /\ u = job[s].usage
  BY <1>1 DEF JobRecords
<1>4. job[s].attempt = n + 1
  BY <1>2, <1>3 DEF BenchmarkInv, UnderWay
<1> DEFINE a == [Passed |-> passed, Usage |-> job[s].usage, RunErr |-> job[s].runErr]
<1>5. a \in AttemptRecords /\ a.Passed = passed /\ a.Usage = u
  BY <1>1, <1>3 DEF AttemptRecords, JobRecords
<1> DEFINE new == Recorded(s, passed)
<1>6. /\ new.AttemptLog = Append(log, a) /\ new.Passed = passed /\ new.Attempts = n + 1
      /\ new.TotalUsage = total + u
      /\ new.WastedUsage = IF passed THEN wasted ELSE wasted + u
      /\ new.OneShot = (passed /\ n + 1 = 1)
  BY <1>2, <1>3, <1>4, RecordedIs, RecordedNumbers
<1> HIDE DEF new, a
<1>7. /\ total = SumFunction(Used(log)) /\ wasted = SumFunction(Wasted(log))
      /\ SumFunction(Passes(log)) = 0
  BY <1>2, LogSums DEF Tallied
<1>8. /\ UsedIn(new) = total + u
      /\ WastedIn(new) = wasted + IF passed THEN 0 ELSE u
      /\ PassedIn(new) = IF passed THEN 1 ELSE 0
  <2>1. /\ UsedIn(new) = SumFunction(Used(Append(log, a)))
        /\ WastedIn(new) = SumFunction(Wasted(Append(log, a)))
        /\ PassedIn(new) = SumFunction(Passes(Append(log, a)))
    BY <1>6, LogSums
  <2>2. /\ UsedIn(new) = total + a.Usage
        /\ WastedIn(new) = wasted + IF a.Passed THEN 0 ELSE a.Usage
        /\ PassedIn(new) = 0 + IF a.Passed THEN 1 ELSE 0
    BY <1>5, <1>7, <2>1, LogSumsGoOn, Zenon
  <2>. QED
    BY <1>5, <2>2
<1>9. /\ Len(new.AttemptLog) = n + 1 /\ DOMAIN new.AttemptLog = 1..n + 1
      /\ new.AttemptLog[n + 1] = a /\ \A k \in 1..n : new.AttemptLog[k] = log[k]
  BY <1>3, <1>5, <1>6, AppendProperties
<1>10. \A k \in 1..n : ~ log[k].Passed
  BY <1>2, <1>3 DEF Tallied
<1>11. \A k \in DOMAIN new.AttemptLog : new.AttemptLog[k].Passed => passed /\ k = n + 1
  <2> SUFFICES ASSUME NEW k \in DOMAIN new.AttemptLog, new.AttemptLog[k].Passed
               PROVE  passed /\ k = n + 1
    OBVIOUS
  <2>1. k \in 1..n \/ k = n + 1
    BY <1>9
  <2>2. k \notin 1..n
    BY <1>9, <1>10, Zenon
  <2>3. k = n + 1
    BY <2>1, <2>2
  <2>. QED
    BY <1>5, <1>9, <2>3, Zenon
<1>12. /\ new.TotalUsage = UsedIn(new) /\ new.WastedUsage = WastedIn(new)
       /\ PassedIn(new) = IF new.Passed THEN 1 ELSE 0
       /\ new.Attempts = Len(new.AttemptLog)
       /\ new.Passed => new.Attempts >= 1
  BY <1>6, <1>8, <1>9
<1>13. new.OneShot <=> new.Passed /\ new.Attempts = 1
  BY <1>6
<1>14. \A k \in DOMAIN new.AttemptLog :
         new.AttemptLog[k].Passed => new.Passed /\ k = Len(new.AttemptLog)
  BY <1>6, <1>9, <1>11
<1>15. Tallied(new)
  BY <1>12, <1>13, <1>14 DEF Tallied
<1>. QED
  BY <1>15 DEF new

LEMMA FailureIsTallied ==
  ASSUME NEW r \in ResultRecords, Tallied(r)
  PROVE  FailureReason(r) \in ResultRecords /\ Tallied(FailureReason(r))
<1>1. /\ FailureReason(r).TotalUsage = r.TotalUsage
      /\ FailureReason(r).WastedUsage = r.WastedUsage
      /\ FailureReason(r).OneShot = r.OneShot
  BY DEF FailureReason, ResultRecords
<1>. QED
  BY <1>1, Reasoned, ReasonIsNotTallied

LEMMA DoneTallies ==
  ASSUME BenchmarkInv, TallyInv, NEW s \in Suites, NEW r \in ResultRecords, pc[s] # "over",
         Tallied(r), Done(s, r)
  PROVE  TallyInv'
<1>1. /\ results' = [results EXCEPT ![s] = Append(results[s], r)]
      /\ at' = [at EXCEPT ![s] = at[s] + 1] /\ res' = [res EXCEPT ![s] = NewResult]
      /\ pc' = [pc EXCEPT ![s] = IF at[s] = Len(CasesOf[s]) THEN "over" ELSE "sandbox"]
  BY DEF Done, Goto
<1>2. /\ at \in [Suites -> Nat] /\ res \in [Suites -> ResultRecords]
      /\ pc \in [Suites -> Early \cup Late \cup {"over"}]
      /\ results \in [Suites -> Seq(ResultRecords)]
  BY DEF BenchmarkInv, Typed
<1>3. ASSUME NEW t \in Suites PROVE Tallied(res'[t]) /\ ~ res'[t].Passed
  BY <1>1, <1>2, NewTallied DEF TallyInv
<1>4. ASSUME NEW t \in Suites, NEW i \in DOMAIN results'[t] PROVE Tallied(results'[t][i])
  <2>1. CASE t # s
    BY <1>1, <1>2, <2>1 DEF TallyInv
  <2>2. CASE t = s
    <3>1. PICK old \in Seq(ResultRecords) : old = results[s] /\ results'[s] = Append(old, r)
      BY <1>1, <1>2
    <3>2. i \in 1..Len(old) + 1 /\ (i = Len(old) + 1 => results'[s][i] = r)
          /\ (i \in 1..Len(old) => results'[s][i] = old[i] /\ i \in DOMAIN old)
      BY <2>2, <3>1, AppendProperties
    <3>3. CASE i = Len(old) + 1
      BY <2>2, <3>2, <3>3
    <3>4. CASE i # Len(old) + 1
      <4>1. i \in 1..Len(old)
        BY <3>1, <3>2, <3>4
      <4>. QED
        BY <2>2, <3>1, <3>2, <4>1 DEF TallyInv
    <3>. QED
      BY <3>3, <3>4
  <2>. QED
    BY <2>1, <2>2
<1>5. ASSUME NEW t \in Suites, pc'[t] = "over" PROVE at'[t] = Len(CasesOf[t]) + 1
  <2>1. CASE t # s
    BY <1>1, <1>2, <1>5, <2>1 DEF TallyInv
  <2>2. CASE t = s
    BY <1>1, <1>2, <1>5, <2>2
  <2>. QED
    BY <2>1, <2>2
<1>. QED
  BY <1>3, <1>4, <1>5 DEF TallyInv

LEMMA EndTallies ==
  ASSUME BenchmarkInv, TallyInv, NEW s \in Suites,
         \/ NoSandbox(s) \/ SetupFails(s) \/ NoProvider(s)
         \/ GiveUp(s) \/ Pass(s) \/ Fail(s)
  PROVE  TallyInv'
<1>1. res[s] \in ResultRecords /\ Tallied(res[s]) /\ ~ res[s].Passed
  BY DEF BenchmarkInv, Typed, TallyInv
<1>2. CASE NoSandbox(s) \/ SetupFails(s) \/ NoProvider(s)
  <2> DEFINE r == [res[s] EXCEPT !.ErrMsg = "infrastructure"]
  <2>1. r \in ResultRecords
    BY <1>1 DEF ResultRecords, Reasons
  <2>2. Tallied(r)
    BY <1>1, ReasonIsNotTallied DEF ResultRecords
  <2>3. pc[s] # "over" /\ Done(s, r)
    BY <1>2 DEF NoSandbox, SetupFails, NoProvider, Infrastructure
  <2> HIDE DEF r
  <2>. QED
    BY <2>1, <2>2, <2>3, DoneTallies
<1>3. CASE GiveUp(s)
  <2> DEFINE r == [res[s] EXCEPT !.ErrMsg = "cancelled"]
  <2>1. r \in ResultRecords
    BY <1>1 DEF ResultRecords, Reasons
  <2>2. Tallied(r)
    BY <1>1, ReasonIsNotTallied DEF ResultRecords
  <2>3. pc[s] # "over" /\ Done(s, FailureReason(r))
    BY <1>3 DEF GiveUp
  <2> HIDE DEF r
  <2>4. FailureReason(r) \in ResultRecords /\ Tallied(FailureReason(r))
    BY <2>1, <2>2, FailureIsTallied
  <2>. QED
    BY <2>3, <2>4, DoneTallies
<1>4. CASE Pass(s) \/ Fail(s)
  <2>1. PICK passed \in BOOLEAN : Done(s, FailureReason(Recorded(s, passed)))
    BY <1>4 DEF Pass, Fail
  <2>2. pc[s] \in Late /\ pc[s] # "over"
    BY <1>4 DEF Pass, Fail, Late
  <2> DEFINE r == Recorded(s, passed)
  <2>3. r \in ResultRecords /\ Tallied(r)
    BY <1>1, <2>2, RecordedIs, RecordedTallied
  <2> HIDE DEF r
  <2>4. FailureReason(r) \in ResultRecords /\ Tallied(FailureReason(r))
    BY <2>3, FailureIsTallied
  <2>. QED
    BY <2>1, <2>2, <2>4, DoneTallies DEF r
<1>. QED
  BY <1>2, <1>3, <1>4

LEMMA TallyInit == Init => TallyInv
<1> SUFFICES ASSUME Init PROVE TallyInv
  OBVIOUS
<1>1. ASSUME NEW s \in Suites
      PROVE  /\ Tallied(res[s]) /\ ~ res[s].Passed
             /\ \A i \in DOMAIN results[s] : Tallied(results[s][i])
             /\ pc[s] = "over" => at[s] = Len(CasesOf[s]) + 1
  <2>1. /\ res[s] = NewResult /\ results[s] = <<>> /\ at[s] = 1
        /\ pc[s] = IF CasesOf[s] = <<>> THEN "over" ELSE "sandbox"
    BY DEF Init
  <2>. QED
    BY <2>1, NewTallied
<1>. QED
  BY <1>1 DEF TallyInv

LEMMA TallyStep == BenchmarkInv /\ TallyInv /\ [Next]_vars => TallyInv'
<1> SUFFICES ASSUME BenchmarkInv, TallyInv, [Next]_vars PROVE TallyInv'
  OBVIOUS
<1>1. ASSUME NEW s \in Suites, SuiteStep(s) PROVE TallyInv'
  <2>1. CASE \/ NoSandbox(s) \/ SetupFails(s) \/ NoProvider(s)
             \/ GiveUp(s) \/ Pass(s) \/ Fail(s)
    BY <2>1, EndTallies
  <2>2. CASE Repair(s)
    <3>1. /\ res' = [res EXCEPT ![s] = Recorded(s, FALSE)]
          /\ pc' = [pc EXCEPT ![s] = "attempt"] /\ UNCHANGED <<at, results>>
          /\ pc[s] \in Late
      BY <2>2 DEF Repair, Goto, Late
    <3>2. /\ res \in [Suites -> ResultRecords]
          /\ pc \in [Suites -> Early \cup Late \cup {"over"}]
      BY DEF BenchmarkInv, Typed
    <3>3. Tallied(Recorded(s, FALSE)) /\ ~ Recorded(s, FALSE).Passed
      BY <3>1, RecordedIs, RecordedTallied DEF TallyInv
    <3>. QED
      BY <3>1, <3>2, <3>3 DEF TallyInv
  <2>3. CASE \/ MakeSandbox(s) \/ SetUp(s) \/ GetSession(s) \/ Prompt(s)
             \/ StartRun(s) \/ RefuseRun(s) \/ EndRun(s)
    <3>1. PICK l \in Late \cup {"setup", "session"} :
            pc' = [pc EXCEPT ![s] = l] /\ UNCHANGED <<at, res, results>>
      BY <2>3 DEF MakeSandbox, SetUp, GetSession, Prompt, StartRun, RefuseRun, EndRun, Goto, Late
    <3>2. l # "over" /\ pc \in [Suites -> Early \cup Late \cup {"over"}]
      BY DEF BenchmarkInv, Typed, Late
    <3>. QED
      BY <3>1, <3>2 DEF TallyInv
  <2>. QED
    BY <1>1, <2>1, <2>2, <2>3 DEF SuiteStep
<1>2. CASE (\E s \in Suites : Cancel(s)) \/ Tick \/ AllOver \/ UNCHANGED vars
  <2>1. UNCHANGED <<pc, at, res, results>>
    BY <1>2 DEF Cancel, Tick, AllOver, vars
  <2>. QED
    BY <2>1 DEF TallyInv
<1>. QED
  BY <1>1, <1>2 DEF Next

-----------------------------------------------------------------------------
\* What has been tallied case by case adds up over the cases.
LEMMA TalliesAddUp ==
  ASSUME NEW rs \in Seq(ResultRecords), \A i \in DOMAIN rs : Tallied(rs[i])
  PROVE  LET rep == buildSuiteReport(rs) IN
         /\ rep.Total = Len(rs)
         /\ rep.TotalUsage = Sum(rs, UsedIn)
         /\ rep.WastedUsage = Sum(rs, WastedIn)
         /\ rep.OneShotPassed + rep.RepairPassed + rep.Failed = rep.Total
         /\ rep.Passed = Sum(rs, PassedIn)
         /\ rep.AttemptsPassed >= rep.OneShotPassed + 2 * rep.RepairPassed
<1>1. PICK n \in Nat : n = Len(rs) /\ DOMAIN rs = 1..n
  OBVIOUS
<1> DEFINE passed   == [i \in 1..n |-> IF rs[i].Passed THEN 1 ELSE 0]
           oneShot  == [i \in 1..n |-> IF rs[i].Passed /\ rs[i].OneShot THEN 1 ELSE 0]
           failed   == [i \in 1..n |-> IF ~ rs[i].Passed THEN 1 ELSE 0]
           attempts == [i \in 1..n |-> IF rs[i].Passed THEN rs[i].Attempts ELSE 0]
           used     == [i \in 1..n |-> rs[i].TotalUsage]
           wasted   == [i \in 1..n |-> rs[i].WastedUsage]
           usedIn   == [i \in 1..n |-> UsedIn(rs[i])]
           wastedIn == [i \in 1..n |-> WastedIn(rs[i])]
           passedIn == [i \in 1..n |-> PassedIn(rs[i])]
           ones     == [i \in 1..n |-> 1]
           twice    == [i \in 1..n |-> passed[i] + passed[i]]
           both     == [i \in 1..n |-> attempts[i] + oneShot[i]]
           S(f)     == SumFunction(f)
<1>2. buildSuiteReport(rs) =
        [Total |-> n, Passed |-> S(passed), Failed |-> S(failed),
         OneShotPassed |-> S(oneShot), RepairPassed |-> S(passed) - S(oneShot),
         AttemptsPassed |-> S(attempts), TotalUsage |-> S(used), WastedUsage |-> S(wasted)]
  BY <1>1 DEF buildSuiteReport, CountIf, Sum, IsPassed, IsOneShot, IsFailed
<1>3. /\ Sum(rs, UsedIn) = S(usedIn) /\ Sum(rs, WastedIn) = S(wastedIn)
      /\ Sum(rs, PassedIn) = S(passedIn)
  BY <1>1 DEF Sum
<1>4. ASSUME NEW i \in 1..n
      PROVE  /\ UsedIn(rs[i]) = rs[i].TotalUsage /\ WastedIn(rs[i]) = rs[i].WastedUsage
             /\ PassedIn(rs[i]) = IF rs[i].Passed THEN 1 ELSE 0
             /\ rs[i].Attempts \in Nat /\ rs[i].Passed \in BOOLEAN /\ rs[i].OneShot \in BOOLEAN
             /\ rs[i].Passed => rs[i].Attempts >= 1
             /\ rs[i].OneShot <=> rs[i].Passed /\ rs[i].Attempts = 1
  <2>1. PICK r \in ResultRecords : r = rs[i] /\ Tallied(r)
    BY <1>1
  <2>2. r.Attempts \in Nat /\ r.Passed \in BOOLEAN /\ r.OneShot \in BOOLEAN
    BY DEF ResultRecords
  <2>. QED
    BY <2>1, <2>2, Zenon DEF Tallied
<1>5. usedIn = used /\ wastedIn = wasted /\ passedIn = passed
  BY <1>4
<1>6. /\ passed \in [1..n -> Nat] /\ oneShot \in [1..n -> Nat] /\ failed \in [1..n -> Nat]
      /\ attempts \in [1..n -> Nat] /\ ones \in [1..n -> Nat]
  BY <1>4
<1>7. /\ \A i \in 1..n : ones[i] = passed[i] + failed[i]
      /\ \A i \in 1..n : ones[i] = 1
  BY <1>4
<1>8. ASSUME NEW i \in 1..n PROVE twice[i] <= both[i]
  <2>1. CASE ~ rs[i].Passed
    BY <1>4, <2>1
  <2>2. CASE rs[i].Passed
    <3>1. PICK a \in Nat : a = rs[i].Attempts /\ a >= 1 /\ (rs[i].OneShot <=> a = 1)
      BY <1>4, <2>2
    <3>2. twice[i] = 2 /\ both[i] = a + IF rs[i].OneShot THEN 1 ELSE 0
      BY <2>2, <3>1
    <3>. QED
      BY <3>1, <3>2
  <2>. QED
    BY <2>1, <2>2
<1>9. /\ twice \in [1..n -> Nat] /\ \A i \in 1..n : twice[i] = passed[i] + passed[i]
      /\ both \in [1..n -> Nat] /\ \A i \in 1..n : both[i] = attempts[i] + oneShot[i]
  BY <1>6
<1> HIDE DEF passed, oneShot, failed, attempts, used, wasted, usedIn, wastedIn, passedIn,
             ones, twice, both
<1>10. S(ones) = n /\ S(ones) = S(passed) + S(failed)
  <2>1. S(ones) = n
    BY <1>6, <1>7, SumOfOnes
  <2>2. S(ones) = S(passed) + S(failed)
    <3>1. /\ passed \in [1..n -> Nat] /\ failed \in [1..n -> Nat] /\ ones \in [1..n -> Nat]
          /\ \A i \in 1..n : ones[i] = passed[i] + failed[i]
      BY <1>6, <1>7
    <3>. QED
      BY <3>1, SumsAdd, Zenon
  <2>. QED
    BY <2>1, <2>2
<1>11. S(twice) = S(passed) + S(passed) /\ S(both) = S(attempts) + S(oneShot)
  <2>1. S(twice) = S(passed) + S(passed)
    <3>1. /\ passed \in [1..n -> Nat] /\ twice \in [1..n -> Nat]
          /\ \A i \in 1..n : twice[i] = passed[i] + passed[i]
      BY <1>6, <1>9
    <3>. QED
      BY <3>1, SumsAdd, Zenon
  <2>2. S(both) = S(attempts) + S(oneShot)
    <3>1. /\ attempts \in [1..n -> Nat] /\ oneShot \in [1..n -> Nat] /\ both \in [1..n -> Nat]
          /\ \A i \in 1..n : both[i] = attempts[i] + oneShot[i]
      BY <1>6, <1>9
    <3>. QED
      BY <3>1, SumsAdd, Zenon
  <2>. QED
    BY <2>1, <2>2
<1>12. S(twice) <= S(both)
  BY <1>8, <1>9, SumsCompare
<1>13. PICK p \in Nat, o \in Nat, f \in Nat, a \in Nat :
         p = S(passed) /\ o = S(oneShot) /\ f = S(failed) /\ a = S(attempts)
  BY <1>6, SumIsNumber
<1>14. o + (p - o) + f = n /\ a >= o + 2 * (p - o)
  <2>1. n = p + f /\ p + p <= a + o
    BY <1>10, <1>11, <1>12, <1>13
  <2>. QED
    BY <2>1
<1>. QED
  BY <1>1, <1>2, <1>3, <1>5, <1>13, <1>14

LEMMA TalliesReport == BenchmarkInv /\ TallyInv => ReportsAddUp
<1> SUFFICES ASSUME BenchmarkInv, TallyInv, NEW s \in Suites, pc[s] = "over"
             PROVE  LET rs == results[s]  rep == buildSuiteReport(rs) IN
               /\ rep.Total = Len(CasesOf[s])
               /\ rep.TotalUsage = Sum(rs, UsedIn)
               /\ rep.WastedUsage = Sum(rs, WastedIn)
               /\ rep.OneShotPassed + rep.RepairPassed + rep.Failed = rep.Total
               /\ rep.Passed = Sum(rs, PassedIn)
               /\ rep.AttemptsPassed >= rep.OneShotPassed + 2 * rep.RepairPassed
               /\ \A i \in DOMAIN rs : \A k \in DOMAIN rs[i].AttemptLog :
                    rs[i].AttemptLog[k].Passed => k = Len(rs[i].AttemptLog)
  BY DEF ReportsAddUp
<1>1. PICK rs \in Seq(ResultRecords) : rs = results[s]
  BY DEF BenchmarkInv, Typed
<1>2. Len(rs) = Len(CasesOf[s])
  <2>1. at[s] = Len(rs) + 1 /\ at[s] = Len(CasesOf[s]) + 1
    BY <1>1 DEF BenchmarkInv, Placed, TallyInv
  <2>2. Len(rs) \in Nat /\ Len(CasesOf[s]) \in Nat
    BY CasesAreTyped
  <2>. QED
    BY <2>1, <2>2
<1>3. \A i \in DOMAIN rs : Tallied(rs[i])
  BY <1>1 DEF TallyInv
<1>4. \A i \in DOMAIN rs : \A k \in DOMAIN rs[i].AttemptLog :
        rs[i].AttemptLog[k].Passed => k = Len(rs[i].AttemptLog)
  BY <1>3 DEF Tallied
<1>. QED
  BY <1>1, <1>2, <1>3, <1>4, TalliesAddUp

\* Whatever the suites do beside each other, the report of each can be told from
\* its attempts alone ( runTest:233 - 253, buildSuiteReport ).
THEOREM ReportsAdd == Spec => []ReportsAddUp
  BY BenchmarkInit, BenchmarkStep, TallyInit, TallyStep, TalliesReport, PTL DEF Spec
=============================================================================
