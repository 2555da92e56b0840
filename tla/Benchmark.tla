------------------------------ MODULE Benchmark ------------------------------
(***************************************************************************)
(* obs/eval: a runner evaluates suites of cases, each case in a sandbox    *)
(* and a session named by its id and the second they are made in, with a   *)
(* round of repair after each failed attempt.  Calls of RunSuite on one    *)
(* runner share its sessions, and nothing orders them.                     *)
(*                                                                         *)
(* A run of the engine is one step at its start, where it takes the        *)
(* session, and one at its end; AgentRun models what is between.           *)
(***************************************************************************)
EXTENDS Integers, Sequences, Functions

CONSTANTS Suites,       \* calls of RunSuite on one runner
          CasesOf,      \* the cases of each: [id, MaxAttempts, setup]
          defaultMaxAttempts,
          MaxUsage,     \* bound: tokens of one attempt
          LastSecond    \* bound: the clock stops there

ASSUME BenchmarkAssumption ==
  /\ CasesOf \in [Suites -> Seq([id : STRING, MaxAttempts : Int, setup : BOOLEAN])]
  /\ defaultMaxAttempts \in Nat \ {0}
  /\ MaxUsage \in Nat /\ LastSecond \in Nat

VARIABLES now,       \* time.Now().Unix()
          cancelled, \* the suites whose context is done
          sessions,  \* SessionManager.sessions of the runner
          pc,        \* where each suite is
          at,        \* the case each suite has come to
          job,       \* the locals of runTest and executeAttempt
          res,       \* TestResult of the case under way
          results    \* those of the cases done

vars == <<now, cancelled, sessions, pc, at, job, res, results>>

-----------------------------------------------------------------------------
Case(s) == CasesOf[s][at[s]]

\* Mutation: a limit of zero is taken as it is.
attemptLimitRaw(c) == c.MaxAttempts

attemptLimit(c) == IF c.MaxAttempts <= 0 THEN defaultMaxAttempts ELSE c.MaxAttempts

NewResult == [Passed |-> FALSE, OneShot |-> FALSE, Attempts |-> 0,
              TotalUsage |-> 0, WastedUsage |-> 0, AttemptLog |-> <<>>, ErrMsg |-> "none"]

NewJob == [dir |-> <<"none", 0>>, key |-> <<"none", 0>>, attempt |-> 0,
           feedback |-> "none", runErr |-> "none", usage |-> 0]

Init ==
  /\ now = 0 /\ cancelled = {} /\ sessions = <<>>
  /\ pc = [s \in Suites |-> IF CasesOf[s] = <<>> THEN "over" ELSE "sandbox"]
  /\ at = [s \in Suites |-> 1]
  /\ job = [s \in Suites |-> NewJob]
  /\ res = [s \in Suites |-> NewResult]
  /\ results = [s \in Suites |-> <<>>]

Goto(s, label) == pc' = [pc EXCEPT ![s] = label]

\* runTest returns a result, and RunSuite goes on to the next case.
Done(s, result) ==
  /\ results' = [results EXCEPT ![s] = Append(@, result)]
  /\ at' = [at EXCEPT ![s] = @ + 1]
  /\ job' = [job EXCEPT ![s] = NewJob]
  /\ res' = [res EXCEPT ![s] = NewResult]
  /\ Goto(s, IF at[s] = Len(CasesOf[s]) THEN "over" ELSE "sandbox")

\* What has to be there before the first attempt is not.
Infrastructure(s) ==
  /\ Done(s, [res[s] EXCEPT !.ErrMsg = "infrastructure"])
  /\ UNCHANGED <<now, cancelled, sessions>>

\* prepareSandbox: the directory of this second; it may be there already.
MakeSandbox(s) ==
  /\ pc[s] = "sandbox"
  /\ job' = [job EXCEPT ![s].dir = <<Case(s).id, now>>]
  /\ Goto(s, IF Case(s).setup THEN "setup" ELSE "session")
  /\ UNCHANGED <<now, cancelled, sessions, at, res, results>>

NoSandbox(s) == pc[s] = "sandbox" /\ Infrastructure(s)

\* The setup script takes its time; it is killed when the context is done.
SetUp(s) ==
  /\ pc[s] = "setup" /\ s \notin cancelled
  /\ Goto(s, "session")
  /\ UNCHANGED <<now, cancelled, sessions, at, job, res, results>>

SetupFails(s) == pc[s] = "setup" /\ Infrastructure(s)

\* newLLMProvider has no key.
NoProvider(s) == pc[s] = "session" /\ Infrastructure(s)

SessionKey(s) == <<Case(s).id, now>>

\* SessionManager.Get: a session that is there keeps its workspace.
GetSession(s) ==
  /\ pc[s] = "session"
  /\ LET key == SessionKey(s) IN
       /\ job' = [job EXCEPT ![s].key = key, ![s].attempt = 1]
       /\ sessions' =
            IF key \in DOMAIN sessions THEN sessions
            ELSE [k \in DOMAIN sessions \cup {key} |->
                    IF k = key THEN [workspace |-> job[s].dir, history |-> <<>>, running |-> FALSE]
                    ELSE sessions[k]]
  /\ Goto(s, "attempt")
  /\ UNCHANGED <<now, cancelled, at, res, results>>

Key(s) == job[s].key

\* fillFailureReason: a case that has not passed says why.
FailureReason(r) ==
  IF r.Passed \/ r.ErrMsg /= "none" \/ r.AttemptLog = <<>> THEN r
  ELSE [r EXCEPT !.ErrMsg = "attempts"]

\* The context is done before the next attempt.
GiveUp(s) ==
  /\ pc[s] = "attempt"
  /\ s \in cancelled
  /\ Done(s, FailureReason([res[s] EXCEPT !.ErrMsg = "cancelled"]))
  /\ UNCHANGED <<now, cancelled, sessions>>

\* The prompt, or what is to be repaired, goes to the session.  That the engine
\* of an attempt cannot be built is not modelled: NewAgentEngine refuses only
\* what the runner never hands to it.
Message(s) == [suite |-> s, case |-> at[s], attempt |-> job[s].attempt,
               feedback |-> job[s].feedback]

Prompt(s) ==
  /\ pc[s] = "attempt"
  /\ s \notin cancelled
  /\ sessions' = [sessions EXCEPT ![Key(s)].history = Append(@, Message(s))]
  /\ Goto(s, "run")
  /\ UNCHANGED <<now, cancelled, at, job, res, results>>

\* AgentEngine.Run takes the session, or it is refused at once.
StartRun(s) ==
  /\ pc[s] = "run"
  /\ s \notin cancelled /\ ~ sessions[Key(s)].running
  /\ sessions' = [sessions EXCEPT ![Key(s)].running = TRUE]
  /\ Goto(s, "running")
  /\ UNCHANGED <<now, cancelled, at, job, res, results>>

RefuseRun(s) ==
  /\ pc[s] = "run"
  /\ s \in cancelled \/ sessions[Key(s)].running
  /\ job' = [job EXCEPT ![s].runErr = "refused", ![s].usage = 0]
  /\ Goto(s, "validate")
  /\ UNCHANGED <<now, cancelled, sessions, at, res, results>>

\* The run ends, with or without an error; the attempt's own ledger is read.
EndRun(s) ==
  /\ pc[s] = "running"
  /\ \E e \in {"none", "error"}, u \in 0..MaxUsage :
       job' = [job EXCEPT ![s].runErr = e, ![s].usage = u]
  /\ sessions' = [sessions EXCEPT ![Key(s)].running = FALSE]
  /\ Goto(s, "validate")
  /\ UNCHANGED <<now, cancelled, at, res, results>>

\* Mutation: only runs without an error are charged, and none in vain.
RecordedOfGoodRuns(s, passed) ==
  LET r == res[s]  u == job[s].usage IN
  [r EXCEPT !.Attempts = job[s].attempt, !.TotalUsage = IF job[s].runErr = "none" THEN @ + u ELSE @,
            !.Passed = passed, !.OneShot = passed /\ job[s].attempt = 1,
            !.AttemptLog = Append(@, [Passed |-> passed, Usage |-> u, RunErr |-> job[s].runErr])]

\* The attempt is entered into the result.
Recorded(s, passed) ==
  LET r == res[s]  u == job[s].usage IN
  [r EXCEPT !.Attempts = job[s].attempt, !.TotalUsage = @ + u,
            !.WastedUsage = IF passed THEN @ ELSE @ + u,
            !.Passed = passed, !.OneShot = passed /\ job[s].attempt = 1,
            !.AttemptLog = Append(@, [Passed |-> passed, Usage |-> u, RunErr |-> job[s].runErr])]

\* The script is run whatever the run has returned; a context that is done
\* makes it fail.
Pass(s) ==
  /\ pc[s] = "validate"
  /\ s \notin cancelled
  /\ Done(s, FailureReason(Recorded(s, TRUE)))
  /\ UNCHANGED <<now, cancelled, sessions>>

\* Mutation: what the next attempt is told is left as it was.
FeedbackUnchanged(s) == job[s].feedback

\* buildRepairFeedback, of the attempt that has just failed.
Feedback(s) == job[s].runErr

Repair(s) ==
  /\ pc[s] = "validate"
  /\ job[s].attempt < attemptLimit(Case(s))
  /\ res' = [res EXCEPT ![s] = Recorded(s, FALSE)]
  /\ job' = [job EXCEPT ![s].attempt = @ + 1, ![s].feedback = Feedback(s)]
  /\ Goto(s, "attempt")
  /\ UNCHANGED <<now, cancelled, sessions, at, results>>

Fail(s) ==
  /\ pc[s] = "validate"
  /\ job[s].attempt >= attemptLimit(Case(s))
  /\ Done(s, FailureReason(Recorded(s, FALSE)))
  /\ UNCHANGED <<now, cancelled, sessions>>

Tick ==
  /\ now < LastSecond
  /\ now' = now + 1
  /\ UNCHANGED <<cancelled, sessions, pc, at, job, res, results>>

Cancel(s) ==
  /\ s \notin cancelled /\ pc[s] /= "over"
  /\ cancelled' = cancelled \cup {s}
  /\ UNCHANGED <<now, sessions, pc, at, job, res, results>>

SuiteStep(s) ==
  \/ MakeSandbox(s) \/ NoSandbox(s) \/ SetUp(s) \/ SetupFails(s)
  \/ NoProvider(s) \/ GetSession(s) \/ GiveUp(s) \/ Prompt(s)
  \/ StartRun(s) \/ RefuseRun(s) \/ EndRun(s) \/ Pass(s) \/ Repair(s) \/ Fail(s)

AllOver == (\A s \in Suites : pc[s] = "over") /\ UNCHANGED vars

Next == (\E s \in Suites : SuiteStep(s) \/ Cancel(s)) \/ Tick \/ AllOver

Spec == Init /\ [][Next]_vars

-----------------------------------------------------------------------------
(* The report of a suite, as buildSuiteReport adds it up. *)

Sum(seq, Value(_))   == SumFunction([i \in DOMAIN seq |-> Value(seq[i])])
CountIf(seq, Test(_)) == Sum(seq, LAMBDA x : IF Test(x) THEN 1 ELSE 0)

IsPassed(r)  == r.Passed
IsOneShot(r) == r.Passed /\ r.OneShot
IsFailed(r)  == ~ r.Passed

buildSuiteReport(rs) ==
  LET passed == CountIf(rs, IsPassed)
      oneShot == CountIf(rs, IsOneShot)
  IN  [Total |-> Len(rs), Passed |-> passed, Failed |-> CountIf(rs, IsFailed),
       OneShotPassed |-> oneShot, RepairPassed |-> passed - oneShot,
       AttemptsPassed |-> Sum(rs, LAMBDA r : IF r.Passed THEN r.Attempts ELSE 0),
       TotalUsage |-> Sum(rs, LAMBDA r : r.TotalUsage),
       WastedUsage |-> Sum(rs, LAMBDA r : r.WastedUsage)]

-----------------------------------------------------------------------------
(* Properties. *)

\* What is used, used in vain, and passed in the attempts at one case.
UsedIn(r)   == Sum(r.AttemptLog, LAMBDA a : a.Usage)
WastedIn(r) == Sum(r.AttemptLog, LAMBDA a : IF a.Passed THEN 0 ELSE a.Usage)
PassedIn(r) == CountIf(r.AttemptLog, IsPassed)

\* The report can be told from the attempts alone: what was used, what was used
\* in vain, how often a case passed at once or later, and after how many
\* attempts; an attempt that follows another is of a case that had not passed
\* ( runTest:233 - 253, buildSuiteReport ).
ReportsAddUp ==
  \A s \in Suites : pc[s] = "over" =>
    LET rs == results[s]  rep == buildSuiteReport(rs) IN
    /\ rep.Total = Len(CasesOf[s])
    /\ rep.TotalUsage = Sum(rs, UsedIn)
    /\ rep.WastedUsage = Sum(rs, WastedIn)
    /\ rep.OneShotPassed + rep.RepairPassed + rep.Failed = rep.Total
    /\ rep.Passed = Sum(rs, PassedIn)
    /\ rep.AttemptsPassed >= rep.OneShotPassed + 2 * rep.RepairPassed
    /\ \A i \in DOMAIN rs : \A k \in DOMAIN rs[i].AttemptLog :
         rs[i].AttemptLog[k].Passed => k = Len(rs[i].AttemptLog)

\* A case that has not passed says why, also when it was never attempted, and
\* one that has says nothing; it was attempted as often as it may be, unless
\* something else than its attempts is named ( runTest, attemptLimit,
\* fillFailureReason ).
FailuresAreExplained ==
  \A s \in Suites : \A i \in DOMAIN results[s] :
    LET r == results[s][i] IN
    /\ r.Passed <=> r.ErrMsg = "none"
    /\ r.ErrMsg = "attempts" => Len(r.AttemptLog) = attemptLimit(CasesOf[s][i])
    /\ r.ErrMsg = "infrastructure" => r.AttemptLog = <<>>
    /\ r.Attempts = Len(r.AttemptLog)

\* Whoever else writes to the session, every request for repair stands behind
\* the message of the attempt it is about, tells the error of its run, and that
\* attempt has failed ( runTest:229, 254, SessionManager.Get ).
RepairsFollowFailures ==
  \A key \in DOMAIN sessions : \A i \in DOMAIN sessions[key].history :
    LET m == sessions[key].history[i]
        log == IF m.case < at[m.suite] THEN results[m.suite][m.case].AttemptLog
               ELSE res[m.suite].AttemptLog
    IN
    m.attempt > 1 =>
      /\ \E j \in 1 .. i - 1 : sessions[key].history[j] = [m EXCEPT !.attempt = @ - 1,
           !.feedback = sessions[key].history[j].feedback]
      /\ ~ log[m.attempt - 1].Passed
      /\ m.feedback = log[m.attempt - 1].RunErr

-----------------------------------------------------------------------------
(* A statement of the repository's comments that the code does not keep. *)

\* benchmark.go:211: the second in the name keeps the sessions of several
\* cases and suites apart.
CasesAreIsolated ==
  \A key \in DOMAIN sessions :
    LET h == sessions[key].history IN
    \A i, j \in DOMAIN h : h[i].suite = h[j].suite /\ h[i].case = h[j].case
=============================================================================
