------------------------------ MODULE AgentRun ------------------------------
(***************************************************************************)
(* Agent runs over shared sessions: every incoming message posts its       *)
(* prompt in the session's history and then tries to run the engine loop   *)
(* (engine/loop.go, engine/session.go).  Runs of different sessions share  *)
(* one token ledger (obs/cost_tracker.go).                                 *)
(*                                                                         *)
(* One atomic step is one access to shared state: an Append, the CAS of    *)
(* TryStartRun, a ledger update, one transition of a tool goroutine.  A    *)
(* model call is in flight between the step that snapshots the history     *)
(* and the step that handles its answer.                                   *)
(***************************************************************************)
EXTENDS Integers, Sequences, FiniteSets

CONSTANTS Tasks,        \* one task per incoming message ( agentRun goroutine )
          Sessions,     \* the session IDs
          SessionOf,    \* the session a task's message belongs to
          ThinkMode,    \* AgentEngine.thinkMode
          MaxTurns,     \* runConfig.maxTurns, 0 = unlimited
          Threshold,    \* CostTracker.tokenThreshold, 0 = unlimited
          RemindAfter,  \* ReminderInjector.threshold
          MaxCalls,     \* bound: tool calls the model asks for in one reply
          MaxUsage,     \* bound: tokens one model call costs
          Cancellable   \* tasks whose context may be cancelled or time out

ASSUME RunAssumption ==
  /\ SessionOf \in [Tasks -> Sessions]
  /\ ThinkMode \in BOOLEAN
  /\ MaxTurns \in Nat /\ Threshold \in Nat
  /\ RemindAfter \in Nat \ {0}
  /\ MaxCalls \in Nat /\ MaxUsage \in Nat
  /\ Cancellable \subseteq Tasks
  /\ "nobody" \notin Tasks

VARIABLES pc,         \* where each task is in agentRun / Run
          turn,       \* the loop variable of Run
          cancelled,  \* ctx.Err() # nil
          calls,      \* state of each tool goroutine of the current batch
          sent,       \* length of the history the request in flight was built from
          outcome,    \* what Run returned
          history,    \* Session.history
          running,    \* Session.running
          strikes,    \* Session.injector: the highest consecutive-failure count
          total,      \* CostTracker: prompt + completion tokens
          billed      \* tokens of all answered calls, as the provider bills them

local  == <<pc, turn, cancelled, calls, sent, outcome>>
shared == <<history, running, strikes>>
ledger == <<total, billed>>
vars   == <<local, shared, ledger>>

-----------------------------------------------------------------------------
(* Messages: a result is a user message that names its call; a reply is an *)
(* assistant message that carries so many tool calls.                      *)

Message == [role : {"user", "assistant"}, run : Tasks,
            turn : Nat, calls : Nat, call : Nat]

UserMsg(t, k, c) == [role |-> "user", run |-> t, turn |-> k, calls |-> 0, call |-> c]
Prompt(t)    == UserMsg(t, 0, 0)
Notice(t, k) == UserMsg(t, k, 0)
Result(t, k, c) == UserMsg(t, k, c)
Reply(t, k, n) ==
  [role |-> "assistant", run |-> t, turn |-> k, calls |-> n, call |-> 0]

IsPlainUser(m) == m.role = "user" /\ m.call = 0

\* Session.GetWorkingMemory: the last "limit" messages, extended backwards
\* to the nearest plain user message.
GetWorkingMemory(h, limit) ==
  LET cut   == IF limit > 0 /\ Len(h) > limit THEN Len(h) - limit + 1 ELSE 1
      start == CHOOSE i \in 1..cut :
                 /\ i = 1 \/ IsPlainUser(h[i])
                 /\ \A j \in (i+1)..cut : ~ IsPlainUser(h[j])
  IN  SubSeq(h, start, Len(h))

\* What the model was sent: buildRequestHistory takes the whole history.
Request(t) == GetWorkingMemory(SubSeq(history[SessionOf[t]], 1, sent[t]), 0)

\* Mutation: the ledger is exhausted one token too late.
ReachedLate(n)   == Threshold > 0 /\ n > Threshold

\* runConfig.exhausted and CostTracker.exceededLocked.
Exhausted(t) == MaxTurns > 0 /\ turn[t] > MaxTurns
Reached(n)   == Threshold > 0 /\ n >= Threshold

-----------------------------------------------------------------------------
InFlight == {"think", "act", "final"}
Holding  == {"prepare", "boundary", "told", "exec", "ending"} \cup InFlight

Init ==
  /\ pc = [t \in Tasks |-> "idle"]
  /\ turn = [t \in Tasks |-> 1]
  /\ cancelled = [t \in Tasks |-> FALSE]
  /\ calls = [t \in Tasks |-> <<>>]
  /\ sent = [t \in Tasks |-> 0]
  /\ outcome = [t \in Tasks |-> "none"]
  /\ history = [s \in Sessions |-> <<>>]
  /\ running = [s \in Sessions |-> FALSE]
  /\ strikes = [s \in Sessions |-> 0]
  /\ total = 0 /\ billed = 0

\* Session.Append.
Write(t, msgs) ==
  history' = [history EXCEPT ![SessionOf[t]] = @ \o msgs]

Goto(t, label) == pc' = [pc EXCEPT ![t] = label]

\* Run decides what it will return; the deferred calls are still to come.
Finish(t, result) ==
  /\ Goto(t, "ending")
  /\ outcome' = [outcome EXCEPT ![t] = result]

Return(t, result) ==
  /\ Goto(t, "done")
  /\ outcome' = [outcome EXCEPT ![t] = result]

\* Mutation: the flag is set without looking at it.
TryStartRunBlindly(s) == running' = [running EXCEPT ![s] = TRUE]

TryStartRun(s) ==
  /\ ~ running[s]
  /\ running' = [running EXCEPT ![s] = TRUE]

\* A message arrives: agentRun gets the session and appends the prompt,
\* whatever the session is doing, before Run is called.
Arrive(t) ==
  /\ pc[t] = "idle"
  /\ Write(t, <<Prompt(t)>>)
  /\ Goto(t, "arrived")
  /\ UNCHANGED <<turn, cancelled, calls, sent, outcome, running, strikes, ledger>>

\* Run returns at once when the context is done or the session is busy.
Refuse(t) ==
  /\ pc[t] = "arrived"
  /\ \/ cancelled[t] /\ Return(t, "error")
     \/ ~ cancelled[t] /\ running[SessionOf[t]] /\ Return(t, "busy")
  /\ UNCHANGED <<turn, cancelled, calls, sent, shared, ledger>>

\* TryStartRun succeeds; the failure counters restart with the run.
Start(t) ==
  /\ pc[t] = "arrived"
  /\ ~ cancelled[t]
  /\ TryStartRun(SessionOf[t])
  /\ strikes' = [strikes EXCEPT ![SessionOf[t]] = 0]
  /\ Goto(t, "prepare")
  /\ UNCHANGED <<turn, cancelled, calls, sent, outcome, history, ledger>>

\* buildSystemMessage reads the workspace; it may fail.
Prepare(t) ==
  /\ pc[t] = "prepare"
  /\ \/ Goto(t, "boundary") /\ UNCHANGED outcome
     \/ Finish(t, "error")
  /\ UNCHANGED <<turn, cancelled, calls, sent, shared, ledger>>

\* The request of a model call is built and the call goes out.
Send(t, label) ==
  /\ Goto(t, label)
  /\ sent' = [sent EXCEPT ![t] = Len(history'[SessionOf[t]])]

\* Top of the loop: no budget is exhausted, a turn begins.
BeginTurn(t) ==
  /\ pc[t] = "boundary"
  /\ ~ Reached(total) /\ ~ Exhausted(t)
  /\ ~ cancelled[t]
  /\ UNCHANGED history
  /\ Send(t, IF ThinkMode THEN "think" ELSE "act")
  /\ UNCHANGED <<turn, cancelled, calls, outcome, running, strikes, ledger>>

\* A budget is exhausted: forceFinalTurn posts the instruction to conclude ...
ForceFinal(t) ==
  /\ pc[t] = "boundary"
  /\ Reached(total) \/ Exhausted(t)
  /\ ~ cancelled[t]
  /\ Write(t, <<Notice(t, turn[t])>>)
  /\ Goto(t, "told")
  /\ UNCHANGED <<turn, cancelled, calls, sent, outcome, running, strikes, ledger>>

\* ... and asks for one more completion, without tools.  The context is not
\* looked at again.
AskFinal(t) ==
  /\ pc[t] = "told"
  /\ UNCHANGED history
  /\ Send(t, "final")
  /\ UNCHANGED <<turn, cancelled, calls, outcome, running, strikes, ledger>>

\* Mutation: a cancelled turn is tried again and again.
AbortTurnNever(t) == pc[t] = "boundary" /\ cancelled[t] /\ UNCHANGED vars

\* checkCanceled at the start of either kind of turn.
AbortTurn(t) ==
  /\ pc[t] = "boundary"
  /\ cancelled[t]
  /\ Finish(t, "error")
  /\ UNCHANGED <<turn, cancelled, calls, sent, shared, ledger>>

\* The provider answers and bills u tokens; Observe is reached unless the
\* answer is dropped.
Bill(u) == billed' = billed + u

\* Mutations: usage is taken back; usage is cumulative and added again.
ObserveRefund(u) == total' = total - u
ObserveTwice(u)  == total' = total + 2 * u

Observe(u) == total' = total + u

\* Mutation: the error is swallowed.
CallFailsSilently(t) ==
  /\ pc[t] \in InFlight
  /\ Finish(t, "ok")
  /\ UNCHANGED <<turn, cancelled, calls, sent, shared, ledger>>

\* The provider's Generate fails, in any phase.
CallFails(t) ==
  /\ pc[t] \in InFlight
  /\ Finish(t, "error")
  /\ UNCHANGED <<turn, cancelled, calls, sent, shared, ledger>>

\* think and act check the context after a successful answer and drop the
\* answer with its usage.
DropAnswer(t) ==
  /\ pc[t] \in {"think", "act"}
  /\ cancelled[t]
  /\ \E u \in 0..MaxUsage : Bill(u)
  /\ Finish(t, "error")
  /\ UNCHANGED <<turn, cancelled, calls, sent, shared, total>>

ThinkAnswer(t) ==
  /\ pc[t] = "think"
  /\ ~ cancelled[t]
  /\ \E u \in 0..MaxUsage : Bill(u) /\ Observe(u)
  /\ UNCHANGED history
  /\ Send(t, "act")
  /\ UNCHANGED <<turn, cancelled, calls, outcome, running, strikes>>

\* The reply is appended; without tool calls it ends the run, otherwise one
\* goroutine per call starts.
ActAnswer(t) ==
  /\ pc[t] = "act"
  /\ ~ cancelled[t]
  /\ \E u \in 0..MaxUsage : Bill(u) /\ Observe(u)
  /\ \E n \in 0..MaxCalls :
       /\ Write(t, <<Reply(t, turn[t], n)>>)
       /\ IF n = 0
          THEN Finish(t, "ok") /\ UNCHANGED calls
          ELSE /\ Goto(t, "exec")
               /\ calls' = [calls EXCEPT ![t] = [i \in 1..n |-> "ready"]]
               /\ UNCHANGED outcome
  /\ UNCHANGED <<turn, cancelled, sent, running, strikes>>

\* forceFinalTurn does not look at the context again.
FinalAnswer(t) ==
  /\ pc[t] = "final"
  /\ \E u \in 0..MaxUsage : Bill(u) /\ Observe(u)
  /\ Write(t, <<Reply(t, turn[t], 0)>>)
  /\ Finish(t, "ok")
  /\ UNCHANGED <<turn, cancelled, calls, sent, running, strikes>>

\* One tool goroutine: it starts the tool unless the context is done, and
\* keeps the result unless the context is done when the tool returns.
CallStep(t, i, from, to) ==
  /\ pc[t] = "exec"
  /\ calls[t][i] = from
  /\ calls' = [calls EXCEPT ![t][i] = IF cancelled[t] THEN "failed" ELSE to]
  /\ UNCHANGED <<pc, turn, cancelled, sent, outcome, shared, ledger>>

CallStart(t, i)  == CallStep(t, i, "ready", "busy")
CallReturn(t, i) == CallStep(t, i, "busy", "kept")

Settled(t) == \A i \in DOMAIN calls[t] : calls[t][i] \in {"kept", "failed"}

\* Mutation: results in the order of completion.
ResultsReversed(t) ==
  [i \in 1..Len(calls[t]) |-> Result(t, turn[t], Len(calls[t]) + 1 - i)]

Results(t) == [i \in 1..Len(calls[t]) |-> Result(t, turn[t], i)]

\* Mutation: the reminder comes first.
ObservationsReminderFirst(t, worst) ==
  IF worst >= RemindAfter THEN <<Notice(t, turn[t])>> \o Results(t) ELSE Results(t)

\* What execToolCalls returns, with the reminder of CheckAndInject last.
Observations(t, worst) ==
  IF worst >= RemindAfter THEN Append(Results(t), Notice(t, turn[t])) ELSE Results(t)

\* Mutation: an aborted batch leaves its first result.
AbortBatchPartly(t) ==
  /\ pc[t] = "exec"
  /\ Settled(t)
  /\ cancelled[t]
  /\ Write(t, <<Result(t, turn[t], 1)>>)
  /\ Finish(t, "error")
  /\ UNCHANGED <<turn, cancelled, calls, sent, running, strikes, ledger>>

\* errGroup.Wait returned an error, or the context is done after it: the run
\* aborts and no result is appended.
AbortBatch(t) ==
  /\ pc[t] = "exec"
  /\ Settled(t)
  /\ cancelled[t] \/ \E i \in DOMAIN calls[t] : calls[t][i] = "failed"
  /\ Finish(t, "error")
  /\ UNCHANGED <<turn, cancelled, calls, sent, shared, ledger>>

\* All calls succeeded: CheckAndInject updates the failure counters, then the
\* results are appended in call order with the reminder last.  A tool's own
\* error is a result as well, so the highest counter drops to 0, restarts at 1
\* or goes one up, as the tools decide.
FinishBatch(t) ==
  /\ pc[t] = "exec"
  /\ \A i \in DOMAIN calls[t] : calls[t][i] = "kept"
  /\ ~ cancelled[t]
  /\ \E worst \in 0..(strikes[SessionOf[t]] + 1) :
       /\ strikes' = [strikes EXCEPT ![SessionOf[t]] = worst]
       /\ Write(t, Observations(t, worst))
  /\ turn' = [turn EXCEPT ![t] = @ + 1]
  /\ Goto(t, "boundary")
  /\ UNCHANGED <<cancelled, calls, sent, outcome, running, ledger>>

\* Mutation: the flag stays set.
EndRunForgotten(t) ==
  /\ pc[t] = "ending"
  /\ Goto(t, "done")
  /\ UNCHANGED <<turn, cancelled, calls, sent, outcome, shared, ledger>>

\* The deferred EndRun, after the root span has been exported.
EndRun(t) ==
  /\ pc[t] = "ending"
  /\ running' = [running EXCEPT ![SessionOf[t]] = FALSE]
  /\ Goto(t, "done")
  /\ UNCHANGED <<turn, cancelled, calls, sent, outcome, history, strikes, ledger>>

\* The run's context times out or is cancelled by the caller.
Cancel(t) ==
  /\ t \in Cancellable
  /\ pc[t] \notin {"idle", "done"}
  /\ ~ cancelled[t]
  /\ cancelled' = [cancelled EXCEPT ![t] = TRUE]
  /\ UNCHANGED <<pc, turn, calls, sent, outcome, shared, ledger>>

\* Every task is over.
AllDone == (\A t \in Tasks : pc[t] = "done") /\ UNCHANGED vars

\* What the engine does by itself, and the answers of the provider.
EngineStep(t) ==
  \/ Refuse(t) \/ Start(t) \/ Prepare(t)
  \/ BeginTurn(t) \/ ForceFinal(t) \/ AskFinal(t) \/ AbortTurn(t)
  \/ CallFails(t) \/ DropAnswer(t)
  \/ ThinkAnswer(t) \/ ActAnswer(t) \/ FinalAnswer(t)
  \/ \E i \in DOMAIN calls[t] : CallStart(t, i)
  \/ AbortBatch(t) \/ FinishBatch(t)
  \/ EndRun(t)

RunStep(t) == EngineStep(t) \/ \E i \in DOMAIN calls[t] : CallReturn(t, i)

Next ==
  \/ \E t \in Tasks : Arrive(t) \/ RunStep(t) \/ Cancel(t)
  \/ AllDone

Spec == Init /\ [][Next]_vars

(* Goroutines are scheduled and the provider answers or fails.  Nothing makes *)
(* a message arrive, a context end or a tool return: bash may wait for a pipe *)
(* and the terminal for a line for ever ( bash_executor.go:91,                *)
(* terminal_approver.go:58 ).                                                 *)
FairSpec == Spec /\ \A t \in Tasks : WF_vars(EngineStep(t))

-----------------------------------------------------------------------------
(* Properties. *)

\* Every variable stays in its range ( the fields of Session, runConfig and
\* CostTracker, and the control state of Run ).
TypeOK ==
  /\ pc \in [Tasks -> {"idle", "arrived", "done"} \cup Holding]
  /\ turn \in [Tasks -> Nat]
  /\ cancelled \in [Tasks -> BOOLEAN]
  /\ calls \in [Tasks -> Seq({"ready", "busy", "kept", "failed"})]
  /\ sent \in [Tasks -> Nat]
  /\ outcome \in [Tasks -> {"none", "ok", "busy", "error"}]
  /\ history \in [Sessions -> Seq(Message)]
  /\ running \in [Sessions -> BOOLEAN]
  /\ strikes \in [Sessions -> Nat]
  /\ total \in Nat /\ billed \in Nat

Active(t) == pc[t] \in Holding

\* The running flag of a session is held by exactly one run while it is set,
\* on every return path of Run ( TryStartRun / deferred EndRun ).
OneRunPerSession ==
  /\ \A t, u \in Tasks :
       Active(t) /\ Active(u) /\ SessionOf[t] = SessionOf[u] => t = u
  /\ \A s \in Sessions :
       running[s] <=> \E t \in Tasks : SessionOf[t] = s /\ Active(t)

\* What runs write never interleaves: of three messages written by runs, the
\* outer two of one run, the middle one is of that run too, and turns grow.
\* This is what the running flag is for ( session.go:45-48 ).
RunsDoNotInterleave ==
  \A s \in Sessions : LET h == history[s] IN
    \A i, j, k \in DOMAIN h :
      /\ i < j /\ j < k
      /\ h[i].turn > 0 /\ h[j].turn > 0 /\ h[k].turn > 0
      /\ h[i].run = h[k].run
      => h[j].run = h[i].run /\ h[i].turn <= h[j].turn /\ h[j].turn <= h[k].turn

AnswersOf(h, i) ==
  {j \in DOMAIN h : h[j].call > 0 /\ h[j].run = h[i].run /\ h[j].turn = h[i].turn}

\* The results of a reply's calls are in the history all together or not at
\* all, in call order, after the reply with nothing but prompts in between;
\* and no result lacks its reply ( execToolCalls, runTurn ).
AnswersAreWhole ==
  \A s \in Sessions : LET h == history[s] IN
    /\ \A i \in DOMAIN h : h[i].calls > 0 =>
         \/ AnswersOf(h, i) = {}
         \/ \E k \in i..Len(h) :
              /\ AnswersOf(h, i) = (k+1)..(k + h[i].calls)
              /\ \A c \in 1..h[i].calls : h[k+c].call = c
              /\ \A j \in (i+1)..k : h[j].turn = 0
    /\ \A j \in DOMAIN h : h[j].call > 0 =>
         \E i \in 1..(j-1) : h[i].calls > 0 /\ j \in AnswersOf(h, i)

\* A run that succeeds has concluded: the last message it wrote is a reply
\* without tool calls, and no other run writes one ( subConclusion and the
\* reports to the user rely on it ).
SuccessIsConcluded ==
  \A t \in Tasks : LET h == history[SessionOf[t]] IN
    outcome[t] = "ok" <=>
      \E i \in DOMAIN h :
        /\ h[i].run = t /\ h[i].role = "assistant" /\ h[i].calls = 0
        /\ \A j \in (i+1)..Len(h) : h[j].turn > 0 => h[j].run # t

\* In a request, a reply whose next message is not its first result has been
\* broken in one of two ways only: its run was aborted, or the prompt of
\* another message arrived in between ( buildRequestHistory, agentRun ).
RequestBreaksAreKnown ==
  \A t \in Tasks : pc[t] \in InFlight =>
    LET r == Request(t) IN
      /\ IsPlainUser(r[1])
      /\ \A i \in DOMAIN r : r[i].calls > 0 =>
           \/ i < Len(r) /\ r[i+1] = Result(r[i].run, r[i].turn, 1)
           \/ i < Len(r) /\ r[i+1].turn = 0 /\ r[i+1].run # r[i].run
           \/ r[i].run # t /\ outcome[r[i].run] = "error"

\* A history the providers accept: it starts with a plain user message, every
\* tool call is answered right after its reply, and no result is an orphan.
Legal(h) ==
  /\ h # <<>> => IsPlainUser(h[1])
  /\ \A i \in DOMAIN h : \A c \in 1..h[i].calls :
       i + c <= Len(h) /\ h[i+c] = Result(h[i].run, h[i].turn, c)
  /\ \A j \in DOMAIN h : h[j].call > 0 =>
       /\ h[j].call < j
       /\ h[j - h[j].call] = Reply(h[j].run, h[j].turn, h[j - h[j].call].calls)
       /\ h[j].call <= h[j - h[j].call].calls

\* Truncating a legal history at any limit gives a legal request of at least
\* that many messages ( GetWorkingMemory's documented promise ).
WindowsStayLegal ==
  \A s \in Sessions : LET h == history[s] IN
    Legal(h) /\ h # <<>> =>
      \A limit \in 0..Len(h) :
        /\ Legal(GetWorkingMemory(h, limit))
        /\ Len(GetWorkingMemory(h, limit)) >= limit

CallsPerTurn == IF ThinkMode THEN 2 ELSE 1

\* The ledger is checked at turn boundaries only, so when it is reached each
\* session's run may still make the calls of the turn it is in, and every run
\* one call to conclude; never more, however many runs share the ledger
\* ( forcedReminder ).
OvershootIsBounded ==
  Threshold > 0 =>
    total <= (Threshold - 1) + (Cardinality(Sessions) * CallsPerTurn
                                + Cardinality(Tasks)) * MaxUsage

Aborted == {t \in Tasks : cancelled[t] /\ outcome[t] = "error"}

\* The ledger misses at most one answer of each run that was cancelled, and
\* counts nothing twice ( think, act: the answer is dropped with its usage ).
LedgerLossIsBounded ==
  total <= billed /\ billed <= total + Cardinality(Aborted) * MaxUsage

Busy(t, i) == i \in DOMAIN calls[t] /\ calls[t][i] = "busy"

\* A tool call of the run never comes back.
Hangs(t) == \E i \in 1..MaxCalls : <>[]Busy(t, i)

\* A session stays busy for ever only if a tool call of its own run never comes
\* back: neither an error, a cancellation, an exhausted budget nor another
\* session can keep it so ( the return paths of Run, the deferred EndRun ).
SessionsAreFreed ==
  \A s \in Sessions :
    <>[]running[s] => \E t \in Tasks : SessionOf[t] = s /\ Hangs(t)

Settles(t) == pc[t] = "done" /\ outcome[t] # "none"

\* Every message that arrives is settled some time, refused, failed or
\* answered, unless a tool call of its own run never comes back; that the
\* session or another run hangs does not hold it up.
MessagesAreSettled ==
  \A t \in Tasks : <>[](pc[t] # "idle" /\ ~ Settles(t)) => Hangs(t)

-----------------------------------------------------------------------------
(* A session as the runs share it: SessionLog, implemented by this module. *)

Owner(s) ==
  IF running[s] THEN CHOOSE t \in Tasks : SessionOf[t] = s /\ Active(t)
                ELSE "nobody"

Stage(s) ==
  IF ~ running[s] THEN "free"
  ELSE CASE pc[Owner(s)] = "exec"   -> "asked"
         [] pc[Owner(s)] \in {"told", "final"} -> "closing"
         [] pc[Owner(s)] = "ending" -> "over"
         [] OTHER                   -> "open"

Round(s) == IF running[s] THEN turn[Owner(s)] ELSE 0

Asked(s) == IF Stage(s) = "asked" THEN Len(calls[Owner(s)]) ELSE 0

Log == INSTANCE SessionLog WITH
         log   <- history,
         owner <- [s \in Sessions |-> Owner(s)],
         stage <- [s \in Sessions |-> Stage(s)],
         round <- [s \in Sessions |-> Round(s)],
         asked <- [s \in Sessions |-> Asked(s)],
         past  <- {t \in Tasks : pc[t] = "done"}

\* Run keeps the session's promise: whole turns, one owner at a time.
LogSpec == Log!Spec

-----------------------------------------------------------------------------
(* Statements of the repository's comments that the code does not keep.    *)

\* session.go:92: a result directly follows the reply that asked for it.
AnsweredCallsAreAdjacent ==
  \A t \in Tasks : pc[t] \in InFlight => LET r == Request(t) IN
    \A i \in DOMAIN r : AnswersOf(r, i) # {} /\ r[i].calls > 0 =>
      i + 1 \in AnswersOf(r, i)

\* session.go:91-97: every tool call in a request is followed by its result, and
\* the integrity of the sequence comes first; here also for the tool calls that
\* an earlier run left.
EarlierCallsAreAnswered ==
  \A t \in Tasks : pc[t] \in InFlight => LET r == Request(t) IN
    \A i \in DOMAIN r : r[i].calls > 0 => AnswersOf(r, i) # {}

\* cost_tracker.go:67: Observe is called after every completion.
EveryAnswerIsObserved == total = billed
=============================================================================
