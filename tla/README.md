# goaw: a verification project

`goaw` runs LLM agents: messages reach sessions, an engine loop lets the model
think, act and call tools, a human approves what tools may do, a ledger bounds
the tokens, subagents take over parts of the work. These TLA+ modules model that
program, TLC checks them on small instances and TLAPS proves the central
properties for every instance.

All source paths below are relative to `src/internal/`.

## The system

| component | state | operations | hard behaviour |
| --- | --- | --- | --- |
| engine loop `engine/loop.go` | the loop of one `Run`: turn, phase, batch of tool goroutines | `Run`, `runTurn`, `forceFinalTurn`, `think`, `act`, `execToolCalls` | cancellation at any point, parallel tools, many return paths, two budgets |
| session `engine/session.go` | `history`, `running`, injector, compactor | `Append`, `GetWorkingMemory`, `TryStartRun`, `EndRun`, `Last` | shared by all messages of one chat |
| cost tracker `obs/cost_tracker.go` | totals, `warned` | `Observe`, `Exceeded`, `Snapshot` | one ledger shared by all sessions and subagents |
| reminder `engine/reminder.go` | failures in a row per call fingerprint | `CheckAndInject`, `Reset` | counts turns, not calls |
| Feishu entry `reporter/feishu.go` | one goroutine per message | `agentRun`, event callback | messages arrive while a run is under way |
| approval manager `tools/approval.go` | `remembered` | `Approve`, `Middleware`, `Reset` | waits for a human without the lock, with a timeout |
| registry `tools/registry.go` | tools, middlewares | `Execute`, `Register` | the gate in front of every tool, soft and hard errors |
| Feishu approver `reporter/feishu_approver.go` | `pending`, `seq`, a channel per request | `RequestApproval`, `TryResolve` | commands race with timeouts and each other |
| terminal approver `reporter/terminal_approver.go` | a mutex, stdin | `RequestApproval` | a read that cannot be interrupted |
| subagents `engine/subagent.go`, `tools/subagent.go` | engine cache, sequence number | `RunSub`, `Execute` | a run inside a tool call, several at a time |
| compactor `context/compactor.go` | watermark, baseline, coefficient | `Compact`, `Observe` | estimates from stale usage, degradation in rounds |
| file tools `tools/file_*.go` | the workspace | `Execute` | parallel calls on one file, four levels of matching |
| bash `tools/bash_executor.go`, `tools/readonly_bash.go` | a process; a scanner | `Execute`, the middleware | deadline against end; quotes and separators |
| tracing `obs/trace.go`, `exporter.go` | span trees | `StartSpan`, `End`, `Export` | spans opened by parallel tools, exported without a lock |
| evaluation `obs/eval/` | attempts | `RunSuite`, `runTest` | repair rounds over one session |
| prompts, skills, providers, reporters, logging, `cmd/main.go` | - | text, I/O, wiring | - |

How they interact: every Feishu message starts a goroutine (`agentRun`) that
appends its prompt to the session of its chat and calls `Run`. `Run` takes the
session's running flag, and in each turn asks the provider, appends the reply,
executes the tool calls in one goroutine each and appends the results. Each
request passes the session's compactor, each answer's usage goes back to it and
to the ledger. Each call passes the registry's middlewares; the one of the
approval manager may wait for a human, the one of a subagent's bash reads the
command. A call of `spawn_subagent` starts a `Run` of its own with the same
context and ledger. After a batch the injector counts its failures. In the
Feishu entry the same event callback that delivers messages routes approval
commands to the waiting calls. All runs observe usage in one ledger, which is
read at turn boundaries. Nothing of a run is persisted but its trace: there is
no restart to recover from.

What makes each modelled component correct:

- session and loop: one run per session, freed on every path unless a tool call
  never comes back; runs never mix their messages; the results of a batch are there
  all together, in order, or not at all; windows cut from a history are accepted by
  the model APIs;
- budgets: the token budget is overshot by a bounded amount; usage is never counted
  twice; a delegation ends although its model need not conclude;
- approval: nothing runs without policy or consent, a rejection is final, a command
  reaches only a request of its own chat, no request leaks, the event callback never
  blocks, every call is decided;
- tools: an edit replaces one region or nothing; a file holds what calls have
  written to it and nothing else, however they race or fail; a batch ends whatever
  its commands do, but for one case; a reminder counts turns exactly;
- read-only bash: a command is read as its text says, and no word of a command that
  passes has escaped the policy;
- compactor: usage is paired with the request it was counted for, an overfull
  request is followed by shorter ones, nothing but bulk is left out, also when
  prompts and reminders come in between;
- delegation and tracing: a delegation answers what its run has come to; every span
  tree is complete when it is exported;
- evaluation: reports add up, failures are explained, repairs follow failures.

## Modules

**`SessionLog`** is the abstract specification of a session: a log to which
anybody may post prompts while everything else is written by one owner in whole
turns (`Take`, `Ask`, `Answer`, `Instruct`, `Conclude`, `GiveUp`, `Release`). It
knows nothing of phases, goroutines, cancellation or budgets.

**`AgentRun`** is the engine loop over shared sessions. A task is one `agentRun`
goroutine; `pc[t]` is where it is: `idle` -> `arrived` (prompt appended) ->
`prepare` (flag taken) -> `boundary` (top of the loop) -> `told` (the notice of a
forced conclusion is in the history) -> `think` / `act` / `final` (a model call is
in flight) -> `exec` (tool goroutines) -> `ending` (deferred calls to come) ->
`done`.

| variable | code |
| --- | --- |
| `history`, `running` | fields of `Session` |
| `strikes` | the highest counter in the session's `ReminderInjector` |
| `total`, `billed` | `CostTracker`'s sum; what the provider has billed (ghost) |
| `turn`, `calls`, `outcome` | loop variable, state of each tool goroutine, result of `Run` |
| `sent` | how much of the history the request in flight contains (ghost) |
| `cancelled` | `ctx.Err() # nil` |

One step is one access to shared state. A message is a record of role, run, turn,
number of tool calls and number of the call answered; contents are left out. A tool
call is two steps, so calls of one batch and of other runs interleave, and each of
its cancellation checks may be the one that fails. An answer may report a usage of
nothing, which the code adds as any other. `Arrive` is enabled whatever the session
is doing, as in `agentRun`. The refinement mapping at the end of the module says
which `SessionLog` state an `AgentRun` state is.

**`Approval`** is the chain registry - approval manager - approver. A call goes
`idle` -> `policy` -> `ask` -> `send` / `wait` / `leave` (chat) or `read` (terminal)
-> `conclude` -> `gate` -> `done`. `pending`, `reqID`, `seq` and `chan` are
`FeishuApprover`'s map, numbers, counter and channels. A command of a user goes
through `Lookup` (the critical section of `TryResolve`), `Deliver` (the channel
send) and `Notify` (the receipt); users may type any action and any of `Numbers` in
any chat: a number given out there or elsewhere, one still to be given out or none
at all; twice, late, or never. On the terminal, prompt and read are under one mutex
(`reading`), and the lines typed wait in `stdin` until a call takes the oldest:
`TypeLine` is enabled at any time, so a line may be typed ahead of the prompt that
takes it, and a line remembers the prompt it was meant for. Registration and
numbering are one step because nobody knows the number before the request is sent.
`Expire` is the end of `approveCtx`, by its timeout or because the run is cancelled.
`Approver` chooses the wiring of `cmd/main.go`.

**`TextEdit`** holds `fuzzyReplace` as an operator: the exact match, the match
with normalised line ends, the trimmed match and the match line by line, over
texts that are sequences of characters. `EditPromise` is what an edit promises,
said without the levels. `strings.Count`, `ReplaceAll` and `TrimSpace` are
modelled by what they do, so that overlaps and empty patterns are counted as Go
counts them.

**`ToolBatch`** is what happens inside `exec` of `AgentRun`, with tools that do
something: the runs of one session, batch by batch, on one workspace.

| variable | code |
| --- | --- |
| `todo` | what the model will ask for (a script of the instance) |
| `batch`, `at`, `buf`, `result` | `execToolCalls`: calls, goroutines, what each is about to write, its `ToolCallResult` |
| `proc` | the process behind `exec.CommandContext`: how it ended, whether a process it left holds its output, whether the deadline has passed |
| `disk` | the files of the workspace |
| `table`, `notice` | `ReminderInjector.consecutiveFailures` and the message it injects |
| `base`, `failures` | the files when the batch began, the failures of each turn (history variables) |

One step is one system call on a file: `os.WriteFile` is an open that truncates
and a write, so the steps of calls on one file interleave. Each of them may fail;
a write that fails on its way leaves as much as it has written (`torn`). `Barriers` is what
keeps a call from its tool (unknown name, middleware, arguments that do not
parse, a path out of the workspace), `Outcome` the code and kind of the error
with the presence of a recovery hint. Arguments have the keys that the tool
reads or those that its schema announces.

**`Delegation`** is a run that delegates and the runs of its subagents: the same
loop as in `AgentRun`, reduced to what `RunSub` and the ledger see (`last`,
`outcome`, `left`), the way of a call through `SubagentTool.Execute`,
`engineFor` and `RunSub` (`calls[i].at`: `ready` -> `locking` -> `looking` ->
`building` -> `spawning` -> `running` -> `back` / `failed`), and the spans that
all of them open and end. `spans` holds every span with its parent, `links` the
attribute `subagent.session`, `exported` what was still open in a tree when it
was exported. The context is one for all, and `Cancel` may come anywhere.

**`Compactor`** is `Compact` and `Observe` with the calls the loop makes of
them. A message is its kind and its sizes in bytes; `form` and `head` say what a
degraded message still holds. Prompts come in at any time (`callers` are those
whose run has not been started or refused), and a reminder may follow the results
of a batch. `Send` is `buildRequestHistory`, `Rounds` the
rounds of degradation, `Project` the estimate from watermark, baseline and
coefficient. `tokensPerChar` is kept in thousandths. `served` remembers the size
and the usage of the last observed answer, `asked` what the last request was made
of (history variables). `Lost` is any end of a run but a conclusion: a failed call,
an answer that is dropped, a batch that is abandoned.

**`ReadOnlyBash`** is the middleware of a subagent's bash: the scanner of
`readonly_bash.go` character by character and the policy on its segments. The
second half of the module says of the positions of a command, without a
scanner, which quotes are open and which words and segments there are; the
properties compare the two. The lists of the policy are those of the code. Both
halves share its idea of quoting: what bash makes of `$'...'` and of variables is
not modelled. `Writes` says of the names on the lists that can do more than read
when they do (external: git and find).

**`Benchmark`** is the runner of `obs/eval`: several calls of `RunSuite` share
the sessions of one runner; a case goes `sandbox` -> `setup` -> `session` ->
`attempt` -> `run` -> `running` -> `validate`. Sandboxes and sessions are named
by case and second, as in the code, and `buildSuiteReport` adds the results up.
Building the engine of an attempt, which never fails today, cannot fail here.

The `MC` modules give the constants their values. `AgentRunProofs`,
`ApprovalProofs`, `ToolBatchProofs`, `CompactorProofs`, `DelegationProofs`,
`ReadOnlyBashProofs` and `BenchmarkProofs` hold the proofs, and `NaturalFacts` the
lemmas on numbers, sets and sums that several of them need. Definitions
commented as mutations are deliberately wrong variants of the definition that
follows them; each violates one of the checked properties when it takes that
place.

How the modules compose: `AgentRun` implements `SessionLog`; `ToolBatch` extends
`TextEdit`. The other seams are by agreement, to keep each instance small:
`ToolBatch` and `Compactor` rely on `AgentRun!OneRunPerSession` (one batch, one
request at a time per session), `Approval` refines the one step in which
`ToolBatch` lets a guarded call pass or be refused, `Delegation` reduces the
history to its last message, as `SuccessIsConcluded` of `AgentRun` allows.

## Runs

| run | instance | shows |
| --- | --- | --- |
| `MCAgentRun_history` | two messages of one chat, one cancellable, up to 2 parallel calls, 2 turns, a reminder after 2 failures | `OneRunPerSession`, `RunsDoNotInterleave`, `AnswersAreWhole`, `SuccessIsConcluded`, `RequestBreaksAreKnown`; the loop implements `SessionLog` (`LogSpec`); with a fair engine and tools that need not return, `MessagesAreSettled` |
| `MCAgentRun_budget` | a message in each of two chats, think mode, one ledger with threshold 3, calls that cost 0 to 2, one cancellable, fair in the same way | type invariant; `OvershootIsBounded`, `LedgerLossIsBounded`; `SessionsAreFreed` |
| `MCApproval_feishu` | two calls of one tool in two chats or without one, two commands with numbers up to one that is never given out, one `Reset`, fair | type invariant; `RunsOnlyWithConsent`, `RejectionIsFinal`, `DeliveryNeverBlocks`, `NoLeakedRequest`, `RecordedDecisionPrevails`; `CallsAreSettled` |
| `MCApproval_terminal` | three calls, one read-only, one terminal, three lines typed at any time, fair | `NothingRunsUnasked`, `LinesAnswerTheirPrompt`; `CallsAreSettled` |
| `MCToolBatch_batch` | every edit of a small text, two or three calls on one file, every barrier, reads, opens and writes that fail, failures over three turns and two runs, commands that hang or leave a process | type invariant; `ReminderIsExact`, `LoneEditsAreLocal`, `FilesHoldTheirWrites`; `BatchesEnd` |
| `MCDelegation_delegation` | two roles on one registry, one without a budget, two delegations, with and without a token budget | type invariant; `OneEnginePerRegistry`, `DelegationsTellTheTruth`, `TracesAreWhole`; `DelegationsEnd` |
| `MCCompactor_compactor` | up to five messages, windows of 1000 tokens, results shorter and longer than the budgets of a cut, usages missing, small and above the threshold, prompts at any time, reminders | type invariant; `ReadingsArePaired`, `OverfullRequestsShrink`, `OnlyBulkIsLost` |
| `MCReadOnlyBash_readonly` | every command of three symbols, and longer ones over the symbols of quoting, of pairs, of names and of what git and find are given | `CommandsAreReadRight`, `AllowedCommandsMeetPolicy` |
| `MCBenchmark_benchmark` | two suites with a case in common, one of them twice, two seconds, a default of two attempts | `ReportsAddUp`, `FailuresAreExplained`, `RepairsFollowFailures` |

Runs in which TLC finds what the repository says and the code does not keep:

| run | what is said | what happens |
| --- | --- | --- |
| `MCToolBatch_schema` | `tools/file_editor.go:36,46`: the schema announces `old_content` and `new_content` | the struct at 207 reads `oldContent` and `newContent`; an edit as announced has empty contents and is refused, or fills an empty file with nothing |
| `MCDelegation_links` | `engine/subagent.go:106-107`: the tree of a subagent is linked from the leaf of its call | `tools/registry.go:85` drops the context of the leaf, so the link is on the span of the turn, where the next one overwrites it |
| `MCReadOnlyBash_effects` | `tools/readonly_bash.go:63-65` and `cmd/main.go:184`: bash is held to reading by the whitelist | the lists are names (`tools/readonly_bash.go:41-42,51-57`): `git branch` and `git tag` with a name, and `find` with a flag that is not on the list, write and pass |

Further statements of comments are definitions of the modules too. TLC finds
each violated when it is added to the named configuration; the property on the
right is checked there and says how far it goes:

| statement | said at | add to | bounded by |
| --- | --- | --- | --- |
| `AnsweredCallsAreAdjacent`: a prompt arriving during tool calls stands between a reply and its results | `engine/session.go:92` | `MCAgentRun_history` | `RequestBreaksAreKnown` |
| `EarlierCallsAreAnswered`: a cancelled batch leaves a reply without results to the next run | `engine/session.go:91-97` | `MCAgentRun_history` | `RequestBreaksAreKnown` |
| `EveryAnswerIsObserved`: an answer that meets a finished context is dropped with its usage | `obs/cost_tracker.go:67` | `MCAgentRun_budget` | `LedgerLossIsBounded` |
| `LateAnswersAreRejected`: a consent typed after the timeout is granted | `tools/approval.go:144` | `MCApproval_terminal` | `NothingRunsUnasked` |
| `TimeoutsSettleCalls`: the timeout of the manager does not end the read, which `tools/approval.go:172` waits for in the same goroutine | `reporter/terminal_approver.go:27` | `MCApproval_terminal` | `CallsAreSettled` |
| `LinesFollowTheirPrompt`: a line typed before the prompt was shown answers it | `reporter/terminal_approver.go:23` | `MCApproval_terminal` | `LinesAnswerTheirPrompt` |
| `ReceiptsAreTrue`: a command between timeout and removal is acknowledged as recorded, the call is rejected | `reporter/feishu_approver.go:110` | `MCApproval_feishu` | `RecordedDecisionPrevails` |
| `TimeoutsEndBatches`, with `Scripts <- Background`: a server left in the background keeps its batch waiting after the kill | `tools/bash_executor.go:99`, `context/recovery.go:25` | `MCToolBatch_batch` | `BatchesEnd` |
| `CasesAreIsolated`: a case run twice within a second continues the other's session | `obs/eval/benchmark.go:211` | `MCBenchmark_benchmark` | `RepairsFollowFailures` |

Smaller things met while modelling, which no property is about: `file_reader`
returns only the path of a file longer than 8192 characters, although its text
says that it is truncated (`tools/file_reader.go:84-86`); the failure of a
subagent reaches the model as a fixed sentence, because the soft path of
`tools/registry.go:136-139` leaves the cause out that `tools/subagent.go:212`
says is returned; the last model call of a forced conclusion hangs from the root
of its tree (`engine/loop.go:324`) and is not observed by the compactor
(`engine/loop.go:337-349`, against `context/compactor.go:150`); a result that is
cut twice reports the bytes of the second cut only
(`context/compactor.go:234-239`), sizes called characters are bytes, and a
result barely longer than the smallest budget is made longer by its marker
(`OnlyBulkIsLost` bounds this); a sandbox made in one second and a session made
in the next may differ from the session's own workspace
(`obs/eval/benchmark.go:212,265`); a command that ends with a line break is
refused as ending with a separator (`tools/readonly_bash.go:153`).

Bounds. Two tasks in one session are enough for every pair of steps of two runs on
one history; the two of `MCAgentRun_budget` are in two sessions, because what
matters there is that runs which do not exclude each other spend from one ledger.
Two calls show order and partial failure of a batch, two turns show a reminder
(`RemindAfter = 2`) and the turn budget at its limit. `MaxCalls` and `MaxUsage`
bound what the model asks for and costs, `Commands`, `Numbers`, `Lines` and `Resets`
the users' inputs: two calls are given the numbers 1 and 2, and 3 is never given
out; three lines are one more than the calls that prompt. In `ToolBatch` the
`Scripts` bound what the model asks for: texts of up to five characters over the
kinds of white space and one letter decide every level of the replacement, three
calls on one file every order of truncations and writes. In `Delegation` two
delegations meet in `engineFor` and in `links`; `MaxSubs` bounds the delegations in
all, and `TurnBound` only stops the counter: it lies above every turn budget
(`DelegationAssumption`), so that a run ends by its budget before it meets the
bound. In `Compactor` `MaxMessages` bounds a session at two turns or a turn with two
results and a forced conclusion; the sizes lie below, at and above the 200 bytes of
a mask and the 250 to 1000 bytes of a cut, and `CharWidth = 3` makes cuts fall
within a character. The commands of `ReadOnlyBash` are every string over all symbols
up to three, over quoting up to six and over pairs up to eight symbols, and those of
git and find with up to three arguments. `LastSecond` and `MaxUsage` bound
`Benchmark`. All these bounds are in the guards or in `Init`, and the modules name
them. Deadlock is checked in every run but one: a session in `Compactor` stops when
`MaxMessages` is reached. Elsewhere a step of its own (`AllDone`, `AllOver`,
`Finished`, `Decided`) is the only way to stop.

Fairness. In `AgentRun` the engine's own steps and the answers of the provider are
weakly fair in every task: goroutines are scheduled, and a model call gets the
context and a client that ends it. That a tool call returns is not assumed: bash
waits for the output of processes that its deadline does not kill
(`tools/bash_executor.go:91`) and the terminal for a line
(`reporter/terminal_approver.go:58`). So the liveness properties have the one
exception that the code has: `SessionsAreFreed` and `MessagesAreSettled` hold unless
a tool call of a run of that very session, or of that very message, never comes back
(`Hangs`). They need a turn budget, as a model may ask for tools for ever and report
a usage of nothing. That messages arrive or contexts end is not assumed either. In
`Approval` the goroutine of a call, which may have a line to read, and its timer are
weakly fair; that a human answers, types, that a command is taken to its end or that
stdin ends is not: neither `Lookup`, `Deliver`, `TypeLine` nor `ReadFails` is fair.
So `CallsAreSettled` excepts the one wait that has no end of its own, a call reading
from the terminal, and holds without exception in a chat. In `ToolBatch` goroutines
run, a deadline passes and a kill is delivered; that a command or a process it left
behind ends by itself is not assumed. In `Delegation` each run, each call and the
end of a batch is weakly fair, but for the tools of a subagent (`ToolEnds`):
`DelegationsEnd` excepts the batch in which one of them never returns. A waiting
`Lock` is granted in the end because the mutex is held for a bounded time by at most
`MaxSubs` calls. `Cancel` is not fair.

## Proofs

Assumptions are `RunAssumption`, `ApprovalAssumption`, `BatchAssumption`,
`DelegationAssumption`, `CompactorAssumption` and `BenchmarkAssumption`: the types
of the constants, and for `Delegation` that its bound on turns lies above the
turn budgets.
Sets of tasks, sessions, calls and commands are arbitrary, also infinite; only
the two ledger bounds, which count tasks and sessions, are stated for finite
ones. `RunAssumption` also says that no task is called `"nobody"`, the name of the
refinement mapping for the owner of a free session.

`NaturalFacts`

- Least and greatest elements, and induction: the prover takes no induction
  theorem that has an operator as a parameter, so `Least` derives from the
  well-foundedness of the numbers that every set of them has a least element, and
  `InductionOverNat` says of a set in the place of a predicate that it has every
  number.
- `StepwiseExists` and `SumExists` say that a function defined step by step, or
  set by set, exists: with them a recursive function or a fold of the community
  modules, which is a `CHOOSE`, can be replaced by its equations.
- Sums: `SumTakesAny` (a fold over a set does not depend on the order in which its
  elements are chosen), `SumByBeginnings` (the sum of a sequence is the last of
  the sums of its beginnings), and from it what one more element, addition and
  comparison do to a sum.

`AgentRunProofs`

- `Typing`: `TypeOK`. The steps that write a history rest on `WriteIsTyped`.
- `RunExclusion`: `OneRunPerSession` is inductive together with `TypeOK`: only
  `Start` and `EndRun` change the flag or who is active.
- `NoInterleaving`: `RunsDoNotInterleave` is not inductive, as a history alone
  does not say who may write next. `WritersInv` adds that: a run that has not
  begun has written nothing (`Fresh`), an active run is the latest writer of its
  history (`Latest`) and has written nothing beyond its turn (`UpTo`). With
  `OneRunPerSession` the only writer is the active run, and `BlockByLatest`
  shows that its block keeps the history ordered and apart; a prompt is
  nobody's writing (`PromptChangesNothing`).
- `SuccessConcludes`: `SuccessIsConcluded`. `Kept` ties the outcome of a run to
  its history in both directions; `Decided` says that the outcome is there when the
  run stops writing.
- `LedgerLossBounded`: `LedgerLossIsBounded`. An answer is dropped only in the step
  in which its run fails after a cancellation, and who has failed so stays failed
  (`AbortedGrows`), so each loss has a run of its own.
- `OvershootBounded`: `OvershootIsBounded`. The bound alone says nothing of the
  calls in flight. `Remaining` counts the calls that may still be observed
  without a new turn: those of runs in a turn, one more of those that still think, one
  to conclude of each that is not over. Once the threshold is reached no turn
  begins and every observed answer lowers `Remaining` by one (`RemainingFalls`);
  when it is reached, `FewRemain` bounds it, as a session has one run in a turn.

The second half of `AgentRunProofs`, on the promises of a session

- `LoopImplementsLog`: `Spec => LogSpec`, the refinement. In `SessionLog` a session
  has an owner, a stage, a round and a number of calls asked for; `AgentRun` reads
  them off the run that is active in the session. `OwnerIs` and `OwnedIs` say what
  the mapping is where a run is active, which `OneRunPerSession` makes unique,
  `UntouchedStays` that a step changes no session but the run's own. Then there is
  one lemma for each action of the log (`Takes`, `Instructs`, `Asks`, `Answers`,
  `Concludes`, `Releases`, `Posts`, `Leaves`, ...). `Unstarted` (a run that has not
  begun has turn 1) is needed for the step that takes a session.
- `WholeAnswers`: `AnswersAreWhole` does not follow from itself, because results
  find their reply by run and turn. `AnswersInv` adds that a run that is not
  executing tools has asked and answered in earlier turns only (`Below`), and that
  one that is has its reply in the history with nothing but prompts after it
  (`Asking`). `AskBlock` and `AnswerBlock` are the two appends of a turn;
  `OthersUnaffected` says that a block of one run settles nothing of another's.
- `LegalWindows`: `WindowsStayLegal`, which no run checks, is a fact about
  `GetWorkingMemory` and any typed history. A window is a tail that begins at a
  plain user message at or before the cut, or at the beginning (`WindowIsTail`), and
  such a tail of a legal history is legal (`TailIsLegal`): a result whose reply is
  cut off would have the user message between them, where only results can be.
- `RequestBreaks`: `RequestBreaksAreKnown` speaks of the request in flight, which
  was built some steps ago from a history that has grown since. `RequestInv` says of
  every history that a reply has its first result or a prompt behind it, or its run
  has failed, or its calls are being executed and it is the last (`KnownInv`), that
  messages of a run are in its own session (`HomeInv`), and of the part of a history
  that was sent that no reply in it was pending when it was sent (`SentKnown`).

`ApprovalProofs`

- `ApprovalTyping`: `TypeOK`.
- `ConsentFirst`: `NothingRunsUnasked`, for every approver. `ManagerInv` adds
  that answers are given once (`Fresh`, `AnswersStay`), that every approved
  verdict and every remembered tool has a consent behind it, and that only
  approved calls ran.
- `ChatInvariant`: an open request has a number, an empty channel and no taker
  (`Open`); a command has taken the request it addresses and no two the same
  (`Taken`); decisions in channels and answers come from that command
  (`Routed`). From it follow `NoLeak`, `CallbackNeverBlocks` and, with the chat
  approver, `RejectionHolds`, `ConsentOfTheChat` and, with `Judged` (a verdict
  follows its answer), `RecordedPrevails`.
- `LinesReachTheirPrompt`: `LinesAnswerTheirPrompt` speaks of lines that have been
  read; `TerminalInv` adds where they come from. The call that prompts is the one
  that holds the mutex (`Holds`), and a line that was typed for a prompt is the
  oldest there is, while its prompt still waits (`Meant`): so nobody else can take it.

`ToolBatchProofs`, for any texts, scripts and numbers of calls

- `BatchTyping`: `TypeOK`, with what the scripts and the failures hold (`BatchInv`)
  and where each kind of call can be (`PlaceInv`). The types of texts need that the
  replacement returns texts (`EditIsText`), whose recursive functions
  `StepwiseExists` unfolds. `Step` says what one step of a goroutine does (it
  answers without a write, opens its file or writes it), so that the other
  invariants need not be proved for every action.
- `RemindersAreExact`: `ReminderIsExact` speaks of streaks, which a new turn can set
  back; `CountInv` says instead of every fingerprint that its count is the number
  of last turns in which it failed and that it did not fail in the one before
  (`Counted`), and that the notice was made from the table. `CountIsStreak` and
  `WorstCount` lead back.
- `FilesFollowTheirWrites`: `FilesHoldTheirWrites` speaks of a batch that is over.
  `WriteInv` speaks of every moment: a file that nobody has opened is as it was;
  any other holds what its writers have put there, and begins with all that one of
  them has put there unless a call has it open (which has emptied it, and is about to
  write, or to fail). `WriterInv` adds that what a file writer has in its hands is
  the content of its call until a write fails.
- `EditsAreLocal`: `LoneEditsAreLocal`, from a fact about texts and an invariant. The
  fact is that every level of `FuzzyReplace` keeps `EditPromise`
  (`EditsArePromised`). The levels change the texts by dropping characters, so a
  text is treated as the list of places it keeps of another one (`Selects`), of
  which there is one (`SelectionIsUnique`). Normalising does not change a skeleton
  (`SkeletonOfNormalized`, although normalising twice can do more than once:
  `"\r\r\n"` becomes `"\r\n"` and that `"\n"`), and trimming before or after makes no
  difference to it (`SkeletonOfTrimmed`); hence what matched, at whatever level,
  reads like the old text (`ReadingOfReading`, `ReadingOfLines`). The invariant,
  `EditInv`, says of an editor that is alone in its file that what it is about to
  write, has written or has refused is what it made of the file as it was when the
  batch began; that nobody had changed it before, and that it holds what was
  written, is `WriteInv`.

`CompactorProofs`, for any histories, sizes, usages and windows

- `ReadingsPaired`: `ReadingsArePaired` says nothing of the request in flight,
  whose size the next usage will be paired with. `Measured` adds that `sentChars`
  is the size of that request whenever there is one, whatever was lost before.
- `CompactorTyping`: `TypeOK`; `ObserveTypes` shows that no usage a provider can
  report makes a reading negative.
- `BulkAlone`: `OnlyBulkIsLost`. `RoundsUnrolled` writes the recursion over the
  budgets out as four rounds. `Fits` says how a message may differ from its
  original after rounds whose smallest budget was given; a round of a smaller
  budget keeps it (`RoundFits`), so a request fits what it was made of (`SentInv`), whatever
  is appended while it is in flight (`AsideKeeps`).
- `OverfullShrink`: `OverfullRequestsShrink`. A history whose size is that of the
  request that reached the threshold is not taken for small enough, whatever the
  coefficient has become (`OverfullIsNotCalm`); so all rounds are made, and two
  rounds of the smallest budget leave nothing to shorten (`TwoRoundsDegrade`).

`DelegationProofs`

- `DelegationTyping`, `EnginesBuiltOnce`, `TruthOfDelegations` rest on one
  invariant, `DelegationInv`. `BusyInv` keeps `RunSub` and the rest of a run
  apart; `Supply` says that the delegations under way and the runs started fit
  into `MaxSubs`, so that a call that may start finds a run (an argument about
  cardinalities); `MutexInv` that one call at a time is between lock and unlock;
  `EngineInv` that who builds an engine holds the mutex and found none;
  `AnswerInv` ties each call to a run of its own and its answer to how that run
  ended. `RunStepEffect` and `RunStepTrace` say once what a step of the loop may
  change, so that the steps of calls and of runs are proved separately.
- `WholeTraces`: `TracesAreWhole` does not say why nothing is left open.
  `TraceInv` does: which spans a run has open follows from where it is (`IsOpen`,
  `OpenInv`), what a span may hang from follows from its name (`ShapeInv`), and a
  run has no spans of what is still to come, so that ids are given once
  (`PastInv`). A span ends only after its children because the places where it is
  open include those where they are.

`ReadOnlyBashProofs`, for any commands

- `ReadRight`: `CommandsAreReadRight` speaks of a scan that is over. The invariant,
  `BashInv`, speaks of every position the scanner comes to, in the terms of the
  text: `Reads` says that the text under way is that of the word which the position
  lies in (none at a gap), that the tokens are those of the words since the last
  separator (`Now`) and the segments those which separators have ended (`Past`), and
  that a separator with only gaps behind it is pending; `Passed` that nothing before
  the position had to be refused and that no ampersand is left over. Each action
  moves both on: a blank and a separator end the word under way (`WordEnds`) and a
  separator the segment (`SegmentsGrow`); a literal and a quoted text add what they
  spell (`TextGrows`, `TextSpans`), and the quotes stay open until they are closed
  (`QuotesStay`). A bar or ampersand that is taken together with the next one is the
  same as two separators (`FlushedTwice`). At the end every word has been read
  (`ReadsAll`), and what could still be wrong is a separator with no word behind it,
  which is then pending (`TrailingSeparator`); a refusal on the way has its reason
  in the text (`OpenUnsupported`, `ExpansionUnsupported`, `AmpersandUnsupported`).
  `InOrderIs` and `InOrderGrows` say of the listing by rank, in which the words and
  letters are read, that it lists each once and that a later one comes at the end.
- `AllowedMeetThePolicy`: `AllowedCommandsMeetPolicy` follows from it, with the
  lists as the code has them and whatever other names there are. What passed was
  read right, so each word of the text has its token in a segment that the policy
  accepted (`SegmentOfWord`); without quotes a token is the text it stands for
  (`TokenFacts`), so that what the policy asks of tokens (`PolicyFollows`) holds of
  the text.

`BenchmarkProofs`, for any suites and cases

- `FailuresExplained`: `BenchmarkInv` adds the types of results and jobs and, for
  a case under way, that its result has no reason yet and as many attempts as
  the job has counted (`Placed`, `UnderWay`).
- `RepairsFollow`: `RepairsFollowFailures` speaks of messages and of attempts that
  suites may have come past. `RepairInv` says that what a message tells of the
  attempt before is so (`Told`) and that the message of that attempt stands before
  it (`Preceded`), and of a suite that is about to send one that the session it
  has taken holds the message of the attempt before (`Talk`). Logs and histories
  only grow (`LogsGrow`, `HistoriesGrow`), whoever else writes.
- `ReportsAdd`: `ReportsAddUp`. `Tallied` says of one result that its numbers are
  those of its log of attempts; `RecordedTallied` that one more attempt keeps it
  so, and `TalliesAddUp` sums over the results of a suite of any length.

Only model-checked is all liveness under fairness (`SessionsAreFreed`,
`MessagesAreSettled`, `CallsAreSettled`, `BatchesEnd`, `DelegationsEnd`), which is
beyond the prover. No module declares a RECURSIVE operator, so every module can be
proved about.

## Not modelled

The text of messages, prompts, hints and reports, logging, the SDK conversions of
the providers, span attributes but the link, the mirror to OpenTelemetry, `Snapshot`
and the ledger's cache counters; discovery and reading of skills; the Feishu web
socket client; the wiring of `cmd/main.go` beyond the constants it sets. These are
text and I/O: what they return to the modelled components is an input of the models.
Of the modelled components: registration of tools (done before any run), the making
of directories, the output of commands and its truncation, what a command does to
files, what bash makes of `$'...'` and `$HOME` in a command that the scanner has
passed, think mode of subagents (a second call as in `AgentRun`), the copying of
sandboxes and the budget taken from the environment. A consent that was asked for
before `ApprovalManager.Reset` is remembered after it (`tools/approval.go:178`):
nothing in the repository says what a `Reset` must cover, and nobody calls it, so no
property does either.

## Plan

Every invariant and action property that a run checks is proved, and so is the
refinement of `SessionLog`. What is left is breadth: the providers' conversions and
the Feishu reporter, once a property of theirs is worth a model, and liveness once
the prover can express it.
