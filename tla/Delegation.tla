----------------------------- MODULE Delegation -----------------------------
(***************************************************************************)
(* A run that delegates: the calls of spawn_subagent in one batch go       *)
(* through tools/subagent.go and engine/subagent.go at the same time, and  *)
(* each starts a run of the engine of its own.  All runs share the token   *)
(* ledger and the context, and each records a tree of spans ( obs/trace.go *)
(* ) that is exported when the run ends.                                   *)
(*                                                                         *)
(* One atomic step is one access to what runs share, or one transition of  *)
(* a run between two of them; spans are started and ended in the step that *)
(* does so.  Histories are AgentRun's: here a run has only the kind of its *)
(* last message, which is all that RunSub reads.                           *)
(***************************************************************************)
EXTENDS Integers, Sequences, FiniteSets

CONSTANTS Roles,          \* SubAgentSpec.Name of the tool's specs
          Registries,
          RegistryOf,     \* SubAgentSpec.Registry
          MaxTurnsOf,     \* SubAgentSpec.MaxTurns, not positive = not given
          DefaultMaxTurns, \* defaultSubAgentMaxTurns
          MainMaxTurns,   \* the delegating run's budget, 0 = unlimited
          Ledgers,        \* what the token ledger may have left at the start
          MaxUsage,       \* bound: tokens one model call costs
          MaxCalls,       \* bound: delegations in one batch
          MaxSubs,        \* bound: delegations in all
          TurnBound       \* bound: run 0 delegates in turns before it, and a
                          \* turn counter, above any budget there, stays at it

ASSUME DelegationAssumption ==
  /\ RegistryOf \in [Roles -> Registries]
  /\ MaxTurnsOf \in [Roles -> Int]
  /\ DefaultMaxTurns \in Nat \ {0}
  /\ MainMaxTurns \in Nat /\ MaxUsage \in Nat
  /\ Ledgers \subseteq Nat \cup {-1}
  /\ MaxCalls \in Nat /\ MaxSubs \in Nat
  /\ TurnBound \in Nat /\ DefaultMaxTurns < TurnBound
  /\ \A r \in Roles : MaxTurnsOf[r] < TurnBound

VARIABLES cancelled, \* the context of all runs is done
          left,      \* tokens before CostTracker.tokenThreshold, or Unlimited
          seq,       \* SubAgentRunner.seq: subagent runs started so far
          mu,        \* the delegation that holds SubAgentRunner.mu, or 0
          engines,   \* the keys of cachedEngines
          built,     \* history: how often an engine was built on a registry
          pc,        \* where each run is; run 0 delegates
          turn,
          last,      \* the last message of each run's session
          outcome,   \* what Run returned
          role,      \* the role of each subagent run
          calls,     \* the delegations of the batch of run 0
          busy,      \* the subagent runs whose own tool call executes
          spans,     \* every span: what it hangs from, whether it has ended
          links,     \* the attribute subagent.session of a span
          exported   \* the spans of a tree that had not ended at its export

\* Runs 1, 2, ... are those of subagent-1, subagent-2, ...
Main == 0
Unlimited == -1
Runs == 0..MaxSubs

engineVars == <<mu, engines, built>>
trace == <<spans, links, exported>>
vars == <<cancelled, left, seq, engineVars, pc, turn, last, outcome, role,
          calls, busy, trace>>

-----------------------------------------------------------------------------
(* Spans are named by their run, the layer, the turn and a number.          *)

Root(r)          == <<r, "agent.run", 0, 0>>
TurnSpan(r)      == <<r, "turn", turn[r], 0>>
GenSpan(r)       == <<r, "llm.generate", turn[r], 0>>
ToolSpan(r, i)   == <<r, "tool.execute", turn[r], i>>
NoSpan           == <<>>

Span(id, parent) == [id |-> id, parent |-> parent, ended |-> FALSE]

\* End sets the flag of a span once.
Ended(S, ids) == {IF s.id \in ids THEN [s EXCEPT !.ended = TRUE] ELSE s : s \in S}

\* The spans that the deferred calls of a turn end when it returns.
Deferred(r) == {TurnSpan(r)}

\* Mutation: the error path forgets the leaf.
FailedSpansOpen(r) == Deferred(r)

\* A failing Generate ends the leaf and the turn.
FailedSpans(r) == {GenSpan(r)} \cup Deferred(r)

Open(S) == {s.id : s \in {x \in S : ~ x.ended}}

SpansOf(r) == {s \in spans : s.id[1] = r}

-----------------------------------------------------------------------------
Init ==
  /\ cancelled = FALSE
  /\ left \in Ledgers
  /\ seq = 0
  /\ mu = 0 /\ engines = {} /\ built = [g \in Registries |-> 0]
  /\ pc = [r \in Runs |-> IF r = Main THEN "boundary" ELSE "none"]
  /\ turn = [r \in Runs |-> 1]
  /\ last = [r \in Runs |-> "prompt"]
  /\ outcome = [r \in Runs |-> "none"]
  /\ role = [r \in Runs |-> "none"]
  /\ calls = <<>>
  /\ busy = {}
  /\ spans = {Span(Root(Main), NoSpan)}
  /\ links = <<>>
  /\ exported = [r \in Runs |-> {}]

Goto(r, label) == pc' = [pc EXCEPT ![r] = label]
Wrote(r, kind) == last' = [last EXCEPT ![r] = kind]

Finish(r, result) ==
  /\ Goto(r, "ending")
  /\ outcome' = [outcome EXCEPT ![r] = result]

\* Mutation: a budget that is not given is none at all.
BudgetRaw(r) == IF r = Main THEN MainMaxTurns ELSE MaxTurnsOf[role[r]]

\* subRunOptions: a budget that is not positive is replaced by the default.
Budget(r) ==
  IF r = Main THEN MainMaxTurns
  ELSE IF MaxTurnsOf[role[r]] <= 0 THEN DefaultMaxTurns ELSE MaxTurnsOf[role[r]]

Reached == left = 0
Forced(r) == Reached \/ (Budget(r) > 0 /\ turn[r] > Budget(r))

\* A turn begins: its span and the leaf of its model call.
BeginTurn(r) ==
  /\ pc[r] = "boundary"
  /\ ~ cancelled /\ ~ Forced(r)
  /\ spans' = spans \cup {Span(TurnSpan(r), Root(r)), Span(GenSpan(r), TurnSpan(r))}
  /\ Goto(r, "act")
  /\ UNCHANGED <<cancelled, left, seq, engineVars, turn, last, outcome, role,
                 calls, busy, links, exported>>

\* forceFinalTurn drops the context of its turn span, so the leaf of the last
\* model call hangs from the root.
ForceFinal(r) ==
  /\ pc[r] = "boundary"
  /\ ~ cancelled /\ Forced(r)
  /\ spans' = spans \cup {Span(TurnSpan(r), Root(r)), Span(GenSpan(r), Root(r))}
  /\ Wrote(r, "reminder")
  /\ Goto(r, "final")
  /\ UNCHANGED <<cancelled, left, seq, engineVars, turn, outcome, role,
                 calls, busy, links, exported>>

\* checkCanceled before either kind of turn.
AbortTurn(r) ==
  /\ pc[r] = "boundary"
  /\ cancelled
  /\ Finish(r, "error")
  /\ UNCHANGED <<cancelled, left, seq, engineVars, turn, last, role, calls, busy, trace>>

GenerateFails(r) ==
  /\ pc[r] \in {"act", "final"}
  /\ spans' = Ended(spans, FailedSpans(r))
  /\ Finish(r, "error")
  /\ UNCHANGED <<cancelled, left, seq, engineVars, turn, last, role, calls, busy,
                 links, exported>>

\* The answer arrives with the context done: it is dropped with its usage.
DropAnswer(r) ==
  /\ pc[r] = "act"
  /\ cancelled
  /\ spans' = Ended(spans, {GenSpan(r)} \cup Deferred(r))
  /\ Finish(r, "error")
  /\ UNCHANGED <<cancelled, left, seq, engineVars, turn, last, role, calls, busy,
                 links, exported>>

\* CostTracker.Observe, as far as Exceeded tells.
Observe ==
  \E u \in 0..MaxUsage :
    left' = IF left = Unlimited THEN Unlimited ELSE IF u < left THEN left - u ELSE 0

\* The reply, blank or not, has no tool calls: the run is over.
Conclude(r) ==
  /\ pc[r] = "final" \/ (pc[r] = "act" /\ ~ cancelled)
  /\ Observe
  /\ \E kind \in {"text", "blank"} : Wrote(r, kind)
  /\ spans' = Ended(spans, {GenSpan(r)} \cup Deferred(r))
  /\ Finish(r, "ok")
  /\ UNCHANGED <<cancelled, seq, engineVars, turn, role, calls, busy, links, exported>>

Call(want) == [want |-> want, at |-> "ready", sub |-> 0, ok |-> FALSE]

\* Run 0 asks for delegations: to a role, or invalid ones, to a role that is not
\* there or with a blank prompt.
AskDelegations ==
  /\ pc[Main] = "act" /\ ~ cancelled
  /\ turn[Main] < TurnBound
  /\ Observe
  /\ \E n \in 1..MaxCalls : \E want \in [1..n -> Roles \cup {"invalid"}] :
       /\ seq + n <= MaxSubs
       /\ calls' = [i \in 1..n |-> Call(want[i])]
  /\ Wrote(Main, "calls")
  /\ spans' = Ended(spans, {GenSpan(Main)})
  /\ Goto(Main, "exec")
  /\ UNCHANGED <<cancelled, seq, engineVars, turn, outcome, role, busy, links, exported>>

\* A subagent asks for a tool of its own, which has no subagents.
AskTool(r) ==
  /\ r # Main
  /\ pc[r] = "act" /\ ~ cancelled
  /\ Observe
  /\ Wrote(r, "calls")
  /\ spans' = Ended(spans, {GenSpan(r)})
  /\ Goto(r, "exec")
  /\ UNCHANGED <<cancelled, seq, engineVars, turn, outcome, role, calls, busy, links, exported>>

ToolStarts(r) ==
  /\ r # Main /\ pc[r] = "exec" /\ r \notin busy
  /\ ~ cancelled
  /\ busy' = busy \cup {r}
  /\ spans' = spans \cup {Span(ToolSpan(r, 1), TurnSpan(r))}
  /\ UNCHANGED <<cancelled, left, seq, engineVars, pc, turn, last, outcome, role,
                 calls, links, exported>>

\* The turn is over; its results are in the history.
NextTurn(r) ==
  /\ Wrote(r, "results")
  /\ turn' = [turn EXCEPT ![r] = IF @ < TurnBound THEN @ + 1 ELSE @]
  /\ Goto(r, "boundary")
  /\ UNCHANGED outcome

ToolEnds(r) ==
  /\ r \in busy
  /\ busy' = busy \ {r}
  /\ spans' = Ended(spans, {ToolSpan(r, 1)} \cup Deferred(r))
  /\ IF cancelled THEN Finish(r, "error") /\ UNCHANGED <<turn, last>> ELSE NextTurn(r)
  /\ UNCHANGED <<cancelled, left, seq, engineVars, role, calls, links, exported>>

\* The context is done before the tool has started.
ToolRefused(r) ==
  /\ r # Main /\ pc[r] = "exec" /\ r \notin busy
  /\ cancelled
  /\ spans' = Ended(spans, Deferred(r))
  /\ Finish(r, "error")
  /\ UNCHANGED <<cancelled, left, seq, engineVars, turn, last, role, calls, busy, links, exported>>

-----------------------------------------------------------------------------
(* One delegation, in its goroutine of run 0's batch. *)

CallGoes(i, from, to) ==
  /\ pc[Main] = "exec" /\ i \in DOMAIN calls
  /\ calls[i].at = from
  /\ calls' = [calls EXCEPT ![i].at = to]

rest == <<cancelled, left, pc, turn, last, outcome, role, busy>>

\* The registry opens the span of the call; SubagentTool.Execute rejects blank
\* prompts and unknown roles.
Enter(i) ==
  /\ ~ cancelled
  /\ \/ /\ calls[i].want \in Roles
        /\ CallGoes(i, "ready", "locking")
        /\ spans' = spans \cup {Span(ToolSpan(Main, i), TurnSpan(Main))}
     \/ /\ calls[i].want \notin Roles
        /\ CallGoes(i, "ready", "back")
        /\ spans' = spans \cup {[Span(ToolSpan(Main, i), TurnSpan(Main)) EXCEPT !.ended = TRUE]}
  /\ UNCHANGED <<rest, seq, engineVars, links, exported>>

\* execToolCall gives up before it starts the tool.
Refuse(i) ==
  /\ cancelled
  /\ CallGoes(i, "ready", "failed")
  /\ UNCHANGED <<rest, seq, engineVars, trace>>

\* Mutation: the mutex is not taken.
LockFreely(i) == mu' = i

Lock(i) == mu = 0 /\ mu' = i

EnterEngines(i) ==
  /\ CallGoes(i, "locking", "looking")
  /\ Lock(i)
  /\ UNCHANGED <<rest, seq, engines, built, trace>>

\* engineFor finds the engine of the registry, or goes on to build one.
FindEngine(i) ==
  /\ CallGoes(i, "looking", "spawning")
  /\ RegistryOf[calls[i].want] \in engines
  /\ mu' = 0
  /\ UNCHANGED <<rest, seq, engines, built, trace>>

MissEngine(i) ==
  /\ CallGoes(i, "looking", "building")
  /\ RegistryOf[calls[i].want] \notin engines
  /\ UNCHANGED <<rest, seq, engineVars, trace>>

\* NewAgentEngine registers the skill reader in the registry.
BuildEngine(i) ==
  /\ CallGoes(i, "building", "spawning")
  /\ LET g == RegistryOf[calls[i].want] IN
       /\ built' = [built EXCEPT ![g] = @ + 1]
       /\ engines' = engines \cup {g}
  /\ mu' = 0
  /\ UNCHANGED <<rest, seq, trace>>

\* Mutation: the counter is read, not advanced.
CountedLoaded == seq

\* seq.Add(1): the number of the new session.
Counted == seq + 1

\* A new session gets the prompt and its run starts, unless the context is done.
\* The link goes to the span of the context the tool was given, which is the
\* turn's: Registry.Execute drops the context of the call's own span.
Spawn(i) ==
  /\ i \in DOMAIN calls /\ calls[i].at = "spawning" /\ pc[Main] = "exec"
  /\ seq' = Counted
  /\ calls' = [calls EXCEPT ![i].at = "running", ![i].sub = seq']
  /\ role' = [role EXCEPT ![seq'] = calls[i].want]
  /\ links' = [id \in DOMAIN links \cup {TurnSpan(Main)} |->
                 IF id = TurnSpan(Main) THEN seq' ELSE links[id]]
  /\ IF cancelled
     THEN /\ Goto(seq', "over")
          /\ outcome' = [outcome EXCEPT ![seq'] = "error"]
          /\ UNCHANGED spans
     ELSE /\ spans' = spans \cup {Span(Root(seq'), NoSpan)}
          /\ \/ Goto(seq', "boundary") /\ UNCHANGED outcome
             \/ Finish(seq', "error")  \* the role's prompt cannot be built
  /\ UNCHANGED <<cancelled, left, turn, last, busy, engineVars, exported>>

\* Mutation: the error of the run is not looked at.
SucceededAnyway(r) == TRUE

\* RunSub: the run returned no error and left a conclusion.
Succeeded(r) == outcome[r] = "ok" /\ last[r] = "text"

\* The run is back: its conclusion, or ERR_SUBAGENT_FAILED as a soft failure.
Return(i) ==
  /\ pc[Main] = "exec" /\ i \in DOMAIN calls
  /\ calls[i].at = "running" /\ pc[calls[i].sub] = "over"
  /\ calls' = [calls EXCEPT ![i].at = IF cancelled THEN "failed" ELSE "back",
                            ![i].ok = Succeeded(calls[i].sub)]
  /\ spans' = Ended(spans, {ToolSpan(Main, i)})
  /\ UNCHANGED <<rest, seq, engineVars, links, exported>>

\* All goroutines are back.
EndBatch ==
  /\ pc[Main] = "exec"
  /\ \A i \in DOMAIN calls : calls[i].at \in {"back", "failed"}
  /\ spans' = Ended(spans, Deferred(Main))
  /\ IF cancelled \/ \E i \in DOMAIN calls : calls[i].at = "failed"
     THEN Finish(Main, "error") /\ UNCHANGED <<turn, last>>
     ELSE NextTurn(Main)
  /\ UNCHANGED <<cancelled, left, seq, engineVars, role, calls, busy, links, exported>>

-----------------------------------------------------------------------------
\* finishRunSpan, deferred in Run: the root ends and the tree is exported.
Export(r) ==
  /\ pc[r] = "ending"
  /\ spans' = Ended(spans, {Root(r)})
  /\ exported' = [exported EXCEPT ![r] = Open({s \in spans' : s.id[1] = r})]
  /\ Goto(r, "over")
  /\ UNCHANGED <<cancelled, left, seq, engineVars, turn, last, outcome, role,
                 calls, busy, links>>

Cancel ==
  /\ ~ cancelled
  /\ cancelled' = TRUE
  /\ UNCHANGED <<left, seq, engineVars, pc, turn, last, outcome, role, calls, busy, trace>>

AllOver == pc[Main] = "over" /\ UNCHANGED vars

\* The steps of a run's goroutines that wait for no tool.
EngineStep(r) ==
  \/ BeginTurn(r) \/ ForceFinal(r) \/ AbortTurn(r)
  \/ GenerateFails(r) \/ DropAnswer(r) \/ Conclude(r)
  \/ AskTool(r) \/ ToolStarts(r) \/ ToolRefused(r)
  \/ Export(r)

RunStep(r) == EngineStep(r) \/ ToolEnds(r)

CallStep(i) ==
  \/ Enter(i) \/ Refuse(i)
  \/ EnterEngines(i) \/ FindEngine(i) \/ MissEngine(i) \/ BuildEngine(i)
  \/ Spawn(i) \/ Return(i)

Next ==
  \/ \E r \in Runs : RunStep(r)
  \/ AskDelegations \/ EndBatch
  \/ \E i \in DOMAIN calls : CallStep(i)
  \/ Cancel \/ AllOver

Spec == Init /\ [][Next]_vars

(* Goroutines are scheduled, a mutex that is free again and again is taken, *)
(* and a call of the model returns.  A tool of a subagent need not return:  *)
(* bash waits for the output of processes that its deadline does not kill.  *)
(* Nothing makes the context end.                                           *)
FairSpec ==
  /\ Spec
  /\ \A r \in Runs : WF_vars(EngineStep(r))
  /\ WF_vars(EndBatch)
  /\ \A i \in 1..MaxCalls : WF_vars(i \in DOMAIN calls /\ CallStep(i))

-----------------------------------------------------------------------------
(* Properties. *)

SpanIds == Runs \X {"agent.run", "turn", "llm.generate", "tool.execute"} \X Nat \X Nat
Spans == [id : SpanIds, parent : SpanIds \cup {NoSpan}, ended : BOOLEAN]

\* Every variable stays in its range, and the delegating run has no role.
TypeOK ==
  /\ cancelled \in BOOLEAN /\ left \in Nat \cup {Unlimited} /\ seq \in 0..MaxSubs
  /\ mu \in 0..MaxCalls /\ engines \subseteq Registries
  /\ built \in [Registries -> Nat]
  /\ pc \in [Runs -> {"none", "boundary", "act", "final", "exec", "ending", "over"}]
  /\ turn \in [Runs -> Nat]
  /\ last \in [Runs -> {"prompt", "calls", "results", "reminder", "text", "blank"}]
  /\ outcome \in [Runs -> {"none", "ok", "error"}]
  /\ role \in [Runs -> Roles \cup {"none"}] /\ role[Main] = "none"
  /\ calls \in Seq([want : Roles \cup {"invalid"},
                    at : {"ready", "locking", "looking", "building", "spawning",
                          "running", "back", "failed"},
                    sub : Runs, ok : BOOLEAN])
  /\ busy \subseteq Runs
  /\ spans \subseteq Spans
  /\ links \in [DOMAIN links -> Runs]
  /\ exported \in [Runs -> SUBSET SpanIds]

\* However many delegations to roles of one registry start at the same time,
\* its engine is built, and its skill reader registered, once; a run is never
\* started before that ( engineFor ).
OneEnginePerRegistry ==
  /\ \A g \in Registries : built[g] = IF g \in engines THEN 1 ELSE 0
  /\ \A r \in 1..seq : RegistryOf[role[r]] \in engines

\* What a delegation answers is true: it answers only when its own run is over,
\* with a conclusion only if that run has succeeded and its last message is one,
\* and with a failure only if there was no run, or it failed, or was left blank
\* ( SubagentTool.Execute, RunSub, subConclusion ).
DelegationsTellTheTruth ==
  /\ \A i \in DOMAIN calls : LET c == calls[i] IN
       c.at \in {"back", "failed"} =>
         /\ c.sub # 0 => pc[c.sub] = "over" /\ role[c.sub] = c.want
         /\ c.ok <=> c.sub # 0 /\ outcome[c.sub] = "ok" /\ last[c.sub] = "text"
  /\ \A i, j \in DOMAIN calls : calls[i].sub = calls[j].sub /\ calls[i].sub # 0 => i = j

\* A run's tree is complete when it is exported, whatever made it end: every
\* span in it has ended, and none is added later.  At any time a span that has
\* ended has only ended children, and a leaf hangs from the turn it belongs to,
\* but for the one of a forced conclusion, which hangs from the root ( every
\* return path of Run; Export walks the tree without a lock ).
TracesAreWhole ==
  /\ \A r \in Runs : exported[r] = {} /\ (pc[r] \in {"none", "over"} => Open(SpansOf(r)) = {})
  /\ \A s, t \in spans : t.parent = s.id /\ s.ended => t.ended
  /\ \A s \in spans :
       /\ s.parent # NoSpan => \E t \in spans : t.id = s.parent
       /\ s.id[2] \in {"llm.generate", "tool.execute"} =>
            \/ s.parent = <<s.id[1], "turn", s.id[3], 0>>
            \/ s.parent = Root(s.id[1]) /\ s.id[2] = "llm.generate"
               /\ ~ \E t \in spans : t.parent = <<s.id[1], "turn", s.id[3], 0>>

\* A batch of delegations ends although no subagent has to conclude: each has
\* a budget, the default one if its role has none.  Only a tool of a subagent
\* that never returns can keep it ( subRunOptions, forceFinalTurn ).
DelegationsEnd ==
  <>[](pc[Main] = "exec") => \E r \in Runs : <>[](r \in busy)

-----------------------------------------------------------------------------
(* A statement of the repository's comments that the code does not keep. *)

\* subagent.go:106-107: the tree of a run that delegates links each tree of a
\* subagent, here at any of its spans.
LinksAreKept ==
  \A i \in DOMAIN calls : calls[i].sub # 0 =>
    \E id \in DOMAIN links : links[id] = calls[i].sub
=============================================================================
