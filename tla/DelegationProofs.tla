--------------------------- MODULE DelegationProofs ---------------------------
(* What TLAPS proves of delegations, for every value of the constants.       *)
EXTENDS Delegation, FiniteSetTheorems, TLAPS

USE DelegationAssumption

Labels == {"none", "boundary", "act", "final", "exec", "ending", "over"}
Kinds  == {"prompt", "calls", "results", "reminder", "text", "blank"}
Places == {"ready", "locking", "looking", "building", "spawning", "running", "back", "failed"}

CallRecords == [want : Roles \cup {"invalid"}, at : Places, sub : Runs, ok : BOOLEAN]

LEMMA CallIsTyped ==
  ASSUME TypeOK
  PROVE  /\ calls \in Seq(CallRecords) /\ Len(calls) \in Nat /\ DOMAIN calls = 1..Len(calls)
         /\ \A i \in DOMAIN calls : calls[i] \in CallRecords
<1>1. calls \in Seq(CallRecords)
  BY DEF TypeOK, CallRecords, Places
<1> QED BY <1>1

-----------------------------------------------------------------------------
(* Spans. *)

LEMMA IdsAreTyped ==
  ASSUME TypeOK, NEW r \in Runs, NEW i \in Nat
  PROVE  Root(r) \in SpanIds /\ TurnSpan(r) \in SpanIds /\ GenSpan(r) \in SpanIds
         /\ ToolSpan(r, i) \in SpanIds
<1> turn[r] \in Nat
  BY DEF TypeOK
<1> QED BY DEF Root, TurnSpan, GenSpan, ToolSpan, SpanIds

LEMMA SpanIsTyped ==
  ASSUME NEW id \in SpanIds, NEW parent \in SpanIds \cup {NoSpan}
  PROVE  Span(id, parent) \in Spans /\ [Span(id, parent) EXCEPT !.ended = TRUE] \in Spans
  BY DEF Span, Spans

LEMMA EndedIsTyped ==
  ASSUME NEW S \in SUBSET Spans, NEW ids
  PROVE  Ended(S, ids) \subseteq Spans
<1> SUFFICES ASSUME NEW s \in S
             PROVE  (IF s.id \in ids THEN [s EXCEPT !.ended = TRUE] ELSE s) \in Spans
  BY DEF Ended
<1> QED BY DEF Spans

-----------------------------------------------------------------------------
(* What a step of a run changes, apart from its spans. *)

\* A subagent run whose own tool executes waits for it.
BusyInv == \A r \in busy : r # Main /\ pc[r] = "exec"

LEMMA RunStepEffect ==
  ASSUME TypeOK, BusyInv, NEW r \in Runs, RunStep(r)
  PROVE  /\ pc[r] \notin {"none", "over"}
         /\ r = Main => pc[r] # "exec" /\ pc'[r] # "exec"
         /\ pc' \in [Runs -> Labels] /\ pc'[r] # "none"
         /\ last' \in [Runs -> Kinds] /\ outcome' \in [Runs -> {"none", "ok", "error"}]
         /\ turn' \in [Runs -> Nat] /\ busy' \subseteq Runs
         /\ left' \in Nat \cup {Unlimited}
         /\ \A q \in Runs \ {r} :
              pc'[q] = pc[q] /\ last'[q] = last[q] /\ outcome'[q] = outcome[q]
         /\ BusyInv'
         /\ UNCHANGED <<cancelled, seq, engineVars, role, calls, links>>
<1> USE DEF TypeOK, BusyInv, Labels, Kinds, Goto, Wrote, Finish, engineVars
<1>0. ASSUME Observe PROVE left' \in Nat \cup {Unlimited}
  BY <1>0 DEF Observe, Unlimited
<1>1. CASE BeginTurn(r)
  BY <1>1 DEF BeginTurn
<1>2. CASE ForceFinal(r)
  BY <1>2 DEF ForceFinal
<1>3. CASE AbortTurn(r)
  BY <1>3 DEF AbortTurn, trace
<1>4. CASE GenerateFails(r)
  BY <1>4 DEF GenerateFails
<1>5. CASE DropAnswer(r)
  BY <1>5 DEF DropAnswer
<1>6. CASE Conclude(r)
  BY <1>6, <1>0 DEF Conclude
<1>7. CASE AskTool(r)
  BY <1>7, <1>0 DEF AskTool
<1>8. CASE ToolStarts(r)
  BY <1>8 DEF ToolStarts
<1>9. CASE ToolEnds(r)
  <2>1. /\ r \in busy /\ busy' = busy \ {r} /\ BusyInv
        /\ UNCHANGED <<cancelled, left, seq, engineVars, role, calls, links>>
    BY <1>9 DEF ToolEnds
  <2>2. CASE cancelled
    BY <1>9, <2>1, <2>2 DEF ToolEnds
  <2>3. CASE ~ cancelled
    <3>1. NextTurn(r)
      BY <1>9, <2>3 DEF ToolEnds
    <3>2. turn' \in [Runs -> Nat]
      BY <3>1 DEF NextTurn
    <3> QED BY <2>1, <3>1, <3>2 DEF NextTurn
  <2> QED BY <2>2, <2>3
<1>10. CASE ToolRefused(r)
  BY <1>10 DEF ToolRefused
<1>11. CASE Export(r)
  BY <1>11 DEF Export
<1> QED
  BY <1>1, <1>2, <1>3, <1>4, <1>5, <1>6, <1>7, <1>8, <1>9, <1>10, <1>11 DEF RunStep, EngineStep

\* A step of a run adds and ends spans of the run, and exports no others.
LEMMA RunStepTrace ==
  ASSUME TypeOK, NEW r \in Runs, RunStep(r)
  PROVE  spans' \subseteq Spans /\ exported' \in [Runs -> SUBSET SpanIds]
<1>1. /\ Span(TurnSpan(r), Root(r)) \in Spans /\ Span(GenSpan(r), TurnSpan(r)) \in Spans
      /\ Span(GenSpan(r), Root(r)) \in Spans /\ Span(ToolSpan(r, 1), TurnSpan(r)) \in Spans
  <2>1. 1 \in Nat
    OBVIOUS
  <2> QED BY <2>1, IdsAreTyped, SpanIsTyped
<1>2. spans \subseteq Spans /\ exported \in [Runs -> SUBSET SpanIds]
  BY DEF TypeOK
<1>3. \A ids : Ended(spans, ids) \subseteq Spans
  BY <1>2, EndedIsTyped
<1>4. CASE BeginTurn(r)
  BY <1>1, <1>2, <1>4 DEF BeginTurn
<1>5. CASE ForceFinal(r)
  BY <1>1, <1>2, <1>5 DEF ForceFinal
<1>6. CASE AbortTurn(r)
  BY <1>2, <1>6 DEF AbortTurn, trace
<1>7. CASE GenerateFails(r)
  BY <1>2, <1>3, <1>7 DEF GenerateFails
<1>8. CASE DropAnswer(r)
  BY <1>2, <1>3, <1>8 DEF DropAnswer
<1>9. CASE Conclude(r)
  BY <1>2, <1>3, <1>9 DEF Conclude
<1>10. CASE AskTool(r)
  BY <1>2, <1>3, <1>10 DEF AskTool
<1>11. CASE ToolStarts(r)
  BY <1>1, <1>2, <1>11 DEF ToolStarts
<1>12. CASE ToolEnds(r)
  BY <1>2, <1>3, <1>12 DEF ToolEnds
<1>13. CASE ToolRefused(r)
  BY <1>2, <1>3, <1>13 DEF ToolRefused
<1>14. CASE Export(r)
  <2>1. spans' \subseteq Spans
    BY <1>3, <1>14 DEF Export
  <2>2. Open({s \in spans' : s.id[1] = r}) \subseteq SpanIds
    BY <2>1 DEF Open, Spans
  <2> QED BY <1>2, <1>14, <2>1, <2>2 DEF Export
<1> QED
  BY <1>4, <1>5, <1>6, <1>7, <1>8, <1>9, <1>10, <1>11, <1>12, <1>13, <1>14 DEF RunStep, EngineStep

-----------------------------------------------------------------------------
(* The invariant. *)

\* The delegations whose run has yet to start are provided for by MaxSubs.
Before  == {"ready", "locking", "looking", "building", "spawning"}
Pending == {i \in DOMAIN calls : calls[i].at \in Before}
Supply  == Len(calls) <= MaxCalls /\ seq + Cardinality(Pending) <= MaxSubs

\* The mutex is held by the delegation that looks for its engine, if any, and
\* outside a batch all delegations are back.
MutexInv ==
  /\ \A i \in DOMAIN calls : calls[i].at \in {"looking", "building"} <=> mu = i
  /\ mu # 0 => mu \in DOMAIN calls
  /\ pc[Main] # "exec" => \A i \in DOMAIN calls : calls[i].at \in {"back", "failed"}

\* Who builds an engine has found none, and who has an engine, or a run, can
\* find it in the cache.
EngineInv ==
  /\ \A i \in DOMAIN calls : LET c == calls[i] IN
       /\ c.at \in {"locking", "looking", "building", "spawning"} => c.want \in Roles
       /\ c.at = "building" => RegistryOf[c.want] \notin engines
       /\ c.at = "spawning" => RegistryOf[c.want] \in engines
  /\ \A r \in 1..seq : role[r] \in Roles
  /\ OneEnginePerRegistry

\* A delegation has a run, of its own and of its role, from when it was started;
\* and what it answers is what that run, which is over, has come to.
AnswerInv ==
  /\ \A r \in Runs : r > seq => pc[r] = "none"
  /\ \A i \in DOMAIN calls : LET c == calls[i] IN
       /\ c.at \in Before => c.sub = 0
       /\ c.at = "running" => c.sub # 0
       /\ c.sub # 0 => c.sub \in 1..seq /\ role[c.sub] = c.want
       /\ c.at \notin {"back", "failed"} => ~ c.ok
  /\ DelegationsTellTheTruth

DelegationInv ==
  /\ TypeOK /\ BusyInv /\ Supply /\ MutexInv /\ EngineInv /\ AnswerInv

LEMMA PendingIsFinite ==
  ASSUME TypeOK
  PROVE  IsFiniteSet(Pending) /\ Cardinality(Pending) \in Nat
<1>1. DOMAIN calls = 1..Len(calls) /\ Len(calls) \in Nat
  BY DEF TypeOK
<1>2. IsFiniteSet(1..Len(calls))
  BY <1>1, FS_Interval
<1> QED BY <1>1, <1>2, FS_Subset, FS_CardinalityType DEF Pending

LEMMA DelegationInit == Init => DelegationInv
<1> SUFFICES ASSUME Init PROVE DelegationInv
  OBVIOUS
<1> USE DEF Init
<1>1. TypeOK
  <2>1. Main \in Runs /\ 0 \in 0..MaxCalls
    BY DEF Runs, Main
  <2>2. Root(Main) \in SpanIds
    BY <2>1 DEF Root, SpanIds
  <2>3. spans \subseteq Spans
    BY <2>2, SpanIsTyped
  <2>4. calls \in Seq(CallRecords) /\ links \in [DOMAIN links -> Runs]
    OBVIOUS
  <2>5. left \in Nat \cup {Unlimited} /\ seq \in 0..MaxSubs /\ mu \in 0..MaxCalls
        /\ engines \subseteq Registries /\ built \in [Registries -> Nat]
    BY DEF Unlimited
  <2>6. /\ pc \in [Runs -> Labels] /\ turn \in [Runs -> Nat] /\ last \in [Runs -> Kinds]
        /\ outcome \in [Runs -> {"none", "ok", "error"}]
        /\ role \in [Runs -> Roles \cup {"none"}]
    BY DEF Labels, Kinds
  <2>7. cancelled \in BOOLEAN /\ busy \subseteq Runs /\ exported \in [Runs -> SUBSET SpanIds]
    OBVIOUS
  <2>8. role[Main] = "none"
    BY <2>1
  <2> QED BY <2>3, <2>4, <2>5, <2>6, <2>7, <2>8 DEF TypeOK, CallRecords, Places, Labels, Kinds
<1>2. BusyInv /\ MutexInv
  BY DEF BusyInv, MutexInv
<1>3. Supply
  <2>1. Pending = {} /\ Len(calls) = 0
    BY DEF Pending
  <2> QED BY <2>1, FS_EmptySet DEF Supply
<1>4. EngineInv
  BY DEF EngineInv, OneEnginePerRegistry
<1>5. AnswerInv
  BY DEF AnswerInv, DelegationsTellTheTruth, Main, Runs
<1> QED BY <1>1, <1>2, <1>3, <1>4, <1>5 DEF DelegationInv

\* A run that takes a step neither answers nor disturbs an answer: it is not
\* over, and its delegation still waits for it.
LEMMA RunStepPreserves ==
  ASSUME DelegationInv, NEW r \in Runs, RunStep(r)
  PROVE  DelegationInv'
<1> USE DEF DelegationInv
<1>1. /\ pc[r] \notin {"none", "over"}
      /\ r = Main => pc[r] # "exec" /\ pc'[r] # "exec"
      /\ pc'[r] # "none"
      /\ \A q \in Runs \ {r} :
           pc'[q] = pc[q] /\ last'[q] = last[q] /\ outcome'[q] = outcome[q]
      /\ UNCHANGED <<seq, mu, engines, built, role, calls>>
  BY RunStepEffect DEF engineVars
<1>2. TypeOK'
  BY RunStepEffect, RunStepTrace DEF TypeOK, Labels, Kinds, engineVars
<1>3. BusyInv'
  BY RunStepEffect
<1>4. Supply'
  BY <1>1 DEF Supply, Pending
<1>5. MutexInv'
  <2>1. Main \in Runs
    BY DEF Main, Runs
  <2> QED BY <1>1, <2>1 DEF MutexInv
<1>6. EngineInv'
  BY <1>1 DEF EngineInv, OneEnginePerRegistry
<1>7. AnswerInv'
  <2>1. \A q \in Runs : q > seq => pc'[q] = "none"
    BY <1>1 DEF AnswerInv
  <2>2. ASSUME NEW i \in DOMAIN calls, calls[i].at \in {"back", "failed"}, calls[i].sub # 0
        PROVE  calls[i].sub \in Runs \ {r}
    <3>1. pc[calls[i].sub] = "over"
      BY <2>2 DEF AnswerInv, DelegationsTellTheTruth
    <3>2. calls[i].sub \in Runs
      BY CallIsTyped DEF CallRecords
    <3> QED BY <1>1, <3>1, <3>2
  <2>3. DelegationsTellTheTruth'
    BY <1>1, <2>2 DEF AnswerInv, DelegationsTellTheTruth
  <2> QED BY <1>1, <2>1, <2>3 DEF AnswerInv
<1> QED BY <1>2, <1>3, <1>4, <1>5, <1>6, <1>7

-----------------------------------------------------------------------------
(* Steps of a delegation. *)

LEMMA CallIsWritten ==
  ASSUME TypeOK, NEW i \in DOMAIN calls, NEW c \in CallRecords,
         calls' = [calls EXCEPT ![i] = c]
  PROVE  /\ calls' \in Seq(CallRecords)
         /\ DOMAIN calls' = DOMAIN calls /\ Len(calls') = Len(calls)
         /\ \A j \in DOMAIN calls : j # i => calls'[j] = calls[j]
         /\ calls'[i] = c
  BY CallIsTyped

LEMMA CallMoves ==
  ASSUME TypeOK, NEW i, NEW from, NEW to \in Places, CallGoes(i, from, to)
  PROVE  /\ pc[Main] = "exec" /\ i \in DOMAIN calls /\ calls[i].at = from
         /\ calls' \in Seq(CallRecords)
         /\ DOMAIN calls' = DOMAIN calls /\ Len(calls') = Len(calls)
         /\ \A j \in DOMAIN calls : j # i => calls'[j] = calls[j]
         /\ calls'[i].at = to /\ calls'[i].want = calls[i].want
         /\ calls'[i].sub = calls[i].sub /\ calls'[i].ok = calls[i].ok
<1>1. /\ pc[Main] = "exec" /\ i \in DOMAIN calls /\ calls[i].at = from
      /\ calls' = [calls EXCEPT ![i].at = to]
  BY DEF CallGoes
<1>2. calls[i] \in CallRecords
  BY <1>1, CallIsTyped
<1>3. calls' = [calls EXCEPT ![i] = [calls[i] EXCEPT !.at = to]]
  BY <1>1, CallIsTyped
<1>4. [calls[i] EXCEPT !.at = to] \in CallRecords
  BY <1>2 DEF CallRecords
<1>5. /\ calls' \in Seq(CallRecords)
      /\ DOMAIN calls' = DOMAIN calls /\ Len(calls') = Len(calls)
      /\ \A j \in DOMAIN calls : j # i => calls'[j] = calls[j]
      /\ calls'[i] = [calls[i] EXCEPT !.at = to]
  BY <1>1, <1>3, <1>4, CallIsWritten
<1>6. /\ calls'[i].at = to /\ calls'[i].want = calls[i].want
      /\ calls'[i].sub = calls[i].sub /\ calls'[i].ok = calls[i].ok
  BY <1>2, <1>5 DEF CallRecords
<1> QED BY <1>1, <1>5, <1>6

LEMMA SupplyLasts ==
  ASSUME TypeOK, Supply, Pending' \subseteq Pending, seq' = seq, Len(calls') = Len(calls)
  PROVE  Supply'
<1>1. IsFiniteSet(Pending) /\ Cardinality(Pending) \in Nat
  BY PendingIsFinite
<1>2. Cardinality(Pending') <= Cardinality(Pending) /\ Cardinality(Pending') \in Nat
  BY <1>1, FS_Subset, FS_CardinalityType
<1>3. seq \in Nat
  BY DEF TypeOK
<1> QED BY <1>1, <1>2, <1>3 DEF Supply

\* A delegation that has no run yet moves on, or back with a failure.
LEMMA MovePreserves ==
  ASSUME DelegationInv, NEW i, NEW from \in Before, NEW to \in Places \ {"running"},
         CallGoes(i, from, to),
         UNCHANGED <<rest, seq, links, exported>>,
         spans' \subseteq Spans, mu' \in 0..MaxCalls,
         engines' \subseteq Registries, built' \in [Registries -> Nat]
  PROVE  TypeOK' /\ BusyInv' /\ Supply' /\ AnswerInv'
<1> USE DEF DelegationInv
<1>1. /\ pc[Main] = "exec" /\ i \in DOMAIN calls /\ calls[i].at = from
      /\ calls' \in Seq(CallRecords)
      /\ DOMAIN calls' = DOMAIN calls /\ Len(calls') = Len(calls)
      /\ \A j \in DOMAIN calls : j # i => calls'[j] = calls[j]
      /\ calls'[i].at = to /\ calls'[i].want = calls[i].want
      /\ calls'[i].sub = calls[i].sub /\ calls'[i].ok = calls[i].ok
  BY CallMoves
<1>2. UNCHANGED <<cancelled, left, pc, turn, last, outcome, role, busy, seq, links, exported>>
  BY DEF rest
<1>3. TypeOK'
  BY <1>1, <1>2 DEF TypeOK, CallRecords, Places
<1>4. BusyInv'
  BY <1>2 DEF BusyInv
<1>5. Supply'
  <2>1. Pending' \subseteq Pending
    BY <1>1 DEF Pending
  <2> QED BY <1>1, <1>2, <2>1, SupplyLasts
<1>6. AnswerInv'
  <2>1. calls[i].sub = 0 /\ ~ calls[i].ok
    BY <1>1 DEF AnswerInv, Before
  <2>2. \A j \in DOMAIN calls : calls'[j].sub = calls[j].sub
    BY <1>1
  <2>3. \A j, k \in DOMAIN calls :
          calls'[j].sub = calls'[k].sub /\ calls'[j].sub # 0 => j = k
    BY <2>2 DEF AnswerInv, DelegationsTellTheTruth
  <2>4. ASSUME NEW j \in DOMAIN calls, calls'[j].at \in {"back", "failed"}
        PROVE  /\ calls'[j].sub # 0 => pc[calls'[j].sub] = "over"
                                       /\ role[calls'[j].sub] = calls'[j].want
               /\ calls'[j].ok <=> /\ calls'[j].sub # 0 /\ outcome[calls'[j].sub] = "ok"
                                   /\ last[calls'[j].sub] = "text"
    <3>1. CASE j = i
      BY <1>1, <2>1, <3>1
    <3>2. CASE j # i
      BY <1>1, <2>4, <3>2 DEF AnswerInv, DelegationsTellTheTruth
    <3> QED BY <3>1, <3>2
  <2>5. DelegationsTellTheTruth'
    BY <1>1, <1>2, <2>3, <2>4 DEF DelegationsTellTheTruth
  <2> QED BY <1>1, <1>2, <2>1, <2>5 DEF AnswerInv
<1> QED BY <1>3, <1>4, <1>5, <1>6

LEMMA EnterPreserves ==
  ASSUME DelegationInv, NEW i \in DOMAIN calls, Enter(i) PROVE DelegationInv'
<1> USE DEF DelegationInv
<1> DEFINE span == Span(ToolSpan(Main, i), TurnSpan(Main))
<1>1. span \in Spans /\ [span EXCEPT !.ended = TRUE] \in Spans
  <2>1. i \in Nat /\ Main \in Runs
    BY CallIsTyped DEF Main, Runs
  <2> QED BY <2>1, IdsAreTyped, SpanIsTyped
<1>2. PICK to \in {"locking", "back"} :
        /\ CallGoes(i, "ready", to)
        /\ to = "locking" => calls[i].want \in Roles
        /\ UNCHANGED <<rest, seq, engineVars, links, exported>>
        /\ spans' \subseteq Spans
  <2>1. spans \subseteq Spans
    BY DEF TypeOK
  <2> QED BY <1>1, <2>1 DEF Enter
<1>3. TypeOK' /\ BusyInv' /\ Supply' /\ AnswerInv'
  BY <1>2, MovePreserves DEF TypeOK, engineVars, Before, Places
<1>4. /\ pc[Main] = "exec" /\ calls[i].at = "ready" /\ DOMAIN calls' = DOMAIN calls
      /\ \A j \in DOMAIN calls : j # i => calls'[j] = calls[j]
      /\ calls'[i].at = to /\ calls'[i].want = calls[i].want
  BY <1>2, CallMoves DEF Places
<1>5. UNCHANGED <<mu, engines, built, pc, seq, role>>
  BY <1>2 DEF engineVars, rest
<1>6. MutexInv'
  BY <1>4, <1>5 DEF MutexInv
<1>7. EngineInv'
  BY <1>2, <1>4, <1>5 DEF EngineInv, OneEnginePerRegistry
<1> QED BY <1>3, <1>6, <1>7

LEMMA RefusePreserves ==
  ASSUME DelegationInv, NEW i \in DOMAIN calls, Refuse(i) PROVE DelegationInv'
<1> USE DEF DelegationInv
<1>1. CallGoes(i, "ready", "failed") /\ UNCHANGED <<rest, seq, engineVars, trace>>
  BY DEF Refuse
<1>2. TypeOK' /\ BusyInv' /\ Supply' /\ AnswerInv'
  BY <1>1, MovePreserves DEF TypeOK, engineVars, trace, Before, Places
<1>3. /\ pc[Main] = "exec" /\ calls[i].at = "ready" /\ DOMAIN calls' = DOMAIN calls
      /\ \A j \in DOMAIN calls : j # i => calls'[j] = calls[j]
      /\ calls'[i].at = "failed" /\ calls'[i].want = calls[i].want
  BY <1>1, CallMoves DEF Places
<1>4. UNCHANGED <<mu, engines, built, pc, seq, role>>
  BY <1>1 DEF engineVars, rest
<1>5. MutexInv'
  BY <1>3, <1>4 DEF MutexInv
<1>6. EngineInv'
  BY <1>3, <1>4 DEF EngineInv, OneEnginePerRegistry
<1> QED BY <1>2, <1>5, <1>6

LEMMA EnterEnginesPreserves ==
  ASSUME DelegationInv, NEW i \in DOMAIN calls, EnterEngines(i) PROVE DelegationInv'
<1> USE DEF DelegationInv
<1>1. /\ CallGoes(i, "locking", "looking")
      /\ UNCHANGED <<rest, seq, trace>>
      /\ mu = 0 /\ mu' = i /\ UNCHANGED <<engines, built>>
  BY DEF EnterEngines, Lock
<1>2. mu' \in 0..MaxCalls /\ engines' \subseteq Registries /\ built' \in [Registries -> Nat]
  <2>1. i \in 1..Len(calls) /\ Len(calls) \in Nat /\ Len(calls) <= MaxCalls
    BY CallIsTyped DEF Supply
  <2>2. engines \subseteq Registries /\ built \in [Registries -> Nat] /\ mu \in 0..MaxCalls
    BY DEF TypeOK
  <2> QED BY <1>1, <2>1, <2>2
<1>3. TypeOK' /\ BusyInv' /\ Supply' /\ AnswerInv'
  BY <1>1, <1>2, MovePreserves DEF TypeOK, trace, Before, Places
<1>4. /\ pc[Main] = "exec" /\ calls[i].at = "locking" /\ DOMAIN calls' = DOMAIN calls
      /\ \A j \in DOMAIN calls : j # i => calls'[j] = calls[j]
      /\ calls'[i].at = "looking" /\ calls'[i].want = calls[i].want
  BY <1>1, CallMoves DEF Places
<1>5. UNCHANGED <<pc, seq, role>>
  BY <1>1 DEF rest
<1>6. MutexInv'
  <2>1. 0 \notin DOMAIN calls
    BY CallIsTyped
  <2> QED BY <1>1, <1>4, <1>5, <2>1 DEF MutexInv
<1>7. EngineInv'
  BY <1>1, <1>4, <1>5 DEF EngineInv, OneEnginePerRegistry
<1> QED BY <1>3, <1>6, <1>7

LEMMA FindEnginePreserves ==
  ASSUME DelegationInv, NEW i \in DOMAIN calls, FindEngine(i) PROVE DelegationInv'
<1> USE DEF DelegationInv
<1>1. /\ CallGoes(i, "looking", "spawning")
      /\ UNCHANGED <<rest, seq, trace>>
      /\ mu' = 0 /\ UNCHANGED <<engines, built>>
      /\ RegistryOf[calls[i].want] \in engines
  BY DEF FindEngine
<1>2. mu' \in 0..MaxCalls /\ engines' \subseteq Registries /\ built' \in [Registries -> Nat]
  <2>1. i \in 1..Len(calls) /\ Len(calls) \in Nat /\ Len(calls) <= MaxCalls
    BY CallIsTyped DEF Supply
  <2>2. engines \subseteq Registries /\ built \in [Registries -> Nat] /\ mu \in 0..MaxCalls
    BY DEF TypeOK
  <2> QED BY <1>1, <2>1, <2>2
<1>3. TypeOK' /\ BusyInv' /\ Supply' /\ AnswerInv'
  BY <1>1, <1>2, MovePreserves DEF TypeOK, trace, Before, Places
<1>4. /\ pc[Main] = "exec" /\ calls[i].at = "looking" /\ DOMAIN calls' = DOMAIN calls
      /\ \A j \in DOMAIN calls : j # i => calls'[j] = calls[j]
      /\ calls'[i].at = "spawning" /\ calls'[i].want = calls[i].want
  BY <1>1, CallMoves DEF Places
<1>5. UNCHANGED <<pc, seq, role>>
  BY <1>1 DEF rest
<1>6. MutexInv'
  <2>1. 0 \notin DOMAIN calls
    BY CallIsTyped
  <2> QED BY <1>1, <1>4, <1>5, <2>1 DEF MutexInv
<1>7. EngineInv'
  BY <1>1, <1>4, <1>5 DEF EngineInv, OneEnginePerRegistry
<1> QED BY <1>3, <1>6, <1>7

LEMMA MissEnginePreserves ==
  ASSUME DelegationInv, NEW i \in DOMAIN calls, MissEngine(i) PROVE DelegationInv'
<1> USE DEF DelegationInv
<1>1. /\ CallGoes(i, "looking", "building")
      /\ UNCHANGED <<rest, seq, trace>>
      /\ UNCHANGED <<mu, engines, built>>
      /\ RegistryOf[calls[i].want] \notin engines
  BY DEF MissEngine, engineVars
<1>2. mu' \in 0..MaxCalls /\ engines' \subseteq Registries /\ built' \in [Registries -> Nat]
  <2>1. i \in 1..Len(calls) /\ Len(calls) \in Nat /\ Len(calls) <= MaxCalls
    BY CallIsTyped DEF Supply
  <2>2. engines \subseteq Registries /\ built \in [Registries -> Nat] /\ mu \in 0..MaxCalls
    BY DEF TypeOK
  <2> QED BY <1>1, <2>1, <2>2
<1>3. TypeOK' /\ BusyInv' /\ Supply' /\ AnswerInv'
  BY <1>1, <1>2, MovePreserves DEF TypeOK, trace, Before, Places
<1>4. /\ pc[Main] = "exec" /\ calls[i].at = "looking" /\ DOMAIN calls' = DOMAIN calls
      /\ \A j \in DOMAIN calls : j # i => calls'[j] = calls[j]
      /\ calls'[i].at = "building" /\ calls'[i].want = calls[i].want
  BY <1>1, CallMoves DEF Places
<1>5. UNCHANGED <<pc, seq, role>>
  BY <1>1 DEF rest
<1>6. MutexInv'
  <2>1. 0 \notin DOMAIN calls
    BY CallIsTyped
  <2> QED BY <1>1, <1>4, <1>5, <2>1 DEF MutexInv
<1>7. EngineInv'
  BY <1>1, <1>4, <1>5 DEF EngineInv, OneEnginePerRegistry
<1> QED BY <1>3, <1>6, <1>7

\* The mutex keeps all others from building meanwhile.
LEMMA BuildEnginePreserves ==
  ASSUME DelegationInv, NEW i \in DOMAIN calls, BuildEngine(i) PROVE DelegationInv'
<1> USE DEF DelegationInv
<1> DEFINE g == RegistryOf[calls[i].want]
<1>1. /\ CallGoes(i, "building", "spawning")
      /\ UNCHANGED <<rest, seq, trace>>
      /\ mu' = 0 /\ engines' = engines \cup {g} /\ built' = [built EXCEPT ![g] = @ + 1]
  BY DEF BuildEngine
<1>2. /\ pc[Main] = "exec" /\ calls[i].at = "building" /\ DOMAIN calls' = DOMAIN calls
      /\ \A j \in DOMAIN calls : j # i => calls'[j] = calls[j]
      /\ calls'[i].at = "spawning" /\ calls'[i].want = calls[i].want
  BY <1>1, CallMoves DEF Places
<1>3. g \in Registries /\ g \notin engines
  BY <1>2 DEF EngineInv
<1>4. mu' \in 0..MaxCalls /\ engines' \subseteq Registries /\ built' \in [Registries -> Nat]
  <2>1. engines \subseteq Registries /\ built \in [Registries -> Nat]
    BY DEF TypeOK
  <2>2. built[g] + 1 \in Nat
    BY <1>3, <2>1
  <2> QED BY <1>1, <1>3, <2>1, <2>2
<1>5. TypeOK' /\ BusyInv' /\ Supply' /\ AnswerInv'
  BY <1>1, <1>4, MovePreserves DEF TypeOK, trace, Before, Places
<1>6. UNCHANGED <<pc, seq, role>>
  BY <1>1 DEF rest
<1>7. MutexInv'
  <2>1. 0 \notin DOMAIN calls
    BY CallIsTyped
  <2> QED BY <1>1, <1>2, <1>6, <2>1 DEF MutexInv
<1>8. EngineInv'
  <2>1. \A j \in DOMAIN calls : j # i => calls[j].at # "building"
    BY <1>2 DEF MutexInv
  <2>2. \A h \in Registries : built'[h] = IF h \in engines' THEN 1 ELSE 0
    BY <1>1, <1>3 DEF EngineInv, OneEnginePerRegistry, TypeOK
  <2>3. \A r \in 1..seq : RegistryOf[role[r]] \in engines'
    BY <1>1 DEF EngineInv, OneEnginePerRegistry
  <2>4. OneEnginePerRegistry'
    BY <1>6, <2>2, <2>3 DEF OneEnginePerRegistry
  <2> QED BY <1>1, <1>2, <1>6, <2>1, <2>4 DEF EngineInv
<1> QED BY <1>5, <1>7, <1>8

LEMMA SpawnPreserves ==
  ASSUME DelegationInv, NEW i \in DOMAIN calls, Spawn(i) PROVE DelegationInv'
<1> USE DEF DelegationInv
<1>1. /\ calls[i].at = "spawning" /\ pc[Main] = "exec" /\ seq' = seq + 1
      /\ calls' = [calls EXCEPT ![i].at = "running", ![i].sub = seq + 1]
      /\ role' = [role EXCEPT ![seq + 1] = calls[i].want]
      /\ UNCHANGED <<cancelled, left, turn, last, busy, mu, engines, built, exported>>
  BY DEF Spawn, Counted, engineVars
<1>2. /\ seq \in Nat /\ seq + 1 \in Runs \ {Main} /\ seq + 1 \in 0..MaxSubs
      /\ Cardinality(Pending) \in Nat
      /\ Cardinality(Pending \ {i}) = Cardinality(Pending) - 1
  <2>1. i \in Pending
    BY <1>1 DEF Pending, Before
  <2>2. IsFiniteSet(Pending) /\ Cardinality(Pending) \in Nat
    BY PendingIsFinite
  <2>3. Cardinality(Pending \ {i}) = Cardinality(Pending) - 1
        /\ Cardinality(Pending \ {i}) \in Nat
    BY <2>1, <2>2, FS_RemoveElement, FS_CardinalityType
  <2>4. seq \in Nat /\ seq + Cardinality(Pending) <= MaxSubs
    BY DEF Supply, TypeOK
  <2>5. seq + 1 <= MaxSubs
    BY <2>2, <2>3, <2>4
  <2> QED BY <2>2, <2>3, <2>4, <2>5 DEF Runs, Main
<1>3. PICK label \in Labels \ {"none"}, result \in {"none", "ok", "error"} :
        /\ pc' = [pc EXCEPT ![seq + 1] = label]
        /\ outcome' = [outcome EXCEPT ![seq + 1] = result]
  <2>1. outcome = [outcome EXCEPT ![seq + 1] = outcome[seq + 1]]
        /\ outcome[seq + 1] \in {"none", "ok", "error"}
    BY <1>2 DEF TypeOK
  <2> QED BY <1>1, <2>1 DEF Spawn, Goto, Finish, Labels
<1>4. /\ calls' \in Seq(CallRecords)
      /\ DOMAIN calls' = DOMAIN calls /\ Len(calls') = Len(calls)
      /\ \A j \in DOMAIN calls : j # i => calls'[j] = calls[j]
      /\ calls'[i].at = "running" /\ calls'[i].sub = seq + 1
      /\ calls'[i].want = calls[i].want /\ calls'[i].ok = calls[i].ok
  <2> DEFINE c == [calls[i] EXCEPT !.at = "running", !.sub = seq + 1]
  <2>1. calls[i] \in CallRecords
    BY CallIsTyped
  <2>2. c \in CallRecords /\ c.at = "running" /\ c.sub = seq + 1
        /\ c.want = calls[i].want /\ c.ok = calls[i].ok
    BY <1>2, <2>1 DEF CallRecords, Places
  <2>3. calls' = [calls EXCEPT ![i] = c]
    BY <1>1, CallIsTyped
  <2> HIDE DEF c
  <2> QED BY <2>2, <2>3, CallIsWritten
<1>5. calls[i].want \in Roles /\ RegistryOf[calls[i].want] \in engines
      /\ ~ calls[i].ok /\ calls[i].sub = 0
  BY <1>1 DEF EngineInv, AnswerInv, Before
<1>6. TypeOK'
  <2>1. pc' \in [Runs -> Labels] /\ outcome' \in [Runs -> {"none", "ok", "error"}]
        /\ role' \in [Runs -> Roles \cup {"none"}] /\ seq' \in 0..MaxSubs
    BY <1>1, <1>2, <1>3, <1>5 DEF TypeOK, Labels
  <2>2. links' \in [DOMAIN links' -> Runs]
    BY <1>1, <1>2 DEF Spawn, TypeOK
  <2>3. spans' \subseteq Spans
    <3>1. Span(Root(seq'), NoSpan) \in Spans
      BY <1>1, <1>2, SpanIsTyped DEF Root, SpanIds
    <3> QED BY <3>1 DEF Spawn, TypeOK
  <2>4. role'[Main] = "none"
    BY <1>1, <1>2, <1>3 DEF TypeOK, Main, Runs
  <2> QED BY <1>1, <1>4, <2>1, <2>2, <2>3, <2>4 DEF TypeOK, Labels, CallRecords, Places
<1>7. BusyInv'
  <2>1. seq + 1 \notin busy
    BY <1>2 DEF BusyInv, AnswerInv
  <2> QED BY <1>1, <1>2, <1>3, <2>1 DEF BusyInv, TypeOK
<1>8. Supply'
  <2>1. Pending' = Pending \ {i}
    BY <1>4 DEF Pending, Before
  <2> QED BY <1>1, <1>2, <1>4, <2>1 DEF Supply
<1>9. MutexInv'
  <2>1. pc'[Main] = "exec"
    BY <1>1, <1>2, <1>3 DEF TypeOK, Runs, Main
  <2> QED BY <1>1, <1>4, <2>1 DEF MutexInv
<1>10. EngineInv'
  <2>1. \A r \in 1..seq' : role'[r] = IF r = seq + 1 THEN calls[i].want ELSE role[r]
    <3>1. role \in [Runs -> Roles \cup {"none"}]
      BY DEF TypeOK
    <3>2. \A r \in 1..seq' : r \in Runs
      BY <1>1, <1>2 DEF Runs
    <3> QED BY <1>1, <3>1, <3>2
  <2>2. \A r \in 1..seq' : r # seq + 1 => r \in 1..seq
    BY <1>1, <1>2
  <2>3. OneEnginePerRegistry'
    BY <1>1, <1>5, <2>1, <2>2 DEF EngineInv, OneEnginePerRegistry
  <2> QED BY <1>1, <1>4, <1>5, <2>1, <2>2, <2>3 DEF EngineInv
<1>11. AnswerInv'
  <2>1. \A q \in Runs : q # seq + 1 =>
          pc'[q] = pc[q] /\ outcome'[q] = outcome[q] /\ role'[q] = role[q] /\ last'[q] = last[q]
    BY <1>1, <1>2, <1>3 DEF TypeOK
  <2>2. \A q \in Runs : q > seq' => pc'[q] = "none"
    BY <1>1, <1>2, <2>1 DEF AnswerInv, Runs
  <2>3. \A j \in DOMAIN calls : calls[j].sub # 0 =>
          calls[j].sub \in 1..seq /\ calls[j].sub \in Runs /\ calls[j].sub # seq + 1
    BY <1>2, CallIsTyped DEF AnswerInv, CallRecords
  <2>4. role'[seq + 1] = calls[i].want /\ seq + 1 \in 1..seq' /\ seq + 1 # 0
    <3>1. role \in [Runs -> Roles \cup {"none"}]
      BY DEF TypeOK
    <3>2. seq + 1 \in 1..seq' /\ seq + 1 # 0
      BY <1>1, <1>2
    <3> QED BY <1>1, <1>2, <3>1, <3>2
  <2>5. \A q \in 1..seq : q \in 1..seq'
    BY <1>1, <1>2
  <2>6. DelegationsTellTheTruth'
    <3>1. ASSUME NEW j \in DOMAIN calls, NEW k \in DOMAIN calls,
                 calls'[j].sub = calls'[k].sub, calls'[j].sub # 0
          PROVE  j = k
      <4>1. CASE j # i /\ k # i
        BY <1>4, <3>1, <4>1 DEF AnswerInv, DelegationsTellTheTruth
      <4>2. CASE j = i \/ k = i
        BY <1>4, <2>3, <3>1, <4>2
      <4> QED BY <4>1, <4>2
    <3>2. ASSUME NEW j \in DOMAIN calls, calls'[j].at \in {"back", "failed"}
          PROVE  /\ j # i
                 /\ calls[j].sub # 0 => pc'[calls[j].sub] = "over"
                                        /\ role'[calls[j].sub] = calls[j].want
                 /\ calls[j].ok <=> /\ calls[j].sub # 0 /\ outcome'[calls[j].sub] = "ok"
                                    /\ last'[calls[j].sub] = "text"
      <4>1. j # i /\ calls[j].at \in {"back", "failed"}
        BY <1>4, <3>2
      <4> QED BY <2>1, <2>3, <4>1 DEF AnswerInv, DelegationsTellTheTruth
    <3> QED BY <1>4, <3>1, <3>2 DEF DelegationsTellTheTruth
  <2>7. ASSUME NEW j \in DOMAIN calls
        PROVE  LET c == calls'[j] IN
               /\ c.at \in Before => c.sub = 0
               /\ c.at = "running" => c.sub # 0
               /\ c.sub # 0 => c.sub \in 1..seq' /\ role'[c.sub] = c.want
               /\ c.at \notin {"back", "failed"} => ~ c.ok
    <3>1. CASE j = i
      BY <1>4, <1>5, <2>4, <3>1 DEF Before
    <3>2. CASE j # i
      <4>1. calls'[j] = calls[j]
        BY <1>4, <3>2
      <4>2. calls[j].sub # 0 => calls[j].sub \in 1..seq'
                                /\ role'[calls[j].sub] = calls[j].want
        BY <2>1, <2>3, <2>5 DEF AnswerInv
      <4> QED BY <4>1, <4>2 DEF AnswerInv
    <3> QED BY <3>1, <3>2
  <2> QED BY <1>4, <2>2, <2>6, <2>7 DEF AnswerInv
<1> QED BY <1>6, <1>7, <1>8, <1>9, <1>10, <1>11

LEMMA ReturnPreserves ==
  ASSUME DelegationInv, NEW i \in DOMAIN calls, Return(i) PROVE DelegationInv'
<1> USE DEF DelegationInv
<1> DEFINE to == IF cancelled THEN "failed" ELSE "back"
           truth == Succeeded(calls[i].sub)
<1>1. /\ pc[Main] = "exec" /\ calls[i].at = "running" /\ pc[calls[i].sub] = "over"
      /\ calls' = [calls EXCEPT ![i].at = to, ![i].ok = truth]
      /\ spans' = Ended(spans, {ToolSpan(Main, i)})
      /\ UNCHANGED <<cancelled, left, pc, turn, last, outcome, role, busy, seq, mu,
                     engines, built, links, exported>>
  BY DEF Return, rest, engineVars
<1>2. /\ calls' \in Seq(CallRecords)
      /\ DOMAIN calls' = DOMAIN calls /\ Len(calls') = Len(calls)
      /\ \A j \in DOMAIN calls : j # i => calls'[j] = calls[j]
      /\ calls'[i].at = to /\ calls'[i].sub = calls[i].sub
      /\ calls'[i].want = calls[i].want /\ calls'[i].ok = truth
  <2> DEFINE c == [calls[i] EXCEPT !.at = to, !.ok = truth]
  <2>1. calls[i] \in CallRecords /\ to \in Places /\ truth \in BOOLEAN
    BY CallIsTyped DEF Places, Succeeded
  <2>2. c \in CallRecords /\ c.at = to /\ c.sub = calls[i].sub
        /\ c.want = calls[i].want /\ c.ok = truth
    <3> HIDE DEF to, truth
    <3> QED BY <2>1 DEF CallRecords
  <2>3. calls' = [calls EXCEPT ![i] = c]
    <3> HIDE DEF to, truth
    <3> QED BY <1>1, CallIsTyped
  <2> HIDE DEF c
  <2> QED BY <2>2, <2>3, CallIsWritten
<1>3. TypeOK'
  <2>1. spans' \subseteq Spans
    BY <1>1, EndedIsTyped DEF TypeOK
  <2> QED BY <1>1, <1>2, <2>1 DEF TypeOK, CallRecords, Places
<1>4. BusyInv'
  BY <1>1 DEF BusyInv
<1>5. Supply'
  <2>1. Pending' \subseteq Pending
    BY <1>2 DEF Pending, Before
  <2> QED BY <1>1, <1>2, <2>1, SupplyLasts
<1>6. MutexInv'
  BY <1>1, <1>2 DEF MutexInv
<1>7. EngineInv'
  BY <1>1, <1>2 DEF EngineInv, OneEnginePerRegistry
<1>8. AnswerInv'
  <2>1. calls[i].sub # 0 /\ role[calls[i].sub] = calls[i].want
    BY <1>1 DEF AnswerInv
  <2>2. \A j \in DOMAIN calls : calls'[j].sub = calls[j].sub /\ calls'[j].want = calls[j].want
    BY <1>2
  <2>3. \A j, k \in DOMAIN calls :
          calls'[j].sub = calls'[k].sub /\ calls'[j].sub # 0 => j = k
    BY <2>2 DEF AnswerInv, DelegationsTellTheTruth
  <2>4. ASSUME NEW j \in DOMAIN calls, calls'[j].at \in {"back", "failed"}
        PROVE  /\ calls'[j].sub # 0 => pc[calls'[j].sub] = "over"
                                       /\ role[calls'[j].sub] = calls'[j].want
               /\ calls'[j].ok <=> /\ calls'[j].sub # 0 /\ outcome[calls'[j].sub] = "ok"
                                   /\ last[calls'[j].sub] = "text"
    <3>1. CASE j = i
      BY <1>1, <1>2, <2>1, <3>1 DEF Succeeded
    <3>2. CASE j # i
      BY <1>2, <2>4, <3>2 DEF AnswerInv, DelegationsTellTheTruth
    <3> QED BY <3>1, <3>2
  <2>5. DelegationsTellTheTruth'
    BY <1>1, <1>2, <2>3, <2>4 DEF DelegationsTellTheTruth
  <2> QED BY <1>1, <1>2, <2>1, <2>5 DEF AnswerInv, Before
<1> QED BY <1>3, <1>4, <1>5, <1>6, <1>7, <1>8

-----------------------------------------------------------------------------
(* Steps of a batch. *)

LEMMA AskPreserves ==
  ASSUME DelegationInv, AskDelegations PROVE DelegationInv'
<1> USE DEF DelegationInv
<1>0. PICK n \in 1..MaxCalls : \E want \in [1..n -> Roles \cup {"invalid"}] :
        seq + n <= MaxSubs /\ calls' = [i \in 1..n |-> Call(want[i])]
  BY DEF AskDelegations
<1>1. PICK want \in [1..n -> Roles \cup {"invalid"}] :
        seq + n <= MaxSubs /\ calls' = [i \in 1..n |-> Call(want[i])]
  BY <1>0
<1>2. /\ pc[Main] = "act" /\ pc' = [pc EXCEPT ![Main] = "exec"]
      /\ last' = [last EXCEPT ![Main] = "calls"] /\ Observe
      /\ spans' = Ended(spans, {GenSpan(Main)})
      /\ UNCHANGED <<cancelled, seq, mu, engines, built, turn, outcome, role, busy,
                     links, exported>>
  BY DEF AskDelegations, Wrote, Goto, engineVars
<1>3. /\ DOMAIN calls' = 1..n /\ Len(calls') = n /\ calls' \in Seq(CallRecords)
      /\ \A i \in 1..n : calls'[i].at = "ready" /\ calls'[i].sub = 0 /\ ~ calls'[i].ok
  <2>1. \A i \in 1..n : Call(want[i]) \in CallRecords
    BY DEF Call, CallRecords, Places, Runs
  <2> QED BY <1>1, <2>1 DEF Call
<1>4. Main \in Runs
  BY DEF Main, Runs
<1>5. TypeOK'
  <2>1. left' \in Nat \cup {Unlimited}
    BY <1>2 DEF Observe, Unlimited, TypeOK
  <2>2. spans' \subseteq Spans
    BY <1>2, EndedIsTyped DEF TypeOK
  <2> QED BY <1>2, <1>3, <1>4, <2>1, <2>2 DEF TypeOK, CallRecords, Places
<1>6. BusyInv'
  BY <1>2 DEF BusyInv, TypeOK
<1>7. Supply'
  <2>1. Pending' = 1..n
    BY <1>3 DEF Pending, Before
  <2>2. Cardinality(1..n) = n
    BY FS_Interval
  <2> QED BY <1>1, <1>2, <1>3, <2>1, <2>2 DEF Supply
<1>8. MutexInv'
  <2>1. mu = 0
    BY <1>2 DEF MutexInv
  <2>2. pc'[Main] = "exec"
    BY <1>2, <1>4 DEF TypeOK
  <2> QED BY <1>2, <1>3, <2>1, <2>2 DEF MutexInv
<1>9. EngineInv'
  BY <1>2, <1>3 DEF EngineInv, OneEnginePerRegistry
<1>10. AnswerInv'
  <2>1. \A q \in Runs : q > seq => pc'[q] = "none"
    BY <1>2, <1>4 DEF AnswerInv, TypeOK
  <2>2. DelegationsTellTheTruth'
    BY <1>3 DEF DelegationsTellTheTruth
  <2> QED BY <1>2, <1>3, <2>1, <2>2 DEF AnswerInv
<1> QED BY <1>5, <1>6, <1>7, <1>8, <1>9, <1>10

LEMMA EndBatchPreserves ==
  ASSUME DelegationInv, EndBatch PROVE DelegationInv'
<1> USE DEF DelegationInv
<1>1. /\ pc[Main] = "exec" /\ \A i \in DOMAIN calls : calls[i].at \in {"back", "failed"}
      /\ spans' = Ended(spans, Deferred(Main))
      /\ UNCHANGED <<cancelled, left, seq, mu, engines, built, role, calls, busy,
                     links, exported>>
  BY DEF EndBatch, engineVars
<1>2. Main \in Runs
  BY DEF Main, Runs
<1>3. PICK label \in {"ending", "boundary"} :
        /\ pc' = [pc EXCEPT ![Main] = label]
        /\ outcome' \in [Runs -> {"none", "ok", "error"}] /\ last' \in [Runs -> Kinds]
        /\ turn' \in [Runs -> Nat]
        /\ \A q \in Runs \ {Main} : outcome'[q] = outcome[q] /\ last'[q] = last[q]
  <2>1. /\ turn \in [Runs -> Nat] /\ last \in [Runs -> Kinds]
        /\ outcome \in [Runs -> {"none", "ok", "error"}]
    BY DEF TypeOK, Kinds
  <2>2. CASE Finish(Main, "error") /\ UNCHANGED <<turn, last>>
    BY <1>2, <2>1, <2>2 DEF Finish, Goto
  <2>3. CASE NextTurn(Main)
    <3>1. turn' \in [Runs -> Nat]
      BY <1>2, <2>1, <2>3 DEF NextTurn
    <3> QED BY <1>2, <2>1, <2>3, <3>1 DEF NextTurn, Goto, Wrote, Kinds
  <2> QED BY <2>2, <2>3 DEF EndBatch
<1>4. TypeOK'
  <2>1. spans' \subseteq Spans
    BY <1>1, EndedIsTyped DEF TypeOK
  <2>2. pc' \in [Runs -> Labels]
    BY <1>2, <1>3 DEF TypeOK, Labels
  <2> QED BY <1>1, <1>3, <2>1, <2>2 DEF TypeOK, Labels, Kinds
<1>5. \A q \in Runs \ {Main} : pc'[q] = pc[q]
  BY <1>3 DEF TypeOK
<1>6. BusyInv'
  BY <1>1, <1>5 DEF BusyInv, TypeOK
<1>7. Supply'
  BY <1>1 DEF Supply, Pending
<1>8. MutexInv'
  BY <1>1 DEF MutexInv
<1>9. EngineInv'
  BY <1>1 DEF EngineInv, OneEnginePerRegistry
<1>10. AnswerInv'
  <2>1. \A i \in DOMAIN calls : calls[i].sub # 0 => calls[i].sub \in Runs \ {Main}
    BY CallIsTyped DEF CallRecords, Main
  <2>2. \A q \in Runs : q > seq => pc'[q] = "none"
    BY <1>5 DEF AnswerInv, TypeOK, Main
  <2>3. DelegationsTellTheTruth'
    BY <1>1, <1>3, <1>5, <2>1 DEF AnswerInv, DelegationsTellTheTruth
  <2> QED BY <1>1, <2>2, <2>3 DEF AnswerInv
<1> QED BY <1>4, <1>6, <1>7, <1>8, <1>9, <1>10

-----------------------------------------------------------------------------
LEMMA DelegationStep == DelegationInv /\ [Next]_vars => DelegationInv'
<1> SUFFICES ASSUME DelegationInv, [Next]_vars PROVE DelegationInv'
  OBVIOUS
<1>1. CASE \E r \in Runs : RunStep(r)
  BY <1>1, RunStepPreserves
<1>2. CASE AskDelegations
  BY <1>2, AskPreserves
<1>3. CASE EndBatch
  BY <1>3, EndBatchPreserves
<1>4. CASE \E i \in DOMAIN calls : CallStep(i)
  BY <1>4, EnterPreserves, RefusePreserves, EnterEnginesPreserves, FindEnginePreserves,
     MissEnginePreserves, BuildEnginePreserves, SpawnPreserves, ReturnPreserves DEF CallStep
<1>5. CASE Cancel \/ UNCHANGED vars
  <2>1. /\ cancelled' \in BOOLEAN
        /\ UNCHANGED <<left, seq, mu, engines, built, pc, turn, last, outcome, role, calls,
                       busy, spans, links, exported>>
    BY <1>5 DEF Cancel, vars, engineVars, trace, DelegationInv, TypeOK
  <2>2. TypeOK'
    BY <2>1 DEF DelegationInv, TypeOK
  <2> QED BY <2>1, <2>2 DEF DelegationInv, BusyInv, Supply, Pending, MutexInv, EngineInv,
             OneEnginePerRegistry, AnswerInv, DelegationsTellTheTruth
<1> QED BY <1>1, <1>2, <1>3, <1>4, <1>5 DEF Next, AllOver

LEMMA DelegationInvariant == Spec => []DelegationInv
  BY DelegationInit, DelegationStep, PTL DEF Spec

\* Runs, delegations, spans and ledger stay in their types, whatever number of
\* roles, registries and delegations there is.
THEOREM DelegationTyping == Spec => []TypeOK
<1>1. DelegationInv => TypeOK
  BY DEF DelegationInv
<1> QED BY <1>1, DelegationInvariant, PTL

\* The engine of a registry is built once, and before any run that needs it,
\* however many delegations start at the same time ( engineFor ).
THEOREM EnginesBuiltOnce == Spec => []OneEnginePerRegistry
<1>1. DelegationInv => OneEnginePerRegistry
  BY DEF DelegationInv, EngineInv
<1> QED BY <1>1, DelegationInvariant, PTL

\* A delegation answers what its own run, which is over, has come to
\* ( SubagentTool.Execute, RunSub, subConclusion ).
THEOREM TruthOfDelegations == Spec => []DelegationsTellTheTruth
<1>1. DelegationInv => DelegationsTellTheTruth
  BY DEF DelegationInv, AnswerInv
<1> QED BY <1>1, DelegationInvariant, PTL

-----------------------------------------------------------------------------
(* Trees of spans. *)

\* The delegations whose own span is open.
Going == {i \in DOMAIN calls : calls[i].at \notin {"ready", "back", "failed"}}

\* Which spans a run has open follows from where it is.
IsOpen(id) == LET r == id[1] IN
  \/ pc[r] \notin {"none", "over"} /\ id = Root(r)
  \/ pc[r] \in {"act", "final", "exec"} /\ id = TurnSpan(r)
  \/ pc[r] \in {"act", "final"} /\ id = GenSpan(r)
  \/ r = Main /\ pc[r] = "exec" /\ \E i \in Going : id = ToolSpan(r, i)
  \/ r \in busy /\ id = ToolSpan(r, 1)

OpenInv ==
  /\ \A s \in spans : ~ s.ended <=> IsOpen(s.id)
  /\ \A id \in SpanIds : IsOpen(id) => \E s \in spans : s.id = id

\* What a span hangs from.
Hangs(s) == LET r == s.id[1]  k == s.id[3] IN
  \/ s.id = Root(r) /\ s.parent = NoSpan
  \/ s.id = <<r, "turn", k, 0>> /\ s.parent = Root(r)
  \/ s.id = <<r, "llm.generate", k, 0>> /\ s.parent \in {<<r, "turn", k, 0>>, Root(r)}
  \/ s.id = <<r, "tool.execute", k, s.id[4]>> /\ s.parent = <<r, "turn", k, 0>>

\* Nothing hangs from the turn of a leaf that hangs from the root.
Apart(s, t) ==
  s.id[2] = "llm.generate" /\ s.parent = Root(s.id[1])
    => t.parent # <<s.id[1], "turn", s.id[3], 0>>

ShapeInv ==
  /\ \A s \in spans : Hangs(s)
  /\ \A s \in spans : s.parent # NoSpan => \E t \in spans : t.id = s.parent
  /\ \A s, t \in spans : Apart(s, t)

\* A run has no spans of what is still to come, and in a turn that may call
\* tools the leaf hangs from the turn.
Past(s) == LET r == s.id[1] IN
  /\ pc[r] # "none"
  /\ s.id[2] # "agent.run" =>
       s.id[3] <= turn[r] /\ (pc[r] = "boundary" => s.id[3] < turn[r])
  /\ s.id[2] = "tool.execute" /\ s.id[3] = turn[r] =>
       /\ pc[r] \notin {"act", "final"}
       /\ r # Main /\ pc[r] = "exec" => r \in busy
       /\ r = Main /\ pc[r] = "exec" =>
            s.id[4] \in DOMAIN calls /\ calls[s.id[4]].at # "ready"
  /\ s.id[2] = "llm.generate" /\ s.id[3] = turn[r] /\ pc[r] \in {"act", "exec"} =>
       s.parent = TurnSpan(r)

PastInv == \A s \in spans : Past(s)

\* Turn numbers are not used twice.
TurnInv ==
  /\ pc[Main] = "exec" => turn[Main] < TurnBound
  /\ \A r \in Runs \ {Main} : pc[r] \in {"act", "exec"} => turn[r] < TurnBound

TraceInv ==
  /\ OpenInv /\ ShapeInv /\ PastInv /\ TurnInv
  /\ \A r \in Runs : exported[r] = {}

\* Ended changes nothing but the flags.
LEMMA EndedSpans ==
  ASSUME NEW S \in SUBSET Spans, NEW ids
  PROVE  /\ \A s \in S : \E t \in Ended(S, ids) :
              t.id = s.id /\ t.parent = s.parent /\ (t.ended <=> s.ended \/ s.id \in ids)
         /\ \A t \in Ended(S, ids) : \E s \in S :
              t.id = s.id /\ t.parent = s.parent /\ (t.ended <=> s.ended \/ s.id \in ids)
<1> DEFINE flagged(s) == IF s.id \in ids THEN [s EXCEPT !.ended = TRUE] ELSE s
<1>1. ASSUME NEW s \in S
      PROVE  /\ flagged(s).id = s.id /\ flagged(s).parent = s.parent
             /\ flagged(s).ended <=> s.ended \/ s.id \in ids
  BY DEF Spans
<1>2. Ended(S, ids) = {flagged(s) : s \in S}
  BY DEF Ended
<1> HIDE DEF flagged
<1> QED BY <1>1, <1>2

LEMMA ShapeOfEnded ==
  ASSUME TypeOK, ShapeInv, NEW ids, spans' = Ended(spans, ids)
  PROVE  ShapeInv'
<1>1. spans \in SUBSET Spans
  BY DEF TypeOK
<1>2. /\ \A s \in spans : \E t \in spans' : t.id = s.id /\ t.parent = s.parent
      /\ \A t \in spans' : \E s \in spans : t.id = s.id /\ t.parent = s.parent
  BY <1>1, EndedSpans
<1>3. \A t \in spans' : Hangs(t)
  <2> SUFFICES ASSUME NEW t \in spans' PROVE Hangs(t)
    OBVIOUS
  <2>1. PICK s \in spans : t.id = s.id /\ t.parent = s.parent
    BY <1>2
  <2>2. Hangs(s)
    BY DEF ShapeInv
  <2> QED BY <2>1, <2>2 DEF Hangs
<1>4. ASSUME NEW t \in spans', t.parent # NoSpan PROVE \E u \in spans' : u.id = t.parent
  BY <1>2, <1>4 DEF ShapeInv
<1>5. ASSUME NEW t \in spans', NEW u \in spans' PROVE Apart(t, u)
  <2>1. PICK s \in spans : t.id = s.id /\ t.parent = s.parent
    BY <1>2
  <2>2. PICK v \in spans : u.id = v.id /\ u.parent = v.parent
    BY <1>2
  <2>3. Apart(s, v)
    BY DEF ShapeInv
  <2> QED BY <2>1, <2>2, <2>3 DEF Apart
<1> QED BY <1>3, <1>4, <1>5 DEF ShapeInv, Hangs, Apart, Root

LEMMA ShapeOfAdded ==
  ASSUME ShapeInv, NEW N, spans' = spans \cup N,
         \A x \in N : Hangs(x) /\ (x.parent # NoSpan => \E t \in spans \cup N : t.id = x.parent),
         \A x \in N, t \in spans \cup N : Apart(x, t) /\ Apart(t, x)
  PROVE  ShapeInv'
<1>1. \A s \in spans' : Hangs(s)
  BY DEF ShapeInv
<1>2. \A s \in spans' : s.parent # NoSpan => \E t \in spans' : t.id = s.parent
  BY DEF ShapeInv
<1>3. \A s, t \in spans' : Apart(s, t)
  BY DEF ShapeInv
<1> QED BY <1>1, <1>2, <1>3 DEF ShapeInv, Hangs, Apart, Root

LEMMA OpenOfEnded ==
  ASSUME TypeOK, OpenInv, NEW ids, spans' = Ended(spans, ids),
         \A id \in SpanIds : IsOpen(id)' <=> IsOpen(id) /\ id \notin ids
  PROVE  OpenInv'
<1>1. spans \in SUBSET Spans /\ \A s \in spans : s.id \in SpanIds
  BY DEF TypeOK, Spans
<1>2. /\ \A s \in spans : \E t \in spans' : t.id = s.id
      /\ \A t \in spans' : \E s \in spans : t.id = s.id /\ (t.ended <=> s.ended \/ s.id \in ids)
  BY <1>1, EndedSpans
<1>3. ASSUME NEW t \in spans' PROVE ~ t.ended <=> IsOpen(t.id)'
  <2>1. PICK s \in spans : t.id = s.id /\ (t.ended <=> s.ended \/ s.id \in ids)
    BY <1>2
  <2>2. IsOpen(s.id)' <=> IsOpen(s.id) /\ s.id \notin ids
    BY <1>1
  <2>3. ~ s.ended <=> IsOpen(s.id)
    BY DEF OpenInv
  <2> HIDE DEF IsOpen
  <2>4. IsOpen(t.id)' <=> IsOpen(s.id)'
    BY <2>1 DEF IsOpen
  <2> QED BY <2>1, <2>2, <2>3, <2>4
<1>4. ASSUME NEW id \in SpanIds, IsOpen(id)' PROVE \E t \in spans' : t.id = id
  BY <1>2, <1>4 DEF OpenInv
<1> QED BY <1>3, <1>4 DEF OpenInv

LEMMA OpenOfAdded ==
  ASSUME TypeOK, OpenInv, NEW N \in SUBSET Spans, spans' = spans \cup N,
         \A x \in N : ~ x.ended /\ \A s \in spans : s.id # x.id,
         \A id \in SpanIds : IsOpen(id)' <=> IsOpen(id) \/ \E x \in N : id = x.id
  PROVE  OpenInv'
<1>1. \A s \in spans \cup N : s.id \in SpanIds
  BY DEF TypeOK, Spans
<1>2. ASSUME NEW s \in spans' PROVE ~ s.ended <=> IsOpen(s.id)'
  <2>1. CASE s \in spans
    BY <1>1, <2>1 DEF OpenInv
  <2>2. CASE s \in N
    BY <1>1, <2>2
  <2> QED BY <2>1, <2>2
<1>3. ASSUME NEW id \in SpanIds, IsOpen(id)' PROVE \E s \in spans' : s.id = id
  BY <1>3 DEF OpenInv
<1> QED BY <1>2, <1>3 DEF OpenInv

\* What the invariant says of the trees is what is promised of them.
LEMMA TraceInvIsEnough ==
  ASSUME TypeOK, BusyInv, TraceInv
  PROVE  TracesAreWhole
<1>0. /\ \A s \in spans : s.id \in SpanIds
      /\ \A r \in Runs : Root(r) = <<r, "agent.run", 0, 0>>
  BY DEF TypeOK, Spans, Root
<1>1. ASSUME NEW r \in Runs
      PROVE  exported[r] = {} /\ (pc[r] \in {"none", "over"} => Open(SpansOf(r)) = {})
  <2>1. ASSUME pc[r] \in {"none", "over"}, NEW s \in spans, s.id[1] = r PROVE s.ended
    <3>1. ~ IsOpen(s.id)
      BY <2>1 DEF IsOpen, BusyInv
    <3> QED BY <3>1 DEF TraceInv, OpenInv
  <2> QED BY <2>1 DEF TraceInv, Open, SpansOf
<1>2. ASSUME NEW s \in spans, NEW t \in spans, t.parent = s.id, ~ t.ended
      PROVE  ~ s.ended
  <2> DEFINE r == t.id[1]
  <2>1. IsOpen(t.id) /\ Hangs(t)
    BY <1>2 DEF TraceInv, OpenInv, ShapeInv
  <2>2. r \in Runs /\ s.id # NoSpan
    <3>1. t.id \in SpanIds /\ Hangs(s)
      BY <1>0 DEF TraceInv, ShapeInv
    <3>2. t.id[1] \in Runs
      BY <3>1 DEF SpanIds
    <3>3. s.id # NoSpan
      BY <3>1 DEF Hangs, Root, NoSpan
    <3> QED BY <3>2, <3>3
  <2>3. s.id = Root(r) \/ s.id = <<r, "turn", t.id[3], 0>>
    BY <1>2, <2>1, <2>2 DEF Hangs
  <2>4. pc[r] \notin {"none", "over"}
    BY <2>1 DEF IsOpen, BusyInv
  <2>5. CASE s.id = Root(r)
    <3>1. s.id[1] = r
      BY <2>5 DEF Root
    <3>2. IsOpen(s.id)
      BY <2>4, <2>5, <3>1 DEF IsOpen
    <3> QED BY <3>2 DEF TraceInv, OpenInv
  <2>6. CASE s.id = <<r, "turn", t.id[3], 0>>
    <3>1. t.id[2] \in {"llm.generate", "tool.execute"}
      BY <1>2, <2>1, <2>6 DEF Hangs, Root, NoSpan
    <3>2. t.id[3] = turn[r] /\ pc[r] \in {"act", "final", "exec"}
      BY <2>1, <3>1 DEF IsOpen, Root, TurnSpan, GenSpan, ToolSpan, BusyInv
    <3>3. s.id[1] = r /\ s.id = TurnSpan(r)
      BY <2>6, <3>2 DEF TurnSpan
    <3>4. IsOpen(s.id)
      BY <3>2, <3>3 DEF IsOpen
    <3> QED BY <3>4 DEF TraceInv, OpenInv
  <2> QED BY <2>3, <2>5, <2>6
<1>3. ASSUME NEW s \in spans
      PROVE  /\ s.parent # NoSpan => \E t \in spans : t.id = s.parent
             /\ s.id[2] \in {"llm.generate", "tool.execute"} =>
                  \/ s.parent = <<s.id[1], "turn", s.id[3], 0>>
                  \/ s.parent = Root(s.id[1]) /\ s.id[2] = "llm.generate"
                     /\ ~ \E t \in spans : t.parent = <<s.id[1], "turn", s.id[3], 0>>
  <2>1. Hangs(s) /\ \A t \in spans : Apart(s, t)
    BY DEF TraceInv, ShapeInv
  <2>2. s.id[2] \in {"llm.generate", "tool.execute"} =>
          \/ s.parent = <<s.id[1], "turn", s.id[3], 0>>
          \/ s.parent = Root(s.id[1]) /\ s.id[2] = "llm.generate"
    BY <2>1 DEF Hangs, Root
  <2> QED BY <2>1, <2>2 DEF Apart, TraceInv, ShapeInv
<1> QED BY <1>1, <1>2, <1>3 DEF TracesAreWhole

-----------------------------------------------------------------------------
(* What a step has to show of the trees it changes. *)

LEMMA IdIsTyped ==
  ASSUME NEW id \in SpanIds
  PROVE  /\ id = <<id[1], id[2], id[3], id[4]>>
         /\ id[1] \in Runs /\ id[3] \in Nat /\ id[4] \in Nat
         /\ id[2] \in {"agent.run", "turn", "llm.generate", "tool.execute"}
  BY DEF SpanIds

LEMMA TraceOfEnded ==
  ASSUME TypeOK, TraceInv, NEW ids, spans' = Ended(spans, ids),
         \A id \in SpanIds : IsOpen(id)' <=> IsOpen(id) /\ id \notin ids,
         \A s \in spans : Past(s)', TurnInv', \A r \in Runs : exported'[r] = {}
  PROVE  TraceInv'
<1>1. OpenInv'
  BY OpenOfEnded DEF TraceInv
<1>2. ShapeInv'
  BY ShapeOfEnded DEF TraceInv
<1>3. PastInv'
  <2> SUFFICES ASSUME NEW t \in spans' PROVE Past(t)'
    BY DEF PastInv, Past, TurnSpan
  <2>0. spans \in SUBSET Spans
    BY DEF TypeOK
  <2>1. PICK s \in spans : t.id = s.id /\ t.parent = s.parent
    BY <2>0, EndedSpans
  <2>2. Past(s)'
    OBVIOUS
  <2> QED BY <2>1, <2>2 DEF Past
<1> QED BY <1>1, <1>2, <1>3 DEF TraceInv

LEMMA TraceOfAdded ==
  ASSUME TypeOK, TraceInv, NEW N \in SUBSET Spans, spans' = spans \cup N,
         \A x \in N : ~ x.ended /\ \A s \in spans : s.id # x.id,
         \A id \in SpanIds : IsOpen(id)' <=> IsOpen(id) \/ \E x \in N : id = x.id,
         \A x \in N : Hangs(x) /\ (x.parent # NoSpan => \E t \in spans \cup N : t.id = x.parent),
         \A x \in N, t \in spans \cup N : Apart(x, t) /\ Apart(t, x),
         \A s \in spans \cup N : Past(s)', TurnInv', \A r \in Runs : exported'[r] = {}
  PROVE  TraceInv'
<1>1. OpenInv'
  BY OpenOfAdded DEF TraceInv
<1>2. ShapeInv'
  BY ShapeOfAdded DEF TraceInv
<1>3. PastInv'
  <2> SUFFICES ASSUME NEW t \in spans' PROVE Past(t)'
    BY DEF PastInv, Past, TurnSpan
  <2> QED OBVIOUS
<1> QED BY <1>1, <1>2, <1>3 DEF TraceInv

LEMMA TraceOfNone ==
  ASSUME TypeOK, TraceInv, spans' = spans,
         \A id \in SpanIds : IsOpen(id)' <=> IsOpen(id),
         \A s \in spans : Past(s)', TurnInv', \A r \in Runs : exported'[r] = {}
  PROVE  TraceInv'
<1>1. \A s \in spans : s.id \in SpanIds
  BY DEF TypeOK, Spans
<1>2. OpenInv'
  <2>1. \A s \in spans : ~ s.ended <=> IsOpen(s.id)'
    BY <1>1 DEF TraceInv, OpenInv
  <2>2. \A id \in SpanIds : IsOpen(id)' => \E s \in spans : s.id = id
    BY DEF TraceInv, OpenInv
  <2> QED BY <2>1, <2>2 DEF OpenInv
<1>3. ShapeInv'
  BY DEF TraceInv, ShapeInv, Hangs, Apart, Root
<1>4. PastInv'
  <2> SUFFICES ASSUME NEW t \in spans' PROVE Past(t)'
    BY DEF PastInv, Past, TurnSpan
  <2> QED OBVIOUS
<1> QED BY <1>2, <1>3, <1>4 DEF TraceInv

\* A run that goes has its root, and an open turn its span.
LEMMA OpenParents ==
  ASSUME TypeOK, TraceInv, NEW r \in Runs
  PROVE  /\ pc[r] \notin {"none", "over"} => \E s \in spans : s.id = Root(r)
         /\ pc[r] \in {"act", "final", "exec"} => \E s \in spans : s.id = TurnSpan(r)
<1>1. Root(r) \in SpanIds /\ Root(r)[1] = r /\ TurnSpan(r) \in SpanIds /\ TurnSpan(r)[1] = r
  <2>1. 1 \in Nat
    OBVIOUS
  <2> QED BY <2>1, IdsAreTyped DEF Root, TurnSpan
<1>2. pc[r] \notin {"none", "over"} => IsOpen(Root(r))
  BY <1>1 DEF IsOpen
<1>3. pc[r] \in {"act", "final", "exec"} => IsOpen(TurnSpan(r))
  BY <1>1 DEF IsOpen
<1> QED BY <1>1, <1>2, <1>3 DEF TraceInv, OpenInv

LEMMA TraceInit == Init => TraceInv
<1> SUFFICES ASSUME Init PROVE TraceInv
  OBVIOUS
<1>1. DelegationInv
  BY DelegationInit
<1>2. /\ spans = {Span(Root(Main), NoSpan)} /\ calls = <<>> /\ busy = {}
      /\ pc = [r \in Runs |-> IF r = Main THEN "boundary" ELSE "none"]
      /\ turn = [r \in Runs |-> 1] /\ Main \in Runs /\ exported = [r \in Runs |-> {}]
  BY DEF Init, Main, Runs
<1>3. /\ Span(Root(Main), NoSpan).id = <<Main, "agent.run", 0, 0>>
      /\ Span(Root(Main), NoSpan).parent = NoSpan /\ ~ Span(Root(Main), NoSpan).ended
  BY DEF Span, Root
<1>4. \A id \in SpanIds : IsOpen(id) <=> id = <<Main, "agent.run", 0, 0>>
  <2> SUFFICES ASSUME NEW id \in SpanIds
               PROVE  IsOpen(id) <=> id = <<Main, "agent.run", 0, 0>>
    OBVIOUS
  <2>1. id[1] \in Runs
    BY IdIsTyped
  <2> QED BY <1>2, <2>1 DEF IsOpen, Root
<1>5. OpenInv
  <2>1. <<Main, "agent.run", 0, 0>> \in SpanIds
    BY <1>2 DEF SpanIds
  <2> QED BY <1>2, <1>3, <1>4, <2>1 DEF OpenInv
<1>6. ShapeInv
  <2>1. ASSUME NEW s \in spans PROVE Hangs(s)
    <3>1. s.id = <<Main, "agent.run", 0, 0>> /\ s.parent = NoSpan
      BY <1>2, <1>3
    <3>2. s.id[1] = Main
      BY <3>1
    <3> QED BY <3>1, <3>2 DEF Hangs, Root
  <2>2. \A s, t \in spans : Apart(s, t)
    BY <1>2, <1>3 DEF Apart
  <2> QED BY <1>2, <1>3, <2>1, <2>2 DEF ShapeInv
<1>7. PastInv
  BY <1>2, <1>3 DEF PastInv, Past
<1>8. TurnInv
  BY <1>2 DEF TurnInv
<1> QED BY <1>2, <1>5, <1>6, <1>7, <1>8 DEF TraceInv

-----------------------------------------------------------------------------
(* Steps of a run. *)

\* Either kind of turn begins.
LEMMA TraceOfTurn ==
  ASSUME DelegationInv, TraceInv, NEW r \in Runs, pc[r] = "boundary",
         NEW label \in {"act", "final"}, NEW p \in {Root(r), TurnSpan(r)},
         label = "act" => p = TurnSpan(r) /\ ~ Forced(r),
         spans' = spans \cup {Span(TurnSpan(r), Root(r)), Span(GenSpan(r), p)},
         pc' = [pc EXCEPT ![r] = label],
         UNCHANGED <<turn, role, calls, busy, exported>>
  PROVE  TraceInv'
<1>0. TypeOK /\ BusyInv
  BY DEF DelegationInv
<1>a. PICK a, b : a = Span(TurnSpan(r), Root(r)) /\ b = Span(GenSpan(r), p)
  OBVIOUS
<1>1. /\ pc[r] = "boundary" /\ spans' = spans \cup {a, b}
      /\ UNCHANGED <<turn, role, calls, busy, exported>>
  BY <1>a
<1>2. /\ a.id = TurnSpan(r) /\ a.parent = Root(r) /\ ~ a.ended
      /\ b.id = GenSpan(r) /\ b.parent = p /\ ~ b.ended
      /\ a \in Spans /\ b \in Spans
  <2>1. 1 \in Nat
    OBVIOUS
  <2> QED BY <1>a, <1>0, <2>1, IdsAreTyped, SpanIsTyped DEF Span
<1>3. turn[r] \in Nat /\ pc'[r] = label /\ r \notin busy
      /\ \A q \in Runs : q # r => pc'[q] = pc[q]
  BY <1>0, <1>1 DEF TypeOK, BusyInv
<1>4. \A s \in spans : s.id \in SpanIds /\ Past(s)
  BY <1>0 DEF TypeOK, Spans, TraceInv, PastInv
<1>5. \A x \in {a, b} : ~ x.ended /\ \A s \in spans : s.id # x.id
  BY <1>1, <1>2, <1>3, <1>4 DEF Past, TurnSpan, GenSpan
<1>6. \A id \in SpanIds : IsOpen(id)' <=> IsOpen(id) \/ \E x \in {a, b} : id = x.id
  <2> SUFFICES ASSUME NEW id \in SpanIds
               PROVE  IsOpen(id)' <=> IsOpen(id) \/ id = a.id \/ id = b.id
    OBVIOUS
  <2>1. id[1] \in Runs
    BY IdIsTyped
  <2>2. CASE id[1] = r
    BY <1>1, <1>2, <1>3, <2>2 DEF IsOpen, Root, TurnSpan, GenSpan, ToolSpan
  <2>3. CASE id[1] # r
    <3>1. id # a.id /\ id # b.id
      BY <1>2, <2>3 DEF TurnSpan, GenSpan
    <3> QED BY <1>1, <1>3, <2>1, <2>3, <3>1
            DEF IsOpen, Root, TurnSpan, GenSpan, ToolSpan, Going
  <2> QED BY <2>2, <2>3
<1>7. \A x \in {a, b} : Hangs(x) /\ \E t \in spans \cup {a, b} : t.id = x.parent
  <2>1. Hangs(a) /\ Hangs(b)
    BY <1>2 DEF Hangs, TurnSpan, GenSpan
  <2>2. \E s \in spans : s.id = Root(r)
    BY <1>0, <1>1, OpenParents
  <2> QED BY <1>2, <2>1, <2>2
<1>8. \A x \in {a, b}, t \in spans \cup {a, b} : Apart(x, t) /\ Apart(t, x)
  <2>1. ASSUME NEW t \in spans PROVE Apart(a, t) /\ Apart(t, a) /\ Apart(b, t) /\ Apart(t, b)
    <3>1. t.id[2] = "llm.generate" /\ t.id[1] = r => t.id[3] # turn[r]
      BY <1>1, <1>3, <1>4 DEF Past
    <3>2. t.parent # TurnSpan(r)
      <4>1. \A u \in spans : u.id # TurnSpan(r)
        BY <1>2, <1>5
      <4>2. TurnSpan(r) # NoSpan
        BY DEF TurnSpan, NoSpan
      <4> QED BY <4>1, <4>2 DEF TraceInv, ShapeInv
    <3> QED BY <1>2, <3>1, <3>2 DEF Apart, TurnSpan, GenSpan, Root
  <2>2. Apart(a, a) /\ Apart(a, b) /\ Apart(b, a) /\ Apart(b, b)
    BY <1>2 DEF Apart, TurnSpan, GenSpan, Root
  <2> QED BY <2>1, <2>2
<1>9. \A s \in spans \cup {a, b} : Past(s)'
  <2>1. Past(a)' /\ Past(b)'
    BY <1>1, <1>2, <1>3 DEF Past, TurnSpan, GenSpan
  <2>2. ASSUME NEW s \in spans PROVE Past(s)'
    <3>1. s.id[1] \in Runs
      BY <1>4, IdIsTyped
    <3>2. CASE s.id[1] = r
      BY <1>1, <1>3, <1>4, <3>2, IdIsTyped DEF Past
    <3>3. CASE s.id[1] # r
      BY <1>1, <1>3, <1>4, <3>1, <3>3 DEF Past, TurnSpan
    <3> QED BY <3>2, <3>3
  <2> QED BY <2>1, <2>2
<1>10. TurnInv'
  <2>1. ASSUME r # Main, label = "act" PROVE turn[r] < TurnBound
    <3>1. r \in 1..seq /\ role[r] \in Roles
      <4>1. seq \in Nat /\ r \in Nat \ {0} /\ (r > seq => pc[r] = "none")
        BY <1>0, <2>1 DEF DelegationInv, AnswerInv, Runs, Main, TypeOK
      <4> QED BY <1>1, <4>1 DEF DelegationInv, EngineInv
    <3>2. Budget(r) \in Nat /\ Budget(r) > 0 /\ Budget(r) < TurnBound
      BY <2>1, <3>1 DEF Budget
    <3> QED BY <1>3, <2>1, <3>2 DEF Forced
  <2>2. Main \in Runs
    BY DEF Main, Runs
  <2> QED BY <1>1, <1>3, <2>1, <2>2 DEF TraceInv, TurnInv
<1>11. {a, b} \in SUBSET Spans /\ \A q \in Runs : exported'[q] = {}
  BY <1>1, <1>2 DEF TraceInv
<1> QED
  <2>1. PICK N \in SUBSET Spans : N = {a, b}
    BY <1>11
  <2>2. spans' = spans \cup N /\ \A x \in N : ~ x.ended /\ \A s \in spans : s.id # x.id
    BY <1>1, <1>5, <2>1
  <2>3. \A id \in SpanIds : IsOpen(id)' <=> IsOpen(id) \/ \E x \in N : id = x.id
    BY <1>6, <2>1
  <2>4. \A x \in N : Hangs(x) /\ (x.parent # NoSpan => \E t \in spans \cup N : t.id = x.parent)
    BY <1>7, <2>1
  <2>5. \A x \in N, t \in spans \cup N : Apart(x, t) /\ Apart(t, x)
    BY <1>8, <2>1
  <2>6. \A s \in spans \cup N : Past(s)'
    BY <1>9, <2>1
  <2> QED BY <1>0, <1>10, <1>11, <2>2, <2>3, <2>4, <2>5, <2>6, TraceOfAdded

LEMMA TraceOfOne ==
  ASSUME TypeOK, TraceInv, NEW x \in Spans, spans' = spans \cup {x}, ~ x.ended,
         \A s \in spans : s.id # x.id,
         \A id \in SpanIds : IsOpen(id)' <=> IsOpen(id) \/ id = x.id,
         Hangs(x), x.parent # NoSpan => \E t \in spans : t.id = x.parent,
         x.id[2] # "llm.generate",
         \A t \in spans : Apart(t, x),
         \A s \in spans \cup {x} : Past(s)', TurnInv', \A r \in Runs : exported'[r] = {}
  PROVE  TraceInv'
<1>1. PICK N \in SUBSET Spans : N = {x}
  OBVIOUS
<1>2. spans' = spans \cup N /\ \A y \in N : ~ y.ended /\ \A s \in spans : s.id # y.id
  BY <1>1
<1>3. \A id \in SpanIds : IsOpen(id)' <=> IsOpen(id) \/ \E y \in N : id = y.id
  BY <1>1
<1>4. \A y \in N : Hangs(y) /\ (y.parent # NoSpan => \E t \in spans \cup N : t.id = y.parent)
  BY <1>1
<1>5. \A y \in N, t \in spans \cup N : Apart(y, t) /\ Apart(t, y)
  <2>1. \A t : Apart(x, t)
    BY DEF Apart
  <2> QED BY <1>1, <2>1
<1>6. \A s \in spans \cup N : Past(s)'
  BY <1>1
<1> QED BY <1>2, <1>3, <1>4, <1>5, <1>6, TraceOfAdded

LEMMA TraceOfBegun ==
  ASSUME DelegationInv, TraceInv, NEW r \in Runs, BeginTurn(r) \/ ForceFinal(r)
  PROVE  TraceInv'
<1>1. CASE BeginTurn(r)
  <2>1. /\ pc[r] = "boundary" /\ ~ Forced(r) /\ pc' = [pc EXCEPT ![r] = "act"]
        /\ spans' = spans \cup {Span(TurnSpan(r), Root(r)), Span(GenSpan(r), TurnSpan(r))}
        /\ UNCHANGED <<turn, role, calls, busy, exported>>
    BY <1>1 DEF BeginTurn, Goto
  <2> QED BY <2>1, TraceOfTurn
<1>2. CASE ForceFinal(r)
  <2>1. /\ pc[r] = "boundary" /\ pc' = [pc EXCEPT ![r] = "final"]
        /\ spans' = spans \cup {Span(TurnSpan(r), Root(r)), Span(GenSpan(r), Root(r))}
        /\ UNCHANGED <<turn, role, calls, busy, exported>>
    BY <1>2 DEF ForceFinal, Goto
  <2> QED BY <2>1, TraceOfTurn
<1> QED BY <1>1, <1>2

\* A model call of a run fails, or the run is over.
LEMMA TraceOfFinished ==
  ASSUME DelegationInv, TraceInv, NEW r \in Runs,
         pc' = [pc EXCEPT ![r] = "ending"],
         UNCHANGED <<turn, calls, exported>>,
         NEW ids, spans' = Ended(spans, ids),
         \/ pc[r] = "boundary" /\ ids = {} /\ busy' = busy
         \/ pc[r] \in {"act", "final"} /\ ids = {GenSpan(r), TurnSpan(r)} /\ busy' = busy
         \/ pc[r] = "exec" /\ r # Main /\ r \notin busy /\ ids = {TurnSpan(r)} /\ busy' = busy
         \/ pc[r] = "exec" /\ r \in busy /\ ids = {ToolSpan(r, 1), TurnSpan(r)}
            /\ busy' = busy \ {r}
         \/ pc[r] = "exec" /\ r = Main /\ ids = {TurnSpan(r)} /\ busy' = busy /\ Going = {}
  PROVE  TraceInv'
<1>0. TypeOK /\ BusyInv
  BY DEF DelegationInv
<1>1. /\ turn' = turn /\ calls' = calls /\ turn[r] \in Nat
      /\ pc'[r] = "ending" /\ \A q \in Runs : q # r => pc'[q] = pc[q]
      /\ r \notin busy' /\ \A q : q # r => (q \in busy' <=> q \in busy)
  BY <1>0 DEF TypeOK, BusyInv
<1>2. \A s \in spans : s.id \in SpanIds /\ Past(s)
  BY <1>0 DEF TypeOK, Spans, TraceInv, PastInv
<1>3. ASSUME NEW id \in SpanIds PROVE IsOpen(id)' <=> IsOpen(id) /\ id \notin ids
  <2>1. id[1] \in Runs
    BY IdIsTyped
  <2>2. CASE id[1] = r
    <3>1. IsOpen(id)' <=> id = Root(r)
      BY <1>1, <2>2 DEF IsOpen, Root
    <3>2. Root(r) # TurnSpan(r) /\ Root(r) # GenSpan(r) /\ Root(r) # ToolSpan(r, 1)
      BY DEF Root, TurnSpan, GenSpan, ToolSpan
    <3>3. IsOpen(id) /\ id \notin ids <=> id = Root(r)
      BY <1>0, <2>2, <3>2 DEF IsOpen, BusyInv
    <3> QED BY <3>1, <3>3
  <2>3. CASE id[1] # r
    <3>1. id \notin ids
      BY <2>3 DEF TurnSpan, GenSpan, ToolSpan
    <3> QED BY <1>1, <2>1, <2>3, <3>1 DEF IsOpen, Root, TurnSpan, GenSpan, ToolSpan, Going
  <2> QED BY <2>2, <2>3
<1>4. ASSUME NEW s \in spans PROVE Past(s)'
  <2>1. s.id[1] \in Runs
    BY <1>2, IdIsTyped
  <2>2. CASE s.id[1] = r
    BY <1>1, <1>2, <2>2 DEF Past
  <2>3. CASE s.id[1] # r
    BY <1>1, <1>2, <2>1, <2>3 DEF Past, TurnSpan
  <2> QED BY <2>2, <2>3
<1>5. TurnInv'
  <2>1. Main \in Runs
    BY DEF Main, Runs
  <2> QED BY <1>1, <2>1 DEF TraceInv, TurnInv
<1>6. \A q \in Runs : exported'[q] = {}
  BY DEF TraceInv
<1> QED BY <1>0, <1>3, <1>4, <1>5, <1>6, TraceOfEnded

\* The tools of a turn are done and the next turn comes.
LEMMA TraceOfNextTurn ==
  ASSUME DelegationInv, TraceInv, NEW r \in Runs, pc[r] = "exec", NextTurn(r),
         UNCHANGED <<calls, exported>>,
         NEW ids, spans' = Ended(spans, ids),
         \/ r # Main /\ r \in busy /\ ids = {ToolSpan(r, 1), TurnSpan(r)} /\ busy' = busy \ {r}
         \/ r = Main /\ ids = {TurnSpan(r)} /\ busy' = busy /\ Going = {}
  PROVE  TraceInv'
<1>0. TypeOK /\ BusyInv
  BY DEF DelegationInv
<1>1. turn[r] < TurnBound /\ turn[r] \in Nat
  BY <1>0 DEF TraceInv, TurnInv, TypeOK
<1>2. /\ pc' = [pc EXCEPT ![r] = "boundary"] /\ turn' = [turn EXCEPT ![r] = turn[r] + 1]
      /\ calls' = calls
  BY <1>1 DEF NextTurn, Goto
<1>3. /\ pc'[r] = "boundary" /\ turn'[r] = turn[r] + 1
      /\ \A q \in Runs : q # r => pc'[q] = pc[q] /\ turn'[q] = turn[q]
      /\ r \notin busy' /\ \A q : q # r => (q \in busy' <=> q \in busy)
  BY <1>0, <1>2 DEF TypeOK, BusyInv
<1>4. \A s \in spans : s.id \in SpanIds /\ Past(s)
  BY <1>0 DEF TypeOK, Spans, TraceInv, PastInv
<1>5. ASSUME NEW id \in SpanIds PROVE IsOpen(id)' <=> IsOpen(id) /\ id \notin ids
  <2>1. id[1] \in Runs
    BY IdIsTyped
  <2>2. CASE id[1] = r
    <3>1. IsOpen(id)' <=> id = Root(r)
      BY <1>3, <2>2 DEF IsOpen, Root
    <3>2. Root(r) # TurnSpan(r) /\ Root(r) # ToolSpan(r, 1)
      BY DEF Root, TurnSpan, ToolSpan
    <3>3. IsOpen(id) /\ id \notin ids <=> id = Root(r)
      BY <1>0, <2>2, <3>2 DEF IsOpen, BusyInv
    <3> QED BY <3>1, <3>3
  <2>3. CASE id[1] # r
    <3>1. id \notin ids
      BY <2>3 DEF TurnSpan, ToolSpan
    <3> QED BY <1>2, <1>3, <2>1, <2>3, <3>1
            DEF IsOpen, Root, TurnSpan, GenSpan, ToolSpan, Going
  <2> QED BY <2>2, <2>3
<1>6. ASSUME NEW s \in spans PROVE Past(s)'
  <2>1. s.id[1] \in Runs /\ s.id[3] \in Nat
    BY <1>4, IdIsTyped
  <2>2. CASE s.id[1] = r
    BY <1>1, <1>3, <1>4, <2>1, <2>2 DEF Past
  <2>3. CASE s.id[1] # r
    BY <1>2, <1>3, <1>4, <2>1, <2>3 DEF Past, TurnSpan
  <2> QED BY <2>2, <2>3
<1>7. TurnInv'
  <2>1. Main \in Runs
    BY DEF Main, Runs
  <2> QED BY <1>3, <2>1 DEF TraceInv, TurnInv
<1>8. \A q \in Runs : exported'[q] = {}
  BY DEF TraceInv
<1> QED BY <1>0, <1>5, <1>6, <1>7, <1>8, TraceOfEnded

\* The model asks for tools.
LEMMA TraceOfAsked ==
  ASSUME DelegationInv, TraceInv, NEW r \in Runs, pc[r] = "act",
         pc' = [pc EXCEPT ![r] = "exec"], UNCHANGED <<turn, busy, exported>>,
         \/ r # Main /\ calls' = calls
         \/ r = Main /\ turn[Main] < TurnBound /\ Going' = {},
         spans' = Ended(spans, {GenSpan(r)})
  PROVE  TraceInv'
<1>0. TypeOK /\ BusyInv
  BY DEF DelegationInv
<1>1. /\ turn' = turn /\ busy' = busy /\ r \notin busy /\ turn[r] \in Nat
      /\ pc'[r] = "exec" /\ \A q \in Runs : q # r => pc'[q] = pc[q]
  BY <1>0 DEF TypeOK, BusyInv
<1>2. \A s \in spans : s.id \in SpanIds /\ Past(s)
  BY <1>0 DEF TypeOK, Spans, TraceInv, PastInv
<1>3. ASSUME NEW id \in SpanIds PROVE IsOpen(id)' <=> IsOpen(id) /\ id \notin {GenSpan(r)}
  <2>1. id[1] \in Runs
    BY IdIsTyped
  <2>2. CASE id[1] = r
    <3>1. IsOpen(id)' <=> id = Root(r) \/ id = TurnSpan(r)
      <4>1. TurnSpan(r)' = TurnSpan(r) /\ Root(r)' = Root(r)
        BY <1>1 DEF TurnSpan, Root
      <4> QED BY <1>1, <2>2, <4>1 DEF IsOpen
    <3>2. Root(r) # GenSpan(r) /\ TurnSpan(r) # GenSpan(r)
      BY DEF Root, TurnSpan, GenSpan
    <3>3. IsOpen(id) <=> id = Root(r) \/ id = TurnSpan(r) \/ id = GenSpan(r)
      BY <1>1, <2>2 DEF IsOpen
    <3> QED BY <3>1, <3>2, <3>3
  <2>3. CASE id[1] # r
    <3>1. id # GenSpan(r)
      BY <2>3 DEF GenSpan
    <3>2. r # Main => Going' = Going
      BY DEF Going
    <3>3. r = Main => id[1] # Main
      BY <2>3
    <3> QED BY <1>1, <2>1, <2>3, <3>1, <3>2, <3>3
            DEF IsOpen, Root, TurnSpan, GenSpan, ToolSpan
  <2> QED BY <2>2, <2>3
<1>4. ASSUME NEW s \in spans PROVE Past(s)'
  <2>1. s.id[1] \in Runs
    BY <1>2, IdIsTyped
  <2>2. CASE s.id[1] = r
    <3>1. s.id[2] = "tool.execute" => s.id[3] # turn[r]
      BY <1>2, <2>2 DEF Past
    <3>2. s.parent = TurnSpan(r) => s.parent = TurnSpan(r)'
      BY <1>1 DEF TurnSpan
    <3> QED BY <1>1, <1>2, <2>2, <3>1, <3>2 DEF Past
  <2>3. CASE s.id[1] # r
    <3>1. s.id[1] = Main => calls' = calls
      BY <2>3
    <3> QED BY <1>1, <1>2, <2>1, <2>3, <3>1 DEF Past, TurnSpan
  <2> QED BY <2>2, <2>3
<1>5. TurnInv'
  <2>1. Main \in Runs
    BY DEF Main, Runs
  <2> QED BY <1>1, <2>1 DEF TraceInv, TurnInv
<1>6. \A q \in Runs : exported'[q] = {}
  BY DEF TraceInv
<1> QED BY <1>0, <1>3, <1>4, <1>5, <1>6, TraceOfEnded

LEMMA TraceOfToolStarts ==
  ASSUME DelegationInv, TraceInv, NEW r \in Runs, ToolStarts(r) PROVE TraceInv'
<1>0. TypeOK /\ BusyInv
  BY DEF DelegationInv
<1>1. /\ r # Main /\ pc[r] = "exec" /\ r \notin busy /\ busy' = busy \cup {r}
      /\ spans' = spans \cup {Span(ToolSpan(r, 1), TurnSpan(r))}
      /\ pc' = pc /\ turn' = turn /\ calls' = calls /\ exported' = exported
  BY DEF ToolStarts
<1>2. PICK x \in Spans : x = Span(ToolSpan(r, 1), TurnSpan(r))
  <2>1. 1 \in Nat
    OBVIOUS
  <2> QED BY <1>0, <2>1, IdsAreTyped, SpanIsTyped
<1>3. x.id = ToolSpan(r, 1) /\ x.parent = TurnSpan(r) /\ ~ x.ended
  BY <1>2 DEF Span
<1>4. \A s \in spans : s.id \in SpanIds /\ Past(s)
  BY <1>0 DEF TypeOK, Spans, TraceInv, PastInv
<1>5. turn[r] \in Nat
  BY <1>0 DEF TypeOK
<1>6. \A s \in spans : s.id # x.id
  BY <1>1, <1>3, <1>4 DEF Past, ToolSpan
<1>7. ASSUME NEW id \in SpanIds PROVE IsOpen(id)' <=> IsOpen(id) \/ id = x.id
  <2>1. x.id[1] = r
    BY <1>3 DEF ToolSpan
  <2> QED BY <1>1, <1>3, <2>1 DEF IsOpen, Root, TurnSpan, GenSpan, ToolSpan, Going
<1>8. Hangs(x) /\ x.id[2] # "llm.generate"
  BY <1>3 DEF Hangs, ToolSpan, TurnSpan
<1>9. \E t \in spans : t.id = x.parent
  BY <1>0, <1>1, <1>3, OpenParents
<1>10. ASSUME NEW t \in spans PROVE Apart(t, x)
  BY <1>1, <1>3, <1>4 DEF Apart, Past, TurnSpan, Root
<1>11. ASSUME NEW s \in spans \cup {x} PROVE Past(s)'
  <2>1. CASE s = x
    BY <1>1, <1>3, <1>5, <2>1 DEF Past, ToolSpan
  <2>2. CASE s \in spans
    BY <1>1, <1>4, <2>2 DEF Past, TurnSpan
  <2> QED BY <2>1, <2>2
<1>12. TurnInv' /\ \A q \in Runs : exported'[q] = {}
  BY <1>1 DEF TraceInv, TurnInv
<1> QED
  BY <1>0, <1>1, <1>2, <1>3, <1>6, <1>7, <1>8, <1>9, <1>10, <1>11, <1>12, TraceOfOne

LEMMA TraceOfExport ==
  ASSUME DelegationInv, TraceInv, NEW r \in Runs, Export(r) PROVE TraceInv'
<1>0. TypeOK /\ BusyInv
  BY DEF DelegationInv
<1>1. /\ pc[r] = "ending" /\ pc' = [pc EXCEPT ![r] = "over"]
      /\ spans' = Ended(spans, {Root(r)})
      /\ exported' = [exported EXCEPT ![r] = Open({s \in spans' : s.id[1] = r})]
      /\ turn' = turn /\ calls' = calls /\ busy' = busy
  BY DEF Export, Goto
<1>2. pc'[r] = "over" /\ r \notin busy /\ \A q \in Runs : q # r => pc'[q] = pc[q]
  BY <1>0, <1>1 DEF TypeOK, BusyInv
<1>3. \A s \in spans : s.id \in SpanIds /\ Past(s) /\ (~ s.ended <=> IsOpen(s.id))
  BY <1>0 DEF TypeOK, Spans, TraceInv, PastInv, OpenInv
<1>4. ASSUME NEW id \in SpanIds, id[1] = r PROVE IsOpen(id) <=> id = Root(r)
  BY <1>1, <1>2, <1>4 DEF IsOpen
<1>5. ASSUME NEW id \in SpanIds PROVE IsOpen(id)' <=> IsOpen(id) /\ id \notin {Root(r)}
  <2>1. id[1] \in Runs
    BY IdIsTyped
  <2>2. CASE id[1] = r
    <3>1. ~ IsOpen(id)'
      BY <1>1, <1>2, <2>2 DEF IsOpen
    <3> QED BY <1>4, <2>2, <3>1
  <2>3. CASE id[1] # r
    <3>1. id # Root(r)
      BY <2>3 DEF Root
    <3> QED BY <1>1, <1>2, <2>1, <2>3, <3>1
            DEF IsOpen, Root, TurnSpan, GenSpan, ToolSpan, Going
  <2> QED BY <2>2, <2>3
<1>6. ASSUME NEW s \in spans PROVE Past(s)'
  <2>1. s.id[1] \in Runs
    BY <1>3, IdIsTyped
  <2>2. CASE s.id[1] = r
    BY <1>1, <1>2, <1>3, <2>2 DEF Past
  <2>3. CASE s.id[1] # r
    BY <1>1, <1>2, <1>3, <2>1, <2>3 DEF Past, TurnSpan
  <2> QED BY <2>2, <2>3
<1>7. TurnInv'
  <2>1. Main \in Runs
    BY DEF Main, Runs
  <2> QED BY <1>1, <1>2, <2>1 DEF TraceInv, TurnInv
<1>8. ASSUME NEW t \in spans', t.id[1] = r PROVE t.ended
  <2>0. spans \in SUBSET Spans
    BY <1>0 DEF TypeOK
  <2>1. PICK s \in spans : t.id = s.id /\ (t.ended <=> s.ended \/ s.id \in {Root(r)})
    BY <1>1, <2>0, EndedSpans
  <2> QED BY <1>3, <1>4, <1>8, <2>1
<1>9. ASSUME NEW q \in Runs PROVE exported'[q] = {}
  <2>1. Open({s \in spans' : s.id[1] = r}) = {}
    BY <1>8 DEF Open
  <2> QED BY <1>0, <1>1, <2>1 DEF TypeOK, TraceInv
<1> QED BY <1>0, <1>1, <1>5, <1>6, <1>7, <1>9, TraceOfEnded

LEMMA TraceOfRunStep ==
  ASSUME DelegationInv, TraceInv, NEW r \in Runs, RunStep(r) PROVE TraceInv'
<1>0. TypeOK /\ BusyInv
  BY DEF DelegationInv
<1>1. CASE BeginTurn(r) \/ ForceFinal(r)
  BY <1>1, TraceOfBegun
<1>2. CASE AbortTurn(r)
  <2>1. spans' = Ended(spans, {})
    BY <1>2 DEF AbortTurn, trace, Ended
  <2>2. pc[r] = "boundary" /\ pc' = [pc EXCEPT ![r] = "ending"]
        /\ UNCHANGED <<turn, calls, exported, busy>>
    BY <1>2 DEF AbortTurn, Finish, Goto, trace
  <2> QED BY <2>1, <2>2, TraceOfFinished
<1>3. CASE GenerateFails(r) \/ DropAnswer(r) \/ Conclude(r)
  <2>1. spans' = Ended(spans, {GenSpan(r), TurnSpan(r)})
    <3>1. {GenSpan(r)} \cup Deferred(r) = {GenSpan(r), TurnSpan(r)}
      BY DEF Deferred
    <3> QED BY <1>3, <3>1 DEF GenerateFails, DropAnswer, Conclude, FailedSpans
  <2>2. pc[r] \in {"act", "final"} /\ pc' = [pc EXCEPT ![r] = "ending"]
        /\ UNCHANGED <<turn, calls, exported, busy>>
    BY <1>3 DEF GenerateFails, DropAnswer, Conclude, Finish, Goto
  <2> QED BY <2>1, <2>2, TraceOfFinished
<1>4. CASE AskTool(r)
  <2>1. r # Main /\ pc[r] = "act" /\ pc' = [pc EXCEPT ![r] = "exec"]
        /\ spans' = Ended(spans, {GenSpan(r)}) /\ UNCHANGED <<turn, busy, exported, calls>>
    BY <1>4 DEF AskTool, Goto
  <2> QED BY <2>1, TraceOfAsked
<1>5. CASE ToolStarts(r)
  BY <1>5, TraceOfToolStarts
<1>6. CASE ToolEnds(r)
  <2>1. /\ r \in busy /\ busy' = busy \ {r} /\ r # Main /\ pc[r] = "exec"
        /\ UNCHANGED <<calls, exported>>
    BY <1>0, <1>6 DEF ToolEnds, BusyInv
  <2>2. spans' = Ended(spans, {ToolSpan(r, 1), TurnSpan(r)})
    <3>1. {ToolSpan(r, 1)} \cup Deferred(r) = {ToolSpan(r, 1), TurnSpan(r)}
      BY DEF Deferred
    <3> QED BY <1>6, <3>1 DEF ToolEnds
  <2>3. CASE NextTurn(r)
    BY <2>1, <2>2, <2>3, TraceOfNextTurn
  <2>4. CASE Finish(r, "error") /\ UNCHANGED <<turn, last>>
    <3>1. pc' = [pc EXCEPT ![r] = "ending"] /\ turn' = turn
      BY <2>4 DEF Finish, Goto
    <3> QED BY <2>1, <2>2, <3>1, TraceOfFinished
  <2> QED BY <1>6, <2>3, <2>4 DEF ToolEnds
<1>7. CASE ToolRefused(r)
  <2>1. /\ r # Main /\ pc[r] = "exec" /\ r \notin busy /\ pc' = [pc EXCEPT ![r] = "ending"]
        /\ spans' = Ended(spans, {TurnSpan(r)}) /\ UNCHANGED <<turn, calls, exported, busy>>
    BY <1>7 DEF ToolRefused, Finish, Goto, Deferred
  <2> QED BY <2>1, TraceOfFinished
<1>8. CASE Export(r)
  BY <1>8, TraceOfExport
<1> QED BY <1>1, <1>2, <1>3, <1>4, <1>5, <1>6, <1>7, <1>8 DEF RunStep, EngineStep

-----------------------------------------------------------------------------
(* Steps of delegations and of their batch. *)

LEMMA TraceOfAskDelegations ==
  ASSUME DelegationInv, TraceInv, AskDelegations PROVE TraceInv'
<1>1. /\ pc[Main] = "act" /\ turn[Main] < TurnBound /\ pc' = [pc EXCEPT ![Main] = "exec"]
      /\ spans' = Ended(spans, {GenSpan(Main)}) /\ UNCHANGED <<turn, busy, exported>>
  BY DEF AskDelegations, Goto
<1>2. Going' = {}
  <2>1. \A i \in DOMAIN calls' : calls'[i].at = "ready"
    BY DEF AskDelegations, Call
  <2> QED BY <2>1 DEF Going
<1>3. Main \in Runs
  BY DEF Main, Runs
<1> QED BY <1>1, <1>2, <1>3, TraceOfAsked

LEMMA TraceOfEndBatch ==
  ASSUME DelegationInv, TraceInv, EndBatch PROVE TraceInv'
<1>1. /\ pc[Main] = "exec" /\ Main \in Runs /\ Going = {} /\ Main \notin busy
      /\ spans' = Ended(spans, {TurnSpan(Main)}) /\ UNCHANGED <<calls, exported, busy>>
  BY DEF EndBatch, Deferred, Going, Main, Runs, DelegationInv, BusyInv
<1>2. CASE NextTurn(Main)
  BY <1>1, <1>2, TraceOfNextTurn
<1>3. CASE Finish(Main, "error") /\ UNCHANGED <<turn, last>>
  <2>1. pc' = [pc EXCEPT ![Main] = "ending"] /\ turn' = turn
    BY <1>3 DEF Finish, Goto
  <2> QED BY <1>1, <2>1, TraceOfFinished
<1> QED BY <1>2, <1>3 DEF EndBatch

\* A delegation moves between places where the span of its call is open.
LEMMA TraceOfMove ==
  ASSUME DelegationInv, TraceInv, NEW i, NEW from \in Places, NEW to \in Places,
         CallGoes(i, from, to), UNCHANGED <<pc, turn, busy, trace>>,
         to # "ready",
         from \in {"ready", "back", "failed"} <=> to \in {"ready", "back", "failed"}
  PROVE  TraceInv'
<1>0. TypeOK
  BY DEF DelegationInv
<1>1. /\ i \in DOMAIN calls /\ calls[i].at = from /\ DOMAIN calls' = DOMAIN calls
      /\ \A j \in DOMAIN calls : j # i => calls'[j] = calls[j]
      /\ calls'[i].at = to
  BY <1>0, CallMoves
<1>2. spans' = spans /\ exported' = exported
  BY DEF trace
<1>3. Going' = Going
  BY <1>1 DEF Going
<1>4. \A id \in SpanIds : IsOpen(id)' <=> IsOpen(id)
  BY <1>3 DEF IsOpen, Root, TurnSpan, GenSpan, ToolSpan
<1>5. \A s \in spans : Past(s)'
  BY <1>1 DEF TraceInv, PastInv, Past, TurnSpan
<1>6. TurnInv' /\ \A r \in Runs : exported'[r] = {}
  BY <1>2 DEF TraceInv, TurnInv
<1> QED BY <1>0, <1>2, <1>4, <1>5, <1>6, TraceOfNone

LEMMA TraceOfEnter ==
  ASSUME DelegationInv, TraceInv, NEW i \in DOMAIN calls, Enter(i) PROVE TraceInv'
<1>0. TypeOK /\ i \in Nat /\ Main \in Runs /\ turn[Main] \in Nat
  <2>1. TypeOK /\ Main \in Runs
    BY DEF DelegationInv, Main, Runs
  <2>2. DOMAIN calls = 1..Len(calls) /\ Len(calls) \in Nat
    BY <2>1, CallIsTyped
  <2>3. turn[Main] \in Nat
    BY <2>1 DEF TypeOK
  <2> QED BY <2>1, <2>2, <2>3
<1>1. PICK to \in {"locking", "back"} : \E x :
        /\ CallGoes(i, "ready", to) /\ spans' = spans \cup {x}
        /\ to = "locking" => x = Span(ToolSpan(Main, i), TurnSpan(Main))
        /\ to = "back" => x = [Span(ToolSpan(Main, i), TurnSpan(Main)) EXCEPT !.ended = TRUE]
  <2>1. CASE calls[i].want \in Roles
    BY <2>1 DEF Enter
  <2>2. CASE calls[i].want \notin Roles
    BY <2>2 DEF Enter
  <2> QED BY <2>1, <2>2
<1>a. PICK x :
        /\ CallGoes(i, "ready", to) /\ spans' = spans \cup {x}
        /\ to = "locking" => x = Span(ToolSpan(Main, i), TurnSpan(Main))
        /\ to = "back" => x = [Span(ToolSpan(Main, i), TurnSpan(Main)) EXCEPT !.ended = TRUE]
  BY <1>1
<1>2. /\ x \in Spans /\ x.id = ToolSpan(Main, i) /\ x.parent = TurnSpan(Main)
      /\ x.ended <=> to = "back"
  <2>1. Span(ToolSpan(Main, i), TurnSpan(Main)) \in Spans
    BY <1>0, IdsAreTyped, SpanIsTyped
  <2>2. CASE to = "locking"
    <3>1. x = Span(ToolSpan(Main, i), TurnSpan(Main)) /\ to # "back"
      BY <1>a, <2>2
    <3> QED BY <2>1, <3>1 DEF Span
  <2>3. CASE to = "back"
    <3>1. x = [Span(ToolSpan(Main, i), TurnSpan(Main)) EXCEPT !.ended = TRUE]
      BY <1>a, <2>3
    <3> QED BY <2>1, <2>3, <3>1 DEF Span, Spans
  <2> QED BY <2>2, <2>3
<1>3. /\ pc[Main] = "exec" /\ calls[i].at = "ready" /\ DOMAIN calls' = DOMAIN calls
      /\ \A j \in DOMAIN calls : j # i => calls'[j] = calls[j]
      /\ calls'[i].at = to
  BY <1>0, <1>a, CallMoves DEF Places
<1>4. UNCHANGED <<pc, turn, busy, exported>>
  BY DEF Enter, rest
<1>5. \A s \in spans : s.id \in SpanIds /\ Past(s)
  BY <1>0 DEF TypeOK, Spans, TraceInv, PastInv
<1>6. \A s \in spans : s.id # x.id
  BY <1>2, <1>3, <1>5 DEF Past, ToolSpan
<1>7. Hangs(x) /\ x.id[2] # "llm.generate"
  BY <1>2 DEF Hangs, ToolSpan, TurnSpan
<1>8. \E t \in spans : t.id = x.parent
  BY <1>0, <1>2, <1>3, OpenParents
<1>9. ASSUME NEW t \in spans PROVE Apart(t, x)
  BY <1>2, <1>3, <1>5 DEF Apart, Past, TurnSpan, Root
<1>10. ASSUME NEW s \in spans \cup {x} PROVE Past(s)'
  <2>1. CASE s = x
    BY <1>0, <1>a, <1>2, <1>3, <1>4, <2>1 DEF Past, ToolSpan, Main
  <2>2. CASE s \in spans
    BY <1>a, <1>3, <1>4, <1>5, <2>2 DEF Past, TurnSpan
  <2> QED BY <2>1, <2>2
<1>11. TurnInv' /\ \A r \in Runs : exported'[r] = {}
  BY <1>4 DEF TraceInv, TurnInv
<1>12. ASSUME NEW id \in SpanIds
       PROVE  IsOpen(id)' <=> IsOpen(id) \/ (to = "locking" /\ id = x.id)
  <2>1. Going' = IF to = "locking" THEN Going \cup {i} ELSE Going
    BY <1>a, <1>3 DEF Going
  <2>2. x.id[1] = Main
    BY <1>2 DEF ToolSpan
  <2> QED BY <1>2, <1>3, <1>4, <2>1, <2>2 DEF IsOpen, Root, TurnSpan, GenSpan, ToolSpan
<1>13. CASE to = "locking"
  <2>1. \A id \in SpanIds : IsOpen(id)' <=> IsOpen(id) \/ id = x.id
    BY <1>12, <1>13
  <2> QED BY <1>0, <1>a, <1>2, <1>6, <1>7, <1>8, <1>9, <1>10, <1>11, <1>13, <2>1, TraceOfOne
<1>14. CASE to = "back"
  <2>1. \A id \in SpanIds : IsOpen(id)' <=> IsOpen(id)
    BY <1>12, <1>14
  <2>2. OpenInv'
    <3>1. ~ IsOpen(x.id)
      BY <1>6, <1>2 DEF TraceInv, OpenInv, Spans
    <3>2. ASSUME NEW s \in spans' PROVE ~ s.ended <=> IsOpen(s.id)'
      <4>1. CASE s = x
        BY <1>2, <1>14, <2>1, <3>1, <4>1 DEF Spans
      <4>2. CASE s \in spans
        BY <1>5, <2>1, <4>2 DEF TraceInv, OpenInv
      <4> QED BY <1>a, <4>1, <4>2
    <3>3. \A id \in SpanIds : IsOpen(id)' => \E s \in spans' : s.id = id
      BY <1>a, <2>1 DEF TraceInv, OpenInv
    <3> QED BY <3>2, <3>3 DEF OpenInv
  <2>3. ShapeInv'
    <3>1. PICK N : N = {x}
      OBVIOUS
    <3>2. \A y \in N : Hangs(y) /\ (y.parent # NoSpan => \E t \in spans \cup N : t.id = y.parent)
      BY <1>7, <1>8, <3>1
    <3>3. \A y \in N, t \in spans \cup N : Apart(y, t) /\ Apart(t, y)
      <4>1. \A t : Apart(x, t)
        BY <1>7 DEF Apart
      <4> QED BY <1>9, <3>1, <4>1
    <3>4. spans' = spans \cup N /\ ShapeInv
      BY <1>a, <3>1 DEF TraceInv
    <3> QED BY <3>2, <3>3, <3>4, ShapeOfAdded
  <2>4. PastInv'
    <3> SUFFICES ASSUME NEW t \in spans' PROVE Past(t)'
      BY DEF PastInv, Past, TurnSpan
    <3> QED BY <1>a, <1>10
  <2> QED BY <1>11, <2>2, <2>3, <2>4 DEF TraceInv
<1> QED BY <1>13, <1>14

LEMMA TraceOfReturn ==
  ASSUME DelegationInv, TraceInv, NEW i \in DOMAIN calls, Return(i) PROVE TraceInv'
<1>0. TypeOK /\ Main \in Runs /\ DOMAIN calls' = DOMAIN calls
  BY DEF DelegationInv, Main, Runs, Return
<1>1. /\ pc[Main] = "exec" /\ calls[i].at = "running"
      /\ spans' = Ended(spans, {ToolSpan(Main, i)})
      /\ UNCHANGED <<pc, turn, busy, exported>>
  BY DEF Return, rest
<1>2. /\ \A j \in DOMAIN calls : j # i => calls'[j] = calls[j]
      /\ calls'[i].at \in {"back", "failed"}
  <2>1. calls[i] \in CallRecords
    BY <1>0, CallIsTyped
  <2> QED BY <2>1 DEF Return, CallRecords
<1>3. Going' = Going \ {i}
  BY <1>0, <1>1, <1>2 DEF Going
<1>4. ASSUME NEW id \in SpanIds
      PROVE  IsOpen(id)' <=> IsOpen(id) /\ id \notin {ToolSpan(Main, i)}
  <2>1. ToolSpan(Main, i)[1] = Main /\ Main \notin busy
    BY DEF ToolSpan, DelegationInv, BusyInv
  <2> QED BY <1>1, <1>3, <2>1 DEF IsOpen, Root, TurnSpan, GenSpan, ToolSpan
<1>5. \A s \in spans : Past(s)'
  BY <1>0, <1>1, <1>2 DEF TraceInv, PastInv, Past, TurnSpan
<1>6. TurnInv' /\ \A r \in Runs : exported'[r] = {}
  BY <1>1 DEF TraceInv, TurnInv
<1> QED BY <1>0, <1>1, <1>4, <1>5, <1>6, TraceOfEnded

LEMMA TraceOfSpawn ==
  ASSUME DelegationInv, TraceInv, NEW i \in DOMAIN calls, Spawn(i) PROVE TraceInv'
<1>0. TypeOK /\ Main \in Runs
  BY DEF DelegationInv, Main, Runs
<1>1. PICK r \in Runs : r = seq + 1 /\ pc[r] = "none" /\ r # Main /\ r \notin busy
  <2>1. seq + 1 \in Runs \ {Main}
    <3>1. IsFiniteSet(Pending) /\ i \in Pending
      BY <1>0, PendingIsFinite DEF Pending, Before, Spawn
    <3>2. /\ Cardinality(Pending \ {i}) = Cardinality(Pending) - 1
          /\ Cardinality(Pending) \in Nat /\ Cardinality(Pending \ {i}) \in Nat
      BY <3>1, FS_RemoveElement, FS_CardinalityType
    <3>3. seq \in Nat /\ seq + Cardinality(Pending) <= MaxSubs
      BY DEF DelegationInv, Supply, TypeOK
    <3> QED BY <3>2, <3>3 DEF Runs, Main
  <2>2. seq \in Nat
    BY <1>0 DEF TypeOK
  <2> QED BY <2>1, <2>2 DEF DelegationInv, AnswerInv, BusyInv
<1>2. seq' = r
  BY <1>1 DEF Spawn, Counted
<1>3. /\ pc[Main] = "exec" /\ calls[i].at = "spawning" /\ DOMAIN calls' = DOMAIN calls
      /\ UNCHANGED <<turn, busy, exported>>
  BY DEF Spawn
<1>4. /\ \A j \in DOMAIN calls : j # i => calls'[j] = calls[j]
      /\ calls'[i].at = "running"
  <2>1. calls[i] \in CallRecords
    BY <1>0, CallIsTyped
  <2> QED BY <2>1 DEF Spawn, CallRecords
<1>5. Going' = Going
  BY <1>3, <1>4 DEF Going
<1>6. \A s \in spans : s.id \in SpanIds /\ Past(s) /\ s.id[1] # r
  BY <1>0, <1>1 DEF TypeOK, Spans, TraceInv, PastInv, Past
<1>7. PICK label \in {"over", "boundary", "ending"} :
        /\ pc' = [pc EXCEPT ![r] = label]
        /\ label = "over" => spans' = spans
        /\ label # "over" => spans' = spans \cup {Span(Root(r), NoSpan)}
  BY <1>2 DEF Spawn, Goto, Finish
<1>8. pc'[r] = label /\ \A q \in Runs : q # r => pc'[q] = pc[q]
  BY <1>0, <1>7 DEF TypeOK
<1>9. ASSUME NEW id \in SpanIds
      PROVE  IsOpen(id)' <=> IsOpen(id) \/ (label # "over" /\ id = Root(r))
  <2>1. id[1] \in Runs
    BY IdIsTyped
  <2>2. CASE id[1] = r
    BY <1>1, <1>3, <1>8, <2>2 DEF IsOpen, Root, TurnSpan, GenSpan, ToolSpan
  <2>3. CASE id[1] # r
    <3>1. id # Root(r)
      BY <2>3 DEF Root
    <3> QED BY <1>3, <1>5, <1>8, <2>1, <2>3, <3>1
            DEF IsOpen, Root, TurnSpan, GenSpan, ToolSpan
  <2> QED BY <2>2, <2>3
<1>10. ASSUME NEW s \in spans PROVE Past(s)'
  <2>1. s.id[1] \in Runs
    BY <1>6, IdIsTyped
  <2> QED BY <1>3, <1>4, <1>6, <1>8, <2>1 DEF Past, TurnSpan
<1>11. TurnInv' /\ \A q \in Runs : exported'[q] = {}
  BY <1>0, <1>3, <1>8 DEF TraceInv, TurnInv
<1>12. CASE label = "over"
  BY <1>0, <1>7, <1>9, <1>10, <1>11, <1>12, TraceOfNone
<1>13. CASE label # "over"
  <2>1. PICK x \in Spans : x = Span(Root(r), NoSpan)
    BY <1>0, SpanIsTyped DEF Root, SpanIds
  <2>2. x.id = Root(r) /\ x.parent = NoSpan /\ ~ x.ended
    BY <2>1 DEF Span
  <2>3. \A s \in spans : s.id # x.id
    BY <1>6, <2>2 DEF Root
  <2>4. Hangs(x) /\ x.id[2] # "llm.generate"
    <3>1. x.id[1] = r
      BY <2>2 DEF Root
    <3> QED BY <2>2, <3>1 DEF Hangs, Root
  <2>5. \A t \in spans : Apart(t, x)
    BY <2>2 DEF Apart, NoSpan
  <2>6. Past(x)'
    BY <1>8, <1>13, <2>2 DEF Past, Root
  <2>7. \A id \in SpanIds : IsOpen(id)' <=> IsOpen(id) \/ id = x.id
    BY <1>9, <1>13, <2>2
  <2>8. spans' = spans \cup {x} /\ \A s \in spans \cup {x} : Past(s)'
    BY <1>7, <1>10, <1>13, <2>1, <2>6
  <2> QED BY <1>0, <1>11, <2>2, <2>3, <2>4, <2>5, <2>7, <2>8, TraceOfOne
<1> QED BY <1>12, <1>13

LEMMA TraceOfCallStep ==
  ASSUME DelegationInv, TraceInv, NEW i \in DOMAIN calls, CallStep(i) PROVE TraceInv'
<1>1. CASE Refuse(i) \/ EnterEngines(i) \/ FindEngine(i) \/ MissEngine(i) \/ BuildEngine(i)
  <2>1. UNCHANGED <<pc, turn, busy, trace>>
    BY <1>1 DEF Refuse, EnterEngines, FindEngine, MissEngine, BuildEngine, rest
  <2>2. CASE CallGoes(i, "ready", "failed")
    BY <2>1, <2>2, TraceOfMove DEF Places
  <2>3. CASE CallGoes(i, "locking", "looking")
    BY <2>1, <2>3, TraceOfMove DEF Places
  <2>4. CASE CallGoes(i, "looking", "spawning")
    BY <2>1, <2>4, TraceOfMove DEF Places
  <2>5. CASE CallGoes(i, "looking", "building")
    BY <2>1, <2>5, TraceOfMove DEF Places
  <2>6. CASE CallGoes(i, "building", "spawning")
    BY <2>1, <2>6, TraceOfMove DEF Places
  <2> QED BY <1>1, <2>2, <2>3, <2>4, <2>5, <2>6
          DEF Refuse, EnterEngines, FindEngine, MissEngine, BuildEngine
<1> QED BY <1>1, TraceOfEnter, TraceOfSpawn, TraceOfReturn DEF CallStep

LEMMA TraceStep == DelegationInv /\ TraceInv /\ [Next]_vars => TraceInv'
<1> SUFFICES ASSUME DelegationInv, TraceInv, [Next]_vars PROVE TraceInv'
  OBVIOUS
<1>1. CASE Cancel \/ UNCHANGED vars
  <2>1. UNCHANGED <<pc, turn, calls, busy, spans, exported>>
    BY <1>1 DEF Cancel, vars, trace
  <2>2. \A id \in SpanIds : IsOpen(id)' <=> IsOpen(id)
    BY <2>1 DEF IsOpen, Root, TurnSpan, GenSpan, ToolSpan, Going
  <2>3. \A s \in spans : Past(s)'
    BY <2>1 DEF TraceInv, PastInv, Past, TurnSpan
  <2>4. TypeOK /\ TurnInv' /\ \A r \in Runs : exported'[r] = {}
    BY <2>1 DEF DelegationInv, TraceInv, TurnInv
  <2> QED BY <2>1, <2>2, <2>3, <2>4, TraceOfNone
<1> QED
  BY <1>1, TraceOfRunStep, TraceOfAskDelegations, TraceOfEndBatch, TraceOfCallStep
  DEF Next, AllOver

\* The tree of a run is complete when it is exported, whatever made it end, and
\* at no time does a span that has ended have an open child ( every return path
\* of Run; finishRunSpan, Export ).
THEOREM WholeTraces == Spec => []TracesAreWhole
<1>1. DelegationInv /\ TraceInv => TracesAreWhole
  BY TraceInvIsEnough DEF DelegationInv
<1>2. Init => TraceInv
  BY TraceInit
<1>3. DelegationInv /\ DelegationInv' /\ TraceInv /\ [Next]_vars => TraceInv'
  BY TraceStep
<1> QED BY <1>1, <1>2, <1>3, DelegationInvariant, PTL DEF Spec
=============================================================================
