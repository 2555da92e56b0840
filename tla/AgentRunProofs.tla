--------------------------- MODULE AgentRunProofs ---------------------------
(***************************************************************************)
(* Proofs about AgentRun for any tasks, sessions, budgets and contexts.    *)
(* First the type invariant, the exclusion of runs on one session, that    *)
(* the writings of runs never interleave, that a run that succeeds has     *)
(* concluded, and that the ledger misses little of what was billed and is  *)
(* overshot by a bounded amount.  Then what the engine loop promises of a  *)
(* session: AgentRun implements SessionLog, the results of a batch are in  *)
(* the log together or not at all, and what a model call is sent of the    *)
(* log lacks results only in ways that are known.                          *)
(***************************************************************************)
EXTENDS AgentRun, NaturalFacts, SequenceTheorems

\* The messages the engine builds are messages.
LEMMA MessagesAreTyped ==
  ASSUME NEW t \in Tasks, NEW k \in Nat, NEW n \in Nat
  PROVE  UserMsg(t, k, n) \in Message /\ Reply(t, k, n) \in Message
BY DEF UserMsg, Reply, Message

\* Session.Append keeps every history a sequence of messages.
LEMMA WriteIsTyped ==
  ASSUME TypeOK, NEW t \in Tasks,
         NEW msgs \in Seq(Message), Write(t, msgs)
  PROVE  history' \in [Sessions -> Seq(Message)]
<1>1. SessionOf[t] \in Sessions
  BY RunAssumption DEF RunAssumption
<1>2. history[SessionOf[t]] \o msgs \in Seq(Message)
  BY <1>1, ConcatProperties DEF TypeOK
<1>. QED
  BY <1>1, <1>2 DEF Write, TypeOK

\* Every variable keeps its type: the type invariant the other proofs rest on.
THEOREM Typing == Spec => []TypeOK
<1> USE RunAssumption DEF RunAssumption
<1>1. Init => TypeOK
  BY DEF Init, TypeOK, Holding, InFlight
<1>2. TypeOK /\ [Next]_vars => TypeOK'
  <2> SUFFICES ASSUME TypeOK, [Next]_vars PROVE TypeOK'
    OBVIOUS
  <2> USE DEF TypeOK, Holding, InFlight
  <2>1. ASSUME NEW t \in Tasks, Arrive(t) PROVE TypeOK'
    <3>1. <<Prompt(t)>> \in Seq(Message)
      BY MessagesAreTyped DEF Prompt
    <3>2. history' \in [Sessions -> Seq(Message)]
      BY <2>1, <3>1, WriteIsTyped DEF Arrive
    <3>. QED
      BY <2>1, <3>2 DEF Arrive, Goto, ledger
  <2>2. ASSUME NEW t \in Tasks, Refuse(t) PROVE TypeOK'
    <3>1. PICK result \in {"error", "busy"} : Return(t, result)
      BY <2>2 DEF Refuse
    <3>. QED
      BY <2>2, <3>1 DEF Refuse, Return, Goto, shared, ledger
  <2>3. ASSUME NEW t \in Tasks, Start(t) PROVE TypeOK'
    BY <2>3 DEF Start, TryStartRun, Goto, ledger
  <2>4. ASSUME NEW t \in Tasks, Prepare(t) PROVE TypeOK'
    <3>1. pc' \in [Tasks -> {"idle", "arrived", "done"} \cup Holding]
      BY <2>4 DEF Prepare, Finish, Goto
    <3>2. outcome' \in [Tasks -> {"none", "ok", "busy", "error"}]
      BY <2>4 DEF Prepare, Finish
    <3>. QED
      BY <2>4, <3>1, <3>2 DEF Prepare, shared, ledger
  <2>5. ASSUME NEW t \in Tasks, BeginTurn(t) \/ AskFinal(t) PROVE TypeOK'
    <3>1. PICK label \in InFlight : Send(t, label)
      BY <2>5 DEF BeginTurn, AskFinal
    <3>2. history' = history
      BY <2>5 DEF BeginTurn, AskFinal
    <3>3. Len(history[SessionOf[t]]) \in Nat
      BY RunAssumption, LenProperties DEF RunAssumption
    <3>4. pc' \in [Tasks -> {"idle", "arrived", "done"} \cup Holding] /\ sent' \in [Tasks -> Nat]
      BY <3>1, <3>2, <3>3 DEF Send, Goto
    <3>. QED
      BY <2>5, <3>4 DEF BeginTurn, AskFinal, ledger
  <2>6. ASSUME NEW t \in Tasks, ForceFinal(t) PROVE TypeOK'
    <3>1. <<Notice(t, turn[t])>> \in Seq(Message)
      BY MessagesAreTyped DEF Notice
    <3>2. history' \in [Sessions -> Seq(Message)]
      BY <2>6, <3>1, WriteIsTyped DEF ForceFinal
    <3>. QED
      BY <2>6, <3>2 DEF ForceFinal, Goto, ledger
  <2>7. ASSUME NEW t \in Tasks, AbortTurn(t) PROVE TypeOK'
    BY <2>7 DEF AbortTurn, Finish, Goto, shared, ledger
  <2>8. ASSUME NEW t \in Tasks, CallFails(t) PROVE TypeOK'
    BY <2>8 DEF CallFails, Finish, Goto, shared, ledger
  <2>9. ASSUME NEW t \in Tasks, DropAnswer(t) PROVE TypeOK'
    BY <2>9 DEF DropAnswer, Bill, Finish, Goto, shared
  <2>10. ASSUME NEW t \in Tasks, ThinkAnswer(t) PROVE TypeOK'
    BY <2>10 DEF ThinkAnswer, Bill, Observe, Send, Goto
  <2>11. ASSUME NEW t \in Tasks, ActAnswer(t) PROVE TypeOK'
    <3>1. PICK n \in 0..MaxCalls :
            /\ Write(t, <<Reply(t, turn[t], n)>>)
            /\ IF n = 0
               THEN Finish(t, "ok") /\ UNCHANGED calls
               ELSE /\ Goto(t, "exec")
                    /\ calls' = [calls EXCEPT ![t] = [i \in 1..n |-> "ready"]]
                    /\ UNCHANGED outcome
      BY <2>11 DEF ActAnswer
    <3>2. <<Reply(t, turn[t], n)>> \in Seq(Message)
      BY MessagesAreTyped
    <3>3. history' \in [Sessions -> Seq(Message)]
      BY <3>1, <3>2, WriteIsTyped
    <3>4. [i \in 1..n |-> "ready"] \in Seq({"ready", "busy", "kept", "failed"})
      OBVIOUS
    <3>5. calls' \in [Tasks -> Seq({"ready", "busy", "kept", "failed"})]
      BY <3>1, <3>4
    <3>6. /\ pc' \in [Tasks -> {"idle", "arrived", "done"} \cup Holding]
          /\ outcome' \in [Tasks -> {"none", "ok", "busy", "error"}]
      BY <3>1 DEF Finish, Goto
    <3>7. total' \in Nat /\ billed' \in Nat
      BY <2>11 DEF ActAnswer, Bill, Observe
    <3>. QED
      BY <2>11, <3>3, <3>5, <3>6, <3>7 DEF ActAnswer
  <2>12. ASSUME NEW t \in Tasks, FinalAnswer(t) PROVE TypeOK'
    <3>1. <<Reply(t, turn[t], 0)>> \in Seq(Message)
      BY MessagesAreTyped
    <3>2. history' \in [Sessions -> Seq(Message)]
      BY <2>12, <3>1, WriteIsTyped DEF FinalAnswer
    <3>. QED
      BY <2>12, <3>2 DEF FinalAnswer, Bill, Observe, Finish, Goto
  <2>13. ASSUME NEW t \in Tasks, NEW i \in DOMAIN calls[t],
                CallStart(t, i) \/ CallReturn(t, i)
         PROVE  TypeOK'
    <3>1. PICK x \in {"ready", "busy", "kept", "failed"} :
            calls' = [calls EXCEPT ![t][i] = x]
      BY <2>13 DEF CallStart, CallReturn, CallStep
    <3>2. [calls[t] EXCEPT ![i] = x] \in Seq({"ready", "busy", "kept", "failed"})
      BY ExceptSeq
    <3>3. calls' \in [Tasks -> Seq({"ready", "busy", "kept", "failed"})]
      BY <3>1, <3>2
    <3>. QED
      BY <2>13, <3>3 DEF CallStart, CallReturn, CallStep, shared, ledger
  <2>14. ASSUME NEW t \in Tasks, AbortBatch(t) PROVE TypeOK'
    BY <2>14 DEF AbortBatch, Finish, Goto, shared, ledger
  <2>15. ASSUME NEW t \in Tasks, FinishBatch(t) PROVE TypeOK'
    <3>1. Results(t) \in Seq(Message)
      BY MessagesAreTyped DEF Results, Result
    <3>2. Append(Results(t), Notice(t, turn[t])) \in Seq(Message)
      BY <3>1, MessagesAreTyped, AppendProperties DEF Notice
    <3>3. history' \in [Sessions -> Seq(Message)]
      BY <2>15, <3>1, <3>2, WriteIsTyped DEF FinishBatch, Observations
    <3>4. strikes' \in [Sessions -> Nat]
      BY <2>15 DEF FinishBatch
    <3>5. /\ pc' \in [Tasks -> {"idle", "arrived", "done"} \cup Holding]
          /\ turn' \in [Tasks -> Nat]
      BY <2>15 DEF FinishBatch, Goto
    <3>. QED
      BY <2>15, <3>3, <3>4, <3>5 DEF FinishBatch, ledger
  <2>16. ASSUME NEW t \in Tasks, EndRun(t) PROVE TypeOK'
    BY <2>16 DEF EndRun, Goto, ledger
  <2>17. ASSUME NEW t \in Tasks, Cancel(t) PROVE TypeOK'
    BY <2>17 DEF Cancel, shared, ledger
  <2>18. CASE UNCHANGED vars
    BY <2>18 DEF vars, local, shared, ledger
  <2>. QED
    BY <2>1, <2>2, <2>3, <2>4, <2>5, <2>6, <2>7, <2>8, <2>9, <2>10, <2>11,
       <2>12, <2>13, <2>14, <2>15, <2>16, <2>17, <2>18
    DEF Next, RunStep, EngineStep, AllDone
<1>. QED
  BY <1>1, <1>2, PTL DEF Spec

-----------------------------------------------------------------------------
(* Steps that leave the flag alone do not change who is active. *)

\* A step that keeps a task among the active ones keeps the exclusion.
LEMMA OtherStepsKeepActive ==
  ASSUME TypeOK, NEW t \in Tasks,
         Arrive(t) \/ Cancel(t) \/ RunStep(t), ~ Start(t), ~ EndRun(t)
  PROVE  /\ running' = running
         /\ \A u \in Tasks : Active(u)' <=> Active(u)
<1> USE DEF TypeOK, Active, Holding, InFlight
<1>1. CASE Arrive(t) \/ Cancel(t) \/ Refuse(t) \/ Prepare(t)
  BY <1>1 DEF Arrive, Cancel, Refuse, Prepare, Goto, Return, Finish, shared
<1>2. CASE BeginTurn(t) \/ ForceFinal(t) \/ AskFinal(t) \/ AbortTurn(t) \/ CallFails(t)
  BY <1>2 DEF BeginTurn, ForceFinal, AskFinal, AbortTurn, CallFails, Send, Goto, Finish,
              shared
<1>3. CASE DropAnswer(t) \/ ThinkAnswer(t) \/ ActAnswer(t) \/ FinalAnswer(t)
  BY <1>3 DEF DropAnswer, ThinkAnswer, ActAnswer, FinalAnswer, Send, Goto,
              Finish, shared
<1>4. CASE \E i \in DOMAIN calls[t] : CallStart(t, i) \/ CallReturn(t, i)
  BY <1>4 DEF CallStart, CallReturn, CallStep, shared
<1>5. CASE AbortBatch(t) \/ FinishBatch(t)
  BY <1>5 DEF AbortBatch, FinishBatch, Goto, Finish, shared
<1>. QED
  BY <1>1, <1>2, <1>3, <1>4, <1>5 DEF RunStep, EngineStep

\* TryStartRun and the deferred EndRun keep the flag and the active run in
\* step, for any number of tasks: no session is ever used by two runs.
THEOREM RunExclusion == Spec => []OneRunPerSession
<1>1. Init => OneRunPerSession
  BY DEF Init, OneRunPerSession, Active, Holding, InFlight
<1>2. TypeOK /\ OneRunPerSession /\ [Next]_vars => OneRunPerSession'
  <2> SUFFICES ASSUME TypeOK, OneRunPerSession, [Next]_vars
               PROVE  OneRunPerSession'
    OBVIOUS
  <2>1. ASSUME NEW t \in Tasks, Start(t) PROVE OneRunPerSession'
    <3>1. \A u \in Tasks : Active(u)' <=> Active(u) \/ u = t
      BY <2>1 DEF Start, Goto, Active, Holding, InFlight, TypeOK
    <3>2. \A s \in Sessions : running'[s] <=> running[s] \/ s = SessionOf[t]
      BY <2>1 DEF Start, TryStartRun, TypeOK
    <3>3. ~ \E u \in Tasks : SessionOf[u] = SessionOf[t] /\ Active(u)
      BY <2>1, RunAssumption DEF Start, TryStartRun, OneRunPerSession, RunAssumption
    <3>. QED
      BY <3>1, <3>2, <3>3 DEF OneRunPerSession
  <2>2. ASSUME NEW t \in Tasks, EndRun(t) PROVE OneRunPerSession'
    <3>1. \A u \in Tasks : Active(u)' <=> Active(u) /\ u # t
      BY <2>2 DEF EndRun, Goto, Active, Holding, InFlight, TypeOK
    <3>2. \A s \in Sessions : running'[s] <=> running[s] /\ s # SessionOf[t]
      BY <2>2 DEF EndRun, TypeOK
    <3>3. Active(t)
      BY <2>2 DEF EndRun, Active, Holding
    <3>. QED
      BY <3>1, <3>2, <3>3 DEF OneRunPerSession
  <2>3. ASSUME NEW t \in Tasks, Arrive(t) \/ Cancel(t) \/ RunStep(t),
               ~ Start(t), ~ EndRun(t)
        PROVE  OneRunPerSession'
    BY <2>3, OtherStepsKeepActive DEF OneRunPerSession
  <2>4. CASE UNCHANGED vars
    BY <2>4 DEF vars, local, shared, OneRunPerSession, Active
  <2>. QED
    BY <2>1, <2>2, <2>3, <2>4 DEF Next, AllDone
<1>. QED
  BY <1>1, <1>2, Typing, PTL DEF Spec

-----------------------------------------------------------------------------
(* The writings of runs.  A message with a turn was written by a run.      *)

Ordered(h) == \A i, j \in DOMAIN h :
  i < j /\ h[i].turn > 0 /\ h[j].turn > 0 /\ h[i].run = h[j].run
  => h[i].turn <= h[j].turn

Apart(h) == \A i, j, k \in DOMAIN h :
  /\ i < j /\ j < k
  /\ h[i].turn > 0 /\ h[j].turn > 0 /\ h[k].turn > 0
  /\ h[i].run = h[k].run
  => h[j].run = h[i].run

\* Run t has written nothing in h yet.
Fresh(t, h) == \A i \in DOMAIN h : h[i].turn > 0 => h[i].run # t

\* Since t began to write in h, no other run has written.
Latest(t, h) == \A i, j \in DOMAIN h :
  i < j /\ h[i].turn > 0 /\ h[j].turn > 0 /\ h[i].run = t => h[j].run = t

UpTo(t, h, n) == \A i \in DOMAIN h :
  h[i].turn > 0 /\ h[i].run = t => h[i].turn <= n

\* What makes RunsDoNotInterleave inductive: a run that has not begun has
\* written nothing, and a run that may write is the latest writer.
WritersInv ==
  /\ \A s \in Sessions : Ordered(history[s]) /\ Apart(history[s])
  /\ \A t \in Tasks : LET h == history[SessionOf[t]] IN
       /\ pc[t] \in {"idle", "arrived", "prepare"} => Fresh(t, h)
       /\ Active(t) => Latest(t, h)
       /\ UpTo(t, h, turn[t])
       /\ turn[t] > 0

\* The turn a message carries is a number.
LEMMA TurnsAreNat ==
  ASSUME NEW h \in Seq(Message), NEW i \in DOMAIN h
  PROVE  h[i].turn \in Nat
<1>1. h[i] \in Message
  BY ElementOfSeq, LenProperties
<1>. QED
  BY <1>1 DEF Message

\* A block written by t in its current turn k.
LEMMA BlockByLatest ==
  ASSUME NEW h \in Seq(Message), NEW b \in Seq(Message), NEW t \in Tasks,
         NEW k \in Nat \ {0},
         \A i \in DOMAIN b : b[i].run = t /\ b[i].turn = k,
         Ordered(h), Apart(h), Latest(t, h), UpTo(t, h, k)
  PROVE  /\ Ordered(h \o b) /\ Apart(h \o b)
         /\ Latest(t, h \o b) /\ UpTo(t, h \o b, k)
         /\ \A u \in Tasks : u # t /\ Fresh(u, h) => Fresh(u, h \o b)
         /\ \A u \in Tasks, n \in Nat :
              u # t /\ UpTo(u, h, n) => UpTo(u, h \o b, n)
<1> DEFINE g == h \o b
<1>1. DOMAIN h = 1..Len(h) /\ DOMAIN b = 1..Len(b) /\ Len(h) \in Nat /\ Len(b) \in Nat
  BY LenProperties
<1>2. g \in Seq(Message) /\ Len(g) = Len(h) + Len(b) /\ DOMAIN g = 1..Len(g)
  BY ConcatProperties, LenProperties
<1>3. ASSUME NEW i \in DOMAIN g
      PROVE  \/ i \in DOMAIN h /\ g[i] = h[i]
             \/ i > Len(h) /\ g[i].run = t /\ g[i].turn = k
  BY <1>1, <1>2, ConcatProperties
<1>4. \A i \in DOMAIN g : g[i].turn \in Nat
  BY <1>2, TurnsAreNat
<1>5. \A i, j \in DOMAIN g : i < j /\ j \in DOMAIN h => i \in DOMAIN h
  BY <1>1, <1>2
<1> HIDE DEF g
<1>6. Latest(t, g)
  BY <1>1, <1>2, <1>3, <1>5 DEF Latest
<1>7. UpTo(t, g, k)
  BY <1>1, <1>3, <1>4 DEF UpTo
<1>8. Ordered(g)
  <2> SUFFICES ASSUME NEW i \in DOMAIN g, NEW j \in DOMAIN g, i < j,
                      g[i].turn > 0, g[j].turn > 0, g[i].run = g[j].run
               PROVE  g[i].turn <= g[j].turn
    BY DEF Ordered
  <2>1. CASE j \in DOMAIN h
    <3>1. i \in DOMAIN h /\ g[i] = h[i] /\ g[j] = h[j]
      BY <2>1, <1>1, <1>3, <1>5
    <3>. QED
      BY <2>1, <3>1 DEF Ordered
  <2>2. CASE j \notin DOMAIN h
    BY <2>2, <1>3, <1>7 DEF UpTo
  <2>. QED
    BY <2>1, <2>2
<1>9. Apart(g)
  <2> SUFFICES ASSUME NEW i \in DOMAIN g, NEW j \in DOMAIN g, NEW l \in DOMAIN g,
                      i < j, j < l, g[i].turn > 0, g[j].turn > 0, g[l].turn > 0,
                      g[i].run = g[l].run
               PROVE  g[j].run = g[i].run
    BY DEF Apart
  <2>1. CASE l \in DOMAIN h
    <3>1. i \in DOMAIN h /\ j \in DOMAIN h
      BY <2>1, <1>1, <1>2
    <3>2. g[i] = h[i] /\ g[j] = h[j] /\ g[l] = h[l]
      BY <2>1, <3>1, <1>3, <1>1
    <3>. QED
      BY <2>1, <3>1, <3>2 DEF Apart
  <2>2. CASE l \notin DOMAIN h
    BY <2>2, <1>3, <1>6 DEF Latest
  <2>. QED
    BY <2>1, <2>2
<1>10. \A u \in Tasks : u # t /\ Fresh(u, h) => Fresh(u, g)
  BY <1>3 DEF Fresh
<1>11. \A u \in Tasks, n \in Nat : u # t /\ UpTo(u, h, n) => UpTo(u, g, n)
  BY <1>3 DEF UpTo
<1>. QED
  BY <1>6, <1>7, <1>8, <1>9, <1>10, <1>11 DEF g

\* A prompt is nobody's writing.
LEMMA PromptChangesNothing ==
  ASSUME NEW h \in Seq(Message), NEW t \in Tasks
  PROVE  LET g == h \o <<Prompt(t)>> IN
         /\ Ordered(h) => Ordered(g)
         /\ Apart(h) => Apart(g)
         /\ \A u \in Tasks :
              /\ Fresh(u, h) => Fresh(u, g)
              /\ Latest(u, h) => Latest(u, g)
              /\ \A n \in Nat : UpTo(u, h, n) => UpTo(u, g, n)
<1> DEFINE g == h \o <<Prompt(t)>>
<1> DEFINE b == <<Prompt(t)>>
<1>1. /\ b \in Seq(Message) /\ Len(b) = 1
      /\ b[1].turn = 0
  BY DEF Prompt, UserMsg, Message
<1>2. DOMAIN h = 1..Len(h) /\ Len(h) \in Nat
  BY LenProperties
<1> HIDE DEF b
<1>3. /\ g \in Seq(Message) /\ Len(g) = Len(h) + 1
      /\ \A i \in 1..(Len(h) + 1) : g[i] = IF i <= Len(h) THEN h[i] ELSE b[i - Len(h)]
  BY <1>1, ConcatProperties DEF b
<1>4. DOMAIN g = 1..(Len(h) + 1)
  BY <1>3, LenProperties
<1>5. \A i \in DOMAIN g : g[i].turn > 0 => i \in DOMAIN h /\ g[i] = h[i]
  BY <1>1, <1>2, <1>3, <1>4
<1> HIDE DEF g
<1>6. (Ordered(h) => Ordered(g)) /\ (Apart(h) => Apart(g))
  BY <1>5 DEF Ordered, Apart
<1>7. \A u \in Tasks :
        /\ Fresh(u, h) => Fresh(u, g)
        /\ Latest(u, h) => Latest(u, g)
        /\ \A n \in Nat : UpTo(u, h, n) => UpTo(u, g, n)
  BY <1>5 DEF Fresh, Latest, UpTo
<1>. QED
  BY <1>6, <1>7 DEF g, b

\* The active run t writes a block in its turn and goes on, or ends.
LEMMA ActiveRunWrites ==
  ASSUME TypeOK, WritersInv, OneRunPerSession,
         NEW t \in Tasks, pc[t] \in Holding \ {"prepare"},
         NEW b \in Seq(Message), Write(t, b),
         \A i \in DOMAIN b : b[i].run = t /\ b[i].turn = turn[t],
         pc'[t] \in Holding \ {"prepare"},
         turn'[t] \in {turn[t], turn[t] + 1},
         \A u \in Tasks \ {t} : pc'[u] = pc[u] /\ turn'[u] = turn[u]
  PROVE  WritersInv'
<1> DEFINE S == SessionOf[t]
           H == history[S]
<1>1. S \in Sessions /\ H \in Seq(Message) /\ turn[t] \in Nat \ {0}
  BY RunAssumption DEF RunAssumption, TypeOK, WritersInv
<1>2. /\ history'[S] = H \o b
      /\ \A s \in Sessions : s # S => history'[s] = history[s]
  BY <1>1 DEF Write, TypeOK
<1>3. Active(t) /\ Active(t)'
  BY DEF Active, TypeOK
<1>4. /\ Ordered(H \o b) /\ Apart(H \o b)
      /\ Latest(t, H \o b) /\ UpTo(t, H \o b, turn[t])
      /\ \A u \in Tasks : u # t /\ Fresh(u, H) => Fresh(u, H \o b)
      /\ \A u \in Tasks, m \in Nat : u # t /\ UpTo(u, H, m) => UpTo(u, H \o b, m)
  BY <1>1, <1>3, BlockByLatest DEF WritersInv
<1>5. \A s \in Sessions : Ordered(history'[s]) /\ Apart(history'[s])
  BY <1>1, <1>2, <1>4 DEF WritersInv
<1>6. UpTo(t, H \o b, turn'[t])
  <2>1. H \o b \in Seq(Message)
    BY <1>1, ConcatProperties
  <2>2. \A i \in DOMAIN (H \o b) : (H \o b)[i].turn \in Nat
    BY <2>1, TurnsAreNat
  <2>3. \A m \in Nat : m <= turn[t] => m <= turn'[t]
    BY <1>1
  <2>. QED
    BY <1>4, <2>2, <2>3 DEF UpTo
<1>7. ASSUME NEW u \in Tasks, u # t
      PROVE  /\ pc'[u] \in {"idle", "arrived", "prepare"} => Fresh(u, history'[SessionOf[u]])
             /\ Active(u)' => Latest(u, history'[SessionOf[u]])
             /\ UpTo(u, history'[SessionOf[u]], turn'[u])
             /\ turn'[u] > 0
  <2>1. pc'[u] = pc[u] /\ turn'[u] = turn[u] /\ turn[u] \in Nat /\ SessionOf[u] \in Sessions
    BY <1>7, RunAssumption DEF TypeOK, RunAssumption
  <2>2. CASE SessionOf[u] # S
    BY <2>1, <2>2, <1>2 DEF WritersInv, Active
  <2>3. CASE SessionOf[u] = S
    <3>1. ~ Active(u)
      BY <2>3, <1>3, <1>7 DEF OneRunPerSession
    <3>. QED
      BY <2>1, <2>3, <3>1, <1>2, <1>4, <1>7 DEF WritersInv, Active
  <2>. QED
    BY <2>2, <2>3
<1>8. /\ pc'[t] \notin {"idle", "arrived", "prepare"}
      /\ Latest(t, history'[S]) /\ UpTo(t, history'[S], turn'[t])
      /\ turn'[t] > 0
  BY <1>1, <1>2, <1>4, <1>6 DEF TypeOK, Holding, InFlight
<1>. QED
  BY <1>5, <1>7, <1>8 DEF WritersInv

\* A step that writes nothing and neither begins nor restarts a run.
LEMMA SilentStep ==
  ASSUME TypeOK, WritersInv, NEW t \in Tasks,
         history' = history, turn' = turn,
         NEW label, pc' = [pc EXCEPT ![t] = label],
         label \in {"idle", "arrived", "prepare"} =>
           pc[t] \in {"idle", "arrived", "prepare"},
         label \in Holding =>
           pc[t] \in {"idle", "arrived", "prepare"} \/ Active(t)
  PROVE  WritersInv'
<1>1. \A h : Fresh(t, h) => Latest(t, h)
  BY DEF Fresh, Latest
<1>2. \A u \in Tasks : u # t => pc'[u] = pc[u] /\ (Active(u)' <=> Active(u))
  BY DEF TypeOK, Active
<1>3. pc'[t] = label
  BY DEF TypeOK
<1>. QED
  BY <1>1, <1>2, <1>3 DEF WritersInv, Active

\* Every message of a run is in a block of its own that ends before the run of
\* another task writes: the strengthening of RunsDoNotInterleave.
THEOREM Writers == Spec => []WritersInv
<1>1. Init => WritersInv
  BY RunAssumption DEF Init, WritersInv, RunAssumption, Active, Holding, InFlight,
         Ordered, Apart, Fresh, Latest, UpTo
<1>2. TypeOK /\ OneRunPerSession /\ WritersInv /\ [Next]_vars => WritersInv'
  <2> SUFFICES ASSUME TypeOK, OneRunPerSession, WritersInv, [Next]_vars
               PROVE  WritersInv'
    OBVIOUS
  <2> USE RunAssumption
  <2>1. ASSUME NEW t \in Tasks, Arrive(t) PROVE WritersInv'
    <3> DEFINE S == SessionOf[t]
    <3>1. S \in Sessions /\ \A s \in Sessions : history[s] \in Seq(Message)
      BY DEF RunAssumption, TypeOK
    <3>2. \A s \in Sessions :
            history'[s] = IF s = S THEN history[s] \o <<Prompt(t)>> ELSE history[s]
      BY <2>1, <3>1 DEF Arrive, Write, TypeOK
    <3>3. /\ turn' = turn /\ \A u \in Tasks : turn[u] \in Nat
          /\ \A u \in Tasks : SessionOf[u] \in Sessions
          /\ \A u \in Tasks :
               pc'[u] \in {"idle", "arrived", "prepare"}
                 => pc[u] \in {"idle", "arrived", "prepare"}
          /\ \A u \in Tasks : Active(u)' => Active(u)
      BY <2>1 DEF Arrive, Goto, TypeOK, RunAssumption, Active, Holding, InFlight
    <3>4. \A s \in Sessions : Ordered(history'[s]) /\ Apart(history'[s])
      BY <3>1, <3>2, PromptChangesNothing DEF WritersInv
    <3>5. \A u \in Tasks : LET h == history[SessionOf[u]]
                               g == history'[SessionOf[u]] IN
            /\ Fresh(u, h) => Fresh(u, g)
            /\ Latest(u, h) => Latest(u, g)
            /\ UpTo(u, h, turn[u]) => UpTo(u, g, turn[u])
      BY <3>1, <3>2, <3>3, PromptChangesNothing
    <3>. QED
      BY <3>3, <3>4, <3>5 DEF WritersInv
  <2>2. ASSUME NEW t \in Tasks, Refuse(t) PROVE WritersInv'
    BY <2>2, SilentStep DEF Refuse, Return, Goto, shared, Holding, InFlight
  <2>3. ASSUME NEW t \in Tasks, Start(t) PROVE WritersInv'
    BY <2>3, SilentStep DEF Start, Goto
  <2>4. ASSUME NEW t \in Tasks, Prepare(t) PROVE WritersInv'
    BY <2>4, SilentStep DEF Prepare, Finish, Goto, shared
  <2>5. ASSUME NEW t \in Tasks, BeginTurn(t) \/ AskFinal(t) PROVE WritersInv'
    BY <2>5, SilentStep DEF BeginTurn, AskFinal, Send, Goto, Active, Holding
  <2>6. ASSUME NEW t \in Tasks, ForceFinal(t) PROVE WritersInv'
    <3> DEFINE b == <<Notice(t, turn[t])>>
    <3>1. b \in Seq(Message) /\ \A i \in DOMAIN b : b[i].run = t /\ b[i].turn = turn[t]
      BY MessagesAreTyped DEF Notice, UserMsg, TypeOK
    <3>2. /\ pc[t] \in Holding \ {"prepare"} /\ pc'[t] \in Holding \ {"prepare"}
          /\ Write(t, b) /\ turn' = turn /\ \A u \in Tasks \ {t} : pc'[u] = pc[u]
      BY <2>6 DEF ForceFinal, Goto, Holding, InFlight, TypeOK
    <3>. QED
      BY <3>1, <3>2, ActiveRunWrites
  <2>7. ASSUME NEW t \in Tasks, AbortTurn(t) \/ CallFails(t) \/ DropAnswer(t)
                                \/ AbortBatch(t)
        PROVE  WritersInv'
    <3>1. /\ Active(t) /\ pc' = [pc EXCEPT ![t] = "ending"]
          /\ history' = history /\ turn' = turn
      BY <2>7 DEF AbortTurn, CallFails, DropAnswer, AbortBatch, Finish, Goto,
                  shared, Active, Holding, InFlight
    <3>. QED
      BY <3>1, SilentStep
  <2>8. ASSUME NEW t \in Tasks, ThinkAnswer(t) PROVE WritersInv'
    BY <2>8, SilentStep DEF ThinkAnswer, Send, Goto, Active, Holding, InFlight
  <2>9. ASSUME NEW t \in Tasks, ActAnswer(t) PROVE WritersInv'
    <3>1. PICK n \in 0..MaxCalls : Write(t, <<Reply(t, turn[t], n)>>)
      BY <2>9 DEF ActAnswer
    <3> DEFINE b == <<Reply(t, turn[t], n)>>
    <3>2. b \in Seq(Message) /\ \A i \in DOMAIN b : b[i].run = t /\ b[i].turn = turn[t]
      BY MessagesAreTyped DEF Reply, TypeOK, RunAssumption
    <3>3. PICK label \in {"ending", "exec"} : pc' = [pc EXCEPT ![t] = label]
      BY <2>9 DEF ActAnswer, Finish, Goto
    <3>4. /\ pc[t] \in Holding \ {"prepare"} /\ pc'[t] \in Holding \ {"prepare"}
          /\ turn' = turn /\ \A u \in Tasks \ {t} : pc'[u] = pc[u]
      BY <2>9, <3>3 DEF ActAnswer, Holding, InFlight, TypeOK
    <3>. QED
      BY <3>1, <3>2, <3>4, ActiveRunWrites
  <2>10. ASSUME NEW t \in Tasks, FinalAnswer(t) PROVE WritersInv'
    <3> DEFINE b == <<Reply(t, turn[t], 0)>>
    <3>1. b \in Seq(Message) /\ \A i \in DOMAIN b : b[i].run = t /\ b[i].turn = turn[t]
      BY MessagesAreTyped DEF Reply, TypeOK
    <3>2. /\ pc[t] \in Holding \ {"prepare"} /\ pc'[t] \in Holding \ {"prepare"}
          /\ Write(t, b) /\ turn' = turn /\ \A u \in Tasks \ {t} : pc'[u] = pc[u]
      BY <2>10 DEF FinalAnswer, Finish, Goto, Holding, InFlight, TypeOK
    <3>. QED
      BY <3>1, <3>2, ActiveRunWrites
  <2>11. ASSUME NEW t \in Tasks, NEW i \in DOMAIN calls[t],
                CallStart(t, i) \/ CallReturn(t, i)
         PROVE  WritersInv'
    BY <2>11 DEF CallStart, CallReturn, CallStep, shared, WritersInv, Active
  <2>12. ASSUME NEW t \in Tasks, FinishBatch(t) PROVE WritersInv'
    <3>1. turn[t] \in Nat /\ Len(calls[t]) \in Nat
      BY LenProperties DEF TypeOK
    <3>2. Results(t) \in Seq(Message)
      BY <3>1, MessagesAreTyped DEF Results, Result
    <3>3. Append(Results(t), Notice(t, turn[t])) \in Seq(Message)
      BY <3>1, <3>2, MessagesAreTyped, AppendProperties DEF Notice
    <3>4. PICK b \in {Results(t), Append(Results(t), Notice(t, turn[t]))} : Write(t, b)
      BY <2>12 DEF FinishBatch, Observations
    <3>5. \A i \in DOMAIN b : b[i].run = t /\ b[i].turn = turn[t]
      <4>1. /\ DOMAIN Results(t) = 1..Len(calls[t]) /\ Len(Results(t)) = Len(calls[t])
            /\ \A i \in 1..Len(calls[t]) :
                 Results(t)[i].run = t /\ Results(t)[i].turn = turn[t]
        BY <3>1, <3>2, LenProperties DEF Results, Result, UserMsg
      <4>2. Notice(t, turn[t]).run = t /\ Notice(t, turn[t]).turn = turn[t]
        BY DEF Notice, UserMsg
      <4>3. CASE b = Results(t)
        BY <3>1, <4>1, <4>3
      <4>4. CASE b = Append(Results(t), Notice(t, turn[t]))
        <5>1. DOMAIN b = 1..(Len(calls[t]) + 1)
          BY <3>2, <3>3, <4>1, <4>4, LenProperties, AppendProperties, MessagesAreTyped,
             <3>1 DEF Notice
        <5>2. \A i \in 1..(Len(calls[t]) + 1) :
                b[i] = IF i <= Len(calls[t]) THEN Results(t)[i] ELSE Notice(t, turn[t])
          BY <3>1, <3>2, <4>1, <4>4, AppendProperties, MessagesAreTyped DEF Notice
        <5>. QED
          BY <3>1, <4>1, <4>2, <5>1, <5>2
      <4>. QED
        BY <3>4, <4>3, <4>4
    <3>6. /\ pc[t] \in Holding \ {"prepare"} /\ pc'[t] \in Holding \ {"prepare"}
          /\ turn'[t] = turn[t] + 1
          /\ \A u \in Tasks \ {t} : pc'[u] = pc[u] /\ turn'[u] = turn[u]
      BY <2>12 DEF FinishBatch, Goto, Holding, InFlight, TypeOK
    <3>. QED
      BY <3>2, <3>3, <3>4, <3>5, <3>6, ActiveRunWrites
  <2>13. ASSUME NEW t \in Tasks, EndRun(t) PROVE WritersInv'
    BY <2>13, SilentStep DEF EndRun, Goto, Holding, InFlight
  <2>14. ASSUME NEW t \in Tasks, Cancel(t) PROVE WritersInv'
    BY <2>14 DEF Cancel, shared, WritersInv, Active
  <2>15. CASE UNCHANGED vars
    BY <2>15 DEF vars, local, shared, WritersInv, Active
  <2>. QED
    BY <2>1, <2>2, <2>3, <2>4, <2>5, <2>6, <2>7, <2>8, <2>9, <2>10, <2>11,
       <2>12, <2>13, <2>14, <2>15
    DEF Next, RunStep, EngineStep, AllDone
<1>. QED
  BY <1>1, <1>2, Typing, RunExclusion, PTL DEF Spec

\* Whatever the tasks do, what two runs write in a session never interleaves.
THEOREM NoInterleaving == Spec => []RunsDoNotInterleave
<1>1. TypeOK /\ WritersInv => RunsDoNotInterleave
  BY LenProperties DEF TypeOK, WritersInv, RunsDoNotInterleave, Ordered, Apart
<1>. QED
  BY <1>1, Typing, Writers, PTL

-----------------------------------------------------------------------------
(* What runs come to. *)

\* A run has an outcome from when it decides to return.
Decided == \A t \in Tasks : outcome[t] = "none" <=> pc[t] \notin {"ending", "done"}

Concluding(m, t) == m.run = t /\ m.role = "assistant" /\ m.calls = 0

Unconcluded(t, h) == \A i \in DOMAIN h : ~ Concluding(h[i], t)

Concluded(t, h) == \E i \in DOMAIN h :
  /\ Concluding(h[i], t)
  /\ \A j \in (i+1)..Len(h) : h[j].turn > 0 => h[j].run # t

\* Before it succeeds a run writes nothing that concludes, afterwards nothing.
Kept == \A t \in Tasks :
  /\ outcome[t] = "ok" => Concluded(t, history[SessionOf[t]])
  /\ outcome[t] # "ok" => Unconcluded(t, history[SessionOf[t]])

OutcomeInv == Decided /\ Kept

-----------------------------------------------------------------------------
(* A block at the end of a history. *)

LEMMA BlockAtEnd ==
  ASSUME NEW h \in Seq(Message), NEW b \in Seq(Message)
  PROVE  /\ Len(h) \in Nat /\ Len(b) \in Nat
         /\ DOMAIN h = 1..Len(h) /\ DOMAIN b = 1..Len(b)
         /\ Len(h \o b) = Len(h) + Len(b) /\ DOMAIN (h \o b) = 1..(Len(h) + Len(b))
         /\ \A i \in 1..(Len(h) + Len(b)) :
              (h \o b)[i] = IF i <= Len(h) THEN h[i] ELSE b[i - Len(h)]
  BY ConcatProperties, LenProperties

LEMMA StaysUnconcluded ==
  ASSUME NEW h \in Seq(Message), NEW b \in Seq(Message), NEW t,
         Unconcluded(t, h), Unconcluded(t, b)
  PROVE  Unconcluded(t, h \o b)
<1> DEFINE g == h \o b
<1>1. ASSUME NEW i \in DOMAIN g PROVE ~ Concluding(g[i], t)
  <2>1. CASE i <= Len(h)
    BY <2>1, BlockAtEnd DEF Unconcluded
  <2>2. CASE ~ (i <= Len(h))
    <3>1. i - Len(h) \in DOMAIN b /\ g[i] = b[i - Len(h)]
      BY <2>2, BlockAtEnd
    <3>. QED
      BY <3>1 DEF Unconcluded
  <2>. QED
    BY <2>1, <2>2
<1>. QED
  BY <1>1 DEF Unconcluded

LEMMA StaysConcluded ==
  ASSUME NEW h \in Seq(Message), NEW b \in Seq(Message), NEW t,
         Concluded(t, h), \A i \in DOMAIN b : b[i].run # t
  PROVE  Concluded(t, h \o b)
<1> DEFINE g == h \o b
<1>1. PICK i \in DOMAIN h :
        /\ Concluding(h[i], t)
        /\ \A j \in (i+1)..Len(h) : h[j].turn > 0 => h[j].run # t
  BY DEF Concluded
<1>2. i \in DOMAIN g /\ g[i] = h[i]
  BY <1>1, BlockAtEnd
<1>3. ASSUME NEW j \in (i+1)..Len(g), g[j].turn > 0 PROVE g[j].run # t
  <2>1. CASE j <= Len(h)
    <3>1. j \in (i+1)..Len(h) /\ g[j] = h[j]
      BY <2>1, BlockAtEnd
    <3>. QED
      BY <1>1, <1>3, <3>1
  <2>2. CASE ~ (j <= Len(h))
    <3>1. j - Len(h) \in DOMAIN b /\ g[j] = b[j - Len(h)]
      BY <2>2, BlockAtEnd
    <3>. QED
      BY <3>1
  <2>. QED
    BY <2>1, <2>2
<1>. QED
  BY <1>1, <1>2, <1>3 DEF Concluded

LEMMA ReplyConcludes ==
  ASSUME NEW h \in Seq(Message), NEW t \in Tasks, NEW k \in Nat
  PROVE  Concluded(t, h \o <<Reply(t, k, 0)>>)
<1> DEFINE b == <<Reply(t, k, 0)>>
<1>1. b \in Seq(Message) /\ Len(b) = 1 /\ Concluding(b[1], t)
  BY MessagesAreTyped DEF Reply, Concluding
<1> HIDE DEF b
<1>2. /\ Len(h) + 1 \in DOMAIN (h \o b) /\ (h \o b)[Len(h) + 1] = b[1]
      /\ Len(h \o b) = Len(h) + 1 /\ Len(h) \in Nat
  BY <1>1, BlockAtEnd
<1>3. Concluded(t, h \o b)
  BY <1>1, <1>2 DEF Concluded
<1>. QED
  BY <1>3 DEF b

\* A run without an outcome writes, and has none still.
LEMMA WritingKeeps ==
  ASSUME TypeOK, Kept, NEW t \in Tasks, NEW b \in Seq(Message), Write(t, b),
         \A i \in DOMAIN b : b[i].run = t, Unconcluded(t, b),
         outcome[t] = "none", outcome' = outcome
  PROVE  Kept'
<1>1. \A u \in Tasks : SessionOf[u] \in Sessions /\ history[SessionOf[u]] \in Seq(Message)
  BY RunAssumption DEF RunAssumption, TypeOK
<1>2. ASSUME NEW u \in Tasks
      PROVE  history'[SessionOf[u]] = IF SessionOf[u] = SessionOf[t]
                                      THEN history[SessionOf[u]] \o b
                                      ELSE history[SessionOf[u]]
  BY <1>1 DEF Write, TypeOK
<1>3. ASSUME NEW u \in Tasks, outcome[u] = "ok"
      PROVE  Concluded(u, history'[SessionOf[u]])
  <2>1. \A i \in DOMAIN b : b[i].run # u
    BY <1>3
  <2>. QED
    BY <1>1, <1>2, <1>3, <2>1, StaysConcluded DEF Kept
<1>4. ASSUME NEW u \in Tasks, outcome[u] # "ok"
      PROVE  Unconcluded(u, history'[SessionOf[u]])
  <2>1. Unconcluded(u, b)
    BY DEF Unconcluded, Concluding
  <2>. QED
    BY <1>1, <1>2, <1>4, <2>1, StaysUnconcluded DEF Kept
<1>. QED
  BY <1>3, <1>4 DEF Kept

\* A run concludes and succeeds.
LEMMA ConcludingKeeps ==
  ASSUME TypeOK, Kept, NEW t \in Tasks, NEW k \in Nat, Write(t, <<Reply(t, k, 0)>>),
         outcome[t] = "none", outcome' = [outcome EXCEPT ![t] = "ok"]
  PROVE  Kept'
<1> DEFINE b == <<Reply(t, k, 0)>>
<1>1. \A u \in Tasks : SessionOf[u] \in Sessions /\ history[SessionOf[u]] \in Seq(Message)
  BY RunAssumption DEF RunAssumption, TypeOK
<1>2. ASSUME NEW u \in Tasks
      PROVE  history'[SessionOf[u]] = IF SessionOf[u] = SessionOf[t]
                                      THEN history[SessionOf[u]] \o b
                                      ELSE history[SessionOf[u]]
  BY <1>1 DEF Write, TypeOK
<1>3. b \in Seq(Message) /\ \A i \in DOMAIN b : b[i].run = t
  BY MessagesAreTyped DEF Reply
<1>4. Concluded(t, history'[SessionOf[t]])
  BY <1>1, <1>2, ReplyConcludes
<1> HIDE DEF b
<1>5. ASSUME NEW u \in Tasks, u # t
      PROVE  /\ outcome[u] = "ok" => Concluded(u, history'[SessionOf[u]])
             /\ outcome[u] # "ok" => Unconcluded(u, history'[SessionOf[u]])
  <2>1. Unconcluded(u, b) /\ \A i \in DOMAIN b : b[i].run # u
    BY <1>3, <1>5 DEF Unconcluded, Concluding
  <2>. QED
    BY <1>1, <1>2, <1>3, <2>1, StaysConcluded, StaysUnconcluded DEF Kept
<1>6. outcome'[t] = "ok" /\ \A u \in Tasks : u # t => outcome'[u] = outcome[u]
  BY DEF TypeOK
<1>. QED
  BY <1>4, <1>5, <1>6 DEF Kept

-----------------------------------------------------------------------------
(* The steps. *)

LEMMA DecidedStep == TypeOK /\ Decided /\ [Next]_vars => Decided'
<1> SUFFICES ASSUME TypeOK, Decided, [Next]_vars PROVE Decided'
  OBVIOUS
<1> USE DEF TypeOK, Decided, Goto, Finish, Return
<1>1. ASSUME NEW t \in Tasks, Arrive(t) \/ Cancel(t) \/ EndRun(t) PROVE Decided'
  BY <1>1 DEF Arrive, Cancel, EndRun
<1>2. ASSUME NEW t \in Tasks, Refuse(t) \/ Start(t) \/ Prepare(t) PROVE Decided'
  BY <1>2 DEF Refuse, Start, Prepare
<1>3. ASSUME NEW t \in Tasks, BeginTurn(t) \/ ForceFinal(t) \/ AskFinal(t) \/ AbortTurn(t)
      PROVE  Decided'
  BY <1>3 DEF BeginTurn, ForceFinal, AskFinal, AbortTurn, Send
<1>4. ASSUME NEW t \in Tasks, CallFails(t) \/ DropAnswer(t) \/ ThinkAnswer(t)
      PROVE  Decided'
  BY <1>4 DEF CallFails, DropAnswer, ThinkAnswer, Send, InFlight
<1>5. ASSUME NEW t \in Tasks, ActAnswer(t) \/ FinalAnswer(t) PROVE Decided'
  BY <1>5 DEF ActAnswer, FinalAnswer
<1>6. ASSUME NEW t \in Tasks, NEW i \in DOMAIN calls[t],
             CallStart(t, i) \/ CallReturn(t, i)
      PROVE  Decided'
  BY <1>6 DEF CallStart, CallReturn, CallStep
<1>7. ASSUME NEW t \in Tasks, AbortBatch(t) \/ FinishBatch(t) PROVE Decided'
  BY <1>7 DEF AbortBatch, FinishBatch
<1>8. CASE UNCHANGED vars
  BY <1>8 DEF vars, local
<1>. QED
  BY <1>1, <1>2, <1>3, <1>4, <1>5, <1>6, <1>7, <1>8 DEF Next, RunStep, EngineStep, AllDone

\* What a batch appends: results and perhaps a reminder, nothing that concludes.
LEMMA ObservationsDoNotConclude ==
  ASSUME TypeOK, NEW t \in Tasks, NEW worst
  PROVE  LET b == Observations(t, worst) IN
         /\ b \in Seq(Message) /\ Unconcluded(t, b)
         /\ \A i \in DOMAIN b : b[i].run = t
<1>1. turn[t] \in Nat /\ Len(calls[t]) \in Nat
  BY LenProperties DEF TypeOK
<1>2. Results(t) \in Seq(Message) /\ Notice(t, turn[t]) \in Message
  BY <1>1, MessagesAreTyped DEF Results, Result, Notice
<1>3. Notice(t, turn[t]).run = t /\ Notice(t, turn[t]).role = "user"
  BY DEF Notice, UserMsg
<1>4. \A i \in DOMAIN Results(t) : Results(t)[i].run = t /\ Results(t)[i].role = "user"
  BY DEF Results, Result, UserMsg
<1>5. CASE Observations(t, worst) = Results(t)
  BY <1>2, <1>4, <1>5 DEF Unconcluded, Concluding
<1>6. CASE Observations(t, worst) = Append(Results(t), Notice(t, turn[t]))
  <2> DEFINE r == Results(t)
             n == Notice(t, turn[t])
  <2> HIDE DEF r, n
  <2>1. /\ Append(r, n) \in Seq(Message) /\ Len(Append(r, n)) = Len(r) + 1
        /\ Append(r, n)[Len(r) + 1] = n /\ Len(r) \in Nat
        /\ \A i \in 1..Len(r) : Append(r, n)[i] = r[i]
    BY <1>2, AppendProperties, LenProperties DEF r, n
  <2>2. DOMAIN r = 1..Len(r) /\ DOMAIN Append(r, n) = 1..(Len(r) + 1)
    BY <1>2, <2>1, LenProperties DEF r
  <2>3. \A i \in DOMAIN Append(r, n) :
          Append(r, n)[i].run = t /\ Append(r, n)[i].role = "user"
    BY <1>3, <1>4, <2>1, <2>2 DEF r, n
  <2>. QED
    BY <1>6, <2>1, <2>3 DEF Unconcluded, Concluding, r, n
<1>. QED
  BY <1>5, <1>6 DEF Observations

LEMMA KeptStep == TypeOK /\ Decided /\ Kept /\ [Next]_vars => Kept'
<1> SUFFICES ASSUME TypeOK, Decided, Kept, [Next]_vars PROVE Kept'
  OBVIOUS
<1> USE RunAssumption
<1>1. ASSUME NEW t \in Tasks, Arrive(t) PROVE Kept'
  <2> DEFINE b == <<Prompt(t)>>
  <2>1. b \in Seq(Message) /\ Unconcluded(t, b) /\ \A i \in DOMAIN b : b[i].run = t
    BY MessagesAreTyped DEF Prompt, UserMsg, Unconcluded, Concluding
  <2>2. outcome[t] = "none" /\ outcome' = outcome /\ Write(t, b)
    BY <1>1 DEF Arrive, Decided
  <2>. QED
    BY <2>1, <2>2, WritingKeeps
<1>2. ASSUME NEW t \in Tasks, ForceFinal(t) PROVE Kept'
  <2> DEFINE b == <<Notice(t, turn[t])>>
  <2>1. b \in Seq(Message) /\ Unconcluded(t, b) /\ \A i \in DOMAIN b : b[i].run = t
    BY MessagesAreTyped DEF Notice, UserMsg, Unconcluded, Concluding, TypeOK
  <2>2. outcome[t] = "none" /\ outcome' = outcome /\ Write(t, b)
    BY <1>2 DEF ForceFinal, Decided
  <2>. QED
    BY <2>1, <2>2, WritingKeeps
<1>3. ASSUME NEW t \in Tasks, FinishBatch(t) PROVE Kept'
  <2>1. PICK worst : Write(t, Observations(t, worst))
    BY <1>3 DEF FinishBatch
  <2>2. outcome[t] = "none" /\ outcome' = outcome
    BY <1>3 DEF FinishBatch, Decided
  <2>. QED
    BY <2>1, <2>2, ObservationsDoNotConclude, WritingKeeps
<1>4. ASSUME NEW t \in Tasks, FinalAnswer(t) PROVE Kept'
  <2>1. /\ outcome[t] = "none" /\ outcome' = [outcome EXCEPT ![t] = "ok"]
        /\ Write(t, <<Reply(t, turn[t], 0)>>) /\ turn[t] \in Nat
    BY <1>4 DEF FinalAnswer, Finish, Decided, TypeOK
  <2>. QED
    BY <2>1, ConcludingKeeps
<1>5. ASSUME NEW t \in Tasks, ActAnswer(t) PROVE Kept'
  <2>1. PICK n \in 0..MaxCalls :
          /\ Write(t, <<Reply(t, turn[t], n)>>)
          /\ IF n = 0 THEN Finish(t, "ok") ELSE outcome' = outcome
    BY <1>5 DEF ActAnswer
  <2>2. outcome[t] = "none" /\ turn[t] \in Nat /\ n \in Nat
    <3>1. pc[t] = "act"
      BY <1>5 DEF ActAnswer
    <3>2. n \in Nat
      BY <2>1 DEF RunAssumption
    <3>. QED
      BY <3>1, <3>2 DEF Decided, TypeOK
  <2>3. CASE n = 0
    BY <2>1, <2>2, <2>3, ConcludingKeeps DEF Finish
  <2>4. CASE n # 0
    <3> DEFINE b == <<Reply(t, turn[t], n)>>
    <3>1. b \in Seq(Message) /\ Unconcluded(t, b) /\ \A i \in DOMAIN b : b[i].run = t
      BY <2>2, <2>4, MessagesAreTyped DEF Reply, Unconcluded, Concluding
    <3>. QED
      BY <2>1, <2>2, <2>4, <3>1, WritingKeeps
  <2>. QED
    BY <2>3, <2>4
<1>6. ASSUME history' = history, NEW t \in Tasks, outcome[t] = "none",
             NEW result, result # "ok", outcome' = [outcome EXCEPT ![t] = result]
      PROVE  Kept'
  BY <1>6 DEF Kept, TypeOK
<1>7. ASSUME NEW t \in Tasks,
             \/ Refuse(t) \/ AbortTurn(t) \/ CallFails(t) \/ DropAnswer(t)
             \/ AbortBatch(t) \/ (Prepare(t) /\ outcome' # outcome)
      PROVE  Kept'
  <2>1. PICK result \in {"busy", "error"} : outcome' = [outcome EXCEPT ![t] = result]
    BY <1>7 DEF Refuse, AbortTurn, CallFails, DropAnswer, AbortBatch, Prepare,
                Return, Finish
  <2>2. history' = history /\ outcome[t] = "none"
    BY <1>7 DEF Refuse, AbortTurn, CallFails, DropAnswer, AbortBatch, Prepare,
                shared, Decided, InFlight
  <2>. QED
    BY <1>6, <2>1, <2>2
<1>8. ASSUME history' = history, outcome' = outcome PROVE Kept'
  BY <1>8 DEF Kept
<1>9. ASSUME NEW t \in Tasks,
             \/ Cancel(t) \/ Start(t) \/ BeginTurn(t) \/ AskFinal(t)
             \/ ThinkAnswer(t) \/ EndRun(t)
             \/ (Prepare(t) /\ outcome' = outcome)
             \/ \E i \in DOMAIN calls[t] : CallStart(t, i) \/ CallReturn(t, i)
      PROVE  Kept'
  BY <1>8, <1>9 DEF Cancel, Start, BeginTurn, AskFinal, ThinkAnswer, EndRun, Prepare, CallStart,
                    CallReturn, CallStep, shared
<1>10. CASE UNCHANGED vars
  BY <1>8, <1>10 DEF vars, local, shared
<1>. QED
  BY <1>1, <1>2, <1>3, <1>4, <1>5, <1>7, <1>9, <1>10 DEF Next, RunStep, EngineStep, AllDone

LEMMA OutcomeInvariant == Spec => []OutcomeInv
<1>1. Init => OutcomeInv
  BY RunAssumption DEF Init, OutcomeInv, Decided, Kept, Unconcluded, RunAssumption
<1>2. TypeOK /\ OutcomeInv /\ [Next]_vars => OutcomeInv'
  BY DecidedStep, KeptStep DEF OutcomeInv
<1>. QED
  BY <1>1, <1>2, Typing, PTL DEF Spec

\* A run that succeeds has written a reply without tool calls and nothing after
\* it, and no other run has ( Run, forceFinalTurn; subConclusion relies on it ).
THEOREM SuccessConcludes == Spec => []SuccessIsConcluded
<1>1. OutcomeInv => SuccessIsConcluded
  BY DEF OutcomeInv, Kept, Concluded, Unconcluded, Concluding, SuccessIsConcluded
<1>. QED
  BY <1>1, OutcomeInvariant, PTL

-----------------------------------------------------------------------------
(* The ledger. *)

LEMMA Products ==
  ASSUME NEW a \in Nat, NEW b \in Nat, NEW u \in Nat, a <= b
  PROVE  a * u \in Nat /\ b * u \in Nat /\ a * u <= b * u /\ (a + 1) * u = a * u + u
  BY SMTT(30)

LEMMA OneMore ==
  ASSUME NEW a \in Nat, NEW b \in Nat, NEW u \in Nat, a + 1 <= b
  PROVE  a * u + u <= b * u /\ a * u \in Nat
<1>1. a + 1 \in Nat
  OBVIOUS
<1>2. (a + 1) * u = a * u + u /\ a * u \in Nat
  BY Products
<1>3. (a + 1) * u <= b * u
  BY <1>1, Products
<1>. QED
  BY <1>2, <1>3

\* Who has failed after a cancellation, has.
LEMMA AbortedGrows ==
  ASSUME TypeOK, Decided, [Next]_vars
  PROVE  Aborted \subseteq Aborted'
<1>1. ASSUME NEW t \in Tasks, cancelled[t] PROVE cancelled'[t]
  <2> USE DEF TypeOK
  <2>1. CASE cancelled' = cancelled
    BY <1>1, <2>1
  <2>2. ASSUME NEW u \in Tasks, Cancel(u) PROVE cancelled'[t]
    BY <1>1, <2>2 DEF Cancel
  <2>3. \/ cancelled' = cancelled
        \/ \E u \in Tasks : Cancel(u)
    BY DEF Next, RunStep, EngineStep, AllDone, Arrive, Refuse, Start, Prepare, BeginTurn,
           ForceFinal, AskFinal, AbortTurn, CallFails, DropAnswer, ThinkAnswer, ActAnswer, FinalAnswer,
           CallStart, CallReturn, CallStep, AbortBatch, FinishBatch, EndRun, vars, local
  <2>. QED
    BY <2>1, <2>2, <2>3
<1>2. ASSUME NEW t \in Tasks, outcome[t] # "none" PROVE outcome'[t] = outcome[t]
  <2>1. CASE outcome' = outcome
    BY <2>1
  <2>2. ASSUME NEW u \in Tasks, outcome[u] = "none",
               \E r : outcome' = [outcome EXCEPT ![u] = r]
        PROVE  outcome'[t] = outcome[t]
    BY <1>2, <2>2 DEF TypeOK
  <2>3. ASSUME NEW u \in Tasks,
               \/ Arrive(u) \/ Cancel(u) \/ Start(u) \/ BeginTurn(u) \/ AskFinal(u) \/ ForceFinal(u)
               \/ ThinkAnswer(u) \/ FinishBatch(u) \/ EndRun(u)
               \/ \E i \in DOMAIN calls[u] : CallStart(u, i) \/ CallReturn(u, i)
        PROVE  outcome' = outcome
    BY <2>3 DEF Arrive, Cancel, Start, BeginTurn, AskFinal, ForceFinal, ThinkAnswer, FinishBatch,
                EndRun, CallStart, CallReturn, CallStep
  <2>4. ASSUME NEW u \in Tasks,
               \/ Refuse(u) \/ Prepare(u) \/ AbortTurn(u) \/ CallFails(u)
               \/ DropAnswer(u) \/ ActAnswer(u) \/ FinalAnswer(u) \/ AbortBatch(u)
        PROVE  /\ outcome[u] = "none"
               /\ outcome' = outcome \/ \E r : outcome' = [outcome EXCEPT ![u] = r]
    BY <2>4 DEF Refuse, Prepare, AbortTurn, CallFails, DropAnswer, ActAnswer, FinalAnswer,
                AbortBatch, Return, Finish, Decided, InFlight
  <2>5. CASE UNCHANGED vars
    BY <2>5 DEF vars, local
  <2>. QED
    BY <2>1, <2>2, <2>3, <2>4, <2>5 DEF Next, RunStep, EngineStep, AllDone
<1>. QED
  BY <1>1, <1>2 DEF Aborted

\* The ledger never counts more than was billed, and misses at most one answer
\* of each cancelled run ( think and act return before Observe ).
THEOREM LedgerLossBounded ==
  ASSUME IsFiniteSet(Tasks)
  PROVE  Spec => []LedgerLossIsBounded
<1>1. Init => LedgerLossIsBounded
  <2> SUFFICES ASSUME Init PROVE LedgerLossIsBounded
    OBVIOUS
  <2>1. Aborted = {}
    BY DEF Init, Aborted
  <2>. QED
    BY <2>1, FS_EmptySet, RunAssumption DEF Init, LedgerLossIsBounded, RunAssumption
<1>2. TypeOK /\ Decided /\ LedgerLossIsBounded /\ [Next]_vars => LedgerLossIsBounded'
  <2> SUFFICES ASSUME TypeOK, Decided, LedgerLossIsBounded, [Next]_vars
               PROVE  LedgerLossIsBounded'
    OBVIOUS
  <2> DEFINE a == Cardinality(Aborted)
             b == Cardinality(Aborted')
  <2>1. IsFiniteSet(Aborted) /\ IsFiniteSet(Aborted') /\ Aborted \subseteq Aborted'
    BY AbortedGrows, FS_Subset DEF Aborted
  <2>2. a \in Nat /\ b \in Nat /\ a <= b
    BY <2>1, FS_CardinalityType, FS_Subset
  <2>3. total \in Nat /\ billed \in Nat /\ MaxUsage \in Nat
    BY RunAssumption DEF TypeOK, RunAssumption
  <2>4. total <= billed /\ billed <= total + a * MaxUsage
    BY DEF LedgerLossIsBounded
  <2>5. LedgerLossIsBounded' <=> total' <= billed' /\ billed' <= total' + b * MaxUsage
    BY DEF LedgerLossIsBounded
  <2>6. a * MaxUsage \in Nat /\ b * MaxUsage \in Nat /\ a * MaxUsage <= b * MaxUsage
    BY <2>2, <2>3, Products
  <2>7. CASE \E u \in 0..MaxUsage : Bill(u) /\ Observe(u)
    BY <2>3, <2>4, <2>5, <2>6, <2>7 DEF Bill, Observe
  <2>8. CASE total' = total /\ billed' = billed
    <3> HIDE DEF a, b
    <3>. QED
      BY <2>3, <2>4, <2>5, <2>6, <2>8
  <2>9. ASSUME NEW t \in Tasks, DropAnswer(t) PROVE LedgerLossIsBounded'
    <3>1. t \notin Aborted /\ t \in Aborted'
      BY <2>9 DEF DropAnswer, Finish, Decided, Aborted, TypeOK
    <3>2. Aborted \subseteq Aborted' \ {t} /\ Cardinality(Aborted' \ {t}) = b - 1
          /\ IsFiniteSet(Aborted' \ {t})
      BY <2>1, <3>1, FS_RemoveElement
    <3>3. a <= b - 1 /\ b - 1 \in Nat
      BY <2>1, <2>2, <3>2, FS_Subset, FS_CardinalityType
    <3> HIDE DEF a, b
    <3>4. a * MaxUsage <= (b - 1) * MaxUsage /\ (b - 1) * MaxUsage \in Nat
          /\ ((b - 1) + 1) * MaxUsage = (b - 1) * MaxUsage + MaxUsage
      BY <2>2, <2>3, <3>3, Products
    <3>5. (b - 1) + 1 = b
      BY <2>2
    <3>6. a * MaxUsage + MaxUsage <= b * MaxUsage
      BY <2>3, <2>6, <3>4, <3>5
    <3>7. PICK u \in 0..MaxUsage : billed' = billed + u /\ total' = total
      BY <2>9 DEF DropAnswer, Bill
    <3>. QED
      BY <2>3, <2>4, <2>5, <2>6, <3>6, <3>7
  <2>10. \/ \E u \in 0..MaxUsage : Bill(u) /\ Observe(u)
         \/ total' = total /\ billed' = billed
         \/ \E t \in Tasks : DropAnswer(t)
    BY DEF Next, RunStep, EngineStep, AllDone, Arrive, Refuse, Start, Prepare, BeginTurn,
           ForceFinal, AskFinal, AbortTurn, CallFails, ThinkAnswer, ActAnswer, FinalAnswer, Cancel,
           CallStart, CallReturn, CallStep, AbortBatch, FinishBatch, EndRun, vars, ledger
  <2>. QED
    BY <2>7, <2>8, <2>9, <2>10
<1>. QED
  BY <1>1, <1>2, Typing, OutcomeInvariant, PTL DEF Spec, OutcomeInv

-----------------------------------------------------------------------------
(* How far the ledger can be overshot. *)

\* The model calls that may still be observed without a new turn: one of each
\* run in a turn, one more of each that still thinks, one to conclude of each
\* run that is not over.
InTurn     == {t \in Tasks : pc[t] \in {"think", "act"}}
InThink    == {t \in Tasks : pc[t] = "think"}
Unfinished == {t \in Tasks : pc[t] \notin {"ending", "done"}}
Remaining  == Cardinality(InTurn) + Cardinality(InThink) + Cardinality(Unfinished)

CallsInAll == Cardinality(Sessions) * CallsPerTurn + Cardinality(Tasks)

OnlyThinkersThink == \A t \in Tasks : pc[t] = "think" => ThinkMode

OvershootInv ==
  Threshold > 0 /\ total >= Threshold =>
    total + Remaining * MaxUsage <= (Threshold - 1) + CallsInAll * MaxUsage

LEMMA ThinkersInvariant == Spec => []OnlyThinkersThink
<1>1. Init => OnlyThinkersThink
  BY DEF Init, OnlyThinkersThink
<1>2. TypeOK /\ OnlyThinkersThink /\ [Next]_vars => OnlyThinkersThink'
  <2> SUFFICES ASSUME TypeOK, OnlyThinkersThink, [Next]_vars PROVE OnlyThinkersThink'
    OBVIOUS
  <2> USE DEF TypeOK, OnlyThinkersThink, Goto, Finish, Return, Send
  <2>1. ASSUME NEW t \in Tasks, Arrive(t) \/ Cancel(t) \/ EndRun(t)
        PROVE  OnlyThinkersThink'
    BY <2>1 DEF Arrive, Cancel, EndRun
  <2>2. ASSUME NEW t \in Tasks, Refuse(t) \/ Start(t) \/ Prepare(t)
        PROVE  OnlyThinkersThink'
    BY <2>2 DEF Refuse, Start, Prepare
  <2>3. ASSUME NEW t \in Tasks, BeginTurn(t) \/ ForceFinal(t) \/ AskFinal(t) \/ AbortTurn(t)
        PROVE  OnlyThinkersThink'
    BY <2>3 DEF BeginTurn, ForceFinal, AskFinal, AbortTurn
  <2>4. ASSUME NEW t \in Tasks, CallFails(t) \/ DropAnswer(t) \/ ThinkAnswer(t)
        PROVE  OnlyThinkersThink'
    BY <2>4 DEF CallFails, DropAnswer, ThinkAnswer
  <2>5. ASSUME NEW t \in Tasks, ActAnswer(t) \/ FinalAnswer(t) PROVE OnlyThinkersThink'
    BY <2>5 DEF ActAnswer, FinalAnswer
  <2>6. ASSUME NEW t \in Tasks, NEW i \in DOMAIN calls[t],
               CallStart(t, i) \/ CallReturn(t, i)
        PROVE  OnlyThinkersThink'
    BY <2>6 DEF CallStart, CallReturn, CallStep
  <2>7. ASSUME NEW t \in Tasks, AbortBatch(t) \/ FinishBatch(t)
        PROVE  OnlyThinkersThink'
    BY <2>7 DEF AbortBatch, FinishBatch
  <2>8. CASE UNCHANGED vars
    BY <2>8 DEF vars, local
  <2>. QED
    BY <2>1, <2>2, <2>3, <2>4, <2>5, <2>6, <2>7, <2>8 DEF Next, RunStep, EngineStep, AllDone
<1>. QED
  BY <1>1, <1>2, Typing, PTL DEF Spec

LEMMA Sizes ==
  ASSUME IsFiniteSet(Tasks)
  PROVE  /\ IsFiniteSet(InTurn) /\ IsFiniteSet(InThink) /\ IsFiniteSet(Unfinished)
         /\ IsFiniteSet(InTurn') /\ IsFiniteSet(InThink') /\ IsFiniteSet(Unfinished')
         /\ Cardinality(InTurn) \in Nat /\ Cardinality(InThink) \in Nat
         /\ Cardinality(Unfinished) \in Nat /\ Cardinality(InTurn') \in Nat
         /\ Cardinality(InThink') \in Nat /\ Cardinality(Unfinished') \in Nat
         /\ Cardinality(Unfinished) <= Cardinality(Tasks) /\ Cardinality(Tasks) \in Nat
<1>1. /\ InTurn \subseteq Tasks /\ InThink \subseteq Tasks /\ Unfinished \subseteq Tasks
      /\ InTurn' \subseteq Tasks /\ InThink' \subseteq Tasks /\ Unfinished' \subseteq Tasks
  BY DEF InTurn, InThink, Unfinished
<1>. QED
  BY <1>1, FS_Subset, FS_CardinalityType

\* As a session has one run at a time, it has one run in a turn at a time.
LEMMA FewInTurn ==
  ASSUME IsFiniteSet(Tasks), IsFiniteSet(Sessions), OneRunPerSession
  PROVE  Cardinality(InTurn) <= Cardinality(Sessions)
<1>1. Cardinality(InTurn) \in Nat /\ Cardinality(Sessions) \in Nat /\ IsFiniteSet(InTurn)
  BY Sizes, FS_CardinalityType
<1>2. ASSUME Cardinality(Sessions) < Cardinality(InTurn) PROVE FALSE
  <2> DEFINE f == [t \in InTurn |-> SessionOf[t]]
  <2>1. f \in [InTurn -> Sessions]
    BY RunAssumption DEF RunAssumption, InTurn
  <2> HIDE DEF f
  <2>2. \E t, u \in InTurn : t # u /\ f[t] = f[u]
    BY <1>1, <1>2, <2>1, FS_PigeonHole
  <2>3. PICK t \in InTurn, u \in InTurn : t # u /\ f[t] = f[u]
    BY <2>2
  <2>. QED
    BY <2>3 DEF f, InTurn, OneRunPerSession, Active, Holding, InFlight
<1>. QED
  BY <1>1, <1>2

LEMMA FewRemain ==
  ASSUME IsFiniteSet(Tasks), IsFiniteSet(Sessions), OneRunPerSession, OnlyThinkersThink
  PROVE  Remaining <= CallsInAll /\ CallsInAll \in Nat /\ Remaining \in Nat
<1>1. Cardinality(Sessions) \in Nat
  BY FS_CardinalityType
<1>2. Cardinality(InTurn) <= Cardinality(Sessions)
  BY FewInTurn
<1>3. CASE ThinkMode
  <2>1. Cardinality(InThink) <= Cardinality(InTurn)
    <3>1. InThink \subseteq InTurn
      BY DEF InThink, InTurn
    <3>. QED
      BY <3>1, Sizes, FS_Subset
  <2>. QED
    BY <1>1, <1>2, <1>3, <2>1, Sizes DEF Remaining, CallsInAll, CallsPerTurn
<1>4. CASE ~ ThinkMode
  <2>1. Cardinality(InThink) = 0
    <3>1. InThink = {}
      BY <1>4 DEF InThink, OnlyThinkersThink
    <3>. QED
      BY <3>1, FS_EmptySet
  <2>. QED
    BY <1>1, <1>2, <1>4, <2>1, Sizes DEF Remaining, CallsInAll, CallsPerTurn
<1>. QED
  BY <1>3, <1>4

\* Nobody begins a turn.
NoneBegins ==
  InTurn' \subseteq InTurn /\ InThink' \subseteq InThink /\ Unfinished' \subseteq Unfinished

LEMMA RemainingShrinks ==
  ASSUME IsFiniteSet(Tasks), NoneBegins
  PROVE  Remaining' <= Remaining /\ Remaining \in Nat /\ Remaining' \in Nat
<1>1. /\ Cardinality(InTurn') <= Cardinality(InTurn)
      /\ Cardinality(InThink') <= Cardinality(InThink)
      /\ Cardinality(Unfinished') <= Cardinality(Unfinished)
  BY Sizes, FS_Subset DEF NoneBegins
<1>. QED
  BY <1>1, Sizes DEF Remaining

LEMMA SmallerWithout ==
  ASSUME NEW S, IsFiniteSet(S), NEW T, T \subseteq S, NEW x \in S, x \notin T
  PROVE  Cardinality(T) + 1 <= Cardinality(S)
<1>1. IsFiniteSet(S \ {x}) /\ Cardinality(S \ {x}) = Cardinality(S) - 1
  BY FS_RemoveElement
<1>2. T \subseteq S \ {x}
  OBVIOUS
<1>3. /\ Cardinality(T) <= Cardinality(S \ {x}) /\ Cardinality(T) \in Nat
      /\ Cardinality(S) \in Nat
  BY <1>1, <1>2, FS_Subset, FS_CardinalityType
<1>. QED
  BY <1>1, <1>3

LEMMA RemainingFalls ==
  ASSUME IsFiniteSet(Tasks), NoneBegins, NEW t \in Tasks,
         \/ t \in InTurn \ InTurn' \/ t \in InThink \ InThink'
         \/ t \in Unfinished \ Unfinished'
  PROVE  Remaining' + 1 <= Remaining /\ Remaining \in Nat /\ Remaining' \in Nat
<1>1. /\ Cardinality(InTurn') <= Cardinality(InTurn)
      /\ Cardinality(InThink') <= Cardinality(InThink)
      /\ Cardinality(Unfinished') <= Cardinality(Unfinished)
  BY Sizes, FS_Subset DEF NoneBegins
<1>2. \/ Cardinality(InTurn') + 1 <= Cardinality(InTurn)
      \/ Cardinality(InThink') + 1 <= Cardinality(InThink)
      \/ Cardinality(Unfinished') + 1 <= Cardinality(Unfinished)
  BY Sizes, SmallerWithout DEF NoneBegins
<1>. QED
  BY <1>1, <1>2, Sizes DEF Remaining

\* An observed answer uses up one of the calls that remain ...
LEMMA ObservedStep ==
  ASSUME TypeOK, NEW t \in Tasks, ThinkAnswer(t) \/ ActAnswer(t) \/ FinalAnswer(t)
  PROVE  /\ NoneBegins /\ \E u \in 0..MaxUsage : total' = total + u
         /\ \/ t \in InTurn \ InTurn' \/ t \in InThink \ InThink'
            \/ t \in Unfinished \ Unfinished'
<1> USE DEF InTurn, InThink, Unfinished, NoneBegins, Goto, Send, Finish, Observe, TypeOK
<1>1. CASE ThinkAnswer(t)
  BY <1>1 DEF ThinkAnswer
<1>2. CASE ActAnswer(t)
  BY <1>2 DEF ActAnswer
<1>3. CASE FinalAnswer(t)
  BY <1>3 DEF FinalAnswer
<1>. QED
  BY <1>1, <1>2, <1>3

\* ... and every other step costs nothing and, once the threshold is reached,
\* begins no turn.
LEMMA FreeStep ==
  ASSUME TypeOK, [Next]_vars,
         ~ \E t \in Tasks : ThinkAnswer(t) \/ ActAnswer(t) \/ FinalAnswer(t)
  PROVE  total' = total /\ (Reached(total) => NoneBegins)
<1> USE DEF TypeOK, InTurn, InThink, Unfinished, NoneBegins, Goto, Finish, Return, ledger
<1>1. ASSUME NEW t \in Tasks, Arrive(t) \/ Cancel(t) \/ EndRun(t)
      PROVE  total' = total /\ NoneBegins
  BY <1>1 DEF Arrive, Cancel, EndRun
<1>2. ASSUME NEW t \in Tasks, Refuse(t) \/ Start(t) \/ Prepare(t)
      PROVE  total' = total /\ NoneBegins
  BY <1>2 DEF Refuse, Start, Prepare
<1>3. ASSUME NEW t \in Tasks, BeginTurn(t)
      PROVE  total' = total /\ ~ Reached(total)
  BY <1>3 DEF BeginTurn
<1>4. ASSUME NEW t \in Tasks, ForceFinal(t) \/ AskFinal(t) \/ AbortTurn(t)
      PROVE  total' = total /\ NoneBegins
  BY <1>4 DEF ForceFinal, AskFinal, AbortTurn, Send
<1>5. ASSUME NEW t \in Tasks, CallFails(t) \/ DropAnswer(t)
      PROVE  total' = total /\ NoneBegins
  BY <1>5 DEF CallFails, DropAnswer
<1>6. ASSUME NEW t \in Tasks, NEW i \in DOMAIN calls[t],
             CallStart(t, i) \/ CallReturn(t, i)
      PROVE  total' = total /\ NoneBegins
  BY <1>6 DEF CallStart, CallReturn, CallStep
<1>7. ASSUME NEW t \in Tasks, AbortBatch(t) \/ FinishBatch(t)
      PROVE  total' = total /\ NoneBegins
  BY <1>7 DEF AbortBatch, FinishBatch
<1>8. CASE UNCHANGED vars
  BY <1>8 DEF vars, local
<1>. QED
  BY <1>1, <1>2, <1>3, <1>4, <1>5, <1>6, <1>7, <1>8 DEF Next, RunStep, EngineStep, AllDone

\* However many runs share the ledger, it is overshot by no more than the calls
\* of the turns under way and one conclusion each ( forcedReminder, Observe ).
THEOREM OvershootBounded ==
  ASSUME IsFiniteSet(Tasks), IsFiniteSet(Sessions)
  PROVE  Spec => []OvershootIsBounded
<1>1. Init => OvershootInv
  BY RunAssumption DEF Init, OvershootInv, RunAssumption
<1> DEFINE Pre == TypeOK /\ OneRunPerSession /\ OnlyThinkersThink
<1>2. Pre /\ OvershootInv /\ [Next]_vars => OvershootInv'
  <2> SUFFICES ASSUME Pre, OvershootInv, [Next]_vars, Threshold > 0, total' >= Threshold
               PROVE  total' + Remaining' * MaxUsage
                        <= (Threshold - 1) + CallsInAll * MaxUsage
    BY DEF OvershootInv, CallsInAll, CallsPerTurn
  <2>1. total \in Nat /\ Threshold \in Nat /\ MaxUsage \in Nat
    BY RunAssumption DEF TypeOK, RunAssumption
  <2>2. Remaining <= CallsInAll /\ CallsInAll \in Nat /\ Remaining \in Nat
    BY FewRemain
  <2>3. Remaining * MaxUsage \in Nat /\ CallsInAll * MaxUsage \in Nat
        /\ Remaining * MaxUsage <= CallsInAll * MaxUsage
    BY <2>1, <2>2, Products
  <2>4. total < Threshold \/ total + Remaining * MaxUsage
                               <= (Threshold - 1) + CallsInAll * MaxUsage
    BY <2>1 DEF OvershootInv
  <2>5. ASSUME NEW t \in Tasks, ThinkAnswer(t) \/ ActAnswer(t) \/ FinalAnswer(t)
        PROVE  total' + Remaining' * MaxUsage
                 <= (Threshold - 1) + CallsInAll * MaxUsage
    <3>1. PICK u \in 0..MaxUsage : total' = total + u
      BY <2>5, ObservedStep
    <3>2. Remaining' + 1 <= Remaining /\ Remaining' \in Nat
      BY <2>5, ObservedStep, RemainingFalls
    <3>3. Remaining' * MaxUsage + MaxUsage <= Remaining * MaxUsage
          /\ Remaining' * MaxUsage \in Nat
      BY <2>1, <2>2, <3>2, OneMore
    <3>. QED
      BY <2>1, <2>3, <2>4, <3>1, <3>3
  <2>6. CASE ~ \E t \in Tasks : ThinkAnswer(t) \/ ActAnswer(t) \/ FinalAnswer(t)
    <3>1. total' = total /\ NoneBegins
      BY <2>1, <2>6, FreeStep DEF Reached
    <3>2. Remaining' <= Remaining /\ Remaining' \in Nat
      BY <3>1, RemainingShrinks
    <3>3. Remaining' * MaxUsage <= Remaining * MaxUsage /\ Remaining' * MaxUsage \in Nat
      BY <2>1, <2>2, <3>2, Products
    <3>. QED
      BY <2>1, <2>3, <2>4, <3>1, <3>3
  <2>. QED
    BY <2>5, <2>6
<1>3. Pre /\ OvershootInv => OvershootIsBounded
  <2> SUFFICES ASSUME Pre, OvershootInv, Threshold > 0
               PROVE  total <= (Threshold - 1) + CallsInAll * MaxUsage
    BY DEF OvershootIsBounded, CallsInAll
  <2>1. total \in Nat /\ Threshold \in Nat /\ MaxUsage \in Nat
    BY RunAssumption DEF TypeOK, RunAssumption
  <2>2. Remaining <= CallsInAll /\ CallsInAll \in Nat /\ Remaining \in Nat
    BY FewRemain
  <2>3. Remaining * MaxUsage \in Nat /\ CallsInAll * MaxUsage \in Nat
    BY <2>1, <2>2, Products
  <2>. QED
    BY <2>1, <2>3 DEF OvershootInv
<1>. QED
  BY <1>1, <1>2, <1>3, Typing, RunExclusion, ThinkersInvariant, PTL DEF Spec

-----------------------------------------------------------------------------
(* The promises of a session. *)

\* A run that has not begun is to begin with its first turn.
Unstarted == \A t \in Tasks : pc[t] \in {"idle", "arrived"} => turn[t] = 1

LEMMA UnstartedInvariant == Spec => []Unstarted
<1>1. Init => Unstarted
  BY DEF Init, Unstarted
<1>2. TypeOK /\ Unstarted /\ [Next]_vars => Unstarted'
  <2> SUFFICES ASSUME TypeOK, Unstarted, [Next]_vars PROVE Unstarted'
    OBVIOUS
  <2> USE DEF TypeOK, Unstarted, Goto, Finish, Return
  <2>1. ASSUME NEW t \in Tasks, Arrive(t) \/ Cancel(t) PROVE Unstarted'
    BY <2>1 DEF Arrive, Cancel
  <2>2. ASSUME NEW t \in Tasks, Refuse(t) \/ Start(t) \/ Prepare(t) PROVE Unstarted'
    BY <2>2 DEF Refuse, Start, Prepare
  <2>3. ASSUME NEW t \in Tasks, BeginTurn(t) \/ ForceFinal(t) \/ AskFinal(t) \/ AbortTurn(t)
        PROVE  Unstarted'
    BY <2>3 DEF BeginTurn, ForceFinal, AskFinal, AbortTurn, Send
  <2>4. ASSUME NEW t \in Tasks, CallFails(t) \/ DropAnswer(t) \/ ThinkAnswer(t)
        PROVE  Unstarted'
    BY <2>4 DEF CallFails, DropAnswer, ThinkAnswer, Send
  <2>5. ASSUME NEW t \in Tasks, ActAnswer(t) \/ FinalAnswer(t) PROVE Unstarted'
    BY <2>5 DEF ActAnswer, FinalAnswer
  <2>6. ASSUME NEW t \in Tasks, NEW i \in DOMAIN calls[t], CallStart(t, i) \/ CallReturn(t, i)
        PROVE  Unstarted'
    BY <2>6 DEF CallStart, CallReturn, CallStep
  <2>7. ASSUME NEW t \in Tasks, AbortBatch(t) \/ FinishBatch(t) \/ EndRun(t)
        PROVE  Unstarted'
    BY <2>7 DEF AbortBatch, FinishBatch, EndRun
  <2>8. CASE UNCHANGED vars
    BY <2>8 DEF vars, local
  <2>. QED
    BY <2>1, <2>2, <2>3, <2>4, <2>5, <2>6, <2>7, <2>8 DEF Next, RunStep, EngineStep, AllDone
<1>. QED
  BY <1>1, <1>2, Typing, PTL DEF Spec

-----------------------------------------------------------------------------
(* What a state of the loop is as a state of the log.                      *)

\* The stage of a log whose owner is at such a place.
StageAt(label) ==
  CASE label = "exec"   -> "asked"
    [] label \in {"told", "final"} -> "closing"
    [] label = "ending" -> "over"
    [] OTHER            -> "open"

Sane == TypeOK /\ OneRunPerSession /\ Unstarted

\* The owner of a log is the run that is active in the session.
LEMMA OwnerIs ==
  ASSUME OneRunPerSession, NEW s \in Sessions, NEW t \in Tasks,
         SessionOf[t] = s, Active(t)
  PROVE  running[s] /\ Owner(s) = t
<1>1. running[s]
  BY DEF OneRunPerSession
<1>2. \A u \in Tasks : SessionOf[u] = s /\ Active(u) <=> u = t
  BY DEF OneRunPerSession
<1>3. (CHOOSE u \in Tasks : SessionOf[u] = s /\ Active(u)) = t
  BY <1>2
<1>. QED
  BY <1>1, <1>3 DEF Owner

LEMMA OwnerWillBe ==
  ASSUME OneRunPerSession', NEW s \in Sessions, NEW t \in Tasks,
         SessionOf[t] = s, Active(t)'
  PROVE  running'[s] /\ Owner(s)' = t
<1>1. running'[s]
  BY DEF OneRunPerSession
<1>2. \A u \in Tasks : SessionOf[u] = s /\ Active(u)' <=> u = t
  BY DEF OneRunPerSession
<1>3. (CHOOSE u \in Tasks : SessionOf[u] = s /\ Active(u)') = t
  BY <1>2
<1>. QED
  BY <1>1, <1>3 DEF Owner

\* A log somebody owns mirrors its owner ...
LEMMA OwnedIs ==
  ASSUME Sane, NEW t \in Tasks, Active(t), NEW s \in Sessions, s = SessionOf[t]
  PROVE  /\ Owner(s) = t /\ Stage(s) = StageAt(pc[t]) /\ Round(s) = turn[t]
         /\ Asked(s) = IF pc[t] = "exec" THEN Len(calls[t]) ELSE 0
<1>1. running[s] /\ Owner(s) = t
  BY OwnerIs DEF Sane
<1>2. Stage(s) = StageAt(pc[t])
  BY <1>1 DEF Stage, StageAt
<1>3. Stage(s) = "asked" <=> pc[t] = "exec"
  BY <1>2 DEF StageAt
<1>. QED
  BY <1>1, <1>2, <1>3 DEF Round, Asked

LEMMA OwnedWillBe ==
  ASSUME Sane', NEW t \in Tasks, Active(t)', NEW s \in Sessions, s = SessionOf[t]
  PROVE  /\ Owner(s)' = t /\ Stage(s)' = StageAt(pc'[t]) /\ Round(s)' = turn'[t]
         /\ Asked(s)' = IF pc'[t] = "exec" THEN Len(calls'[t]) ELSE 0
<1>1. running'[s] /\ Owner(s)' = t
  BY OwnerWillBe DEF Sane
<1>2. Stage(s)' = StageAt(pc'[t])
  BY <1>1 DEF Stage, StageAt
<1>3. Stage(s)' = "asked" <=> pc'[t] = "exec"
  BY <1>2 DEF StageAt
<1>. QED
  BY <1>1, <1>2, <1>3 DEF Round, Asked

\* ... and a log nobody owns is free.
LEMMA FreeIs ==
  ASSUME NEW s \in Sessions, ~ running[s]
  PROVE  Owner(s) = "nobody" /\ Stage(s) = "free" /\ Round(s) = 0 /\ Asked(s) = 0
<1>1. Stage(s) = "free"
  BY DEF Stage
<1>. QED
  BY <1>1 DEF Owner, Round, Asked

LEMMA FreeWillBe ==
  ASSUME NEW s \in Sessions, ~ running'[s]
  PROVE  Owner(s)' = "nobody" /\ Stage(s)' = "free" /\ Round(s)' = 0 /\ Asked(s)' = 0
<1>1. Stage(s)' = "free"
  BY DEF Stage
<1>. QED
  BY <1>1 DEF Owner, Round, Asked

Same(s) == /\ Owner(s)' = Owner(s) /\ Stage(s)' = Stage(s)
           /\ Round(s)' = Round(s) /\ Asked(s)' = Asked(s)

\* A log whose owner stays where it is, is left alone.
LEMMA UntouchedStays ==
  ASSUME Sane, Sane', NEW s \in Sessions, running'[s] = running[s],
         \A u \in Tasks : SessionOf[u] = s =>
           pc'[u] = pc[u] /\ turn'[u] = turn[u] /\ calls'[u] = calls[u]
  PROVE  Same(s)
<1>1. CASE running[s]
  <2>1. PICK u \in Tasks : SessionOf[u] = s /\ Active(u)
    BY <1>1 DEF Sane, OneRunPerSession
  <2>2. Active(u)'
    BY <2>1 DEF Active
  <2>3. pc'[u] = pc[u] /\ turn'[u] = turn[u] /\ calls'[u] = calls[u]
    BY <2>1
  <2>. QED
    BY <2>1, <2>2, <2>3, OwnedIs, OwnedWillBe DEF Same
<1>2. CASE ~ running[s]
  BY <1>2, FreeIs, FreeWillBe DEF Same
<1>. QED
  BY <1>1, <1>2

-----------------------------------------------------------------------------
(* The variables of the log, and how a step of one run changes them.       *)

Owners == [s \in Sessions |-> Owner(s)]
Stages == [s \in Sessions |-> Stage(s)]
Rounds == [s \in Sessions |-> Round(s)]
Askeds == [s \in Sessions |-> Asked(s)]
Past   == {t \in Tasks : pc[t] = "done"}

\* The others stay where they are while t takes a step.
OthersRest(t) == \A u \in Tasks :
  u # t => pc'[u] = pc[u] /\ turn'[u] = turn[u] /\ calls'[u] = calls[u]

\* The owner of a log takes a step and stays the owner.
OwnerSteps(t) ==
  /\ Sane /\ Sane' /\ Active(t) /\ Active(t)'
  /\ running' = running /\ OthersRest(t)

LEMMA OwnedSteps ==
  ASSUME NEW t \in Tasks, OwnerSteps(t), NEW s \in Sessions, s = SessionOf[t]
  PROVE  /\ Owners' = Owners /\ Past' = Past /\ Owners[s] = t
         /\ Stages[s] = StageAt(pc[t])
         /\ Stages' = [Stages EXCEPT ![s] = StageAt(pc'[t])]
         /\ Rounds[s] = turn[t] /\ Rounds' = [Rounds EXCEPT ![s] = turn'[t]]
         /\ Askeds[s] = IF pc[t] = "exec" THEN Len(calls[t]) ELSE 0
         /\ Askeds' = [Askeds EXCEPT ![s] = IF pc'[t] = "exec" THEN Len(calls'[t]) ELSE 0]
<1>1. /\ Owner(s) = t /\ Stage(s) = StageAt(pc[t]) /\ Round(s) = turn[t]
      /\ Asked(s) = IF pc[t] = "exec" THEN Len(calls[t]) ELSE 0
  BY OwnedIs DEF OwnerSteps
<1>2. /\ Owner(s)' = t /\ Stage(s)' = StageAt(pc'[t]) /\ Round(s)' = turn'[t]
      /\ Asked(s)' = IF pc'[t] = "exec" THEN Len(calls'[t]) ELSE 0
  BY OwnedWillBe DEF OwnerSteps
<1>3. ASSUME NEW x \in Sessions, x # s PROVE Same(x)
  BY <1>3, UntouchedStays DEF OwnerSteps, OthersRest
<1>4. Past' = Past
  BY DEF Past, OwnerSteps, OthersRest, Active, Holding, InFlight
<1>. QED
  BY <1>1, <1>2, <1>3, <1>4 DEF Owners, Stages, Rounds, Askeds, Same

\* Where the step changes neither stage, turn nor calls, the log does not move.
LEMMA OwnerRests ==
  ASSUME NEW t \in Tasks, OwnerSteps(t), history' = history,
         StageAt(pc'[t]) = StageAt(pc[t]), turn' = turn,
         pc'[t] = "exec" <=> pc[t] = "exec",
         pc[t] = "exec" => Len(calls'[t]) = Len(calls[t])
  PROVE  UNCHANGED Log!logVars
<1> DEFINE s == SessionOf[t]
<1>1. s \in Sessions
  BY RunAssumption DEF RunAssumption
<1>2. /\ Owners' = Owners /\ Past' = Past
      /\ Stages' = [Stages EXCEPT ![s] = Stages[s]]
      /\ Rounds' = [Rounds EXCEPT ![s] = Rounds[s]]
      /\ Askeds' = [Askeds EXCEPT ![s] = Askeds[s]]
  BY <1>1, OwnedSteps
<1>3. Stages' = Stages /\ Rounds' = Rounds /\ Askeds' = Askeds
  BY <1>2 DEF Stages, Rounds, Askeds
<1>. QED
  BY <1>2, <1>3 DEF Log!logVars, Owners, Stages, Rounds, Askeds, Past

\* Giving up in any stage ends the owner's writing.
LEMMA OwnerGivesUp ==
  ASSUME NEW t \in Tasks, OwnerSteps(t), history' = history, turn' = turn,
         pc[t] # "ending", pc'[t] = "ending"
  PROVE  Log!GiveUp(t, SessionOf[t])
<1> DEFINE s == SessionOf[t]
<1>1. s \in Sessions
  BY RunAssumption DEF RunAssumption
<1>2. /\ Owners' = Owners /\ Past' = Past /\ Owners[s] = t
      /\ Stages[s] \in {"open", "asked", "closing"}
      /\ Stages' = [Stages EXCEPT ![s] = "over"]
      /\ Rounds' = [Rounds EXCEPT ![s] = Rounds[s]]
      /\ Askeds' = [Askeds EXCEPT ![s] = 0]
  BY <1>1, OwnedSteps DEF StageAt
<1>3. Rounds' = Rounds
  BY <1>2 DEF Rounds
<1>. QED
  BY <1>1, <1>2, <1>3 DEF Log!GiveUp, Log!Move, Owners, Stages, Rounds, Askeds, Past

-----------------------------------------------------------------------------
(* The steps, one after the other. *)

\* Between Start and EndRun, every step of a run is one of the owner.
Within(t) ==
  \/ Prepare(t) \/ BeginTurn(t) \/ ForceFinal(t) \/ AskFinal(t) \/ AbortTurn(t)
  \/ CallFails(t) \/ DropAnswer(t) \/ ThinkAnswer(t) \/ ActAnswer(t) \/ FinalAnswer(t)
  \/ \E i \in DOMAIN calls[t] : CallStart(t, i) \/ CallReturn(t, i)
  \/ AbortBatch(t) \/ FinishBatch(t)

LEMMA WithinIsOwned ==
  ASSUME Sane, Sane', NEW t \in Tasks, Within(t)
  PROVE  OwnerSteps(t)
<1> USE DEF OwnerSteps, OthersRest, Active, Holding, InFlight, Goto, Finish, Send,
            shared, Sane, TypeOK
<1>1. CASE Prepare(t) \/ BeginTurn(t) \/ ForceFinal(t) \/ AskFinal(t) \/ AbortTurn(t)
  BY <1>1 DEF Prepare, BeginTurn, ForceFinal, AskFinal, AbortTurn
<1>2. CASE CallFails(t) \/ DropAnswer(t) \/ ThinkAnswer(t)
  BY <1>2 DEF CallFails, DropAnswer, ThinkAnswer
<1>3. CASE ActAnswer(t) \/ FinalAnswer(t)
  BY <1>3 DEF ActAnswer, FinalAnswer
<1>4. ASSUME NEW i \in DOMAIN calls[t], CallStart(t, i) \/ CallReturn(t, i)
      PROVE  OwnerSteps(t)
  BY <1>4 DEF CallStart, CallReturn, CallStep
<1>5. CASE AbortBatch(t) \/ FinishBatch(t)
  BY <1>5 DEF AbortBatch, FinishBatch
<1>. QED
  BY <1>1, <1>2, <1>3, <1>4, <1>5 DEF Within

\* A step of a run that the log does not see.
LEMMA UnseenSteps ==
  ASSUME Sane, Sane', NEW t \in Tasks,
         \/ Prepare(t) /\ pc'[t] = "boundary"
         \/ BeginTurn(t) \/ AskFinal(t) \/ ThinkAnswer(t)
         \/ \E i \in DOMAIN calls[t] : CallStart(t, i) \/ CallReturn(t, i)
  PROVE  UNCHANGED Log!logVars
<1>1. OwnerSteps(t)
  BY WithinIsOwned DEF Within
<1> USE DEF StageAt, Goto, Send, shared, Sane, TypeOK
<1>2. CASE Prepare(t) /\ pc'[t] = "boundary"
  BY <1>1, <1>2, OwnerRests DEF Prepare
<1>3. CASE BeginTurn(t) \/ AskFinal(t) \/ ThinkAnswer(t)
  BY <1>1, <1>3, OwnerRests DEF BeginTurn, AskFinal, ThinkAnswer
<1>4. ASSUME NEW i \in DOMAIN calls[t], CallStart(t, i) \/ CallReturn(t, i)
      PROVE  UNCHANGED Log!logVars
  <2>1. calls[t] \in Seq({"ready", "busy", "kept", "failed"})
    OBVIOUS
  <2>2. \E v : calls'[t] = [calls[t] EXCEPT ![i] = v]
    BY <1>4 DEF CallStart, CallReturn, CallStep
  <2>3. Len(calls'[t]) = Len(calls[t])
    BY <2>1, <2>2
  <2>. QED
    BY <1>1, <1>4, <2>3, OwnerRests DEF CallStart, CallReturn, CallStep
<1>. QED
  BY <1>2, <1>3, <1>4

\* A run that fails gives up, wherever it is.
LEMMA FailuresGiveUp ==
  ASSUME Sane, Sane', NEW t \in Tasks,
         \/ Prepare(t) /\ pc'[t] # "boundary"
         \/ AbortTurn(t) \/ CallFails(t) \/ DropAnswer(t) \/ AbortBatch(t)
  PROVE  Log!GiveUp(t, SessionOf[t])
<1>1. OwnerSteps(t)
  BY WithinIsOwned DEF Within
<1> USE DEF Goto, Finish, shared, Sane, TypeOK, InFlight
<1>2. CASE Prepare(t) /\ pc'[t] # "boundary"
  BY <1>1, <1>2, OwnerGivesUp DEF Prepare
<1>3. CASE AbortTurn(t) \/ CallFails(t)
  BY <1>1, <1>3, OwnerGivesUp DEF AbortTurn, CallFails
<1>4. CASE DropAnswer(t) \/ AbortBatch(t)
  BY <1>1, <1>4, OwnerGivesUp DEF DropAnswer, AbortBatch
<1>. QED
  BY <1>2, <1>3, <1>4

LEMMA SessionsOfTasks == \A t \in Tasks : SessionOf[t] \in Sessions
BY RunAssumption DEF RunAssumption

LEMMA Instructs ==
  ASSUME Sane, Sane', NEW t \in Tasks, ForceFinal(t)
  PROVE  Log!Instruct(t, SessionOf[t])
<1> DEFINE s == SessionOf[t]
<1>1. OwnerSteps(t) /\ s \in Sessions
  BY WithinIsOwned, SessionsOfTasks DEF Within
<1>2. /\ pc[t] = "boundary" /\ pc'[t] = "told" /\ turn' = turn
      /\ history' = [history EXCEPT ![s] = @ \o <<Notice(t, turn[t])>>]
  BY DEF ForceFinal, Goto, Write, Sane, TypeOK
<1>3. /\ Owners' = Owners /\ Past' = Past /\ Owners[s] = t
      /\ Stages[s] = "open" /\ Stages' = [Stages EXCEPT ![s] = "closing"]
      /\ Rounds[s] = turn[t] /\ Rounds' = [Rounds EXCEPT ![s] = turn[t]]
      /\ Askeds' = [Askeds EXCEPT ![s] = 0] /\ Askeds[s] = 0
  BY <1>1, <1>2, OwnedSteps DEF StageAt
<1>4. Rounds' = Rounds /\ Askeds' = Askeds
  BY <1>3 DEF Rounds, Askeds
<1>5. Notice(t, turn[t]) = Log!Msg("user", t, Rounds[s], 0, 0)
  BY <1>3 DEF Notice, UserMsg, Log!Msg
<1>. QED
  BY <1>2, <1>3, <1>4, <1>5
     DEF Log!Instruct, Log!Move, Log!Extend, Owners, Stages, Rounds, Askeds, Past

LEMMA Concludes ==
  ASSUME Sane, Sane', NEW t \in Tasks,
         FinalAnswer(t) \/ (ActAnswer(t) /\ pc'[t] # "exec")
  PROVE  Log!Conclude(t, SessionOf[t])
<1> DEFINE s == SessionOf[t]
<1>1. OwnerSteps(t) /\ s \in Sessions
  BY WithinIsOwned, SessionsOfTasks DEF Within
<1>2. /\ pc[t] \in {"act", "final"} /\ pc'[t] = "ending" /\ turn' = turn
      /\ history' = [history EXCEPT ![s] = @ \o <<Reply(t, turn[t], 0)>>]
  <2>1. CASE FinalAnswer(t)
    BY <2>1 DEF FinalAnswer, Finish, Goto, Write, Sane, TypeOK
  <2>2. CASE ActAnswer(t) /\ pc'[t] # "exec"
    BY <2>2 DEF ActAnswer, Finish, Goto, Write, Sane, TypeOK
  <2>. QED
    BY <2>1, <2>2
<1>3. /\ Owners' = Owners /\ Past' = Past /\ Owners[s] = t
      /\ Stages[s] \in {"open", "closing"} /\ Stages' = [Stages EXCEPT ![s] = "over"]
      /\ Rounds[s] = turn[t] /\ Rounds' = [Rounds EXCEPT ![s] = turn[t]]
      /\ Askeds' = [Askeds EXCEPT ![s] = 0] /\ Askeds[s] = 0
  BY <1>1, <1>2, OwnedSteps DEF StageAt
<1>4. Rounds' = Rounds /\ Askeds' = Askeds
  BY <1>3 DEF Rounds, Askeds
<1>5. Reply(t, turn[t], 0) = Log!Msg("assistant", t, Rounds[s], 0, 0)
  BY <1>3 DEF Reply, Log!Msg
<1>. QED
  BY <1>2, <1>3, <1>4, <1>5
     DEF Log!Conclude, Log!Move, Log!Extend, Owners, Stages, Rounds, Askeds, Past

LEMMA Asks ==
  ASSUME Sane, Sane', NEW t \in Tasks, ActAnswer(t), pc'[t] = "exec"
  PROVE  Log!Ask(t, SessionOf[t])
<1> DEFINE s == SessionOf[t]
<1>1. OwnerSteps(t) /\ s \in Sessions
  BY WithinIsOwned, SessionsOfTasks DEF Within
<1>2. pc[t] = "act" /\ turn' = turn
  BY DEF ActAnswer
<1>3. PICK n \in 1..MaxCalls :
        /\ history' = [history EXCEPT ![s] = @ \o <<Reply(t, turn[t], n)>>]
        /\ calls' = [calls EXCEPT ![t] = [i \in 1..n |-> "ready"]]
  <2>1. PICK n \in 0..MaxCalls :
          /\ Write(t, <<Reply(t, turn[t], n)>>)
          /\ IF n = 0 THEN Finish(t, "ok") /\ UNCHANGED calls
             ELSE /\ Goto(t, "exec")
                  /\ calls' = [calls EXCEPT ![t] = [i \in 1..n |-> "ready"]]
                  /\ UNCHANGED outcome
    BY DEF ActAnswer
  <2>2. n # 0
    BY <2>1 DEF Finish, Goto, Sane, TypeOK
  <2>3. n \in 1..MaxCalls
    BY <2>2, RunAssumption DEF RunAssumption
  <2>. QED
    BY <2>1, <2>2, <2>3 DEF Write
<1>4. Len(calls'[t]) = n
  BY <1>3, RunAssumption DEF Sane, TypeOK, RunAssumption
<1>5. /\ Owners' = Owners /\ Past' = Past /\ Owners[s] = t
      /\ Stages[s] = "open" /\ Stages' = [Stages EXCEPT ![s] = "asked"]
      /\ Rounds[s] = turn[t] /\ Rounds' = [Rounds EXCEPT ![s] = turn[t]]
      /\ Askeds' = [Askeds EXCEPT ![s] = n]
  BY <1>1, <1>2, <1>4, OwnedSteps DEF StageAt
<1>6. Rounds' = Rounds
  BY <1>5 DEF Rounds
<1>7. Reply(t, turn[t], n) = Log!Msg("assistant", t, Rounds[s], n, 0)
  BY <1>5 DEF Reply, Log!Msg
<1>8. /\ Log!Move(t, s, "open", "asked")
      /\ Log!Extend(s, <<Log!Msg("assistant", t, Rounds[s], n, 0)>>)
  BY <1>3, <1>5, <1>7 DEF Log!Move, Log!Extend, Owners, Stages
<1>. QED
  BY <1>3, <1>5, <1>6, <1>8 DEF Log!Ask, Owners, Stages, Rounds, Askeds, Past

LEMMA Answers ==
  ASSUME Sane, Sane', NEW t \in Tasks, FinishBatch(t)
  PROVE  Log!Answer(t, SessionOf[t])
<1> DEFINE s == SessionOf[t]
           results == [c \in 1..Askeds[s] |-> Log!Msg("user", t, Rounds[s], 0, c)]
<1>1. OwnerSteps(t) /\ s \in Sessions
  BY WithinIsOwned, SessionsOfTasks DEF Within
<1>2. pc[t] = "exec" /\ pc'[t] = "boundary" /\ turn'[t] = turn[t] + 1
  BY DEF FinishBatch, Goto, Sane, TypeOK
<1>3. /\ Owners' = Owners /\ Past' = Past /\ Owners[s] = t
      /\ Stages[s] = "asked" /\ Stages' = [Stages EXCEPT ![s] = "open"]
      /\ Rounds[s] = turn[t] /\ Rounds' = [Rounds EXCEPT ![s] = turn[t] + 1]
      /\ Askeds[s] = Len(calls[t]) /\ Askeds' = [Askeds EXCEPT ![s] = 0]
  BY <1>1, <1>2, OwnedSteps DEF StageAt
<1>4. Results(t) = results
  BY <1>3 DEF Results, Result, UserMsg, Log!Msg
<1>5. Notice(t, turn[t]) = Log!Msg("user", t, Rounds[s], 0, 0)
  BY <1>3 DEF Notice, UserMsg, Log!Msg
<1>6. PICK worst : Write(t, Observations(t, worst))
  BY DEF FinishBatch
<1>7. \/ Log!Extend(s, results)
      \/ Log!Extend(s, Append(results, Log!Msg("user", t, Rounds[s], 0, 0)))
  BY <1>4, <1>5, <1>6 DEF Observations, Write, Log!Extend
<1>8. Log!Move(t, s, "asked", "open")
  BY <1>3 DEF Log!Move, Owners, Stages
<1>9. Rounds' = [Rounds EXCEPT ![s] = @ + 1]
  BY <1>3
<1>. QED
  BY <1>3, <1>7, <1>8, <1>9 DEF Log!Answer, Owners, Stages, Rounds, Askeds, Past

\* A run takes the log when the flag is free, and hands it back at its end.
LEMMA Takes ==
  ASSUME Sane, Sane', NEW t \in Tasks, Start(t)
  PROVE  Log!Take(t, SessionOf[t])
<1> DEFINE s == SessionOf[t]
<1>1. s \in Sessions
  BY SessionsOfTasks
<1>2. /\ pc[t] = "arrived" /\ pc'[t] = "prepare" /\ ~ running[s]
      /\ history' = history /\ turn' = turn /\ turn[t] = 1 /\ calls' = calls
      /\ pc' = [pc EXCEPT ![t] = "prepare"] /\ running' = [running EXCEPT ![s] = TRUE]
  BY DEF Start, TryStartRun, Goto, Sane, Unstarted, TypeOK
<1>3. Active(t)'
  BY <1>2 DEF Active, Holding
<1>4. Owner(s) = "nobody" /\ Stage(s) = "free" /\ Round(s) = 0 /\ Asked(s) = 0
  BY <1>1, <1>2, FreeIs
<1>5. Owner(s)' = t /\ Stage(s)' = "open" /\ Round(s)' = 1 /\ Asked(s)' = 0
  BY <1>1, <1>2, <1>3, OwnedWillBe DEF StageAt
<1>6. ASSUME NEW x \in Sessions, x # s PROVE Same(x)
  BY <1>2, <1>6, UntouchedStays DEF Sane, TypeOK
<1>7. /\ Owners' = [Owners EXCEPT ![s] = t] /\ Stages' = [Stages EXCEPT ![s] = "open"]
      /\ Rounds' = [Rounds EXCEPT ![s] = 1] /\ Askeds' = Askeds
      /\ Owners[s] = "nobody"
  BY <1>1, <1>4, <1>5, <1>6 DEF Same, Owners, Stages, Rounds, Askeds
<1>8. t \notin Past /\ Past' = Past
  BY <1>2 DEF Past, Sane, TypeOK
<1>. QED
  BY <1>2, <1>7, <1>8 DEF Log!Take, Log!Nobody, Owners, Stages, Rounds, Askeds, Past

LEMMA Releases ==
  ASSUME Sane, Sane', NEW t \in Tasks, EndRun(t)
  PROVE  Log!Release(t, SessionOf[t])
<1> DEFINE s == SessionOf[t]
<1>1. s \in Sessions
  BY SessionsOfTasks
<1>2. /\ pc[t] = "ending" /\ history' = history /\ turn' = turn /\ calls' = calls
      /\ pc' = [pc EXCEPT ![t] = "done"] /\ running' = [running EXCEPT ![s] = FALSE]
  BY DEF EndRun, Goto, shared
<1>3. Active(t)
  BY <1>2 DEF Active, Holding
<1>4. Owner(s) = t /\ Stage(s) = "over" /\ Asked(s) = 0
  BY <1>1, <1>2, <1>3, OwnedIs DEF StageAt
<1>5. Owner(s)' = "nobody" /\ Stage(s)' = "free" /\ Round(s)' = 0 /\ Asked(s)' = 0
  BY <1>1, <1>2, FreeWillBe DEF Sane, TypeOK
<1>6. ASSUME NEW x \in Sessions, x # s PROVE Same(x)
  BY <1>2, <1>6, UntouchedStays DEF Sane, TypeOK
<1>7. /\ Owners' = [Owners EXCEPT ![s] = "nobody"]
      /\ Stages' = [Stages EXCEPT ![s] = "free"]
      /\ Rounds' = [Rounds EXCEPT ![s] = 0] /\ Askeds' = Askeds
      /\ Owners[s] = t /\ Stages[s] = "over"
  BY <1>1, <1>4, <1>5, <1>6 DEF Same, Owners, Stages, Rounds, Askeds
<1>8. Past' = Past \cup {t}
  BY <1>2 DEF Past, Sane, TypeOK
<1>. QED
  BY <1>2, <1>7, <1>8
     DEF Log!Release, Log!Move, Log!Nobody, Owners, Stages, Rounds, Askeds, Past

\* A step of a run that is not active leaves every log as it is but for a post.
LEMMA Strangers ==
  ASSUME Sane, Sane', NEW t \in Tasks, running' = running, ~ Active(t), ~ Active(t)',
         OthersRest(t)
  PROVE  Owners' = Owners /\ Stages' = Stages /\ Rounds' = Rounds /\ Askeds' = Askeds
<1>1. ASSUME NEW s \in Sessions PROVE Same(s)
  <2>1. CASE running[s]
    <3>1. PICK u \in Tasks : SessionOf[u] = s /\ Active(u)
      BY <2>1 DEF Sane, OneRunPerSession
    <3>2. pc'[u] = pc[u] /\ turn'[u] = turn[u] /\ calls'[u] = calls[u] /\ Active(u)'
      BY <3>1 DEF OthersRest, Active
    <3>. QED
      BY <3>1, <3>2, OwnedIs, OwnedWillBe DEF Same
  <2>2. CASE ~ running[s]
    BY <2>2, FreeIs, FreeWillBe DEF Same
  <2>. QED
    BY <2>1, <2>2
<1>. QED
  BY <1>1 DEF Same, Owners, Stages, Rounds, Askeds

LEMMA Posts ==
  ASSUME Sane, Sane', NEW t \in Tasks, Arrive(t)
  PROVE  Log!Post(t)
<1>1. /\ pc[t] = "idle" /\ pc' = [pc EXCEPT ![t] = "arrived"] /\ running' = running
      /\ turn' = turn /\ calls' = calls
  BY DEF Arrive, Goto
<1>2. Owners' = Owners /\ Stages' = Stages /\ Rounds' = Rounds /\ Askeds' = Askeds
  <2>1. ~ Active(t) /\ ~ Active(t)' /\ OthersRest(t)
    BY <1>1 DEF Active, Holding, InFlight, OthersRest, Sane, TypeOK
  <2>. QED
    BY <1>1, <2>1, Strangers
<1>3. t \notin Past /\ Past' = Past
  BY <1>1 DEF Past, Sane, TypeOK
<1>4. Log!Extend(SessionOf[t], <<Log!Msg("user", t, 0, 0, 0)>>)
  BY DEF Arrive, Write, Prompt, UserMsg, Log!Extend, Log!Msg
<1>. QED
  BY <1>2, <1>3, <1>4 DEF Log!Post, Owners, Stages, Rounds, Askeds, Past

LEMMA Leaves ==
  ASSUME Sane, Sane', NEW t \in Tasks, Refuse(t)
  PROVE  Log!Leave(t)
<1>1. /\ pc[t] = "arrived" /\ pc' = [pc EXCEPT ![t] = "done"] /\ running' = running
      /\ turn' = turn /\ calls' = calls /\ history' = history
  BY DEF Refuse, Return, Goto, shared
<1>2. ~ Active(t) /\ ~ Active(t)' /\ OthersRest(t)
  BY <1>1 DEF Active, Holding, InFlight, OthersRest, Sane, TypeOK
<1>3. Owners' = Owners /\ Stages' = Stages /\ Rounds' = Rounds /\ Askeds' = Askeds
  BY <1>1, <1>2, Strangers
<1>4. Past' = Past \cup {t}
  BY <1>1 DEF Past, Sane, TypeOK
<1>5. Owners[SessionOf[t]] # t
  <2> DEFINE s == SessionOf[t]
  <2>1. s \in Sessions
    BY SessionsOfTasks
  <2>2. CASE running[s]
    <3>1. PICK u \in Tasks : SessionOf[u] = s /\ Active(u)
      BY <2>1, <2>2 DEF Sane, OneRunPerSession
    <3>. QED
      BY <1>2, <2>1, <3>1, OwnedIs DEF Owners
  <2>3. CASE ~ running[s]
    BY <2>1, <2>3, FreeIs, RunAssumption DEF Owners, RunAssumption
  <2>. QED
    BY <2>2, <2>3
<1>. QED
  BY <1>1, <1>3, <1>4, <1>5 DEF Log!Leave, Owners, Stages, Rounds, Askeds, Past

-----------------------------------------------------------------------------
\* Every step of every run is one of the session log or none, so runs share a
\* session as SessionLog promises: whole turns, one owner at a time, nothing
\* after the end ( Run, Session.TryStartRun, Append, EndRun ).
THEOREM LoopImplementsLog == Spec => LogSpec
<1>1. Init => Log!Init
  <2> SUFFICES ASSUME Init PROVE Log!Init
    OBVIOUS
  <2>1. \A s \in Sessions : Owner(s) = "nobody" /\ Stage(s) = "free"
                            /\ Round(s) = 0 /\ Asked(s) = 0
    BY FreeIs DEF Init
  <2>. QED
    BY <2>1 DEF Init, Log!Init, Log!Nobody
<1>2. Sane /\ Sane' /\ [Next]_vars => [Log!Next]_(Log!logVars)
  <2> SUFFICES ASSUME Sane, Sane', [Next]_vars
               PROVE  [Log!Next]_(Log!logVars)
    OBVIOUS
  <2>1. ASSUME NEW t \in Tasks, Arrive(t) PROVE Log!Next
    BY <2>1, Posts DEF Log!Next
  <2>2. ASSUME NEW t \in Tasks, Refuse(t) PROVE Log!Next
    BY <2>2, Leaves DEF Log!Next
  <2>3. ASSUME NEW t \in Tasks, Start(t) PROVE Log!Next
    BY <2>3, Takes, SessionsOfTasks DEF Log!Next
  <2>4. ASSUME NEW t \in Tasks, EndRun(t) PROVE Log!Next
    BY <2>4, Releases, SessionsOfTasks DEF Log!Next
  <2>5. ASSUME NEW t \in Tasks, Within(t) PROVE [Log!Next]_(Log!logVars)
    <3>1. CASE \/ Prepare(t) /\ pc'[t] = "boundary"
               \/ BeginTurn(t) \/ AskFinal(t) \/ ThinkAnswer(t)
               \/ \E i \in DOMAIN calls[t] : CallStart(t, i) \/ CallReturn(t, i)
      BY <3>1, UnseenSteps
    <3>2. CASE \/ Prepare(t) /\ pc'[t] # "boundary"
               \/ AbortTurn(t) \/ CallFails(t) \/ DropAnswer(t) \/ AbortBatch(t)
      BY <3>2, FailuresGiveUp, SessionsOfTasks DEF Log!Next
    <3>3. CASE ForceFinal(t)
      BY <3>3, Instructs, SessionsOfTasks DEF Log!Next
    <3>4. CASE FinalAnswer(t) \/ (ActAnswer(t) /\ pc'[t] # "exec")
      BY <3>4, Concludes, SessionsOfTasks DEF Log!Next
    <3>5. CASE ActAnswer(t) /\ pc'[t] = "exec"
      BY <3>5, Asks, SessionsOfTasks DEF Log!Next
    <3>6. CASE FinishBatch(t)
      BY <3>6, Answers, SessionsOfTasks DEF Log!Next
    <3>. QED
      BY <2>5, <3>1, <3>2, <3>3, <3>4, <3>5, <3>6 DEF Within
  <2>6. CASE \/ UNCHANGED vars
             \/ \E t \in Tasks : Cancel(t)
    <3>1. /\ history' = history /\ running' = running /\ pc' = pc /\ turn' = turn
          /\ calls' = calls
      BY <2>6 DEF Cancel, vars, local, shared
    <3>2. ASSUME NEW s \in Sessions PROVE Same(s)
      BY <3>1, UntouchedStays
    <3>. QED
      BY <3>1, <3>2 DEF Same, Log!logVars
  <2>. QED
    BY <2>1, <2>2, <2>3, <2>4, <2>5, <2>6 DEF Next, RunStep, EngineStep, Within, AllDone
<1>. QED
  BY <1>1, <1>2, Typing, RunExclusion, UnstartedInvariant, PTL
     DEF Spec, LogSpec, Log!Spec, Sane

-----------------------------------------------------------------------------
(* The answers of a batch are in a history all together or not at all.     *)

\* What AnswersAreWhole says of one reply, and of one result.
AnsweredWhole(h, i) ==
  \/ AnswersOf(h, i) = {}
  \/ \E k \in i..Len(h) :
       /\ AnswersOf(h, i) = (k+1)..(k + h[i].calls)
       /\ \A c \in 1..h[i].calls : h[k+c].call = c
       /\ \A j \in (i+1)..k : h[j].turn = 0
AskedFor(h, j) == \E i \in 1..(j-1) : h[i].calls > 0 /\ j \in AnswersOf(h, i)

Whole(h) ==
  /\ \A i \in DOMAIN h : h[i].calls > 0 => AnsweredWhole(h, i)
  /\ \A j \in DOMAIN h : h[j].call > 0 => AskedFor(h, j)

\* Messages that are neither a question nor an answer.
Plain(m) == m.calls = 0 /\ m.call = 0

\* Run t has asked and answered in turns before k only ...
Below(t, h, k) == \A j \in DOMAIN h : h[j].run = t /\ ~ Plain(h[j]) => h[j].turn < k

\* ... or, besides, has asked n calls in turn k and nobody but prompts followed.
Asking(t, h, k, n) == \E i \in DOMAIN h :
  /\ h[i] = Reply(t, k, n) /\ n > 0
  /\ \A j \in (i+1)..Len(h) : h[j].turn = 0
  /\ \A j \in DOMAIN h : j # i /\ h[j].run = t /\ ~ Plain(h[j]) => h[j].turn < k

AnswersInv ==
  /\ \A s \in Sessions : Whole(history[s])
  /\ \A t \in Tasks : LET h == history[SessionOf[t]] IN
       /\ pc[t] \notin {"exec", "ending", "done"} => Below(t, h, turn[t])
       /\ pc[t] = "exec" => Asking(t, h, turn[t], Len(calls[t]))

\* A block at the end of a history.
LEMMA Extended ==
  ASSUME NEW h \in Seq(Message), NEW b \in Seq(Message)
  PROVE  /\ Len(h) \in Nat /\ Len(b) \in Nat
         /\ DOMAIN h = 1..Len(h) /\ DOMAIN b = 1..Len(b)
         /\ Len(h \o b) = Len(h) + Len(b) /\ DOMAIN (h \o b) = 1..(Len(h) + Len(b))
         /\ \A i \in 1..Len(h) : (h \o b)[i] = h[i]
         /\ \A i \in 1..Len(b) : (h \o b)[Len(h) + i] = b[i]
         /\ \A i \in 1..(Len(h) + Len(b)) : i > Len(h) =>
              i - Len(h) \in 1..Len(b) /\ (h \o b)[i] = b[i - Len(h)]
  BY ConcatProperties, LenProperties

LEMMA NumbersOfMessages ==
  ASSUME NEW h \in Seq(Message), NEW i \in DOMAIN h
  PROVE  h[i].turn \in Nat /\ h[i].calls \in Nat /\ h[i].call \in Nat
<1>1. h[i] \in Message
  BY ElementOfSeq, LenProperties
<1>. QED
  BY <1>1 DEF Message

\* A block without answers to a reply changes nothing for it.
LEMMA SameAnswers ==
  ASSUME NEW h \in Seq(Message), NEW b \in Seq(Message), NEW i \in DOMAIN h,
         \A j \in DOMAIN b :
           b[j].call > 0 => ~ (b[j].run = h[i].run /\ b[j].turn = h[i].turn)
  PROVE  /\ AnswersOf(h \o b, i) = AnswersOf(h, i)
         /\ AnsweredWhole(h, i) => AnsweredWhole(h \o b, i)
<1> DEFINE g == h \o b
<1>1. g[i] = h[i] /\ h[i].calls \in Nat
  BY Extended, NumbersOfMessages
<1>2. ASSUME NEW j \in DOMAIN g, g[j].call > 0, g[j].run = g[i].run, g[j].turn = g[i].turn
      PROVE  j \in DOMAIN h
  <2>1. CASE j > Len(h)
    <3>1. j - Len(h) \in DOMAIN b /\ g[j] = b[j - Len(h)]
      BY <2>1, Extended
    <3>. QED
      BY <1>1, <1>2, <3>1
  <2>. QED
    BY <2>1, Extended
<1>3. \A j \in DOMAIN h : j \in DOMAIN g /\ g[j] = h[j]
  BY Extended
<1>4. AnswersOf(g, i) = AnswersOf(h, i)
  BY <1>1, <1>2, <1>3 DEF AnswersOf
<1>5. ASSUME NEW k \in i..Len(h),
             AnswersOf(h, i) = (k+1)..(k + h[i].calls),
             \A c \in 1..h[i].calls : h[k+c].call = c,
             \A j \in (i+1)..k : h[j].turn = 0
      PROVE  AnsweredWhole(g, i)
  <2>1. k \in i..Len(g) /\ k \in Nat /\ i \in Nat
    BY Extended
  <2>2. \A c \in 1..h[i].calls : k + c \in DOMAIN h
    <3>1. AnswersOf(h, i) \subseteq DOMAIN h
      BY DEF AnswersOf
    <3>2. \A c \in 1..h[i].calls : k + c \in (k+1)..(k + h[i].calls)
      BY <1>1, <2>1
    <3>. QED
      BY <1>5, <3>1, <3>2
  <2>3. \A c \in 1..g[i].calls : g[k+c].call = c
    BY <1>1, <1>3, <1>5, <2>2
  <2>4. \A j \in (i+1)..k : g[j].turn = 0
    <3>1. \A j \in (i+1)..k : j \in DOMAIN h
      BY <2>1, Extended
    <3>. QED
      BY <1>3, <1>5, <3>1
  <2>. QED
    BY <1>1, <1>4, <1>5, <2>1, <2>3, <2>4 DEF AnsweredWhole
<1>. QED
  BY <1>4, <1>5 DEF AnsweredWhole

\* A result keeps the reply that asked for it.
LEMMA SameOrigin ==
  ASSUME NEW h \in Seq(Message), NEW b \in Seq(Message), NEW j \in DOMAIN h,
         AskedFor(h, j)
  PROVE  AskedFor(h \o b, j)
<1> DEFINE g == h \o b
<1>1. PICK i \in 1..(j-1) : h[i].calls > 0 /\ j \in AnswersOf(h, i)
  BY DEF AskedFor
<1>2. i \in DOMAIN h /\ g[i] = h[i] /\ g[j] = h[j] /\ j \in DOMAIN g
  BY Extended
<1>3. j \in AnswersOf(g, i)
  BY <1>1, <1>2 DEF AnswersOf
<1>. QED
  BY <1>1, <1>2, <1>3 DEF AskedFor

\* A plain block keeps a history whole.
LEMMA PlainBlock ==
  ASSUME NEW h \in Seq(Message), NEW b \in Seq(Message),
         \A i \in DOMAIN b : Plain(b[i])
  PROVE  /\ Whole(h) => Whole(h \o b)
         /\ \A t \in Tasks, k \in Nat : Below(t, h, k) => Below(t, h \o b, k)
<1> DEFINE g == h \o b
<1>1. ASSUME NEW i \in DOMAIN g
      PROVE  Plain(g[i]) \/ (i \in DOMAIN h /\ g[i] = h[i])
  BY Extended
<1>2. \A j \in DOMAIN b : ~ (b[j].call > 0)
  BY DEF Plain
<1>3. ASSUME Whole(h), NEW i \in DOMAIN g
      PROVE  /\ g[i].calls > 0 => AnsweredWhole(g, i)
             /\ g[i].call > 0 => AskedFor(g, i)
  BY <1>1, <1>2, <1>3, SameAnswers, SameOrigin DEF Whole, Plain
<1>4. \A t \in Tasks, k \in Nat : Below(t, h, k) => Below(t, g, k)
  BY <1>1 DEF Below
<1>. QED
  BY <1>3, <1>4 DEF Whole

LEMMA PromptKeepsAsking ==
  ASSUME NEW h \in Seq(Message), NEW b \in Seq(Message),
         \A i \in DOMAIN b : Plain(b[i]) /\ b[i].turn = 0,
         NEW t \in Tasks, NEW k \in Nat, NEW n \in Nat, Asking(t, h, k, n)
  PROVE  Asking(t, h \o b, k, n)
<1> DEFINE g == h \o b
<1>1. ASSUME NEW i \in DOMAIN g
      PROVE  (Plain(g[i]) /\ g[i].turn = 0) \/ (i \in DOMAIN h /\ g[i] = h[i])
  BY Extended
<1>2. PICK i \in DOMAIN h :
        /\ h[i] = Reply(t, k, n) /\ n > 0
        /\ \A j \in (i+1)..Len(h) : h[j].turn = 0
        /\ \A j \in DOMAIN h : j # i /\ h[j].run = t /\ ~ Plain(h[j]) => h[j].turn < k
  BY DEF Asking
<1>3. i \in DOMAIN g /\ g[i] = h[i]
  BY Extended
<1>4. \A j \in (i+1)..Len(g) : g[j].turn = 0
  <2>1. ASSUME NEW j \in (i+1)..Len(g), j \in DOMAIN h, g[j] = h[j] PROVE g[j].turn = 0
    BY <1>2, <2>1, Extended
  <2>2. \A j \in (i+1)..Len(g) : j \in DOMAIN g
    BY Extended
  <2>. QED
    BY <1>1, <2>1, <2>2
<1>. QED
  BY <1>1, <1>2, <1>3, <1>4 DEF Asking

\* What t writes changes nothing for the others.
LEMMA OthersBelow ==
  ASSUME NEW h \in Seq(Message), NEW b \in Seq(Message), NEW t \in Tasks,
         \A i \in DOMAIN b : b[i].run = t,
         NEW u \in Tasks, u # t, NEW k \in Nat, Below(u, h, k)
  PROVE  Below(u, h \o b, k)
<1>1. ASSUME NEW i \in DOMAIN (h \o b)
      PROVE  (h \o b)[i].run = t \/ (i \in DOMAIN h /\ (h \o b)[i] = h[i])
  BY Extended
<1>. QED
  BY <1>1 DEF Below

\* A reply that asks, of a run that has nothing open.
LEMMA AskBlock ==
  ASSUME NEW h \in Seq(Message), NEW t \in Tasks, NEW k \in Nat, NEW n \in Nat \ {0},
         Whole(h), Below(t, h, k)
  PROVE  Whole(h \o <<Reply(t, k, n)>>) /\ Asking(t, h \o <<Reply(t, k, n)>>, k, n)
<1> DEFINE r == Reply(t, k, n)
           b == <<r>>
           g == h \o b
           new == Len(h) + 1
<1>1. /\ r.role = "assistant" /\ r.run = t /\ r.turn = k /\ r.calls = n /\ r.call = 0
      /\ b \in Seq(Message) /\ Len(b) = 1 /\ b[1] = r /\ r = Reply(t, k, n)
  BY MessagesAreTyped DEF Reply
<1> HIDE DEF r, b
<1>2. /\ new \in DOMAIN g /\ g[new] = r /\ Len(g) = new /\ DOMAIN g = 1..new
      /\ \A i \in DOMAIN g : i = new \/ (i \in DOMAIN h /\ g[i] = h[i])
      /\ \A i \in DOMAIN h : i \in DOMAIN g /\ g[i] = h[i]
      /\ DOMAIN b = {1} /\ Len(h) \in Nat
  <2>1. /\ Len(h) \in Nat /\ DOMAIN h = 1..Len(h) /\ DOMAIN b = 1..1
        /\ Len(g) = Len(h) + 1 /\ DOMAIN g = 1..(Len(h) + 1)
    <3>1. /\ Len(h) \in Nat /\ DOMAIN h = 1..Len(h) /\ DOMAIN b = 1..Len(b)
          /\ Len(g) = Len(h) + Len(b) /\ DOMAIN g = 1..(Len(h) + Len(b))
      BY <1>1, Extended, Zenon
    <3>. QED
      BY <1>1, <3>1, Zenon
  <2>2. \A i \in 1..Len(h) : g[i] = h[i]
    <3>1. \A i \in DOMAIN h : g[i] = h[i]
      BY <1>1, Extended
    <3>. QED
      BY <2>1, <3>1, Zenon
  <2>3. g[Len(h) + 1] = b[1]
    <3>1. \A c \in 1..Len(b) : g[Len(h) + c] = b[c]
      BY <1>1, Extended
    <3>2. 1 \in 1..Len(b)
      BY <1>1
    <3>. QED
      BY <3>1, <3>2
  <2> HIDE DEF g
  <2>. QED
    BY <1>1, <2>1, <2>2, <2>3
<1> HIDE DEF g
<1>3. \A j \in DOMAIN b : ~ (b[j].call > 0)
  BY <1>1, <1>2
<1>4. ASSUME NEW i \in DOMAIN h
      PROVE  /\ g[i].calls > 0 => AnsweredWhole(g, i)
             /\ g[i].call > 0 => AskedFor(g, i)
  BY <1>1, <1>2, <1>3, SameAnswers, SameOrigin DEF Whole, g
<1>5. AnswersOf(g, new) = {}
  <2> SUFFICES ASSUME NEW j \in DOMAIN g, g[j].call > 0, g[j].run = g[new].run,
                      g[j].turn = g[new].turn
               PROVE  FALSE
    BY DEF AnswersOf
  <2>1. j \in DOMAIN h /\ g[j] = h[j]
    BY <1>1, <1>2
  <2>. QED
    BY <1>1, <1>2, <2>1, NumbersOfMessages DEF Below, Plain
<1>6. Whole(g)
  <2>1. AnsweredWhole(g, new)
    BY <1>5 DEF AnsweredWhole
  <2>2. ~ (g[new].call > 0)
    BY <1>1, <1>2
  <2>. QED
    BY <1>2, <1>4, <2>1, <2>2 DEF Whole
<1>7. Asking(t, g, k, n)
  BY <1>1, <1>2 DEF Asking, Below
<1>. QED
  BY <1>1, <1>6, <1>7 DEF g, b

\* The answers to the calls that are open, all of them and in order.
LEMMA AnswerBlock ==
  ASSUME NEW h \in Seq(Message), NEW b \in Seq(Message), NEW t \in Tasks,
         NEW k \in Nat, NEW n \in Nat, Whole(h), Asking(t, h, k, n), n <= Len(b),
         \A c \in 1..n : b[c] = Result(t, k, c),
         \A c \in DOMAIN b : c > n => Plain(b[c]) /\ b[c].run = t /\ b[c].turn = k
  PROVE  Whole(h \o b) /\ Below(t, h \o b, k + 1)
<1> DEFINE g == h \o b
           l == Len(h)
<1>1. PICK i0 \in DOMAIN h :
        /\ h[i0] = Reply(t, k, n) /\ n > 0
        /\ \A j \in (i0+1)..Len(h) : h[j].turn = 0
        /\ \A j \in DOMAIN h : j # i0 /\ h[j].run = t /\ ~ Plain(h[j]) => h[j].turn < k
  BY DEF Asking
<1>2. h[i0].run = t /\ h[i0].turn = k /\ h[i0].calls = n /\ h[i0].call = 0
  BY <1>1 DEF Reply
<1>3. \A c \in 1..n :
        b[c].run = t /\ b[c].turn = k /\ b[c].calls = 0 /\ b[c].call = c
  <2>1. ASSUME NEW c \in 1..n
        PROVE  b[c].run = t /\ b[c].turn = k /\ b[c].calls = 0 /\ b[c].call = c
    <3>1. b[c] = UserMsg(t, k, c)
      BY DEF Result
    <3>. QED
      BY <3>1 DEF UserMsg
  <2>. QED
    BY <2>1
<1>4. /\ l \in Nat /\ DOMAIN h = 1..l /\ DOMAIN g = 1..Len(g) /\ l + n <= Len(g)
      /\ Len(g) \in Nat
      /\ \A i \in DOMAIN h : i \in DOMAIN g /\ g[i] = h[i]
      /\ \A c \in 1..n : l + c \in DOMAIN g /\ g[l + c] = b[c]
      /\ \A i \in DOMAIN g : \/ i \in DOMAIN h
                             \/ i \in (l+1)..(l+n)
                             \/ i > l + n /\ Plain(g[i]) /\ g[i].run = t /\ g[i].turn = k
  <2>1. ASSUME NEW i \in DOMAIN g, i > l + n
        PROVE  Plain(g[i]) /\ g[i].run = t /\ g[i].turn = k
    <3>1. i - l \in DOMAIN b /\ i - l > n /\ g[i] = b[i - l]
      BY <2>1, Extended
    <3>. QED
      BY <3>1
  <2>. QED
    BY <2>1, Extended
<1>5. \A i \in (l+1)..(l+n) : /\ g[i].run = t /\ g[i].turn = k /\ g[i].calls = 0
                              /\ g[i].call = i - l /\ i \in DOMAIN g
  <2>1. ASSUME NEW i \in (l+1)..(l+n)
        PROVE  i - l \in 1..n /\ i = l + (i - l)
    BY <1>4, <2>1
  <2>. QED
    BY <1>3, <1>4, <2>1
<1> HIDE DEF g, l
<1>6. AnswersOf(g, i0) = (l+1)..(l+n)
  <2>1. g[i0] = h[i0]
    BY <1>4
  <2>2. ASSUME NEW j \in (l+1)..(l+n) PROVE j \in AnswersOf(g, i0)
    BY <1>2, <1>4, <1>5, <2>1, <2>2 DEF AnswersOf
  <2>3. ASSUME NEW j \in AnswersOf(g, i0) PROVE j \in (l+1)..(l+n)
    <3>1. j \in DOMAIN g /\ g[j].call > 0 /\ g[j].run = t /\ g[j].turn = k
      BY <1>2, <2>1 DEF AnswersOf
    <3>2. ASSUME j \in DOMAIN h PROVE FALSE
      <4>1. g[j] = h[j] /\ ~ Plain(h[j])
        BY <1>4, <3>1, <3>2 DEF Plain
      <4>2. j # i0
        BY <1>2, <3>1, <4>1
      <4>3. h[j].turn < k
        BY <1>1, <3>1, <3>2, <4>1, <4>2
      <4>. QED
        BY <3>1, <4>1, <4>3
    <3>. QED
      BY <1>4, <3>1, <3>2 DEF Plain
  <2>. QED
    BY <2>2, <2>3
<1>7. AnsweredWhole(g, i0)
  <2>1. l \in i0..Len(g)
    BY <1>4
  <2>2. g[i0].calls = n /\ \A c \in 1..n : g[l + c].call = c
    BY <1>2, <1>3, <1>4
  <2>3. \A j \in (i0+1)..l : g[j].turn = 0
    <3>1. \A j \in (i0+1)..l : j \in DOMAIN h /\ h[j].turn = 0
      BY <1>1, <1>4 DEF l
    <3>. QED
      BY <1>4, <3>1
  <2>. QED
    BY <1>6, <2>1, <2>2, <2>3 DEF AnsweredWhole
<1>8. ASSUME NEW i \in DOMAIN h, i # i0, h[i].calls > 0 PROVE AnsweredWhole(g, i)
  <2>1. ~ (h[i].run = t /\ h[i].turn = k)
    BY <1>1, <1>8, NumbersOfMessages DEF Plain
  <2>2. \A j \in DOMAIN b : b[j].call > 0 => b[j].run = t /\ b[j].turn = k
    BY <1>3, Extended DEF Plain
  <2>. QED
    BY <1>8, <2>1, <2>2, SameAnswers DEF Whole, g
<1>9. ASSUME NEW j \in (l+1)..(l+n) PROVE AskedFor(g, j)
  <2>1. i0 \in 1..(j-1) /\ g[i0].calls > 0
    BY <1>1, <1>2, <1>4
  <2>. QED
    BY <1>6, <2>1 DEF AskedFor
<1>10. \A j \in DOMAIN h : g[j].call > 0 => AskedFor(g, j)
  BY <1>4, SameOrigin DEF Whole, g
<1>11. Whole(g)
  <2>1. \A i \in DOMAIN g : g[i].calls > 0 => AnsweredWhole(g, i)
    BY <1>4, <1>5, <1>7, <1>8 DEF Plain
  <2>2. \A j \in DOMAIN g : g[j].call > 0 => AskedFor(g, j)
    BY <1>4, <1>9, <1>10 DEF Plain
  <2>. QED
    BY <2>1, <2>2 DEF Whole
<1>12. Below(t, g, k + 1)
  <2> SUFFICES ASSUME NEW j \in DOMAIN g, g[j].run = t, ~ Plain(g[j])
               PROVE  g[j].turn < k + 1
    BY DEF Below
  <2>1. CASE j \in DOMAIN h
    <3>1. g[j] = h[j] /\ h[j].turn \in Nat
      BY <1>4, <2>1, NumbersOfMessages
    <3>2. j # i0 => h[j].turn < k
      BY <1>1, <2>1, <3>1
    <3>. QED
      BY <1>2, <3>1, <3>2
  <2>2. CASE j \notin DOMAIN h
    BY <1>4, <1>5, <2>2
  <2>. QED
    BY <2>1, <2>2
<1>. QED
  BY <1>11, <1>12 DEF g

-----------------------------------------------------------------------------
(* The steps, again. *)

\* A session has one run that may write with a turn.
LEMMA OnlyOneExecutes ==
  ASSUME OneRunPerSession, NEW t \in Tasks, NEW u \in Tasks, u # t,
         SessionOf[u] = SessionOf[t], Active(t)
  PROVE  pc[u] # "exec"
BY DEF OneRunPerSession, Active, Holding

\* A step that writes nothing.
LEMMA NothingWritten ==
  ASSUME TypeOK, AnswersInv, NEW t \in Tasks, history' = history, turn' = turn,
         calls' = calls, NEW label, label # "exec", pc' = [pc EXCEPT ![t] = label],
         label \notin {"ending", "done"} => pc[t] \notin {"exec", "ending", "done"}
  PROVE  AnswersInv'
<1>1. \A u \in Tasks : u # t => pc'[u] = pc[u]
  BY DEF TypeOK
<1>2. pc'[t] = label
  BY DEF TypeOK
<1>. QED
  BY <1>1, <1>2 DEF AnswersInv

\* A run that is not executing writes a plain block.
LEMMA PlainWritten ==
  ASSUME TypeOK, OneRunPerSession, AnswersInv, NEW t \in Tasks,
         NEW b \in Seq(Message), Write(t, b), \A i \in DOMAIN b : Plain(b[i]),
         Active(t) \/ \A i \in DOMAIN b : b[i].turn = 0,
         turn' = turn, calls' = calls, pc[t] \notin {"exec", "ending", "done"},
         NEW label, label # "exec", pc' = [pc EXCEPT ![t] = label]
  PROVE  AnswersInv'
<1>1. \A u \in Tasks : /\ SessionOf[u] \in Sessions /\ turn[u] \in Nat
                       /\ Len(calls[u]) \in Nat
  BY RunAssumption, LenProperties DEF RunAssumption, TypeOK
<1>2. \A s \in Sessions : history[s] \in Seq(Message) /\
        history'[s] = IF s = SessionOf[t] THEN history[s] \o b ELSE history[s]
  BY <1>1 DEF Write, TypeOK
<1>3. pc'[t] = label /\ \A u \in Tasks : u # t => pc'[u] = pc[u]
  BY DEF TypeOK
<1>4. \A s \in Sessions : Whole(history'[s])
  BY <1>2, PlainBlock DEF AnswersInv
<1>5. ASSUME NEW u \in Tasks, pc'[u] \notin {"exec", "ending", "done"}
      PROVE  Below(u, history'[SessionOf[u]], turn[u])
  <2>1. Below(u, history[SessionOf[u]], turn[u])
    BY <1>3, <1>5 DEF AnswersInv
  <2>. QED
    BY <1>1, <1>2, <2>1, PlainBlock
<1>6. ASSUME NEW u \in Tasks, pc'[u] = "exec"
      PROVE  Asking(u, history'[SessionOf[u]], turn[u], Len(calls[u]))
  <2>1. u # t /\ Asking(u, history[SessionOf[u]], turn[u], Len(calls[u]))
    BY <1>3, <1>6 DEF AnswersInv
  <2>2. CASE SessionOf[u] = SessionOf[t]
    <3>1. \A i \in DOMAIN b : Plain(b[i]) /\ b[i].turn = 0
      BY <1>3, <1>6, <2>1, <2>2, OnlyOneExecutes
    <3>. QED
      BY <1>1, <1>2, <2>1, <2>2, <3>1, PromptKeepsAsking
  <2>3. CASE SessionOf[u] # SessionOf[t]
    BY <1>1, <1>2, <2>1, <2>3
  <2>. QED
    BY <2>2, <2>3
<1>. QED
  BY <1>4, <1>5, <1>6 DEF AnswersInv

\* What the active run writes concerns no other.
LEMMA OthersUnaffected ==
  ASSUME TypeOK, OneRunPerSession, AnswersInv, NEW t \in Tasks, Active(t),
         NEW b \in Seq(Message), Write(t, b), \A i \in DOMAIN b : b[i].run = t,
         NEW u \in Tasks, u # t, pc'[u] = pc[u], turn'[u] = turn[u], calls'[u] = calls[u]
  PROVE  LET h == history'[SessionOf[u]] IN
         /\ pc'[u] \notin {"exec", "ending", "done"} => Below(u, h, turn'[u])
         /\ pc'[u] = "exec" => Asking(u, h, turn'[u], Len(calls'[u]))
<1>1. SessionOf[u] \in Sessions /\ turn[u] \in Nat
  BY RunAssumption DEF RunAssumption, TypeOK
<1>2. history[SessionOf[u]] \in Seq(Message) /\
      history'[SessionOf[u]] = IF SessionOf[u] = SessionOf[t]
                               THEN history[SessionOf[u]] \o b ELSE history[SessionOf[u]]
  BY <1>1 DEF Write, TypeOK
<1>3. CASE SessionOf[u] = SessionOf[t]
  BY <1>1, <1>2, <1>3, OthersBelow, OnlyOneExecutes DEF AnswersInv
<1>4. CASE SessionOf[u] # SessionOf[t]
  BY <1>2, <1>4 DEF AnswersInv
<1>. QED
  BY <1>3, <1>4

LEMMA AskingKeeps ==
  ASSUME Sane, AnswersInv, NEW t \in Tasks, ActAnswer(t), pc'[t] = "exec"
  PROVE  AnswersInv'
<1> DEFINE s == SessionOf[t]
<1>1. Active(t) /\ pc[t] = "act" /\ turn' = turn /\ turn[t] \in Nat /\ s \in Sessions
  BY SessionsOfTasks DEF ActAnswer, Active, Holding, InFlight, Sane, TypeOK
<1>2. PICK n \in 0..MaxCalls :
        /\ Write(t, <<Reply(t, turn[t], n)>>)
        /\ IF n = 0 THEN Finish(t, "ok")
           ELSE /\ Goto(t, "exec")
                /\ calls' = [calls EXCEPT ![t] = [i \in 1..n |-> "ready"]]
  BY DEF ActAnswer
<1>3. n \in Nat \ {0} /\ \A u \in Tasks : u # t => pc'[u] = pc[u] /\ calls'[u] = calls[u]
  BY <1>2, RunAssumption DEF Finish, Goto, Sane, TypeOK, RunAssumption
<1>4. Len(calls'[t]) = n
  BY <1>2, <1>3 DEF Sane, TypeOK
<1> DEFINE b == <<Reply(t, turn[t], n)>>
<1>5. b \in Seq(Message) /\ \A i \in DOMAIN b : b[i].run = t
  BY <1>1, <1>3, MessagesAreTyped DEF Reply
<1>6. \A x \in Sessions : history'[x] = IF x = s THEN history[x] \o b ELSE history[x]
  BY <1>2 DEF Write, Sane, TypeOK
<1>7. /\ Whole(history[s] \o b) /\ Asking(t, history[s] \o b, turn[t], n)
  <2>1. Whole(history[s]) /\ Below(t, history[s], turn[t]) /\ history[s] \in Seq(Message)
    BY <1>1 DEF AnswersInv, Sane, TypeOK
  <2>. QED
    BY <1>1, <1>3, <2>1, AskBlock
<1>8. ASSUME NEW u \in Tasks, u # t
      PROVE  LET h == history'[SessionOf[u]] IN
             /\ pc'[u] \notin {"exec", "ending", "done"} => Below(u, h, turn'[u])
             /\ pc'[u] = "exec" => Asking(u, h, turn'[u], Len(calls'[u]))
  BY <1>1, <1>2, <1>3, <1>5, <1>8, OthersUnaffected DEF Sane
<1> HIDE DEF b
<1>9. \A x \in Sessions : Whole(history'[x])
  BY <1>6, <1>7 DEF AnswersInv
<1>10. Asking(t, history'[s], turn'[t], Len(calls'[t]))
  BY <1>1, <1>4, <1>6, <1>7
<1>. QED
  BY <1>8, <1>9, <1>10 DEF AnswersInv

LEMMA AnsweringKeeps ==
  ASSUME Sane, AnswersInv, NEW t \in Tasks, FinishBatch(t)
  PROVE  AnswersInv'
<1> DEFINE s == SessionOf[t]
           n == Len(calls[t])
<1>1. /\ Active(t) /\ pc[t] = "exec" /\ pc'[t] = "boundary" /\ turn[t] \in Nat
      /\ turn'[t] = turn[t] + 1 /\ s \in Sessions /\ n \in Nat
      /\ \A u \in Tasks : u # t =>
           pc'[u] = pc[u] /\ turn'[u] = turn[u] /\ calls'[u] = calls[u]
  BY SessionsOfTasks, LenProperties
     DEF FinishBatch, Goto, Active, Holding, InFlight, Sane, TypeOK
<1>2. PICK b \in {Results(t), Append(Results(t), Notice(t, turn[t]))} : Write(t, b)
  BY DEF FinishBatch, Observations
<1>3. /\ Results(t) \in Seq(Message) /\ Len(Results(t)) = n
      /\ \A c \in 1..n : Results(t)[c] = Result(t, turn[t], c)
      /\ Notice(t, turn[t]) \in Message
  BY <1>1, MessagesAreTyped DEF Results, Result, Notice
<1>4. /\ b \in Seq(Message) /\ n <= Len(b) /\ DOMAIN b = 1..Len(b)
      /\ \A c \in 1..n : b[c] = Result(t, turn[t], c)
      /\ \A c \in DOMAIN b : c > n => b[c] = Notice(t, turn[t])
  <2>1. CASE b = Results(t)
    BY <1>1, <1>3, <2>1, LenProperties
  <2>2. CASE b = Append(Results(t), Notice(t, turn[t]))
    <3> DEFINE r == Results(t)
               m == Notice(t, turn[t])
    <3> HIDE DEF r, m
    <3>1. /\ b \in Seq(Message) /\ Len(b) = n + 1 /\ b[n + 1] = m
          /\ \A c \in 1..n : b[c] = r[c]
      BY <1>1, <1>3, <2>2, AppendProperties DEF r, m
    <3>2. DOMAIN b = 1..(n + 1)
      BY <3>1, LenProperties
    <3>. QED
      BY <1>1, <1>3, <3>1, <3>2 DEF r, m
  <2>. QED
    BY <1>2, <2>1, <2>2
<1>5. \A c \in DOMAIN b : c > n => Plain(b[c]) /\ b[c].run = t /\ b[c].turn = turn[t]
  <2>1. /\ Plain(Notice(t, turn[t])) /\ Notice(t, turn[t]).run = t
        /\ Notice(t, turn[t]).turn = turn[t]
    BY DEF Notice, UserMsg, Plain
  <2>. QED
    BY <1>4, <2>1
<1>6. \A i \in DOMAIN b : b[i].run = t
  <2>1. \A c \in 1..n : Result(t, turn[t], c).run = t
    BY DEF Result, UserMsg
  <2>2. n \in Nat /\ Len(b) \in Nat
    BY <1>1, <1>4, LenProperties
  <2>3. SUFFICES ASSUME NEW i \in DOMAIN b
                 PROVE  b[i].run = t
    OBVIOUS
  <2>4. CASE i \in 1..n
    BY <1>4, <2>1, <2>4
  <2>5. CASE i > n
    BY <1>5, <2>3, <2>5
  <2> HIDE DEF n
  <2>6. i \in 1..n \/ i > n
    <3>1. i \in 1..Len(b)
      BY <1>4, <2>3, Zenon
    <3>. QED
      BY <2>2, <3>1
  <2>. QED
    BY <2>4, <2>5, <2>6
<1>7. \A x \in Sessions : history'[x] = IF x = s THEN history[x] \o b ELSE history[x]
  BY <1>2 DEF Write, Sane, TypeOK
<1>8. Whole(history[s] \o b) /\ Below(t, history[s] \o b, turn[t] + 1)
  <2>1. /\ Whole(history[s]) /\ Asking(t, history[s], turn[t], n)
        /\ history[s] \in Seq(Message)
    BY <1>1 DEF AnswersInv, Sane, TypeOK
  <2> HIDE DEF n
  <2>. QED
    BY <1>1, <1>4, <1>5, <2>1, AnswerBlock
<1>9. ASSUME NEW u \in Tasks, u # t
      PROVE  LET h == history'[SessionOf[u]] IN
             /\ pc'[u] \notin {"exec", "ending", "done"} => Below(u, h, turn'[u])
             /\ pc'[u] = "exec" => Asking(u, h, turn'[u], Len(calls'[u]))
  BY <1>1, <1>2, <1>4, <1>6, <1>9, OthersUnaffected DEF Sane
<1>10. \A x \in Sessions : Whole(history'[x])
  BY <1>7, <1>8 DEF AnswersInv
<1>11. Below(t, history'[s], turn'[t])
  BY <1>1, <1>7, <1>8
<1>. QED
  BY <1>1, <1>9, <1>10, <1>11 DEF AnswersInv

LEMMA PlainMessages ==
  ASSUME NEW t \in Tasks, NEW k \in Nat
  PROVE  /\ Prompt(t) \in Message /\ Plain(Prompt(t)) /\ Prompt(t).turn = 0
         /\ Notice(t, k) \in Message /\ Plain(Notice(t, k))
         /\ Reply(t, k, 0) \in Message /\ Plain(Reply(t, k, 0))
<1>1. /\ UserMsg(t, 0, 0) \in Message /\ UserMsg(t, k, 0) \in Message
      /\ Reply(t, k, 0) \in Message
  BY MessagesAreTyped
<1>2. \A c \in Nat : Plain(UserMsg(t, c, 0)) /\ UserMsg(t, c, 0).turn = c
  BY DEF UserMsg, Plain
<1>3. Plain(Reply(t, k, 0))
  BY DEF Reply, Plain
<1>. QED
  BY <1>1, <1>2, <1>3 DEF Prompt, Notice

\* One plain message.
LEMMA PlainMessageWritten ==
  ASSUME Sane, AnswersInv, NEW t \in Tasks, NEW m \in Message, Write(t, <<m>>), Plain(m),
         Active(t) \/ m.turn = 0,
         turn' = turn, calls' = calls, pc[t] \notin {"exec", "ending", "done"},
         NEW label, label # "exec", pc' = [pc EXCEPT ![t] = label]
  PROVE  AnswersInv'
<1> DEFINE b == <<m>>
<1>1. b \in Seq(Message) /\ \A i \in DOMAIN b : b[i] = m
  OBVIOUS
<1> HIDE DEF b
<1>2. Write(t, b)
  BY DEF b
<1>3. \A i \in DOMAIN b : Plain(b[i])
  BY <1>1
<1>4. Active(t) \/ \A i \in DOMAIN b : b[i].turn = 0
  BY <1>1
<1>. QED
  BY <1>1, <1>2, <1>3, <1>4, PlainWritten DEF Sane

LEMMA AnswersStep == Sane /\ AnswersInv /\ [Next]_vars => AnswersInv'
<1> SUFFICES ASSUME Sane, AnswersInv, [Next]_vars PROVE AnswersInv'
  OBVIOUS
<1>1. TypeOK /\ OneRunPerSession
  BY DEF Sane
<1>2. ASSUME NEW t \in Tasks, Arrive(t) PROVE AnswersInv'
  <2>1. /\ Prompt(t) \in Message /\ Plain(Prompt(t)) /\ Prompt(t).turn = 0
    BY PlainMessages
  <2>2. /\ Write(t, <<Prompt(t)>>) /\ turn' = turn /\ calls' = calls
        /\ pc[t] = "idle" /\ pc' = [pc EXCEPT ![t] = "arrived"]
    BY <1>2 DEF Arrive, Goto
  <2>. QED
    BY <2>1, <2>2, PlainMessageWritten
<1>3. ASSUME NEW t \in Tasks, Refuse(t) \/ Start(t) \/ Prepare(t) PROVE AnswersInv'
  BY <1>1, <1>3, NothingWritten DEF Refuse, Start, Prepare, Return, Finish, Goto, shared
<1>4. ASSUME NEW t \in Tasks, BeginTurn(t) \/ AskFinal(t) \/ AbortTurn(t) \/ ThinkAnswer(t)
      PROVE  AnswersInv'
  BY <1>1, <1>4, NothingWritten DEF BeginTurn, AskFinal, AbortTurn, ThinkAnswer, Send, Finish, Goto,
                                   shared
<1>5. ASSUME NEW t \in Tasks, CallFails(t) \/ DropAnswer(t) \/ AbortBatch(t) \/ EndRun(t)
      PROVE  AnswersInv'
  BY <1>1, <1>5, NothingWritten DEF CallFails, DropAnswer, AbortBatch, EndRun, Finish, Goto,
                                   shared
<1>6. ASSUME NEW t \in Tasks, ForceFinal(t) PROVE AnswersInv'
  <2>1. turn[t] \in Nat /\ Active(t)
    BY <1>1, <1>6 DEF ForceFinal, Active, Holding, TypeOK
  <2>. QED
    <3>1. Notice(t, turn[t]) \in Message /\ Plain(Notice(t, turn[t]))
      BY <2>1, PlainMessages
    <3>2. /\ Write(t, <<Notice(t, turn[t])>>) /\ turn' = turn /\ calls' = calls
          /\ pc[t] = "boundary" /\ pc' = [pc EXCEPT ![t] = "told"]
      BY <1>6 DEF ForceFinal, Goto
    <3>. QED
      BY <2>1, <3>1, <3>2, PlainMessageWritten
<1>7. ASSUME NEW t \in Tasks, FinalAnswer(t) PROVE AnswersInv'
  <2>1. turn[t] \in Nat /\ Active(t)
    BY <1>1, <1>7 DEF FinalAnswer, Active, Holding, InFlight, TypeOK
  <2>. QED
    <3>1. Reply(t, turn[t], 0) \in Message /\ Plain(Reply(t, turn[t], 0))
      BY <2>1, PlainMessages
    <3>2. /\ Write(t, <<Reply(t, turn[t], 0)>>) /\ turn' = turn /\ calls' = calls
          /\ pc[t] = "final" /\ pc' = [pc EXCEPT ![t] = "ending"]
      BY <1>7 DEF FinalAnswer, Finish, Goto
    <3>. QED
      BY <2>1, <3>1, <3>2, PlainMessageWritten
<1>8. ASSUME NEW t \in Tasks, ActAnswer(t), pc'[t] # "exec" PROVE AnswersInv'
  <2>1. turn[t] \in Nat /\ Active(t) /\ pc[t] = "act" /\ turn' = turn
    BY <1>1, <1>8 DEF ActAnswer, Active, Holding, InFlight, TypeOK
  <2>2. /\ Write(t, <<Reply(t, turn[t], 0)>>) /\ calls' = calls
        /\ pc' = [pc EXCEPT ![t] = "ending"]
    BY <1>1, <1>8 DEF ActAnswer, Finish, Goto, TypeOK
  <2>3. Reply(t, turn[t], 0) \in Message /\ Plain(Reply(t, turn[t], 0))
    BY <2>1, PlainMessages
  <2>. QED
    BY <2>1, <2>2, <2>3, PlainMessageWritten
<1>9. ASSUME NEW t \in Tasks, ActAnswer(t), pc'[t] = "exec" PROVE AnswersInv'
  BY <1>9, AskingKeeps
<1>10. ASSUME NEW t \in Tasks, FinishBatch(t) PROVE AnswersInv'
  BY <1>10, AnsweringKeeps
<1>11. ASSUME NEW t \in Tasks, NEW i \in DOMAIN calls[t],
              CallStart(t, i) \/ CallReturn(t, i)
       PROVE  AnswersInv'
  <2>1. /\ history' = history /\ pc' = pc /\ turn' = turn
        /\ \E v : calls' = [calls EXCEPT ![t][i] = v]
    BY <1>11 DEF CallStart, CallReturn, CallStep, shared
  <2>2. \A u \in Tasks : Len(calls'[u]) = Len(calls[u])
    BY <1>1, <2>1 DEF TypeOK
  <2>. QED
    BY <2>1, <2>2 DEF AnswersInv
<1>12. CASE UNCHANGED vars \/ \E t \in Tasks : Cancel(t)
  BY <1>12 DEF vars, local, shared, Cancel, AnswersInv
<1>. QED
  BY <1>2, <1>3, <1>4, <1>5, <1>6, <1>7, <1>8, <1>9, <1>10, <1>11, <1>12
     DEF Next, RunStep, EngineStep, AllDone

LEMMA AnswersAlways == Spec => []AnswersInv
<1>1. Init => AnswersInv
  BY RunAssumption DEF Init, AnswersInv, Whole, Below, RunAssumption
<1>. QED
  BY <1>1, AnswersStep, Typing, RunExclusion, UnstartedInvariant, PTL DEF Spec, Sane

\* In the history of any session, however many runs and prompts meet in it, the
\* results of a batch stand all together and in order, or there are none of them
\* ( execToolCalls, runTurn ).
THEOREM WholeAnswers == Spec => []AnswersAreWhole
<1>1. AnswersInv => AnswersAreWhole
  BY DEF AnswersInv, Whole, AnsweredWhole, AskedFor, AnswersAreWhole
<1>. QED
  BY <1>1, AnswersAlways, PTL

-----------------------------------------------------------------------------
(* Requests: what a model call is sent of a history.                       *)

\* A window is the end of a history, from a place that is the first one or has
\* a plain message of the user.
LEMMA WindowIsTail ==
  ASSUME NEW h \in Seq(Message), h # <<>>, NEW limit \in 0..Len(h)
  PROVE  \E start \in 1..Len(h) :
           /\ GetWorkingMemory(h, limit) = SubSeq(h, start, Len(h))
           /\ start = 1 \/ IsPlainUser(h[start])
           /\ limit = 0 => start = 1
           /\ start + limit <= Len(h) + 1
<1> DEFINE cut   == IF limit > 0 /\ Len(h) > limit THEN Len(h) - limit + 1 ELSE 1
           Good(i) == /\ i = 1 \/ IsPlainUser(h[i])
                      /\ \A j \in (i+1)..cut : ~ IsPlainUser(h[j])
           start == CHOOSE i \in 1..cut : Good(i)
           T     == {i \in 1..cut : i = 1 \/ IsPlainUser(h[i])}
<1>1. Len(h) \in Nat /\ Len(h) >= 1
  BY LenProperties, EmptySeq
<1>2. cut \in 1..Len(h) /\ (limit = 0 => cut = 1) /\ cut + limit <= Len(h) + 1
  BY <1>1
<1> HIDE DEF cut
<1>3. T \in SUBSET Nat /\ T # {} /\ \A i \in T : i <= cut
  <2>1. 1 \in T
    BY <1>1, <1>2
  <2> QED BY <1>1, <1>2, <2>1
<1>4. Max(T) \in T /\ \A i \in T : Max(T) >= i
  <2>1. PICK n \in Nat : n = cut
    BY <1>1, <1>2
  <2> HIDE DEF T
  <2> QED BY <1>3, <2>1, MaxIsGreatest
<1>5. PICK m \in 1..cut : m \in T /\ \A i \in T : m >= i
  BY <1>4
<1>6. Good(m)
  BY <1>1, <1>2, <1>5
<1>7. start \in 1..cut /\ Good(start)
  BY <1>6
<1>8. GetWorkingMemory(h, limit) = SubSeq(h, start, Len(h))
  BY DEF GetWorkingMemory, cut
<1> HIDE DEF start
<1>9. start \in 1..Len(h) /\ (limit = 0 => start = 1) /\ start + limit <= Len(h) + 1
  BY <1>1, <1>2, <1>7
<1> QED BY <1>7, <1>8, <1>9

LEMMA TailIs ==
  ASSUME NEW h \in Seq(Message), NEW start \in 1..Len(h)
  PROVE  LET w == SubSeq(h, start, Len(h)) IN
         /\ Len(h) \in Nat /\ Len(w) = Len(h) - start + 1 /\ DOMAIN w = 1..(Len(h) - start + 1)
         /\ \A i \in 1..(Len(h) - start + 1) : w[i] = h[start + i - 1]
<1>1. Len(h) \in Nat
  OBVIOUS
<1> QED BY <1>1, SubSeqProperties

\* A legal history stays legal when it is cut at such a place: the results
\* behind it have their replies behind it too.
LEMMA TailIsLegal ==
  ASSUME NEW h \in Seq(Message), Legal(h), NEW start \in 1..Len(h),
         start = 1 \/ IsPlainUser(h[start])
  PROVE  Legal(SubSeq(h, start, Len(h)))
<1> DEFINE w == SubSeq(h, start, Len(h))
           n == Len(h) - start + 1
<1>1. /\ Len(h) \in Nat /\ start \in Nat /\ n \in Nat /\ n >= 1 /\ Len(w) = n /\ DOMAIN w = 1..n
      /\ DOMAIN h = 1..Len(h)
      /\ \A i \in 1..n : start + i - 1 \in DOMAIN h /\ w[i] = h[start + i - 1]
  BY TailIs
<1>2. h # <<>>
  BY <1>1
<1>3. IsPlainUser(h[start])
  BY <1>2 DEF Legal
<1>4. w[1] = h[start]
  BY <1>1
<1>5. ASSUME NEW i \in DOMAIN w, NEW c \in 1..w[i].calls
      PROVE  i + c <= Len(w) /\ w[i+c] = Result(w[i].run, w[i].turn, c)
  <2> DEFINE p == start + i - 1
  <2>1. p \in DOMAIN h /\ w[i] = h[p]
    BY <1>1
  <2>2. p + c <= Len(h) /\ h[p + c] = Result(h[p].run, h[p].turn, c)
    BY <2>1 DEF Legal
  <2>3. w[i].calls \in Nat
    BY <2>1, NumbersOfMessages
  <2>4. c \in Nat
    BY <2>3
  <2>5. i + c <= n /\ i + c \in 1..n /\ start + (i + c) - 1 = p + c
    BY <1>1, <2>2, <2>4
  <2>6. w[i + c] = h[p + c]
    BY <1>1, <2>5
  <2> HIDE DEF w, n, p
  <2> QED BY <1>1, <2>1, <2>2, <2>5, <2>6
<1>6. ASSUME NEW j \in DOMAIN w, w[j].call > 0
      PROVE  /\ w[j].call < j
             /\ w[j - w[j].call] = Reply(w[j].run, w[j].turn, w[j - w[j].call].calls)
             /\ w[j].call <= w[j - w[j].call].calls
  <2>0. j \in Nat /\ j >= 1 /\ j <= n
    BY <1>1
  <2>1. PICK p \in DOMAIN h : p = start + j - 1 /\ w[j] = h[p]
    BY <1>1
  <2>2. PICK c \in Nat : c = h[p].call /\ c > 0
    BY <1>6, <2>1, NumbersOfMessages
  <2>3. /\ c < p /\ h[p - c] = Reply(h[p].run, h[p].turn, h[p - c].calls)
        /\ c <= h[p - c].calls
    BY <2>1, <2>2 DEF Legal
  <2>4. c < j
    <3> SUFFICES ASSUME ~ (c < j) PROVE FALSE
      OBVIOUS
    <3>1. PICK d \in Nat, q \in DOMAIN h : q = p - c /\ q + d = start /\ d <= c
      <4>1. p \in Nat /\ p <= Len(h)
        BY <1>1
      <4>2. p - c \in 1..Len(h) /\ start - (p - c) \in Nat /\ start - (p - c) <= c
        <5> HIDE DEF n
        <5> QED BY <1>1, <2>0, <2>1, <2>3, <4>1
      <4>3. (p - c) + (start - (p - c)) = start
        BY <4>1, <1>1
      <4> QED BY <1>1, <4>2, <4>3
    <3>2. PICK k \in Nat : k = h[q].calls
      BY NumbersOfMessages
    <3>3. k >= c
      BY <2>3, <3>1, <3>2
    <3>4. CASE d = 0
      <4>1. q = start
        BY <1>1, <3>1, <3>4
      <4>2. h[start].role = "assistant"
        BY <2>3, <3>1, <4>1 DEF Reply
      <4> QED BY <1>3, <4>2 DEF IsPlainUser
    <3>5. CASE d # 0
      <4>1. d \in 1..k
        BY <3>1, <3>3, <3>5
      <4>2. h[start] = Result(h[q].run, h[q].turn, d)
        BY <3>1, <3>2, <4>1 DEF Legal
      <4>3. h[start].call = d
        BY <4>2 DEF Result, UserMsg
      <4> QED BY <1>3, <3>5, <4>3 DEF IsPlainUser
    <3> QED BY <3>4, <3>5
  <2>5. j - c \in 1..n /\ start + (j - c) - 1 = p - c
    <3>1. PICK m \in Nat : m = n
      BY <1>1
    <3>2. j - c \in 1..m
      BY <2>0, <2>2, <2>4, <3>1
    <3> QED BY <1>1, <2>0, <2>1, <2>2, <3>1, <3>2
  <2>6. w[j - c] = h[p - c]
    BY <1>1, <2>5
  <2> HIDE DEF w, n
  <2> QED BY <2>1, <2>2, <2>3, <2>4, <2>6
<1> HIDE DEF w
<1>7. IsPlainUser(w[1])
  BY <1>3, <1>4
<1> QED BY <1>5, <1>6, <1>7 DEF Legal, w

\* Truncating a legal history at any limit gives a legal request of at least
\* that many messages, for histories of any length ( GetWorkingMemory ).
THEOREM LegalWindows == Spec => []WindowsStayLegal
<1>1. TypeOK => WindowsStayLegal
  <2> SUFFICES ASSUME TypeOK, NEW s \in Sessions, Legal(history[s]), history[s] # <<>>,
                      NEW limit \in 0..Len(history[s])
               PROVE  /\ Legal(GetWorkingMemory(history[s], limit))
                      /\ Len(GetWorkingMemory(history[s], limit)) >= limit
    BY DEF WindowsStayLegal
  <2>1. PICK h \in Seq(Message) : h = history[s]
    BY DEF TypeOK
  <2>2. PICK start \in 1..Len(h) :
           /\ GetWorkingMemory(h, limit) = SubSeq(h, start, Len(h))
           /\ start = 1 \/ IsPlainUser(h[start])
           /\ start + limit <= Len(h) + 1
    BY <2>1, WindowIsTail
  <2>3. Legal(SubSeq(h, start, Len(h)))
    BY <2>1, <2>2, TailIsLegal
  <2>4. Len(SubSeq(h, start, Len(h))) = Len(h) - start + 1 /\ Len(h) \in Nat
    BY TailIs
  <2>5. Len(SubSeq(h, start, Len(h))) >= limit
    BY <2>1, <2>2, <2>4
  <2> QED BY <2>1, <2>2, <2>3, <2>5
<1> QED BY <1>1, Typing, PTL

-----------------------------------------------------------------------------
(* How a reply can lack its results in a request. *)

\* The message behind a reply is its first result or another one's prompt.
NextKnown(h, i) ==
  /\ i < Len(h)
  /\ \/ h[i + 1] = Result(h[i].run, h[i].turn, 1)
     \/ h[i + 1].turn = 0 /\ h[i + 1].run # h[i].run

\* The calls of a reply are being executed.
Pending(h, i) == pc[h[i].run] = "exec" /\ i = Len(h) /\ h[i].turn = turn[h[i].run]
PendingNext(h, i) == pc'[h[i].run] = "exec" /\ i = Len(h) /\ h[i].turn = turn'[h[i].run]

HomeInv ==
  /\ \A s \in Sessions : LET h == history[s] IN
       /\ \A i \in DOMAIN h : SessionOf[h[i].run] = s
       /\ h # <<>> => IsPlainUser(h[1])
  /\ \A t \in Tasks : pc[t] # "idle" => history[SessionOf[t]] # <<>>

KnownInv == \A s \in Sessions : LET h == history[s] IN
  \A i \in DOMAIN h : h[i].calls > 0 =>
    NextKnown(h, i) \/ outcome[h[i].run] = "error" \/ Pending(h, i)

\* What is in flight was built when none of its replies was pending.
SentKnown(t) == LET h == history[SessionOf[t]] IN
  /\ sent[t] \in 1..Len(h)
  /\ \A i \in 1..sent[t] : h[i].calls > 0 =>
       \/ i < sent[t] /\ NextKnown(h, i)
       \/ h[i].run # t /\ outcome[h[i].run] = "error"

RequestInv ==
  HomeInv /\ KnownInv /\ \A t \in Tasks : pc[t] \in InFlight => SentKnown(t)

\* A run that has failed stays failed, and who does not step stays as it is.
OnlySteps(t) ==
  /\ \A u \in Tasks : u # t => /\ pc'[u] = pc[u] /\ turn'[u] = turn[u] /\ sent'[u] = sent[u]
                               /\ outcome'[u] = outcome[u]
  /\ outcome[t] = "error" => outcome'[t] = "error"

LEMMA RunsOfMessages ==
  ASSUME NEW h \in Seq(Message), NEW i \in DOMAIN h
  PROVE  h[i].run \in Tasks
<1>1. h[i] \in Message
  BY ElementOfSeq, LenProperties
<1>. QED
  BY <1>1 DEF Message

\* What follows a reply is not changed by what is written later.
LEMMA NextStays ==
  ASSUME NEW h \in Seq(Message), NEW b \in Seq(Message), NEW i \in DOMAIN h, NextKnown(h, i)
  PROVE  NextKnown(h \o b, i)
<1> DEFINE g == h \o b
<1>1. /\ Len(h) \in Nat /\ Len(b) \in Nat /\ Len(g) = Len(h) + Len(b) /\ DOMAIN h = 1..Len(h)
      /\ \A j \in 1..Len(h) : g[j] = h[j]
  BY Extended
<1>2. i \in 1..Len(h) /\ i + 1 \in 1..Len(h) /\ i < Len(h)
  BY <1>1 DEF NextKnown
<1>3. g[i] = h[i] /\ g[i + 1] = h[i + 1] /\ i < Len(g)
  BY <1>1, <1>2
<1> HIDE DEF g
<1>4. NextKnown(g, i)
  BY <1>3 DEF NextKnown
<1>. QED
  BY <1>4 DEF g

LEMMA HomeWritten ==
  ASSUME TypeOK, HomeInv, NEW t \in Tasks, NEW b \in Seq(Message), Write(t, b),
         \A i \in DOMAIN b : b[i].run = t,
         pc[t] = "idle" => b # <<>> /\ IsPlainUser(b[1]),
         \A u \in Tasks : u # t => pc'[u] = pc[u]
  PROVE  HomeInv'
<1> DEFINE s == SessionOf[t]
           g == history[s] \o b
<1>1. s \in Sessions /\ history[s] \in Seq(Message)
  BY SessionsOfTasks DEF TypeOK
<1>2. \A x \in Sessions : history'[x] = IF x = s THEN g ELSE history[x]
  BY <1>1 DEF Write, TypeOK
<1>3. \A i \in DOMAIN g : SessionOf[g[i].run] = s
  <2>1. \A i \in 1..Len(history[s]) : g[i] = history[s][i] /\ i \in DOMAIN history[s]
    BY <1>1, Extended
  <2>2. \A i \in DOMAIN g : i > Len(history[s]) => g[i].run = t
    BY <1>1, Extended
  <2>3. \A i \in DOMAIN g : i \in 1..Len(history[s]) \/ i > Len(history[s])
    BY <1>1, Extended
  <2> HIDE DEF g
  <2>. QED
    BY <1>1, <2>1, <2>2, <2>3 DEF HomeInv
<1>4. g # <<>> /\ IsPlainUser(g[1])
  <2>1. CASE history[s] = <<>>
    <3>1. b # <<>> /\ IsPlainUser(b[1]) /\ g = b
      BY <1>1, <2>1, ConcatEmptySeq DEF HomeInv
    <3>. QED
      BY <3>1
  <2>2. CASE history[s] # <<>>
    <3>1. Len(history[s]) \in Nat /\ Len(history[s]) >= 1 /\ IsPlainUser(history[s][1])
      BY <1>1, <2>2, LenProperties, EmptySeq DEF HomeInv
    <3>2. g[1] = history[s][1] /\ Len(g) # 0
      BY <1>1, <3>1, Extended
    <3>. QED
      BY <3>1, <3>2
  <2>. QED
    BY <2>1, <2>2
<1> HIDE DEF g, s
<1>5. ASSUME NEW x \in Sessions
      PROVE  /\ \A i \in DOMAIN history'[x] : SessionOf[history'[x][i].run] = x
             /\ history'[x] # <<>> => IsPlainUser(history'[x][1])
  BY <1>2, <1>3, <1>4 DEF HomeInv
<1>6. ASSUME NEW u \in Tasks, pc'[u] # "idle" PROVE history'[SessionOf[u]] # <<>>
  <2>1. SessionOf[u] \in Sessions
    BY SessionsOfTasks
  <2>2. CASE SessionOf[u] = s
    BY <1>2, <1>4, <2>1, <2>2
  <2>3. CASE SessionOf[u] # s
    BY <1>2, <1>6, <2>1, <2>3 DEF HomeInv, s
  <2>. QED
    BY <2>2, <2>3
<1>. QED
  BY <1>5, <1>6 DEF HomeInv

\* A block is written: what was pending is followed now, and what it asks is
\* pending.
LEMMA KnownWritten ==
  ASSUME TypeOK, OneRunPerSession, HomeInv, KnownInv, NEW t \in Tasks, OnlySteps(t),
         NEW b \in Seq(Message), b # <<>>, Write(t, b),
         \/ pc[t] = "idle" /\ b[1].turn = 0 /\ b[1].run = t
         \/ Active(t) /\ pc[t] # "exec"
         \/ pc[t] = "exec" /\ b[1] = Result(t, turn[t], 1),
         \A i \in DOMAIN b : b[i].calls > 0 =>
           /\ i = Len(b) /\ b[i].run = t /\ b[i].turn = turn'[t]
           /\ pc'[t] = "exec"
  PROVE  KnownInv'
<1> DEFINE s == SessionOf[t]
           g == history[s] \o b
<1>1. s \in Sessions /\ history[s] \in Seq(Message)
  BY SessionsOfTasks DEF TypeOK
<1>2. \A x \in Sessions : history'[x] = IF x = s THEN g ELSE history[x]
  BY <1>1 DEF Write, TypeOK
<1>3. ASSUME NEW v \in Tasks, outcome[v] = "error" PROVE outcome'[v] = "error"
  BY <1>3 DEF OnlySteps
<1>4. SUFFICES ASSUME NEW x \in Sessions, NEW i \in DOMAIN history'[x], history'[x][i].calls > 0
               PROVE  \/ NextKnown(history'[x], i) \/ outcome'[history'[x][i].run] = "error"
                      \/ PendingNext(history'[x], i)
  BY DEF KnownInv, NextKnown, Pending, PendingNext
<1>5. CASE x # s
  <2>1. PICK h \in Seq(Message) : h = history[x] /\ history'[x] = h
    BY <1>2, <1>5 DEF TypeOK
  <2>2. i \in DOMAIN h /\ h[i].calls > 0
    BY <1>4, <2>1
  <2>3. h[i].run \in Tasks
    BY <2>2, RunsOfMessages
  <2>4. h[i].run # t
    BY <1>5, <2>1, <2>2 DEF HomeInv
  <2>5. NextKnown(h, i) \/ outcome[h[i].run] = "error" \/ Pending(h, i)
    BY <2>1, <2>2 DEF KnownInv
  <2>6. Pending(h, i) => PendingNext(history'[x], i)
    BY <2>1, <2>3, <2>4 DEF Pending, PendingNext, OnlySteps
  <2>. QED
    BY <1>3, <2>1, <2>3, <2>5, <2>6
<1>6. CASE x = s
  <2>1. PICK h \in Seq(Message) : h = history[s]
    BY <1>1
  <2>2. history'[x] = h \o b /\ g = h \o b
    BY <1>2, <1>6, <2>1
  <2>3. /\ Len(h) \in Nat /\ Len(b) \in Nat /\ Len(g) = Len(h) + Len(b)
        /\ DOMAIN h = 1..Len(h) /\ DOMAIN b = 1..Len(b) /\ DOMAIN g = 1..(Len(h) + Len(b))
        /\ \A j \in 1..Len(h) : g[j] = h[j]
        /\ \A j \in 1..Len(b) : g[Len(h) + j] = b[j]
        /\ \A j \in 1..(Len(h) + Len(b)) : j > Len(h) =>
             j - Len(h) \in 1..Len(b) /\ g[j] = b[j - Len(h)]
    BY <2>2, Extended
  <2>4. Len(b) >= 1
    BY <2>3, EmptySeq
  <2>5. i \in 1..(Len(h) + Len(b)) /\ g[i].calls > 0
    BY <1>4, <2>2, <2>3
  <2> HIDE DEF g
  <2>6. CASE i > Len(h)
    <3>1. i - Len(h) \in DOMAIN b /\ g[i] = b[i - Len(h)]
      BY <2>3, <2>5, <2>6
    <3>2. i - Len(h) = Len(b) /\ g[i].run = t /\ g[i].turn = turn'[t] /\ pc'[t] = "exec"
      BY <2>5, <3>1
    <3>3. i = Len(g)
      BY <2>3, <2>5, <3>2
    <3>. QED
      BY <2>2, <3>2, <3>3 DEF PendingNext
  <2>7. CASE ~ (i > Len(h))
    <3>1. i \in DOMAIN h /\ g[i] = h[i]
      BY <2>3, <2>5, <2>7
    <3>2. h[i].run \in Tasks
      BY <3>1, RunsOfMessages
    <3>3. NextKnown(h, i) \/ outcome[h[i].run] = "error" \/ Pending(h, i)
      BY <1>1, <2>1, <2>5, <3>1 DEF KnownInv
    <3>4. ASSUME Pending(h, i) PROVE NextKnown(g, i)
      <4>1. i = Len(h) /\ pc[h[i].run] = "exec" /\ h[i].turn = turn[h[i].run]
        BY <3>4 DEF Pending
      <4>2. i < Len(g) /\ g[i + 1] = b[1]
        BY <2>3, <2>4, <4>1
      <4>3. SessionOf[h[i].run] = s
        BY <1>1, <2>1, <3>1 DEF HomeInv
      <4>4. CASE h[i].run = t
        BY <3>1, <4>1, <4>2, <4>4 DEF NextKnown, Active, Holding
      <4>5. CASE h[i].run # t
        <5>1. ~ Active(t)
          BY <3>2, <4>1, <4>3, <4>5 DEF OneRunPerSession, Active, Holding
        <5>2. b[1].turn = 0 /\ b[1].run = t
          BY <5>1 DEF Active, Holding
        <5>. QED
          BY <3>1, <4>2, <4>5, <5>2 DEF NextKnown
      <4>. QED
        BY <4>4, <4>5
    <3>5. NextKnown(h, i) => NextKnown(g, i)
      BY <2>2, <3>1, NextStays
    <3>. QED
      BY <1>3, <2>2, <3>1, <3>2, <3>3, <3>4, <3>5
  <2>. QED
    BY <2>6, <2>7
<1>. QED
  BY <1>5, <1>6

\* Nothing is written: a reply stays pending until its run fails.
LEMMA NothingWrittenKnown ==
  ASSUME TypeOK, HomeInv, KnownInv, NEW t \in Tasks, OnlySteps(t), UNCHANGED <<history, turn>>,
         pc[t] = "exec" => pc'[t] = "exec" \/ outcome'[t] = "error",
         pc[t] # "idle"
  PROVE  HomeInv' /\ KnownInv'
<1>1. HomeInv'
  BY DEF HomeInv, OnlySteps
<1>2. ASSUME NEW x \in Sessions, NEW i \in DOMAIN history[x], history[x][i].calls > 0
      PROVE  \/ NextKnown(history[x], i) \/ outcome'[history[x][i].run] = "error"
             \/ PendingNext(history'[x], i)
  <2>1. history[x][i].run \in Tasks
    BY RunsOfMessages DEF TypeOK
  <2>2. NextKnown(history[x], i) \/ outcome[history[x][i].run] = "error" \/ Pending(history[x], i)
    BY <1>2 DEF KnownInv
  <2>. QED
    BY <2>1, <2>2 DEF OnlySteps, Pending, PendingNext
<1>3. KnownInv'
  BY <1>2 DEF KnownInv, NextKnown, Pending, PendingNext
<1>. QED
  BY <1>1, <1>3

\* What stays in flight is still a part of the history.
LEMMA SentStays ==
  ASSUME TypeOK, TypeOK', NEW u \in Tasks, SentKnown(u), sent'[u] = sent[u], NEW b \in Seq(Message),
         history'[SessionOf[u]] = history[SessionOf[u]] \o b,
         \A v \in Tasks : outcome[v] = "error" => outcome'[v] = "error"
  PROVE  SentKnown(u)'
<1>1. PICK h \in Seq(Message) : h = history[SessionOf[u]]
  BY SessionsOfTasks DEF TypeOK
<1> DEFINE g == h \o b
<1>2. /\ Len(h) \in Nat /\ Len(b) \in Nat /\ Len(g) = Len(h) + Len(b) /\ DOMAIN h = 1..Len(h)
      /\ \A j \in 1..Len(h) : g[j] = h[j]
  BY Extended
<1>3. history'[SessionOf[u]] = g
  BY <1>1
<1>4. sent[u] \in 1..Len(h) /\ \A i \in 1..sent[u] : i \in DOMAIN h /\ g[i] = h[i]
  BY <1>1, <1>2 DEF SentKnown
<1>5. ASSUME NEW i \in 1..sent[u], g[i].calls > 0
      PROVE  \/ i < sent[u] /\ NextKnown(g, i)
             \/ g[i].run # u /\ outcome'[g[i].run] = "error"
  <2>1. \/ i < sent[u] /\ NextKnown(h, i)
        \/ h[i].run # u /\ outcome[h[i].run] = "error"
    BY <1>1, <1>4, <1>5 DEF SentKnown
  <2>2. i \in DOMAIN h /\ g[i] = h[i] /\ h[i].run \in Tasks
    BY <1>4, RunsOfMessages
  <2>. QED
    BY <2>1, <2>2, NextStays
<1> HIDE DEF g
<1>6. sent[u] \in 1..Len(g)
  BY <1>2, <1>4
<1>. QED
  BY <1>3, <1>5, <1>6 DEF SentKnown, NextKnown

\* A request that goes out has no pending reply: only its own run could execute
\* in the session, and it sends.
LEMMA SentNow ==
  ASSUME TypeOK', OneRunPerSession', Decided', HomeInv', KnownInv', NEW t \in Tasks,
         pc'[t] \in InFlight, sent'[t] = Len(history'[SessionOf[t]])
  PROVE  SentKnown(t)'
<1>1. PICK h \in Seq(Message) : h = history'[SessionOf[t]]
  BY SessionsOfTasks DEF TypeOK
<1>2. h # <<>> /\ SessionOf[t] \in Sessions
  BY <1>1, SessionsOfTasks DEF HomeInv, InFlight
<1>3. Len(h) \in Nat /\ Len(h) >= 1 /\ DOMAIN h = 1..Len(h)
  BY <1>2, LenProperties, EmptySeq
<1>4. ASSUME NEW i \in 1..Len(h), h[i].calls > 0
      PROVE  \/ i < Len(h) /\ NextKnown(h, i)
             \/ h[i].run # t /\ outcome'[h[i].run] = "error"
  <2>1. h[i].run \in Tasks /\ SessionOf[h[i].run] = SessionOf[t]
    BY <1>1, <1>2, <1>3, RunsOfMessages DEF HomeInv
  <2>2. \/ NextKnown(h, i) \/ outcome'[h[i].run] = "error" \/ pc'[h[i].run] = "exec"
    BY <1>1, <1>2, <1>3, <1>4 DEF KnownInv, NextKnown, Pending, PendingNext
  <2>3. pc'[h[i].run] # "exec"
    <3>1. pc'[t] # "exec" /\ Active(t)'
      BY DEF InFlight, Active, Holding
    <3>. QED
      BY <2>1, <3>1 DEF OneRunPerSession, Active, Holding
  <2>4. outcome'[t] = "none"
    BY DEF Decided, InFlight
  <2>. QED
    BY <2>2, <2>3, <2>4 DEF NextKnown
<1>. QED
  BY <1>1, <1>3, <1>4 DEF SentKnown, NextKnown

\* A request stays known, or one goes out.
LEMMA InFlightKept ==
  ASSUME TypeOK, TypeOK', OneRunPerSession', Decided', HomeInv', KnownInv',
         NEW t \in Tasks, OnlySteps(t), NEW b \in Seq(Message),
         history' = history \/ Write(t, b),
         \A u \in Tasks : pc[u] \in InFlight => SentKnown(u),
         \/ pc'[t] \notin InFlight
         \/ pc[t] \in InFlight /\ sent'[t] = sent[t]
         \/ sent'[t] = Len(history'[SessionOf[t]])
  PROVE  \A u \in Tasks : pc'[u] \in InFlight => SentKnown(u)'
<1> SUFFICES ASSUME NEW u \in Tasks, pc'[u] \in InFlight PROVE SentKnown(u)'
  OBVIOUS
<1>1. CASE sent'[u] = Len(history'[SessionOf[u]])
  BY <1>1, SentNow
<1>2. CASE pc[u] \in InFlight /\ sent'[u] = sent[u]
  <2>1. PICK c \in Seq(Message) :
          history'[SessionOf[u]] = history[SessionOf[u]] \o c
    <3>1. history[SessionOf[u]] \in Seq(Message) /\ SessionOf[u] \in Sessions
      BY SessionsOfTasks DEF TypeOK
    <3>2. <<>> \in Seq(Message) /\ history[SessionOf[u]] = history[SessionOf[u]] \o <<>>
      BY <3>1, ConcatEmptySeq
    <3>3. CASE history' = history
      BY <3>2, <3>3
    <3>4. CASE Write(t, b)
      <4>1. history'[SessionOf[u]] = IF SessionOf[u] = SessionOf[t]
                                     THEN history[SessionOf[u]] \o b ELSE history[SessionOf[u]]
        BY <3>1, <3>4 DEF Write, TypeOK
      <4>. QED
        BY <3>2, <4>1
    <3>. QED
      BY <3>3, <3>4
  <2>2. \A v \in Tasks : outcome[v] = "error" => outcome'[v] = "error"
    BY DEF OnlySteps
  <2>. QED
    BY <1>2, <2>1, <2>2, SentStays
<1>3. u # t => pc[u] \in InFlight /\ sent'[u] = sent[u]
  BY DEF OnlySteps
<1>. QED
  BY <1>1, <1>2, <1>3

LEMMA SilentKnown ==
  ASSUME TypeOK, TypeOK', OneRunPerSession', Decided', RequestInv,
         NEW t \in Tasks, OnlySteps(t), UNCHANGED <<history, turn>>, pc[t] # "idle",
         pc[t] = "exec" => pc'[t] = "exec" \/ outcome'[t] = "error",
         \/ pc'[t] \notin InFlight
         \/ pc[t] \in InFlight /\ sent'[t] = sent[t]
         \/ sent'[t] = Len(history'[SessionOf[t]])
  PROVE  RequestInv'
<1>1. HomeInv' /\ KnownInv'
  BY NothingWrittenKnown DEF RequestInv
<1>2. \A u \in Tasks : pc'[u] \in InFlight => SentKnown(u)'
  <2>1. <<>> \in Seq(Message)
    OBVIOUS
  <2>. QED
    BY <1>1, <2>1, InFlightKept DEF RequestInv
<1>. QED
  BY <1>1, <1>2 DEF RequestInv

LEMMA WritingKnown ==
  ASSUME TypeOK, TypeOK', OneRunPerSession, OneRunPerSession', Decided', RequestInv,
         NEW t \in Tasks, OnlySteps(t),
         NEW b \in Seq(Message), b # <<>>, Write(t, b), \A i \in DOMAIN b : b[i].run = t,
         \/ pc[t] = "idle" /\ b[1].turn = 0 /\ IsPlainUser(b[1])
         \/ Active(t) /\ pc[t] # "exec"
         \/ pc[t] = "exec" /\ b[1] = Result(t, turn[t], 1),
         \A i \in DOMAIN b : b[i].calls > 0 =>
           i = Len(b) /\ b[i].turn = turn'[t] /\ pc'[t] = "exec",
         \/ pc'[t] \notin InFlight
         \/ sent'[t] = Len(history'[SessionOf[t]])
  PROVE  RequestInv'
<1>1. 1 \in DOMAIN b
  BY LenProperties, EmptySeq
<1>2. HomeInv'
  <2>1. pc[t] = "idle" => b # <<>> /\ IsPlainUser(b[1])
    BY DEF Active, Holding, InFlight
  <2>2. \A u \in Tasks : u # t => pc'[u] = pc[u]
    BY DEF OnlySteps
  <2>. QED
    BY <2>1, <2>2, HomeWritten DEF RequestInv
<1>3. KnownInv'
  BY <1>1, KnownWritten DEF RequestInv
<1>4. \A u \in Tasks : pc'[u] \in InFlight => SentKnown(u)'
  BY <1>2, <1>3, InFlightKept DEF RequestInv
<1>. QED
  BY <1>2, <1>3, <1>4 DEF RequestInv

\* One message that is no question.
LEMMA WritingOne ==
  ASSUME TypeOK, TypeOK', OneRunPerSession, OneRunPerSession', Decided', RequestInv,
         NEW t \in Tasks, OnlySteps(t), NEW m \in Message, Write(t, <<m>>), m.run = t,
         \/ pc[t] = "idle" /\ m.turn = 0 /\ IsPlainUser(m)
         \/ Active(t) /\ pc[t] # "exec",
         m.calls > 0 => m.turn = turn'[t] /\ pc'[t] = "exec",
         \/ pc'[t] \notin InFlight
         \/ sent'[t] = Len(history'[SessionOf[t]])
  PROVE  RequestInv'
<1> DEFINE b == <<m>>
<1>1. b \in Seq(Message) /\ b # <<>> /\ Len(b) = 1 /\ b[1] = m /\ \A i \in DOMAIN b : i = 1
  OBVIOUS
<1> HIDE DEF b
<1>2. Write(t, b)
  BY DEF b
<1>3. /\ \A i \in DOMAIN b : b[i].run = t
      /\ \A i \in DOMAIN b : b[i].calls > 0 =>
           i = Len(b) /\ b[i].turn = turn'[t] /\ pc'[t] = "exec"
  BY <1>1
<1>. QED
  BY <1>1, <1>2, <1>3, WritingKnown

LEMMA RequestInit == Init => RequestInv
  BY SessionsOfTasks DEF Init, RequestInv, HomeInv, KnownInv, InFlight

LEMMA RequestStep ==
  ASSUME Sane, Decided, AnswersInv, TypeOK', OneRunPerSession', Decided', RequestInv, [Next]_vars
  PROVE  RequestInv'
<1>1. TypeOK /\ OneRunPerSession
  BY DEF Sane
<1> USE DEF Goto, Finish, Return, shared, ledger
<1>2. ASSUME NEW t \in Tasks, Arrive(t) PROVE RequestInv'
  <2>1. OnlySteps(t) /\ pc[t] = "idle" /\ pc'[t] \notin InFlight /\ Write(t, <<Prompt(t)>>)
    BY <1>1, <1>2 DEF Arrive, OnlySteps, TypeOK, InFlight
  <2>2. /\ Prompt(t) \in Message /\ Prompt(t).turn = 0 /\ Prompt(t).run = t
        /\ IsPlainUser(Prompt(t)) /\ Prompt(t).calls = 0
    BY MessagesAreTyped DEF Prompt, UserMsg, IsPlainUser
  <2>. QED
    BY <1>1, <2>1, <2>2, WritingOne
<1>3. ASSUME NEW t \in Tasks, Refuse(t) \/ Start(t) \/ Prepare(t) \/ AbortTurn(t) \/ EndRun(t)
      PROVE  RequestInv'
  <2>1. /\ pc[t] \in {"arrived", "prepare", "boundary", "ending"} /\ history' = history
        /\ turn' = turn /\ pc'[t] \notin InFlight
    BY <1>1, <1>3 DEF Refuse, Start, Prepare, AbortTurn, EndRun, TypeOK, InFlight
  <2>2. OnlySteps(t)
    BY <1>1, <1>3 DEF Refuse, Start, Prepare, AbortTurn, EndRun, TypeOK, OnlySteps, Decided
  <2>. QED
    BY <1>1, <2>1, <2>2, SilentKnown
<1>4. ASSUME NEW t \in Tasks, BeginTurn(t) \/ AskFinal(t) \/ ThinkAnswer(t)
      PROVE  RequestInv'
  <2>1. /\ pc[t] \in {"boundary", "told", "think"} /\ history' = history /\ turn' = turn
        /\ sent'[t] = Len(history'[SessionOf[t]])
    BY <1>1, <1>4 DEF BeginTurn, AskFinal, ThinkAnswer, Send, TypeOK
  <2>2. OnlySteps(t)
    BY <1>1, <1>4 DEF BeginTurn, AskFinal, ThinkAnswer, Send, TypeOK, OnlySteps
  <2>. QED
    BY <1>1, <2>1, <2>2, SilentKnown
<1>5. ASSUME NEW t \in Tasks, CallFails(t) \/ DropAnswer(t) \/ AbortBatch(t) PROVE RequestInv'
  <2>1. /\ pc[t] \in InFlight \cup {"exec"} /\ history' = history /\ turn' = turn
        /\ pc'[t] = "ending" /\ outcome'[t] = "error"
    BY <1>1, <1>5 DEF CallFails, DropAnswer, AbortBatch, TypeOK, InFlight
  <2>2. OnlySteps(t)
    BY <1>1, <1>5 DEF CallFails, DropAnswer, AbortBatch, TypeOK, OnlySteps
  <2>. QED
    BY <1>1, <2>1, <2>2, SilentKnown DEF InFlight
<1>6. ASSUME NEW t \in Tasks, ForceFinal(t) PROVE RequestInv'
  <2>1. /\ pc[t] = "boundary" /\ Write(t, <<Notice(t, turn[t])>>) /\ turn[t] \in Nat
        /\ pc'[t] \notin InFlight
    BY <1>1, <1>6 DEF ForceFinal, TypeOK, InFlight
  <2>2. OnlySteps(t)
    BY <1>1, <1>6 DEF ForceFinal, TypeOK, OnlySteps
  <2>3. /\ Notice(t, turn[t]) \in Message /\ Notice(t, turn[t]).run = t
        /\ Notice(t, turn[t]).calls = 0
    BY <2>1, MessagesAreTyped DEF Notice, UserMsg
  <2>. QED
    BY <1>1, <2>1, <2>2, <2>3, WritingOne DEF Active, Holding
<1>7. ASSUME NEW t \in Tasks, ActAnswer(t) \/ FinalAnswer(t) PROVE RequestInv'
  <2>1. PICK n \in Nat : /\ Write(t, <<Reply(t, turn[t], n)>>)
                         /\ IF n = 0 THEN pc'[t] = "ending" ELSE pc'[t] = "exec"
    <3>1. pc \in [Tasks -> {"idle", "arrived", "done"} \cup Holding] /\ MaxCalls \in Nat
      BY <1>1, RunAssumption DEF TypeOK, RunAssumption
    <3>2. CASE ActAnswer(t)
      <4>1. PICK n \in 0..MaxCalls : /\ Write(t, <<Reply(t, turn[t], n)>>)
                                    /\ IF n = 0 THEN Finish(t, "ok") ELSE Goto(t, "exec")
        BY <3>2 DEF ActAnswer
      <4>. QED
        BY <3>1, <4>1
    <3>3. CASE FinalAnswer(t)
      BY <3>1, <3>3 DEF FinalAnswer
    <3>. QED
      BY <1>7, <3>2, <3>3
  <2>2. OnlySteps(t)
    BY <1>1, <1>7 DEF ActAnswer, FinalAnswer, TypeOK, OnlySteps, Decided
  <2>3. pc[t] \in {"act", "final"} /\ turn' = turn /\ turn[t] \in Nat
    BY <1>1, <1>7 DEF ActAnswer, FinalAnswer, TypeOK
  <2>4. /\ Reply(t, turn[t], n) \in Message /\ Reply(t, turn[t], n).run = t
        /\ Reply(t, turn[t], n).calls = n /\ Reply(t, turn[t], n).turn = turn[t]
    BY <2>3, MessagesAreTyped DEF Reply
  <2>5. pc'[t] \notin InFlight /\ (n > 0 => pc'[t] = "exec")
    BY <2>1 DEF InFlight
  <2>. QED
    BY <1>1, <2>1, <2>2, <2>3, <2>4, <2>5, WritingOne DEF Active, Holding, InFlight
<1>8. ASSUME NEW t \in Tasks, FinishBatch(t) PROVE RequestInv'
  <2>1. PICK n \in Nat : n = Len(calls[t]) /\ n > 0
    <3>1. Asking(t, history[SessionOf[t]], turn[t], Len(calls[t]))
      BY <1>8 DEF FinishBatch, AnswersInv
    <3>. QED
      BY <1>1, <3>1, LenProperties DEF Asking, TypeOK
  <2>2. PICK b \in {Results(t), Append(Results(t), Notice(t, turn[t]))} : Write(t, b)
    BY <1>8 DEF FinishBatch, Observations
  <2>3. pc[t] = "exec" /\ pc'[t] \notin InFlight /\ turn[t] \in Nat /\ OnlySteps(t)
    BY <1>1, <1>8 DEF FinishBatch, TypeOK, OnlySteps, InFlight
  <2>4. /\ Results(t) \in Seq(Message) /\ Len(Results(t)) = n
        /\ \A c \in 1..n : /\ Results(t)[c] = Result(t, turn[t], c)
                           /\ Results(t)[c].run = t /\ Results(t)[c].calls = 0
        /\ Notice(t, turn[t]) \in Message /\ Notice(t, turn[t]).run = t
        /\ Notice(t, turn[t]).calls = 0
    BY <2>1, <2>3, MessagesAreTyped DEF Results, Result, Notice, UserMsg
  <2>5. /\ b \in Seq(Message) /\ b # <<>> /\ b[1] = Result(t, turn[t], 1)
        /\ \A i \in DOMAIN b : b[i].run = t /\ b[i].calls = 0
    <3>1. CASE b = Results(t)
      BY <2>1, <2>4, <3>1, LenProperties
    <3>2. CASE b = Append(Results(t), Notice(t, turn[t]))
      <4> DEFINE r == Results(t)
                 m == Notice(t, turn[t])
      <4> HIDE DEF r, m
      <4>1. /\ b \in Seq(Message) /\ Len(b) = n + 1 /\ b[n + 1] = m
            /\ \A c \in 1..n : b[c] = r[c]
        BY <2>4, <3>2, AppendProperties DEF r, m
      <4>2. DOMAIN b = 1..(n + 1)
        BY <4>1, LenProperties
      <4>3. b # <<>> /\ b[1] = Result(t, turn[t], 1)
        BY <2>1, <2>4, <4>1 DEF r
      <4>4. ASSUME NEW i \in DOMAIN b PROVE b[i].run = t /\ b[i].calls = 0
        <5>1. i \in 1..n \/ i = n + 1
          BY <4>2
        <5>. QED
          BY <2>4, <4>1, <5>1 DEF r, m
      <4>. QED
        BY <4>1, <4>3, <4>4
    <3>. QED
      BY <2>2, <3>1, <3>2
  <2>. QED
    BY <1>1, <2>2, <2>3, <2>5, WritingKnown
<1>9. ASSUME NEW t \in Tasks, NEW i \in DOMAIN calls[t], CallStart(t, i) \/ CallReturn(t, i)
      PROVE  RequestInv'
  <2>1. UNCHANGED <<pc, turn, sent, outcome, history>> /\ pc[t] = "exec"
    BY <1>9 DEF CallStart, CallReturn, CallStep
  <2>2. OnlySteps(t) /\ pc'[t] \notin InFlight
    BY <2>1 DEF OnlySteps, InFlight
  <2>. QED
    BY <1>1, <2>1, <2>2, SilentKnown
<1>10. CASE UNCHANGED vars \/ \E t \in Tasks : Cancel(t)
  <2>1. UNCHANGED <<pc, turn, sent, outcome, history>>
    BY <1>10 DEF vars, local, Cancel
  <2>. QED
    BY <2>1 DEF RequestInv, HomeInv, KnownInv, SentKnown, Pending
<1>. QED
  BY <1>2, <1>3, <1>4, <1>5, <1>6, <1>7, <1>8, <1>9, <1>10 DEF Next, RunStep, EngineStep, AllDone

LEMMA SentIsRequest ==
  ASSUME TypeOK, Decided, RequestInv
  PROVE  RequestBreaksAreKnown
<1> SUFFICES ASSUME NEW t \in Tasks, pc[t] \in InFlight
             PROVE  LET r == Request(t) IN
                      /\ IsPlainUser(r[1])
                      /\ \A i \in DOMAIN r : r[i].calls > 0 =>
                           \/ i < Len(r) /\ r[i+1] = Result(r[i].run, r[i].turn, 1)
                           \/ i < Len(r) /\ r[i+1].turn = 0 /\ r[i+1].run # r[i].run
                           \/ r[i].run # t /\ outcome[r[i].run] = "error"
  BY DEF RequestBreaksAreKnown
<1>1. PICK h \in Seq(Message) : h = history[SessionOf[t]]
  BY SessionsOfTasks DEF TypeOK
<1>2. SentKnown(t) /\ sent[t] \in 1..Len(h)
  BY <1>1 DEF RequestInv, SentKnown
<1>3. PICK n \in 1..Len(h) : n = sent[t]
  BY <1>2
<1> DEFINE p == SubSeq(h, 1, n)
<1>4. /\ p \in Seq(Message) /\ Len(p) = n /\ DOMAIN p = 1..n /\ p # <<>>
      /\ \A i \in 1..n : p[i] = h[i]
  BY SubSeqProperties
<1> HIDE DEF p
<1>5. Request(t) = p
  <2>1. GetWorkingMemory(p, 0) = SubSeq(p, 1, Len(p))
    <3>1. PICK start \in 1..Len(p) :
             /\ GetWorkingMemory(p, 0) = SubSeq(p, start, Len(p))
             /\ 0 = 0 => start = 1
      <4>1. 0 \in 0..Len(p)
        BY <1>4
      <4>. QED
        BY <1>4, <4>1, WindowIsTail
    <3>. QED
      BY <3>1
  <2>2. SubSeq(p, 1, Len(p)) = p
    BY <1>4, SubSeqFull
  <2>. QED
    BY <1>1, <1>3, <2>1, <2>2 DEF Request, p
<1>6. IsPlainUser(h[1])
  <2>1. h # <<>>
    BY <1>2
  <2>. QED
    BY <1>1, <2>1, SessionsOfTasks DEF RequestInv, HomeInv
<1>7. ASSUME NEW i \in 1..n, h[i].calls > 0
      PROVE  \/ i < n /\ p[i+1] = Result(p[i].run, p[i].turn, 1)
             \/ i < n /\ p[i+1].turn = 0 /\ p[i+1].run # p[i].run
             \/ p[i].run # t /\ outcome[p[i].run] = "error"
  <2>1. \/ i < n /\ NextKnown(h, i)
        \/ h[i].run # t /\ outcome[h[i].run] = "error"
    BY <1>1, <1>2, <1>3, <1>7 DEF SentKnown
  <2>2. p[i] = h[i] /\ (i < n => p[i + 1] = h[i + 1])
    BY <1>4
  <2>. QED
    BY <2>1, <2>2 DEF NextKnown
<1>. QED
  BY <1>4, <1>5, <1>6, <1>7

\* However many runs and messages meet in a session, a request starts with a
\* plain message of the user, and a reply in it whose next message is not its
\* first result was of a run that failed, or another one's message has come in
\* between ( buildRequestHistory, agentRun ).
THEOREM RequestBreaks == Spec => []RequestBreaksAreKnown
<1>1. Sane /\ OutcomeInv /\ AnswersInv /\ (TypeOK /\ OneRunPerSession /\ OutcomeInv)'
        /\ RequestInv /\ [Next]_vars => RequestInv'
  BY RequestStep DEF OutcomeInv
<1>2. Sane /\ OutcomeInv /\ RequestInv => RequestBreaksAreKnown
  BY SentIsRequest DEF Sane, OutcomeInv
<1>3. Spec => [](Sane /\ OutcomeInv /\ AnswersInv)
  BY Typing, RunExclusion, UnstartedInvariant, OutcomeInvariant, AnswersAlways, PTL DEF Sane
<1>4. Sane => TypeOK /\ OneRunPerSession
  BY DEF Sane
<1>. QED
  BY <1>1, <1>2, <1>3, <1>4, RequestInit, PTL DEF Spec
=============================================================================
