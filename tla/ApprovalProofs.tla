--------------------------- MODULE ApprovalProofs ---------------------------
(***************************************************************************)
(* Proofs about Approval for any calls, tools, chats, commands and lines:  *)
(* the type invariant, that nothing runs unasked whoever the approver is,  *)
(* what the chat approver guarantees, and which prompt a line answers.     *)
(***************************************************************************)
EXTENDS Approval, TLAPS

\* The variables of the approval chain keep their types in every behaviour.
THEOREM ApprovalTyping == Spec => []TypeOK
<1> USE ApprovalAssumption DEF ApprovalAssumption
<1>1. Init => TypeOK
  BY DEF Init, TypeOK, ConsoleOK, NoCall, NoCommand, NoLine, Actions
<1>2. TypeOK /\ [Next]_vars => TypeOK'
  <2> SUFFICES ASSUME TypeOK, [Next]_vars PROVE TypeOK'
    OBVIOUS
  <2> USE DEF TypeOK, Actions, Failures, NoCall, Goto, Answer, Decide,
              asking, manager, routing, users
  <2>0. ASSUME UNCHANGED console PROVE ConsoleOK'
    BY <2>0 DEF ConsoleOK, console
  <2>1. ASSUME NEW c \in Calls, CheckMemory(c) PROVE TypeOK'
    <3>1. ConsoleOK'
      BY <2>0, <2>1 DEF CheckMemory
    <3>2. CASE ToolOf[c] \in remembered
      BY <2>1, <3>1, <3>2, SMTT(30) DEF CheckMemory
    <3>3. CASE ToolOf[c] \notin remembered
      BY <2>1, <3>1, <3>3 DEF CheckMemory
    <3>. QED
      BY <3>2, <3>3
  <2>2. ASSUME NEW c \in Calls, CheckPolicy(c) PROVE TypeOK'
    BY <2>0, <2>2 DEF CheckPolicy
  <2>3. ASSUME NEW c \in Calls, Conclude(c) PROVE TypeOK'
    <3>1. ConsoleOK'
      BY <2>0, <2>3 DEF Conclude
    <3>2. ToolOf[c] \in Tools
      OBVIOUS
    <3>3. remembered' \subseteq Tools
      BY <2>3, <3>2 DEF Conclude
    <3>4. CASE Granted(answer[c])
      BY <2>3, <3>1, <3>3, <3>4 DEF Conclude
    <3>5. CASE ~ Granted(answer[c])
      <4>1. verdict' \in [Calls -> {"none", "approved", "rejected"}]
        BY <2>3, <3>5 DEF Conclude
      <4>2. source' \in [Calls -> {"none", "cache", "policy", "manual", "timeout"}]
        <5>1. (IF expired[c] THEN "timeout" ELSE "manual") \in {"timeout", "manual"}
          OBVIOUS
        <5>. QED
          BY <2>3, <3>5, <5>1 DEF Conclude
      <4>3. pc' \in [Calls -> {"idle", "policy", "ask", "send", "wait", "leave", "read",
                               "conclude", "gate", "done"}]
        BY <2>3, <3>5 DEF Conclude
      <4>. QED
        BY <2>3, <3>1, <3>3, <4>1, <4>2, <4>3 DEF Conclude
    <3>. QED
      BY <3>4, <3>5
  <2>4. ASSUME NEW c \in Calls, Gate(c) PROVE TypeOK'
    BY <2>0, <2>4 DEF Gate
  <2>5. ASSUME NEW c \in Calls, Register(c) PROVE TypeOK'
    BY <2>0, <2>5 DEF Register, NextNumber
  <2>6. ASSUME NEW c \in Calls, Send(c) PROVE TypeOK'
    BY <2>0, <2>6 DEF Send
  <2>7. ASSUME NEW c \in Calls, Wait(c) PROVE TypeOK'
    BY <2>0, <2>7 DEF Wait
  <2>8. ASSUME NEW c \in Calls, Leave(c) PROVE TypeOK'
    BY <2>0, <2>8 DEF Leave, Unregister
  <2>9. ASSUME NEW c \in Calls, LockTerminal(c) PROVE TypeOK'
    <3>1. ConsoleOK'
      BY <2>9 DEF LockTerminal, ShowPrompt, ConsoleOK
    <3>. QED
      BY <2>9, <3>1 DEF LockTerminal, ShowPrompt
  <2>10. ASSUME NEW c \in Calls, Expire(c) PROVE TypeOK'
    BY <2>0, <2>10 DEF Expire
  <2>11. ASSUME NEW c \in Calls, ReadLine(c) PROVE TypeOK'
    <3>1. Head(stdin) \in Line /\ Tail(stdin) \in Seq(Line)
      BY <2>11 DEF ReadLine, ConsoleOK
    <3>2. Head(stdin).action \in Actions
      BY <3>1 DEF Line
    <3>3. ConsoleOK'
      BY <2>11, <3>1 DEF ReadLine, ConsoleOK
    <3>. QED
      BY <2>11, <3>2, <3>3 DEF ReadLine
  <2>17. ASSUME NEW c \in Calls, ReadFails(c) PROVE TypeOK'
    <3>1. ConsoleOK'
      BY <2>17 DEF ReadFails, ConsoleOK
    <3>. QED
      BY <2>17, <3>1 DEF ReadFails
  <2>18. CASE TypeLine
    <3>1. PICK a \in Actions :
            stdin' = Append(stdin, [action |-> a,
                                    prompt |-> IF stdin = <<>> THEN reading ELSE NoCall])
      BY <2>18 DEF TypeLine
    <3>2. [action |-> a, prompt |-> IF stdin = <<>> THEN reading ELSE NoCall] \in Line
      BY DEF Line, ConsoleOK
    <3>3. ConsoleOK'
      BY <2>18, <3>1, <3>2 DEF TypeLine, ConsoleOK
    <3>. QED
      BY <2>18, <3>3 DEF TypeLine
  <2>12. ASSUME NEW m \in Commands, Lookup(m) PROVE TypeOK'
    <3>1. PICK chat \in Chats, action \in Actions, id \in Numbers :
            IF Addressed(chat, id) = {}
            THEN /\ step' = [step EXCEPT ![m] = "ignored"]
                 /\ UNCHANGED <<command, pending, target, late>>
            ELSE \E c \in Addressed(chat, id) :
                   /\ Claim(c)
                   /\ command' = [command EXCEPT ![m] =
                                    [chat |-> chat, action |-> action, id |-> id]]
                   /\ target' = [target EXCEPT ![m] = c]
                   /\ step' = [step EXCEPT ![m] = "deliver"]
                   /\ late' = IF expired[c] THEN late \cup {c} ELSE late
      BY <2>12 DEF Lookup
    <3>2. [chat |-> chat, action |-> action, id |-> id]
            \in [chat : Chats \cup {NoChat}, action : Actions, id : Nat]
      OBVIOUS
    <3>3. [command EXCEPT ![m] = [chat |-> chat, action |-> action, id |-> id]]
            \in [Commands -> [chat : Chats \cup {NoChat}, action : Actions, id : Nat]]
      BY <3>2
    <3>4. CASE Addressed(chat, id) = {}
      BY <2>0, <2>12, <3>1, <3>4 DEF Lookup
    <3>5. CASE Addressed(chat, id) # {}
      <4>1. PICK c \in Addressed(chat, id) :
              /\ Claim(c)
              /\ command' = [command EXCEPT ![m] =
                               [chat |-> chat, action |-> action, id |-> id]]
              /\ target' = [target EXCEPT ![m] = c]
              /\ step' = [step EXCEPT ![m] = "deliver"]
              /\ late' = IF expired[c] THEN late \cup {c} ELSE late
        BY <3>1, <3>5
      <4>2. c \in Calls
        BY DEF Addressed
      <4>. QED
        BY <2>0, <2>12, <3>3, <4>1, <4>2 DEF Lookup, Claim
    <3>. QED
      BY <3>4, <3>5
  <2>13. ASSUME NEW m \in Commands, Deliver(m) PROVE TypeOK'
    BY <2>0, <2>13 DEF Deliver
  <2>14. ASSUME NEW m \in Commands, Notify(m) PROVE TypeOK'
    BY <2>0, <2>14 DEF Notify
  <2>15. CASE Reset
    BY <2>0, <2>15 DEF Reset
  <2>16. CASE UNCHANGED vars
    BY <2>0, <2>16 DEF vars
  <2>. QED
    BY <2>1, <2>2, <2>3, <2>4, <2>5, <2>6, <2>7, <2>8, <2>9, <2>10, <2>11, <2>12,
       <2>13, <2>14, <2>15, <2>16, <2>17, <2>18 DEF Next, CallStep, AllDone
<1>. QED
  BY <1>1, <1>2, PTL DEF Spec

-----------------------------------------------------------------------------
(* The manager: consent is asked for once and remembered by tool.          *)

Always(tool) == \E d \in Calls : ToolOf[d] = tool /\ answer[d] = "always"

Allowed(c) ==
  ToolOf[c] \in ReadOnly \/ answer[c] \in Consents \/ Always(ToolOf[c])

\* A call has no answer before it has been asked, and no verdict before the
\* manager returns.
Fresh ==
  \A c \in Calls :
    /\ pc[c] \in {"idle", "policy", "ask", "send", "wait", "read"} => answer[c] = "none"
    /\ pc[c] \notin {"gate", "done"} => verdict[c] = "none"

ManagerInv ==
  /\ Fresh
  /\ \A c \in Calls : verdict[c] = "approved" => Allowed(c)
  /\ \A tool \in remembered : Always(tool)
  /\ \A c \in ran : pc[c] = "done" /\ verdict[c] = "approved"

\* What the terminal does to a call: it is answered by a line, or by none.
LEMMA TerminalAnswers ==
  ASSUME TypeOK, NEW c \in Calls, ReadLine(c) \/ ReadFails(c)
  PROVE  \E a \in Actions \cup {"unread"} :
           /\ pc[c] = "read" /\ Answer(c, a, "conclude")
           /\ UNCHANGED <<verdict, source, expired, ran, manager, routing, users>>
<1>1. CASE ReadLine(c)
  <2>1. stdin \in Seq(Line) /\ stdin # <<>>
    BY <1>1 DEF TypeOK, ReadLine, ConsoleOK
  <2>2. Head(stdin) \in Line
    BY <2>1
  <2>3. Head(stdin).action \in Actions
    BY <2>2 DEF Line
  <2>. QED
    BY <1>1, <2>3 DEF ReadLine
<1>2. CASE ReadFails(c)
  BY <1>2 DEF ReadFails
<1>. QED
  BY <1>1, <1>2

\* An answer, once given, stays: no step of the chain asks twice.
LEMMA AnswersStay ==
  ASSUME TypeOK, Fresh, [Next]_vars, NEW c \in Calls, answer[c] # "none"
  PROVE  answer'[c] = answer[c]
<1> USE DEF TypeOK, Fresh, Answer, asking
<1>1. ASSUME NEW d \in Calls, \/ Register(d) \/ Send(d) \/ Wait(d)
                            \/ ReadLine(d) \/ ReadFails(d)
      PROVE  answer'[c] = answer[c]
  BY <1>1 DEF Register, Send, Wait, ReadLine, ReadFails
<1>2. ASSUME UNCHANGED answer
      PROVE  answer'[c] = answer[c]
  BY <1>2
<1>. QED
  BY <1>1, <1>2 DEF Next, CallStep, CheckMemory, CheckPolicy, Conclude, Gate, Leave,
     LockTerminal, ShowPrompt, TypeLine, Expire, Lookup, Deliver, Notify, Reset,
     AllDone, vars

\* What a call is allowed by is never taken back.
LEMMA AllowedStays ==
  ASSUME TypeOK, Fresh, [Next]_vars
  PROVE  /\ \A tool : Always(tool) => Always(tool)'
         /\ \A c \in Calls : Allowed(c) => Allowed(c)'
BY AnswersStay DEF Always, Allowed, Consents

\* The manager's invariant holds whoever the approver is and however often
\* the memory is reset.
THEOREM ManagerInvariant == Spec => []ManagerInv
<1>1. Init => ManagerInv
  BY DEF Init, ManagerInv, Fresh
<1>2. TypeOK /\ ManagerInv /\ [Next]_vars => ManagerInv'
  <2> SUFFICES ASSUME TypeOK, ManagerInv, [Next]_vars PROVE ManagerInv'
    OBVIOUS
  <2>0. /\ \A tool : Always(tool) => Always(tool)'
        /\ \A c \in Calls : Allowed(c) => Allowed(c)'
    BY AllowedStays DEF ManagerInv
  <2> USE DEF TypeOK, ManagerInv, Fresh, Goto, Answer, Decide, asking, manager
  \* Most steps decide nothing.
  <2>1. ASSUME UNCHANGED <<verdict, ran, remembered>>, Fresh',
               \A c \in ran : pc'[c] = "done"
        PROVE  ManagerInv'
    BY <2>0, <2>1
  <2>2. ASSUME NEW c \in Calls, CheckMemory(c) PROVE ManagerInv'
    <3>1. Fresh'
      BY <2>2 DEF CheckMemory
    <3>2. ToolOf[c] \in remembered => Always(ToolOf[c])'
      BY <2>0
    <3>3. ToolOf[c] \in remembered => Allowed(c)'
      BY <3>2 DEF Allowed
    <3>4. c \notin ran
      BY <2>2 DEF CheckMemory
    <3>. QED
      BY <2>0, <2>2, <3>1, <3>3, <3>4 DEF CheckMemory
  <2>3. ASSUME NEW c \in Calls, CheckPolicy(c) PROVE ManagerInv'
    <3>1. Fresh'
      BY <2>3 DEF CheckPolicy
    <3>2. ToolOf[c] \in ReadOnly => Allowed(c)'
      BY DEF Allowed
    <3>. QED
      BY <2>0, <2>3, <3>1, <3>2 DEF CheckPolicy
  <2>4. ASSUME NEW c \in Calls, Conclude(c) PROVE ManagerInv'
    <3>1. Fresh'
      BY <2>4 DEF Conclude
    <3>2. answer[c] \in Consents => Allowed(c)'
      BY <2>4 DEF Conclude, Allowed
    <3>3. answer[c] = "always" => Always(ToolOf[c])'
      BY <2>4 DEF Conclude, Always
    <3>. QED
      BY <2>0, <2>4, <3>1, <3>2, <3>3 DEF Conclude, Granted
  <2>5. ASSUME NEW c \in Calls, Gate(c) PROVE ManagerInv'
    <3>1. Fresh'
      BY <2>5 DEF Gate
    <3>. QED
      BY <2>0, <2>5, <3>1 DEF Gate
  <2>6. ASSUME NEW c \in Calls, Register(c) PROVE ManagerInv'
    BY <2>1, <2>6 DEF Register, NextNumber
  <2>7. ASSUME NEW c \in Calls, Send(c) PROVE ManagerInv'
    BY <2>1, <2>7 DEF Send
  <2>8. ASSUME NEW c \in Calls, Wait(c) PROVE ManagerInv'
    BY <2>1, <2>8 DEF Wait
  <2>9. ASSUME NEW c \in Calls, Leave(c) PROVE ManagerInv'
    BY <2>1, <2>9 DEF Leave
  <2>10. ASSUME NEW c \in Calls, LockTerminal(c) PROVE ManagerInv'
    BY <2>1, <2>10 DEF LockTerminal, ShowPrompt
  <2>11. ASSUME NEW c \in Calls, ReadLine(c) \/ ReadFails(c) PROVE ManagerInv'
    BY <2>1, <2>11, TerminalAnswers
  <2>12. ASSUME NEW c \in Calls, Expire(c) PROVE ManagerInv'
    BY <2>1, <2>12 DEF Expire
  <2>13. ASSUME NEW m \in Commands, Lookup(m) \/ Deliver(m) \/ Notify(m)
         PROVE  ManagerInv'
    BY <2>1, <2>13 DEF Lookup, Deliver, Notify
  <2>14. CASE Reset
    BY <2>0, <2>14 DEF Reset
  <2>15. CASE TypeLine \/ UNCHANGED vars
    BY <2>1, <2>15 DEF TypeLine, vars
  <2>. QED
    BY <2>2, <2>3, <2>4, <2>5, <2>6, <2>7, <2>8, <2>9, <2>10, <2>11, <2>12, <2>13,
       <2>14, <2>15 DEF Next, CallStep, AllDone
<1>. QED
  BY <1>1, <1>2, ApprovalTyping, PTL DEF Spec

\* Whoever the approver is, a call runs only if its tool is read-only, its own
\* request was granted or its tool was granted for good.
THEOREM ConsentFirst == Spec => []NothingRunsUnasked
<1>1. TypeOK /\ ManagerInv => NothingRunsUnasked
  BY DEF TypeOK, ManagerInv, NothingRunsUnasked, Allowed, Always
<1>. QED
  BY <1>1, ApprovalTyping, ManagerInvariant, PTL

-----------------------------------------------------------------------------
(* The chat approver: which command has which request.                     *)

Claimed(m) == step[m] \in {"deliver", "notify", "recorded"}

Resolved(m) == step[m] \in {"notify", "recorded"}

\* A registered request waits, has a number and an empty channel, and no
\* command has taken it.
Open ==
  \A c \in pending :
    /\ pc[c] \in {"send", "wait", "leave"}
    /\ reqID[c] # 0
    /\ chan[c] = "none"
    /\ \A m \in Commands : target[m] # c

\* A command takes the request it addresses, and no two take the same.
Taken ==
  /\ \A m \in Commands :
       IF Claimed(m)
       THEN /\ target[m] \in Calls
            /\ reqID[target[m]] # 0
            /\ command[m].chat = ChatOf[target[m]]
            /\ command[m].id = reqID[target[m]]
       ELSE target[m] = NoCall
  /\ \A m, n \in Commands : target[m] = target[n] /\ target[m] # NoCall => m = n

\* A decision in a channel or in an answer is the one of the command that took
\* the request.
Routed ==
  \A c \in Calls :
    /\ chan[c] # "none" =>
         \E m \in Commands :
           Resolved(m) /\ target[m] = c /\ command[m].action = chan[c]
    /\ Approver = "feishu" /\ answer[c] \in Actions =>
         \E m \in Commands :
           Resolved(m) /\ target[m] = c /\ command[m].action = answer[c]

\* A call has a number when it has been asked in a chat, and is then decided by
\* its answer alone.
Numbered ==
  \A c \in Calls :
    /\ pc[c] \in {"idle", "policy", "ask"} => reqID[c] = 0
    /\ reqID[c] # 0 /\ verdict[c] = "approved" => answer[c] \in Consents
    /\ pc[c] = "read" => Approver = "terminal"

ChatInv == Open /\ Taken /\ Routed /\ Numbered

\* The invariant of the chat approver holds, whatever users send and however
\* sending, waiting and expiring interleave.
THEOREM ChatInvariant == Spec => []ChatInv
<1>1. Init => ChatInv
  BY DEF Init, ChatInv, Open, Taken, Claimed, Routed, Numbered, Actions
<1>2. TypeOK /\ ManagerInv /\ ChatInv /\ [Next]_vars => ChatInv'
  <2> SUFFICES ASSUME TypeOK, ManagerInv, ChatInv, [Next]_vars PROVE ChatInv'
    OBVIOUS
  <2> USE ApprovalAssumption DEF ApprovalAssumption, TypeOK, ManagerInv, Fresh,
          ChatInv, Goto, Answer, Decide, asking, manager, routing, users
  <2>1. ASSUME NEW c \in Calls, CheckMemory(c) \/ CheckPolicy(c) PROVE ChatInv'
    <3>1. /\ UNCHANGED <<answer, pending, reqID, chan, users>>
          /\ \A d \in Calls : d # c => pc'[d] = pc[d] /\ verdict'[d] = verdict[d]
          /\ pc[c] \in {"idle", "policy"} /\ pc'[c] \in {"gate", "policy", "ask"}
      BY <2>1 DEF CheckMemory, CheckPolicy
    <3>2. Open' /\ Taken' /\ Routed'
      BY <3>1 DEF Open, Taken, Claimed, Routed, Resolved
    <3>3. Numbered'
      BY <3>1 DEF Numbered
    <3>. QED
      BY <3>2, <3>3
  <2>2. ASSUME NEW c \in Calls, Conclude(c) PROVE ChatInv'
    <3>1. Open' /\ Taken' /\ Routed'
      BY <2>2 DEF Conclude, Open, Taken, Claimed, Routed, Resolved
    <3>2. Numbered'
      BY <2>2 DEF Conclude, Granted, Numbered
    <3>. QED
      BY <3>1, <3>2
  <2>3. ASSUME NEW c \in Calls, Gate(c) \/ Expire(c) PROVE ChatInv'
    <3>1. /\ UNCHANGED <<answer, verdict, pending, reqID, chan, users>>
          /\ \A d \in Calls : pc'[d] = pc[d] \/ (pc[d] = "gate" /\ pc'[d] = "done")
      BY <2>3 DEF Gate, Expire
    <3>2. Open'
      BY <3>1 DEF Open
    <3>3. Taken' /\ Routed'
      BY <3>1 DEF Taken, Claimed, Routed, Resolved
    <3>4. Numbered'
      BY <3>1 DEF Numbered
    <3>. QED
      BY <3>2, <3>3, <3>4
  <2>4. ASSUME NEW c \in Calls, Register(c) PROVE ChatInv'
    <3>1. /\ reqID[c] = 0 /\ answer[c] = "none"
          /\ \A m \in Commands : target[m] # c
          /\ chan[c] = "none"
      BY <2>4 DEF Register, NextNumber, Numbered, Taken, Claimed, Routed, Resolved, NoCall
    <3>2. CASE Answer(c, "nochat", "conclude") /\ UNCHANGED <<seq, reqID, pending>>
      <4>1. Open' /\ Taken'
        BY <2>4, <3>1, <3>2 DEF Register, Open, Taken, Claimed
      <4>2. Routed' /\ Numbered'
        BY <2>4, <3>1, <3>2 DEF Register, Routed, Resolved, Numbered, Actions
      <4>. QED
        BY <4>1, <4>2
    <3>3. CASE /\ NextNumber(c)
               /\ pending' = pending \cup {c}
               /\ Goto(c, "send") /\ UNCHANGED answer
      <4>1. Open'
        BY <2>4, <3>1, <3>3 DEF Register, NextNumber, Open
      <4>2. Taken'
        BY <2>4, <3>1, <3>3 DEF Register, NextNumber, Taken, Claimed
      <4>3. Routed'
        BY <2>4, <3>1, <3>3 DEF Register, NextNumber, Routed, Resolved
      <4>4. Numbered'
        BY <2>4, <3>1, <3>3 DEF Register, NextNumber, Numbered
      <4>. QED
        BY <4>1, <4>2, <4>3, <4>4
    <3>. QED
      BY <2>4, <3>2, <3>3 DEF Register
  <2>5. ASSUME NEW c \in Calls, Send(c) PROVE ChatInv'
    BY <2>5 DEF Send, Open, Taken, Claimed, Routed, Resolved, Numbered, Actions
  <2>6. ASSUME NEW c \in Calls, Wait(c) PROVE ChatInv'
    <3>1. Open' /\ Taken'
      BY <2>6 DEF Wait, Open, Taken, Claimed
    <3>2. Routed'
      BY <2>6 DEF Wait, Routed, Resolved, Actions
    <3>3. Numbered'
      BY <2>6 DEF Wait, Numbered
    <3>. QED
      BY <3>1, <3>2, <3>3
  <2>7. ASSUME NEW c \in Calls, Leave(c) PROVE ChatInv'
    BY <2>7 DEF Leave, Unregister, Open, Taken, Claimed, Routed, Resolved, Numbered
  <2>8. ASSUME NEW c \in Calls, LockTerminal(c) PROVE ChatInv'
    BY <2>8 DEF LockTerminal, ShowPrompt, Open, Taken, Claimed, Routed, Resolved, Numbered
  <2>9. ASSUME NEW c \in Calls, ReadLine(c) \/ ReadFails(c) PROVE ChatInv'
    <3>1. /\ UNCHANGED <<verdict, pending, reqID, chan, users>>
          /\ pc[c] = "read" /\ pc'[c] = "conclude"
          /\ \A d \in Calls : d # c => pc'[d] = pc[d] /\ answer'[d] = answer[d]
      BY <2>9, TerminalAnswers
    <3>2. Open' /\ Taken'
      BY <3>1 DEF Open, Taken, Claimed
    <3>3. Approver = "terminal"
      BY <3>1 DEF Numbered
    <3>4. Routed' /\ Numbered'
      BY <3>1, <3>3 DEF Routed, Resolved, Numbered
    <3>. QED
      BY <3>2, <3>4
  <2>10. ASSUME NEW m \in Commands, Lookup(m) PROVE ChatInv'
    <3>1. PICK chat \in Chats, action \in Actions, id \in Numbers :
            IF Addressed(chat, id) = {}
            THEN /\ step' = [step EXCEPT ![m] = "ignored"]
                 /\ UNCHANGED <<command, pending, target, late>>
            ELSE \E c \in Addressed(chat, id) :
                   /\ Claim(c)
                   /\ command' = [command EXCEPT ![m] =
                                    [chat |-> chat, action |-> action, id |-> id]]
                   /\ target' = [target EXCEPT ![m] = c]
                   /\ step' = [step EXCEPT ![m] = "deliver"]
                   /\ late' = IF expired[c] THEN late \cup {c} ELSE late
      BY <2>10 DEF Lookup
    <3>2. /\ step[m] = "idle" /\ target[m] = NoCall
          /\ UNCHANGED <<asking, manager, reqID, seq, chan, console>>
      BY <2>10 DEF Lookup, Taken, Claimed
    <3>3. CASE Addressed(chat, id) = {}
      <4>1. /\ UNCHANGED <<pending, target>>
            /\ step' = [step EXCEPT ![m] = "ignored"]
            /\ command' = command
        BY <3>1, <3>3
      <4>2. Open' /\ Numbered'
        BY <3>2, <4>1 DEF Open, Numbered
      <4>3. Taken'
        BY <3>2, <4>1 DEF Taken, Claimed
      <4>4. Routed'
        BY <3>2, <4>1 DEF Routed, Resolved
      <4>. QED
        BY <4>2, <4>3, <4>4
    <3>4. CASE Addressed(chat, id) # {}
      <4>1. PICK c \in Addressed(chat, id) :
              /\ Claim(c)
              /\ command' = [command EXCEPT ![m] =
                               [chat |-> chat, action |-> action, id |-> id]]
              /\ target' = [target EXCEPT ![m] = c]
              /\ step' = [step EXCEPT ![m] = "deliver"]
        BY <3>1, <3>4
      <4>2. /\ c \in Calls /\ c \in pending /\ pending' = pending \ {c}
            /\ ChatOf[c] = chat /\ reqID[c] = id
        BY <4>1 DEF Addressed, Claim
      <4>3. Open'
        BY <3>1, <3>2, <4>1, <4>2 DEF Open
      <4>4. Taken'
        BY <3>1, <3>2, <4>1, <4>2 DEF Open, Taken, Claimed
      <4>5. Routed'
        BY <3>1, <3>2, <4>1, <4>2 DEF Routed, Resolved
      <4>6. Numbered'
        BY <3>2 DEF Numbered
      <4>. QED
        BY <4>3, <4>4, <4>5, <4>6
    <3>. QED
      BY <3>3, <3>4
  <2>11. ASSUME NEW m \in Commands, Deliver(m) PROVE ChatInv'
    <3>1. target[m] \in Calls /\ Claimed(m)
      BY <2>11 DEF Deliver, Taken, Claimed
    <3>2. Open'
      BY <2>11, <3>1 DEF Deliver, Open
    <3>3. Taken'
      BY <2>11, <3>1 DEF Deliver, Taken, Claimed
    <3>4. Routed'
      BY <2>11, <3>1 DEF Deliver, Routed, Resolved
    <3>5. Numbered'
      BY <2>11 DEF Deliver, Numbered
    <3>. QED
      BY <3>2, <3>3, <3>4, <3>5
  <2>12. ASSUME NEW m \in Commands, Notify(m) PROVE ChatInv'
    BY <2>12 DEF Notify, Open, Taken, Claimed, Routed, Resolved, Numbered
  <2>13. CASE Reset \/ TypeLine \/ UNCHANGED vars
    <3>1. UNCHANGED <<pc, answer, verdict, pending, reqID, chan, users>>
      BY <2>13 DEF Reset, TypeLine, vars
    <3>2. Open' /\ Taken'
      BY <3>1 DEF Open, Taken, Claimed
    <3>3. Routed' /\ Numbered'
      BY <3>1 DEF Routed, Resolved, Numbered
    <3>. QED
      BY <3>2, <3>3
  <2>. QED
    BY <2>1, <2>2, <2>3, <2>4, <2>5, <2>6, <2>7, <2>8, <2>9, <2>10, <2>11, <2>12,
       <2>13 DEF Next, CallStep, AllDone
<1>. QED
  BY <1>1, <1>2, ApprovalTyping, ManagerInvariant, PTL DEF Spec

\* No request stays in the map when nobody waits for it any more.
THEOREM NoLeak == Spec => []NoLeakedRequest
<1>1. ChatInv => NoLeakedRequest
  BY DEF ChatInv, Open, NoLeakedRequest
<1>. QED
  BY <1>1, ChatInvariant, PTL

\* The event callback never blocks on a waiter's channel.
THEOREM CallbackNeverBlocks == Spec => []DeliveryNeverBlocks
<1>1. TypeOK /\ ChatInv => DeliveryNeverBlocks
  BY ApprovalAssumption DEF ApprovalAssumption, TypeOK, ChatInv, Taken, Claimed,
     Routed, Resolved, NoCall, DeliveryNeverBlocks
<1>. QED
  BY <1>1, ApprovalTyping, ChatInvariant, PTL

\* A rejection that has hit its request is final.
THEOREM RejectionHolds ==
  ASSUME Approver = "feishu"
  PROVE  Spec => []RejectionIsFinal
<1>1. TypeOK /\ ManagerInv /\ ChatInv => RejectionIsFinal
  <2> SUFFICES ASSUME TypeOK, ManagerInv, ChatInv,
                      NEW m \in Commands, target[m] # NoCall,
                      command[m].action = "reject", target[m] \in ran
               PROVE  FALSE
    BY DEF RejectionIsFinal
  <2>1. target[m] \in Calls /\ reqID[target[m]] # 0
    BY DEF TypeOK, ChatInv, Taken
  <2>2. answer[target[m]] \in Consents
    BY <2>1 DEF ManagerInv, ChatInv, Numbered
  <2>3. PICK n \in Commands : /\ target[n] = target[m]
                              /\ command[n].action = answer[target[m]]
    BY <2>1, <2>2 DEF ChatInv, Routed, Consents, Actions
  <2>. QED
    BY <2>2, <2>3 DEF ChatInv, Taken, Consents
<1>. QED
  BY <1>1, ApprovalTyping, ManagerInvariant, ChatInvariant, PTL

\* With the chat approver, a gated tool runs only if a user of the run's own
\* chat let this request pass, or some request for the tool for good.
THEOREM ConsentOfTheChat ==
  ASSUME Approver = "feishu"
  PROVE  Spec => []RunsOnlyWithConsent
<1>1. TypeOK /\ ManagerInv /\ ChatInv => RunsOnlyWithConsent
  <2> SUFFICES ASSUME TypeOK, ManagerInv, ChatInv,
                      NEW c \in ran, ToolOf[c] \notin ReadOnly
               PROVE  \/ \E m \in Commands : Said(m, c) /\ command[m].action \in Consents
                      \/ \E m \in Commands, d \in Calls :
                           /\ Said(m, d) /\ ToolOf[d] = ToolOf[c]
                           /\ command[m].action = "always"
    BY DEF RunsOnlyWithConsent
  <2>1. ASSUME NEW d \in Calls, answer[d] \in Actions
        PROVE  \E m \in Commands : Said(m, d) /\ command[m].action = answer[d]
    BY <2>1, ApprovalAssumption DEF ApprovalAssumption, TypeOK, ChatInv, Routed, Taken,
       Claimed, Resolved, Said, NoCall
  <2>2. c \in Calls /\ Allowed(c)
    BY DEF TypeOK, ManagerInv
  <2>. QED
    BY <2>1, <2>2 DEF Allowed, Always, Consents, Actions
<1>. QED
  BY <1>1, ApprovalTyping, ManagerInvariant, ChatInvariant, PTL

\* A call that has been asked in a chat is judged by its answer; it is left
\* undecided only when its context has ended.
Judged ==
  \A c \in Calls :
    /\ pc[c] \in {"leave", "conclude"} => answer[c] # "none"
    /\ answer[c] = "undecided" => expired[c]
    /\ answer[c] = "nochat" => reqID[c] = 0
    /\ answer[c] = "unread" => Approver = "terminal"
    /\ reqID[c] # 0 /\ pc[c] \in {"gate", "done"} =>
         /\ answer[c] # "none"
         /\ verdict[c] = IF answer[c] \in Consents THEN "approved" ELSE "rejected"
         /\ answer[c] = "undecided" => source[c] = "timeout"

\* Verdicts follow answers in every behaviour.
THEOREM JudgedInvariant == Spec => []Judged
<1>1. Init => Judged
  BY DEF Init, Judged
<1>2. TypeOK /\ ManagerInv /\ ChatInv /\ Judged /\ [Next]_vars => Judged'
  <2> SUFFICES ASSUME TypeOK, ManagerInv, ChatInv, Judged, [Next]_vars PROVE Judged'
    OBVIOUS
  <2> USE DEF TypeOK, ManagerInv, Fresh, ChatInv, Numbered, Judged, Goto, Answer,
              Decide, Consents, Actions, asking, manager, routing
  <2>1. ASSUME NEW c \in Calls, CheckMemory(c) \/ CheckPolicy(c) PROVE Judged'
    BY <2>1 DEF CheckMemory, CheckPolicy
  <2>2. ASSUME NEW c \in Calls, Conclude(c) PROVE Judged'
    BY <2>2 DEF Conclude, Granted
  <2>3. ASSUME NEW c \in Calls, Gate(c) \/ Expire(c) \/ Leave(c) PROVE Judged'
    BY <2>3 DEF Gate, Expire, Leave
  <2>4. ASSUME NEW c \in Calls, Register(c) PROVE Judged'
    BY <2>4 DEF Register, NextNumber
  <2>5. ASSUME NEW c \in Calls, Send(c) PROVE Judged'
    BY <2>5 DEF Send
  <2>6. ASSUME NEW c \in Calls, Wait(c) PROVE Judged'
    BY <2>6 DEF Wait
  <2>7. ASSUME NEW c \in Calls, LockTerminal(c) PROVE Judged'
    BY <2>7 DEF LockTerminal, ShowPrompt
  <2>10. ASSUME NEW c \in Calls, ReadLine(c) \/ ReadFails(c) PROVE Judged'
    BY <2>10, TerminalAnswers
  <2>8. ASSUME NEW m \in Commands, Lookup(m) \/ Deliver(m) \/ Notify(m)
        PROVE  Judged'
    BY <2>8 DEF Lookup, Deliver, Notify
  <2>9. CASE Reset \/ TypeLine \/ UNCHANGED vars
    BY <2>9 DEF Reset, TypeLine, vars
  <2>. QED
    BY <2>1, <2>2, <2>3, <2>4, <2>5, <2>6, <2>7, <2>8, <2>9, <2>10
     DEF Next, CallStep, AllDone
<1>. QED
  BY <1>1, <1>2, ApprovalTyping, ManagerInvariant, ChatInvariant, PTL DEF Spec

\* With the chat approver, a decision acknowledged as recorded is the verdict,
\* unless the request counted as unsent or its context ended first.
THEOREM RecordedPrevails ==
  ASSUME Approver = "feishu"
  PROVE  Spec => []RecordedDecisionPrevails
<1>1. TypeOK /\ ChatInv /\ Judged => RecordedDecisionPrevails
  <2> SUFFICES ASSUME TypeOK, ChatInv, Judged, NEW m \in Commands,
                      step[m] = "recorded", pc[target[m]] = "done"
               PROVE  \/ (verdict[target[m]] = "approved") <=>
                           (command[m].action \in Consents)
                      \/ /\ verdict[target[m]] = "rejected"
                         /\ \/ answer[target[m]] = "unsent"
                            \/ /\ answer[target[m]] = "undecided"
                               /\ source[target[m]] = "timeout"
    BY DEF RecordedDecisionPrevails
  <2> DEFINE c == target[m]
  <2>1. c \in Calls /\ reqID[c] # 0
    BY DEF ChatInv, Taken, Claimed
  <2>2. /\ answer[c] \in Actions \cup {"unsent", "undecided"}
        /\ verdict[c] = IF answer[c] \in Consents THEN "approved" ELSE "rejected"
        /\ answer[c] = "undecided" => source[c] = "timeout"
    BY <2>1 DEF Judged, TypeOK, Failures
  <2>3. CASE answer[c] \in Actions
    <3>1. PICK n \in Commands : target[n] = c /\ command[n].action = answer[c]
      BY <2>1, <2>3 DEF ChatInv, Routed
    <3>2. n = m
      BY <2>1, <3>1, ApprovalAssumption DEF ApprovalAssumption, ChatInv, Taken, NoCall
    <3>. QED
      BY <2>2, <3>1, <3>2
  <2>4. CASE answer[c] \in {"unsent", "undecided"}
    BY <2>2, <2>4 DEF Consents
  <2>. QED
    BY <2>2, <2>3, <2>4
<1>. QED
  BY <1>1, ApprovalTyping, ChatInvariant, JudgedInvariant, PTL

-----------------------------------------------------------------------------
(* The terminal approver: the mutex is held from the prompt to the line.   *)

Holds == \A c \in Calls : pc[c] = "read" <=> reading = c

\* A line that was typed for a prompt is the oldest, and that prompt waits.
Meant ==
  \A i \in DOMAIN stdin :
    stdin[i].prompt # NoCall => i = 1 /\ stdin[i].prompt = reading

TerminalInv == Holds /\ Meant /\ LinesAnswerTheirPrompt

\* However many calls prompt on the terminal and whenever lines are typed, no
\* line is read by another call than the one whose prompt was waiting for it,
\* unless it was typed ahead: prompt and read are under one mutex.
THEOREM LinesReachTheirPrompt == Spec => []LinesAnswerTheirPrompt
<1> USE ApprovalAssumption DEF ApprovalAssumption, NoCall
<1>1. Init => TerminalInv
  BY DEF Init, TerminalInv, Holds, Meant, LinesAnswerTheirPrompt, NoLine
<1>2. TypeOK /\ TerminalInv /\ [Next]_vars => TerminalInv'
  <2> SUFFICES ASSUME TypeOK, TerminalInv, [Next]_vars PROVE TerminalInv'
    OBVIOUS
  <2> USE DEF TypeOK, TerminalInv, Holds, LinesAnswerTheirPrompt, Goto, Answer, Decide,
              asking, routing, users
  <2>1. ASSUME NEW c \in Calls, LockTerminal(c) PROVE TerminalInv'
    <3>1. Holds'
      BY <2>1 DEF LockTerminal, ShowPrompt
    <3>. QED
      BY <2>1, <3>1 DEF LockTerminal, ShowPrompt, Meant
  <2>2. ASSUME NEW c \in Calls, ReadLine(c) PROVE TerminalInv'
    <3>1. Holds'
      BY <2>2 DEF ReadLine
    <3>2. /\ reading = c /\ reading' = NoCall
          /\ stdin \in Seq(Line) /\ stdin # <<>> /\ stdin' = Tail(stdin)
          /\ line \in [Calls -> Line \cup {NoLine}]
          /\ line' = [line EXCEPT ![c] = Head(stdin)]
      BY <2>2 DEF ReadLine, ConsoleOK
    <3>3. \A i \in DOMAIN Tail(stdin) : i + 1 \in DOMAIN stdin /\ i + 1 # 1
                                       /\ Tail(stdin)[i] = stdin[i + 1]
      BY <3>2
    <3>4. Meant'
      BY <3>2, <3>3 DEF Meant
    <3>5. Head(stdin).prompt \in {c, NoCall}
      <4>1. 1 \in DOMAIN stdin /\ Head(stdin) = stdin[1]
        BY <3>2
      <4>. QED
        BY <3>2, <4>1 DEF Meant
    <3>. QED
      BY <3>1, <3>2, <3>4, <3>5
  <2>3. ASSUME NEW c \in Calls, ReadFails(c) PROVE TerminalInv'
    <3>1. Holds'
      BY <2>3 DEF ReadFails
    <3>. QED
      BY <2>3, <3>1 DEF ReadFails, Meant
  <2>4. CASE TypeLine
    <3>1. PICK a \in Actions :
            stdin' = Append(stdin, [action |-> a,
                                    prompt |-> IF stdin = <<>> THEN reading ELSE NoCall])
      BY <2>4 DEF TypeLine
    <3>2. UNCHANGED <<pc, reading, line>>
      BY <2>4 DEF TypeLine
    <3>3. PICK l : l = [action |-> a, prompt |-> IF stdin = <<>> THEN reading ELSE NoCall]
      OBVIOUS
    <3>4. l.prompt # NoCall => stdin = <<>> /\ l.prompt = reading
      BY <3>3
    <3>5. l \in Line
      BY <3>3 DEF Line, ConsoleOK
    <3>6. /\ DOMAIN Append(stdin, l) = 1..(Len(stdin) + 1) /\ Len(stdin) \in Nat
          /\ DOMAIN stdin = 1..Len(stdin)
          /\ \A i \in 1..Len(stdin) : Append(stdin, l)[i] = stdin[i]
          /\ Append(stdin, l)[Len(stdin) + 1] = l
      BY <3>5
    <3>7. stdin = <<>> => Len(stdin) = 0
      OBVIOUS
    <3>8. ASSUME NEW i \in DOMAIN stdin', stdin'[i].prompt # NoCall
          PROVE  i = 1 /\ stdin'[i].prompt = reading'
      <4>1. CASE i \in 1..Len(stdin)
        BY <3>1, <3>2, <3>3, <3>6, <3>8, <4>1 DEF Meant
      <4>2. CASE i = Len(stdin) + 1
        BY <3>1, <3>2, <3>3, <3>4, <3>6, <3>7, <3>8, <4>2
      <4>. QED
        BY <3>1, <3>3, <3>6, <4>1, <4>2
    <3>9. Meant'
      BY <3>8 DEF Meant
    <3>. QED
      BY <3>2, <3>9
  \* The other steps leave the terminal alone.
  <2>5. ASSUME UNCHANGED console, Holds' PROVE TerminalInv'
    BY <2>5 DEF console, Meant
  <2>6. ASSUME NEW c \in Calls, CheckMemory(c) \/ CheckPolicy(c) \/ Conclude(c)
        PROVE  TerminalInv'
    BY <2>5, <2>6 DEF CheckMemory, CheckPolicy, Conclude, console
  <2>7. ASSUME NEW c \in Calls, Gate(c) \/ Expire(c) \/ Leave(c) PROVE TerminalInv'
    BY <2>5, <2>7 DEF Gate, Expire, Leave, console
  <2>8. ASSUME NEW c \in Calls, Register(c) \/ Send(c) \/ Wait(c) PROVE TerminalInv'
    BY <2>5, <2>8 DEF Register, Send, Wait, console
  <2>9. ASSUME NEW m \in Commands, Lookup(m) \/ Deliver(m) \/ Notify(m)
        PROVE  TerminalInv'
    BY <2>5, <2>9 DEF Lookup, Deliver, Notify, console
  <2>10. CASE Reset \/ UNCHANGED vars
    BY <2>5, <2>10 DEF Reset, vars, console
  <2>. QED
    BY <2>1, <2>2, <2>3, <2>4, <2>6, <2>7, <2>8, <2>9, <2>10 DEF Next, CallStep, AllDone
<1>3. TerminalInv => LinesAnswerTheirPrompt
  BY DEF TerminalInv
<1>. QED
  BY <1>1, <1>2, <1>3, ApprovalTyping, PTL DEF Spec
=============================================================================
