------------------------------ MODULE Approval ------------------------------
(***************************************************************************)
(* Human approval of tool calls: Registry.execute asks the middleware of   *)
(* ApprovalManager, which decides from its memory, its policy or a human.  *)
(* The human answers in a chat (FeishuApprover: requests are registered    *)
(* under chat and number, commands are routed by TryResolve) or on the     *)
(* terminal (TerminalApprover), where lines wait in stdin until a prompt   *)
(* reads them.  Calls run concurrently, commands arrive in any order, late, *)
(* twice, too early or for requests that do not exist, requests may fail   *)
(* to be sent and time out.                                                *)
(***************************************************************************)
EXTENDS Integers, Sequences, FiniteSets

CONSTANTS Calls,     \* tool calls, each in a goroutine of its own
          Tools,
          ToolOf,    \* the tool a call names
          ReadOnly,  \* the tools the policy lets pass
          Chats,
          ChatOf,    \* the chat a call's context names, if it names one
          NoChat,
          Approver,  \* "feishu", "terminal" or "none"
          Commands,  \* bound: the approval commands users send
          Numbers,   \* bound: the request numbers users write in them
          Lines,     \* bound: the lines typed on the terminal
          Resets     \* bound: how often Reset is called

ASSUME ApprovalAssumption ==
  /\ ToolOf \in [Calls -> Tools]
  /\ ReadOnly \subseteq Tools
  /\ NoChat \notin Chats
  /\ ChatOf \in [Calls -> Chats]
  /\ Approver \in {"feishu", "terminal", "none"}
  /\ Numbers \subseteq Nat
  /\ Lines \in Nat /\ Resets \in Nat
  /\ "nocall" \notin Calls

VARIABLES pc,         \* where each call is
          answer,     \* what RequestApproval returns for it
          verdict,    \* what Approve returns: the decision
          source,     \* ... and where it comes from
          expired,    \* approveCtx.Err() # nil
          ran,        \* the calls whose tool was executed
          remembered, \* ApprovalManager.remembered
          resets,     \* how often Reset was called
          pending,    \* FeishuApprover.pending: the calls that have a channel there
          reqID,      \* the number of a call's request, 0 before it has one
          seq,        \* FeishuApprover.seq
          chan,       \* the decision in a call's channel, of capacity one
          reading,    \* TerminalApprover.mu: the call that reads stdin, if any
          stdin,      \* the lines typed and not read yet
          line,       \* the line a call has read
          typed,      \* how many lines were typed
          step,       \* where TryResolve is with a command
          command,    \* the command: its chat, action and request number
          target,     \* the call whose channel TryResolve has taken
          late        \* the calls that were answered after they had expired

asking  == <<pc, answer, verdict, source, expired, ran>>
manager == <<remembered, resets>>
routing == <<pending, reqID, seq, chan>>
console == <<reading, stdin, line, typed>>
users   == <<step, command, target>>
vars    == <<asking, manager, routing, console, users, late>>

Actions  == {"approve", "always", "reject"}
Consents == {"approve", "always"}
\* RequestApproval's own rejections: no chat, not sent, no decision in time, no
\* line from stdin.
Failures == {"nochat", "unsent", "undecided", "unread"}
NoCall   == "nocall"
\* A line, and the call whose prompt was waiting for it when it was typed.
Line     == [action : Actions, prompt : Calls \cup {NoCall}]
NoLine   == [action |-> "none", prompt |-> NoCall]
NoCommand == [chat |-> NoChat, action |-> "reject", id |-> 0]

Init ==
  /\ pc = [c \in Calls |-> "idle"]
  /\ answer = [c \in Calls |-> "none"]
  /\ verdict = [c \in Calls |-> "none"]
  /\ source = [c \in Calls |-> "none"]
  /\ expired = [c \in Calls |-> FALSE]
  /\ ran = {}
  /\ remembered = {} /\ resets = 0
  /\ pending = {} /\ seq = 0
  /\ reqID = [c \in Calls |-> 0]
  /\ chan = [c \in Calls |-> "none"]
  /\ reading = NoCall /\ stdin = <<>> /\ typed = 0
  /\ line = [c \in Calls |-> NoLine]
  /\ step = [m \in Commands |-> "idle"]
  /\ command = [m \in Commands |-> NoCommand]
  /\ target = [m \in Commands |-> NoCall]
  /\ late = {}

-----------------------------------------------------------------------------
(* A call: Registry.execute and ApprovalManager.Approve.                   *)

Goto(c, label) == pc' = [pc EXCEPT ![c] = label]

Decide(c, decision, from) ==
  /\ verdict' = [verdict EXCEPT ![c] = decision]
  /\ source' = [source EXCEPT ![c] = from]
  /\ Goto(c, "gate")

\* The memory is looked up under the lock.
CheckMemory(c) ==
  /\ pc[c] = "idle"
  /\ IF ToolOf[c] \in remembered
     THEN Decide(c, "approved", "cache")
     ELSE Goto(c, "policy") /\ UNCHANGED <<verdict, source>>
  /\ UNCHANGED <<answer, expired, ran, manager, routing, console, users, late>>

\* The policy lets the tool pass; otherwise a human is asked, and without an
\* approver the call is rejected.
CheckPolicy(c) ==
  /\ pc[c] = "policy"
  /\ IF ToolOf[c] \notin ReadOnly /\ Approver # "none"
     THEN Goto(c, "ask") /\ UNCHANGED <<verdict, source>>
     ELSE Decide(c, IF ToolOf[c] \in ReadOnly THEN "approved" ELSE "rejected", "policy")
  /\ UNCHANGED <<answer, expired, ran, manager, routing, console, users, late>>

\* approveCtx ends: its timeout fires, or the run it belongs to is cancelled.
Expire(c) ==
  /\ pc[c] \in {"ask", "send", "wait", "leave", "read", "conclude"}
  /\ ~ expired[c]
  /\ expired' = [expired EXCEPT ![c] = TRUE]
  /\ UNCHANGED <<pc, answer, verdict, source, ran, manager, routing, console, users, late>>

Answer(c, a, label) ==
  /\ answer' = [answer EXCEPT ![c] = a]
  /\ Goto(c, label)

\* Mutations: whatever is not undecided passes; "always" is not known.
GrantedByDefault(a) == a # "undecided"
GrantedOnce(a)      == a = "approve"

Granted(a) == a \in Consents

\* The answer is judged; "always" is remembered, under the lock.
Conclude(c) ==
  /\ pc[c] = "conclude"
  /\ IF Granted(answer[c])
     THEN Decide(c, "approved", "manual")
     ELSE Decide(c, "rejected", IF expired[c] THEN "timeout" ELSE "manual")
  /\ remembered' = IF answer[c] = "always"
                   THEN remembered \cup {ToolOf[c]} ELSE remembered
  /\ UNCHANGED <<answer, expired, ran, resets, routing, console, users, late>>

\* The registry executes the tool unless the middleware intercepts the call.
Gate(c) ==
  /\ pc[c] = "gate"
  /\ ran' = IF verdict[c] = "approved" THEN ran \cup {c} ELSE ran
  /\ Goto(c, "done")
  /\ UNCHANGED <<answer, verdict, source, expired, manager, routing, console, users, late>>

Reset ==
  /\ resets < Resets
  /\ resets' = resets + 1
  /\ remembered' = {}
  /\ UNCHANGED <<asking, routing, console, users, late>>

-----------------------------------------------------------------------------
(* FeishuApprover.RequestApproval.                                         *)

\* Mutation: the counter is read, not advanced.
NextNumberLoaded(c) ==
  /\ UNCHANGED seq
  /\ reqID' = [reqID EXCEPT ![c] = seq + 1]

\* seq.Add(1): the number of the request.
NextNumber(c) ==
  /\ seq' = seq + 1
  /\ reqID' = [reqID EXCEPT ![c] = seq + 1]

\* The request gets a number and a channel; if the context names no chat, as
\* that of a run which the Feishu entry has not begun, it is rejected.
Register(c) ==
  /\ pc[c] = "ask" /\ Approver = "feishu"
  /\ \/ Answer(c, "nochat", "conclude") /\ UNCHANGED <<seq, reqID, pending>>
     \/ /\ NextNumber(c)
        /\ pending' = pending \cup {c}
        /\ Goto(c, "send") /\ UNCHANGED answer
  /\ UNCHANGED <<verdict, source, expired, ran, chan, console, manager, users, late>>

\* The request is sent to the chat, or sending reports a failure.
Send(c) ==
  /\ pc[c] = "send"
  /\ \/ Goto(c, "wait") /\ UNCHANGED answer
     \/ Answer(c, "unsent", "leave")
  /\ UNCHANGED <<verdict, source, expired, ran, manager, routing, console, users, late>>

\* Mutation: only the channel is waited for.
WaitForever(c) ==
  /\ pc[c] = "wait"
  /\ chan[c] # "none"
  /\ Answer(c, chan[c], "leave")
  /\ chan' = [chan EXCEPT ![c] = "none"]
  /\ UNCHANGED <<verdict, source, expired, ran, manager, pending, reqID, seq,
                 console, users, late>>

\* The select: either branch may be taken when both are ready.
Wait(c) ==
  /\ pc[c] = "wait"
  /\ \/ /\ chan[c] # "none"
        /\ Answer(c, chan[c], "leave")
        /\ chan' = [chan EXCEPT ![c] = "none"]
     \/ /\ expired[c]
        /\ Answer(c, "undecided", "leave")
        /\ UNCHANGED chan
  /\ UNCHANGED <<verdict, source, expired, ran, manager, pending, reqID, seq,
                 console, users, late>>

\* Mutations: the entry stays in the map.
UnregisterForgotten(c) == c \in Calls /\ UNCHANGED pending
ClaimWithoutRemoval(c) == c \in pending /\ UNCHANGED pending

\* The deferred removal from pending, and the one of TryResolve.
Unregister(c) == pending' = pending \ {c}
Claim(c) == c \in pending /\ pending' = pending \ {c}

Leave(c) ==
  /\ pc[c] = "leave"
  /\ Unregister(c)
  /\ Goto(c, "conclude")
  /\ UNCHANGED <<answer, verdict, source, expired, ran, manager, reqID, seq, chan,
                 console, users, late>>

\* Mutation: the number alone addresses a request.
AddressedByNumber(chat, id) == {c \in pending : chat \in Chats /\ reqID[c] = id}

Addressed(chat, id) == {c \in pending : ChatOf[c] = chat /\ reqID[c] = id}

\* TryResolve takes the channel that a command addresses, under the lock; a
\* command for no open request is acknowledged as ignored.  Users may send
\* any command for any number in any chat: one given out, here or elsewhere,
\* one that is still to be given out, or none that ever is.
Lookup(m) ==
  /\ step[m] = "idle"
  /\ \E chat \in Chats, action \in Actions, id \in Numbers :
       IF Addressed(chat, id) = {}
       THEN /\ step' = [step EXCEPT ![m] = "ignored"]
            /\ UNCHANGED <<command, pending, target, late>>
       ELSE \E c \in Addressed(chat, id) :
              /\ Claim(c)
              /\ command' = [command EXCEPT ![m] =
                               [chat |-> chat, action |-> action, id |-> id]]
              /\ target' = [target EXCEPT ![m] = c]
              /\ step' = [step EXCEPT ![m] = "deliver"]
              /\ late' = IF expired[c] THEN late \cup {c} ELSE late
  /\ UNCHANGED <<asking, manager, reqID, seq, chan, console>>

\* The decision goes into the channel, which has room for one.
Deliver(m) ==
  /\ step[m] = "deliver"
  /\ chan[target[m]] = "none"
  /\ chan' = [chan EXCEPT ![target[m]] = command[m].action]
  /\ step' = [step EXCEPT ![m] = "notify"]
  /\ UNCHANGED <<asking, manager, pending, reqID, seq, console, command, target, late>>

\* The chat is told that the decision has been recorded.
Notify(m) ==
  /\ step[m] = "notify"
  /\ step' = [step EXCEPT ![m] = "recorded"]
  /\ UNCHANGED <<asking, manager, routing, console, command, target, late>>

-----------------------------------------------------------------------------
(* TerminalApprover.RequestApproval.                                       *)

\* The prompt is shown to the human.
ShowPrompt(c) ==
  /\ pc[c] = "ask" /\ Approver = "terminal"
  /\ reading' = c
  /\ Goto(c, "read")
  /\ UNCHANGED <<answer, verdict, source, expired, ran, manager, routing, stdin, line,
                 typed, users, late>>

\* Mutation: the terminal is not locked.
LockTerminalFreely(c) == ShowPrompt(c)

LockTerminal(c) == reading = NoCall /\ ShowPrompt(c)

\* The human types a line, at any time.  It is meant for the prompt that waits
\* for it; a line behind another one, or without a prompt, is typed ahead.
TypeLine ==
  /\ Approver = "terminal"
  /\ typed < Lines
  /\ \E a \in Actions :
       stdin' = Append(stdin, [action |-> a,
                               prompt |-> IF stdin = <<>> THEN reading ELSE NoCall])
  /\ typed' = typed + 1
  /\ UNCHANGED <<asking, manager, routing, reading, line, users, late>>

\* Mutation: the mutex is not given back.
ReadLineLocked(c) ==
  /\ pc[c] = "read"
  /\ stdin # <<>>
  /\ stdin' = Tail(stdin)
  /\ line' = [line EXCEPT ![c] = Head(stdin)]
  /\ Answer(c, Head(stdin).action, "conclude")
  /\ UNCHANGED <<verdict, source, expired, ran, manager, routing, reading, typed, users,
                 late>>

\* The call takes the oldest line there is; anything but "y" and "a" rejects.
\* The context is not looked at.
ReadLine(c) ==
  /\ pc[c] = "read"
  /\ stdin # <<>>
  /\ stdin' = Tail(stdin)
  /\ line' = [line EXCEPT ![c] = Head(stdin)]
  /\ Answer(c, Head(stdin).action, "conclude")
  /\ reading' = NoCall
  /\ late' = IF expired[c] THEN late \cup {c} ELSE late
  /\ UNCHANGED <<verdict, source, expired, ran, manager, routing, typed, users>>

\* Every line has been read, and reading fails, as at the end of the input.
ReadFails(c) ==
  /\ pc[c] = "read"
  /\ stdin = <<>>
  /\ Answer(c, "unread", "conclude")
  /\ reading' = NoCall
  /\ UNCHANGED <<verdict, source, expired, ran, manager, routing, stdin, line, typed,
                 users, late>>

-----------------------------------------------------------------------------
CallStep(c) ==
  \/ CheckPolicy(c) \/ Conclude(c) \/ Gate(c)
  \/ Register(c) \/ Send(c) \/ Wait(c) \/ Leave(c)
  \/ LockTerminal(c) \/ ReadLine(c)

\* All calls are done; commands may still come or not.
AllDone == (\A c \in Calls : pc[c] = "done") /\ UNCHANGED vars

Next ==
  \/ \E c \in Calls : CheckMemory(c) \/ CallStep(c) \/ Expire(c) \/ ReadFails(c)
  \/ \E m \in Commands : Lookup(m) \/ Deliver(m) \/ Notify(m)
  \/ TypeLine
  \/ Reset
  \/ AllDone

Spec == Init /\ [][Next]_vars

(* The goroutine of a call is scheduled and its timer fires; no human need    *)
(* ever answer, no command be taken to its end, and stdin need not end.       *)
FairSpec == Spec /\ \A c \in Calls : WF_vars(CallStep(c)) /\ WF_vars(Expire(c))

-----------------------------------------------------------------------------
(* Properties. *)

ConsoleOK ==
  /\ reading \in Calls \cup {NoCall}
  /\ stdin \in Seq(Line) /\ typed \in Nat
  /\ line \in [Calls -> Line \cup {NoLine}]

\* Every variable stays in its range ( the fields of ApprovalManager,
\* FeishuApprover and TerminalApprover, and the control state of the calls ).
TypeOK ==
  /\ pc \in [Calls -> {"idle", "policy", "ask", "send", "wait", "leave", "read",
                       "conclude", "gate", "done"}]
  /\ answer \in [Calls -> Actions \cup Failures \cup {"none"}]
  /\ verdict \in [Calls -> {"none", "approved", "rejected"}]
  /\ source \in [Calls -> {"none", "cache", "policy", "manual", "timeout"}]
  /\ expired \in [Calls -> BOOLEAN]
  /\ ran \subseteq Calls
  /\ remembered \subseteq Tools /\ resets \in Nat
  /\ pending \subseteq Calls /\ seq \in Nat
  /\ reqID \in [Calls -> 0..seq]
  /\ chan \in [Calls -> Actions \cup {"none"}]
  /\ ConsoleOK
  /\ step \in [Commands -> {"idle", "ignored", "deliver", "notify", "recorded"}]
  /\ command \in [Commands -> [chat : Chats \cup {NoChat}, action : Actions, id : Nat]]
  /\ target \in [Commands -> Calls \cup {NoCall}]
  /\ late \subseteq Calls

\* A user of the call's own chat sent this command for the call's own number,
\* when that request was open.
Said(m, c) ==
  /\ step[m] \notin {"idle", "ignored"}
  /\ reqID[c] # 0
  /\ command[m].chat = ChatOf[c] /\ command[m].id = reqID[c]

\* A gated tool runs only with consent: a user of the same chat let this very
\* request pass, or some user once allowed the tool for good in answer to a
\* request for it ( the whole chain Registry - ApprovalManager - FeishuApprover ).
RunsOnlyWithConsent ==
  \A c \in ran :
    \/ ToolOf[c] \in ReadOnly
    \/ \E m \in Commands : Said(m, c) /\ command[m].action \in Consents
    \/ \E m \in Commands, d \in Calls :
         Said(m, d) /\ ToolOf[d] = ToolOf[c] /\ command[m].action = "always"

\* Whoever the approver is: a call runs only if the policy lets its tool pass,
\* its own answer was a consent, or a call of the same tool was answered with
\* "always" ( Approve, Middleware, execute ).
NothingRunsUnasked ==
  \A c \in ran :
    \/ ToolOf[c] \in ReadOnly
    \/ answer[c] \in Consents
    \/ \E d \in Calls : ToolOf[d] = ToolOf[c] /\ answer[d] = "always"

\* However many calls wait for the terminal, a line is read by the call whose
\* prompt was waiting when it was typed; only a line that was typed ahead may
\* answer another one ( TerminalApprover.mu around prompt and ReadString ).
LinesAnswerTheirPrompt == \A c \in Calls : line[c].prompt \in {c, NoCall}

\* When the human's rejection has been taken, the call does not run, whatever
\* other commands follow.
RejectionIsFinal ==
  \A m \in Commands :
    target[m] # NoCall /\ command[m].action = "reject" => target[m] \notin ran

\* TryResolve's send never blocks the event callback: the channel it has taken
\* is empty, as no other command got it.
DeliveryNeverBlocks ==
  \A m \in Commands : step[m] = "deliver" => chan[target[m]] = "none"

\* No request stays registered after its waiter has gone.
NoLeakedRequest ==
  \A c \in pending : pc[c] \in {"send", "wait", "leave"}

\* A call whose decision has been recorded is decided that way, unless the
\* request counts as not sent or the context ended first; then it is rejected.
RecordedDecisionPrevails ==
  \A m \in Commands : LET c == target[m] IN
    step[m] = "recorded" /\ pc[c] = "done" =>
      \/ (verdict[c] = "approved") <=> (command[m].action \in Consents)
      \/ /\ verdict[c] = "rejected"
         /\ answer[c] = "unsent" \/ (answer[c] = "undecided" /\ source[c] = "timeout")

\* A call stays undecided for ever only if some call waits for a line on the
\* terminal for ever: no human need answer in a chat, and a mutex, a map or a
\* channel keeps nobody ( the select of RequestApproval with the timeout of
\* Approve, TerminalApprover.mu ).
CallsAreSettled ==
  \A c \in Calls :
    <>[](pc[c] \notin {"idle", "done"}) => \E d \in Calls : <>[](pc[d] = "read")

-----------------------------------------------------------------------------
(* Statements of the repository's comments that the code does not keep. *)

\* approval.go:144: every abnormal path, timeout included, ends in rejection.
LateAnswersAreRejected == \A c \in late : verdict[c] # "approved"

\* terminal_approver.go:27: a read that cannot be interrupted is ended by the
\* timeout of the manager.
TimeoutsSettleCalls == \A c \in Calls : pc[c] # "idle" ~> pc[c] = "done"

\* terminal_approver.go:23: the call is shown, then the answer is waited for; no
\* line is taken that was typed before the prompt.
LinesFollowTheirPrompt == \A c \in Calls : line[c] # NoLine => line[c].prompt = c

\* feishu_approver.go:110 and the receipt at 179: a late command hits nothing,
\* and a decision acknowledged as recorded is the one that counts.
ReceiptsAreTrue ==
  \A m \in Commands : step[m] = "recorded" /\ verdict[target[m]] # "none" =>
    (verdict[target[m]] = "approved") <=> (command[m].action \in Consents)
=============================================================================
