------------------------------ MODULE Compactor ------------------------------
(***************************************************************************)
(* context/compactor.go and the calls engine/loop.go makes of it: every    *)
(* request of a session passes through Compact, and Observe reads the      *)
(* usage of the answered ones.  A message is its kind and its sizes in     *)
(* bytes; what a degraded message still holds is form and head.  The       *)
(* coefficient tokensPerChar is kept in thousandths, rounded down.         *)
(*                                                                         *)
(* A session has one run at a time ( AgentRun!OneRunPerSession ), so the   *)
(* lock of the compactor is not modelled; prompts arrive at any time.      *)
(***************************************************************************)
EXTENDS Integers, Sequences, SequencesExt, FiniteSetsExt

CONSTANTS ContextWindow, ReserveTokens, RetainLastMsg, \* NewCompactor's parameters
          CharWidth,      \* bytes of one character of a long content
          SystemSize,     \* bytes of the system prompt
          PromptSizes, ReplySizes, ToolSizes, ArgSizes, \* bytes of what is appended
          Usages,         \* the PromptTokens an answer may carry
          MaxMessages     \* bound: messages in the session

ASSUME CompactorAssumption ==
  /\ ContextWindow \in Nat /\ ReserveTokens \in Nat /\ RetainLastMsg \in Nat
  /\ CharWidth \in 1..4 /\ SystemSize \in Nat /\ MaxMessages \in Nat
  /\ Usages \subseteq Int
  /\ PromptSizes \cup ReplySizes \cup ToolSizes \cup ArgSizes \subseteq Nat
  /\ \A n \in ReplySizes \cup ToolSizes : n % CharWidth = 0

VARIABLES history,       \* the session's messages
          request,       \* what was handed to the provider
          phase,         \* where the session is: ended, idle between calls, or in one
          callers,       \* prompts whose run has not been started or refused
          watermark, baselineChars, sentChars, tokensPerChar,
          asked,         \* history: what the last request was made of
          served         \* history: request size and usage of the last observed answer

vars == <<history, request, phase, callers, watermark, baselineChars, sentChars,
          tokensPerChar, asked, served>>

-----------------------------------------------------------------------------
defaultTokensPerChar == 500
maxCompactRounds     == 4
farHistoryMaskChars  == 200
minTruncateKeep      == 250
firstKeep            == 1000

Message(kind, size, args) ==
  [kind |-> kind, size |-> size, args |-> args, form |-> "whole", head |-> size]

System == Message("system", SystemSize, 0)

AddBytes(m, n) == n + m.size + m.args

\* estimateLength counts bytes, of contents and of tool calls.
Bytes(msgs) == FoldSeq(AddBytes, 0, msgs)

Digits(n) == IF n < 10 THEN 1 ELSE IF n < 100 THEN 2 ELSE IF n < 1000 THEN 3 ELSE 4

\* Bytes of the texts that replace what is left out.
MaskSize(n) == 86 + Digits(n)
FoldSize    == 44
CutSize(n)  == 47 + Digits(n)

\* The triggering ratio is eight tenths.
Threshold == Max({(8 * ContextWindow) \div 10 - ReserveTokens, 1})

\* int() of a product rounds towards zero.
Tokens(chars) == IF chars >= 0 THEN (chars * tokensPerChar) \div 1000
                 ELSE 0 - (((0 - chars) * tokensPerChar) \div 1000)

\* Mutation: the usage the provider reported is ignored.
ProjectByRatio(chars) == Tokens(chars)

\* projectTokensLocked
Project(chars) ==
  IF watermark <= 0 THEN Tokens(chars)
  ELSE Max({Tokens(chars), watermark + Tokens(chars - baselineChars)})

-----------------------------------------------------------------------------
\* truncatePrefix and truncateSuffix back off to a whole character; behind the
\* head of a message that was cut before begins the marker, which is ASCII.
Aligned(m, half) == IF half <= m.head THEN half - (half % CharWidth) ELSE half

Mask(m) == [m EXCEPT !.size = MaskSize(m.size), !.form = "masked"]
Fold(m) == [m EXCEPT !.size = FoldSize, !.form = "folded"]
Cut(m, keep) ==
  LET kept == Aligned(m, keep \div 2)
  IN  [m EXCEPT !.size = 2 * kept + CutSize(m.size - keep), !.form = "cut", !.head = kept]

\* Before the protected zone of the last messages.
Far(msgs, i) == i <= Len(msgs) - RetainLastMsg

\* Mutation: every message of the user counts as a result.
DegradedOfAnyUser(msgs, keep) ==
  [i \in DOMAIN msgs |->
     IF msgs[i].kind \in {"tool", "user"} /\ Far(msgs, i) /\ msgs[i].size > farHistoryMaskChars
     THEN Mask(msgs[i]) ELSE msgs[i]]

\* degrade: one round over copies of the messages.
Degraded(msgs, keep) ==
  [i \in DOMAIN msgs |->
     LET m == msgs[i] IN
     CASE m.kind = "tool" /\ Far(msgs, i) /\ m.size > farHistoryMaskChars -> Mask(m)
       [] m.kind = "tool" /\ ~ Far(msgs, i) /\ m.size > keep -> Cut(m, keep)
       [] m.kind = "reply" /\ Far(msgs, i) /\ m.size > farHistoryMaskChars -> Fold(m)
       [] OTHER -> m]

Tighten(keep) == IF keep > minTruncateKeep THEN keep \div 2 ELSE keep

\* The rounds of Compact: one more unless the last one reached the threshold.
Rounds(msgs) ==
  LET keepOf[r \in 1..maxCompactRounds] ==
        IF r = 1 THEN firstKeep ELSE Tighten(keepOf[r - 1])
      after[r \in 0..maxCompactRounds] ==
        IF r = 0 THEN msgs
        ELSE IF r > 1 /\ Project(Bytes(after[r - 1])) < Threshold THEN after[r - 1]
        ELSE Degraded(after[r - 1], keepOf[r])
  IN  after[maxCompactRounds]

Compact(msgs) == IF Project(Bytes(msgs)) < Threshold THEN msgs ELSE Rounds(msgs)

\* Mutation: a request that is let through unchanged is not measured.
MeasureCompacted(msgs) ==
  sentChars' = IF Project(Bytes(msgs)) < Threshold THEN sentChars ELSE Bytes(Rounds(msgs))

\* Compact leaves the size of what it let through to the next Observe.
Measure(msgs) == sentChars' = Bytes(Compact(msgs))

-----------------------------------------------------------------------------
Init ==
  /\ history = <<>> /\ request = <<>> /\ asked = <<>>
  /\ phase = "ended" /\ callers = 0
  /\ watermark = 0 /\ baselineChars = 0 /\ sentChars = 0
  /\ tokensPerChar = defaultTokensPerChar
  /\ served = [chars |-> 0, tokens |-> 0]

readings == <<watermark, baselineChars, tokensPerChar, served>>
sending  == <<request, asked, sentChars>>

Appended(msgs) ==
  /\ Len(history) + Len(msgs) <= MaxMessages
  /\ history' = history \o msgs

\* A prompt of the user goes into the history, whatever the session is doing.
Prompt ==
  /\ callers' = callers + 1
  /\ \E n \in PromptSizes : Appended(<<Message("user", n, 0)>>)
  /\ UNCHANGED <<phase, sending, readings>>

\* Its run starts, or is refused because the session is busy.
Start ==
  /\ callers > 0
  /\ callers' = callers - 1
  /\ phase' = IF phase = "ended" THEN "idle" ELSE phase
  /\ UNCHANGED <<history, sending, readings>>

Reminders == {<<>>} \cup {<<Message("user", n, 0)>> : n \in PromptSizes}

\* When all calls of a batch are done its results are appended, and behind them
\* what CheckAndInject may have to say.
Results ==
  /\ phase = "tools"
  /\ phase' = "idle"
  /\ \E n \in ToolSizes, m \in ToolSizes, reminder \in Reminders :
       \/ Appended(<<Message("tool", n, 0)>> \o reminder)
       \/ Appended(<<Message("tool", n, 0), Message("tool", m, 0)>> \o reminder)
  /\ UNCHANGED <<callers, sending, readings>>

\* buildRequestHistory: the system prompt and the history go through Compact.
Send ==
  /\ asked' = <<System>> \o history
  /\ request' = Compact(asked')
  /\ Measure(asked')

Think ==
  /\ phase = "idle"
  /\ phase' = "think"
  /\ Send
  /\ UNCHANGED <<history, callers, readings>>

Act ==
  /\ phase \in {"idle", "thought"}
  /\ phase' = "act"
  /\ Send
  /\ UNCHANGED <<history, callers, readings>>

\* The budget is spent: a notice, and a last request.
Conclude ==
  /\ phase = "idle"
  /\ phase' = "told"
  /\ \E n \in PromptSizes : Appended(<<Message("user", n, 0)>>)
  /\ UNCHANGED <<callers, sending, readings>>

AskFinal ==
  /\ phase = "told"
  /\ phase' = "final"
  /\ Send
  /\ UNCHANGED <<history, callers, readings>>

\* Mutation: a usage that was not given is taken for one.
ObserveAny(t) ==
  /\ watermark' = t
  /\ baselineChars' = sentChars
  /\ served' = [chars |-> Bytes(request), tokens |-> t]
  /\ UNCHANGED tokensPerChar

\* Observe: a usage that is not positive changes nothing, any other becomes the
\* watermark and corrects the coefficient by three tenths.
Observe(t) ==
  IF t <= 0 THEN UNCHANGED readings
  ELSE
    /\ watermark' = t
    /\ baselineChars' = sentChars
    /\ tokensPerChar' =
         IF sentChars = 0 THEN tokensPerChar
         ELSE (3 * ((1000 * t) \div sentChars) + 7 * tokensPerChar) \div 10
    /\ served' = [chars |-> Bytes(request), tokens |-> t]

\* The slow thinking is not part of the history.
Thought ==
  /\ phase = "think"
  /\ phase' = "thought"
  /\ \E t \in Usages : Observe(t)
  /\ UNCHANGED <<history, callers, sending>>

\* A turn's reply is appended; without tool calls the run is over.
Acted ==
  /\ phase = "act"
  /\ \E t \in Usages : Observe(t)
  /\ \E n \in ReplySizes, a \in ArgSizes :
       /\ Appended(<<Message("reply", n, a)>>)
       /\ phase' = IF a = 0 THEN "ended" ELSE "tools"
  /\ UNCHANGED <<callers, sending>>

\* The usage of a forced final answer is not observed.
Concluded ==
  /\ phase = "final"
  /\ phase' = "ended"
  /\ \E n \in ReplySizes : Appended(<<Message("reply", n, 0)>>)
  /\ UNCHANGED <<callers, sending, readings>>

\* Generate fails, its answer is dropped because the context is done, or the
\* calls of the reply are abandoned: the run ends.
Lost ==
  /\ phase \in {"idle", "think", "act", "tools", "final"}
  /\ phase' = "ended"
  /\ UNCHANGED <<history, callers, sending, readings>>

Next == \/ Prompt \/ Start \/ Think \/ Thought \/ Act \/ Acted \/ Results
        \/ Conclude \/ AskFinal \/ Concluded \/ Lost

Spec == Init /\ [][Next]_vars

-----------------------------------------------------------------------------
(* Properties.                                                              *)

Messages == [kind : {"system", "user", "tool", "reply"}, size : Nat, args : Nat,
             form : {"whole", "masked", "folded", "cut"}, head : Nat]

\* The readings are never negative, and the session's own messages are never
\* the degraded ones ( compactor.go:215 copies before it changes ).
TypeOK ==
  /\ history \in Seq({m \in Messages : m.form = "whole"})
  /\ request \in Seq(Messages) /\ asked \in Seq(Messages) /\ callers \in Nat
  /\ phase \in {"ended", "idle", "think", "thought", "act", "tools", "told", "final"}
  /\ watermark \in Nat /\ baselineChars \in Nat /\ sentChars \in Nat
  /\ tokensPerChar \in Nat
  /\ served \in [chars : Nat, tokens : Nat]

\* Whatever calls failed, were dropped or gave no usage in between, watermark
\* and baseline are those of one and the same answered call: the size measured
\* for one request ( compactor.go:106, 135 ) is never paired with the usage of
\* another ( 169 ).
ReadingsArePaired ==
  <<watermark, baselineChars>> = <<served.tokens, served.chars>>

Recent(msgs, i) == Len(msgs) - i < RetainLastMsg

InFlight == phase \in {"think", "act", "final"}

\* Nothing that degrade could still shorten.
FullyDegraded(msgs) ==
  \A i \in DOMAIN msgs :
    LET m == msgs[i] IN
    /\ m.kind \in {"tool", "reply"} /\ ~ Recent(msgs, i) => m.size <= farHistoryMaskChars
    /\ m.kind = "tool" /\ Recent(msgs, i) => m.size <= minTruncateKeep + CutSize(m.size)

\* Once the provider has counted a request at or above the threshold, no
\* request of that size or more is sent unless nothing is left to shorten: the
\* feedback of the real usage ( compactor.go:155 ) reaches the next Compact
\* whatever the coefficient has become, and the rounds ( 123 ) go to the end.
OverfullRequestsShrink ==
  InFlight /\ served.tokens >= Threshold =>
    Bytes(request) < served.chars \/ FullyDegraded(request)

\* A request has every message of the history it was made of in its place with
\* its tool calls, also when a prompt has come in since; prompts and the recent
\* replies are whole, results of the protected zone keep head and tail; and the
\* texts that stand for what was left out never make a message longer than it
\* was, but for one cut to the smallest budget, and then by no more than that
\* text ( compactor.go:202, 224 - 244 ).
OnlyBulkIsLost ==
  InFlight =>
    /\ Len(request) = Len(asked)
    /\ \A i \in DOMAIN asked :
         LET was == asked[i]  is == request[i] IN
         /\ is.kind = was.kind /\ is.args = was.args
         /\ was.kind \in {"system", "user"} => is = was
         /\ was.kind = "reply" /\ Recent(asked, i) => is = was
         /\ was.kind = "tool" /\ Recent(asked, i) =>
              \/ is = was
              \/ is.form = "cut" /\ is.head > (minTruncateKeep \div 2) - CharWidth
         /\ \/ is.size <= was.size
            \/ is.form = "cut" /\ is.size < was.size + CutSize(was.size)

=============================================================================
