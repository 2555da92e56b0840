--------------------------- MODULE CompactorProofs ---------------------------
(* What TLAPS proves of the compactor, for every value of the constants.     *)
EXTENDS Compactor, NaturalFacts, SequenceTheorems

\* A request in flight has the size that Compact has measured, so that Observe
\* sets baselineChars to the size of the request whose usage it reads.
Measured == InFlight => sentChars = Bytes(request)

PairedInv == ReadingsArePaired /\ Measured

LEMMA PairedInit == Init => PairedInv
  BY DEF Init, PairedInv, ReadingsArePaired, Measured, InFlight

\* Sending measures what it sends.
LEMMA SendMeasures ==
  ASSUME Send
  PROVE  sentChars' = Bytes(request')
  BY DEF Send, Measure

\* An answer in flight leaves the readings of its own request.
LEMMA ObservePairs ==
  ASSUME NEW t, PairedInv, InFlight, Observe(t)
  PROVE  ReadingsArePaired'
<1>1. CASE t <= 0
  BY <1>1 DEF Observe, PairedInv, ReadingsArePaired, readings
<1>2. CASE ~ (t <= 0)
  BY <1>2 DEF Observe, PairedInv, ReadingsArePaired, Measured
<1> QED BY <1>1, <1>2

LEMMA PairedStep == PairedInv /\ [Next]_vars => PairedInv'
<1> SUFFICES ASSUME PairedInv, [Next]_vars PROVE PairedInv'
  OBVIOUS
<1> USE DEF PairedInv
<1>1. ASSUME UNCHANGED <<sending, readings>>, InFlight' => InFlight
      PROVE  PairedInv'
  BY <1>1 DEF ReadingsArePaired, Measured, sending, readings
<1>2. CASE Prompt
  BY <1>1, <1>2 DEF Prompt, InFlight
<1>3. CASE Start
  <2>1. UNCHANGED <<sending, readings>>
    BY <1>3 DEF Start
  <2>2. InFlight' => InFlight
    BY <1>3 DEF Start, InFlight
  <2> QED BY <1>1, <2>1, <2>2
<1>4. CASE Think
  BY <1>4, SendMeasures DEF Think, ReadingsArePaired, Measured, readings
<1>5. CASE Thought
  <2>1. PICK t \in Usages : Observe(t)
    BY <1>5 DEF Thought
  <2>2. ReadingsArePaired'
    BY <1>5, <2>1, ObservePairs DEF Thought, InFlight
  <2>3. Measured'
    BY <1>5 DEF Thought, Measured, InFlight
  <2> QED BY <2>2, <2>3
<1>6. CASE Act
  BY <1>6, SendMeasures DEF Act, ReadingsArePaired, Measured, readings
<1>7. CASE Acted
  <2>1. PICK t \in Usages : Observe(t)
    BY <1>7 DEF Acted
  <2>2. ReadingsArePaired'
    BY <1>7, <2>1, ObservePairs DEF Acted, InFlight
  <2>3. Measured'
    BY <1>7 DEF Acted, Measured, InFlight
  <2> QED BY <2>2, <2>3
<1>8. CASE Results \/ Conclude \/ Concluded \/ Lost
  <2>1. UNCHANGED <<sending, readings>>
    BY <1>8 DEF Results, Conclude, Concluded, Lost
  <2>2. ~ InFlight'
    BY <1>8 DEF Results, Conclude, Concluded, Lost, InFlight
  <2> QED BY <1>1, <2>1, <2>2
<1>9. CASE AskFinal
  BY <1>9, SendMeasures DEF AskFinal, ReadingsArePaired, Measured, readings
<1>10. CASE UNCHANGED vars
  BY <1>10 DEF vars, ReadingsArePaired, Measured, InFlight
<1> QED
  BY <1>2, <1>3, <1>4, <1>5, <1>6, <1>7, <1>8, <1>9, <1>10 DEF Next

\* The size measured for one request is never paired with the usage of another,
\* whatever is lost in between ( Compact, Observe ).
THEOREM ReadingsPaired == Spec => []ReadingsArePaired
<1>1. PairedInv => ReadingsArePaired
  BY DEF PairedInv
<1> QED BY <1>1, PairedInit, PairedStep, PTL DEF Spec

-----------------------------------------------------------------------------
(* Arithmetic. *)

LEMMA Remainder ==
  ASSUME NEW n \in Nat
  PROVE  n % CharWidth \in 0..(CharWidth - 1)
<1>1. CharWidth \in {1, 2, 3, 4}
  BY CompactorAssumption
<1> QED BY <1>1

LEMMA DigitsFacts ==
  /\ \A n \in Int : Digits(n) \in 1..4
  /\ \A n, m \in Int : n <= m => Digits(n) <= Digits(m)
  BY DEF Digits

LEMMA CutSizeFacts ==
  /\ \A n \in Int : CutSize(n) \in Nat /\ CutSize(n) <= 51
  /\ \A n, m \in Int : n <= m => CutSize(n) <= CutSize(m)
  BY DigitsFacts DEF CutSize

\* A cut text keeps less than half of the budget, but nearly so much.
LEMMA AlignedFacts ==
  ASSUME NEW m \in Messages, NEW half \in Nat
  PROVE  Aligned(m, half) \in Nat /\ Aligned(m, half) <= half /\ Aligned(m, half) > half - CharWidth
<1>1. CharWidth \in Nat /\ CharWidth >= 1
  BY CompactorAssumption
<1>2. PICK r \in 0..(CharWidth - 1) : r = half % CharWidth /\ (half <= m.head => r <= half)
  <2>1. half % CharWidth \in 0..(CharWidth - 1)
    BY Remainder
  <2>2. half % CharWidth <= half
    <3>1. CharWidth \in {1, 2, 3, 4}
      BY CompactorAssumption
    <3> QED BY <3>1
  <2> QED BY <2>1, <2>2
<1> QED BY <1>1, <1>2 DEF Aligned

-----------------------------------------------------------------------------
(* One round, message by message. *)

Keeps == {1000, 500, 250}

LEMMA MessageFields ==
  ASSUME NEW m \in Messages
  PROVE  /\ m.size \in Nat /\ m.args \in Nat /\ m.head \in Nat
         /\ m.kind \in {"system", "user", "tool", "reply"}
  BY DEF Messages

LEMMA MaskFacts ==
  ASSUME NEW m \in Messages
  PROVE  /\ Mask(m) \in Messages /\ Mask(m).kind = m.kind /\ Mask(m).args = m.args
         /\ Mask(m).size <= 90
<1>1. MaskSize(m.size) \in Nat /\ MaskSize(m.size) <= 90
  BY MessageFields, DigitsFacts DEF MaskSize
<1> QED BY <1>1 DEF Mask, Messages

LEMMA FoldFacts ==
  ASSUME NEW m \in Messages
  PROVE  /\ Fold(m) \in Messages /\ Fold(m).kind = m.kind /\ Fold(m).args = m.args
         /\ Fold(m).size = 44
  BY DEF Fold, Messages, FoldSize

LEMMA CutFacts ==
  ASSUME NEW m \in Messages, NEW keep \in Keeps
  PROVE  /\ Cut(m, keep) \in Messages /\ Cut(m, keep).kind = m.kind /\ Cut(m, keep).args = m.args
         /\ Cut(m, keep).form = "cut"
         /\ Cut(m, keep).head > (minTruncateKeep \div 2) - CharWidth
         /\ Cut(m, keep).size <= keep + CutSize(m.size - keep)
         /\ Cut(m, keep).size >= CutSize(m.size - keep)
<1>1. PICK half \in Nat : half = keep \div 2 /\ half >= 125 /\ 2 * half = keep
  BY DEF Keeps
<1>2. PICK kept \in Nat : kept = Aligned(m, half) /\ kept <= half /\ kept > half - CharWidth
  BY AlignedFacts
<1>3. m.size - keep \in Int /\ CutSize(m.size - keep) \in Nat
  <2>1. m.size - keep \in Int
    BY MessageFields DEF Keeps
  <2> QED BY <2>1, DigitsFacts DEF CutSize
<1>4. PICK size \in Nat : size = 2 * kept + CutSize(m.size - keep)
  BY <1>2, <1>3
<1>5. Cut(m, keep) = [m EXCEPT !.size = size, !.form = "cut", !.head = kept]
  BY <1>1, <1>2, <1>4 DEF Cut
<1>6. /\ Cut(m, keep) \in Messages /\ Cut(m, keep).kind = m.kind /\ Cut(m, keep).args = m.args
      /\ Cut(m, keep).form = "cut" /\ Cut(m, keep).head = kept /\ Cut(m, keep).size = size
  BY <1>5 DEF Messages
<1>7. size <= keep + CutSize(m.size - keep) /\ size >= CutSize(m.size - keep)
  BY <1>1, <1>2, <1>3, <1>4
<1>8. kept > (minTruncateKeep \div 2) - CharWidth
  BY <1>1, <1>2, CompactorAssumption DEF minTruncateKeep
<1> QED BY <1>6, <1>7, <1>8

\* What a round makes of one message.
LEMMA RoundOfOne ==
  ASSUME NEW msgs \in Seq(Messages), NEW keep, NEW i \in DOMAIN msgs
  PROVE  LET m == msgs[i]  d == Degraded(msgs, keep)[i] IN
         /\ m.kind = "tool" /\ Far(msgs, i) =>
              d = IF m.size > farHistoryMaskChars THEN Mask(m) ELSE m
         /\ m.kind = "tool" /\ ~ Far(msgs, i) => d = IF m.size > keep THEN Cut(m, keep) ELSE m
         /\ m.kind = "reply" /\ Far(msgs, i) =>
              d = IF m.size > farHistoryMaskChars THEN Fold(m) ELSE m
         /\ m.kind = "reply" /\ ~ Far(msgs, i) => d = m
         /\ m.kind \in {"system", "user"} => d = m
  BY DEF Degraded

\* How a message may differ from the one it stands for, after rounds whose
\* smallest budget was keep.
Fits(was, is, far, keep) ==
  /\ is \in Messages /\ is.kind = was.kind /\ is.args = was.args
  /\ was.kind \in {"system", "user"} => is = was
  /\ was.kind = "reply" /\ ~ far => is = was
  /\ was.kind \in {"reply", "tool"} /\ far => is.size <= was.size
  /\ was.kind = "tool" /\ ~ far =>
       \/ is = was
       \/ /\ is.form = "cut" /\ is.head > (minTruncateKeep \div 2) - CharWidth
          /\ keep < was.size /\ is.size < was.size + CutSize(was.size)

LEMMA RoundFits ==
  ASSUME NEW msgs \in Seq(Messages), NEW i \in DOMAIN msgs, NEW was \in Messages,
         NEW before \in Nat, NEW keep \in Keeps, keep <= before,
         Fits(was, msgs[i], Far(msgs, i), before)
  PROVE  Fits(was, Degraded(msgs, keep)[i], Far(msgs, i), keep)
<1> DEFINE m == msgs[i]
           d == Degraded(msgs, keep)[i]
<1>0. /\ m \in Messages /\ m.kind = was.kind /\ m.args = was.args
      /\ m.size \in Nat /\ was.size \in Nat /\ keep \in Nat /\ keep >= 250
      /\ was.kind \in {"system", "user", "tool", "reply"}
  BY MessageFields DEF Fits, Keeps
<1>1. CASE was.kind \in {"system", "user"}
  BY <1>0, <1>1, RoundOfOne DEF Fits
<1>2. CASE was.kind = "reply" /\ ~ Far(msgs, i)
  BY <1>0, <1>2, RoundOfOne DEF Fits
<1>3. CASE was.kind = "reply" /\ Far(msgs, i)
  <2>1. d = IF m.size > farHistoryMaskChars THEN Fold(m) ELSE m
    BY <1>0, <1>3, RoundOfOne
  <2>2. m.size <= was.size
    BY <1>3 DEF Fits
  <2>3. d \in Messages /\ d.kind = m.kind /\ d.args = m.args /\ d.size <= was.size
    <3>1. CASE m.size > 200
      BY <1>0, <2>1, <2>2, <3>1, FoldFacts DEF farHistoryMaskChars
    <3>2. CASE ~ (m.size > 200)
      BY <1>0, <2>1, <2>2, <3>2 DEF farHistoryMaskChars
    <3> QED BY <3>1, <3>2
  <2> QED BY <1>0, <1>3, <2>3 DEF Fits
<1>4. CASE was.kind = "tool" /\ Far(msgs, i)
  <2>1. d = IF m.size > farHistoryMaskChars THEN Mask(m) ELSE m
    BY <1>0, <1>4, RoundOfOne
  <2>2. m.size <= was.size
    BY <1>4 DEF Fits
  <2>3. d \in Messages /\ d.kind = m.kind /\ d.args = m.args /\ d.size <= was.size
    <3>1. CASE m.size > 200
      <4>1. d = Mask(m)
        BY <2>1, <3>1 DEF farHistoryMaskChars
      <4>2. d.size \in Nat /\ d.size <= 90
        BY <1>0, <4>1, MaskFacts, MessageFields
      <4> QED BY <1>0, <2>2, <3>1, <4>1, <4>2, MaskFacts
    <3>2. CASE ~ (m.size > 200)
      BY <1>0, <2>1, <2>2, <3>2 DEF farHistoryMaskChars
    <3> QED BY <3>1, <3>2
  <2> QED BY <1>0, <1>4, <2>3 DEF Fits
<1>5. CASE was.kind = "tool" /\ ~ Far(msgs, i)
  <2>1. d = IF m.size > keep THEN Cut(m, keep) ELSE m
    BY <1>0, <1>5, RoundOfOne
  <2>2. \/ m = was
        \/ /\ m.form = "cut" /\ m.head > (minTruncateKeep \div 2) - CharWidth
           /\ before < was.size /\ m.size < was.size + CutSize(was.size)
    BY <1>5 DEF Fits
  <2>3. CASE ~ (m.size > keep)
    <3>1. d = m
      BY <2>1, <2>3
    <3>2. before < was.size => keep < was.size
      BY <1>0
    <3> HIDE DEF m, d
    <3> QED BY <1>0, <1>5, <2>2, <3>1, <3>2 DEF Fits, d
  <2>4. CASE m.size > keep
    <3>1. d = Cut(m, keep)
      BY <2>1, <2>4
    <3>2. keep < was.size
      BY <1>0, <2>2, <2>4
    <3>3. CutSize(was.size) \in Nat /\ CutSize(was.size) <= 51
      <4>1. PICK w \in Int : w = was.size
        BY <1>0
      <4>2. CutSize(w) \in Nat /\ CutSize(w) <= 51
        BY CutSizeFacts
      <4> QED BY <4>1, <4>2
    <3>4. m.size - keep \in Int /\ m.size - keep <= was.size
      BY <1>0, <2>2, <3>3
    <3>5. CutSize(m.size - keep) \in Nat /\ CutSize(m.size - keep) <= CutSize(was.size)
      <4>1. PICK x \in Int : x = m.size - keep /\ x <= was.size
        BY <3>4
      <4>2. PICK w \in Int : w = was.size
        BY <1>0
      <4>3. CutSize(x) \in Nat /\ CutSize(x) <= CutSize(w)
        BY <4>1, <4>2, CutSizeFacts
      <4> QED BY <4>1, <4>2, <4>3
    <3>6. /\ d \in Messages /\ d.kind = m.kind /\ d.args = m.args /\ d.form = "cut"
          /\ d.head > (minTruncateKeep \div 2) - CharWidth
          /\ d.size <= keep + CutSize(m.size - keep)
      BY <1>0, <3>1, CutFacts
    <3>7. d.size \in Nat
      BY <3>6, MessageFields
    <3>8. d.size < was.size + CutSize(was.size)
      BY <1>0, <3>2, <3>3, <3>5, <3>6, <3>7
    <3> QED BY <1>0, <1>5, <3>2, <3>6, <3>8 DEF Fits
  <2> QED BY <2>3, <2>4
<1> QED BY <1>0, <1>1, <1>2, <1>3, <1>4, <1>5

-----------------------------------------------------------------------------
(* The four rounds. *)

\* What lets Compact stop.
Calm(msgs) == Project(Bytes(msgs)) < Threshold

RoundsOf(msgs, a1, a2, a3, a4) ==
  /\ a1 = Degraded(msgs, 1000)
  /\ a2 = IF Calm(a1) THEN a1 ELSE Degraded(a1, 500)
  /\ a3 = IF Calm(a2) THEN a2 ELSE Degraded(a2, 250)
  /\ a4 = IF Calm(a3) THEN a3 ELSE Degraded(a3, 250)

LEMMA RoundsUnrolled ==
  ASSUME NEW msgs
  PROVE  \E a1, a2, a3, a4 : RoundsOf(msgs, a1, a2, a3, a4) /\ Rounds(msgs) = a4
<1> DEFINE budget(k, r) == IF r = 1 THEN firstKeep ELSE Tighten(k[r - 1])
           IsKeep(k) == k = [r \in 1..4 |-> budget(k, r)]
           keepOf == CHOOSE k : IsKeep(k)
           value(a, r) == IF r = 0 THEN msgs
                          ELSE IF r > 1 /\ Project(Bytes(a[r - 1])) < Threshold THEN a[r - 1]
                          ELSE Degraded(a[r - 1], keepOf[r])
           IsAfter(a) == a = [r \in 0..4 |-> value(a, r)]
           after == CHOOSE a : IsAfter(a)
<1>1. Rounds(msgs) = after[4]
  BY DEF Rounds, maxCompactRounds
<1>2. IsKeep(keepOf)
  <2> DEFINE k == [r \in 1..4 |-> IF r = 1 THEN 1000 ELSE IF r = 2 THEN 500 ELSE 250]
  <2>1. k[1] = 1000 /\ k[2] = 500 /\ k[3] = 250 /\ k[4] = 250
    OBVIOUS
  <2>2. \A r \in 1..4 : k[r] = budget(k, r)
    <3> SUFFICES ASSUME NEW r \in 1..4 PROVE k[r] = budget(k, r)
      OBVIOUS
    <3>1. r \in {1, 2, 3, 4}
      OBVIOUS
    <3> HIDE DEF k
    <3> QED BY <2>1, <3>1 DEF firstKeep, Tighten, minTruncateKeep
  <2>3. IsKeep(k)
    BY <2>2
  <2> HIDE DEF k, IsKeep
  <2> QED BY <2>3
<1>3. keepOf[1] = 1000 /\ keepOf[2] = 500 /\ keepOf[3] = 250 /\ keepOf[4] = 250
  <2>1. \A r \in 1..4 : keepOf[r] = budget(keepOf, r)
    BY <1>2
  <2> HIDE DEF keepOf
  <2>2. keepOf[1] = 1000
    BY <2>1 DEF firstKeep
  <2>3. keepOf[2] = Tighten(keepOf[1])
    BY <2>1
  <2>4. keepOf[3] = Tighten(keepOf[2])
    BY <2>1
  <2>5. keepOf[4] = Tighten(keepOf[3])
    BY <2>1
  <2> QED BY <2>2, <2>3, <2>4, <2>5 DEF Tighten, minTruncateKeep
<1> HIDE DEF keepOf
<1>4. PICK a1, a2, a3, a4 : RoundsOf(msgs, a1, a2, a3, a4)
  BY DEF RoundsOf
<1>5. IsAfter(after)
  <2> DEFINE a == [r \in 0..4 |-> IF r = 0 THEN msgs ELSE IF r = 1 THEN a1
                                  ELSE IF r = 2 THEN a2 ELSE IF r = 3 THEN a3 ELSE a4]
  <2>1. a[0] = msgs /\ a[1] = a1 /\ a[2] = a2 /\ a[3] = a3 /\ a[4] = a4
    OBVIOUS
  <2>2. \A r \in 0..4 : a[r] = value(a, r)
    <3> SUFFICES ASSUME NEW r \in 0..4 PROVE a[r] = value(a, r)
      OBVIOUS
    <3>1. r \in {0, 1, 2, 3, 4}
      OBVIOUS
    <3> HIDE DEF a
    <3> QED BY <1>3, <1>4, <2>1, <3>1 DEF RoundsOf, Calm
  <2>3. IsAfter(a)
    BY <2>2
  <2> HIDE DEF a, IsAfter
  <2> QED BY <2>3
<1>6. \A r \in 0..4 : after[r] = value(after, r)
  BY <1>5
<1> HIDE DEF after
<1>7. after[0] = msgs
  BY <1>6
<1>8. after[1] = Degraded(after[0], keepOf[1])
  BY <1>6
<1>9. after[2] = IF Calm(after[1]) THEN after[1] ELSE Degraded(after[1], keepOf[2])
  BY <1>6 DEF Calm
<1>10. after[3] = IF Calm(after[2]) THEN after[2] ELSE Degraded(after[2], keepOf[3])
  BY <1>6 DEF Calm
<1>11. after[4] = IF Calm(after[3]) THEN after[3] ELSE Degraded(after[3], keepOf[4])
  BY <1>6 DEF Calm
<1>12. RoundsOf(msgs, after[1], after[2], after[3], after[4])
  BY <1>3, <1>7, <1>8, <1>9, <1>10, <1>11 DEF RoundsOf
<1> QED BY <1>1, <1>12

\* All messages fit.
AllFit(msgs, is, keep) ==
  /\ is \in Seq(Messages) /\ Len(is) = Len(msgs)
  /\ \A i \in DOMAIN msgs : Fits(msgs[i], is[i], Far(msgs, i), keep)

LEMMA RoundOfAll ==
  ASSUME NEW msgs \in Seq(Messages), NEW is, NEW before \in Nat, NEW keep \in Keeps,
         keep <= before, AllFit(msgs, is, before)
  PROVE  AllFit(msgs, Degraded(is, keep), keep)
<1>1. is \in Seq(Messages) /\ Len(is) = Len(msgs) /\ DOMAIN is = DOMAIN msgs
      /\ DOMAIN msgs = 1..Len(msgs) /\ Len(msgs) \in Nat
  BY DEF AllFit
<1>2. \A i \in DOMAIN msgs : Far(is, i) = Far(msgs, i)
  BY <1>1 DEF Far
<1>3. ASSUME NEW i \in DOMAIN msgs
      PROVE  Fits(msgs[i], Degraded(is, keep)[i], Far(msgs, i), keep)
  <2>1. msgs[i] \in Messages /\ Fits(msgs[i], is[i], Far(is, i), before)
    BY <1>2 DEF AllFit
  <2> QED BY <1>1, <1>2, <2>1, RoundFits
<1>4. DOMAIN Degraded(is, keep) = DOMAIN is /\ Degraded(is, keep) = [i \in 1..Len(msgs) |-> Degraded(is, keep)[i]]
  BY <1>1 DEF Degraded
<1>5. \A i \in DOMAIN msgs : Degraded(is, keep)[i] \in Messages
  BY <1>3 DEF Fits
<1>6. Degraded(is, keep) \in Seq(Messages) /\ Len(Degraded(is, keep)) = Len(msgs)
  BY <1>1, <1>4, <1>5
<1> QED BY <1>3, <1>6 DEF AllFit

\* A smaller budget than before.
LEMMA FitsLater ==
  ASSUME NEW msgs \in Seq(Messages), NEW is, NEW before \in Nat, NEW keep \in Nat,
         keep <= before, AllFit(msgs, is, before)
  PROVE  AllFit(msgs, is, keep)
<1>1. \A i \in DOMAIN msgs : msgs[i].size \in Nat
  BY MessageFields
<1>2. \A i \in DOMAIN msgs : before < msgs[i].size => keep < msgs[i].size
  BY <1>1
<1> QED BY <1>2 DEF AllFit, Fits

LEMMA SelfFits ==
  ASSUME NEW msgs \in Seq(Messages), NEW keep
  PROVE  AllFit(msgs, msgs, keep)
<1>1. ASSUME NEW i \in DOMAIN msgs PROVE Fits(msgs[i], msgs[i], Far(msgs, i), keep)
  <2>1. msgs[i] \in Messages /\ msgs[i].size \in Nat
    BY MessageFields
  <2> QED BY <2>1 DEF Fits
<1> QED BY <1>1 DEF AllFit

LEMMA CompactFits ==
  ASSUME NEW msgs \in Seq(Messages)
  PROVE  AllFit(msgs, Compact(msgs), 250)
<1> DEFINE OK(a, keep) == AllFit(msgs, a, keep)
<1>1. OK(msgs, 1000)
  BY SelfFits
<1>2. CASE Project(Bytes(msgs)) < Threshold
  <2>1. OK(msgs, 250)
    BY <1>1, FitsLater
  <2> QED BY <1>2, <2>1 DEF Compact
<1>3. CASE ~ (Project(Bytes(msgs)) < Threshold)
  <2>1. PICK a1, a2, a3, a4 : RoundsOf(msgs, a1, a2, a3, a4) /\ Rounds(msgs) = a4
    BY RoundsUnrolled
  <2>2. OK(a1, 1000)
    BY <1>1, <2>1, RoundOfAll DEF RoundsOf, Keeps
  <2>3. OK(a2, 500)
    BY <2>1, <2>2, RoundOfAll, FitsLater DEF RoundsOf, Keeps
  <2>4. OK(a3, 250)
    BY <2>1, <2>3, RoundOfAll, FitsLater DEF RoundsOf, Keeps
  <2>5. OK(a4, 250)
    BY <2>1, <2>4, RoundOfAll DEF RoundsOf, Keeps
  <2> QED BY <1>3, <2>1, <2>5 DEF Compact
<1> QED BY <1>2, <1>3

-----------------------------------------------------------------------------
(* Sizes. *)

LEMMA BytesIsNat ==
  ASSUME NEW msgs \in Seq(Messages)
  PROVE  Bytes(msgs) \in Nat
<1> DEFINE D == DOMAIN msgs
           some(s) == CHOOSE x \in s : TRUE
           value(f, s) == IF s = {} THEN 0 ELSE AddBytes(msgs[some(s)], f[s \ {some(s)}])
           Is(f) == f = [s \in SUBSET D |-> value(f, s)]
           iter == CHOOSE f : Is(f)
           size == [i \in D |-> msgs[i].size + msgs[i].args]
<1>1. Bytes(msgs) = iter[D]
  BY DEF Bytes, FoldSeq, FoldFunction, FoldFunctionOnSet, MapThenFoldSet
<1>2. PICK n \in Nat : n = Len(msgs) /\ D = 1..n
  OBVIOUS
<1>3. size \in [1..n -> Nat]
  BY <1>2, MessageFields
<1>4. \A s \in SUBSET D : s # {} => some(s) \in D
  OBVIOUS
<1>5. \A f : \A s \in SUBSET D : s # {} /\ f[s \ {some(s)}] \in Nat =>
        value(f, s) = f[s \ {some(s)}] + size[some(s)]
  <2> SUFFICES ASSUME NEW f, NEW s \in SUBSET D, s # {}, f[s \ {some(s)}] \in Nat
               PROVE  value(f, s) = f[s \ {some(s)}] + size[some(s)]
    OBVIOUS
  <2>1. PICK i \in D : i = some(s)
    BY <1>4
  <2>2. size[i] = msgs[i].size + msgs[i].args /\ msgs[i].size \in Nat /\ msgs[i].args \in Nat
    BY MessageFields
  <2>3. PICK m \in Nat : m = f[s \ {some(s)}]
    OBVIOUS
  <2>4. AddBytes(msgs[i], m) = m + size[i]
    BY <2>2, <2>3 DEF AddBytes
  <2> QED BY <2>1, <2>3, <2>4
<1>6. \E f : Is(f)
  <2>1. PICK f \in [SUBSET (1..n) -> Nat] : \A s \in SUBSET (1..n) :
           f[s] = IF s = {} THEN 0
                  ELSE f[s \ {CHOOSE x \in s : TRUE}] + size[CHOOSE x \in s : TRUE]
    <3> HIDE DEF size
    <3> QED BY <1>3, SumExists
  <2>2. \A s \in SUBSET D : f[s] = value(f, s)
    <3> SUFFICES ASSUME NEW s \in SUBSET D PROVE f[s] = value(f, s)
      OBVIOUS
    <3>1. CASE s = {}
      BY <1>2, <2>1, <3>1
    <3>2. CASE s # {}
      <4>1. f[s] = f[s \ {some(s)}] + size[some(s)]
        BY <1>2, <2>1, <3>2
      <4>2. f[s \ {some(s)}] \in Nat
        BY <1>2, <2>1
      <4> HIDE DEF value, some, size
      <4> QED BY <1>5, <3>2, <4>1, <4>2
    <3> QED BY <3>1, <3>2
  <2>3. f = [s \in SUBSET D |-> value(f, s)]
    BY <1>2, <2>2
  <2> QED BY <2>3
<1>7. Is(iter)
  BY <1>6
<1>8. \A s \in SUBSET D : iter[s] = value(iter, s)
  BY <1>7
<1> HIDE DEF iter
<1>9. iter[{}] = 0
  BY <1>8
<1>10. \A s \in SUBSET (1..n) :
         s # {} /\ iter[s \ {CHOOSE x \in s : TRUE}] \in Nat =>
           iter[s] = iter[s \ {CHOOSE x \in s : TRUE}] + size[CHOOSE x \in s : TRUE]
  <2> SUFFICES ASSUME NEW s \in SUBSET D, s # {}, iter[s \ {some(s)}] \in Nat
               PROVE  iter[s] = iter[s \ {some(s)}] + size[some(s)]
    BY <1>2
  <2>1. iter[s] = value(iter, s)
    BY <1>8
  <2>2. value(iter, s) = iter[s \ {some(s)}] + size[some(s)]
    <3> HIDE DEF value, some, size
    <3> QED BY <1>5
  <2> QED BY <2>1, <2>2
<1>11. iter[1..n] \in Nat
  <2> HIDE DEF size
  <2> QED BY <1>3, <1>9, <1>10, SumIsNat
<1> QED BY <1>1, <1>2, <1>11

-----------------------------------------------------------------------------
(* What was counted once is not sent again. *)

LEMMA MaxOfTwo ==
  ASSUME NEW a \in Int, NEW b \in Int
  PROVE  Max({a, b}) \in {a, b} /\ Max({a, b}) >= a /\ Max({a, b}) >= b
<1>1. \E x \in {a, b} : \A y \in {a, b} : x >= y
  <2>1. CASE a >= b
    BY <2>1
  <2>2. CASE ~ (a >= b)
    BY <2>2
  <2> QED BY <2>1, <2>2
<1> QED BY <1>1 DEF Max

LEMMA ThresholdIsPositive == Threshold \in Nat /\ Threshold >= 1
<1>1. PICK x \in Int : x = (8 * ContextWindow) \div 10 - ReserveTokens
  BY CompactorAssumption
<1>2. PICK t \in Int : t = Max({x, 1}) /\ t >= 1
  <2>1. Max({x, 1}) \in {x, 1} /\ Max({x, 1}) >= 1
    BY MaxOfTwo
  <2> QED BY <2>1
<1> QED BY <1>1, <1>2 DEF Threshold

\* A request of the size of the one that reached the threshold does not pass.
LEMMA OverfullIsNotCalm ==
  ASSUME watermark \in Nat, baselineChars \in Nat, tokensPerChar \in Nat,
         watermark >= Threshold,
         NEW msgs, Bytes(msgs) \in Nat, Bytes(msgs) >= baselineChars
  PROVE  ~ Calm(msgs)
<1>1. \A c \in Nat : Tokens(c) \in Nat
  <2> SUFFICES ASSUME NEW c \in Nat PROVE Tokens(c) \in Nat
    OBVIOUS
  <2>1. PICK n \in Nat : n = c * tokensPerChar
    OBVIOUS
  <2>2. n \div 1000 \in Nat
    OBVIOUS
  <2> QED BY <2>1, <2>2 DEF Tokens
<1>2. PICK chars \in Nat : chars = Bytes(msgs)
  OBVIOUS
<1>3. PICK a \in Nat, b \in Nat : a = Tokens(chars) /\ b = Tokens(chars - baselineChars)
  BY <1>1, <1>2
<1>4. watermark > 0
  BY ThresholdIsPositive
<1>5. Project(chars) = Max({a, watermark + b})
  BY <1>3, <1>4 DEF Project
<1>6. Project(chars) \in Nat /\ Project(chars) >= watermark
  <2>1. PICK c \in Nat : c = watermark + b
    OBVIOUS
  <2>2. Max({a, c}) \in {a, c} /\ Max({a, c}) >= c
    BY MaxOfTwo
  <2>3. PICK p \in Nat : p = Max({a, c}) /\ p >= c
    BY <2>2
  <2> QED BY <1>5, <2>1, <2>3
<1> QED BY <1>2, <1>6, ThresholdIsPositive DEF Calm

\* Two rounds with the smallest budget leave nothing to shorten.
LEMMA TwoRoundsDegrade ==
  ASSUME NEW a \in Seq(Messages)
  PROVE  FullyDegraded(Degraded(Degraded(a, 250), 250))
<1> DEFINE b == Degraded(a, 250)
           c == Degraded(b, 250)
<1>1. AllFit(a, a, 250)
  BY SelfFits
<1>2. AllFit(a, b, 250)
  BY <1>1, RoundOfAll DEF Keeps
<1>3. b \in Seq(Messages) /\ Len(b) = Len(a)
  BY <1>2 DEF AllFit
<1>4. AllFit(b, b, 250)
  BY <1>3, SelfFits
<1> HIDE DEF b
<1>5. AllFit(b, c, 250)
  BY <1>3, <1>4, RoundOfAll DEF Keeps
<1>6. c \in Seq(Messages) /\ Len(c) = Len(b) /\ DOMAIN c = DOMAIN b /\ DOMAIN a = DOMAIN b
  BY <1>3, <1>5 DEF AllFit
<1> HIDE DEF c
<1> SUFFICES ASSUME NEW i \in DOMAIN c
             PROVE  /\ c[i].kind \in {"tool", "reply"} /\ ~ Recent(c, i) => c[i].size <= farHistoryMaskChars
                    /\ c[i].kind = "tool" /\ Recent(c, i) =>
                         c[i].size <= minTruncateKeep + CutSize(c[i].size)
  BY DEF FullyDegraded, b, c
<1>7. /\ a[i] \in Messages /\ b[i] \in Messages /\ c[i] \in Messages
      /\ i \in DOMAIN a /\ i \in DOMAIN b /\ i \in Int
  BY <1>3, <1>6
<1>8. c[i].kind = b[i].kind /\ b[i].kind = a[i].kind
  BY <1>2, <1>5, <1>6 DEF AllFit, Fits
<1>9. /\ Far(a, i) <=> Far(b, i)
      /\ Recent(c, i) <=> ~ Far(b, i)
  <2>1. PICK n \in Nat : n = Len(a) /\ n = Len(b) /\ n = Len(c)
    BY <1>3, <1>6
  <2> QED BY <1>7, <2>1, CompactorAssumption DEF Far, Recent
<1>10. a[i].size \in Nat /\ b[i].size \in Nat /\ c[i].size \in Nat
  BY <1>7, MessageFields
<1>11. CASE c[i].kind = "reply" /\ Far(b, i)
  <2>1. c[i] = IF b[i].size > 200 THEN Fold(b[i]) ELSE b[i]
    BY <1>3, <1>7, <1>8, <1>11, RoundOfOne DEF c, farHistoryMaskChars
  <2>2. c[i].size <= 200
    <3>1. CASE b[i].size > 200
      <4>1. c[i] = Fold(b[i])
        BY <2>1, <3>1
      <4>2. c[i].size = 44
        BY <1>7, <4>1, FoldFacts
      <4> QED BY <4>2
    <3>2. CASE ~ (b[i].size > 200)
      BY <1>10, <2>1, <3>2
    <3> QED BY <3>1, <3>2
  <2> QED BY <1>9, <1>11, <2>2 DEF farHistoryMaskChars
<1>12. CASE c[i].kind = "tool" /\ Far(b, i)
  <2>1. c[i] = IF b[i].size > 200 THEN Mask(b[i]) ELSE b[i]
    BY <1>3, <1>7, <1>8, <1>12, RoundOfOne DEF c, farHistoryMaskChars
  <2>2. c[i].size <= 200
    <3>1. CASE b[i].size > 200
      <4>1. c[i] = Mask(b[i])
        BY <2>1, <3>1
      <4>2. c[i].size <= 90
        BY <1>7, <4>1, MaskFacts
      <4> QED BY <1>10, <4>2
    <3>2. CASE ~ (b[i].size > 200)
      BY <1>10, <2>1, <3>2
    <3> QED BY <3>1, <3>2
  <2> QED BY <1>9, <1>12, <2>2 DEF farHistoryMaskChars
<1>13. CASE c[i].kind = "tool" /\ ~ Far(b, i)
  <2>1. b[i] = IF a[i].size > 250 THEN Cut(a[i], 250) ELSE a[i]
    BY <1>7, <1>8, <1>9, <1>13, RoundOfOne DEF b
  <2>2. b[i].size <= 301
    <3>1. CASE a[i].size > 250
      <4>1. PICK x \in Int : x = a[i].size - 250
        BY <1>10
      <4>2. b[i].size <= 250 + CutSize(x)
        BY <1>7, <2>1, <3>1, <4>1, CutFacts DEF Keeps
      <4>3. CutSize(x) \in Nat /\ CutSize(x) <= 51
        BY CutSizeFacts
      <4> QED BY <1>10, <4>2, <4>3
    <3>2. CASE ~ (a[i].size > 250)
      BY <1>10, <2>1, <3>2
    <3> QED BY <3>1, <3>2
  <2>3. c[i] = IF b[i].size > 250 THEN Cut(b[i], 250) ELSE b[i]
    BY <1>3, <1>7, <1>8, <1>13, RoundOfOne DEF c
  <2>4. PICK s \in Nat : s = c[i].size
    BY <1>10
  <2>5. s <= 250 + CutSize(s)
    <3>1. CASE b[i].size > 250
      <4>1. PICK x \in Int : x = b[i].size - 250 /\ x <= 51 /\ x > 0
        BY <1>10, <2>2, <3>1
      <4>2. c[i].size <= 250 + CutSize(x) /\ c[i].size >= CutSize(x)
        BY <1>7, <2>3, <3>1, <4>1, CutFacts DEF Keeps
      <4>3. CutSize(x) \in Nat /\ CutSize(x) >= 48 /\ CutSize(x) <= 49
        BY <4>1 DEF CutSize, Digits
      <4>4. CutSize(s) \in Nat /\ CutSize(s) >= 49
        <5>1. s >= 10
          BY <2>4, <4>2, <4>3
        <5> QED BY <5>1 DEF CutSize, Digits
      <4> QED BY <2>4, <4>2, <4>3, <4>4
    <3>2. CASE ~ (b[i].size > 250)
      <4>1. s <= 250
        BY <1>10, <2>3, <2>4, <3>2
      <4>2. CutSize(s) \in Nat
        BY CutSizeFacts
      <4> QED BY <4>1, <4>2
    <3> QED BY <3>1, <3>2
  <2> QED BY <1>9, <1>13, <2>4, <2>5 DEF minTruncateKeep
<1> QED BY <1>9, <1>11, <1>12, <1>13

LEMMA CompactShrinks ==
  ASSUME watermark \in Nat, baselineChars \in Nat, tokensPerChar \in Nat,
         watermark >= Threshold,
         NEW msgs \in Seq(Messages), Bytes(Compact(msgs)) >= baselineChars
  PROVE  FullyDegraded(Compact(msgs))
<1>1. \A a \in Seq(Messages) : Bytes(a) >= baselineChars => ~ Calm(a)
  BY BytesIsNat, OverfullIsNotCalm
<1>2. CASE Calm(msgs)
  <2>1. Compact(msgs) = msgs
    BY <1>2 DEF Compact, Calm
  <2> QED BY <1>1, <1>2, <2>1
<1>3. CASE ~ Calm(msgs)
  <2>1. PICK a1, a2, a3, a4 : RoundsOf(msgs, a1, a2, a3, a4) /\ Rounds(msgs) = a4
    BY RoundsUnrolled
  <2>2. Compact(msgs) = a4
    BY <1>3, <2>1 DEF Compact, Calm
  <2>3. AllFit(msgs, a1, 1000)
    BY <2>1, SelfFits, RoundOfAll DEF RoundsOf, Keeps
  <2>4. AllFit(msgs, a2, 500)
    BY <2>1, <2>3, RoundOfAll, FitsLater DEF RoundsOf, Keeps
  <2>5. AllFit(msgs, a3, 250)
    BY <2>1, <2>4, RoundOfAll, FitsLater DEF RoundsOf, Keeps
  <2>6. a2 \in Seq(Messages) /\ a3 \in Seq(Messages)
    BY <2>4, <2>5 DEF AllFit
  <2>7. ~ Calm(a3)
    BY <1>1, <2>1, <2>2, <2>6 DEF RoundsOf
  <2>8. a3 = Degraded(a2, 250) /\ a4 = Degraded(a3, 250)
    BY <2>1, <2>7 DEF RoundsOf
  <2> QED BY <2>2, <2>6, <2>8, TwoRoundsDegrade
<1> QED BY <1>2, <1>3

-----------------------------------------------------------------------------
(* Behaviours. *)

WholeMessages == {m \in Messages : m.form = "whole"}

\* What is in flight fits what it was made of.
SentInv == InFlight => AllFit(asked, request, 250)

CompactInv == TypeOK /\ PairedInv /\ SentInv /\ OverfullRequestsShrink

LEMMA MessageIsWhole ==
  ASSUME NEW kind \in {"system", "user", "tool", "reply"}, NEW n \in Nat, NEW k \in Nat
  PROVE  Message(kind, n, k) \in WholeMessages
  BY DEF Message, WholeMessages, Messages

LEMMA HistoryIsWhole ==
  ASSUME NEW past \in Seq(WholeMessages)
  PROVE  /\ <<System>> \o past \in Seq(WholeMessages)
         /\ <<System>> \o past \in Seq(Messages)
<1>1. System \in WholeMessages
  BY MessageIsWhole, CompactorAssumption DEF System
<1>2. <<System>> \in Seq(WholeMessages)
  BY <1>1
<1>3. <<System>> \o past \in Seq(WholeMessages)
  BY <1>2, ConcatProperties
<1>4. WholeMessages \subseteq Messages
  BY DEF WholeMessages
<1> QED BY <1>3, <1>4

LEMMA AppendedIsWhole ==
  ASSUME history \in Seq(WholeMessages), NEW msgs \in Seq(WholeMessages), Appended(msgs)
  PROVE  history' \in Seq(WholeMessages)
  BY ConcatProperties DEF Appended

ReadingsTyped ==
  /\ watermark \in Nat /\ baselineChars \in Nat /\ tokensPerChar \in Nat
  /\ served \in [chars : Nat, tokens : Nat]

Phases == {"ended", "idle", "think", "thought", "act", "tools", "told", "final"}

LEMMA TypeParts ==
  TypeOK <=> /\ history \in Seq(WholeMessages) /\ request \in Seq(Messages)
             /\ asked \in Seq(Messages) /\ callers \in Nat /\ phase \in Phases
             /\ sentChars \in Nat /\ ReadingsTyped
  BY DEF TypeOK, WholeMessages, ReadingsTyped, Phases

\* Observe never leaves a negative reading.
LEMMA ObserveTypes ==
  ASSUME ReadingsTyped, sentChars \in Nat, request \in Seq(Messages), NEW t \in Usages, Observe(t)
  PROVE  ReadingsTyped'
<1>1. t \in Int
  BY CompactorAssumption
<1>2. CASE t <= 0
  BY <1>2 DEF Observe, readings, ReadingsTyped
<1>3. CASE ~ (t <= 0)
  <2>1. t \in Nat
    BY <1>1, <1>3
  <2>2. /\ watermark' = t /\ baselineChars' = sentChars
        /\ served' = [chars |-> Bytes(request), tokens |-> t]
        /\ tokensPerChar' = IF sentChars = 0 THEN tokensPerChar
                            ELSE (3 * ((1000 * t) \div sentChars) + 7 * tokensPerChar) \div 10
    BY <1>3 DEF Observe
  <2>3. tokensPerChar' \in Nat
    <3>1. CASE sentChars = 0
      BY <2>2, <3>1 DEF ReadingsTyped
    <3>2. CASE sentChars # 0
      <4>1. PICK n \in Nat : n = 1000 * t
        BY <2>1
      <4>2. PICK d \in Nat \ {0} : d = sentChars
        BY <3>2
      <4>3. PICK r \in Nat : r = n \div d
        OBVIOUS
      <4>4. PICK c \in Nat : c = tokensPerChar
        BY DEF ReadingsTyped
      <4>5. (3 * r + 7 * c) \div 10 \in Nat
        OBVIOUS
      <4> QED BY <2>2, <3>2, <4>1, <4>2, <4>3, <4>4, <4>5
    <3> QED BY <3>1, <3>2
  <2>4. Bytes(request) \in Nat
    BY BytesIsNat
  <2> QED BY <2>1, <2>2, <2>3, <2>4 DEF ReadingsTyped
<1> QED BY <1>2, <1>3

\* A request that is sent fits, and is smaller than the one that reached the
\* threshold if there was something to shorten.
LEMMA SendKeeps ==
  ASSUME CompactInv, Send, UNCHANGED <<history, callers, readings>>,
         phase' \in {"think", "act", "final"}
  PROVE  CompactInv'
<1>1. /\ ReadingsTyped /\ ReadingsArePaired
      /\ history \in Seq(WholeMessages) /\ callers \in Nat
  BY TypeParts DEF CompactInv, PairedInv
<1>2. /\ watermark' = watermark /\ baselineChars' = baselineChars
      /\ tokensPerChar' = tokensPerChar /\ served' = served
  BY DEF readings
<1>3. PICK msgs \in Seq(Messages) : msgs = <<System>> \o history
  BY <1>1, HistoryIsWhole
<1>4. asked' = msgs /\ request' = Compact(msgs) /\ sentChars' = Bytes(Compact(msgs))
  BY <1>3 DEF Send, Measure
<1>5. AllFit(msgs, Compact(msgs), 250)
  BY CompactFits
<1>6. request' \in Seq(Messages)
  BY <1>4, <1>5 DEF AllFit
<1>7. sentChars' \in Nat
  BY <1>4, <1>6, BytesIsNat
<1>8. ReadingsTyped'
  BY <1>1, <1>2 DEF ReadingsTyped
<1>9. TypeOK'
  <2>1. phase' \in Phases
    BY DEF Phases
  <2>2. asked' \in Seq(Messages) /\ callers' \in Nat /\ history' \in Seq(WholeMessages)
    BY <1>1, <1>4
  <2> QED BY <1>6, <1>7, <1>8, <2>1, <2>2 DEF TypeOK, ReadingsTyped, WholeMessages, Phases
<1>10. PairedInv'
  BY <1>1, <1>2, <1>4 DEF PairedInv, ReadingsArePaired, Measured
<1>11. SentInv'
  BY <1>4, <1>5 DEF SentInv
<1>12. OverfullRequestsShrink'
  <2> SUFFICES ASSUME served.tokens >= Threshold, ~ (Bytes(request') < served.chars)
               PROVE  FullyDegraded(request')
    BY <1>2 DEF OverfullRequestsShrink
  <2>1. watermark = served.tokens /\ baselineChars = served.chars
    BY <1>1 DEF ReadingsArePaired
  <2>2. watermark \in Nat /\ baselineChars \in Nat /\ tokensPerChar \in Nat
    BY <1>1 DEF ReadingsTyped
  <2>3. Bytes(Compact(msgs)) >= baselineChars
    BY <1>4, <1>7, <2>1, <2>2
  <2> QED BY <1>4, <2>1, <2>2, <2>3, CompactShrinks
<1> QED BY <1>9, <1>10, <1>11, <1>12 DEF CompactInv

\* A step that sends nothing and leaves nothing in flight.
LEMMA RestKeeps ==
  ASSUME CompactInv, PairedInv', history' \in Seq(WholeMessages), UNCHANGED <<callers, sending>>,
         ReadingsTyped', phase' \in {"ended", "idle", "thought", "tools", "told"}
  PROVE  CompactInv'
<1>1. TypeOK'
  <2>1. phase' \in Phases
    BY DEF Phases
  <2>2. /\ request' \in Seq(Messages) /\ sentChars' \in Nat
        /\ asked' \in Seq(Messages) /\ callers' \in Nat
    BY TypeParts DEF CompactInv, sending
  <2> QED BY <2>1, <2>2 DEF TypeOK, ReadingsTyped, WholeMessages, Phases
<1>2. ~ InFlight'
  BY DEF InFlight
<1> QED BY <1>1, <1>2 DEF CompactInv, SentInv, OverfullRequestsShrink

\* A step of somebody else leaves what is in flight as it is.
LEMMA AsideKeeps ==
  ASSUME CompactInv, PairedInv', history' \in Seq(WholeMessages), callers' \in Nat,
         UNCHANGED <<sending, readings>>, phase' \in Phases, InFlight' => InFlight
  PROVE  CompactInv'
<1>1. /\ request' = request /\ asked' = asked /\ sentChars' = sentChars
      /\ watermark' = watermark /\ baselineChars' = baselineChars
      /\ tokensPerChar' = tokensPerChar /\ served' = served
  BY DEF sending, readings
<1>2. TypeOK'
  <2>1. /\ request \in Seq(Messages) /\ sentChars \in Nat /\ asked \in Seq(Messages)
        /\ ReadingsTyped
    BY TypeParts DEF CompactInv
  <2> QED BY <1>1, <2>1 DEF TypeOK, ReadingsTyped, WholeMessages, Phases
<1>3. SentInv'
  BY <1>1 DEF CompactInv, SentInv
<1>4. OverfullRequestsShrink'
  BY <1>1 DEF CompactInv, OverfullRequestsShrink
<1> QED BY <1>2, <1>3, <1>4 DEF CompactInv

LEMMA InitCompact == Init => CompactInv
<1> SUFFICES ASSUME Init PROVE CompactInv
  OBVIOUS
<1>1. TypeOK
  BY DEF Init, TypeOK, defaultTokensPerChar
<1>2. ~ InFlight
  BY DEF Init, InFlight
<1> QED BY <1>1, <1>2, PairedInit DEF CompactInv, SentInv, OverfullRequestsShrink

LEMMA CompactStep == CompactInv /\ [Next]_vars => CompactInv'
<1> SUFFICES ASSUME CompactInv, [Next]_vars PROVE CompactInv'
  OBVIOUS
<1>0. /\ history \in Seq(WholeMessages) /\ request \in Seq(Messages) /\ sentChars \in Nat
      /\ ReadingsTyped /\ PairedInv /\ PairedInv' /\ callers \in Nat /\ phase \in Phases
  BY TypeParts, PairedStep DEF CompactInv
<1>1. \A n \in PromptSizes \cup ReplySizes \cup ToolSizes \cup ArgSizes : n \in Nat
  BY CompactorAssumption
<1>2. ASSUME UNCHANGED readings PROVE ReadingsTyped'
  BY <1>0, <1>2 DEF readings, ReadingsTyped
<1>3. CASE Prompt
  <2>1. PICK n \in Nat : Appended(<<Message("user", n, 0)>>)
    BY <1>1, <1>3 DEF Prompt
  <2>2. <<Message("user", n, 0)>> \in Seq(WholeMessages)
    BY MessageIsWhole
  <2>3. history' \in Seq(WholeMessages)
    BY <1>0, <2>1, <2>2, AppendedIsWhole
  <2>4. callers' \in Nat /\ UNCHANGED <<phase, sending, readings>>
    BY <1>0, <1>3 DEF Prompt
  <2>5. InFlight' <=> InFlight
    BY <2>4 DEF InFlight
  <2> QED BY <1>0, <2>3, <2>4, <2>5, AsideKeeps
<1>4. CASE Think
  BY <1>0, <1>4, SendKeeps DEF Think
<1>5. CASE Thought
  <2>1. PICK t \in Usages : Observe(t)
    BY <1>5 DEF Thought
  <2>2. ReadingsTyped'
    BY <1>0, <2>1, ObserveTypes
  <2> QED BY <1>0, <1>5, <2>2, RestKeeps DEF Thought
<1>6. CASE Act
  BY <1>0, <1>6, SendKeeps DEF Act
<1>7. CASE Acted
  <2>1. PICK t \in Usages : Observe(t)
    BY <1>7 DEF Acted
  <2>2. ReadingsTyped'
    BY <1>0, <2>1, ObserveTypes
  <2>3. PICK n \in Nat, a \in Nat : Appended(<<Message("reply", n, a)>>)
    BY <1>1, <1>7 DEF Acted
  <2>4. <<Message("reply", n, a)>> \in Seq(WholeMessages)
    BY MessageIsWhole
  <2>5. history' \in Seq(WholeMessages)
    BY <1>0, <2>3, <2>4, AppendedIsWhole
  <2>6. phase' \in {"ended", "tools"} /\ UNCHANGED <<callers, sending>>
    BY <1>7 DEF Acted
  <2> QED BY <1>0, <2>2, <2>5, <2>6, RestKeeps
<1>8. CASE Results
  <2>1. PICK n \in Nat, m \in Nat, reminder \in Reminders :
          \/ Appended(<<Message("tool", n, 0)>> \o reminder)
          \/ Appended(<<Message("tool", n, 0), Message("tool", m, 0)>> \o reminder)
    BY <1>1, <1>8 DEF Results
  <2>2. Message("tool", n, 0) \in WholeMessages /\ Message("tool", m, 0) \in WholeMessages
    BY MessageIsWhole
  <2>3. reminder \in Seq(WholeMessages)
    <3>1. CASE reminder = <<>>
      BY <3>1
    <3>2. CASE reminder # <<>>
      <4>1. PICK k \in Nat : reminder = <<Message("user", k, 0)>>
        BY <1>1, <3>2 DEF Reminders
      <4>2. PICK x \in WholeMessages : x = Message("user", k, 0)
        BY MessageIsWhole
      <4> QED BY <4>1, <4>2
    <3> QED BY <3>1, <3>2
  <2>4. PICK msgs \in Seq(WholeMessages) : Appended(msgs)
    <3>1. PICK x \in WholeMessages, y \in WholeMessages :
            x = Message("tool", n, 0) /\ y = Message("tool", m, 0)
      BY <2>2
    <3>2. <<x>> \in Seq(WholeMessages) /\ <<x, y>> \in Seq(WholeMessages)
      OBVIOUS
    <3>3. <<x>> \o reminder \in Seq(WholeMessages) /\ <<x, y>> \o reminder \in Seq(WholeMessages)
      BY <2>3, <3>2, ConcatProperties
    <3> QED BY <2>1, <3>1, <3>3
  <2>5. history' \in Seq(WholeMessages)
    BY <1>0, <2>4, AppendedIsWhole
  <2> QED BY <1>0, <1>2, <1>8, <2>5, RestKeeps DEF Results
<1>9. CASE Conclude
  <2>1. PICK n \in Nat : Appended(<<Message("user", n, 0)>>)
    BY <1>1, <1>9 DEF Conclude
  <2>2. <<Message("user", n, 0)>> \in Seq(WholeMessages)
    BY MessageIsWhole
  <2>3. history' \in Seq(WholeMessages)
    BY <1>0, <2>1, <2>2, AppendedIsWhole
  <2> QED BY <1>0, <1>2, <1>9, <2>3, RestKeeps DEF Conclude
<1>10. CASE Concluded
  <2>1. PICK n \in Nat : Appended(<<Message("reply", n, 0)>>)
    BY <1>1, <1>10 DEF Concluded
  <2>2. <<Message("reply", n, 0)>> \in Seq(WholeMessages)
    BY MessageIsWhole
  <2>3. history' \in Seq(WholeMessages)
    BY <1>0, <2>1, <2>2, AppendedIsWhole
  <2> QED BY <1>0, <1>2, <1>10, <2>3, RestKeeps DEF Concluded
<1>11. CASE Lost
  BY <1>0, <1>2, <1>11, RestKeeps DEF Lost
<1>12. CASE UNCHANGED vars
  <2>1. UNCHANGED <<history, phase, callers, sending, readings>>
    BY <1>12 DEF vars, sending, readings
  <2>2. InFlight' <=> InFlight
    BY <2>1 DEF InFlight
  <2> QED BY <1>0, <2>1, <2>2, AsideKeeps
<1>13. CASE Start
  <2>1. callers' \in Nat /\ UNCHANGED <<history, sending, readings>>
    BY <1>0, <1>13 DEF Start
  <2>2. phase' \in Phases /\ (InFlight' => InFlight)
    BY <1>0, <1>13 DEF Start, Phases, InFlight
  <2> QED BY <1>0, <2>1, <2>2, AsideKeeps
<1>14. CASE AskFinal
  BY <1>14, SendKeeps DEF AskFinal
<1> QED BY <1>3, <1>4, <1>5, <1>6, <1>7, <1>8, <1>9, <1>10, <1>11, <1>12, <1>13, <1>14 DEF Next

LEMMA CompactAlways == Spec => []CompactInv
  BY InitCompact, CompactStep, PTL DEF Spec

\* The readings stay natural numbers whatever a provider reports, and the
\* session's own messages are never the degraded ones.
THEOREM CompactorTyping == Spec => []TypeOK
<1>1. CompactInv => TypeOK
  BY DEF CompactInv
<1> QED BY <1>1, CompactAlways, PTL

\* Once a request has been counted at or above the threshold, the next is
\* smaller or has nothing left to shorten, for any window, reserve and usage.
THEOREM OverfullShrink == Spec => []OverfullRequestsShrink
<1>1. CompactInv => OverfullRequestsShrink
  BY DEF CompactInv
<1> QED BY <1>1, CompactAlways, PTL

LEMMA FitIsBulk ==
  ASSUME TypeOK, SentInv
  PROVE  OnlyBulkIsLost
<1> SUFFICES ASSUME InFlight PROVE OnlyBulkIsLost
  BY DEF OnlyBulkIsLost
<1>1. PICK msgs \in Seq(Messages) : msgs = asked
  BY TypeParts
<1>2. AllFit(msgs, request, 250)
  BY <1>1 DEF SentInv
<1>3. Len(request) = Len(msgs)
  BY <1>2 DEF AllFit
<1>4. ASSUME NEW i \in DOMAIN msgs
      PROVE  LET was == msgs[i]  is == request[i] IN
             /\ is.kind = was.kind /\ is.args = was.args
             /\ was.kind \in {"system", "user"} => is = was
             /\ was.kind = "reply" /\ Recent(msgs, i) => is = was
             /\ was.kind = "tool" /\ Recent(msgs, i) =>
                  \/ is = was
                  \/ is.form = "cut" /\ is.head > (minTruncateKeep \div 2) - CharWidth
             /\ \/ is.size <= was.size
                \/ is.form = "cut" /\ is.size < was.size + CutSize(was.size)
  <2>1. Fits(msgs[i], request[i], Far(msgs, i), 250)
    BY <1>2 DEF AllFit
  <2>2. Recent(msgs, i) <=> ~ Far(msgs, i)
    <3>1. i \in Int /\ Len(msgs) \in Int
      OBVIOUS
    <3> QED BY <3>1, CompactorAssumption DEF Recent, Far
  <2>3. msgs[i].kind \in {"system", "user", "tool", "reply"} /\ msgs[i].size \in Nat
    BY MessageFields
  <2> QED BY <2>1, <2>2, <2>3 DEF Fits
<1> QED BY <1>1, <1>3, <1>4 DEF OnlyBulkIsLost

\* Whatever the rounds do, a request has every message it was made of in its
\* place, and only long results and old replies lose anything.
THEOREM BulkAlone == Spec => []OnlyBulkIsLost
<1>1. CompactInv => OnlyBulkIsLost
  BY FitIsBulk DEF CompactInv
<1> QED BY <1>1, CompactAlways, PTL

=============================================================================
