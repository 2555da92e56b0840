--------------------------- MODULE ToolBatchProofs ---------------------------
(***************************************************************************)
(* Proofs about ToolBatch for any calls, tools, texts and workspaces: the  *)
(* types, that the injector counts exactly, that the writes of a batch     *)
(* leave whole files, and that an edit alone in its file is local.         *)
(***************************************************************************)
EXTENDS ToolBatch, NaturalFacts, SequenceTheorems

-----------------------------------------------------------------------------
(* Texts. *)

LEMMA StepwiseText ==
  ASSUME NEW L \in Nat, NEW e \in Text, NEW step \in [(1..L) \X Text -> Text]
  PROVE  \E f \in [0..L -> Text] : f[0] = e /\ \A k \in 1..L : f[k] = step[<<k, f[k - 1]>>]
  BY StepwiseExists

LEMMA CharacterAppended ==
  ASSUME NEW s \in Text, NEW c \in STRING
  PROVE  Append(s, c) \in Text
  BY AppendProperties DEF Text

\* The text that is left is built character by character.
LEMMA DropUnfolds ==
  ASSUME NEW t \in Text, NEW places
  PROVE  \E upTo \in [0..Len(t) -> Text] :
           /\ Drop(t, places) = upTo[Len(t)]
           /\ upTo[0] = <<>>
           /\ \A n \in 1..Len(t) :
                upTo[n] = IF n \in places THEN upTo[n - 1] ELSE Append(upTo[n - 1], t[n])
<1>0. PICK L \in Nat : L = Len(t)
  BY DEF Text
<1> DEFINE value(f, n) == IF n = 0 THEN <<>>
                          ELSE IF n \in places THEN f[n - 1] ELSE Append(f[n - 1], t[n])
           Is(f) == f = [n \in 0..L |-> value(f, n)]
           upTo == CHOOSE f : Is(f)
<1>1. /\ \A n \in 1..L : t[n] \in STRING
      /\ \A s \in Text, c \in STRING : Append(s, c) \in Text
      /\ <<>> \in Text
  <2>1. t \in Seq(STRING)
    BY DEF Text
  <2>2. \A n \in 1..L : t[n] \in STRING
    BY <1>0, <2>1
  <2>3. <<>> \in Text
    BY DEF Text
  <2> QED BY <2>2, <2>3, CharacterAppended
<1>2. \E f : Is(f)
  <2> DEFINE step == [p \in (1..L) \X Text |->
                        IF p[1] \in places THEN p[2] ELSE Append(p[2], t[p[1]])]
  <2>1. step \in [(1..L) \X Text -> Text]
    <3>1. ASSUME NEW p \in (1..L) \X Text
          PROVE  (IF p[1] \in places THEN p[2] ELSE Append(p[2], t[p[1]])) \in Text
      <4>1. p[1] \in 1..L /\ p[2] \in Text
        OBVIOUS
      <4> QED BY <1>1, <4>1
    <3> QED BY <3>1
  <2>3. PICK f \in [0..L -> Text] : f[0] = <<>> /\ \A k \in 1..L : f[k] = step[<<k, f[k - 1]>>]
    <3> HIDE DEF step
    <3> QED BY <1>1, <2>1, StepwiseText
  <2>4. \A n \in 0..L : f[n] = value(f, n)
    <3> SUFFICES ASSUME NEW n \in 0..L PROVE f[n] = value(f, n)
      OBVIOUS
    <3>1. CASE n = 0
      BY <2>3, <3>1
    <3>2. CASE n # 0
      <4>1. n \in 1..L /\ n - 1 \in 0..L /\ f[n - 1] \in Text
        BY <1>1, <3>2
      <4>2. f[n] = step[<<n, f[n - 1]>>]
        BY <2>3, <4>1
      <4>3. step[<<n, f[n - 1]>>] = value(f, n)
        BY <3>2, <4>1
      <4> QED BY <4>2, <4>3
    <3> QED BY <3>1, <3>2
  <2>5. f = [n \in 0..L |-> value(f, n)]
    BY <2>4
  <2> QED BY <2>5
<1>3. Is(upTo)
  BY <1>2
<1>4. \A n \in 0..L : upTo[n] = value(upTo, n)
  BY <1>3
<1>5. upTo[0] = <<>>
  BY <1>4
<1>6. ASSUME NEW n \in 1..L
      PROVE  upTo[n] = IF n \in places THEN upTo[n - 1] ELSE Append(upTo[n - 1], t[n])
  <2>1. upTo[n] = value(upTo, n) /\ n # 0
    BY <1>4
  <2> QED BY <2>1
<1>7. DOMAIN upTo = 0..L /\ upTo = [n \in 0..L |-> upTo[n]]
  BY <1>3
<1>8. Drop(t, places) = upTo[L]
  BY <1>0 DEF Drop, upTo
<1> HIDE DEF upTo
<1> DEFINE S == {n \in 0..L : upTo[n] \in Text}
<1>9. 0 \in S
  BY <1>1, <1>5
<1>10. ASSUME NEW n \in 1..L, n - 1 \in S PROVE n \in S
  <2>1. upTo[n - 1] \in Text /\ Append(upTo[n - 1], t[n]) \in Text
    BY <1>1, <1>10
  <2> QED BY <1>6, <2>1
<1>11. \A n \in 0..L : n \in S
  <2> HIDE DEF S
  <2> QED BY <1>9, <1>10, InductionUpTo
<1>12. upTo \in [0..L -> Text]
  BY <1>7, <1>11
<1> QED BY <1>0, <1>5, <1>6, <1>8, <1>12

LEMMA DropIsText ==
  ASSUME NEW t \in Text, NEW places
  PROVE  Drop(t, places) \in Text
<1>1. Len(t) \in Nat
  BY DEF Text
<1> QED BY <1>1, DropUnfolds

LEMMA TextFacts ==
  ASSUME NEW t \in Text
  PROVE  Len(t) \in Nat /\ DOMAIN t = 1..Len(t) /\ \A i \in 1..Len(t) : t[i] \in STRING
  BY LenProperties DEF Text

-----------------------------------------------------------------------------
(* Parts of a text. *)

\* f lists the n elements of kept, numbers up to l, from the least one on.
Lists(f, n, l, kept) ==
  /\ f \in [1..n -> 1..l]
  /\ \A i, j \in 1..n : i < j => f[i] < f[j]
  /\ {f[i] : i \in 1..n} = kept

\* s has the characters of t at the places of kept, in their order.
Selects(f, t, s, kept) ==
  /\ Lists(f, Len(s), Len(t), kept)
  /\ \A i \in 1..Len(s) : s[i] = t[f[i]]

\* The places of a selection are in the order of the originals.
LEMMA SelectionBackwards ==
  ASSUME NEW t \in Text, NEW s \in Text, NEW f, NEW kept, Selects(f, t, s, kept)
  PROVE  \A i, j \in 1..Len(s) : /\ i <= j <=> f[i] <= f[j]
                                 /\ i = j <=> f[i] = f[j]
<1> SUFFICES ASSUME NEW i \in 1..Len(s), NEW j \in 1..Len(s)
             PROVE  (i <= j <=> f[i] <= f[j]) /\ (i = j <=> f[i] = f[j])
  OBVIOUS
<1>1. PICK n \in Nat : n = Len(s)
  BY TextFacts
<1>2. PICK m \in Nat : m = Len(t)
  BY TextFacts
<1>3. PICK a \in 1..m, b \in 1..m : a = f[i] /\ b = f[j]
  BY <1>1, <1>2 DEF Selects, Lists
<1>4. (i < j => a < b) /\ (j < i => b < a)
  BY <1>1, <1>3 DEF Selects, Lists
<1> QED BY <1>1, <1>2, <1>3, <1>4

\* Two increasing enumerations of one set go together.
LEMMA EnumerationsAgree ==
  ASSUME NEW l \in Nat, NEW kept, NEW x \in Nat, NEW y \in Nat, NEW h, NEW e,
         Lists(h, x, l, kept), Lists(e, y, l, kept)
  PROVE  \A k \in 1..x : k <= y /\ h[k] = e[k]
<1> USE DEF Lists
<1> DEFINE S == {k \in 0..x : \A i \in 1..k : i <= y /\ h[i] = e[i]}
<1>1. 0 \in S
  OBVIOUS
<1>2. ASSUME NEW k \in 1..x, k - 1 \in S PROVE k \in S
  <2>1. \A i \in 1..k - 1 : i <= y /\ h[i] = e[i]
    BY <1>2
  <2>2. PICK j \in 1..y : e[j] = h[k]
    OBVIOUS
  <2>3. ~ (j < k)
    <3> SUFFICES ASSUME j < k PROVE FALSE
      OBVIOUS
    <3>1. j \in 1..k - 1 /\ j \in 1..x
      OBVIOUS
    <3>2. h[j] = e[j] /\ h[j] < h[k]
      BY <2>1, <3>1
    <3>3. h[k] \in 1..l
      OBVIOUS
    <3> QED BY <2>2, <3>2, <3>3
  <2>4. ~ (k < j)
    <3> SUFFICES ASSUME k < j PROVE FALSE
      OBVIOUS
    <3>1. k \in 1..y
      OBVIOUS
    <3>2. PICK i \in 1..x : h[i] = e[k]
      BY <3>1
    <3>3. e[k] < e[j]
      BY <3>1
    <3>4. h[i] \in 1..l /\ h[k] \in 1..l /\ h[i] < h[k]
      BY <2>2, <3>2, <3>3
    <3>5. i < k
      <4>1. ~ (k < i) /\ i # k
        BY <3>4
      <4> QED BY <4>1
    <3>6. i \in 1..k - 1
      BY <3>5
    <3>7. i \in 1..y /\ h[i] = e[i]
      BY <2>1, <3>6
    <3>8. e[i] < e[k]
      BY <3>1, <3>5, <3>7
    <3> QED BY <3>2, <3>4, <3>7, <3>8
  <2>5. j = k
    BY <2>3, <2>4
  <2>6. \A i \in 1..k : i <= y /\ h[i] = e[i]
    <3> SUFFICES ASSUME NEW i \in 1..k PROVE i <= y /\ h[i] = e[i]
      OBVIOUS
    <3>1. CASE i = k
      BY <2>2, <2>5, <3>1
    <3>2. CASE i # k
      <4>1. i \in 1..k - 1
        BY <3>2
      <4> QED BY <2>1, <4>1
    <3> QED BY <3>1, <3>2
  <2> QED BY <2>6
<1>3. \A k \in 0..x : k \in S
  <2> HIDE DEF S
  <2> QED BY <1>1, <1>2, InductionUpTo
<1> SUFFICES ASSUME NEW k \in 1..x PROVE k <= y /\ h[k] = e[k]
  OBVIOUS
<1>4. x \in S
  <2> HIDE DEF S
  <2>1. x \in 0..x
    OBVIOUS
  <2> QED BY <1>3, <2>1
<1> QED BY <1>4

\* The places say which text it is.
LEMMA SelectionIsUnique ==
  ASSUME NEW t \in Text, NEW s \in Text, NEW r \in Text, NEW f, NEW g, NEW kept,
         Selects(f, t, s, kept), Selects(g, t, r, kept)
  PROVE  s = r
<1>1. PICK n \in Nat, m \in Nat, l \in Nat : n = Len(s) /\ m = Len(r) /\ l = Len(t)
  BY TextFacts
<1>2. Lists(f, n, l, kept) /\ Lists(g, m, l, kept)
  BY <1>1 DEF Selects
<1>3. \A k \in 1..n : k <= m /\ f[k] = g[k]
  BY <1>2, EnumerationsAgree
<1>4. \A k \in 1..m : k <= n /\ g[k] = f[k]
  BY <1>2, EnumerationsAgree
<1>5. n = m
  <2>1. n # 0 => n \in 1..n
    OBVIOUS
  <2>2. m # 0 => m \in 1..m
    OBVIOUS
  <2>3. n <= m
    BY <1>3, <2>1
  <2>4. m <= n
    BY <1>4, <2>2
  <2> QED BY <2>3, <2>4
<1>6. \A i \in 1..Len(s) : s[i] = r[i]
  BY <1>1, <1>3, <1>5 DEF Selects
<1>7. s \in Seq(STRING) /\ r \in Seq(STRING)
  BY DEF Text
<1> QED BY <1>1, <1>5, <1>6, <1>7, SeqEqual

\* What is left of a text is its part outside the dropped places.
LEMMA DropSelects ==
  ASSUME NEW t \in Text, NEW places
  PROVE  \E f : Selects(f, t, Drop(t, places), {i \in 1..Len(t) : i \notin places})
<1>1. PICK L \in Nat : L = Len(t)
  BY TextFacts
<1>2. PICK upTo \in [0..L -> Text] :
        /\ Drop(t, places) = upTo[L]
        /\ upTo[0] = <<>>
        /\ \A n \in 1..L : upTo[n] = IF n \in places THEN upTo[n - 1]
                                     ELSE Append(upTo[n - 1], t[n])
  BY <1>1, DropUnfolds
<1> DEFINE kept(n) == {i \in 1..n : i \notin places}
           Reached(n) == \E f : Selects(f, t, upTo[n], kept(n))
           S == {n \in 0..L : Reached(n)}
<1>3. 0 \in S
  <2>1. Selects(<<>>, t, upTo[0], kept(0))
    BY <1>1, <1>2 DEF Selects, Lists
  <2> QED BY <2>1
<1>4. ASSUME NEW n \in 1..L, n - 1 \in S PROVE n \in S
  <2> SUFFICES Reached(n)
    <3> HIDE DEF Reached
    <3> QED OBVIOUS
  <2>1. PICK f : Selects(f, t, upTo[n - 1], kept(n - 1))
    BY <1>4
  <2>2. CASE n \in places
    <3>1. upTo[n] = upTo[n - 1]
      BY <1>2, <2>2
    <3>2. kept(n) = kept(n - 1)
      BY <2>2
    <3> QED BY <2>1, <3>1, <3>2
  <2>3. CASE n \notin places
    <3>0. n - 1 \in 0..L /\ n \in 0..L
      OBVIOUS
    <3>1. PICK s \in Text, r \in Text, m \in Nat :
            s = upTo[n - 1] /\ r = upTo[n] /\ m = Len(s) /\ r = Append(s, t[n])
      <4>1. upTo[n - 1] \in Text /\ upTo[n] \in Text
        BY <3>0
      <4>2. upTo[n] = Append(upTo[n - 1], t[n])
        BY <1>2, <2>3
      <4>3. Len(upTo[n - 1]) \in Nat
        BY <4>1, TextFacts
      <4> QED BY <4>1, <4>2, <4>3
    <3>2. /\ Len(r) = m + 1 /\ r[m + 1] = t[n]
          /\ \A i \in 1..m : r[i] = s[i]
      <4>1. t[n] \in STRING /\ s \in Seq(STRING)
        BY <1>1, TextFacts DEF Text
      <4> QED BY <3>1, <4>1, AppendProperties
    <3>3. /\ f \in [1..m -> 1..L]
          /\ \A i, j \in 1..m : i < j => f[i] < f[j]
          /\ {f[i] : i \in 1..m} = kept(n - 1)
          /\ \A i \in 1..m : s[i] = t[f[i]]
      BY <1>1, <2>1, <3>1 DEF Selects, Lists
    <3> DEFINE g == [i \in 1..m + 1 |-> IF i = m + 1 THEN n ELSE f[i]]
    <3>4. /\ g \in [1..m + 1 -> 1..L] /\ g[m + 1] = n
          /\ \A i \in 1..m : g[i] = f[i] /\ g[i] \in 1..n - 1
      <4>1. \A i \in 1..m : f[i] \in kept(n - 1)
        BY <3>3
      <4> QED BY <3>3, <4>1
    <3> HIDE DEF g
    <3>5. \A i, j \in 1..m + 1 : i < j => g[i] < g[j]
      <4> SUFFICES ASSUME NEW i \in 1..m + 1, NEW j \in 1..m + 1, i < j PROVE g[i] < g[j]
        OBVIOUS
      <4>1. i \in 1..m
        OBVIOUS
      <4>2. CASE j = m + 1
        BY <3>4, <4>1, <4>2
      <4>3. CASE j \in 1..m
        BY <3>3, <3>4, <4>1, <4>3
      <4> QED BY <4>2, <4>3
    <3>6. {g[i] : i \in 1..m + 1} = kept(n)
      <4>1. \A i \in 1..m + 1 : g[i] \in kept(n)
        <5>1. n \in kept(n)
          BY <2>3
        <5>2. \A i \in 1..m : f[i] \in kept(n - 1)
          BY <3>3
        <5>3. kept(n - 1) \subseteq kept(n)
          OBVIOUS
        <5> QED BY <3>4, <5>1, <5>2, <5>3
      <4>2. ASSUME NEW k \in kept(n) PROVE \E i \in 1..m + 1 : k = g[i]
        <5>1. CASE k = n
          BY <3>4, <5>1
        <5>2. CASE k # n
          <6>1. k \in kept(n - 1)
            BY <5>2
          <6>2. PICK i \in 1..m : k = f[i]
            BY <3>3, <6>1
          <6> QED BY <3>4, <6>2
        <5> QED BY <5>1, <5>2
      <4> QED BY <4>1, <4>2
    <3>7. \A i \in 1..m + 1 : r[i] = t[g[i]]
      BY <3>2, <3>3, <3>4
    <3>8. Lists(g, m + 1, L, kept(n))
      BY <3>4, <3>5, <3>6 DEF Lists
    <3>9. Selects(g, t, upTo[n], kept(n))
      BY <1>1, <3>1, <3>2, <3>7, <3>8 DEF Selects
    <3> QED BY <3>9
  <2> QED BY <2>2, <2>3
<1>5. L \in S
  <2> HIDE DEF S
  <2>1. L \in 0..L /\ \A n \in 0..L : n \in S
    BY <1>3, <1>4, InductionUpTo
  <2> QED BY <2>1
<1>6. kept(L) = {i \in 1..Len(t) : i \notin places}
  BY <1>1
<1> QED BY <1>2, <1>5, <1>6

LEMMA PieceIsText ==
  ASSUME NEW t \in Text, NEW m \in Nat \ {0}, NEW n \in Int, n <= Len(t)
  PROVE  SubSeq(t, m, n) \in Text
<1>1. \A i \in m..n : t[i] \in STRING
  <2>1. t \in Seq(STRING) /\ Len(t) \in Nat
    BY DEF Text
  <2>2. \A i \in m..n : i \in 1..Len(t)
    BY <2>1
  <2> QED BY <2>1, <2>2
<1> QED BY <1>1, SubSeqProperties DEF Text

\* A piece is a part.
LEMMA PieceSelects ==
  ASSUME NEW t \in Text, NEW m \in 1..Len(t), NEW n \in m..Len(t)
  PROVE  Selects([i \in 1..n - m + 1 |-> m + i - 1], t, SubSeq(t, m, n), m..n)
<1>1. PICK L \in Nat : L = Len(t)
  BY TextFacts
<1>2. m \in Nat /\ n \in Nat /\ 1 <= m /\ m <= n /\ n <= L
  BY <1>1
<1>3. \A i \in m..n : t[i] \in STRING
  BY <1>1, <1>2, TextFacts
<1>4. /\ Len(SubSeq(t, m, n)) = n - m + 1
      /\ \A i \in 1..n - m + 1 : SubSeq(t, m, n)[i] = t[m + i - 1]
  BY <1>2, <1>3, SubSeqProperties
<1> DEFINE f == [i \in 1..n - m + 1 |-> m + i - 1]
<1>5. f \in [1..n - m + 1 -> 1..L] /\ \A i, j \in 1..n - m + 1 : i < j => f[i] < f[j]
  BY <1>2
<1>6. {f[i] : i \in 1..n - m + 1} = m..n
  <2>1. ASSUME NEW k \in m..n PROVE \E i \in 1..n - m + 1 : k = f[i]
    <3>1. k - m + 1 \in 1..n - m + 1 /\ f[k - m + 1] = k
      BY <1>2
    <3> QED BY <3>1
  <2>2. \A i \in 1..n - m + 1 : f[i] \in m..n
    BY <1>2
  <2> QED BY <2>1, <2>2
<1> QED BY <1>1, <1>4, <1>5, <1>6 DEF Selects, Lists

Image(f, S) == {f[i] : i \in S}

\* A part of a part.
LEMMA SelectionsCompose ==
  ASSUME NEW t \in Text, NEW s \in Text, NEW r \in Text, NEW f, NEW g, NEW kept, NEW again,
         Selects(f, t, s, kept), Selects(g, s, r, again)
  PROVE  \E h : Selects(h, t, r, Image(f, again))
<1>1. PICK n \in Nat, m \in Nat, l \in Nat : n = Len(s) /\ m = Len(r) /\ l = Len(t)
  BY TextFacts
<1>2. /\ f \in [1..n -> 1..l] /\ g \in [1..m -> 1..n]
      /\ \A i, j \in 1..n : i < j => f[i] < f[j]
      /\ \A i, j \in 1..m : i < j => g[i] < g[j]
      /\ {g[i] : i \in 1..m} = again
      /\ \A i \in 1..n : s[i] = t[f[i]]
      /\ \A i \in 1..m : r[i] = s[g[i]]
  BY <1>1 DEF Selects, Lists
<1> DEFINE h == [i \in 1..m |-> f[g[i]]]
<1>3. h \in [1..m -> 1..l] /\ \A i, j \in 1..m : i < j => h[i] < h[j]
  BY <1>2
<1>4. {h[i] : i \in 1..m} = Image(f, again)
  BY <1>2 DEF Image
<1>5. \A i \in 1..m : r[i] = t[h[i]]
  BY <1>2
<1> QED BY <1>1, <1>3, <1>4, <1>5 DEF Selects, Lists

LEMMA WhiteFacts == LF \in White /\ CR \in White /\ LF # CR
  BY DEF LF, CR, White

\* What keeps the ink, and all line ends between what it keeps, keeps the ends
\* of lines where they are.
LEMMA OuterIsKept ==
  ASSUME NEW t \in Text, NEW s \in Text, NEW f, NEW kept, Selects(f, t, s, kept),
         \A k \in 1..Len(t) : t[k] \notin White => k \in kept,
         \A j, k \in kept : \A m \in j..k : t[m] = LF => m \in kept,
         NEW i \in 1..Len(s)
  PROVE  Outer(s, i) <=> Outer(t, f[i])
<1>1. PICK n \in Nat, l \in Nat : n = Len(s) /\ l = Len(t)
  BY TextFacts
<1>2. /\ f \in [1..n -> 1..l]
      /\ \A a, b \in 1..n : a <= b <=> f[a] <= f[b]
      /\ {f[a] : a \in 1..n} = kept
      /\ \A a \in 1..n : s[a] = t[f[a]]
  <2>1. \A a, b \in 1..Len(s) : a <= b <=> f[a] <= f[b]
    BY SelectionBackwards
  <2> QED BY <1>1, <2>1 DEF Selects, Lists
<1> DEFINE Before(x, p) == \A j \in 1..p : x[j] \notin White => LF \in {x[k] : k \in j..p}
           After(x, p, e) == \A j \in p..e : x[j] \notin White => LF \in {x[k] : k \in p..j}
<1>3. PICK p \in 1..l : p = f[i]
  BY <1>1, <1>2
<1>4. \A a, b \in 1..n : (\E k \in a..b : s[k] = LF) <=> (\E k \in f[a]..f[b] : t[k] = LF)
  <2> SUFFICES ASSUME NEW a \in 1..n, NEW b \in 1..n
               PROVE  (\E k \in a..b : s[k] = LF) <=> (\E k \in f[a]..f[b] : t[k] = LF)
    OBVIOUS
  <2>0. f[a] \in 1..l /\ f[b] \in 1..l /\ f[a] \in kept /\ f[b] \in kept
    BY <1>2
  <2>1. ASSUME NEW k \in a..b, s[k] = LF PROVE \E m \in f[a]..f[b] : t[m] = LF
    <3>1. k \in 1..n /\ a <= k /\ k <= b
      OBVIOUS
    <3>2. f[k] \in 1..l /\ f[a] <= f[k] /\ f[k] <= f[b] /\ t[f[k]] = LF
      BY <1>2, <2>1, <3>1
    <3> QED BY <2>0, <3>2
  <2>2. ASSUME NEW m \in f[a]..f[b], t[m] = LF PROVE \E k \in a..b : s[k] = LF
    <3>1. m \in kept
      BY <2>0, <2>2
    <3>2. PICK k \in 1..n : m = f[k]
      BY <1>2, <3>1
    <3>3. a <= k /\ k <= b
      BY <1>2, <2>0, <3>2
    <3>4. s[k] = LF
      BY <1>2, <2>2, <3>2
    <3> QED BY <3>3, <3>4
  <2> QED BY <2>1, <2>2
<1>5. Before(s, i) <=> Before(t, p)
  <2>1. ASSUME Before(s, i), NEW j \in 1..p, t[j] \notin White
        PROVE  LF \in {t[k] : k \in j..p}
    <3>1. PICK a \in 1..n : f[a] = j
      BY <1>1, <1>2, <2>1
    <3>2. a \in 1..i /\ s[a] \notin White
      BY <1>1, <1>2, <1>3, <2>1, <3>1
    <3>3. \E k \in a..i : s[k] = LF
      BY <2>1, <3>2
    <3>4. \E k \in f[a]..f[i] : t[k] = LF
      BY <1>1, <1>4, <3>3
    <3> QED BY <1>3, <3>1, <3>4
  <2>2. ASSUME Before(t, p), NEW j \in 1..i, s[j] \notin White
        PROVE  LF \in {s[k] : k \in j..i}
    <3>1. j \in 1..n /\ f[j] \in 1..l /\ f[j] <= f[i] /\ t[f[j]] \notin White
      BY <1>1, <1>2, <2>2
    <3>2. \E k \in f[j]..p : t[k] = LF
      <4>1. f[j] \in 1..p
        BY <1>3, <3>1
      <4>2. LF \in {t[k] : k \in f[j]..p}
        BY <2>2, <3>1, <4>1
      <4> QED BY <4>2
    <3>3. \E k \in j..i : s[k] = LF
      BY <1>1, <1>3, <1>4, <3>1, <3>2
    <3> QED BY <3>3
  <2> QED BY <2>1, <2>2
<1>6. After(s, i, n) <=> After(t, p, l)
  <2>1. ASSUME After(s, i, n), NEW j \in p..l, t[j] \notin White
        PROVE  LF \in {t[k] : k \in p..j}
    <3>1. PICK a \in 1..n : f[a] = j
      BY <1>1, <1>2, <2>1
    <3>2. a \in i..n /\ s[a] \notin White
      BY <1>1, <1>2, <1>3, <2>1, <3>1
    <3>3. \E k \in i..a : s[k] = LF
      BY <2>1, <3>2
    <3>4. \E k \in f[i]..f[a] : t[k] = LF
      BY <1>1, <1>4, <3>3
    <3> QED BY <1>3, <3>1, <3>4
  <2>2. ASSUME After(t, p, l), NEW j \in i..n, s[j] \notin White
        PROVE  LF \in {s[k] : k \in i..j}
    <3>1. j \in 1..n /\ f[j] \in 1..l /\ f[i] <= f[j] /\ t[f[j]] \notin White
      BY <1>1, <1>2, <2>2
    <3>2. \E k \in p..f[j] : t[k] = LF
      BY <1>3, <2>2, <3>1
    <3>3. \E k \in i..j : s[k] = LF
      BY <1>1, <1>3, <1>4, <3>1, <3>2
    <3> QED BY <3>3
  <2> QED BY <2>1, <2>2
<1>7. s[i] = t[p]
  BY <1>1, <1>2, <1>3
<1>8. Outer(s, i) <=> s[i] \in White \ {LF} /\ (Before(s, i) \/ After(s, i, n))
  BY <1>1 DEF Outer
<1>9. Outer(t, p) <=> t[p] \in White \ {LF} /\ (Before(t, p) \/ After(t, p, l))
  BY <1>1 DEF Outer
<1> HIDE DEF Before, After
<1> QED BY <1>3, <1>5, <1>6, <1>7, <1>8, <1>9

LEMMA NormalizeIsText ==
  ASSUME NEW t \in Text
  PROVE  Normalize[t] \in Text
<1>1. \A places : Drop(t, places) \in Text
  BY DropIsText
<1> QED BY <1>1 DEF Normalize

LEMMA SkeletonIsText ==
  ASSUME NEW t \in Text
  PROVE  Skeleton[t] \in Text
<1>1. \A places : Drop(t, places) \in Text
  BY DropIsText
<1> QED BY <1>1 DEF Skeleton

\* The text is only white, or it is cut to what lies between its ink.
LEMMA TrimSpaceIs ==
  ASSUME NEW t \in Text
  PROVE  \/ TrimSpace[t] = <<>> /\ \A i \in 1..Len(t) : t[i] \in White
         \/ \E m, n \in 1..Len(t) :
              /\ TrimSpace[t] = SubSeq(t, m, n)
              /\ m <= n /\ t[m] \notin White /\ t[n] \notin White
              /\ \A i \in 1..Len(t) : t[i] \notin White => m <= i /\ i <= n
<1> DEFINE ink == {i \in 1..Len(t) : t[i] \notin White}
<1>0. PICK l \in Nat : l = Len(t)
  BY TextFacts
<1>1. TrimSpace[t] = IF ink = {} THEN <<>> ELSE SubSeq(t, Min(ink), Max(ink))
  BY DEF TrimSpace
<1>2. CASE ink = {}
  <2>1. \A i \in 1..Len(t) : t[i] \in White
    BY <1>2
  <2> QED BY <1>1, <1>2, <2>1
<1>3. CASE ink # {}
  <2>1. ink \in SUBSET Nat /\ \A i \in ink : i <= l
    BY <1>0
  <2>2. Min(ink) \in ink /\ Max(ink) \in ink /\ \A i \in ink : Min(ink) <= i /\ i <= Max(ink)
    <3> HIDE DEF ink
    <3>1. Min(ink) \in ink /\ \A i \in ink : Min(ink) <= i
      BY <1>3, <2>1, MinIsLeast
    <3>2. Max(ink) \in ink /\ \A i \in ink : Max(ink) >= i
      BY <1>0, <1>3, <2>1, MaxIsGreatest
    <3>3. \A i \in ink : i <= Max(ink)
      <4> SUFFICES ASSUME NEW i \in ink PROVE i <= Max(ink)
        OBVIOUS
      <4>1. i \in Nat /\ Max(ink) \in Nat /\ Max(ink) >= i
        BY <2>1, <3>2
      <4> QED BY <4>1
    <3> QED BY <3>1, <3>2, <3>3
  <2>3. PICK m, n \in ink : m = Min(ink) /\ n = Max(ink)
    BY <2>2
  <2>4. /\ m \in 1..Len(t) /\ n \in 1..Len(t) /\ t[m] \notin White /\ t[n] \notin White
        /\ m <= n
        /\ \A i \in 1..Len(t) : t[i] \notin White => m <= i /\ i <= n
    BY <2>2, <2>3
  <2>5. TrimSpace[t] = SubSeq(t, m, n)
    BY <1>1, <1>3, <2>3
  <2> QED BY <2>4, <2>5
<1> QED BY <1>2, <1>3

LEMMA TrimSpaceIsText ==
  ASSUME NEW t \in Text
  PROVE  TrimSpace[t] \in Text
<1>1. CASE TrimSpace[t] = <<>>
  BY <1>1 DEF Text
<1>2. ASSUME NEW m \in 1..Len(t), NEW n \in 1..Len(t), TrimSpace[t] = SubSeq(t, m, n)
      PROVE  TrimSpace[t] \in Text
  <2>1. Len(t) \in Nat
    BY TextFacts
  <2>2. m \in Nat \ {0} /\ n \in Int /\ n <= Len(t)
    BY <2>1
  <2> QED BY <1>2, <2>2, PieceIsText
<1> QED BY <1>1, <1>2, TrimSpaceIs

\* A skeleton is the part outside the white space around lines.
LEMMA SkeletonSelects ==
  ASSUME NEW t \in Text
  PROVE  \E f : Selects(f, t, Skeleton[t], {k \in 1..Len(t) : ~ Outer(t, k)})
<1>1. PICK outer : outer = {i \in 1..Len(t) : Outer(t, i)}
  OBVIOUS
<1>2. Skeleton[t] = Drop(t, outer)
  BY <1>1 DEF Skeleton
<1>3. {k \in 1..Len(t) : ~ Outer(t, k)} = {k \in 1..Len(t) : k \notin outer}
  BY <1>1
<1> QED BY <1>2, <1>3, DropSelects

\* The skeleton of a part is the part of the skeleton.
LEMMA SkeletonOfPart ==
  ASSUME NEW t \in Text, NEW s \in Text, NEW f, NEW kept, Selects(f, t, s, kept),
         \A k \in 1..Len(t) : t[k] \notin White => k \in kept,
         \A j, k \in kept : \A m \in j..k : t[m] = LF => m \in kept
  PROVE  \E h : Selects(h, t, Skeleton[s], {k \in kept : ~ Outer(t, k)})
<1>1. PICK inner : inner = {i \in 1..Len(s) : ~ Outer(s, i)}
  OBVIOUS
<1>2. PICK g : Selects(g, s, Skeleton[s], inner)
  BY <1>1, SkeletonSelects
<1>3. PICK h : Selects(h, t, Skeleton[s], Image(f, inner))
  <2>1. PICK r \in Text : r = Skeleton[s]
    BY SkeletonIsText
  <2>2. Selects(g, s, r, inner)
    BY <1>2, <2>1
  <2>3. \E h : Selects(h, t, r, Image(f, inner))
    BY <2>2, SelectionsCompose
  <2> QED BY <2>1, <2>3
<1>4. \A i \in 1..Len(s) : Outer(s, i) <=> Outer(t, f[i])
  BY OuterIsKept
<1>5. {f[i] : i \in 1..Len(s)} = kept
  BY DEF Selects, Lists
<1>6. Image(f, inner) = {k \in kept : ~ Outer(t, k)}
  BY <1>1, <1>4, <1>5 DEF Image
<1> QED BY <1>3, <1>6

\* White space at the ends of lines hides line ends of either kind.
LEMMA SkeletonOfNormalized ==
  ASSUME NEW t \in Text
  PROVE  Skeleton[Normalize[t]] = Skeleton[t]
<1>1. PICK crs : crs = {i \in 1..(Len(t) - 1) : t[i] = CR /\ t[i+1] = LF}
  OBVIOUS
<1>2. PICK l \in Nat : l = Len(t)
  BY TextFacts
<1>3. Normalize[t] = Drop(t, crs)
  BY <1>1 DEF Normalize
<1> DEFINE kept == {k \in 1..l : k \notin crs}
<1>4. PICK f : Selects(f, t, Normalize[t], kept)
  BY <1>2, <1>3, DropSelects
<1>5. \A k \in crs : k \in 1..l /\ t[k] = CR /\ k + 1 \in 1..l /\ t[k + 1] = LF
  BY <1>1, <1>2
<1>6. \A k \in 1..Len(t) : t[k] \notin White => k \in kept
  BY <1>2, <1>5, WhiteFacts
<1>7. \A j, k \in kept : \A m \in j..k : t[m] = LF => m \in kept
  <2> SUFFICES ASSUME NEW j \in kept, NEW k \in kept, NEW m \in j..k, t[m] = LF
               PROVE  m \in kept
    OBVIOUS
  <2>1. m \in 1..l
    BY <1>2
  <2>2. m \notin crs
    BY <1>5, WhiteFacts
  <2> QED BY <2>1, <2>2
<1>8. PICK h : Selects(h, t, Skeleton[Normalize[t]], {k \in kept : ~ Outer(t, k)})
  <2> HIDE DEF kept
  <2> QED BY <1>4, <1>6, <1>7, SkeletonOfPart, NormalizeIsText
<1>9. ASSUME NEW k \in crs PROVE Outer(t, k)
  <2>1. /\ k \in 1..l /\ k \in Nat /\ t[k] \in White \ {LF}
        /\ k + 1 \in 1..l /\ t[k + 1] = LF
    BY <1>5, WhiteFacts
  <2>2. ASSUME NEW j \in k..Len(t), t[j] \notin White PROVE LF \in {t[i] : i \in k..j}
    <3>1. j # k
      BY <2>1, <2>2
    <3>2. k + 1 \in k..j
      BY <1>2, <2>1, <3>1
    <3> QED BY <2>1, <3>2
  <2> QED BY <2>1, <2>2 DEF Outer
<1>10. {k \in kept : ~ Outer(t, k)} = {k \in 1..Len(t) : ~ Outer(t, k)}
  BY <1>2, <1>9
<1>11. PICK e : Selects(e, t, Skeleton[t], {k \in kept : ~ Outer(t, k)})
  BY <1>10, SkeletonSelects
<1> HIDE DEF kept
<1>12. Skeleton[Normalize[t]] \in Text /\ Skeleton[t] \in Text
  BY NormalizeIsText, SkeletonIsText
<1> QED BY <1>8, <1>11, <1>12, SelectionIsUnique

\* Only ends of lines are taken away, so what is trimmed first or last is the
\* same.
LEMMA SkeletonOfTrimmed ==
  ASSUME NEW t \in Text
  PROVE  Skeleton[TrimSpace[t]] = TrimSpace[Skeleton[t]]
<1>1. PICK l \in Nat : l = Len(t)
  BY TextFacts
<1>2. PICK s \in Text : s = Skeleton[t]
  BY SkeletonIsText
<1>3. PICK n \in Nat : n = Len(s)
  BY TextFacts
<1> DEFINE inner == {k \in 1..l : ~ Outer(t, k)}
<1>4. PICK f : Selects(f, t, s, inner)
  BY <1>1, <1>2, SkeletonSelects
<1>5. /\ f \in [1..n -> 1..l]
      /\ \A i \in 1..n : s[i] = t[f[i]]
      /\ \A k \in 1..l : ~ Outer(t, k) => \E i \in 1..n : k = f[i]
      /\ \A i \in 1..n : ~ Outer(t, f[i])
  <2>1. /\ f \in [1..n -> 1..l] /\ {f[i] : i \in 1..n} = inner
        /\ \A i \in 1..n : s[i] = t[f[i]]
    <3> HIDE DEF inner
    <3> QED BY <1>1, <1>3, <1>4 DEF Selects, Lists
  <2>2. \A i \in 1..n : f[i] \in inner
    BY <2>1
  <2>3. \A k \in inner : \E i \in 1..n : k = f[i]
    BY <2>1
  <2> QED BY <2>1, <2>2, <2>3
<1> HIDE DEF inner
<1>6. \A i, j \in 1..n : i <= j <=> f[i] <= f[j]
  BY <1>3, <1>4, SelectionBackwards
<1>7. \A k \in 1..l : t[k] \notin White => ~ Outer(t, k)
  BY DEF Outer
<1>8. CASE \A k \in 1..l : t[k] \in White
  <2>1. TrimSpace[t] = <<>>
    BY <1>1, <1>8, TrimSpaceIs
  <2>2. \A i \in 1..n : s[i] \in White
    BY <1>5, <1>8
  <2>3. TrimSpace[s] = <<>>
    BY <1>3, <2>2, TrimSpaceIs
  <2>4. Skeleton[<<>>] = <<>>
    <3>1. <<>> \in Text /\ Len(<<>>) = 0
      BY DEF Text
    <3>2. PICK r \in Text : r = Skeleton[<<>>] /\ \E g : g \in [1..Len(r) -> 1..0]
      BY <3>1, SkeletonIsText, SkeletonSelects DEF Selects, Lists
    <3>3. Len(r) \in Nat
      BY TextFacts
    <3>4. Len(r) = 0
      <4>1. 1 \notin 1..Len(r)
        BY <3>2
      <4> QED BY <3>3, <4>1
    <3>5. r = <<>>
      BY <3>4, EmptySeq DEF Text
    <3> QED BY <3>2, <3>5
  <2> QED BY <1>2, <2>1, <2>3, <2>4
<1>9. CASE ~ \A k \in 1..l : t[k] \in White
  <2>1. PICK a \in 1..l, b \in 1..l :
          /\ TrimSpace[t] = SubSeq(t, a, b)
          /\ a <= b /\ t[a] \notin White /\ t[b] \notin White
          /\ \A k \in 1..l : t[k] \notin White => a <= k /\ k <= b
    BY <1>1, <1>9, TrimSpaceIs
  <2>2. PICK x \in 1..n, y \in 1..n : a = f[x] /\ b = f[y]
    BY <1>5, <1>7, <2>1
  <2>3. PICK c \in 1..n, d \in 1..n :
          /\ TrimSpace[s] = SubSeq(s, c, d)
          /\ c <= d /\ s[c] \notin White /\ s[d] \notin White
          /\ \A i \in 1..n : s[i] \notin White => c <= i /\ i <= d
    <3>1. s[x] \notin White
      BY <1>5, <2>1, <2>2
    <3> QED BY <1>3, <3>1, TrimSpaceIs
  <2>4. f[c] = a /\ f[d] = b
    <3>1. c <= x /\ x <= d /\ c <= y /\ y <= d
      BY <1>5, <2>1, <2>2, <2>3
    <3>2. f[c] \in 1..l /\ f[d] \in 1..l /\ t[f[c]] \notin White /\ t[f[d]] \notin White
      BY <1>5, <2>3
    <3>3. a <= f[c] /\ f[c] <= b /\ a <= f[d] /\ f[d] <= b
      BY <2>1, <3>2
    <3>4. f[c] <= a /\ b <= f[d]
      BY <1>6, <2>2, <3>1
    <3> QED BY <3>2, <3>3, <3>4
  <2> DEFINE piece == [i \in 1..b - a + 1 |-> a + i - 1]
             same == {k \in a..b : ~ Outer(t, k)}
  <2>5. Selects(piece, t, TrimSpace[t], a..b)
    BY <1>1, <2>1, PieceSelects
  <2>6. PICK h : Selects(h, t, Skeleton[TrimSpace[t]], same)
    <3> HIDE DEF piece
    <3>1. \A k \in 1..Len(t) : t[k] \notin White => k \in a..b
      BY <1>1, <2>1
    <3>2. \A j, k \in a..b : \A m \in j..k : t[m] = LF => m \in a..b
      BY <2>1
    <3> QED BY <2>5, <3>1, <3>2, SkeletonOfPart, TrimSpaceIsText
  <2>7. PICK e : Selects(e, t, TrimSpace[s], Image(f, c..d))
    <3>1. PICK r \in Text : r = TrimSpace[s]
      BY TrimSpaceIsText
    <3>2. PICK g : Selects(g, s, r, c..d)
      <4>1. c \in 1..Len(s) /\ d \in c..Len(s) /\ r = SubSeq(s, c, d)
        BY <1>3, <2>3, <3>1
      <4> QED BY <4>1, PieceSelects
    <3>3. \E e : Selects(e, t, r, Image(f, c..d))
      BY <1>4, <3>2, SelectionsCompose
    <3> QED BY <3>1, <3>3
  <2>8. Image(f, c..d) = same
    <3>1. ASSUME NEW i \in c..d PROVE f[i] \in same
      <4>1. i \in 1..n /\ c <= i /\ i <= d
        OBVIOUS
      <4>2. a <= f[i] /\ f[i] <= b /\ f[i] \in 1..l /\ ~ Outer(t, f[i])
        BY <1>5, <1>6, <2>4, <4>1
      <4> QED BY <4>2
    <3>2. ASSUME NEW k \in same PROVE \E i \in c..d : k = f[i]
      <4>1. k \in 1..l /\ a <= k /\ k <= b /\ ~ Outer(t, k)
        OBVIOUS
      <4>2. PICK i \in 1..n : k = f[i]
        BY <1>5, <4>1
      <4>3. c <= i /\ i <= d
        BY <1>6, <2>4, <4>1, <4>2
      <4> QED BY <4>2, <4>3
    <3> HIDE DEF same
    <3> QED BY <3>1, <3>2 DEF Image
  <2>9. Skeleton[TrimSpace[t]] \in Text /\ TrimSpace[s] \in Text
    BY SkeletonIsText, TrimSpaceIsText
  <2> HIDE DEF same
  <2>10. Skeleton[TrimSpace[t]] = TrimSpace[s]
    BY <2>6, <2>7, <2>8, <2>9, SelectionIsUnique
  <2> QED BY <1>2, <2>10
<1> QED BY <1>8, <1>9

\* Trimming again changes nothing.
LEMMA TrimmedOnce ==
  ASSUME NEW t \in Text
  PROVE  TrimSpace[TrimSpace[t]] = TrimSpace[t]
<1>1. PICK s \in Text : s = TrimSpace[t]
  BY TrimSpaceIsText
<1>2. PICK n \in Nat : n = Len(s)
  BY TextFacts
<1>3. CASE n = 0
  <2>1. s = <<>>
    BY <1>2, <1>3, EmptySeq DEF Text
  <2>2. TrimSpace[s] = <<>>
    <3>1. ~ \E i \in 1..Len(s) : TRUE
      BY <1>2, <1>3
    <3> QED BY <3>1, TrimSpaceIs
  <2> QED BY <1>1, <2>1, <2>2
<1>4. CASE n # 0
  <2>1. s # <<>>
    BY <1>2, <1>4, EmptySeq
  <2>2. PICK a \in 1..Len(t), b \in 1..Len(t) :
          s = SubSeq(t, a, b) /\ a <= b /\ t[a] \notin White /\ t[b] \notin White
    BY <1>1, <2>1, TrimSpaceIs
  <2>3. n = b - a + 1 /\ s[1] = t[a] /\ s[n] = t[b] /\ a \in Nat /\ b \in Nat
    <3>1. PICK l \in Nat : l = Len(t)
      BY TextFacts
    <3>2. Selects([i \in 1..b - a + 1 |-> a + i - 1], t, s, a..b)
      BY <2>2, <3>1, PieceSelects
    <3>3. a \in Nat /\ b \in Nat /\ \A i \in a..b : t[i] \in STRING
      BY <3>1, TextFacts
    <3>4. n = b - a + 1 /\ \A i \in 1..b - a + 1 : s[i] = t[a + i - 1]
      BY <1>2, <2>2, <3>3, SubSeqProperties
    <3>5. 1 \in 1..b - a + 1 /\ n \in 1..b - a + 1 /\ a + 1 - 1 = a /\ a + n - 1 = b
      BY <2>2, <3>3, <3>4
    <3> QED BY <3>3, <3>4, <3>5
  <2>4. PICK c \in 1..n, d \in 1..n :
          /\ TrimSpace[s] = SubSeq(s, c, d)
          /\ \A i \in 1..n : s[i] \notin White => c <= i /\ i <= d
    <3>1. 1 \in 1..n
      BY <1>4
    <3> QED BY <1>2, <2>2, <2>3, <3>1, TrimSpaceIs
  <2>5. c = 1 /\ d = n
    <3>1. 1 \in 1..n /\ n \in 1..n
      BY <1>4
    <3>2. c <= 1 /\ n <= d
      BY <2>2, <2>3, <2>4, <3>1
    <3> QED BY <3>1, <3>2
  <2>6. SubSeq(s, 1, n) = s
    <3>1. s \in Seq(STRING)
      BY DEF Text
    <3>2. \A i \in 1..n : s[i] \in STRING
      BY <1>2, TextFacts
    <3>3. /\ SubSeq(s, 1, n) \in Seq(STRING) /\ Len(SubSeq(s, 1, n)) = n
          /\ \A i \in 1..n : SubSeq(s, 1, n)[i] = s[i]
      <4>1. n - 1 + 1 = n /\ \A i \in 1..n : 1 + i - 1 = i
        OBVIOUS
      <4>2. 1 <= n
        BY <1>4
      <4> QED BY <3>2, <4>1, <4>2, SubSeqProperties
    <3> QED BY <1>2, <3>1, <3>3, SeqEqual
  <2> QED BY <1>1, <2>4, <2>5, <2>6
<1> QED BY <1>3, <1>4

-----------------------------------------------------------------------------
(* The levels of the replacement. *)

\* What a text reads like.
Reading(t) == Skeleton[TrimSpace[Normalize[t]]]

\* Neither normalising nor trimming a text changes what it reads like.
LEMMA ReadingOfReading ==
  ASSUME NEW t \in Text
  PROVE  /\ Reading(Normalize[t]) = Reading(t)
         /\ Reading(TrimSpace[Normalize[t]]) = Reading(t)
<1>1. PICK s \in Text : s = Normalize[t]
  BY NormalizeIsText
<1>2. \A x \in Text : Reading(x) = TrimSpace[Skeleton[x]]
  <2> SUFFICES ASSUME NEW x \in Text PROVE Reading(x) = TrimSpace[Skeleton[x]]
    OBVIOUS
  <2>1. PICK y \in Text : y = Normalize[x]
    BY NormalizeIsText
  <2>2. Skeleton[TrimSpace[y]] = TrimSpace[Skeleton[y]] /\ Skeleton[y] = Skeleton[x]
    BY <2>1, SkeletonOfTrimmed, SkeletonOfNormalized
  <2> QED BY <2>1, <2>2 DEF Reading
<1>3. Skeleton[s] = Skeleton[t]
  BY <1>1, SkeletonOfNormalized
<1>4. TrimSpace[s] \in Text /\ Skeleton[TrimSpace[s]] = TrimSpace[Skeleton[s]]
  BY TrimSpaceIsText, SkeletonOfTrimmed
<1>5. TrimSpace[TrimSpace[Skeleton[s]]] = TrimSpace[Skeleton[s]]
  BY SkeletonIsText, TrimmedOnce
<1>6. Reading(s) = TrimSpace[Skeleton[s]] /\ Reading(t) = TrimSpace[Skeleton[t]]
  BY <1>2
<1>7. Reading(TrimSpace[s]) = TrimSpace[Skeleton[TrimSpace[s]]]
  BY <1>2, <1>4
<1> QED BY <1>1, <1>3, <1>4, <1>5, <1>6, <1>7

\* A block of lines that equals the old lines reads like them.
LEMMA ReadingOfLines ==
  ASSUME NEW t \in Text, NEW old \in Text, Skeleton[t] = Skeleton[TrimSpace[Normalize[old]]]
  PROVE  Reading(t) = Reading(old)
<1>1. PICK s \in Text : s = Normalize[old]
  BY NormalizeIsText
<1>2. PICK x \in Text : x = Normalize[t]
  BY NormalizeIsText
<1>3. PICK y \in Text : y = Skeleton[s]
  BY SkeletonIsText
<1>4. Skeleton[TrimSpace[x]] = TrimSpace[Skeleton[x]] /\ Skeleton[x] = Skeleton[t]
  BY <1>2, SkeletonOfTrimmed, SkeletonOfNormalized
<1>5. Skeleton[TrimSpace[s]] = TrimSpace[y]
  BY <1>3, SkeletonOfTrimmed
<1>6. TrimSpace[TrimSpace[y]] = TrimSpace[y]
  BY TrimmedOnce
<1> QED BY <1>1, <1>2, <1>4, <1>5, <1>6 DEF Reading

LEMMA CountFacts ==
  ASSUME NEW t \in Text, NEW pat \in Text
  PROVE  /\ Count(t, pat) \in {0, 1, 2}
         /\ Count(t, pat) = 0 <=> Occurrences(t, pat) = {}
         /\ \A i \in Occurrences(t, pat) : Occurrences(t, pat) = {i} => Count(t, pat) = 1
         /\ (\E i, j \in Occurrences(t, pat) : i # j /\ Disjoint(i, j, Len(pat)))
              => Count(t, pat) = 2
<1>1. PICK l \in Nat, n \in Nat : l = Len(t) /\ n = Len(pat)
  BY TextFacts
<1>2. PICK found \in SUBSET Nat : found = Occurrences(t, pat)
  <2>1. Occurrences(t, pat) \subseteq 1..(l - n + 1)
    BY <1>1 DEF Occurrences
  <2> QED BY <2>1
<1>3. CASE found = {}
  BY <1>2, <1>3 DEF Count
<1>4. CASE found # {}
  <2>1. Min(found) \in found /\ \A i \in found : Min(found) <= i
    BY <1>4, MinIsLeast
  <2>2. PICK least \in Nat : least = Min(found) /\ least \in found /\ \A i \in found : least <= i
    BY <2>1
  <2>3. PICK gap \in Nat : gap = Max({n, 1}) /\ gap >= 1 /\ (gap = n \/ (n = 0 /\ gap = 1))
    <3>1. CASE n = 0
      <4>1. Max({n, 1}) = 1
        BY <3>1, MaxIs
      <4> QED BY <3>1, <4>1
    <3>2. CASE n # 0
      <4>1. Max({n, 1}) = n
        BY <3>2, MaxIs
      <4> QED BY <3>2, <4>1
    <3> QED BY <3>1, <3>2
  <2>4. Count(t, pat) = IF \A j \in found : j < least + gap THEN 1 ELSE 2
    BY <1>1, <1>2, <1>4, <2>2, <2>3 DEF Count
  <2>5. ASSUME NEW i \in found, found = {i} PROVE Count(t, pat) = 1
    BY <2>2, <2>3, <2>4, <2>5
  <2>6. ASSUME NEW i \in found, NEW j \in found, i # j, Disjoint(i, j, n)
        PROVE  Count(t, pat) = 2
    <3>1. ASSUME NEW a \in found, NEW b \in found, a # b, a + n <= b PROVE ~ (b < least + gap)
      <4>1. least <= a /\ a \in Nat /\ b \in Nat
        BY <2>2
      <4> QED BY <2>3, <3>1, <4>1
    <3>2. \E b \in found : ~ (b < least + gap)
      BY <2>6, <3>1 DEF Disjoint
    <3> QED BY <2>4, <3>2
  <2> QED BY <1>1, <1>2, <1>4, <2>4, <2>5, <2>6
<1> QED BY <1>3, <1>4

\* The text is cut at an occurrence, which gives way to the new one.
LEMMA ReplaceFirstIs ==
  ASSUME NEW t \in Text, NEW pat \in Text, NEW new \in Text, Occurrences(t, pat) # {}
  PROVE  \E i \in Occurrences(t, pat) :
           /\ i \in Nat /\ 1 <= i /\ i + Len(pat) <= Len(t) + 1
           /\ SubSeq(t, i, i + Len(pat) - 1) = pat
           /\ ReplaceFirst(t, pat, new) = SubSeq(t, 1, i - 1) \o new \o SubSeq(t, i + Len(pat), Len(t))
<1>1. PICK l \in Nat, n \in Nat : l = Len(t) /\ n = Len(pat)
  BY TextFacts
<1>2. PICK found \in SUBSET Nat : found = Occurrences(t, pat)
  <2>1. Occurrences(t, pat) \subseteq 1..(l - n + 1)
    BY <1>1 DEF Occurrences
  <2> QED BY <2>1
<1>3. PICK i \in found : i = Min(found)
  BY <1>2, MinIsLeast
<1>4. i \in 1..(l - n + 1) /\ SubSeq(t, i, i + n - 1) = pat
  BY <1>1, <1>2 DEF Occurrences
<1>5. i \in Nat /\ 1 <= i /\ i + n <= l + 1
  BY <1>4
<1>6. ReplaceFirst(t, pat, new) = SubSeq(t, 1, i - 1) \o new \o SubSeq(t, i + n, l)
  BY <1>1, <1>2, <1>3 DEF ReplaceFirst, ReplaceSubSeqAt
<1> QED BY <1>1, <1>2, <1>4, <1>5, <1>6

\* An occurrence in a text or in its normalised form is a region that reads like
\* the old text.
LEMMA RegionFound ==
  ASSUME NEW t \in Text, NEW old \in Text, NEW new \in Text,
         NEW s \in Text, s \in {t, Normalize[t]},
         NEW pat \in Text, Occurrences(s, pat) # {}, Reading(pat) = Reading(old)
  PROVE  OneRegionReplaced(t, old, new, ReplaceFirst(s, pat, new))
<1>1. PICK l \in Nat, n \in Nat : l = Len(s) /\ n = Len(pat)
  BY TextFacts
<1>2. PICK i \in Nat :
        /\ 1 <= i /\ i + n <= l + 1 /\ SubSeq(s, i, i + n - 1) = pat
        /\ ReplaceFirst(s, pat, new) = SubSeq(s, 1, i - 1) \o new \o SubSeq(s, i + n, l)
  <2>1. PICK i \in Occurrences(s, pat) :
          /\ i \in Nat /\ 1 <= i /\ i + Len(pat) <= Len(s) + 1
          /\ SubSeq(s, i, i + Len(pat) - 1) = pat
          /\ ReplaceFirst(s, pat, new)
               = SubSeq(s, 1, i - 1) \o new \o SubSeq(s, i + Len(pat), Len(s))
    BY ReplaceFirstIs
  <2> QED BY <1>1, <2>1
<1>3. PICK j \in Nat : j = i + n
  OBVIOUS
<1>4. i \in 1..(Len(s) + 1) /\ j \in i..(Len(s) + 1)
  BY <1>1, <1>2, <1>3
<1>5. Skeleton[TrimSpace[Normalize[SubSeq(s, i, j - 1)]]] = Skeleton[TrimSpace[Normalize[old]]]
  <2>1. j - 1 = i + n - 1
    BY <1>3
  <2>2. SubSeq(s, i, j - 1) = pat
    BY <1>2, <2>1
  <2> QED BY <2>2 DEF Reading
<1>6. ReplaceFirst(s, pat, new) = SubSeq(s, 1, i - 1) \o new \o SubSeq(s, j, Len(s))
  BY <1>1, <1>2, <1>3
<1> QED BY <1>4, <1>5, <1>6 DEF OneRegionReplaced

LEMMA EditFields ==
  /\ \A x : Replaced(x).text = x /\ Replaced(x).code = ""
  /\ \A c : Failed(c).text = <<>> /\ Failed(c).code = c
  BY DEF Replaced, Failed

\* Lines are only replaced when one block of them, and no other, equals the
\* old lines.
LEMMA LineByLineIs ==
  ASSUME NEW t \in Text, NEW old \in Text, NEW new \in Text
  PROVE  \/ LineByLine(t, old, new) \in {Failed("ERR_EDIT_NO_MATCH"), Failed("ERR_EDIT_AMBIGUOUS")}
         \/ \E i \in 1..(Len(t) + 1) : \E j \in i..(Len(t) + 1) :
              /\ LineByLine(t, old, new)
                   = Replaced(SubSeq(t, 1, i - 1) \o new \o SubSeq(t, j, Len(t)))
              /\ Skeleton[SubSeq(t, i, j - 1)] = Skeleton[TrimSpace[old]]
<1> DEFINE breaks == {0, Len(t) + 1} \cup {i \in 1..Len(t) : t[i] = LF}
           blocks == {b \in breaks \X breaks :
                        b[1] < b[2] /\ Skeleton[SubSeq(t, b[1] + 1, b[2] - 1)]
                                       = Skeleton[TrimSpace[old]]}
           block == CHOOSE b \in blocks : TRUE
           edited(b) == SubSeq(t, 1, b[1]) \o new \o SubSeq(t, b[2], Len(t))
<1>0. PICK l \in Nat : l = Len(t)
  BY TextFacts
<1>1. LineByLine(t, old, new) =
        IF blocks = {} THEN Failed("ERR_EDIT_NO_MATCH")
        ELSE IF \E b, c \in blocks : b # c THEN Failed("ERR_EDIT_AMBIGUOUS")
        ELSE Replaced(edited(block))
  BY DEF LineByLine
<1>2. ASSUME NEW b \in blocks
      PROVE  \E i \in 1..(l + 1) : \E j \in i..(l + 1) :
                /\ edited(b) = SubSeq(t, 1, i - 1) \o new \o SubSeq(t, j, Len(t))
                /\ Skeleton[SubSeq(t, i, j - 1)] = Skeleton[TrimSpace[old]]
  <2>1. b[1] \in 0..l + 1 /\ b[2] \in 0..l + 1 /\ b[1] < b[2]
    BY <1>0
  <2>2. Skeleton[SubSeq(t, b[1] + 1, b[2] - 1)] = Skeleton[TrimSpace[old]]
    OBVIOUS
  <2>3. PICK m \in 0..l + 1, j \in 0..l + 1 : m = b[1] /\ j = b[2]
    BY <2>1
  <2>4. PICK i \in Nat : i = m + 1
    OBVIOUS
  <2>5. i \in 1..(l + 1) /\ j \in i..(l + 1) /\ i - 1 = m
    BY <2>1, <2>3, <2>4
  <2>6. edited(b) = SubSeq(t, 1, i - 1) \o new \o SubSeq(t, j, Len(t))
    BY <2>3, <2>5
  <2> HIDE DEF edited
  <2> QED BY <2>2, <2>3, <2>4, <2>5, <2>6
<1>3. blocks # {} => block \in blocks
  OBVIOUS
<1> HIDE DEF blocks, block, edited
<1>4. CASE blocks = {} \/ \E b, c \in blocks : b # c
  BY <1>1, <1>4
<1>5. CASE blocks # {} /\ ~ \E b, c \in blocks : b # c
  <2>1. LineByLine(t, old, new) = Replaced(edited(block)) /\ block \in blocks
    BY <1>1, <1>3, <1>5
  <2>2. PICK i \in 1..(l + 1) : \E j \in i..(l + 1) :
          /\ edited(block) = SubSeq(t, 1, i - 1) \o new \o SubSeq(t, j, Len(t))
          /\ Skeleton[SubSeq(t, i, j - 1)] = Skeleton[TrimSpace[old]]
    BY <1>2, <2>1
  <2> QED BY <1>0, <2>1, <2>2
<1> QED BY <1>4, <1>5

\* So is a block of lines that is taken.
LEMMA LinesFound ==
  ASSUME NEW t \in Text, NEW old \in Text, NEW new \in Text
  PROVE  LineByLine(Normalize[t], Normalize[old], new).code = ""
           => OneRegionReplaced(t, old, new, LineByLine(Normalize[t], Normalize[old], new).text)
<1>1. PICK s \in Text, pat \in Text : s = Normalize[t] /\ pat = Normalize[old]
  BY NormalizeIsText
<1>2. PICK e : e = LineByLine(s, pat, new)
  OBVIOUS
<1>3. PICK l \in Nat : l = Len(s)
  BY TextFacts
<1>4. ASSUME e.code = "" PROVE OneRegionReplaced(t, old, new, e.text)
  <2>1. ~ (e \in {Failed("ERR_EDIT_NO_MATCH"), Failed("ERR_EDIT_AMBIGUOUS")})
    <3>1. "ERR_EDIT_NO_MATCH" # "" /\ "ERR_EDIT_AMBIGUOUS" # ""
      OBVIOUS
    <3>2. \A c : e = Failed(c) => e.code = c
      BY EditFields
    <3> QED BY <1>4, <3>1, <3>2
  <2>2. \/ LineByLine(s, pat, new) \in {Failed("ERR_EDIT_NO_MATCH"), Failed("ERR_EDIT_AMBIGUOUS")}
        \/ \E i \in 1..(Len(s) + 1) : \E j \in i..(Len(s) + 1) :
             /\ LineByLine(s, pat, new)
                  = Replaced(SubSeq(s, 1, i - 1) \o new \o SubSeq(s, j, Len(s)))
             /\ Skeleton[SubSeq(s, i, j - 1)] = Skeleton[TrimSpace[pat]]
    BY LineByLineIs
  <2>3. PICK i \in 1..(l + 1) : \E j \in i..(l + 1) :
          /\ e = Replaced(SubSeq(s, 1, i - 1) \o new \o SubSeq(s, j, Len(s)))
          /\ Skeleton[SubSeq(s, i, j - 1)] = Skeleton[TrimSpace[pat]]
    BY <1>2, <1>3, <2>1, <2>2
  <2>4. PICK j \in i..(l + 1) :
          /\ e = Replaced(SubSeq(s, 1, i - 1) \o new \o SubSeq(s, j, Len(s)))
          /\ Skeleton[SubSeq(s, i, j - 1)] = Skeleton[TrimSpace[pat]]
    BY <2>3
  <2>5. i \in Nat \ {0} /\ j - 1 \in Int /\ j - 1 <= l
    OBVIOUS
  <2>6. SubSeq(s, i, j - 1) \in Text
    BY <1>3, <2>5, PieceIsText
  <2>7. Reading(SubSeq(s, i, j - 1)) = Reading(old)
    BY <1>1, <2>4, <2>6, ReadingOfLines
  <2>8. Skeleton[TrimSpace[Normalize[SubSeq(s, i, j - 1)]]] = Skeleton[TrimSpace[Normalize[old]]]
    BY <2>7 DEF Reading
  <2>9. e.text = SubSeq(s, 1, i - 1) \o new \o SubSeq(s, j, Len(s))
    BY <2>4, EditFields
  <2>10. i \in 1..(Len(s) + 1) /\ j \in i..(Len(s) + 1)
    BY <1>3
  <2> QED BY <1>1, <2>8, <2>9, <2>10 DEF OneRegionReplaced
<1> QED BY <1>1, <1>2, <1>4

\* Whatever the level at which it finds the old text, the editor keeps its
\* promise.
LEMMA EditsArePromised ==
  ASSUME NEW t \in Text, NEW old \in Text, NEW new \in Text
  PROVE  EditPromise(t, old, new, FuzzyReplace(t, old, new))
<1>1. PICK text \in Text, pattern \in Text, trimmed \in Text :
        text = Normalize[t] /\ pattern = Normalize[old] /\ trimmed = TrimSpace[pattern]
  BY NormalizeIsText, TrimSpaceIsText
<1>2. PICK e : e = FuzzyReplace(t, old, new)
  OBVIOUS
<1> DEFINE found == Occurrences(t, old)
<1>3. /\ Count(t, old) \in {0, 1, 2}
      /\ Count(t, old) = 0 <=> found = {}
      /\ \A i \in found : found = {i} => Count(t, old) = 1
      /\ (\E i, j \in found : i # j /\ Disjoint(i, j, Len(old))) => Count(t, old) = 2
  BY CountFacts
<1>4. Reading(pattern) = Reading(old) /\ Reading(trimmed) = Reading(old)
  BY <1>1, ReadingOfReading
<1>5. \A s, pat \in Text : Count(s, pat) = 1 => Occurrences(s, pat) # {}
  BY DEF Count
<1>6. EditPromise(t, old, new, e)
        <=> /\ e.code = "" => OneRegionReplaced(t, old, new, e.text)
            /\ (\E i, j \in found : i # j /\ Disjoint(i, j, Len(old)))
                 => e.code = "ERR_EDIT_AMBIGUOUS"
            /\ \A i \in found : found = {i} =>
                 e = Replaced(SubSeq(t, 1, i - 1) \o new \o SubSeq(t, i + Len(old), Len(t)))
  BY DEF EditPromise
<1> HIDE DEF found
<1> SUFFICES EditPromise(t, old, new, e)
  BY <1>2
<1>7. CASE Count(t, old) = 1
  <2>1. e = Replaced(ReplaceFirst(t, old, new)) /\ found # {}
    BY <1>2, <1>3, <1>7 DEF FuzzyReplace
  <2>2. OneRegionReplaced(t, old, new, ReplaceFirst(t, old, new))
    BY <2>1, RegionFound DEF found
  <2>3. PICK i \in found :
          ReplaceFirst(t, old, new) = SubSeq(t, 1, i - 1) \o new \o SubSeq(t, i + Len(old), Len(t))
    BY <2>1, ReplaceFirstIs DEF found
  <2>4. \A j \in found : found = {j} =>
          e = Replaced(SubSeq(t, 1, j - 1) \o new \o SubSeq(t, j + Len(old), Len(t)))
    BY <2>1, <2>3
  <2>5. ~ \E j, k \in found : j # k /\ Disjoint(j, k, Len(old))
    BY <1>3, <1>7
  <2>6. e.text = ReplaceFirst(t, old, new)
    BY <2>1, EditFields
  <2> QED BY <1>6, <2>2, <2>4, <2>5, <2>6
<1>8. CASE Count(t, old) = 2
  <2>1. e = Failed("ERR_EDIT_AMBIGUOUS")
    BY <1>2, <1>8 DEF FuzzyReplace
  <2>2. \A i \in found : ~ (found = {i})
    BY <1>3, <1>8
  <2>3. e.code = "ERR_EDIT_AMBIGUOUS" /\ e.code # ""
    BY <2>1 DEF Failed
  <2> QED BY <1>6, <2>2, <2>3
<1>9. CASE Count(t, old) = 0
  <2>1. found = {}
    BY <1>3, <1>9
  <2> SUFFICES e.code = "" => OneRegionReplaced(t, old, new, e.text)
    BY <1>6, <2>1
  <2>2. CASE Count(text, pattern) = 1
    <3>1. e = Replaced(ReplaceFirst(text, pattern, new))
      BY <1>1, <1>2, <1>9, <2>2 DEF FuzzyReplace
    <3>2. OneRegionReplaced(t, old, new, ReplaceFirst(text, pattern, new))
      BY <1>1, <1>4, <1>5, <2>2, RegionFound
    <3> QED BY <3>1, <3>2, EditFields
  <2>3. CASE Count(text, pattern) # 1 /\ trimmed # <<>> /\ Count(text, trimmed) = 1
    <3>1. e = Replaced(ReplaceFirst(text, trimmed, new))
      BY <1>1, <1>2, <1>9, <2>3 DEF FuzzyReplace
    <3>2. OneRegionReplaced(t, old, new, ReplaceFirst(text, trimmed, new))
      BY <1>1, <1>4, <1>5, <2>3, RegionFound
    <3> QED BY <3>1, <3>2, EditFields
  <2>4. CASE Count(text, pattern) # 1 /\ ~ (trimmed # <<>> /\ Count(text, trimmed) = 1)
    <3>1. e = LineByLine(text, pattern, new)
      BY <1>1, <1>2, <1>9, <2>4 DEF FuzzyReplace
    <3> QED BY <1>1, <3>1, LinesFound
  <2> QED BY <2>2, <2>3, <2>4
<1> QED BY <1>3, <1>7, <1>8, <1>9

\* An edit is replaced or refused, never half of each.
LEMMA EditShape ==
  ASSUME NEW t \in Text, NEW old \in Text, NEW new \in Text
  PROVE  \/ FuzzyReplace(t, old, new) = Replaced(FuzzyReplace(t, old, new).text)
         \/ /\ FuzzyReplace(t, old, new) = Failed(FuzzyReplace(t, old, new).code)
            /\ FuzzyReplace(t, old, new).code # ""
<1>1. PICK e : e = FuzzyReplace(t, old, new)
  OBVIOUS
<1>2. PICK text \in Text, pattern \in Text :
        text = Normalize[t] /\ pattern = Normalize[old]
  BY NormalizeIsText
<1>3. \/ LineByLine(text, pattern, new) \in {Failed("ERR_EDIT_NO_MATCH"), Failed("ERR_EDIT_AMBIGUOUS")}
      \/ \E x : LineByLine(text, pattern, new) = Replaced(x)
  BY LineByLineIs
<1>4. \/ e \in {Failed("ERR_EDIT_NO_MATCH"), Failed("ERR_EDIT_AMBIGUOUS")}
      \/ \E x : e = Replaced(x)
  <2>1. \/ \E x : e = Replaced(x)
        \/ e = Failed("ERR_EDIT_AMBIGUOUS")
        \/ e = LineByLine(text, pattern, new)
    BY <1>1, <1>2 DEF FuzzyReplace
  <2> QED BY <1>3, <2>1
<1>5. ASSUME NEW x, e = Replaced(x) PROVE e = Replaced(e.text)
  BY <1>5, EditFields
<1>6. ASSUME NEW c \in {"ERR_EDIT_NO_MATCH", "ERR_EDIT_AMBIGUOUS"}, e = Failed(c)
      PROVE  e = Failed(e.code) /\ e.code # ""
  <2>1. c # ""
    OBVIOUS
  <2>2. e.code = c
    BY <1>6, EditFields
  <2> QED BY <1>6, <2>1, <2>2
<1> QED BY <1>1, <1>4, <1>5, <1>6

LEMMA JoinIsText ==
  ASSUME NEW s \in Text, NEW t \in Text
  PROVE  s \o t \in Text
  BY ConcatProperties DEF Text

LEMMA ReplaceFirstIsText ==
  ASSUME NEW t \in Text, NEW pat \in Text, NEW new \in Text, Occurrences(t, pat) # {}
  PROVE  ReplaceFirst(t, pat, new) \in Text
<1>0. Len(t) \in Nat /\ Len(pat) \in Nat
  BY DEF Text
<1>1. PICK found \in SUBSET Nat :
        /\ found = Occurrences(t, pat)
        /\ \A i \in found : i \in 1..(Len(t) - Len(pat) + 1)
  <2>1. Occurrences(t, pat) \subseteq 1..(Len(t) - Len(pat) + 1)
    BY DEF Occurrences
  <2>2. 1..(Len(t) - Len(pat) + 1) \subseteq Nat
    BY <1>0
  <2> QED BY <2>1, <2>2
<1>2. PICK i \in 1..(Len(t) - Len(pat) + 1) : i = Min(found)
  BY <1>1, MinIsLeast
<1>3. ReplaceFirst(t, pat, new) = SubSeq(t, 1, i - 1) \o new \o SubSeq(t, i + Len(pat), Len(t))
  BY <1>1, <1>2 DEF ReplaceFirst, ReplaceSubSeqAt
<1>4. SubSeq(t, 1, i - 1) \in Text
  BY <1>0, PieceIsText
<1>5. SubSeq(t, i + Len(pat), Len(t)) \in Text
  BY <1>0, PieceIsText
<1> QED BY <1>3, <1>4, <1>5, JoinIsText

LEMMA LineByLineIsText ==
  ASSUME NEW t \in Text, NEW old \in Text, NEW new \in Text
  PROVE  /\ LineByLine(t, old, new).text \in Text
         /\ LineByLine(t, old, new).code \in {"", "ERR_EDIT_NO_MATCH", "ERR_EDIT_AMBIGUOUS"}
<1> DEFINE breaks == {0, Len(t) + 1} \cup {i \in 1..Len(t) : t[i] = LF}
           blocks == {b \in breaks \X breaks :
                        b[1] < b[2] /\ Skeleton[SubSeq(t, b[1] + 1, b[2] - 1)]
                                       = Skeleton[TrimSpace[old]]}
           block == CHOOSE b \in blocks : TRUE
           edited(b) == SubSeq(t, 1, b[1]) \o new \o SubSeq(t, b[2], Len(t))
<1>0. Len(t) \in Nat /\ <<>> \in Text
  BY DEF Text
<1>1. LineByLine(t, old, new) =
        IF blocks = {} THEN Failed("ERR_EDIT_NO_MATCH")
        ELSE IF \E b, c \in blocks : b # c THEN Failed("ERR_EDIT_AMBIGUOUS")
        ELSE Replaced(edited(block))
  BY DEF LineByLine
<1>2. \A b \in blocks : b[1] \in Nat /\ b[2] \in Nat \ {0} /\ b[1] <= Len(t)
  BY <1>0
<1>3. \A b \in blocks : edited(b) \in Text
  <2> HIDE DEF blocks
  <2> SUFFICES ASSUME NEW b \in blocks PROVE edited(b) \in Text
    OBVIOUS
  <2>1. SubSeq(t, 1, b[1]) \in Text /\ SubSeq(t, b[2], Len(t)) \in Text
    BY <1>0, <1>2, PieceIsText
  <2> QED BY <2>1, JoinIsText
<1>4. blocks # {} => block \in blocks
  OBVIOUS
<1> HIDE DEF blocks, block, edited
<1>5. CASE blocks = {}
  <2>1. LineByLine(t, old, new) = Failed("ERR_EDIT_NO_MATCH")
    BY <1>1, <1>5
  <2> QED BY <1>0, <2>1, EditFields
<1>6. CASE blocks # {} /\ \E b, c \in blocks : b # c
  <2>1. LineByLine(t, old, new) = Failed("ERR_EDIT_AMBIGUOUS")
    BY <1>1, <1>6
  <2> QED BY <1>0, <2>1, EditFields
<1>7. CASE blocks # {} /\ ~ \E b, c \in blocks : b # c
  <2>1. LineByLine(t, old, new) = Replaced(edited(block))
    BY <1>1, <1>7
  <2>2. edited(block) \in Text
    BY <1>3, <1>4, <1>7
  <2> QED BY <2>1, <2>2, EditFields
<1> QED BY <1>5, <1>6, <1>7

\* What an edit writes is a text, and it is refused with one of two codes.
LEMMA EditIsText ==
  ASSUME NEW t \in Text, NEW old \in Text, NEW new \in Text
  PROVE  /\ FuzzyReplace(t, old, new).text \in Text
         /\ FuzzyReplace(t, old, new).code \in {"", "ERR_EDIT_NO_MATCH", "ERR_EDIT_AMBIGUOUS"}
<1>0. <<>> \in Text
  BY DEF Text
<1>1. PICK text \in Text, pattern \in Text, trimmed \in Text :
        text = Normalize[t] /\ pattern = Normalize[old] /\ trimmed = TrimSpace[pattern]
  BY NormalizeIsText, TrimSpaceIsText
<1>2. ASSUME NEW s \in Text, NEW pat \in Text, Count(s, pat) = 1
      PROVE  ReplaceFirst(s, pat, new) \in Text
  <2>1. Occurrences(s, pat) # {}
    BY <1>2 DEF Count
  <2> QED BY <2>1, ReplaceFirstIsText
<1>4. CASE Count(t, old) = 1
  BY <1>2, <1>4 DEF FuzzyReplace, Replaced
<1>5. CASE Count(t, old) # 1 /\ Count(t, old) > 1
  BY <1>0, <1>5 DEF FuzzyReplace, Failed
<1>6. CASE ~ (Count(t, old) = 1) /\ ~ (Count(t, old) > 1) /\ Count(text, pattern) = 1
  BY <1>1, <1>2, <1>6 DEF FuzzyReplace, Replaced
<1>7. CASE /\ ~ (Count(t, old) = 1) /\ ~ (Count(t, old) > 1) /\ ~ (Count(text, pattern) = 1)
           /\ trimmed # <<>> /\ Count(text, trimmed) = 1
  BY <1>1, <1>2, <1>7 DEF FuzzyReplace, Replaced
<1>8. CASE /\ ~ (Count(t, old) = 1) /\ ~ (Count(t, old) > 1) /\ ~ (Count(text, pattern) = 1)
           /\ ~ (trimmed # <<>> /\ Count(text, trimmed) = 1)
  <2>1. FuzzyReplace(t, old, new) = LineByLine(text, pattern, new)
    BY <1>1, <1>8 DEF FuzzyReplace
  <2> QED BY <2>1, LineByLineIsText
<1> QED BY <1>4, <1>5, <1>6, <1>7, <1>8

-----------------------------------------------------------------------------
(* The invariants. *)

\* What the runs, the batch and the history hold.
BatchInv ==
  /\ todo \in Seq(Seq(Seq(Calls)))
  /\ batch \in Seq(Calls)
  /\ failures \in Seq(SUBSET Calls)
  /\ base \in [DOMAIN base -> Text]
  /\ DOMAIN table \subseteq Calls

\* Where a call can be: only a call that mutates opens and writes a file, only
\* bash has a process, and nobody is on the way when no batch runs.
PlaceInv ==
  /\ \A i \in DOMAIN batch :
       /\ at[i] = "read" => batch[i].tool \in {"file_reader", "file_editor"}
       /\ at[i] \in {"create", "write"} => Mutates(batch[i])
       /\ at[i] = "wait" => batch[i].tool = "bash"
  /\ pc # "exec" => \A i \in DOMAIN batch : at[i] \in Over

\* The fingerprint failed in each of the last n turns and not in the one before.
Counted(fp, n) ==
  /\ n \in 0..Len(failures)
  /\ \A k \in (Len(failures) - n + 1)..Len(failures) : fp \in failures[k]
  /\ n < Len(failures) => fp \notin failures[Len(failures) - n]

\* The table counts, and the notice is the table's.
CountInv ==
  /\ \A fp : Counted(fp, CountOf(fp))
  /\ notice = NoticeOf(table)

\* The calls that have written a file, all or a part of their content, and those
\* that have opened it and not written it yet.
Wrote(p)   == {i \in CallsOn(p) : (at[i] = "back" /\ Succeeded(i)) \/ at[i] = "torn"}
Opening(p) == {i \in CallsOn(p) : at[i] = "write"}

Untouched(p) ==
  /\ p \in DOMAIN disk <=> p \in DOMAIN base
  /\ p \in DOMAIN disk => disk[p] = base[p]

FromWriters(p) ==
  \A k \in DOMAIN disk[p] : \E i \in Wrote(p) : k \in DOMAIN buf[i] /\ buf[i][k] = disk[p][k]

\* While a batch runs: a file that nobody has opened is as it was; any other
\* holds what its writers wrote, and begins with all that one of them wrote
\* unless somebody is about to write it.
FileInv(p) ==
  IF Wrote(p) = {} /\ Opening(p) = {} THEN Untouched(p)
  ELSE /\ p \in DOMAIN disk
       /\ FromWriters(p)
       /\ Opening(p) = {} => \E i \in Wrote(p) : IsPrefix(buf[i], disk[p])

WriteInv == \A p : FileInv(p)

-----------------------------------------------------------------------------
(* Types. *)

Labels  == {"ready", "read", "create", "write", "wait", "back", "torn"}
Procs   == [main : {"none", "running", "killed", "0", "1", "2", "2 syntax", "127"},
            output : BOOLEAN, late : BOOLEAN]
Results == [error : BOOLEAN, code : Codes, out : Text, hint : BOOLEAN]

\* The part of TypeOK that the goroutines work on.
WorkerTypes ==
  /\ at \in [DOMAIN batch -> Labels]
  /\ buf \in [DOMAIN batch -> Text]
  /\ proc \in [DOMAIN batch -> Procs]
  /\ result \in [DOMAIN batch -> Results]
  /\ disk \in [DOMAIN disk -> Text]

CounterTypes ==
  /\ table \in [DOMAIN table -> Nat \ {0}]
  /\ notice \in [count : Nat, tools : SUBSET Names]

LEMMA TypesAreParts ==
  TypeOK <=> pc \in {"ask", "exec", "done"} /\ WorkerTypes /\ CounterTypes
<1>1. {"ready", "read", "create", "write", "wait"} \cup Over = Labels
  BY DEF Labels, Over
<1> QED BY <1>1 DEF TypeOK, WorkerTypes, CounterTypes, Procs, Results

LEMMA CallFields ==
  ASSUME NEW c \in Calls
  PROVE  /\ c.tool \in Names
         /\ c.tool \in {"file_reader", "file_writer", "file_editor"} => c.path \in STRING
         /\ c.tool = "file_writer" => c.content \in Text
         /\ c.tool = "file_editor" => c.old \in Text /\ c.new \in Text
<1>1. CASE c \in [tool : {"file_reader"}, keys : Keys, path : STRING]
  BY <1>1 DEF Names, Tools
<1>2. CASE c \in [tool : {"file_writer"}, keys : Keys, path : STRING, content : Text]
  BY <1>2 DEF Names, Tools
<1>3. CASE c \in [tool : {"file_editor"}, keys : Keys, path : STRING, old : Text, new : Text]
  BY <1>3 DEF Names, Tools
<1>4. CASE c \in [tool : {"bash"}, keys : Keys, command : STRING]
  BY <1>4 DEF Names, Tools
<1>5. CASE c \in [tool : STRING \ Tools, keys : Keys, path : STRING]
  BY <1>5 DEF Names, Tools
<1> QED BY <1>1, <1>2, <1>3, <1>4, <1>5 DEF Calls

LEMMA EmptyText == <<>> \in Text
  BY DEF Text

LEMMA OutcomeTypes ==
  /\ \A out \in Text : Ok(out) \in Results /\ Ok(out).code = ""
  /\ \A code \in Codes : Hard(code) \in Results /\ Hard(code).code = code
  /\ \A code \in Codes : Soft(code) \in Results /\ Soft(code).code = code
  /\ None \in Results /\ None.code = "none"
<1>1. ASSUME NEW e \in BOOLEAN, NEW c \in Codes, NEW o \in Text
      PROVE  Outcome(e, c, o) \in Results /\ Outcome(e, c, o).code = c
  <2>1. PICK h \in BOOLEAN : h = (c \in Advised)
    BY MembershipIsBoolean
  <2> QED BY <2>1 DEF Outcome, Results
<1>2. <<>> \in Text
  BY DEF Text
<1>3. "none" \in Codes /\ "" \in Codes
  BY DEF Codes
<1> QED BY <1>1, <1>2, <1>3 DEF Ok, Hard, Soft, None

-----------------------------------------------------------------------------
(* What a step of a goroutine does: it answers without a write, or opens the *)
(* file, or writes it; the other goroutines stay where they are.             *)

Others(i) ==
  \A j \in DOMAIN batch \ {i} : at'[j] = at[j] /\ buf'[j] = buf[j] /\ result'[j] = result[j]

Quiet(i) ==
  /\ disk' = disk
  /\ at[i] \notin {"back", "torn", "write"} /\ at'[i] \notin {"write", "torn"}
  /\ Mutates(batch[i]) /\ at'[i] = "back" => result'[i].code # ""

Opens(i) ==
  /\ at[i] = "create" /\ at'[i] = "write"
  /\ disk' = Opened(batch[i].path)

Writes(i) ==
  /\ at[i] = "write"
  /\ \/ at'[i] = "back" /\ buf'[i] = buf[i] /\ result'[i].code = ""
     \/ at'[i] = "torn" /\ buf'[i] \in Text /\ result'[i].code = "ERR_IO_FAILURE"
  /\ disk' = [disk EXCEPT ![batch[i].path] = Overlay(buf'[i], @)]

\* Where a call may be.
Placed(i) ==
  /\ at[i] = "read" => batch[i].tool \in {"file_reader", "file_editor"}
  /\ at[i] \in {"create", "write"} => Mutates(batch[i])
  /\ at[i] = "wait" => batch[i].tool = "bash"

Step(i) ==
  /\ WorkerTypes' /\ Placed(i)'
  /\ UNCHANGED calm
  /\ Others(i)
  /\ Quiet(i) \/ Opens(i) \/ Writes(i)

WorkerPre(i) ==
  /\ WorkerTypes /\ batch \in Seq(Calls) /\ i \in DOMAIN batch /\ Placed(i)

LEMMA AnswerFacts ==
  ASSUME NEW i, WorkerPre(i), NEW r \in Results, Answer(i, r)
  PROVE  /\ at' \in [DOMAIN batch -> Labels] /\ result' \in [DOMAIN batch -> Results]
         /\ at'[i] = "back" /\ result'[i] = r
         /\ \A j \in DOMAIN batch \ {i} : at'[j] = at[j] /\ result'[j] = result[j]
<1>1. i \in DOMAIN batch /\ at \in [DOMAIN batch -> Labels] /\ result \in [DOMAIN batch -> Results]
  BY DEF WorkerPre, WorkerTypes
<1>2. at' = [at EXCEPT ![i] = "back"] /\ result' = [result EXCEPT ![i] = r]
  BY DEF Answer, Goto
<1>3. "back" \in Labels
  BY DEF Labels
<1> QED BY <1>1, <1>2, <1>3

LEMMA GotoFacts ==
  ASSUME NEW i, WorkerPre(i), NEW label \in Labels, Goto(i, label)
  PROVE  /\ at' \in [DOMAIN batch -> Labels]
         /\ at'[i] = label
         /\ \A j \in DOMAIN batch \ {i} : at'[j] = at[j]
<1>1. i \in DOMAIN batch /\ at \in [DOMAIN batch -> Labels]
  BY DEF WorkerPre, WorkerTypes
<1> QED BY <1>1 DEF Goto

\* The parts of the state that a step leaves alone keep their types.
LEMMA SameTypes ==
  ASSUME NEW i, WorkerPre(i), UNCHANGED calm
  PROVE  /\ DOMAIN batch' = DOMAIN batch /\ batch'[i] = batch[i]
         /\ disk \in [DOMAIN disk -> Text] /\ buf \in [DOMAIN batch -> Text]
         /\ proc \in [DOMAIN batch -> Procs] /\ result \in [DOMAIN batch -> Results]
         /\ at \in [DOMAIN batch -> Labels]
         /\ i \in DOMAIN batch /\ batch[i] \in Calls
<1>1. batch' = batch
  BY DEF calm
<1>2. WorkerTypes /\ batch \in Seq(Calls) /\ i \in DOMAIN batch
  BY DEF WorkerPre
<1>3. batch[i] \in Calls
  BY <1>2
<1> QED BY <1>1, <1>2, <1>3 DEF WorkerTypes

LEMMA EnterStep ==
  ASSUME NEW i, WorkerPre(i), Enter(i)
  PROVE  Step(i)
<1>1. UNCHANGED calm /\ disk' = disk /\ at[i] = "ready"
  BY DEF Enter
<1>2. /\ batch' = batch /\ DOMAIN batch' = DOMAIN batch
      /\ disk \in [DOMAIN disk -> Text] /\ buf \in [DOMAIN batch -> Text]
      /\ proc \in [DOMAIN batch -> Procs] /\ result \in [DOMAIN batch -> Results]
      /\ i \in DOMAIN batch /\ batch[i] \in Calls
  BY <1>1, SameTypes DEF calm
<1>3. PICK code \in Barriers(batch[i]) :
        IF code # "" THEN Answer(i, Hard(code)) /\ UNCHANGED <<buf, proc>>
        ELSE /\ UNCHANGED result
             /\ Goto(i, CASE batch[i].tool = "file_writer" -> "create"
                          [] batch[i].tool = "bash"        -> "wait"
                          [] OTHER                         -> "read")
             /\ buf' = [buf EXCEPT ![i] = IF batch[i].tool = "file_writer"
                                          THEN batch[i].content ELSE <<>>]
             /\ proc' = [proc EXCEPT ![i] =
                  IF batch[i].tool # "bash" THEN NoProc
                  ELSE [main |-> "running", output |-> batch[i].command \in Daemons,
                        late |-> FALSE]]
  BY DEF Enter
<1>4. CASE code # ""
  <2>1. code \in Codes
    <3>1. code \in {"ERR_TOOL_NOT_FOUND", "ERR_CALL_INTERCEPTED", "ERR_UNKNOWN",
                   "ERR_INVALID_ARGS", "ERR_PATH_ESCAPE"}
      BY <1>3, <1>4 DEF Barriers
    <3> QED BY <3>1 DEF Codes, Advised
  <2>2. Hard(code) \in Results /\ Hard(code).code = code
    BY <2>1, OutcomeTypes
  <2>3. Answer(i, Hard(code)) /\ buf' = buf /\ proc' = proc
    BY <1>3, <1>4
  <2>4. /\ at' \in [DOMAIN batch -> Labels] /\ result' \in [DOMAIN batch -> Results]
        /\ at'[i] = "back" /\ result'[i] = Hard(code)
        /\ \A j \in DOMAIN batch \ {i} : at'[j] = at[j] /\ result'[j] = result[j]
    BY <2>2, <2>3, AnswerFacts
  <2>5. WorkerTypes' /\ Placed(i)'
    BY <1>1, <1>2, <2>3, <2>4 DEF WorkerTypes, Placed
  <2>6. Others(i) /\ Quiet(i)
    BY <1>1, <1>4, <2>2, <2>3, <2>4 DEF Others, Quiet
  <2> QED BY <1>1, <2>5, <2>6 DEF Step
<1>5. CASE code = ""
  <2>1. batch[i].tool \in Registered /\ Registered \subseteq Tools
    BY <1>3, <1>5, BatchAssumption DEF Barriers
  <2>2. PICK label : label = CASE batch[i].tool = "file_writer" -> "create"
                               [] batch[i].tool = "bash"        -> "wait"
                               [] OTHER                         -> "read"
    OBVIOUS
  <2>3. /\ batch[i].tool = "file_writer" => label = "create"
        /\ batch[i].tool = "bash" => label = "wait"
        /\ batch[i].tool \in {"file_reader", "file_editor"} => label = "read"
    BY <2>2
  <2>4. batch[i].tool \in {"file_writer", "bash", "file_reader", "file_editor"}
    BY <2>1 DEF Tools
  <2>5. label \in {"create", "wait", "read"} /\ label \in Labels
    BY <2>3, <2>4 DEF Labels
  <2>6. Goto(i, label) /\ result' = result
    BY <1>3, <1>5, <2>2
  <2>7. /\ at' \in [DOMAIN batch -> Labels] /\ at'[i] = label
        /\ \A j \in DOMAIN batch \ {i} : at'[j] = at[j]
    BY <2>5, <2>6, GotoFacts
  <2>8. PICK text \in Text : buf' = [buf EXCEPT ![i] = text]
    <3>1. <<>> \in Text
      BY DEF Text
    <3>2. (IF batch[i].tool = "file_writer" THEN batch[i].content ELSE <<>>) \in Text
      BY <1>2, <3>1, CallFields
    <3> QED BY <1>3, <1>5, <3>2
  <2>9. PICK p \in Procs : proc' = [proc EXCEPT ![i] = p]
    <3>1. PICK d \in BOOLEAN : d = (batch[i].command \in Daemons)
      BY MembershipIsBoolean
    <3>2. NoProc \in Procs /\ [main |-> "running", output |-> d, late |-> FALSE] \in Procs
      BY DEF NoProc, Procs
    <3> QED BY <1>3, <1>5, <3>1, <3>2
  <2>10. buf' \in [DOMAIN batch -> Text] /\ \A j \in DOMAIN batch \ {i} : buf'[j] = buf[j]
    BY <1>2, <2>8
  <2>11. proc' \in [DOMAIN batch -> Procs]
    BY <1>2, <2>9
  <2>12. WorkerTypes'
    BY <1>1, <1>2, <2>6, <2>7, <2>10, <2>11 DEF WorkerTypes
  <2>13. Placed(i)'
    BY <1>2, <2>3, <2>4, <2>7 DEF Placed, Mutates
  <2>14. Others(i) /\ Quiet(i)
    BY <1>1, <2>5, <2>6, <2>7, <2>10 DEF Others, Quiet
  <2> QED BY <1>1, <2>12, <2>13, <2>14 DEF Step
<1> QED BY <1>4, <1>5

\* A read, or an opening, that fails.
LEMMA RefusedStep ==
  ASSUME NEW i, WorkerPre(i), ReadFails(i) \/ CreateFails(i)
  PROVE  Step(i)
<1>1. /\ UNCHANGED calm /\ disk' = disk /\ buf' = buf /\ proc' = proc
      /\ at[i] \in {"read", "create"}
  BY DEF ReadFails, CreateFails
<1>2. /\ batch' = batch /\ DOMAIN batch' = DOMAIN batch
      /\ disk \in [DOMAIN disk -> Text] /\ buf \in [DOMAIN batch -> Text]
      /\ proc \in [DOMAIN batch -> Procs] /\ result \in [DOMAIN batch -> Results]
  BY <1>1, SameTypes DEF calm
<1>3. PICK code \in SysErrors : Answer(i, Hard(code))
  BY DEF ReadFails, CreateFails
<1>4. code \in Codes /\ code # ""
  BY DEF SysErrors, Codes, Advised
<1>5. Hard(code) \in Results /\ Hard(code).code = code
  BY <1>4, OutcomeTypes
<1>6. /\ at' \in [DOMAIN batch -> Labels] /\ result' \in [DOMAIN batch -> Results]
      /\ at'[i] = "back" /\ result'[i] = Hard(code)
      /\ \A j \in DOMAIN batch \ {i} : at'[j] = at[j] /\ result'[j] = result[j]
  BY <1>3, <1>5, AnswerFacts
<1>7. WorkerTypes' /\ Placed(i)'
  BY <1>1, <1>2, <1>6 DEF WorkerTypes, Placed
<1>8. Others(i) /\ Quiet(i)
  BY <1>1, <1>4, <1>5, <1>6 DEF Others, Quiet
<1> QED BY <1>1, <1>7, <1>8 DEF Step

LEMMA ReadStep ==
  ASSUME NEW i, WorkerPre(i), Read(i)
  PROVE  Step(i)
<1>1. UNCHANGED calm /\ disk' = disk /\ proc' = proc /\ at[i] = "read"
  BY DEF Read
<1>2. /\ batch' = batch /\ DOMAIN batch' = DOMAIN batch
      /\ disk \in [DOMAIN disk -> Text] /\ buf \in [DOMAIN batch -> Text]
      /\ proc \in [DOMAIN batch -> Procs] /\ result \in [DOMAIN batch -> Results]
      /\ i \in DOMAIN batch /\ batch[i] \in Calls
  BY <1>1, SameTypes DEF calm
<1>3. batch[i].tool \in {"file_reader", "file_editor"} /\ batch[i].path \in STRING
  BY <1>1, <1>2, CallFields DEF WorkerPre, Placed
\* An answer that is not a write.
<1>4. ASSUME NEW r \in Results, Answer(i, r), buf' = buf,
             Mutates(batch[i]) => r.code # ""
      PROVE  Step(i)
  <2>1. /\ at' \in [DOMAIN batch -> Labels] /\ result' \in [DOMAIN batch -> Results]
        /\ at'[i] = "back" /\ result'[i] = r
        /\ \A j \in DOMAIN batch \ {i} : at'[j] = at[j] /\ result'[j] = result[j]
    BY <1>4, AnswerFacts
  <2>2. WorkerTypes' /\ Placed(i)'
    BY <1>1, <1>2, <1>4, <2>1 DEF WorkerTypes, Placed
  <2>3. Others(i) /\ Quiet(i)
    BY <1>1, <1>4, <2>1 DEF Others, Quiet
  <2> QED BY <1>1, <2>2, <2>3 DEF Step
<1>5. CASE batch[i].path \notin DOMAIN disk
  <2>1. Answer(i, Hard("ERR_FILE_NOT_FOUND")) /\ buf' = buf
    BY <1>5 DEF Read
  <2>2. "ERR_FILE_NOT_FOUND" \in Codes
    BY DEF Codes, Advised
  <2>3. Hard("ERR_FILE_NOT_FOUND") \in Results /\ Hard("ERR_FILE_NOT_FOUND").code # ""
    BY <2>2, OutcomeTypes
  <2> QED BY <1>4, <2>1, <2>3
<1>6. CASE batch[i].path \in DOMAIN disk /\ batch[i].tool = "file_reader"
  <2>1. Answer(i, Ok(Content(batch[i].path))) /\ buf' = buf
    BY <1>6 DEF Read
  <2>2. disk[batch[i].path] \in Text /\ <<batch[i].path>> \in Text
    BY <1>2, <1>3, <1>6 DEF Text
  <2>3. Content(batch[i].path) \in Text
    BY <2>2 DEF Content
  <2>4. Ok(Content(batch[i].path)) \in Results
    BY <2>3, OutcomeTypes
  <2>5. ~ Mutates(batch[i])
    BY <1>6 DEF Mutates
  <2> QED BY <1>4, <2>1, <2>4, <2>5
<1>7. CASE batch[i].path \in DOMAIN disk /\ batch[i].tool # "file_reader"
  <2>1. PICK e : e = FuzzyReplace(disk[batch[i].path], OldContent(batch[i]), NewContent(batch[i]))
    OBVIOUS
  <2>2. IF e.code # "" THEN Answer(i, Hard(e.code)) /\ buf' = buf
        ELSE Goto(i, "create") /\ buf' = [buf EXCEPT ![i] = e.text] /\ result' = result
    BY <1>7, <2>1 DEF Read
  <2>3. e.text \in Text /\ e.code \in {"", "ERR_EDIT_NO_MATCH", "ERR_EDIT_AMBIGUOUS"}
    <3>1. <<>> \in Text
      BY DEF Text
    <3>2. OldContent(batch[i]) \in Text /\ NewContent(batch[i]) \in Text
      BY <1>2, <1>3, <1>7, <3>1, CallFields DEF OldContent, NewContent
    <3>3. disk[batch[i].path] \in Text
      BY <1>2, <1>7
    <3> QED BY <2>1, <3>2, <3>3, EditIsText
  <2>4. CASE e.code # ""
    <3>1. e.code \in Codes
      BY <2>3 DEF Codes, Advised
    <3>2. Hard(e.code) \in Results /\ Hard(e.code).code = e.code
      BY <3>1, OutcomeTypes
    <3> QED BY <1>4, <2>2, <2>4, <3>2
  <2>5. CASE e.code = ""
    <3>1. Goto(i, "create") /\ buf' = [buf EXCEPT ![i] = e.text] /\ result' = result
      BY <2>2, <2>5
    <3>2. "create" \in Labels
      BY DEF Labels
    <3>3. /\ at' \in [DOMAIN batch -> Labels] /\ at'[i] = "create"
          /\ \A j \in DOMAIN batch \ {i} : at'[j] = at[j]
      BY <3>1, <3>2, GotoFacts
    <3>4. buf' \in [DOMAIN batch -> Text] /\ \A j \in DOMAIN batch \ {i} : buf'[j] = buf[j]
      BY <1>2, <2>3, <3>1
    <3>5. WorkerTypes' /\ Placed(i)'
      BY <1>1, <1>2, <1>3, <1>7, <3>1, <3>3, <3>4 DEF WorkerTypes, Placed, Mutates
    <3>6. Others(i) /\ Quiet(i)
      BY <1>1, <3>1, <3>3, <3>4 DEF Others, Quiet
    <3> QED BY <1>1, <3>5, <3>6 DEF Step
  <2> QED BY <2>4, <2>5
<1> QED BY <1>5, <1>6, <1>7

LEMMA CreateStep ==
  ASSUME NEW i, WorkerPre(i), CreateFile(i)
  PROVE  Step(i)
<1>1. UNCHANGED calm /\ buf' = buf /\ proc' = proc /\ at[i] = "create"
  BY DEF CreateFile
<1>2. /\ batch' = batch /\ DOMAIN batch' = DOMAIN batch
      /\ disk \in [DOMAIN disk -> Text] /\ buf \in [DOMAIN batch -> Text]
      /\ proc \in [DOMAIN batch -> Procs] /\ result \in [DOMAIN batch -> Results]
      /\ i \in DOMAIN batch /\ batch[i] \in Calls
  BY <1>1, SameTypes DEF calm
<1>3. Mutates(batch[i])
  BY <1>1 DEF WorkerPre, Placed
<1>4. disk' = Opened(batch[i].path) /\ Goto(i, "write") /\ result' = result
  BY DEF CreateFile
<1>5. "write" \in Labels /\ <<>> \in Text
  BY DEF Labels, Text
<1>6. /\ at' \in [DOMAIN batch -> Labels] /\ at'[i] = "write"
      /\ \A j \in DOMAIN batch \ {i} : at'[j] = at[j]
  BY <1>4, <1>5, GotoFacts
<1>7. disk' \in [DOMAIN disk' -> Text]
  BY <1>2, <1>4, <1>5 DEF Opened
<1>8. WorkerTypes' /\ Placed(i)'
  BY <1>1, <1>2, <1>3, <1>4, <1>6, <1>7 DEF WorkerTypes, Placed, Mutates
<1>9. Others(i) /\ Opens(i)
  BY <1>1, <1>4, <1>6 DEF Others, Opens
<1> QED BY <1>1, <1>8, <1>9 DEF Step

\* What is written over a text begins with it and ends as the text did.
LEMMA OverlayFacts ==
  ASSUME NEW s \in Text, NEW t \in Text
  PROVE  /\ Overlay(s, t) \in Text
         /\ IsPrefix(s, Overlay(s, t))
         /\ \A k \in DOMAIN Overlay(s, t) :
              \/ k \in DOMAIN s /\ Overlay(s, t)[k] = s[k]
              \/ k \in DOMAIN t /\ Overlay(s, t)[k] = t[k]
<1> DEFINE rest == SubSeq(t, Len(s) + 1, Len(t))
<1>0. /\ s \in Seq(STRING) /\ t \in Seq(STRING) /\ Len(s) \in Nat /\ Len(t) \in Nat
      /\ DOMAIN s = 1..Len(s) /\ DOMAIN t = 1..Len(t)
  BY DEF Text
<1>1. rest \in Seq(STRING)
  <2>1. rest \in Text
    BY <1>0, PieceIsText
  <2> QED BY <2>1 DEF Text
<1>2. \A k \in 1..Len(rest) : Len(s) + k \in 1..Len(t) /\ rest[k] = t[Len(s) + k]
  BY <1>0
<1> HIDE DEF rest
<1>3. Len(rest) \in Nat
  BY <1>1
<1>4. /\ s \o rest \in Seq(STRING)
      /\ Len(s \o rest) = Len(s) + Len(rest)
      /\ \A k \in 1..Len(s) : (s \o rest)[k] = s[k]
      /\ \A k \in (Len(s) + 1)..(Len(s) + Len(rest)) : (s \o rest)[k] = rest[k - Len(s)]
  BY <1>0, <1>1, <1>3, ConcatProperties
<1>5. PICK o \in Seq(STRING) : o = s \o rest /\ Overlay(s, t) = o
  BY <1>4 DEF Overlay, rest
<1>6. DOMAIN o = 1..(Len(s) + Len(rest))
  BY <1>4, <1>5
<1>7. \A k \in DOMAIN o : \/ k \in DOMAIN s /\ o[k] = s[k]
                          \/ k \in DOMAIN t /\ o[k] = t[k]
  <2> SUFFICES ASSUME NEW k \in DOMAIN o, k \notin 1..Len(s)
               PROVE  k \in DOMAIN t /\ o[k] = t[k]
    BY <1>0, <1>4, <1>5
  <2>1. k \in (Len(s) + 1)..(Len(s) + Len(rest)) /\ k - Len(s) \in 1..Len(rest)
    BY <1>0, <1>3, <1>6
  <2>2. o[k] = rest[k - Len(s)]
    BY <1>4, <1>5, <2>1
  <2>3. Len(s) + (k - Len(s)) = k
    BY <1>0, <2>1
  <2> QED BY <1>0, <1>2, <2>1, <2>2, <2>3
<1>8. IsPrefix(s, o)
  <2>1. Len(s) <= Len(o)
    BY <1>0, <1>3, <1>4, <1>5
  <2>2. SubSeq(s, 1, Len(s)) = SubSeq(o, 1, Len(s))
    BY <1>0, <1>4, <1>5, <2>1
  <2> QED BY <2>1, <2>2 DEF IsPrefix
<1> QED BY <1>5, <1>7, <1>8 DEF Text

LEMMA WriteStep ==
  ASSUME NEW i, WorkerPre(i), WriteFile(i)
  PROVE  Step(i)
<1>1. /\ UNCHANGED calm /\ buf' = buf /\ proc' = proc /\ at[i] = "write"
      /\ disk' = [disk EXCEPT ![batch[i].path] = Overlay(buf[i], @)]
      /\ Answer(i, Ok(<<>>))
  BY DEF WriteFile
<1>2. /\ batch' = batch /\ DOMAIN batch' = DOMAIN batch
      /\ disk \in [DOMAIN disk -> Text] /\ buf \in [DOMAIN batch -> Text]
      /\ proc \in [DOMAIN batch -> Procs] /\ result \in [DOMAIN batch -> Results]
      /\ i \in DOMAIN batch /\ batch[i] \in Calls
  BY <1>1, SameTypes DEF calm
<1>3. Ok(<<>>) \in Results /\ Ok(<<>>).code = ""
  BY EmptyText, OutcomeTypes
<1>4. /\ at' \in [DOMAIN batch -> Labels] /\ result' \in [DOMAIN batch -> Results]
      /\ at'[i] = "back" /\ result'[i] = Ok(<<>>)
      /\ \A j \in DOMAIN batch \ {i} : at'[j] = at[j] /\ result'[j] = result[j]
  BY <1>1, <1>3, AnswerFacts
<1>5. disk' \in [DOMAIN disk -> Text] /\ DOMAIN disk' = DOMAIN disk
  <2>1. \A p \in DOMAIN disk : Overlay(buf[i], disk[p]) \in Text
    BY <1>2, OverlayFacts
  <2> QED BY <1>1, <1>2, <2>1
<1>6. WorkerTypes' /\ Placed(i)'
  BY <1>1, <1>2, <1>4, <1>5 DEF WorkerTypes, Placed
<1>7. Others(i) /\ Writes(i)
  BY <1>1, <1>3, <1>4 DEF Others, Writes
<1> QED BY <1>1, <1>6, <1>7 DEF Step

LEMMA TornStep ==
  ASSUME NEW i, WorkerPre(i), WriteFails(i)
  PROVE  /\ Step(i)
         /\ at'[i] = "torn" /\ result'[i].code = "ERR_IO_FAILURE"
         /\ \E n \in 0..Len(buf[i]) : buf'[i] = SubSeq(buf[i], 1, n)
<1>1. /\ UNCHANGED calm /\ proc' = proc /\ at[i] = "write" /\ Goto(i, "torn")
      /\ disk' = [disk EXCEPT ![batch[i].path] = Overlay(buf'[i], @)]
      /\ result' = [result EXCEPT ![i] = Hard("ERR_IO_FAILURE")]
  BY DEF WriteFails
<1>2. /\ batch' = batch /\ DOMAIN batch' = DOMAIN batch
      /\ disk \in [DOMAIN disk -> Text] /\ buf \in [DOMAIN batch -> Text]
      /\ proc \in [DOMAIN batch -> Procs] /\ result \in [DOMAIN batch -> Results]
      /\ i \in DOMAIN batch
  BY <1>1, SameTypes DEF calm
<1>3. PICK n \in 0..Len(buf[i]) : buf' = [buf EXCEPT ![i] = SubSeq(@, 1, n)]
  BY DEF WriteFails
<1>4. PICK part \in Text : part = SubSeq(buf[i], 1, n)
  <2>1. PICK t \in Text : t = buf[i]
    BY <1>2
  <2>2. 1 \in Nat \ {0} /\ n \in Int /\ n <= Len(t)
    BY <2>1, <1>3, TextFacts
  <2>3. SubSeq(t, 1, n) \in Text
    BY <2>2, PieceIsText
  <2> QED BY <2>1, <2>3
<1>5. /\ buf' \in [DOMAIN batch -> Text] /\ buf'[i] = part
      /\ \A j \in DOMAIN batch \ {i} : buf'[j] = buf[j]
  BY <1>2, <1>3, <1>4
<1>6. "ERR_IO_FAILURE" \in Codes /\ "torn" \in Labels
  BY DEF Codes, Labels
<1>7. PICK h \in Results : h = Hard("ERR_IO_FAILURE") /\ h.code = "ERR_IO_FAILURE"
  BY <1>6, OutcomeTypes
<1>8. /\ result' \in [DOMAIN batch -> Results] /\ result'[i] = h
      /\ \A j \in DOMAIN batch \ {i} : result'[j] = result[j]
  BY <1>1, <1>2, <1>7
<1>9. /\ at' \in [DOMAIN batch -> Labels] /\ at'[i] = "torn"
      /\ \A j \in DOMAIN batch \ {i} : at'[j] = at[j]
  BY <1>1, <1>6, GotoFacts
<1>10. disk' \in [DOMAIN disk -> Text] /\ DOMAIN disk' = DOMAIN disk
  <2>1. \A p \in DOMAIN disk : Overlay(part, disk[p]) \in Text
    BY <1>2, OverlayFacts
  <2> QED BY <1>1, <1>2, <1>5, <2>1
<1>11. WorkerTypes' /\ Placed(i)'
  BY <1>1, <1>2, <1>5, <1>8, <1>9, <1>10 DEF WorkerTypes, Placed
<1>12. Others(i) /\ Writes(i)
  BY <1>1, <1>5, <1>7, <1>8, <1>9 DEF Others, Writes
<1>13. Step(i)
  BY <1>1, <1>11, <1>12 DEF Step
<1> QED BY <1>3, <1>4, <1>5, <1>7, <1>8, <1>9, <1>13

\* An event of a bash process, while its goroutine waits.
LEMMA ProcessStep ==
  ASSUME NEW i, WorkerPre(i), UNCHANGED <<calm, at, buf, result, disk>>, at[i] = "wait",
         proc' \in [DOMAIN batch -> Procs]
  PROVE  Step(i)
<1>1. UNCHANGED calm
  OBVIOUS
<1>2. /\ batch' = batch /\ DOMAIN batch' = DOMAIN batch
      /\ disk \in [DOMAIN disk -> Text] /\ buf \in [DOMAIN batch -> Text]
      /\ result \in [DOMAIN batch -> Results] /\ at \in [DOMAIN batch -> Labels]
  BY <1>1, SameTypes DEF calm
<1>3. WorkerTypes' /\ Placed(i)'
  BY <1>2 DEF WorkerTypes, Placed, WorkerPre
<1>4. Others(i) /\ Quiet(i)
  BY DEF Others, Quiet
<1> QED BY <1>1, <1>3, <1>4 DEF Step

LEMMA EventSteps ==
  ASSUME NEW i, WorkerPre(i), CommandEnds(i) \/ DeadlinePasses(i) \/ Kill(i) \/ DaemonEnds(i)
  PROVE  Step(i)
<1>1. UNCHANGED <<calm, at, buf, result, disk>> /\ at[i] = "wait"
  BY DEF CommandEnds, DeadlinePasses, Kill, DaemonEnds
<1>2. proc \in [DOMAIN batch -> Procs] /\ i \in DOMAIN batch
  BY DEF WorkerPre, WorkerTypes
<1>3. CASE CommandEnds(i)
  <2>1. PICK end \in {"0", "1", "2", "2 syntax", "127"} : proc' = [proc EXCEPT ![i].main = end]
    BY <1>3 DEF CommandEnds
  <2>2. proc' \in [DOMAIN batch -> Procs]
    BY <1>2, <2>1 DEF Procs
  <2> QED BY <1>1, <2>2, ProcessStep
<1>4. CASE DeadlinePasses(i)
  <2>1. proc' \in [DOMAIN batch -> Procs]
    BY <1>2, <1>4 DEF DeadlinePasses, Procs
  <2> QED BY <1>1, <2>1, ProcessStep
<1>5. CASE Kill(i)
  <2>1. proc' \in [DOMAIN batch -> Procs]
    BY <1>2, <1>5 DEF Kill, Procs
  <2> QED BY <1>1, <2>1, ProcessStep
<1>6. CASE DaemonEnds(i)
  <2>1. proc' \in [DOMAIN batch -> Procs]
    BY <1>2, <1>6 DEF DaemonEnds, Procs
  <2> QED BY <1>1, <2>1, ProcessStep
<1> QED BY <1>3, <1>4, <1>5, <1>6

LEMMA CollectStep ==
  ASSUME NEW i, WorkerPre(i), Collect(i)
  PROVE  Step(i)
<1>1. UNCHANGED calm /\ buf' = buf /\ proc' = proc /\ disk' = disk /\ at[i] = "wait"
  BY DEF Collect
<1>2. /\ batch' = batch /\ DOMAIN batch' = DOMAIN batch
      /\ disk \in [DOMAIN disk -> Text] /\ buf \in [DOMAIN batch -> Text]
      /\ proc \in [DOMAIN batch -> Procs] /\ result \in [DOMAIN batch -> Results]
      /\ i \in DOMAIN batch
  BY <1>1, SameTypes DEF calm
<1>3. ~ Mutates(batch[i])
  BY <1>1 DEF WorkerPre, Placed, Mutates
<1>4. PICK r \in Results : Answer(i, r)
  <2>1. Ok(<<>>) \in Results
    BY EmptyText, OutcomeTypes
  <2>2. "ERR_CMD_TIMEOUT" \in Codes
    BY DEF Codes, Advised
  <2>3. \A end : classifyCmdFailure(end) \in Codes
    BY DEF classifyCmdFailure, Codes, Advised
  <2>4. Soft("ERR_CMD_TIMEOUT") \in Results /\ \A end : Soft(classifyCmdFailure(end)) \in Results
    BY <2>2, <2>3, OutcomeTypes
  <2> QED BY <2>1, <2>4 DEF Collect
<1>5. /\ at' \in [DOMAIN batch -> Labels] /\ result' \in [DOMAIN batch -> Results]
      /\ at'[i] = "back"
      /\ \A j \in DOMAIN batch \ {i} : at'[j] = at[j] /\ result'[j] = result[j]
  BY <1>4, AnswerFacts
<1>6. WorkerTypes' /\ Placed(i)'
  BY <1>1, <1>2, <1>5 DEF WorkerTypes, Placed
<1>7. Others(i) /\ Quiet(i)
  BY <1>1, <1>3, <1>5 DEF Others, Quiet
<1> QED BY <1>1, <1>6, <1>7 DEF Step

LEMMA WorkerSteps ==
  ASSUME NEW i, WorkerPre(i), Call(i) \/ CommandEnds(i) \/ DaemonEnds(i)
  PROVE  Step(i)
  BY EnterStep, ReadStep, RefusedStep, CreateStep, WriteStep, TornStep, CollectStep, EventSteps
     DEF Call

\* The steps of Next.
LEMMA NextCases ==
  ASSUME [Next]_vars
  PROVE  \/ NextRun \/ Ask \/ Finish \/ UNCHANGED vars
         \/ \E i \in DOMAIN batch : Call(i) \/ CommandEnds(i) \/ DaemonEnds(i)
  BY DEF Next, Finished

-----------------------------------------------------------------------------
(* Where the calls are, and what the batch and the history hold. *)

DataInv == WorkerTypes /\ BatchInv /\ PlaceInv /\ pc \in {"ask", "exec", "done"}

LEMMA InitData == Init => DataInv
<1> SUFFICES ASSUME Init PROVE DataInv
  OBVIOUS
<1>1. PICK s \in Scripts : disk = s.disk /\ todo = s.runs
  BY DEF Init
<1>2. /\ pc = "ask" /\ batch = <<>> /\ at = <<>> /\ buf = <<>> /\ proc = <<>> /\ result = <<>>
      /\ table = <<>> /\ base = disk /\ failures = <<>>
  BY DEF Init
<1>3. disk \in [DOMAIN disk -> Text] /\ todo \in Seq(Seq(Seq(Calls)))
  BY <1>1, BatchAssumption
<1>4. WorkerTypes
  BY <1>2, <1>3 DEF WorkerTypes
<1>5. BatchInv
  BY <1>2, <1>3 DEF BatchInv
<1>6. PlaceInv
  BY <1>2 DEF PlaceInv
<1> QED BY <1>2, <1>4, <1>5, <1>6 DEF DataInv

LEMMA PreOfInv ==
  ASSUME DataInv, NEW i \in DOMAIN batch
  PROVE  WorkerPre(i)
  BY DEF DataInv, WorkerPre, PlaceInv, Placed, BatchInv

LEMMA WorkerKeepsData ==
  ASSUME DataInv, NEW i \in DOMAIN batch, Step(i)
  PROVE  DataInv'
<1>1. UNCHANGED calm /\ WorkerTypes' /\ Placed(i)' /\ Others(i)
  BY DEF Step
<1>2. /\ todo' = todo /\ pc' = pc /\ batch' = batch /\ table' = table /\ base' = base
      /\ failures' = failures
  BY <1>1 DEF calm
<1>3. BatchInv'
  BY <1>2 DEF DataInv, BatchInv
<1>4. pc = "exec"
  <2>1. at[i] \notin Over
    BY DEF Step, Quiet, Opens, Writes, Over
  <2> QED BY <2>1 DEF DataInv, PlaceInv
<1>5. \A j \in DOMAIN batch : Placed(j)'
  BY <1>1, <1>2 DEF DataInv, PlaceInv, Placed, Others
<1>6. PlaceInv'
  BY <1>2, <1>4, <1>5 DEF PlaceInv, Placed
<1> QED BY <1>1, <1>2, <1>3, <1>6 DEF DataInv

LEMMA FailingAreCalls ==
  ASSUME batch \in Seq(Calls)
  PROVE  Failing \in SUBSET Calls
  BY DEF Failing

LEMMA DataKept == DataInv /\ [Next]_vars => DataInv'
<1> SUFFICES ASSUME DataInv, [Next]_vars PROVE DataInv'
  OBVIOUS
<1>0. /\ WorkerTypes /\ pc \in {"ask", "exec", "done"}
      /\ todo \in Seq(Seq(Seq(Calls))) /\ batch \in Seq(Calls) /\ failures \in Seq(SUBSET Calls)
      /\ base \in [DOMAIN base -> Text] /\ DOMAIN table \subseteq Calls
      /\ PlaceInv
  BY DEF DataInv, BatchInv
<1>1. CASE NextRun
  <2>1. /\ pc = "ask" /\ todo # <<>> /\ todo' = Tail(todo)
        /\ table' = <<>> /\ failures' = <<>> /\ pc' \in {"ask", "done"}
        /\ batch' = batch /\ base' = base
        /\ at' = at /\ buf' = buf /\ proc' = proc /\ result' = result /\ disk' = disk
    BY <1>1 DEF NextRun, Reset, workers
  <2>2. WorkerTypes'
    BY <1>0, <2>1 DEF WorkerTypes
  <2>3. BatchInv'
    BY <1>0, <2>1 DEF BatchInv
  <2>4. PlaceInv'
    BY <1>0, <2>1 DEF PlaceInv
  <2> QED BY <2>1, <2>2, <2>3, <2>4 DEF DataInv
<1>2. CASE Ask
  <2>1. /\ todo # <<>> /\ Head(todo) # <<>>
        /\ todo' = <<Tail(Head(todo))>> \o Tail(todo)
        /\ batch' = Head(Head(todo))
        /\ at' = [i \in DOMAIN batch' |-> "ready"]
        /\ buf' = [i \in DOMAIN batch' |-> <<>>]
        /\ proc' = [i \in DOMAIN batch' |-> NoProc]
        /\ result' = [i \in DOMAIN batch' |-> None]
        /\ base' = disk /\ pc' = "exec"
        /\ disk' = disk /\ table' = table /\ failures' = failures
    BY <1>2 DEF Ask
  <2>2. Head(todo) \in Seq(Seq(Calls)) /\ Tail(todo) \in Seq(Seq(Seq(Calls)))
    BY <1>0, <2>1
  <2>3. Head(Head(todo)) \in Seq(Calls) /\ Tail(Head(todo)) \in Seq(Seq(Calls))
    BY <2>1, <2>2
  <2>4. todo' \in Seq(Seq(Seq(Calls))) /\ batch' \in Seq(Calls)
    BY <2>1, <2>2, <2>3
  <2>5. "ready" \in Labels /\ <<>> \in Text /\ NoProc \in Procs /\ None \in Results
    BY EmptyText, OutcomeTypes DEF Labels, NoProc, Procs
  <2>6. WorkerTypes'
    BY <1>0, <2>1, <2>5 DEF WorkerTypes
  <2>7. BatchInv'
    BY <1>0, <2>1, <2>4 DEF BatchInv, WorkerTypes
  <2>8. PlaceInv'
    BY <2>1 DEF PlaceInv
  <2> QED BY <2>1, <2>6, <2>7, <2>8 DEF DataInv
<1>3. CASE Finish
  <2>1. /\ \A i \in DOMAIN batch : at[i] \in Over
        /\ table' = FailureCounts /\ failures' = Append(failures, Failing) /\ pc' = "ask"
        /\ todo' = todo /\ batch' = batch /\ base' = base
        /\ at' = at /\ buf' = buf /\ proc' = proc /\ result' = result /\ disk' = disk
    BY <1>3 DEF Finish, workers
  <2>2. Failing \in SUBSET Calls
    BY <1>0, FailingAreCalls
  <2>3. failures' \in Seq(SUBSET Calls) /\ DOMAIN table' \subseteq Calls
    BY <1>0, <2>1, <2>2 DEF FailureCounts
  <2>4. WorkerTypes'
    BY <1>0, <2>1 DEF WorkerTypes
  <2>5. BatchInv'
    BY <1>0, <2>1, <2>3 DEF BatchInv
  <2>6. PlaceInv'
    BY <1>0, <2>1 DEF PlaceInv
  <2> QED BY <2>1, <2>4, <2>5, <2>6 DEF DataInv
<1>4. CASE UNCHANGED vars
  BY <1>0, <1>4 DEF DataInv, WorkerTypes, BatchInv, PlaceInv, vars, workers
<1>5. ASSUME NEW i \in DOMAIN batch, Call(i) \/ CommandEnds(i) \/ DaemonEnds(i)
      PROVE  DataInv'
  BY <1>5, PreOfInv, WorkerSteps, WorkerKeepsData
<1> QED BY <1>1, <1>2, <1>3, <1>4, <1>5, NextCases

LEMMA DataAlways == Spec => []DataInv
  BY InitData, DataKept, PTL DEF Spec

-----------------------------------------------------------------------------
(* The injector counts exactly. *)

LEMMA NothingCounted ==
  ASSUME NEW t, DOMAIN t = {}
  PROVE  NoticeOf(t) = NoNotice
<1>1. {0} \cup {t[fp] : fp \in DOMAIN t} = {0}
  OBVIOUS
<1>2. Max({0}) = 0
  BY MaxIs
<1>3. PICK worst \in Nat : worst = Max({0} \cup {t[fp] : fp \in DOMAIN t}) /\ worst = 0
  BY <1>1, <1>2
<1>4. worst < RemindAfter
  BY <1>3, BatchAssumption
<1> QED BY <1>3, <1>4 DEF NoticeOf

LEMMA InitCount == Init => CountInv
<1> SUFFICES ASSUME Init PROVE CountInv
  OBVIOUS
<1>1. table = <<>> /\ failures = <<>> /\ notice = NoNotice
  BY DEF Init
<1>2. \A fp : Counted(fp, CountOf(fp))
  BY <1>1 DEF Counted, CountOf
<1>3. NoticeOf(table) = NoNotice
  BY <1>1, NothingCounted
<1> QED BY <1>1, <1>2, <1>3 DEF CountInv

LEMMA CountKept == DataInv /\ CountInv /\ [Next]_vars => CountInv'
<1> SUFFICES ASSUME DataInv, CountInv, [Next]_vars PROVE CountInv'
  OBVIOUS
<1>1. CASE NextRun
  <2>1. table' = <<>> /\ failures' = <<>> /\ notice' = NoNotice
    BY <1>1 DEF NextRun, Reset
  <2>2. \A fp : Counted(fp, CountOf(fp))'
    BY <2>1 DEF Counted, CountOf
  <2>3. NoticeOf(table)' = NoNotice
    BY <2>1, NothingCounted
  <2> QED BY <2>1, <2>2, <2>3 DEF CountInv
<1>2. CASE UNCHANGED <<table, failures, notice>>
  BY <1>2 DEF CountInv, Counted, CountOf, NoticeOf
<1>3. CASE Finish
  <2>1. /\ table' = FailureCounts /\ notice' = NoticeOf(FailureCounts)
        /\ failures' = Append(failures, Failing)
    BY <1>3 DEF Finish
  <2>2. failures \in Seq(SUBSET Calls) /\ Failing \in SUBSET Calls
    BY FailingAreCalls DEF DataInv, BatchInv
  <2>3. PICK n \in Nat : n = Len(failures)
    BY <2>2
  <2>4. /\ Len(failures') = n + 1
        /\ \A k \in 1..n : failures'[k] = failures[k]
        /\ failures'[n + 1] = Failing
    BY <2>1, <2>2, <2>3, AppendProperties
  <2>5. ASSUME NEW fp PROVE Counted(fp, CountOf(fp))'
    <3>1. PICK c \in 0..n : /\ c = CountOf(fp)
                            /\ \A k \in (n - c + 1)..n : fp \in failures[k]
                            /\ c < n => fp \notin failures[n - c]
      BY <2>3 DEF CountInv, Counted
    <3>2. CASE fp \in Failing
      <4>1. CountOf(fp)' = c + 1
        BY <2>1, <3>1, <3>2 DEF CountOf, FailureCounts
      <4>2. \A k \in ((n + 1) - (c + 1) + 1)..(n + 1) : fp \in failures'[k]
        <5> SUFFICES ASSUME NEW k \in (n - c + 1)..(n + 1) PROVE fp \in failures'[k]
          OBVIOUS
        <5>1. CASE k = n + 1
          BY <2>4, <3>2, <5>1
        <5>2. CASE k # n + 1
          BY <2>4, <3>1, <5>2
        <5> QED BY <5>1, <5>2
      <4>3. c + 1 < n + 1 => fp \notin failures'[(n + 1) - (c + 1)]
        BY <2>4, <3>1
      <4> QED BY <2>4, <4>1, <4>2, <4>3 DEF Counted
    <3>3. CASE fp \notin Failing
      <4>1. CountOf(fp)' = 0
        BY <2>1, <3>3 DEF CountOf, FailureCounts
      <4> QED BY <2>4, <3>3, <4>1 DEF Counted
    <3> QED BY <3>2, <3>3
  <2> QED BY <2>1, <2>5 DEF CountInv
<1>4. CASE Ask
  BY <1>2, <1>4 DEF Ask
<1>5. CASE UNCHANGED vars
  BY <1>2, <1>5 DEF vars
<1>6. ASSUME NEW i \in DOMAIN batch, Call(i) \/ CommandEnds(i) \/ DaemonEnds(i)
      PROVE  CountInv'
  <2>1. UNCHANGED calm
    BY <1>6, PreOfInv, WorkerSteps DEF Step
  <2> QED BY <1>2, <2>1 DEF calm
<1> QED BY <1>1, <1>3, <1>4, <1>5, <1>6, NextCases

\* The count in the table is the streak.
LEMMA CountIsStreak ==
  ASSUME failures \in Seq(SUBSET Calls), NEW fp, NEW c, Counted(fp, c)
  PROVE  Streak(fp) = c
<1> DEFINE S == {0} \cup {n \in 1..Len(failures) :
                            \A k \in (Len(failures) - n + 1)..Len(failures) : fp \in failures[k]}
<1>1. PICK m \in Nat : m = Len(failures)
  OBVIOUS
<1>2. /\ c \in 0..m
      /\ \A k \in (m - c + 1)..m : fp \in failures[k]
      /\ c < m => fp \notin failures[m - c]
  BY <1>1 DEF Counted
<1>3. c \in S /\ S \in SUBSET Nat
  BY <1>1, <1>2
<1>4. ASSUME NEW y \in S PROVE y <= c
  <2> SUFFICES ASSUME y > c PROVE FALSE
    BY <1>2, <1>3
  <2>1. y \in 1..m /\ \A k \in (m - y + 1)..m : fp \in failures[k]
    BY <1>1, <1>2
  <2>2. m - c \in (m - y + 1)..m
    BY <1>2, <2>1
  <2> QED BY <1>2, <2>1, <2>2
<1>5. Streak(fp) = Max(S)
  BY DEF Streak
<1> HIDE DEF S
<1> QED BY <1>3, <1>4, <1>5, MaxIs

\* The highest count, with the calls that have it.
LEMMA WorstCount ==
  ASSUME failures \in Seq(SUBSET Calls), DOMAIN table \subseteq Calls,
         \A fp : Counted(fp, CountOf(fp))
  PROVE  LET counts == {0} \cup {table[fp] : fp \in DOMAIN table} IN
           /\ counts \in SUBSET Nat
           /\ Max(counts) \in counts
           /\ \A n \in counts : n <= Max(counts)
<1> DEFINE counts == {0} \cup {table[fp] : fp \in DOMAIN table}
<1>1. PICK m \in Nat : m = Len(failures)
  OBVIOUS
<1>2. \A fp \in DOMAIN table : table[fp] \in 0..m
  BY <1>1 DEF Counted, CountOf
<1>3. counts \in SUBSET Nat /\ counts # {} /\ \A n \in counts : n <= m
  BY <1>2
<1> HIDE DEF counts
<1>4. Max(counts) \in counts /\ \A n \in counts : n <= Max(counts)
  BY <1>3, MaxIsGreatest
<1> QED BY <1>3, <1>4 DEF counts

LEMMA CountTypes ==
  ASSUME DataInv, CountInv
  PROVE  notice \in [count : Nat, tools : SUBSET Names]
<1> DEFINE counts == {0} \cup {table[fp] : fp \in DOMAIN table}
           worst == Max(counts)
<1>1. failures \in Seq(SUBSET Calls) /\ DOMAIN table \subseteq Calls
  BY DEF DataInv, BatchInv
<1>2. worst \in Nat
  BY <1>1, WorstCount DEF CountInv
<1>3. {fp.tool : fp \in {f \in DOMAIN table : table[f] = worst}} \in SUBSET Names
  BY <1>1, CallFields
<1>4. notice = IF worst < RemindAfter THEN NoNotice
               ELSE [count |-> worst,
                     tools |-> {fp.tool : fp \in {f \in DOMAIN table : table[f] = worst}}]
  BY DEF CountInv, NoticeOf
<1> HIDE DEF worst
<1> QED BY <1>2, <1>3, <1>4 DEF NoNotice

\* Tables have no entry with count 0.
TableInv == table \in [DOMAIN table -> Nat \ {0}]

LEMMA TableKept == DataInv /\ CountInv /\ TableInv /\ [Next]_vars => TableInv'
<1> SUFFICES ASSUME DataInv, CountInv, TableInv, [Next]_vars PROVE TableInv'
  OBVIOUS
<1>1. CASE NextRun
  BY <1>1 DEF NextRun, Reset, TableInv
<1>2. CASE Finish
  <2>1. \A fp : CountOf(fp) \in Nat
    BY DEF TableInv, CountOf
  <2> QED BY <1>2, <2>1 DEF Finish, FailureCounts, TableInv
<1>3. CASE Ask
  BY <1>3 DEF Ask, TableInv
<1>4. CASE UNCHANGED vars
  BY <1>4 DEF vars, TableInv
<1>5. ASSUME NEW i \in DOMAIN batch, Call(i) \/ CommandEnds(i) \/ DaemonEnds(i)
      PROVE  TableInv'
  <2>1. UNCHANGED calm
    BY <1>5, PreOfInv, WorkerSteps DEF Step
  <2> QED BY <2>1 DEF calm, TableInv
<1> QED BY <1>1, <1>2, <1>3, <1>4, <1>5, NextCases

LEMMA CountAlways == Spec => []CountInv
  BY InitData, DataKept, InitCount, CountKept, PTL DEF Spec

\* Every variable keeps its type, and no entry of the injector's table is 0.
THEOREM BatchTyping == Spec => []TypeOK
<1>1. Init => TableInv
  BY DEF Init, TableInv
<1>2. DataInv /\ CountInv /\ TableInv => TypeOK
  <2> SUFFICES ASSUME DataInv, CountInv, TableInv PROVE TypeOK
    OBVIOUS
  <2>1. CounterTypes
    BY CountTypes DEF CounterTypes, TableInv
  <2> QED BY <2>1, TypesAreParts DEF DataInv
<1> QED BY <1>1, <1>2, InitData, DataKept, InitCount, CountKept, TableKept, PTL DEF Spec

LEMMA CountsAreExact ==
  ASSUME DataInv, CountInv
  PROVE  ReminderIsExact
<1> DEFINE seen   == UNION ToSet(failures)
           counts == {0} \cup {table[fp] : fp \in DOMAIN table}
           worst  == Max(counts)
<1>1. failures \in Seq(SUBSET Calls) /\ DOMAIN table \subseteq Calls
  BY DEF DataInv, BatchInv
<1>2. \A fp : Streak(fp) = CountOf(fp)
  BY <1>1, CountIsStreak DEF CountInv
<1>3. /\ counts \in SUBSET Nat /\ worst \in counts
      /\ \A fp \in DOMAIN table : table[fp] \in counts
  BY <1>1, WorstCount DEF CountInv
<1>4. PICK m \in Nat : m = Len(failures)
  BY <1>1
\* Whatever has a count above 0 is in the last turn's failures.
<1>5. ASSUME NEW fp, CountOf(fp) # 0 PROVE fp \in seen
  <2>1. /\ CountOf(fp) \in 0..m
        /\ \A k \in (m - CountOf(fp) + 1)..m : fp \in failures[k]
    BY <1>4 DEF CountInv, Counted
  <2>2. m \in 1..m /\ fp \in failures[m]
    BY <1>4, <1>5, <2>1
  <2>3. failures[m] \in ToSet(failures)
    BY <1>1, <1>4, <2>2 DEF ToSet
  <2> QED BY <2>2, <2>3
<1>6. {0} \cup {Streak(fp) : fp \in seen} = counts
  <2>1. ASSUME NEW fp \in seen PROVE Streak(fp) \in counts
    BY <1>2 DEF CountOf
  <2>2. ASSUME NEW n \in counts, n # 0 PROVE n \in {Streak(fp) : fp \in seen}
    <3>1. PICK fp \in DOMAIN table : n = table[fp]
      BY <2>2
    <3>2. n = CountOf(fp)
      BY <3>1 DEF CountOf
    <3>3. fp \in seen
      BY <1>5, <2>2, <3>2
    <3> QED BY <1>2, <3>2, <3>3
  <2> HIDE DEF counts, seen
  <2>3. 0 \in counts
    BY DEF counts
  <2> QED BY <2>1, <2>2, <2>3
<1>7. notice = IF worst < RemindAfter THEN NoNotice
               ELSE [count |-> worst,
                     tools |-> {fp.tool : fp \in {f \in DOMAIN table : table[f] = worst}}]
  BY DEF CountInv, NoticeOf
<1>8. worst \in Nat /\ RemindAfter \in Nat \ {0}
  BY <1>3, BatchAssumption
<1>9. worst >= RemindAfter => \E fp \in DOMAIN table : table[fp] = worst
  <2> SUFFICES ASSUME worst >= RemindAfter PROVE \E fp \in DOMAIN table : table[fp] = worst
    OBVIOUS
  <2>1. PICK n \in counts : n = worst
    BY <1>3
  <2>2. n # 0
    <3> HIDE DEF worst
    <3> QED BY <1>8, <2>1
  <2>3. PICK fp \in DOMAIN table : n = table[fp]
    BY <2>2
  <2> QED BY <2>1, <2>3
<1>10. \A fp \in DOMAIN table : table[fp] = worst /\ worst # 0 => fp \in seen /\ Streak(fp) = worst
  BY <1>2, <1>5 DEF CountOf
<1> HIDE DEF seen, counts, worst
<1>11. notice.count = IF worst >= RemindAfter THEN worst ELSE 0
  BY <1>7, <1>8 DEF NoNotice
<1>12. \A n \in notice.tools : \E fp \in seen : fp.tool = n /\ Streak(fp) = worst
  <2>1. CASE worst < RemindAfter
    BY <1>7, <2>1 DEF NoNotice
  <2>2. CASE ~ (worst < RemindAfter)
    <3>1. worst # 0
      BY <1>8, <2>2
    <3>2. notice.tools = {fp.tool : fp \in {f \in DOMAIN table : table[f] = worst}}
      BY <1>7, <2>2
    <3> QED BY <1>10, <3>1, <3>2
  <2> QED BY <2>1, <2>2
<1>13. notice.count > 0 => notice.tools # {}
  <2> SUFFICES ASSUME worst >= RemindAfter PROVE notice.tools # {}
    BY <1>11
  <2>1. notice.tools = {fp.tool : fp \in {f \in DOMAIN table : table[f] = worst}}
    BY <1>7, <1>8
  <2> QED BY <1>9, <2>1
<1>14. ReminderIsExact <=>
         (pc = "ask" =>
            /\ \A fp \in seen \cup DOMAIN table : CountOf(fp) = Streak(fp)
            /\ notice.count = IF worst >= RemindAfter THEN worst ELSE 0
            /\ \A n \in notice.tools : \E fp \in seen : fp.tool = n /\ Streak(fp) = worst
            /\ notice.count > 0 => notice.tools # {})
  BY <1>6 DEF ReminderIsExact, seen, worst
<1> QED BY <1>2, <1>11, <1>12, <1>13, <1>14

\* After every turn the injector's table holds the streak of every fingerprint,
\* and the reminder names a worst one exactly from the threshold on.
THEOREM RemindersAreExact == Spec => []ReminderIsExact
  BY CountsAreExact, DataAlways, CountAlways, PTL

-----------------------------------------------------------------------------
(* Files hold what was written. *)

\* What a step leaves alone: the calls that have written a file or opened it.
LEMMA StepSets ==
  ASSUME DataInv, NEW i \in DOMAIN batch, Step(i), NEW p
  PROVE  /\ CallsOn(p)' = CallsOn(p)
         /\ \A j \in CallsOn(p) : j # i =>
              /\ j \in Wrote(p)' <=> j \in Wrote(p)
              /\ j \in Opening(p)' <=> j \in Opening(p)
              /\ buf'[j] = buf[j]
         /\ i \notin Wrote(p)
         /\ Wrote(p) \subseteq CallsOn(p) /\ Opening(p) \subseteq CallsOn(p)
         /\ Wrote(p)' \subseteq CallsOn(p) /\ Opening(p)' \subseteq CallsOn(p)
         /\ i \in Opening(p) <=> i \in CallsOn(p) /\ at[i] = "write"
         /\ i \in Opening(p)' <=> i \in CallsOn(p) /\ at'[i] = "write"
         /\ i \in Wrote(p)' <=>
              i \in CallsOn(p) /\ ((at'[i] = "back" /\ result'[i].code = "") \/ at'[i] = "torn")
<1>1. batch' = batch /\ Others(i)
  BY DEF Step, calm
<1>2. CallsOn(p)' = CallsOn(p) /\ CallsOn(p) \subseteq DOMAIN batch
  BY <1>1 DEF CallsOn
<1>3. at[i] \notin {"back", "torn"}
  BY DEF Step, Quiet, Opens, Writes
<1> QED BY <1>1, <1>2, <1>3 DEF Others, Wrote, Opening, Succeeded

\* A file whose content and whose writers stay.
LEMMA SameFile ==
  ASSUME WriteInv, NEW p,
         Wrote(p)' = Wrote(p), Opening(p)' = Opening(p),
         \A j \in Wrote(p) : buf'[j] = buf[j],
         base' = base,
         p \in DOMAIN disk' <=> p \in DOMAIN disk,
         p \in DOMAIN disk => disk'[p] = disk[p]
  PROVE  FileInv(p)'
<1>1. FileInv(p)
  BY DEF WriteInv
<1>2. CASE Wrote(p) = {} /\ Opening(p) = {}
  BY <1>1, <1>2 DEF FileInv, Untouched
<1>3. CASE ~ (Wrote(p) = {} /\ Opening(p) = {})
  <2>1. /\ p \in DOMAIN disk
        /\ \A k \in DOMAIN disk[p] : \E j \in Wrote(p) : k \in DOMAIN buf[j] /\ buf[j][k] = disk[p][k]
        /\ Opening(p) = {} => \E j \in Wrote(p) : IsPrefix(buf[j], disk[p])
    BY <1>1, <1>3 DEF FileInv, FromWriters
  <2>2. FromWriters(p)'
    BY <2>1 DEF FromWriters
  <2>3. Opening(p)' = {} => \E j \in Wrote(p)' : IsPrefix(buf'[j], disk'[p])
    BY <2>1
  <2> QED BY <1>3, <2>1, <2>2, <2>3 DEF FileInv
<1> QED BY <1>2, <1>3

LEMMA QuietKeepsFiles ==
  ASSUME DataInv, WriteInv, NEW i \in DOMAIN batch, Step(i), Quiet(i), NEW p
  PROVE  FileInv(p)'
<1>1. disk' = disk /\ base' = base
  BY DEF Quiet, Step, calm
<1>2. i \notin Wrote(p) /\ i \notin Wrote(p)' /\ i \notin Opening(p) /\ i \notin Opening(p)'
  <2>1. i \in CallsOn(p) => Mutates(batch[i])
    BY DEF CallsOn
  <2> QED BY <2>1, StepSets DEF Quiet
<1>3. \A j : j \in Wrote(p)' <=> j \in Wrote(p)
  BY <1>2, StepSets
<1>4. \A j : j \in Opening(p)' <=> j \in Opening(p)
  BY <1>2, StepSets
<1>5. \A j \in Wrote(p) : buf'[j] = buf[j]
  BY <1>2, StepSets
<1>6. Wrote(p)' = Wrote(p) /\ Opening(p)' = Opening(p)
  BY <1>3, <1>4
<1> QED BY <1>1, <1>5, <1>6, SameFile

\* The step of a call on another file.
LEMMA ElsewhereKeepsFiles ==
  ASSUME DataInv, WriteInv, NEW i \in DOMAIN batch, Step(i), NEW p,
         i \notin CallsOn(p),
         p \in DOMAIN disk' <=> p \in DOMAIN disk,
         p \in DOMAIN disk => disk'[p] = disk[p]
  PROVE  FileInv(p)'
<1>1. base' = base
  BY DEF Step, calm
<1>2. i \notin Wrote(p) /\ i \notin Wrote(p)' /\ i \notin Opening(p) /\ i \notin Opening(p)'
  BY StepSets
<1>3. \A j : j \in Wrote(p)' <=> j \in Wrote(p)
  BY <1>2, StepSets
<1>4. \A j : j \in Opening(p)' <=> j \in Opening(p)
  BY <1>2, StepSets
<1>5. \A j \in Wrote(p) : buf'[j] = buf[j]
  BY <1>2, StepSets
<1>6. Wrote(p)' = Wrote(p) /\ Opening(p)' = Opening(p)
  BY <1>3, <1>4
<1> QED BY <1>1, <1>5, <1>6, SameFile

\* The file that is opened is empty.
LEMMA OpenKeepsFiles ==
  ASSUME DataInv, WriteInv, NEW i \in DOMAIN batch, Step(i), Opens(i), NEW p
  PROVE  FileInv(p)'
<1>1. Mutates(batch[i]) /\ disk' = Opened(batch[i].path) /\ at'[i] = "write"
  BY DEF Opens, DataInv, PlaceInv
<1>2. CASE p = batch[i].path
  <2>1. i \in CallsOn(p)
    BY <1>1, <1>2 DEF CallsOn
  <2>2. i \in Opening(p)'
    BY <1>1, <2>1, StepSets
  <2>3. p \in DOMAIN disk' /\ disk'[p] = <<>>
    BY <1>1, <1>2 DEF Opened
  <2>4. FromWriters(p)'
    BY <2>3 DEF FromWriters
  <2> QED BY <2>2, <2>3, <2>4 DEF FileInv
<1>3. CASE p # batch[i].path
  <2>1. i \notin CallsOn(p)
    BY <1>3 DEF CallsOn
  <2>2. /\ p \in DOMAIN disk' <=> p \in DOMAIN disk
        /\ p \in DOMAIN disk => disk'[p] = disk[p]
    BY <1>1, <1>3 DEF Opened
  <2> QED BY <2>1, <2>2, ElsewhereKeepsFiles
<1> QED BY <1>2, <1>3

\* The file that is written begins with what its writer wrote; what follows
\* was there before.
LEMMA WriteKeepsFiles ==
  ASSUME DataInv, WriteInv, NEW i \in DOMAIN batch, Step(i), Writes(i), NEW p
  PROVE  FileInv(p)'
<1>1. /\ Mutates(batch[i]) /\ at[i] = "write"
      /\ (at'[i] = "back" /\ result'[i].code = "") \/ at'[i] = "torn"
      /\ disk' = [disk EXCEPT ![batch[i].path] = Overlay(buf'[i], @)]
  BY DEF Writes, DataInv, PlaceInv
<1>4. PICK text \in Text : text = buf'[i]
  BY DEF Writes, DataInv, WorkerTypes
<1>2. CASE p = batch[i].path
  <2>1. i \in CallsOn(p)
    BY <1>1, <1>2 DEF CallsOn
  <2>2. i \in Opening(p) /\ i \in Wrote(p)'
    BY <1>1, <2>1, StepSets
  <2>3. p \in DOMAIN disk /\ FromWriters(p)
    BY <2>2 DEF WriteInv, FileInv
  <2>4. disk[p] \in Text
    BY <2>3 DEF DataInv, WorkerTypes
  <2>5. PICK o : o = Overlay(text, disk[p])
    OBVIOUS
  <2>6. /\ IsPrefix(text, o)
        /\ \A k \in DOMAIN o : \/ k \in DOMAIN text /\ o[k] = text[k]
                               \/ k \in DOMAIN disk[p] /\ o[k] = disk[p][k]
    BY <2>4, <2>5, OverlayFacts
  <2>7. p \in DOMAIN disk' /\ disk'[p] = o
    BY <1>1, <1>2, <1>4, <2>3, <2>5
  <2>8. ASSUME NEW k \in DOMAIN o
        PROVE  \E j \in Wrote(p)' : k \in DOMAIN buf'[j] /\ buf'[j][k] = o[k]
    <3>1. CASE k \in DOMAIN text /\ o[k] = text[k]
      BY <1>4, <2>2, <3>1
    <3>2. CASE k \in DOMAIN disk[p] /\ o[k] = disk[p][k]
      <4>1. PICK j \in Wrote(p) : k \in DOMAIN buf[j] /\ buf[j][k] = disk[p][k]
        BY <2>3, <3>2 DEF FromWriters
      <4>2. j \in Wrote(p)' /\ buf'[j] = buf[j]
        BY StepSets
      <4> QED BY <3>2, <4>1, <4>2
    <3> QED BY <2>6, <3>1, <3>2
  <2>9. FromWriters(p)'
    BY <2>7, <2>8 DEF FromWriters
  <2>10. \E j \in Wrote(p)' : IsPrefix(buf'[j], disk'[p])
    BY <1>4, <2>2, <2>6, <2>7
  <2> QED BY <2>2, <2>7, <2>9, <2>10 DEF FileInv
<1>3. CASE p # batch[i].path
  <2>1. i \notin CallsOn(p)
    BY <1>3 DEF CallsOn
  <2>2. /\ p \in DOMAIN disk' <=> p \in DOMAIN disk
        /\ p \in DOMAIN disk => disk'[p] = disk[p]
    BY <1>1, <1>3
  <2> QED BY <2>1, <2>2, ElsewhereKeepsFiles
<1> QED BY <1>2, <1>3

LEMMA InitWrite == Init => WriteInv
  BY DEF Init, WriteInv, FileInv, Untouched, Wrote, Opening, CallsOn

LEMMA WriteKept == DataInv /\ WriteInv /\ [Next]_vars => WriteInv'
<1> SUFFICES ASSUME DataInv, WriteInv, [Next]_vars PROVE WriteInv'
  OBVIOUS
<1>1. CASE UNCHANGED <<batch, base, workers>>
  <2>1. /\ batch' = batch /\ base' = base /\ at' = at /\ buf' = buf
        /\ result' = result /\ disk' = disk
    BY <1>1 DEF workers
  <2>2. \A p : Wrote(p)' = Wrote(p) /\ Opening(p)' = Opening(p)
    BY <2>1 DEF Wrote, Opening, CallsOn, Succeeded
  <2>3. \A p : FileInv(p)' <=> FileInv(p)
    BY <2>1, <2>2 DEF FileInv, Untouched, FromWriters
  <2> QED BY <2>3 DEF WriteInv
<1>2. CASE NextRun
  BY <1>1, <1>2 DEF NextRun
<1>3. CASE Finish
  BY <1>1, <1>3 DEF Finish
<1>4. CASE UNCHANGED vars
  BY <1>1, <1>4 DEF vars
<1>5. CASE Ask
  <2>1. /\ at' = [i \in DOMAIN batch' |-> "ready"]
        /\ base' = disk /\ disk' = disk
    BY <1>5 DEF Ask
  <2>2. \A p : Wrote(p)' = {} /\ Opening(p)' = {}
    BY <2>1 DEF Wrote, Opening, CallsOn
  <2> QED BY <2>1, <2>2 DEF WriteInv, FileInv, Untouched
<1>6. ASSUME NEW i \in DOMAIN batch, Call(i) \/ CommandEnds(i) \/ DaemonEnds(i)
      PROVE  WriteInv'
  <2>1. Step(i)
    BY <1>6, PreOfInv, WorkerSteps
  <2>2. \A p : FileInv(p)'
    BY <2>1, QuietKeepsFiles, OpenKeepsFiles, WriteKeepsFiles DEF Step
  <2> QED BY <2>2 DEF WriteInv
<1> QED BY <1>2, <1>3, <1>4, <1>5, <1>6, NextCases

LEMMA FilesAreExplained ==
  ASSUME DataInv, WriteInv, pc = "ask", NEW p \in DOMAIN disk \cup DOMAIN base
  PROVE  LET wrote == {i \in CallsOn(p) : Succeeded(i) \/ at[i] = "torn"} IN
           IF wrote = {}
           THEN p \in DOMAIN disk /\ p \in DOMAIN base /\ disk[p] = base[p]
           ELSE /\ \E i \in wrote : IsPrefix(buf[i], disk[p])
                /\ \A k \in DOMAIN disk[p] :
                     \E i \in wrote : k \in DOMAIN buf[i] /\ buf[i][k] = disk[p][k]
<1>1. \A i \in DOMAIN batch : at[i] \in {"back", "torn"}
  BY DEF DataInv, PlaceInv, Over
<1>2. Wrote(p) = {i \in CallsOn(p) : Succeeded(i) \/ at[i] = "torn"} /\ Opening(p) = {}
  BY <1>1 DEF Wrote, Opening, CallsOn
<1>3. FileInv(p)
  BY DEF WriteInv
<1> QED BY <1>2, <1>3 DEF FileInv, Untouched, FromWriters

\* A file writer is about to write, or has written, the content of its call.
WriterKnown(i) ==
  at[i] \in {"create", "write"} \/ (at[i] = "back" /\ result[i].code = "") =>
    buf[i] = batch[i].content

WriterInv ==
  /\ \A i \in DOMAIN batch : batch[i].tool = "file_writer" => WriterKnown(i)
  /\ \A i \in DOMAIN batch : at[i] = "torn" => result[i].code = "ERR_IO_FAILURE"

\* The steps of a file writer.
WriterStep(i) ==
  \/ at'[i] \in Over /\ result'[i].code # ""
  \/ at'[i] = "create" /\ buf'[i] = batch[i].content
  \/ /\ at[i] \in {"create", "write"} /\ buf'[i] = buf[i]
     /\ at'[i] = "write" \/ (at'[i] = "back" /\ result'[i].code = "")

LEMMA WriterSteps ==
  ASSUME NEW i, WorkerPre(i), Call(i) \/ CommandEnds(i) \/ DaemonEnds(i),
         batch[i].tool = "file_writer"
  PROVE  WriterStep(i)
<1>1. /\ i \in DOMAIN batch /\ batch[i] \in Calls /\ at \in [DOMAIN batch -> Labels]
      /\ buf \in [DOMAIN batch -> Text] /\ result \in [DOMAIN batch -> Results]
      /\ at[i] \notin {"wait", "read"}
  BY DEF WorkerPre, WorkerTypes, Placed
<1>2. ASSUME NEW code \in Codes, code # "", Answer(i, Hard(code))
      PROVE  WriterStep(i)
  <2>1. PICK r \in Results : r = Hard(code) /\ r.code = code
    BY <1>2, OutcomeTypes
  <2>2. at'[i] = "back" /\ result'[i] = r
    BY <1>1, <1>2, <2>1, AnswerFacts
  <2> QED BY <1>2, <2>1, <2>2 DEF WriterStep, Over
<1>3. CASE Enter(i)
  <2>1. PICK code \in Barriers(batch[i]) :
          IF code # "" THEN Answer(i, Hard(code))
          ELSE Goto(i, "create") /\ buf' = [buf EXCEPT ![i] = batch[i].content]
    BY <1>3 DEF Enter
  <2>2. code \in Codes
    BY <2>1 DEF Barriers, Codes, Advised
  <2>3. CASE code # ""
    BY <1>2, <2>1, <2>2, <2>3
  <2>4. CASE code = ""
    BY <1>1, <2>1, <2>4 DEF Goto, WriterStep
  <2> QED BY <2>3, <2>4
<1>4. CASE CreateFails(i)
  <2>1. PICK code \in SysErrors : Answer(i, Hard(code))
    BY <1>4 DEF CreateFails
  <2>2. code \in Codes /\ code # ""
    BY DEF SysErrors, Codes, Advised
  <2> QED BY <1>2, <2>1, <2>2
<1>5. CASE CreateFile(i)
  <2>1. at[i] = "create" /\ buf' = buf /\ Goto(i, "write")
    BY <1>5 DEF CreateFile
  <2>2. at'[i] = "write"
    BY <1>1, <2>1 DEF Goto
  <2> QED BY <2>1, <2>2 DEF WriterStep
<1>6. CASE WriteFile(i)
  <2>1. at[i] = "write" /\ buf' = buf /\ Answer(i, Ok(<<>>))
    BY <1>6 DEF WriteFile
  <2>2. PICK r \in Results : r = Ok(<<>>) /\ r.code = ""
    BY EmptyText, OutcomeTypes
  <2>3. at'[i] = "back" /\ result'[i] = r
    BY <1>1, <2>1, <2>2, AnswerFacts
  <2> QED BY <2>1, <2>2, <2>3 DEF WriterStep
<1>7. CASE WriteFails(i)
  BY <1>7, TornStep DEF WriterStep, Over
<1>8. ~ (Read(i) \/ ReadFails(i) \/ DeadlinePasses(i) \/ Kill(i) \/ Collect(i)
          \/ CommandEnds(i) \/ DaemonEnds(i))
  BY <1>1 DEF Read, ReadFails, DeadlinePasses, Kill, Collect, CommandEnds, DaemonEnds
<1> QED BY <1>3, <1>4, <1>5, <1>6, <1>7, <1>8 DEF Call

LEMMA InitWriter == Init => WriterInv
  BY DEF Init, WriterInv

LEMMA WriterKept == DataInv /\ WriterInv /\ [Next]_vars => WriterInv'
<1> SUFFICES ASSUME DataInv, WriterInv, [Next]_vars PROVE WriterInv'
  OBVIOUS
<1>1. CASE UNCHANGED <<batch, base, workers>>
  <2>1. batch' = batch /\ at' = at /\ buf' = buf /\ result' = result
    BY <1>1 DEF workers
  <2> QED BY <2>1 DEF WriterInv, WriterKnown
<1>2. CASE NextRun
  BY <1>1, <1>2 DEF NextRun
<1>3. CASE Finish
  BY <1>1, <1>3 DEF Finish
<1>4. CASE UNCHANGED vars
  BY <1>1, <1>4 DEF vars
<1>5. CASE Ask
  <2>1. \A i \in DOMAIN batch' : at'[i] = "ready"
    BY <1>5 DEF Ask
  <2> QED BY <2>1 DEF WriterInv, WriterKnown
<1>6. ASSUME NEW i \in DOMAIN batch, Call(i) \/ CommandEnds(i) \/ DaemonEnds(i)
      PROVE  WriterInv'
  <2>1. Step(i)
    BY <1>6, PreOfInv, WorkerSteps
  <2>2. batch' = batch /\ Others(i)
    BY <2>1 DEF Step, calm
  <2>3. ASSUME NEW j \in DOMAIN batch, j # i
        PROVE  /\ batch[j].tool = "file_writer" => WriterKnown(j)'
               /\ at'[j] = "torn" => result'[j].code = "ERR_IO_FAILURE"
    <3>1. at'[j] = at[j] /\ buf'[j] = buf[j] /\ result'[j] = result[j]
      BY <2>2, <2>3 DEF Others
    <3> QED BY <2>2, <3>1 DEF WriterInv, WriterKnown
  <2>4. at'[i] = "torn" => result'[i].code = "ERR_IO_FAILURE"
    BY <2>1 DEF Step, Quiet, Opens, Writes
  <2>5. ASSUME batch[i].tool = "file_writer" PROVE WriterKnown(i)'
    <3>1. WriterStep(i) /\ WriterKnown(i)
      BY <1>6, <2>5, PreOfInv, WriterSteps DEF WriterInv
    <3>2. at'[i] = "torn" => result'[i].code # ""
      BY <2>4
    <3> QED BY <2>2, <3>1, <3>2 DEF WriterStep, WriterKnown, Over
  <2> QED BY <2>2, <2>3, <2>4, <2>5 DEF WriterInv
<1> QED BY <1>2, <1>3, <1>4, <1>5, <1>6, NextCases

LEMMA FilesAreHeld ==
  ASSUME DataInv, WriteInv, WriterInv
  PROVE  FilesHoldTheirWrites
<1> SUFFICES ASSUME pc = "ask" PROVE FilesHoldTheirWrites
  BY DEF FilesHoldTheirWrites, Settled
<1>1. ASSUME NEW i \in DOMAIN batch, batch[i].tool = "file_writer", Succeeded(i)
      PROVE  buf[i] = batch[i].content
  <2>1. at[i] \in {"back", "torn"}
    BY DEF DataInv, PlaceInv, Over
  <2> QED BY <1>1, <2>1 DEF WriterInv, WriterKnown, Succeeded
<1> QED BY <1>1, FilesAreExplained DEF FilesHoldTheirWrites

\* However the truncations, writes and failures of a batch interleave, a file
\* that was opened for writing begins with all that one call has put there and
\* holds nothing but what its writers have put there, each success with its
\* whole content; a file that no call has opened is as it was.
THEOREM FilesFollowTheirWrites == Spec => []FilesHoldTheirWrites
<1>1. Init => DataInv /\ WriteInv /\ WriterInv
  BY InitData, InitWrite, InitWriter
<1>2. DataInv /\ WriteInv /\ WriterInv /\ [Next]_vars => (DataInv /\ WriteInv /\ WriterInv)'
  BY DataKept, WriteKept, WriterKept
<1>3. DataInv /\ WriteInv /\ WriterInv => FilesHoldTheirWrites
  BY FilesAreHeld
<1> QED BY <1>1, <1>2, <1>3, PTL DEF Spec

-----------------------------------------------------------------------------
(* Lone edits. *)

Lone(i) == batch[i].tool = "file_editor" /\ CallsOn(batch[i].path) = {i}

\* What the editor makes of a file as it is now, or was when the batch began.
EditOf(i, files) == FuzzyReplace(files[batch[i].path], OldContent(batch[i]), NewContent(batch[i]))

NotEdited == {"ERR_EDIT_NO_MATCH", "ERR_EDIT_AMBIGUOUS"}

\* The file was there, and what an editor is about to write or has written is
\* what it made of it.
EditKnown(i) ==
  /\ at[i] \in {"create", "write"} \/ (at[i] = "back" /\ result[i].code = "") =>
       /\ batch[i].path \in DOMAIN base
       /\ EditOf(i, base).code = "" /\ buf[i] = EditOf(i, base).text
  /\ at[i] = "back" /\ result[i].code \in NotEdited =>
       batch[i].path \in DOMAIN base /\ EditOf(i, base).code = result[i].code
  /\ at[i] = "torn" => result[i].code \notin NotEdited \cup {""}

EditInv == \A i \in DOMAIN batch : Lone(i) => EditKnown(i)

\* The steps of an editor.
EditStep(i) ==
  \/ at'[i] = "read"
  \/ at'[i] \in {"back", "torn"} /\ result'[i].code \notin NotEdited \cup {""}
  \/ /\ at[i] = "read" /\ batch[i].path \in DOMAIN disk
     /\ \/ /\ EditOf(i, disk).code # ""
           /\ at'[i] = "back" /\ result'[i].code = EditOf(i, disk).code
        \/ /\ EditOf(i, disk).code = ""
           /\ at'[i] = "create" /\ buf'[i] = EditOf(i, disk).text
  \/ /\ at[i] \in {"create", "write"} /\ buf'[i] = buf[i]
     /\ at'[i] = "write" \/ (at'[i] = "back" /\ result'[i].code = "")

\* A step of an editor is one of those.
LEMMA EditorSteps ==
  ASSUME NEW i, WorkerPre(i), Call(i) \/ CommandEnds(i) \/ DaemonEnds(i),
         batch[i].tool = "file_editor"
  PROVE  EditStep(i)
<1>1. /\ i \in DOMAIN batch /\ batch[i] \in Calls /\ at \in [DOMAIN batch -> Labels]
      /\ buf \in [DOMAIN batch -> Text] /\ result \in [DOMAIN batch -> Results]
      /\ at[i] # "wait"
  BY DEF WorkerPre, WorkerTypes, Placed
<1>2. ASSUME NEW code \in Codes, Answer(i, Hard(code))
      PROVE  at'[i] = "back" /\ result'[i].code = code
  <2>1. Hard(code) \in Results /\ Hard(code).code = code
    BY <1>2, OutcomeTypes DEF Hard
  <2>2. PICK r \in Results : r = Hard(code)
    BY <2>1
  <2>3. at'[i] = "back" /\ result'[i] = r
    BY <1>1, <1>2, <2>2, AnswerFacts
  <2> QED BY <2>1, <2>2, <2>3
<1>3. CASE Enter(i)
  <2>1. PICK code \in Barriers(batch[i]) :
          IF code # "" THEN Answer(i, Hard(code)) ELSE Goto(i, "read")
    BY <1>3 DEF Enter
  <2>2. code \in Codes /\ code \notin NotEdited
    BY <2>1 DEF Barriers, Codes, Advised, NotEdited
  <2>3. CASE code # ""
    BY <1>2, <2>1, <2>2, <2>3 DEF EditStep
  <2>4. CASE code = ""
    BY <1>1, <2>1, <2>4 DEF Goto, EditStep
  <2> QED BY <2>3, <2>4
<1>4. CASE Read(i)
  <2>1. CASE batch[i].path \notin DOMAIN disk
    <3>1. Answer(i, Hard("ERR_FILE_NOT_FOUND"))
      BY <1>4, <2>1 DEF Read
    <3>2. "ERR_FILE_NOT_FOUND" \in Codes /\ "ERR_FILE_NOT_FOUND" \notin NotEdited \cup {""}
      BY DEF Codes, Advised, NotEdited
    <3> QED BY <1>2, <3>1, <3>2 DEF EditStep
  <2>2. CASE batch[i].path \in DOMAIN disk
    <3>1. PICK e : e = EditOf(i, disk)
      OBVIOUS
    <3>2. /\ at[i] = "read"
          /\ IF e.code # "" THEN Answer(i, Hard(e.code))
             ELSE Goto(i, "create") /\ buf' = [buf EXCEPT ![i] = e.text]
      BY <1>4, <2>2, <3>1 DEF Read, EditOf
    <3>3. CASE e.code # ""
      <4>1. e.code \in Codes
        <5>1. OldContent(batch[i]) \in Text /\ NewContent(batch[i]) \in Text
          BY <1>1, CallFields, EmptyText DEF OldContent, NewContent
        <5>2. disk[batch[i].path] \in Text
          BY <2>2 DEF WorkerPre, WorkerTypes
        <5>3. e.code \in {"", "ERR_EDIT_NO_MATCH", "ERR_EDIT_AMBIGUOUS"}
          BY <3>1, <5>1, <5>2, EditIsText DEF EditOf
        <5> QED BY <5>3 DEF Codes, Advised
      <4>2. at'[i] = "back" /\ result'[i].code = e.code
        BY <1>2, <3>2, <3>3, <4>1
      <4> QED BY <2>2, <3>1, <3>2, <3>3, <4>2 DEF EditStep
    <3>4. CASE e.code = ""
      <4>1. at'[i] = "create" /\ buf'[i] = e.text
        BY <1>1, <3>2, <3>4 DEF Goto
      <4> QED BY <2>2, <3>1, <3>2, <3>4, <4>1 DEF EditStep
    <3> QED BY <3>3, <3>4
  <2> QED BY <2>1, <2>2
<1>5. CASE CreateFile(i)
  <2>1. at[i] = "create" /\ buf' = buf /\ Goto(i, "write")
    BY <1>5 DEF CreateFile
  <2>2. at'[i] = "write"
    BY <1>1, <2>1 DEF Goto
  <2> QED BY <2>1, <2>2 DEF EditStep
<1>8. CASE ReadFails(i) \/ CreateFails(i)
  <2>1. PICK code \in SysErrors : Answer(i, Hard(code))
    BY <1>8 DEF ReadFails, CreateFails
  <2>2. code \in Codes /\ code \notin NotEdited \cup {""}
    BY DEF SysErrors, Codes, Advised, NotEdited
  <2> QED BY <1>2, <2>1, <2>2 DEF EditStep
<1>9. CASE WriteFails(i)
  BY <1>9, TornStep DEF EditStep, NotEdited
<1>6. CASE WriteFile(i)
  <2>1. at[i] = "write" /\ buf' = buf /\ Answer(i, Ok(<<>>))
    BY <1>6 DEF WriteFile
  <2>2. at'[i] = "back" /\ result'[i].code = ""
    <3>1. Ok(<<>>) \in Results /\ Ok(<<>>).code = ""
      BY EmptyText, OutcomeTypes DEF Ok
    <3>2. PICK r \in Results : r = Ok(<<>>)
      BY <3>1
    <3>3. at'[i] = "back" /\ result'[i] = r
      BY <1>1, <2>1, <3>2, AnswerFacts
    <3> QED BY <3>1, <3>2, <3>3
  <2> QED BY <2>1, <2>2 DEF EditStep
<1>7. ~ (DeadlinePasses(i) \/ Kill(i) \/ Collect(i) \/ CommandEnds(i) \/ DaemonEnds(i))
  BY <1>1 DEF DeadlinePasses, Kill, Collect, CommandEnds, DaemonEnds
<1> QED BY <1>3, <1>4, <1>5, <1>6, <1>7, <1>8, <1>9 DEF Call

\* When a lone editor reads its file, nobody has opened it.
LEMMA LoneReadsBase ==
  ASSUME DataInv, WriteInv, NEW i \in DOMAIN batch, Lone(i), at[i] = "read"
  PROVE  LET p == batch[i].path IN
           (p \in DOMAIN disk <=> p \in DOMAIN base) /\ (p \in DOMAIN disk => disk[p] = base[p])
<1>1. Wrote(batch[i].path) = {} /\ Opening(batch[i].path) = {}
  BY DEF Wrote, Opening, Lone
<1> QED BY <1>1 DEF WriteInv, FileInv, Untouched

LEMMA InitEdit == Init => EditInv
  BY DEF Init, EditInv

\* A lone editor makes its text of the file as it was when the batch began.
LEMMA EditKept == DataInv /\ WriteInv /\ EditInv /\ [Next]_vars => EditInv'
<1> SUFFICES ASSUME DataInv, WriteInv, EditInv, [Next]_vars PROVE EditInv'
  OBVIOUS
<1>1. CASE UNCHANGED <<batch, base, workers>>
  <2>1. batch' = batch /\ base' = base /\ at' = at /\ buf' = buf /\ result' = result
    BY <1>1 DEF workers
  <2> QED BY <2>1 DEF EditInv, Lone, CallsOn, EditKnown, EditOf
<1>2. CASE NextRun
  BY <1>1, <1>2 DEF NextRun
<1>3. CASE Finish
  BY <1>1, <1>3 DEF Finish
<1>4. CASE UNCHANGED vars
  BY <1>1, <1>4 DEF vars
<1>5. CASE Ask
  <2>1. \A i \in DOMAIN batch' : at'[i] = "ready"
    BY <1>5 DEF Ask
  <2> QED BY <2>1 DEF EditInv, EditKnown
<1>6. ASSUME NEW i \in DOMAIN batch, Call(i) \/ CommandEnds(i) \/ DaemonEnds(i)
      PROVE  EditInv'
  <2>1. Step(i)
    BY <1>6, PreOfInv, WorkerSteps
  <2>2. batch' = batch /\ base' = base /\ Others(i)
    BY <2>1 DEF Step, calm
  <2>3. \A j \in DOMAIN batch : Lone(j)' <=> Lone(j)
    BY <2>2 DEF Lone, CallsOn
  <2>4. \A j : EditOf(j, base)' = EditOf(j, base)
    BY <2>2 DEF EditOf
  <2>5. ASSUME NEW j \in DOMAIN batch, j # i, Lone(j) PROVE EditKnown(j)'
    <3>1. at'[j] = at[j] /\ buf'[j] = buf[j] /\ result'[j] = result[j]
      BY <2>2, <2>5 DEF Others
    <3>2. EditKnown(j)
      BY <2>5 DEF EditInv
    <3> QED BY <2>2, <2>4, <3>1, <3>2 DEF EditKnown
  <2>6. ASSUME Lone(i) PROVE EditKnown(i)'
    <3>1. EditStep(i) /\ EditKnown(i)
      BY <1>6, <2>6, PreOfInv, EditorSteps DEF Lone, EditInv
    <3>2. ASSUME at[i] = "read", batch[i].path \in DOMAIN disk
          PROVE  batch[i].path \in DOMAIN base /\ EditOf(i, disk) = EditOf(i, base)
      BY <2>6, <3>2, LoneReadsBase DEF EditOf
    <3> QED BY <2>2, <2>4, <3>1, <3>2 DEF EditStep, EditKnown, NotEdited
  <2> QED BY <2>2, <2>3, <2>5, <2>6 DEF EditInv
<1> QED BY <1>2, <1>3, <1>4, <1>5, <1>6, NextCases

\* A text that begins with all of another and holds nothing else is that one.
LEMMA PrefixIsWhole ==
  ASSUME NEW s \in Text, NEW t \in Text, IsPrefix(s, t),
         \A k \in DOMAIN t : k \in DOMAIN s /\ s[k] = t[k]
  PROVE  s = t
<1>1. PICK m \in Nat, n \in Nat : m = Len(s) /\ n = Len(t)
  BY TextFacts
<1>2. \A k \in 1..n : k \in 1..m /\ s[k] = t[k]
  BY <1>1, TextFacts
<1>3. m <= n
  BY <1>1 DEF IsPrefix
<1>4. m = n
  <2>1. n # 0 => n \in 1..n
    OBVIOUS
  <2> QED BY <1>2, <1>3, <2>1
<1> QED BY <1>1, <1>2, <1>4, SeqEqual DEF Text

\* At the end of the batch the file is what the editor made of it.
LEMMA LoneEditsKeepPromises ==
  ASSUME DataInv, WriteInv, EditInv
  PROVE  LoneEditsAreLocal
<1> DEFINE Local(i, p) ==
             /\ EditPromise(base[p], OldContent(batch[i]), NewContent(batch[i]),
                  IF Succeeded(i) THEN Replaced(disk[p]) ELSE Failed(result[i].code))
             /\ ~ Succeeded(i) => disk[p] = base[p]
<1> SUFFICES ASSUME pc = "ask", NEW i \in DOMAIN batch, Lone(i)
             PROVE  result[i].code \in {""} \cup NotEdited => Local(i, batch[i].path)
  BY DEF LoneEditsAreLocal, Settled, Lone, NotEdited
<1>1. PICK p : p = batch[i].path
  OBVIOUS
<1>2. at[i] \in {"back", "torn"} /\ CallsOn(p) = {i}
  BY <1>1 DEF DataInv, PlaceInv, Lone, Over
<1>3. PICK e : e = EditOf(i, base)
  OBVIOUS
<1>4. EditKnown(i) /\ FileInv(p) /\ Opening(p) = {}
  BY <1>2 DEF EditInv, WriteInv, Opening
<1>9. result[i].code \in {""} \cup NotEdited => at[i] = "back"
  BY <1>2, <1>4 DEF EditKnown
<1>5. OldContent(batch[i]) \in Text /\ NewContent(batch[i]) \in Text
  <2>1. batch[i] \in Calls /\ batch[i].tool = "file_editor"
    BY DEF DataInv, BatchInv, Lone
  <2> QED BY <2>1, CallFields, EmptyText DEF OldContent, NewContent
<1>6. ASSUME p \in DOMAIN base
      PROVE  /\ EditPromise(base[p], OldContent(batch[i]), NewContent(batch[i]), e)
             /\ e = Replaced(e.text) \/ (e = Failed(e.code) /\ e.code # "")
  <2>1. base[p] \in Text
    BY <1>6 DEF DataInv, BatchInv
  <2>2. e = FuzzyReplace(base[p], OldContent(batch[i]), NewContent(batch[i]))
    BY <1>1, <1>3 DEF EditOf
  <2> QED BY <1>5, <2>1, <2>2, EditsArePromised, EditShape
<1>7. CASE result[i].code = ""
  <2>1. Wrote(p) = {i} /\ p \in DOMAIN base /\ e.code = "" /\ buf[i] = e.text
    BY <1>1, <1>2, <1>3, <1>4, <1>7, <1>9 DEF Wrote, Succeeded, EditKnown
  <2>2. /\ p \in DOMAIN disk /\ IsPrefix(buf[i], disk[p])
        /\ \A k \in DOMAIN disk[p] : k \in DOMAIN buf[i] /\ buf[i][k] = disk[p][k]
    BY <1>4, <2>1 DEF FileInv, FromWriters
  <2>3. buf[i] \in Text /\ disk[p] \in Text
    BY <2>2 DEF DataInv, WorkerTypes
  <2>4. disk[p] = e.text
    BY <2>1, <2>2, <2>3, PrefixIsWhole
  <2>5. e = Replaced(disk[p])
    BY <1>6, <2>1, <2>4
  <2> QED BY <1>1, <1>6, <1>7, <2>1, <2>5 DEF Succeeded
<1>8. CASE result[i].code \in NotEdited
  <2>1. result[i].code # ""
    BY <1>8 DEF NotEdited
  <2>2. Wrote(p) = {} /\ p \in DOMAIN base /\ e.code = result[i].code
    BY <1>1, <1>2, <1>3, <1>4, <1>8, <1>9, <2>1 DEF Wrote, Succeeded, EditKnown
  <2>3. disk[p] = base[p]
    BY <1>4, <2>2 DEF FileInv, Untouched
  <2>4. e = Failed(result[i].code)
    <3>1. e.code # ""
      BY <2>1, <2>2
    <3>2. e # Replaced(e.text)
      BY <3>1, EditFields
    <3> QED BY <1>6, <2>2, <3>2
  <2> QED BY <1>1, <1>6, <2>1, <2>2, <2>3, <2>4 DEF Succeeded
<1> QED BY <1>7, <1>8

\* An edit that shares its file with no other change of the batch replaces one
\* region that reads like the old text and leaves the rest, or changes nothing.
THEOREM EditsAreLocal == Spec => []LoneEditsAreLocal
<1>1. Init => DataInv /\ WriteInv /\ EditInv
  BY InitData, InitWrite, InitEdit
<1>2. DataInv /\ WriteInv /\ EditInv /\ [Next]_vars => (DataInv /\ WriteInv /\ EditInv)'
  BY DataKept, WriteKept, EditKept
<1>3. DataInv /\ WriteInv /\ EditInv => LoneEditsAreLocal
  BY LoneEditsKeepPromises
<1> QED BY <1>1, <1>2, <1>3, PTL DEF Spec

=============================================================================
