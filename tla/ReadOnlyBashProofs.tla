------------------------- MODULE ReadOnlyBashProofs -------------------------
(***************************************************************************)
(* Proofs about ReadOnlyBash, for any commands: the scanner reads every    *)
(* command the way its text does, and a command that passes the policy can *)
(* be told to be read-only from its text.                                  *)
(*                                                                         *)
(* The scanner works from left to right, and the text is read by           *)
(* positions; Reads(c, s, p) says what a scanner s holds when it has come  *)
(* to position p of command c, in the terms of the text: the word that is  *)
(* under way, the tokens of the words since the last separator, and the    *)
(* segments that separators have ended.  Passed(c, p) says that nothing    *)
(* before p had to be refused.  Each action moves both on.                 *)
(***************************************************************************)
EXTENDS ReadOnlyBash, NaturalFacts, SequenceTheorems

-----------------------------------------------------------------------------
(* Words in order. *)

Ordered(S) ==
  IsFiniteSet(S) /\ S \subseteq Nat \X Nat /\ \A v, w \in S : v[1] = w[1] => v = w

Before(S, w) == {v \in S : v[1] < w[1]}

\* What is before an element is less than all.
LEMMA BeforeFacts ==
  ASSUME NEW S, Ordered(S), NEW w \in S
  PROVE  /\ IsFiniteSet(Before(S, w)) /\ Cardinality(Before(S, w)) \in Nat
         /\ Cardinality(S) \in Nat /\ Cardinality(Before(S, w)) < Cardinality(S)
<1>1. IsFiniteSet(S) /\ S \subseteq Nat \X Nat
  BY DEF Ordered
<1>2. IsFiniteSet(S \ {w}) /\ Cardinality(S \ {w}) = Cardinality(S) - 1
  BY <1>1, FS_RemoveElement
<1>3. Before(S, w) \subseteq S \ {w}
  <2>1. ~ (w[1] < w[1])
    BY <1>1
  <2> QED BY <2>1 DEF Before
<1>4. IsFiniteSet(Before(S, w)) /\ Cardinality(Before(S, w)) <= Cardinality(S \ {w})
  BY <1>2, <1>3, FS_Subset
<1>5. Cardinality(S) \in Nat /\ Cardinality(Before(S, w)) \in Nat
  BY <1>1, <1>4, FS_CardinalityType
<1> QED BY <1>2, <1>4, <1>5

\* A later element has more before it.
LEMMA RankGrows ==
  ASSUME NEW S, Ordered(S), NEW u \in S, NEW v \in S, u[1] < v[1]
  PROVE  Cardinality(Before(S, u)) < Cardinality(Before(S, v))
<1>1. IsFiniteSet(Before(S, u)) /\ IsFiniteSet(Before(S, v)) /\ S \subseteq Nat \X Nat
  BY BeforeFacts DEF Ordered
<1>2. u \notin Before(S, u)
  BY <1>1 DEF Before
<1>3. Before(S, u) \cup {u} \subseteq Before(S, v)
  BY <1>1 DEF Before
<1>4. /\ IsFiniteSet(Before(S, u) \cup {u})
      /\ Cardinality(Before(S, u) \cup {u}) = Cardinality(Before(S, u)) + 1
  BY <1>1, <1>2, FS_AddElement
<1>5. Cardinality(Before(S, u) \cup {u}) <= Cardinality(Before(S, v))
  BY <1>1, <1>3, FS_Subset
<1>6. Cardinality(Before(S, u)) \in Nat /\ Cardinality(Before(S, v)) \in Nat
  BY BeforeFacts
<1> QED BY <1>4, <1>5, <1>6

\* Elements with as many before them are the same.
LEMMA RankIsUnique ==
  ASSUME NEW S, Ordered(S), NEW u \in S, NEW v \in S,
         Cardinality(Before(S, u)) = Cardinality(Before(S, v))
  PROVE  u = v
<1>1. u[1] \in Nat /\ v[1] \in Nat /\ (u[1] = v[1] => u = v)
  BY DEF Ordered
<1>2. ~ (u[1] < v[1]) /\ ~ (v[1] < u[1])
  <2>1. Cardinality(Before(S, u)) \in Nat /\ Cardinality(Before(S, v)) \in Nat
    BY BeforeFacts
  <2>2. ASSUME u[1] < v[1] PROVE FALSE
    BY <2>1, <2>2, RankGrows
  <2>3. ASSUME v[1] < u[1] PROVE FALSE
    BY <2>1, <2>3, RankGrows
  <2> QED BY <2>2, <2>3
<1> QED BY <1>1, <1>2

\* The first element of an ordered set is in it and before all others.
LEMMA FirstIs ==
  ASSUME NEW S, Ordered(S), S # {}
  PROVE  First(S) \in S /\ \A w \in S : First(S)[1] <= w[1]
<1> DEFINE T == {w[1] : w \in S}
<1>1. T \in SUBSET Nat /\ T # {}
  BY DEF Ordered
<1>2. PICK x \in T : \A y \in T : x <= y
  BY <1>1, Least
<1>3. PICK w \in S : x = w[1]
  BY <1>2
<1>4. \A v \in S : w[1] <= v[1]
  BY <1>2, <1>3
<1> QED BY <1>4 DEF First

\* Every rank is taken.
LEMMA RanksExist ==
  ASSUME NEW S, Ordered(S), NEW k \in 1..Cardinality(S)
  PROVE  \E w \in S : Cardinality(Before(S, w)) = k - 1
<1> DEFINE Ranked(R) == \A j \in 1..Cardinality(R) : \E w \in R : Cardinality(Before(R, w)) = j - 1
           N == {m \in Nat : \A R : Ordered(R) /\ Cardinality(R) = m => Ranked(R)}
<1>1. 0 \in N
  OBVIOUS
<1>2. ASSUME NEW m \in Nat, m \in N PROVE m + 1 \in N
  <2> SUFFICES ASSUME NEW R, Ordered(R), Cardinality(R) = m + 1, NEW j \in 1..(m + 1)
               PROVE  \E w \in R : Cardinality(Before(R, w)) = j - 1
    OBVIOUS
  <2>1. IsFiniteSet(R) /\ R # {} /\ R \subseteq Nat \X Nat
    <3>1. IsFiniteSet(R) /\ R \subseteq Nat \X Nat
      BY DEF Ordered
    <3>2. R # {}
      BY FS_EmptySet
    <3> QED BY <3>1, <3>2
  <2>2. PICK f \in R : \A w \in R : f[1] <= w[1]
    BY <2>1, FirstIs
  <2> DEFINE Q == R \ {f}
  <2>3. IsFiniteSet(Q) /\ Cardinality(Q) = m
    BY <2>1, FS_RemoveElement
  <2>4. Ordered(Q)
    BY <2>3 DEF Ordered
  <2>5. CASE j = 1
    <3>1. Before(R, f) = {}
      BY <2>1, <2>2 DEF Before
    <3> QED BY <2>5, <3>1, FS_EmptySet
  <2>6. CASE j # 1
    <3>1. j - 1 \in 1..m
      BY <2>6
    <3>2. PICK w \in Q : Cardinality(Before(Q, w)) = (j - 1) - 1
      BY <1>2, <2>3, <2>4, <3>1
    <3>3. f[1] < w[1]
      <4>1. f[1] # w[1]
        BY DEF Ordered
      <4> QED BY <2>1, <2>2, <4>1
    <3>4. Before(R, w) = Before(Q, w) \cup {f} /\ f \notin Before(Q, w)
      BY <3>3 DEF Before
    <3>5. IsFiniteSet(Before(Q, w))
      BY <2>4, BeforeFacts
    <3>6. Cardinality(Before(R, w)) = Cardinality(Before(Q, w)) + 1
      BY <3>4, <3>5, FS_AddElement
    <3> QED BY <3>2, <3>6
  <2> QED BY <2>5, <2>6
<1>3. Nat \subseteq N
  <2> HIDE DEF N
  <2> QED BY <1>1, <1>2, InductionOverNat
<1>4. Cardinality(S) \in Nat
  BY FS_CardinalityType DEF Ordered
<1>5. Cardinality(S) \in N
  <2> HIDE DEF N
  <2> QED BY <1>3, <1>4
<1> QED BY <1>5

\* InOrder lists a set, from the first to the last.
LEMMA InOrderIs ==
  ASSUME NEW S, Ordered(S)
  PROVE  /\ Cardinality(S) \in Nat
         /\ InOrder(S) \in [1..Cardinality(S) -> S]
         /\ \A k \in 1..Cardinality(S) : Cardinality(Before(S, InOrder(S)[k])) = k - 1
         /\ \A w \in S : \E k \in 1..Cardinality(S) :
              k = Cardinality(Before(S, w)) + 1 /\ InOrder(S)[k] = w
<1>1. Cardinality(S) \in Nat
  BY FS_CardinalityType DEF Ordered
<1>2. \A k \in 1..Cardinality(S) :
        InOrder(S)[k] \in S /\ Cardinality(Before(S, InOrder(S)[k])) = k - 1
  <2> SUFFICES ASSUME NEW k \in 1..Cardinality(S)
               PROVE  InOrder(S)[k] \in S /\ Cardinality(Before(S, InOrder(S)[k])) = k - 1
    OBVIOUS
  <2>1. \E w \in S : Cardinality(Before(S, w)) = k - 1
    BY RanksExist
  <2>2. InOrder(S)[k] = CHOOSE w \in S : Cardinality(Before(S, w)) = k - 1
    BY DEF InOrder, Before
  <2> QED BY <2>1, <2>2
<1>3. InOrder(S) \in [1..Cardinality(S) -> S]
  <2> DEFINE nth(k) == CHOOSE w \in S : Cardinality({v \in S : v[1] < w[1]}) = k - 1
  <2>1. InOrder(S) = [k \in 1..Cardinality(S) |-> nth(k)]
    BY DEF InOrder
  <2> HIDE DEF nth
  <2>2. \A k \in 1..Cardinality(S) : nth(k) = InOrder(S)[k]
    BY <2>1
  <2> QED BY <1>2, <2>1, <2>2
<1>4. ASSUME NEW w \in S
      PROVE  \E k \in 1..Cardinality(S) :
               k = Cardinality(Before(S, w)) + 1 /\ InOrder(S)[k] = w
  <2>1. PICK k : k = Cardinality(Before(S, w)) + 1
    OBVIOUS
  <2>2. k \in 1..Cardinality(S) /\ Cardinality(Before(S, w)) = k - 1
    BY <2>1, BeforeFacts
  <2>3. InOrder(S)[k] = w
    BY <1>2, <2>2, RankIsUnique
  <2> QED BY <2>1, <2>2, <2>3
<1> QED BY <1>1, <1>2, <1>3, <1>4

\* The list starts with the first element.
LEMMA InOrderFirst ==
  ASSUME NEW S, Ordered(S), S # {}
  PROVE  1 \in 1..Cardinality(S) /\ InOrder(S)[1] = First(S)
<1>1. PICK f \in S : f = First(S) /\ \A w \in S : f[1] <= w[1]
  BY FirstIs
<1>2. Before(S, f) = {}
  <2>1. S \subseteq Nat \X Nat
    BY DEF Ordered
  <2> QED BY <1>1, <2>1 DEF Before
<1>3. Cardinality(Before(S, f)) = 0
  BY <1>2, FS_EmptySet
<1> QED BY <1>1, <1>3, InOrderIs

\* The list goes on with the first of the others.
LEMMA InOrderSecond ==
  ASSUME NEW S, Ordered(S), S # {}, S \ {First(S)} # {}
  PROVE  2 \in 1..Cardinality(S) /\ InOrder(S)[2] = First(S \ {First(S)})
<1>1. PICK f \in S : f = First(S) /\ \A w \in S : f[1] <= w[1]
  BY FirstIs
<1>2. PICK R : R = S \ {f}
  OBVIOUS
<1>3. Ordered(R) /\ R # {} /\ S \subseteq Nat \X Nat
  BY <1>1, <1>2, FS_Subset DEF Ordered
<1>4. PICK g \in R : g = First(R) /\ \A w \in R : g[1] <= w[1]
  BY <1>3, FirstIs
<1>5. g \in S /\ g # f /\ f[1] < g[1]
  <2>1. g \in S /\ g # f
    BY <1>2
  <2>2. f[1] # g[1]
    BY <2>1 DEF Ordered
  <2> QED BY <1>1, <1>3, <2>1, <2>2
<1>6. Before(S, g) = {f}
  <2>1. ASSUME NEW w \in S, w # f PROVE ~ (w[1] < g[1])
    <3>1. w \in R /\ g[1] <= w[1]
      BY <1>2, <1>4, <2>1
    <3>2. w[1] \in Nat /\ g[1] \in Nat
      BY <1>3, <1>5
    <3> QED BY <3>1, <3>2
  <2> QED BY <1>5, <2>1 DEF Before
<1>7. Cardinality(Before(S, g)) = 1
  BY <1>6, FS_Singleton
<1> QED BY <1>1, <1>2, <1>4, <1>5, <1>7, InOrderIs

\* The empty set has an empty list.
LEMMA InOrderNone == InOrder({}) = <<>> /\ Ordered({})
<1>1. Cardinality({}) = 0 /\ IsFiniteSet({})
  BY FS_EmptySet
<1> QED BY <1>1 DEF InOrder, Ordered

\* A word behind all others is listed behind them.
LEMMA InOrderGrows ==
  ASSUME NEW S, Ordered(S), NEW w \in Nat \X Nat, \A v \in S : v[1] < w[1]
  PROVE  /\ Ordered(S \cup {w})
         /\ Cardinality(S \cup {w}) = Cardinality(S) + 1
         /\ \A k \in 1..Cardinality(S) : InOrder(S \cup {w})[k] = InOrder(S)[k]
         /\ InOrder(S \cup {w})[Cardinality(S) + 1] = w
<1>1. IsFiniteSet(S) /\ S \subseteq Nat \X Nat /\ w \notin S
  BY DEF Ordered
<1>2. PICK R : R = S \cup {w}
  OBVIOUS
<1>3. IsFiniteSet(R) /\ Cardinality(R) = Cardinality(S) + 1
  BY <1>1, <1>2, FS_AddElement
<1>4. Ordered(R)
  <2>1. R \subseteq Nat \X Nat
    BY <1>1, <1>2
  <2>2. \A u, v \in R : u[1] = v[1] => u = v
    <3>1. \A v \in S : v[1] # w[1]
      BY <1>1
    <3> QED BY <1>2, <3>1 DEF Ordered
  <2> QED BY <1>3, <2>1, <2>2 DEF Ordered
<1>5. Before(R, w) = S
  BY <1>1, <1>2 DEF Before
<1>6. \A v \in S : Before(R, v) = Before(S, v)
  <2>1. \A v \in S : ~ (w[1] < v[1])
    BY <1>1
  <2> QED BY <1>2, <2>1 DEF Before
<1>7. InOrder(R)[Cardinality(S) + 1] = w
  BY <1>2, <1>4, <1>5, InOrderIs
<1>8. ASSUME NEW k \in 1..Cardinality(S) PROVE InOrder(R)[k] = InOrder(S)[k]
  <2>1. PICK v \in S : v = InOrder(S)[k]
    BY InOrderIs
  <2>2. Cardinality(Before(R, v)) = k - 1
    BY <1>6, <2>1, InOrderIs
  <2>3. Cardinality(S) \in Nat
    BY InOrderIs
  <2>4. InOrder(R)[(k - 1) + 1] = v
    BY <1>2, <1>4, <2>1, <2>2, InOrderIs
  <2> QED BY <2>1, <2>3, <2>4
<1> QED BY <1>2, <1>3, <1>4, <1>7, <1>8

-----------------------------------------------------------------------------
(* The text of a word. *)

Texts == Seq(STRING)

\* What a text is: finitely many characters.
LEMMA CommandFacts ==
  ASSUME NEW c \in Texts
  PROVE  Len(c) \in Nat /\ DOMAIN c = 1..Len(c) /\ \A i \in 1..Len(c) : c[i] \in STRING
  BY LenProperties DEF Texts

Piece(c, a, q) == SubSeq(c, a, q)

\* A piece of a text is a text.
LEMMA PieceIsText ==
  ASSUME NEW c \in Texts, NEW m \in Nat \ {0}, NEW n \in Int, n <= Len(c)
  PROVE  Piece(c, m, n) \in Texts
<1>1. \A i \in m..n : c[i] \in STRING
  BY CommandFacts
<1> QED BY <1>1, SubSeqProperties DEF Piece, Texts

\* Two texts make a text.
LEMMA JoinIsText ==
  ASSUME NEW s \in Texts, NEW t \in Texts
  PROVE  s \o t \in Texts
  BY ConcatProperties DEF Texts

\* A character is a text, and appending one joins it to the text.
LEMMA OneCharacter ==
  ASSUME NEW s \in Texts, NEW x \in STRING
  PROVE  <<x>> \in Texts /\ Append(s, x) = s \o <<x>> /\ Append(s, x) \in Texts
<1>1. <<x>> \in Texts
  <2>1. <<>> \in Texts
    BY EmptySeq DEF Texts
  <2>2. Append(<<>>, x) \in Texts
    BY <2>1, AppendProperties DEF Texts
  <2>3. Append(<<>>, x) = <<x>>
    OBVIOUS
  <2> QED BY <2>2, <2>3
<1>2. Append(s, x) = s \o <<x>>
  BY AppendIsConcat DEF Texts
<1>3. Append(s, x) \in Texts
  BY AppendProperties DEF Texts
<1> QED BY <1>1, <1>2, <1>3

\* Texts are joined in any grouping, and the empty text changes nothing.
LEMMA JoinsCompose ==
  ASSUME NEW s \in Texts, NEW t \in Texts, NEW u \in Texts
  PROVE  (s \o t) \o u = s \o (t \o u) /\ s \o <<>> = s /\ <<>> \o s = s
  BY ConcatAssociative, ConcatEmptySeq DEF Texts

Letters(a, q, delimiters) == {<<i, i>> : i \in (a..q) \ delimiters}

\* The text from a to q.
TextOf(c, a, q, delimiters) == Token(c, <<a, q>>, delimiters).text

\* The letters of a word are ordered by their position.
LEMMA LettersOrdered ==
  ASSUME NEW a \in Nat, NEW q \in Int, NEW delimiters
  PROVE  Ordered(Letters(a, q, delimiters))
<1>1. Letters(a, q, delimiters) \subseteq (a..q) \X (a..q)
  BY DEF Letters
<1>2. IsFiniteSet(a..q)
  BY FS_Interval
<1>3. IsFiniteSet((a..q) \X (a..q))
  BY <1>2, FS_Product
<1>4. IsFiniteSet(Letters(a, q, delimiters))
  BY <1>1, <1>3, FS_Subset
<1>5. Letters(a, q, delimiters) \subseteq Nat \X Nat
  BY <1>1
<1>6. \A v, w \in Letters(a, q, delimiters) : v[1] = w[1] => v = w
  BY DEF Letters
<1> QED BY <1>4, <1>5, <1>6 DEF Ordered

\* The first n characters that f names.
Spelt(c, n, f) == [k \in 1..n |-> c[f[k][1]]]

\* The text of a word spells its letters.
LEMMA TextIs ==
  ASSUME NEW c, NEW a \in Nat, NEW q \in Int, NEW delimiters,
         NEW S, S = Letters(a, q, delimiters), NEW f, f = InOrder(S)
  PROVE  TextOf(c, a, q, delimiters) = Spelt(c, Cardinality(S), f)
<1>3. DOMAIN f = 1..Cardinality(S)
  BY LettersOrdered, InOrderIs
<1>4. S = {<<i, i>> : i \in (<<a, q>>[1]..<<a, q>>[2]) \ delimiters}
  BY DEF Letters
<1>5. TextOf(c, a, q, delimiters) = [k \in DOMAIN f |-> c[f[k][1]]]
  BY <1>4 DEF TextOf, Token
<1> QED BY <1>3, <1>5 DEF Spelt

\* Nothing is spelt where there is nothing.
LEMMA TextNone ==
  ASSUME NEW c, NEW a \in Nat, NEW q \in Int, q < a, NEW delimiters
  PROVE  TextOf(c, a, q, delimiters) = <<>>
<1>1. Letters(a, q, delimiters) = {}
  BY DEF Letters
<1>2. Cardinality({}) = 0
  BY FS_EmptySet
<1>3. PICK f : f = InOrder({})
  OBVIOUS
<1>4. TextOf(c, a, q, delimiters) = Spelt(c, Cardinality({}), f)
  BY <1>1, <1>3, TextIs
<1> QED BY <1>2, <1>4 DEF Spelt

\* What a word spells is a text.
LEMMA TextIsText ==
  ASSUME NEW c \in Texts, NEW a \in Nat \ {0}, NEW q \in Nat, q <= Len(c), NEW delimiters
  PROVE  TextOf(c, a, q, delimiters) \in Texts
<1>1. PICK S : S = Letters(a, q, delimiters)
  OBVIOUS
<1>2. Ordered(S)
  BY <1>1, LettersOrdered
<1>3. PICK n \in Nat : n = Cardinality(S)
  BY <1>2, InOrderIs
<1>4. PICK f \in [1..n -> S] : f = InOrder(S)
  BY <1>2, <1>3, InOrderIs
<1>5. \A w \in S : w[1] \in 1..Len(c)
  BY <1>1 DEF Letters
<1>6. \A k \in 1..n : c[f[k][1]] \in STRING
  BY <1>4, <1>5, CommandFacts
<1>7. TextOf(c, a, q, delimiters) = Spelt(c, n, f)
  BY <1>1, <1>3, <1>4, TextIs
<1>8. Spelt(c, n, f) \in Texts
  BY <1>6 DEF Spelt, Texts
<1> QED BY <1>7, <1>8

\* One character more.
LEMMA TextGrows ==
  ASSUME NEW c \in Texts, NEW a \in Nat \ {0}, NEW q \in Nat, NEW r \in Nat, r = q + 1,
         a <= r, r <= Len(c), NEW delimiters
  PROVE  TextOf(c, a, r, delimiters)
           = IF r \in delimiters THEN TextOf(c, a, q, delimiters)
             ELSE Append(TextOf(c, a, q, delimiters), c[r])
<1>1. PICK S, R : S = Letters(a, q, delimiters) /\ R = Letters(a, r, delimiters)
  OBVIOUS
<1>2. a..r = (a..q) \cup {r} /\ q <= Len(c)
  BY CommandFacts
<1>5. PICK f, g : f = InOrder(S) /\ g = InOrder(R)
  OBVIOUS
<1>6. /\ TextOf(c, a, q, delimiters) = Spelt(c, Cardinality(S), f)
      /\ TextOf(c, a, r, delimiters) = Spelt(c, Cardinality(R), g)
  BY <1>1, <1>5, TextIs
<1>3. CASE r \in delimiters
  <2>1. (a..r) \ delimiters = (a..q) \ delimiters
    BY <1>2, <1>3
  <2>2. R = S
    BY <1>1, <2>1 DEF Letters
  <2> QED BY <1>3, <1>5, <1>6, <2>2
<1>4. CASE r \notin delimiters
  <2>1. PICK w : w = <<r, r>>
    OBVIOUS
  <2>2. R = S \cup {w}
    <3>1. (a..r) \ delimiters = ((a..q) \ delimiters) \cup {r}
      BY <1>2, <1>4
    <3> QED BY <1>1, <2>1, <3>1 DEF Letters
  <2>3. w \in Nat \X Nat /\ \A v \in S : v[1] < w[1]
    BY <1>1, <2>1 DEF Letters
  <2>4. Ordered(S)
    BY <1>1, LettersOrdered
  <2>5. PICK n \in Nat : n = Cardinality(S)
    BY <2>4, InOrderIs
  <2>7. Cardinality(R) = n + 1 /\ g[n + 1] = w /\ \A k \in 1..n : g[k] = f[k]
    BY <1>5, <2>2, <2>3, <2>4, <2>5, InOrderGrows
  <2>8. PICK t \in Texts : t = TextOf(c, a, q, delimiters)
    BY <1>2, TextIsText
  <2>9. t = [k \in 1..n |-> c[f[k][1]]]
    BY <1>6, <2>5, <2>8 DEF Spelt
  <2>10. TextOf(c, a, r, delimiters) = [k \in 1..(n + 1) |-> c[g[k][1]]]
    BY <1>6, <2>7 DEF Spelt
  <2>11. Len(t) = n
    BY <2>9
  <2>12. [k \in 1..(n + 1) |-> c[g[k][1]]] = Append(t, c[r])
    <3>1. \A k \in 1..n : c[g[k][1]] = t[k]
      BY <2>7, <2>9
    <3>2. c[g[n + 1][1]] = c[r]
      BY <2>1, <2>7
    <3>3. Append(t, c[r]) = [k \in 1..(n + 1) |-> IF k = n + 1 THEN c[r] ELSE t[k]]
      BY <2>11
    <3>4. \A k \in 1..(n + 1) : c[g[k][1]] = IF k = n + 1 THEN c[r] ELSE t[k]
      BY <3>1, <3>2
    <3> QED BY <3>3, <3>4
  <2> QED BY <1>4, <2>8, <2>10, <2>12
<1> QED BY <1>3, <1>4

\* A piece with one character more.
LEMMA PieceGrows ==
  ASSUME NEW c \in Texts, NEW m \in Nat \ {0}, NEW q \in Nat, NEW r \in Nat, r = q + 1,
         m <= r, r <= Len(c)
  PROVE  /\ Piece(c, m, q) \in Texts
         /\ Piece(c, m, r) = Piece(c, m, q) \o <<c[r]>>
<1>1. PICK n \in Nat : n = Len(c)
  BY CommandFacts
<1>3. m \in 1..Len(c) /\ r \in m..Len(c) /\ r - 1 = q /\ q \in Int /\ q <= Len(c)
  BY <1>1
<1>4. Piece(c, m, r) = Piece(c, m, r - 1) \o <<c[r]>>
  BY <1>3, SubSeqRecursiveSecond DEF Piece, Texts
<1> QED BY <1>3, <1>4, PieceIsText

Plain(a, q, delimiters) == \A i \in a..q : i \notin delimiters

\* Characters that are no delimiters are taken as they are.
LEMMA TextSpans ==
  ASSUME NEW c \in Texts, NEW a \in Nat \ {0}, NEW p \in Nat, NEW b \in Nat, p < b, b <= p + 1,
         NEW q \in Nat, a <= b, p <= q, q <= Len(c),
         NEW delimiters, Plain(b, q, delimiters)
  PROVE  TextOf(c, a, q, delimiters) = TextOf(c, a, p, delimiters) \o Piece(c, b, q)
<1>0. PICK l \in Nat : l = q - p
  OBVIOUS
<1>1. PICK t \in Texts : t = TextOf(c, a, p, delimiters)
  <2>1. p <= Len(c)
    BY CommandFacts
  <2> QED BY <2>1, TextIsText
<1> DEFINE N == {m \in 0..l : TextOf(c, a, p + m, delimiters) = t \o Piece(c, b, p + m)}
<1>3. 0 \in N
  <2>1. Piece(c, b, p) = <<>>
    BY SubSeqEmpty DEF Piece
  <2>2. t \o <<>> = t
    BY JoinsCompose
  <2>3. p + 0 = p /\ 0 \in 0..l
    OBVIOUS
  <2> QED BY <1>1, <2>1, <2>2, <2>3
<1>4. ASSUME NEW m \in 1..l, m - 1 \in N PROVE m \in N
  <2>1. PICK o \in Nat : o = p + (m - 1)
    OBVIOUS
  <2>0. PICK r \in Nat : r = p + m
    OBVIOUS
  <2>11. r \in b..q
    BY <1>0, <2>0
  <2>2. r = o + 1 /\ r <= Len(c) /\ a <= r /\ b <= r /\ r \notin delimiters /\ m \in 0..l
    BY <1>0, <2>0, <2>1, <2>11, CommandFacts DEF Plain
  <2>3. TextOf(c, a, o, delimiters) = t \o Piece(c, b, o)
    BY <1>4, <2>1
  <2>4. TextOf(c, a, r, delimiters) = Append(TextOf(c, a, o, delimiters), c[r])
    BY <2>2, TextGrows
  <2>5. PICK u : u = Piece(c, b, o)
    OBVIOUS
  <2>6. PICK x : x = c[r]
    OBVIOUS
  <2>7. u \in Texts /\ Piece(c, b, r) = u \o <<x>>
    BY <2>2, <2>5, <2>6, PieceGrows
  <2>8. x \in STRING
    BY <2>2, <2>6, CommandFacts
  <2>9. Append(t \o u, x) = t \o (u \o <<x>>)
    <3>1. t \o u \in Texts
      BY <2>7, JoinIsText
    <3>2. Append(t \o u, x) = (t \o u) \o <<x>> /\ <<x>> \in Texts
      BY <2>8, <3>1, OneCharacter
    <3> QED BY <2>7, <3>2, JoinsCompose
  <2>10. TextOf(c, a, r, delimiters) = t \o Piece(c, b, r)
    BY <2>3, <2>4, <2>5, <2>6, <2>7, <2>9
  <2> QED BY <2>0, <2>2, <2>10
<1>5. l \in N
  <2> HIDE DEF N
  <2>1. \A m \in 0..l : m \in N
    BY <1>3, <1>4, InductionUpTo
  <2> QED BY <2>1
<1>6. p + l = q
  BY <1>0
<1> QED BY <1>1, <1>5, <1>6

\* A text without delimiters is a piece of the command.
LEMMA TextIsPiece ==
  ASSUME NEW c \in Texts, NEW a \in Nat \ {0}, NEW q \in Nat, a <= q + 1, q <= Len(c),
         NEW delimiters, Plain(a, q, delimiters)
  PROVE  TextOf(c, a, q, delimiters) = Piece(c, a, q)
<1>1. PICK p \in Nat, b \in Nat : p = a - 1 /\ b = a
  OBVIOUS
<1>2. TextOf(c, a, p, delimiters) = <<>>
  BY <1>1, TextNone
<1>3. p < b /\ b <= p + 1 /\ p <= q /\ a <= b /\ Plain(b, q, delimiters)
  BY <1>1
<1>4. TextOf(c, a, q, delimiters) = TextOf(c, a, p, delimiters) \o Piece(c, b, q)
  BY <1>3, TextSpans
<1>5. Piece(c, a, q) \in Texts
  BY PieceIsText
<1> QED BY <1>1, <1>2, <1>4, <1>5, JoinsCompose

-----------------------------------------------------------------------------
(* Gaps, words and segments. *)

\* n positions between the gaps G, some of which are the breaks B.
Frame(n, G, B) ==
  /\ n \in Nat /\ G \subseteq 0..(n + 1) /\ 0 \in G /\ (n + 1) \in G
  /\ B \subseteq G /\ B \subseteq 1..n

NoGap(a, q, G) == \A i \in a..q : i \notin G

\* A word lies within the command, between two gaps that have none between them.
LEMMA WordFacts ==
  ASSUME NEW n, NEW G, NEW B, Frame(n, G, B), NEW w \in Words(G)
  PROVE  /\ w \in (1..n) \X (1..n) /\ w[1] <= w[2]
         /\ (w[1] - 1) \in G /\ (w[2] + 1) \in G /\ NoGap(w[1], w[2], G)
<1>1. n \in Nat /\ G \subseteq 0..(n + 1)
  BY DEF Frame
<1>2. PICK g \in G \X G : /\ w = <<g[1] + 1, g[2] - 1>> /\ g[1] + 1 < g[2]
                          /\ ~ \E h \in G : g[1] < h /\ h < g[2]
  BY DEF Words
<1>3. PICK x \in G, y \in G : x = g[1] /\ y = g[2]
  OBVIOUS
<1>4. x \in 0..(n + 1) /\ y \in 0..(n + 1)
  BY <1>1
<1>5. w[1] = x + 1 /\ w[2] = y - 1 /\ w = <<x + 1, y - 1>> /\ x + 1 < y
  BY <1>2, <1>3
<1>6. \A i \in (x + 1)..(y - 1) : i \notin G
  BY <1>2, <1>3, <1>4
<1> QED BY <1>1, <1>3, <1>4, <1>5, <1>6 DEF NoGap

\* What lies between two gaps that have none between them is a word.
LEMMA WordIs ==
  ASSUME NEW n, NEW G, NEW B, Frame(n, G, B), NEW a \in Nat, NEW q \in Nat, a <= q,
         (a - 1) \in G, (q + 1) \in G, NoGap(a, q, G)
  PROVE  <<a, q>> \in Words(G)
<1>1. G \subseteq Nat
  BY DEF Frame
<1>2. PICK x \in G, y \in G : x = a - 1 /\ y = q + 1
  OBVIOUS
<1>3. PICK g \in G \X G : g = <<x, y>>
  OBVIOUS
<1>4. g[1] + 1 < g[2] /\ ~ \E h \in G : g[1] < h /\ h < g[2]
  BY <1>1, <1>2, <1>3 DEF NoGap
<1>5. <<g[1] + 1, g[2] - 1>> = <<a, q>>
  BY <1>2, <1>3
<1> QED BY <1>4, <1>5 DEF Words

\* A word ends before the next one begins.
LEMMA WordsApart ==
  ASSUME NEW n, NEW G, NEW B, Frame(n, G, B), NEW v \in Words(G), NEW w \in Words(G)
  PROVE  /\ v[1] = w[1] => v = w
         /\ v[1] < w[1] => v[2] + 1 < w[1]
         /\ v[2] = w[2] => v = w
<1>1. n \in Nat /\ G \subseteq Nat
  BY DEF Frame
<1>2. PICK a \in 1..n, q \in 1..n : v = <<a, q>>
  BY WordFacts
<1>3. PICK d \in 1..n, r \in 1..n : w = <<d, r>>
  BY WordFacts
<1>4. /\ v[1] <= v[2] /\ (v[1] - 1) \in G /\ (v[2] + 1) \in G /\ NoGap(v[1], v[2], G)
      /\ w[1] <= w[2] /\ (w[1] - 1) \in G /\ (w[2] + 1) \in G /\ NoGap(w[1], w[2], G)
  BY WordFacts
<1>5. /\ a <= q /\ (a - 1) \in G /\ (q + 1) \in G /\ NoGap(a, q, G)
      /\ d <= r /\ (d - 1) \in G /\ (r + 1) \in G /\ NoGap(d, r, G)
  BY <1>2, <1>3, <1>4
<1>6. a = d => q = r
  <2>1. ~ (q + 1 <= r /\ d <= q + 1)
    BY <1>5 DEF NoGap
  <2>2. ~ (r + 1 <= q /\ a <= r + 1)
    BY <1>5 DEF NoGap
  <2> QED BY <1>5, <2>1, <2>2
<1>7. a < d => q + 1 < d
  <2>1. ~ (a <= d - 1 /\ d - 1 <= q)
    BY <1>1, <1>5 DEF NoGap
  <2> QED BY <2>1
<1>8. q = r => a = d
  <2>1. ~ (a <= d - 1 /\ d - 1 <= q)
    BY <1>1, <1>5 DEF NoGap
  <2>2. ~ (d <= a - 1 /\ a - 1 <= r)
    BY <1>1, <1>5 DEF NoGap
  <2> QED BY <1>5, <2>1, <2>2
<1> QED BY <1>2, <1>3, <1>6, <1>7, <1>8

\* Words are ordered by where they begin.
LEMMA WordsOrdered ==
  ASSUME NEW n, NEW G, NEW B, Frame(n, G, B), NEW S \in SUBSET Words(G)
  PROVE  Ordered(S)
<1>1. n \in Nat
  BY DEF Frame
<1>2. S \subseteq (1..n) \X (1..n)
  BY WordFacts
<1>3. IsFiniteSet((1..n) \X (1..n))
  <2>1. IsFiniteSet(1..n)
    BY <1>1, FS_Interval
  <2> QED BY <2>1, FS_Product
<1>4. IsFiniteSet(S)
  BY <1>2, <1>3, FS_Subset
<1>5. S \subseteq Nat \X Nat
  BY <1>2
<1>6. \A v, w \in S : v[1] = w[1] => v = w
  BY WordsApart
<1> QED BY <1>4, <1>5, <1>6 DEF Ordered

\* What is no gap belongs to a word.
LEMMA WordAround ==
  ASSUME NEW n, NEW G, NEW B, Frame(n, G, B), NEW j \in 1..n, j \notin G
  PROVE  \E w \in Words(G) : w[1] <= j /\ j <= w[2]
<1>1. n \in Nat /\ G \subseteq 0..(n + 1) /\ 0 \in G /\ (n + 1) \in G
  BY DEF Frame
<1>2. PICK y \in G : y > j /\ \A h \in G : h > j => y <= h
  <2> DEFINE T == {h \in G : h > j}
  <2>1. T \in SUBSET Nat /\ (n + 1) \in T
    <3>1. n + 1 > j /\ G \subseteq Nat
      BY <1>1
    <3>2. (n + 1) \in T
      BY <1>1, <3>1
    <3>3. T \subseteq Nat
      BY <3>1
    <3> QED BY <3>2, <3>3
  <2>2. PICK y \in T : \A h \in T : y <= h
    <3> HIDE DEF T
    <3> QED BY <2>1, Least
  <2> QED BY <2>2
<1>3. PICK x \in G : x < j /\ \A h \in G : h < j => h <= x
  <2> DEFINE T == {h \in G : h < j}
  <2>1. T \in SUBSET Nat /\ 0 \in T /\ \A h \in T : h <= j
    <3>1. G \subseteq Nat /\ 0 < j
      BY <1>1
    <3>2. 0 \in T
      BY <1>1, <3>1
    <3>3. \A h \in G : h < j => h <= j
      BY <3>1
    <3>4. T \subseteq Nat
      BY <3>1
    <3> QED BY <3>2, <3>3, <3>4
  <2>2. Max(T) \in T /\ \A h \in T : Max(T) >= h
    <3> HIDE DEF T
    <3>1. T # {} /\ j \in Nat
      BY <2>1
    <3> QED BY <2>1, <3>1, MaxIsGreatest
  <2>3. PICK x \in T : \A h \in T : x >= h
    BY <2>2
  <2>4. \A h \in G : h < j => h <= x
    BY <1>1, <2>3
  <2> QED BY <2>3, <2>4
<1>4. PICK a \in Nat, q \in Nat : a = x + 1 /\ q = y - 1
  BY <1>1, <1>2
<1>5. a <= j /\ j <= q /\ a - 1 = x /\ q + 1 = y
  BY <1>1, <1>2, <1>3, <1>4
<1>6. NoGap(a, q, G)
  <2> SUFFICES ASSUME NEW i \in a..q PROVE i \notin G
    BY DEF NoGap
  <2>1. ~ (i \in G /\ i < j) /\ ~ (i \in G /\ i > j)
    BY <1>1, <1>2, <1>3, <1>4
  <2> QED BY <2>1
<1>7. <<a, q>> \in Words(G)
  BY <1>5, <1>6, WordIs
<1> QED BY <1>5, <1>7

-----------------------------------------------------------------------------
(* What has been read before a position. *)

\* What has been read before position p: the words of the segment under way,
\* and the words of the segments that a separator has ended.
Now(p, words, breaks) ==
  {w \in words : w[2] + 1 < p /\ \A b \in breaks : b < p => b < w[1]}
Past(p, words, breaks) == {w \in words : \E b \in breaks : w[1] < b /\ b < p}

\* The words of the segment under way, if a gap is at p.
Done(p, words, breaks) ==
  {w \in words : w[2] < p /\ \A b \in breaks : b < p => b < w[1]}

\* The word under way at p begins at a; there is none if a is p.
Begun(a, p, gaps) == a \in 1..p /\ (a - 1) \in gaps /\ \A i \in a .. p - 1 : i \notin gaps

\* What gaps, breaks and words are.
LEMMA FrameFacts ==
  ASSUME NEW n, NEW G, NEW B, Frame(n, G, B)
  PROVE  /\ n \in Nat /\ G \subseteq Nat /\ B \subseteq Nat /\ B \subseteq G
         /\ \A b \in B : b \in 1..n
         /\ \A w \in Words(G) : w[1] \in Nat /\ w[2] \in Nat /\ w[1] <= w[2] /\ w[2] <= n
<1>1. n \in Nat /\ G \subseteq Nat /\ B \subseteq Nat /\ B \subseteq G /\ \A b \in B : b \in 1..n
  BY DEF Frame
<1>2. ASSUME NEW w \in Words(G)
      PROVE  w[1] \in Nat /\ w[2] \in Nat /\ w[1] <= w[2] /\ w[2] <= n
  <2>1. w[1] \in 1..n /\ w[2] \in 1..n /\ w[1] <= w[2]
    BY WordFacts
  <2> QED BY <1>1, <2>1
<1> QED BY <1>1, <1>2

\* Nothing is read where there are no gaps.
LEMMA NothingRead ==
  ASSUME NEW n, NEW G, NEW B, Frame(n, G, B), NEW p \in Nat, NEW q \in Nat, p <= q,
         NoGap(p, q - 1, G)
  PROVE  /\ Now(q, Words(G), B) = Now(p, Words(G), B)
         /\ Past(q, Words(G), B) = Past(p, Words(G), B)
<1>1. \A g \in G : g < q => g < p
  BY FrameFacts DEF NoGap
<1>2. \A b \in B : b < q <=> b < p
  BY <1>1, FrameFacts
<1>3. \A w \in Words(G) : w[2] + 1 < q <=> w[2] + 1 < p
  <2> SUFFICES ASSUME NEW w \in Words(G) PROVE w[2] + 1 < q <=> w[2] + 1 < p
    OBVIOUS
  <2>1. (w[2] + 1) \in G /\ w[2] \in Nat
    BY WordFacts, FrameFacts
  <2> QED BY <1>1, <2>1
<1> QED BY <1>2, <1>3 DEF Now, Past

\* A gap that is no break ends a word.
LEMMA WordEnds ==
  ASSUME NEW n, NEW G, NEW B, Frame(n, G, B), NEW p \in 1..(n + 1), p \in G,
         NEW a, Begun(a, p, G)
  PROVE  Done(p, Words(G), B) = Now(p, Words(G), B)
                                 \cup (IF a < p THEN {<<a, p - 1>>} ELSE {})
<1>1. a \in 1..p /\ p \in Nat /\ n \in Nat
  BY FrameFacts DEF Begun
<1>2. CASE a < p
  <2>1. PICK q \in Nat : q = p - 1
    BY <1>1
  <2>2. PICK w : w = <<a, q>>
    OBVIOUS
  <2>3. a \in Nat /\ a <= q /\ q + 1 = p /\ (a - 1) \in G /\ NoGap(a, q, G)
    BY <1>1, <1>2, <2>1 DEF Begun, NoGap
  <2>4. w \in Words(G)
    BY <2>2, <2>3, WordIs
  <2>5. \A b \in B : b < p => b < w[1]
    BY <2>2, <2>3, FrameFacts DEF NoGap
  <2>6. w[2] < p /\ ~ (w[2] + 1 < p)
    BY <2>2, <2>3
  <2>7. \A v \in Words(G) : v[2] < p => v = w \/ v[2] + 1 < p
    <3> SUFFICES ASSUME NEW v \in Words(G), v[2] < p, ~ (v[2] + 1 < p) PROVE v = w
      OBVIOUS
    <3>1. v[2] = w[2]
      BY <2>2, <2>3, FrameFacts
    <3> QED BY <2>4, <3>1, WordsApart
  <2>8. \A v \in Words(G) : v[2] + 1 < p => v[2] < p
    BY <1>1, FrameFacts
  <2> QED BY <1>2, <2>1, <2>2, <2>4, <2>5, <2>6, <2>7, <2>8 DEF Done, Now
<1>3. CASE ~ (a < p)
  <2>1. a = p
    BY <1>1, <1>3
  <2>2. \A v \in Words(G) : v[2] < p <=> v[2] + 1 < p
    <3> SUFFICES ASSUME NEW v \in Words(G) PROVE v[2] < p <=> v[2] + 1 < p
      OBVIOUS
    <3>1. v[2] # p - 1
      BY <2>1, WordFacts, FrameFacts DEF NoGap, Begun
    <3>2. v[2] \in Nat
      BY FrameFacts
    <3> QED BY <1>1, <3>1, <3>2
  <2> QED BY <1>3, <2>2 DEF Done, Now
<1> QED BY <1>2, <1>3

\* Behind a gap that is no break, its word is among those of the segment.
LEMMA NowAfterGap ==
  ASSUME NEW n, NEW G, NEW B, Frame(n, G, B), NEW p \in Nat, NEW q \in Nat, q = p + 1, p \notin B
  PROVE  /\ Now(q, Words(G), B) = Done(p, Words(G), B)
         /\ Past(q, Words(G), B) = Past(p, Words(G), B)
<1>1. \A b \in B : b < q <=> b < p
  BY FrameFacts
<1>2. \A w \in Words(G) : w[2] + 1 < q <=> w[2] < p
  BY FrameFacts
<1> QED BY <1>1, <1>2 DEF Now, Past, Done

\* Behind a break the words of the segment are those of a past one.
LEMMA NowAfterBreak ==
  ASSUME NEW n, NEW G, NEW B, Frame(n, G, B), NEW p \in Nat, NEW q \in Nat, q = p + 1, p \in B
  PROVE  /\ Now(q, Words(G), B) = {}
         /\ Past(q, Words(G), B) = Past(p, Words(G), B) \cup Done(p, Words(G), B)
<1>1. Now(q, Words(G), B) = {}
  <2> SUFFICES ASSUME NEW w \in Now(q, Words(G), B) PROVE FALSE
    OBVIOUS
  <2>1. w \in Words(G) /\ w[2] + 1 < q /\ p < w[1]
    BY DEF Now
  <2> QED BY <2>1, FrameFacts
<1>2. ASSUME NEW w \in Words(G)
      PROVE  (\E b \in B : w[1] < b /\ b < q) <=>
               \/ \E b \in B : w[1] < b /\ b < p
               \/ w[2] < p /\ \A b \in B : b < p => b < w[1]
  <2>1. \A b \in B : b \in Nat /\ (b < q <=> b < p \/ b = p)
    BY FrameFacts
  <2>2. \A b \in B : b < w[1] \/ w[2] < b
    BY WordFacts, FrameFacts DEF NoGap
  <2>3. w[1] \in Nat /\ w[2] \in Nat /\ w[1] <= w[2]
    BY FrameFacts
  <2>4. w[1] < p <=> w[2] < p
    BY <2>2, <2>3
  <2>5. \A b \in B : ~ (b < w[1]) <=> w[1] < b
    BY <2>1, <2>2, <2>3
  <2> QED BY <2>1, <2>4, <2>5
<1>3. Past(q, Words(G), B) = Past(p, Words(G), B) \cup Done(p, Words(G), B)
  BY <1>2 DEF Past, Done
<1> QED BY <1>1, <1>3

\* At the end every word has been read.
LEMMA AllRead ==
  ASSUME NEW n, NEW G, NEW B, Frame(n, G, B), NEW p \in Nat, p = n + 1
  PROVE  Words(G) = Past(p, Words(G), B) \cup Done(p, Words(G), B)
<1> SUFFICES ASSUME NEW w \in Words(G), ~ \E b \in B : w[1] < b /\ b < p
             PROVE  w[2] < p /\ \A b \in B : b < p => b < w[1]
  BY DEF Past, Done
<1>1. w[1] \in Nat /\ w[2] \in Nat /\ w[2] <= n
  BY FrameFacts
<1>2. \A b \in B : b # w[1]
  BY WordFacts, FrameFacts DEF NoGap
<1> QED BY <1>1, <1>2, FrameFacts

-----------------------------------------------------------------------------
(* Segments. *)

\* A word is in its segment, and the first word of a segment has the same.
LEMMA SegmentHolds ==
  ASSUME NEW n, NEW G, NEW B, Frame(n, G, B), NEW w \in Words(G)
  PROVE  /\ w \in Segment(w, Words(G), B) /\ Segment(w, Words(G), B) \subseteq Words(G)
         /\ First(Segment(w, Words(G), B)) \in Segment(w, Words(G), B)
         /\ Segment(First(Segment(w, Words(G), B)), Words(G), B) = Segment(w, Words(G), B)
<1>1. w \in Segment(w, Words(G), B) /\ Segment(w, Words(G), B) \subseteq Words(G)
  BY DEF Segment, Together
<1>2. First(Segment(w, Words(G), B)) \in Segment(w, Words(G), B)
  BY <1>1, WordsOrdered, FirstIs
<1>3. \A v \in Segment(w, Words(G), B) : Segment(v, Words(G), B) = Segment(w, Words(G), B)
  BY DEF Segment, Together
<1> QED BY <1>1, <1>2, <1>3

\* The words read since the last separator are a segment where the next one is.
LEMMA DoneIsSegment ==
  ASSUME NEW n, NEW G, NEW B, Frame(n, G, B), NEW p \in Nat, p \in B \/ p = n + 1,
         NEW x \in Done(p, Words(G), B)
  PROVE  Segment(x, Words(G), B) = Done(p, Words(G), B)
<1>1. x \in Words(G) /\ x[2] < p /\ \A b \in B : b < p => b < x[1]
  BY DEF Done
<1>2. \A b \in B : b < x[1] <=> b < p
  BY <1>1, FrameFacts
<1>3. ASSUME NEW v \in Words(G)
      PROVE  Together(v, x, B) <=> v[2] < p /\ \A b \in B : b < p => b < v[1]
  <2>1. Together(v, x, B) <=> \A b \in B : b < v[1] <=> b < p
    BY <1>2 DEF Together
  <2>2. v[1] \in Nat /\ v[2] \in Nat /\ v[1] <= v[2] /\ v[2] <= n /\ n \in Nat
    BY FrameFacts
  <2>3. p \in B => p < v[1] \/ v[2] < p
    BY WordFacts, FrameFacts, <2>2 DEF NoGap
  <2>4. ASSUME \A b \in B : b < v[1] <=> b < p PROVE v[2] < p
    BY <2>2, <2>3, <2>4
  <2>5. ASSUME v[2] < p PROVE \A b \in B : b < v[1] => b < p
    BY <2>2, <2>5, FrameFacts
  <2> QED BY <2>1, <2>4, <2>5
<1> QED BY <1>3 DEF Segment, Done

\* A segment with a past word is past.
LEMMA PastIsClosed ==
  ASSUME NEW n, NEW G, NEW B, Frame(n, G, B), NEW p \in Nat, NEW w \in Past(p, Words(G), B)
  PROVE  Segment(w, Words(G), B) \subseteq Past(p, Words(G), B)
<1> SUFFICES ASSUME NEW v \in Words(G), Together(v, w, B)
             PROVE  \E b \in B : v[1] < b /\ b < p
  BY DEF Segment, Past
<1>1. PICK b \in B : w[1] < b /\ b < p
  BY DEF Past
<1>2. w \in Words(G)
  BY DEF Past
<1>3. b \in Nat /\ v[1] \in Nat /\ w[1] \in Nat /\ v[1] <= v[2]
  BY <1>2, FrameFacts
<1>4. ~ (b < v[1])
  BY <1>1, <1>3 DEF Together
<1>5. b # v[1]
  BY <1>3, WordFacts, FrameFacts DEF NoGap
<1> QED BY <1>1, <1>3, <1>4, <1>5

Firsts(past, words, breaks) == {First(Segment(w, words, breaks)) : w \in past}

\* The first words of segments are ordered words.
LEMMA FirstsOrdered ==
  ASSUME NEW n, NEW G, NEW B, Frame(n, G, B), NEW S \in SUBSET Words(G)
  PROVE  Firsts(S, Words(G), B) \subseteq Words(G) /\ Ordered(Firsts(S, Words(G), B))
<1>1. Firsts(S, Words(G), B) \subseteq Words(G)
  BY SegmentHolds DEF Firsts
<1> QED BY <1>1, WordsOrdered

\* The segments of some of the words.
Segments(c, past, words, breaks, delimiters) ==
  LET firsts == InOrder({First(Segment(w, words, breaks)) : w \in past})
  IN  [i \in DOMAIN firsts |-> Tokens(c, Segment(firsts[i], words, breaks), delimiters)]

\* s is a list of n values.
Listing(s, n) == s = [k \in 1..n |-> s[k]]

\* The last of m values that are the n values of s but for x behind them.
LEMMA LastIsAppended ==
  ASSUME NEW n \in Nat, NEW m, m = n + 1, NEW s, NEW t, NEW x,
         Listing(s, n), Listing(t, m),
         \A k \in 1..n : t[k] = s[k], t[m] = x
  PROVE  t = Append(s, x)
<1>1. Len(s) = n
  BY DEF Listing
<1>2. Append(s, x) = [k \in 1..m |-> IF k = m THEN x ELSE s[k]]
  BY <1>1 DEF Listing
<1>3. \A k \in 1..m : k = m \/ k \in 1..n
  OBVIOUS
<1>4. \A k \in 1..m : t[k] = IF k = m THEN x ELSE s[k]
  BY <1>3
<1> QED BY <1>2, <1>4 DEF Listing

\* s lists the tokens of the words S.
ListsTokens(s, c, S, delimiters) ==
  LET n == Cardinality(S)
      f == InOrder(S)
  IN  /\ n \in Nat /\ f \in [1..n -> S] /\ Listing(s, n)
      /\ \A k \in 1..n : s[k] = Token(c, f[k], delimiters)

\* Tokens are listed in the order of their words.
LEMMA TokensIs ==
  ASSUME NEW c, NEW S, Ordered(S), NEW delimiters
  PROVE  ListsTokens(Tokens(c, S, delimiters), c, S, delimiters)
<1>1. PICK n, f, s : n = Cardinality(S) /\ f = InOrder(S) /\ s = Tokens(c, S, delimiters)
  OBVIOUS
<1>2. n \in Nat /\ f \in [1..n -> S]
  BY <1>1, InOrderIs
<1>3. s = [j \in DOMAIN f |-> Token(c, f[j], delimiters)]
  BY <1>1 DEF Tokens
<1>4. DOMAIN f = 1..n
  BY <1>2
<1>5. Listing(s, n) /\ \A k \in 1..n : s[k] = Token(c, f[k], delimiters)
  BY <1>3, <1>4 DEF Listing
<1> QED BY <1>1, <1>2, <1>5 DEF ListsTokens

\* w begins behind the words of S.
Follows(w, S) == w \in Nat \X Nat /\ \A v \in S : v[1] < w[1]

\* A word behind all others adds its token at the end.
LEMMA TokensGrow ==
  ASSUME NEW c, NEW S, Ordered(S), NEW w, Follows(w, S),
         NEW delimiters
  PROVE  Tokens(c, S \cup {w}, delimiters)
           = Append(Tokens(c, S, delimiters), Token(c, w, delimiters))
<1>1. PICK R : R = S \cup {w}
  OBVIOUS
<1>2. PICK n, m : n = Cardinality(S) /\ m = Cardinality(R)
  OBVIOUS
<1>3. PICK f, g : f = InOrder(S) /\ g = InOrder(R)
  OBVIOUS
<1>4. n \in Nat
  BY <1>2, InOrderIs
<1>5. Ordered(R) /\ m = n + 1 /\ g[m] = w /\ \A k \in 1..n : g[k] = f[k]
  BY <1>1, <1>2, <1>3, InOrderGrows DEF Follows
<1>6. PICK s, t : s = Tokens(c, S, delimiters) /\ t = Tokens(c, R, delimiters)
  OBVIOUS
<1>7. Listing(s, n) /\ \A k \in 1..n : s[k] = Token(c, f[k], delimiters)
  <2>1. ListsTokens(s, c, S, delimiters)
    BY <1>6, TokensIs
  <2> QED BY <1>2, <1>3, <2>1 DEF ListsTokens
<1>11. Ordered(R)
  BY <1>5
<1>8. Listing(t, m) /\ \A k \in 1..m : t[k] = Token(c, g[k], delimiters)
  <2>1. ListsTokens(t, c, R, delimiters)
    BY <1>6, <1>11, TokensIs
  <2> QED BY <1>2, <1>3, <2>1 DEF ListsTokens
<1>9. (\A k \in 1..n : t[k] = s[k]) /\ t[m] = Token(c, w, delimiters)
  BY <1>4, <1>5, <1>7, <1>8
<1>10. t = Append(s, Token(c, w, delimiters))
  BY <1>4, <1>5, <1>7, <1>8, <1>9, LastIsAppended
<1> QED BY <1>1, <1>6, <1>10

\* There are no tokens where there are no words.
LEMMA TokensNone ==
  ASSUME NEW c, NEW S, Ordered(S), NEW delimiters
  PROVE  Tokens(c, S, delimiters) = <<>> <=> S = {}
<1>1. PICK n, f, s : n = Cardinality(S) /\ f = InOrder(S) /\ s = Tokens(c, S, delimiters)
  OBVIOUS
<1>2. n \in Nat /\ f \in [1..n -> S] /\ Listing(s, n)
  BY <1>1, TokensIs DEF ListsTokens
<1>3. n = 0 <=> S = {}
  BY <1>1, FS_EmptySet DEF Ordered
<1>4. ASSUME n = 0 PROVE Tokens(c, S, delimiters) = <<>>
  BY <1>1, <1>2, <1>4 DEF Listing
<1>5. ASSUME Tokens(c, S, delimiters) = <<>> PROVE n = 0
  <2>1. DOMAIN Tokens(c, S, delimiters) = 1..n
    BY <1>1, <1>2 DEF Listing
  <2>2. 1..n = {}
    BY <1>5, <2>1
  <2> QED BY <1>2, <2>2
<1> QED BY <1>3, <1>4, <1>5

\* s lists the tokens of the segments that F begins.
Lists(s, c, F, words, breaks, delimiters) ==
  LET m == Cardinality(F)
      f == InOrder(F)
  IN  /\ m \in Nat /\ f \in [1..m -> F] /\ Listing(s, m)
      /\ \A k \in 1..m : s[k] = Tokens(c, Segment(f[k], words, breaks), delimiters)

\* Segments are listed in the order of their first words.
LEMMA SegmentsIs ==
  ASSUME NEW c, NEW delimiters, NEW n, NEW G, NEW B, Frame(n, G, B),
         NEW S \in SUBSET Words(G)
  PROVE  Lists(Segments(c, S, Words(G), B, delimiters), c, Firsts(S, Words(G), B),
               Words(G), B, delimiters)
<1>1. PICK F : F = Firsts(S, Words(G), B)
  OBVIOUS
<1>2. PICK m, f : m = Cardinality(F) /\ f = InOrder(F)
  OBVIOUS
<1>3. m \in Nat /\ f \in [1..m -> F]
  BY <1>1, <1>2, InOrderIs, FirstsOrdered
<1>4. PICK s : s = Segments(c, S, Words(G), B, delimiters)
  OBVIOUS
<1>5. s = [i \in DOMAIN f |-> Tokens(c, Segment(f[i], Words(G), B), delimiters)]
  BY <1>1, <1>2, <1>4 DEF Segments, Firsts
<1>6. DOMAIN f = 1..m
  BY <1>3
<1>7. Listing(s, m) /\ \A k \in 1..m : s[k] = Tokens(c, Segment(f[k], Words(G), B), delimiters)
  BY <1>5, <1>6 DEF Listing
<1> QED BY <1>1, <1>2, <1>3, <1>4, <1>7 DEF Lists

\* A separator makes a segment of the words that have been read since the last.
OneSegmentMore(c, past, done, words, breaks, delimiters) ==
  Segments(c, past \cup done, words, breaks, delimiters)
    = IF done = {} THEN Segments(c, past, words, breaks, delimiters)
      ELSE Append(Segments(c, past, words, breaks, delimiters), Tokens(c, done, delimiters))

\* What has been read since the last separator is one segment more, at the end.
LEMMA SegmentsGrow ==
  ASSUME NEW c, NEW delimiters, NEW n, NEW G, NEW B, Frame(n, G, B),
         NEW p \in Nat, p \in B \/ p = n + 1
  PROVE  OneSegmentMore(c, Past(p, Words(G), B), Done(p, Words(G), B), Words(G), B, delimiters)
<1>0. PICK past, done : past = Past(p, Words(G), B) /\ done = Done(p, Words(G), B)
  OBVIOUS
<1> SUFFICES OneSegmentMore(c, past, done, Words(G), B, delimiters)
  BY <1>0
<1>1. CASE done = {}
  <2>1. past \cup done = past
    BY <1>1
  <2> QED BY <1>1, <2>1 DEF OneSegmentMore
<1>2. CASE done # {}
  <2>1. past \subseteq Words(G) /\ done \subseteq Words(G)
    BY <1>0 DEF Past, Done
  <2>2. Ordered(done)
    BY <2>1, WordsOrdered
  <2>3. PICK w \in done : w = First(done)
    BY <1>2, <2>2, FirstIs
  <2>4. \A x \in done : Segment(x, Words(G), B) = done
    BY <1>0, DoneIsSegment
  <2>5. PICK F, H : F = Firsts(past, Words(G), B) /\ H = Firsts(past \cup done, Words(G), B)
    OBVIOUS
  <2>6. H = F \cup {w}
    BY <2>3, <2>4, <2>5 DEF Firsts
  <2>7. F \subseteq past
    <3>1. \A x \in past : First(Segment(x, Words(G), B)) \in Segment(x, Words(G), B)
      BY <2>1, SegmentHolds
    <3>2. \A x \in past : Segment(x, Words(G), B) \subseteq past
      BY <1>0, PastIsClosed
    <3> QED BY <2>5, <3>1, <3>2 DEF Firsts
  <2>8. \A x \in past : x[1] < w[1]
    <3> SUFFICES ASSUME NEW x \in past PROVE x[1] < w[1]
      OBVIOUS
    <3>1. PICK b \in B : x[1] < b /\ b < p
      BY <1>0 DEF Past
    <3>2. b < w[1]
      BY <1>0, <2>3, <3>1 DEF Done
    <3>3. b \in Nat /\ x[1] \in Nat /\ w[1] \in Nat
      BY <2>1, <2>3, FrameFacts
    <3> QED BY <3>1, <3>2, <3>3
  <2>9. Ordered(F) /\ w \in Nat \X Nat
    <3>1. w \in (1..n) \X (1..n) /\ n \in Nat
      BY <2>1, <2>3, WordFacts, FrameFacts
    <3> QED BY <2>1, <2>5, <3>1, FirstsOrdered
  <2>10. PICK m, l : m = Cardinality(F) /\ l = Cardinality(H)
    OBVIOUS
  <2>11. PICK f, g : f = InOrder(F) /\ g = InOrder(H)
    OBVIOUS
  <2>12. l = m + 1 /\ g[l] = w /\ \A k \in 1..m : g[k] = f[k]
    BY <2>6, <2>7, <2>8, <2>9, <2>10, <2>11, InOrderGrows
  <2>13. PICK s, t : /\ s = Segments(c, past, Words(G), B, delimiters)
                     /\ t = Segments(c, past \cup done, Words(G), B, delimiters)
    OBVIOUS
  <2>14. /\ m \in Nat /\ Listing(s, m)
         /\ \A k \in 1..m : s[k] = Tokens(c, Segment(f[k], Words(G), B), delimiters)
    <3>1. past \in SUBSET Words(G)
      BY <2>1
    <3>2. Lists(s, c, F, Words(G), B, delimiters)
      BY <2>5, <2>13, <3>1, SegmentsIs
    <3> QED BY <2>10, <2>11, <3>2 DEF Lists
  <2>15. PICK both \in SUBSET Words(G) : both = past \cup done
    BY <2>1
  <2>16. /\ Listing(t, l)
         /\ \A k \in 1..l : t[k] = Tokens(c, Segment(g[k], Words(G), B), delimiters)
    <3>1. H = Firsts(both, Words(G), B) /\ t = Segments(c, both, Words(G), B, delimiters)
      BY <2>5, <2>13, <2>15
    <3>2. Lists(t, c, H, Words(G), B, delimiters)
      BY <3>1, SegmentsIs
    <3> QED BY <2>10, <2>11, <3>2 DEF Lists
  <2>17. t[l] = Tokens(c, done, delimiters)
    <3>1. Segment(w, Words(G), B) = done
      BY <2>3, <2>4
    <3>2. l \in 1..l
      BY <2>12, <2>14
    <3> QED BY <2>12, <2>16, <3>1, <3>2
  <2>18. \A k \in 1..m : t[k] = s[k]
    BY <2>12, <2>14, <2>16
  <2>19. t = Append(s, Tokens(c, done, delimiters))
    BY <2>12, <2>14, <2>16, <2>17, <2>18, LastIsAppended
  <2> QED BY <1>2, <2>13, <2>19 DEF OneSegmentMore
<1> QED BY <1>1, <1>2

-----------------------------------------------------------------------------
(* The characters of a command. *)

GapsOf(c)       == Gaps(c, Open(c))
BreaksOf(c)     == Breaks(c, Open(c))
DelimitersOf(c) == Delimiters(c, Open(c))
WordsOf(c)      == Words(GapsOf(c))

\* The quotes that are open behind a character.
Turned(before, ch) ==
  CASE before = "none" /\ ch \in Quotes -> ch
    [] before = ch -> "none"
    [] OTHER -> before

QuotesOrNone == Quotes \cup {"none"}

\* Quotes that turn with every character can be followed from the first on.
LEMMA StepwiseQuotes ==
  ASSUME NEW L \in Nat, NEW e \in QuotesOrNone,
         NEW step \in [(1..L) \X QuotesOrNone -> QuotesOrNone]
  PROVE  \E f \in [0..L -> QuotesOrNone] :
           f[0] = e /\ \A k \in 1..L : f[k] = step[<<k, f[k - 1]>>]
<1>1. StepsLead(QuotesOrNone, e, L, step)
  BY StepsExist
<1> QED BY <1>1 DEF StepsLead, Steps

\* No quotes are open at first, and every character turns them.
LEMMA OpenIs ==
  ASSUME NEW c \in Texts
  PROVE  /\ Open(c)[1] = "none"
         /\ \A i \in 1..Len(c) : Open(c)[i + 1] = Turned(Open(c)[i], c[i])
<1> DEFINE n == Len(c)
           step == [x \in (1..n) \X QuotesOrNone |-> Turned(x[2], c[x[1]])]
           Is(f) == f = [i \in 1..(n + 1) |-> IF i = 1 THEN "none" ELSE
                           CASE f[i - 1] = "none" /\ c[i - 1] \in Quotes -> c[i - 1]
                             [] f[i - 1] = c[i - 1] -> "none"
                             [] OTHER -> f[i - 1]]
<1>1. n \in Nat
  BY CommandFacts
<1>2. \A before \in QuotesOrNone : \A ch : Turned(before, ch) \in QuotesOrNone
  BY DEF Turned, QuotesOrNone
<1>3. step \in [(1..n) \X QuotesOrNone -> QuotesOrNone]
  <2>1. \A x \in (1..n) \X QuotesOrNone : Turned(x[2], c[x[1]]) \in QuotesOrNone
    BY <1>2
  <2> QED BY <2>1
<1>4. \E g \in [0..n -> QuotesOrNone] :
        g[0] = "none" /\ \A k \in 1..n : g[k] = step[<<k, g[k - 1]>>]
  <2>1. "none" \in QuotesOrNone
    BY DEF QuotesOrNone
  <2> HIDE DEF n, step, Is
  <2>2. PICK e \in QuotesOrNone : e = "none"
    BY <2>1
  <2>3. PICK next \in [(1..n) \X QuotesOrNone -> QuotesOrNone] : next = step
    BY <1>3
  <2>4. \E g \in [0..n -> QuotesOrNone] : g[0] = e /\ \A k \in 1..n : g[k] = next[<<k, g[k - 1]>>]
    BY <1>1, StepwiseQuotes
  <2> QED BY <2>2, <2>3, <2>4
<1>5. PICK g \in [0..n -> QuotesOrNone] :
        g[0] = "none" /\ \A k \in 1..n : g[k] = step[<<k, g[k - 1]>>]
  BY <1>4
<1>6. \A k \in 1..n : g[k] = Turned(g[k - 1], c[k])
  <2> SUFFICES ASSUME NEW k \in 1..n PROVE g[k] = Turned(g[k - 1], c[k])
    OBVIOUS
  <2>1. PICK e \in QuotesOrNone : e = g[k - 1]
    BY <1>1, <1>5
  <2>2. step[<<k, e>>] = Turned(e, c[k])
    OBVIOUS
  <2> QED BY <1>5, <2>1, <2>2
<1>7. \E f : Is(f)
  <2> DEFINE f == [i \in 1..(n + 1) |-> g[i - 1]]
  <2>1. f[1] = "none"
    BY <1>1, <1>5
  <2>2. ASSUME NEW i \in 1..(n + 1), i # 1
        PROVE  f[i] = CASE f[i - 1] = "none" /\ c[i - 1] \in Quotes -> c[i - 1]
                        [] f[i - 1] = c[i - 1] -> "none"
                        [] OTHER -> f[i - 1]
    <3>1. PICK k \in 1..n : k = i - 1
      BY <1>1, <2>2
    <3>2. f[i] = g[k] /\ f[k] = g[k - 1]
      BY <1>1, <3>1
    <3> HIDE DEF f
    <3>3. f[i] = Turned(f[k], c[k])
      BY <1>6, <3>2
    <3> QED BY <3>1, <3>3 DEF Turned
  <2>3. \A i \in 1..(n + 1) : f[i] = IF i = 1 THEN "none" ELSE
                           CASE f[i - 1] = "none" /\ c[i - 1] \in Quotes -> c[i - 1]
                             [] f[i - 1] = c[i - 1] -> "none"
                             [] OTHER -> f[i - 1]
    <3> HIDE DEF f
    <3> QED BY <2>1, <2>2
  <2>4. f = [i \in 1..(n + 1) |-> f[i]]
    OBVIOUS
  <2>5. Is(f)
    <3> HIDE DEF f
    <3> QED BY <2>3, <2>4
  <2> QED BY <2>5
<1>8. Open(c) = CHOOSE f : Is(f)
  BY DEF Open
<1>9. Is(Open(c))
  <2> HIDE DEF Is
  <2> QED BY <1>7, <1>8
<1>10. Open(c)[1] = "none"
  BY <1>1, <1>9
<1>11. ASSUME NEW i \in 1..n PROVE Open(c)[i + 1] = Turned(Open(c)[i], c[i])
  <2>1. i + 1 \in 1..(n + 1) /\ i + 1 # 1 /\ (i + 1) - 1 = i
    BY <1>1
  <2>2. PICK o : o = Open(c)
    OBVIOUS
  <2>3. PICK j \in 1..(n + 1) : j = i + 1
    BY <2>1
  <2>4. o[j] = CASE o[j - 1] = "none" /\ c[j - 1] \in Quotes -> c[j - 1]
                 [] o[j - 1] = c[j - 1] -> "none"
                 [] OTHER -> o[j - 1]
    BY <1>9, <2>1, <2>2, <2>3
  <2>5. j - 1 = i
    BY <2>1, <2>3
  <2> QED BY <2>2, <2>3, <2>4, <2>5 DEF Turned
<1> QED BY <1>10, <1>11

\* The gaps and breaks of a command are what the lemmas on words ask for.
LEMMA FrameOf ==
  ASSUME NEW c \in Texts
  PROVE  /\ Len(c) \in Nat
         /\ Frame(Len(c), GapsOf(c), BreaksOf(c))
         /\ DelimitersOf(c) \subseteq 1..Len(c)
<1>1. Len(c) \in Nat /\ DOMAIN c = 1..Len(c)
  BY CommandFacts
<1> QED BY <1>1 DEF Frame, GapsOf, BreaksOf, DelimitersOf, Gaps, Breaks, Delimiters

\* A character outside of quotes.
LEMMA Characters ==
  ASSUME NEW c \in Texts, NEW p \in 1..Len(c), Open(c)[p] = "none"
  PROVE  /\ p \in BreaksOf(c) <=> c[p] \in NewLines \cup {"|", "&"}
         /\ p \in GapsOf(c) <=> c[p] \in NewLines \cup {"|", "&"} \cup Blank
         /\ p \in DelimitersOf(c) <=> c[p] \in Quotes
         /\ c[p] \notin Quotes => Open(c)[p + 1] = "none"
         /\ c[p] \in Quotes => Open(c)[p + 1] = c[p]
<1>1. Len(c) \in Nat /\ DOMAIN c = 1..Len(c) /\ p # 0 /\ p # Len(c) + 1
  BY CommandFacts
<1>2. p \in BreaksOf(c) <=> c[p] \in NewLines \cup {"|", "&"}
  BY <1>1 DEF BreaksOf, Breaks
<1>3. p \in GapsOf(c) <=> c[p] \in NewLines \cup {"|", "&"} \cup Blank
  BY <1>1, <1>2 DEF BreaksOf, GapsOf, Gaps
<1>4. p \in DelimitersOf(c) <=> c[p] \in Quotes
  BY <1>1 DEF DelimitersOf, Delimiters
<1>5. Open(c)[p + 1] = Turned("none", c[p])
  BY OpenIs
<1>6. c[p] \notin Quotes => Open(c)[p + 1] = "none"
  BY <1>5 DEF Turned
<1>7. c[p] \in Quotes => Open(c)[p + 1] = c[p]
  BY <1>5 DEF Turned
<1> QED BY <1>2, <1>3, <1>4, <1>6, <1>7

\* A character inside of quotes.
LEMMA QuotedCharacters ==
  ASSUME NEW c \in Texts, NEW p \in 1..Len(c), NEW quote \in Quotes, Open(c)[p] = quote
  PROVE  /\ p \notin GapsOf(c)
         /\ p \in DelimitersOf(c) <=> c[p] = quote
         /\ Open(c)[p + 1] = IF c[p] = quote THEN "none" ELSE quote
<1>5. quote # "none"
  BY DEF Quotes, Single, Double
<1>1. Len(c) \in Nat /\ DOMAIN c = 1..Len(c) /\ p # 0 /\ p # Len(c) + 1 /\ quote # "none"
  BY <1>5, CommandFacts
<1>2. p \notin GapsOf(c)
  BY <1>1 DEF GapsOf, Gaps, Breaks
<1>3. p \in DelimitersOf(c) <=> c[p] = quote
  BY <1>1 DEF DelimitersOf, Delimiters
<1>4. Open(c)[p + 1] = IF c[p] = quote THEN "none" ELSE quote
  BY <1>1, OpenIs DEF Turned
<1> QED BY <1>2, <1>3, <1>4

\* Quotes stay open until they are closed.
LEMMA QuotesStay ==
  ASSUME NEW c \in Texts, NEW p \in 1..Len(c), Open(c)[p] = "none", c[p] \in Quotes,
         NEW k \in Nat, p < k, k <= Len(c) + 1,
         \A i \in (p + 1)..(k - 1) : c[i] # c[p]
  PROVE  \A i \in (p + 1)..k : Open(c)[i] = c[p]
<1>0. Len(c) \in Nat
  BY CommandFacts
<1>1. PICK l \in Nat : l = k - (p + 1)
  BY <1>0
<1>2. PICK b \in Nat : b = p + 1
  OBVIOUS
<1>3. PICK quote \in Quotes : quote = c[p]
  OBVIOUS
<1> DEFINE N == {m \in Nat : Open(c)[b + m] = quote}
<1>4. 0 \in N
  BY <1>0, <1>2, <1>3, Characters
<1>5. ASSUME NEW m \in 1..l, m - 1 \in N PROVE m \in N
  <2>1. PICK i \in Nat : i = b + (m - 1)
    BY <1>2
  <2>2. i \in 1..Len(c) /\ i \in (p + 1)..(k - 1) /\ i + 1 = b + m /\ m \in Nat
    BY <1>0, <1>1, <1>2, <2>1
  <2>3. Open(c)[i] = quote /\ c[i] # quote
    BY <1>3, <1>5, <2>1, <2>2
  <2>4. Open(c)[i + 1] = quote
    BY <2>2, <2>3, QuotedCharacters
  <2> QED BY <2>2, <2>4
<1>6. \A m \in 0..l : m \in N
  <2> HIDE DEF N
  <2> QED BY <1>4, <1>5, InductionUpTo
<1> SUFFICES ASSUME NEW i \in (p + 1)..k PROVE Open(c)[i] = c[p]
  OBVIOUS
<1>7. PICK m \in 0..l : m = i - b
  BY <1>0, <1>1, <1>2
<1>8. b + m = i
  BY <1>2, <1>7
<1> QED BY <1>3, <1>6, <1>7, <1>8

-----------------------------------------------------------------------------
(* What is not supported. *)

\* There is no run of ampersands where there is none.
LEMMA NoAmpersand ==
  ASSUME NEW c, NEW i \in Nat, NEW open, i >= 1 => c[i] # "&" \/ open[i] # "none"
  PROVE  Ampersands(c, i, open) = {} /\ Cardinality(Ampersands(c, i, open)) = 0
                                     /\ ~ Alone(c, i, open)
<1>1. Ampersands(c, i, open) = {}
  <2> SUFFICES ASSUME NEW j \in 1..i, \A k \in j..i : open[k] = "none" /\ c[k] = "&" PROVE FALSE
    BY DEF Ampersands
  <2>1. i \in j..i /\ i >= 1
    OBVIOUS
  <2> QED BY <2>1
<1>2. Cardinality(Ampersands(c, i, open)) = 0
  BY <1>1, FS_EmptySet
<1> QED BY <1>1, <1>2 DEF Alone

\* A run of ampersands grows by one.
LEMMA OneAmpersandMore ==
  ASSUME NEW c, NEW i \in Nat, NEW h, h = i - 1, NEW open, i >= 1, c[i] = "&", open[i] = "none"
  PROVE  /\ Cardinality(Ampersands(c, i, open)) \in Nat
         /\ Cardinality(Ampersands(c, h, open)) \in Nat
         /\ Cardinality(Ampersands(c, i, open)) = Cardinality(Ampersands(c, h, open)) + 1
<1>1. h \in Nat /\ i \notin 1..h
  OBVIOUS
<1>2. Ampersands(c, i, open) = Ampersands(c, h, open) \cup {i}
  <2>1. \A j \in 1..i : j \in 1..h \/ j = i
    OBVIOUS
  <2>2. \A j \in 1..h : j \in 1..i /\ \A k \in j..i : k \in j..h \/ k = i
    OBVIOUS
  <2>3. \A j \in 1..h : \A k \in j..h : k \in j..i
    OBVIOUS
  <2>4. i \in 1..i /\ \A k \in i..i : k = i
    OBVIOUS
  <2> QED BY <2>1, <2>2, <2>3, <2>4 DEF Ampersands
<1>3. Ampersands(c, h, open) \in SUBSET (1..h)
  BY DEF Ampersands
<1>4. IsFiniteSet(Ampersands(c, h, open)) /\ Cardinality(Ampersands(c, h, open)) \in Nat
  BY <1>1, <1>3, SubsetsOfRange
<1>5. i \notin Ampersands(c, h, open)
  BY <1>1, <1>3
<1>6. Cardinality(Ampersands(c, h, open) \cup {i}) = Cardinality(Ampersands(c, h, open)) + 1
  BY <1>4, <1>5, FS_AddElement
<1> QED BY <1>2, <1>4, <1>6

\* What makes a command unsupported, by one of its positions.
LEMMA UnsupportedBy ==
  ASSUME NEW c \in Texts, NEW i \in 1..Len(c),
         \/ Live(c, i, Open(c))
         \/ Alone(c, i, Open(c))
         \/ i \in BreaksOf(c) /\ \A w \in WordsOf(c) : w[2] < i
  PROVE  Unsupported(c, Open(c))
<1>1. i \in DOMAIN c
  BY CommandFacts
<1> QED BY <1>1 DEF Unsupported, BreaksOf, WordsOf, GapsOf

-----------------------------------------------------------------------------
(* The scanner's record. *)

IsScanner(s) ==
  /\ s = [segments |-> s.segments, tokens |-> s.tokens, curr |-> s.curr,
          hasCurr |-> s.hasCurr, quoted |-> s.quoted, pendingSeparator |-> s.pendingSeparator]
  /\ s.hasCurr \in BOOLEAN /\ s.quoted \in BOOLEAN /\ s.pendingSeparator \in BOOLEAN

\* A new scanner is a scanner.
LEMMA NewScannerIs == IsScanner(NewScanner)
  BY DEF IsScanner, NewScanner

\* t is s with more text.
Extends(s, text, quoted, t) ==
  /\ IsScanner(t) /\ t.segments = s.segments /\ t.tokens = s.tokens
  /\ t.curr = s.curr \o text /\ t.hasCurr = TRUE /\ (t.quoted <=> s.quoted \/ quoted)

\* appendLiteral adds text to the word under way.
LEMMA AppendLiteralIs ==
  ASSUME NEW s, IsScanner(s), NEW text, NEW quoted \in BOOLEAN
  PROVE  Extends(s, text, quoted, appendLiteral(s, text, quoted))
<1>0. PICK t : t = appendLiteral(s, text, quoted)
  OBVIOUS
<1>1. PICK joined : joined = s.curr \o text
  OBVIOUS
<1>2. PICK both \in BOOLEAN : both = (s.quoted \/ quoted)
  OBVIOUS
<1>3. t = [s EXCEPT !.curr = joined, !.hasCurr = TRUE, !.quoted = both,
                    !.pendingSeparator = FALSE]
  BY <1>0, <1>1, <1>2 DEF appendLiteral
<1>4. t = [segments |-> s.segments, tokens |-> s.tokens, curr |-> joined,
           hasCurr |-> TRUE, quoted |-> both, pendingSeparator |-> FALSE]
  BY <1>3 DEF IsScanner
<1>5. Extends(s, text, quoted, t)
  BY <1>1, <1>2, <1>4 DEF Extends, IsScanner
<1> QED BY <1>0, <1>5

\* flushToken makes the word under way a token, if there is one.
LEMMA FlushTokenIs ==
  ASSUME NEW s, IsScanner(s), NEW t, t = flushToken(s)
  PROVE  /\ IsScanner(t) /\ t.segments = s.segments
         /\ t.pendingSeparator = s.pendingSeparator
         /\ IF s.hasCurr
            THEN /\ t.tokens = Append(s.tokens, [text |-> s.curr, quoted |-> s.quoted])
                 /\ t.curr = <<>> /\ t.hasCurr = FALSE /\ t.quoted = FALSE
            ELSE t = s
<1>1. CASE s.hasCurr
  <2>1. PICK more : more = Append(s.tokens, [text |-> s.curr, quoted |-> s.quoted])
    OBVIOUS
  <2>2. t = [s EXCEPT !.tokens = more, !.curr = <<>>, !.hasCurr = FALSE, !.quoted = FALSE]
    BY <1>1, <2>1 DEF flushToken
  <2>3. t = [segments |-> s.segments, tokens |-> more, curr |-> <<>>, hasCurr |-> FALSE,
             quoted |-> FALSE, pendingSeparator |-> s.pendingSeparator]
    BY <2>2 DEF IsScanner
  <2> QED BY <1>1, <2>1, <2>3 DEF IsScanner
<1>2. CASE ~ s.hasCurr
  BY <1>2 DEF flushToken
<1> QED BY <1>1, <1>2

\* t is u with its tokens made a segment.
Flushes(u, t) ==
  /\ IsScanner(t)
  /\ t.segments = IF u.tokens = <<>> THEN u.segments ELSE Append(u.segments, u.tokens)
  /\ t.tokens = <<>> /\ t.pendingSeparator = TRUE
  /\ t.curr = u.curr /\ t.hasCurr = u.hasCurr /\ t.quoted = u.quoted

\* flushSegment makes the tokens a segment, if there are any.
LEMMA FlushSegmentIs ==
  ASSUME NEW s, IsScanner(s)
  PROVE  Flushes(flushToken(s), flushSegment(s))
<1>0. PICK u, t : u = flushToken(s) /\ t = flushSegment(s)
  OBVIOUS
<1>1. IsScanner(u)
  BY <1>0, FlushTokenIs
<1>2. PICK more : more = IF u.tokens = <<>> THEN u.segments ELSE Append(u.segments, u.tokens)
  OBVIOUS
<1>3. t = [u EXCEPT !.segments = more, !.tokens = <<>>, !.pendingSeparator = TRUE]
  BY <1>0, <1>2 DEF flushSegment
<1>4. t = [segments |-> more, tokens |-> <<>>, curr |-> u.curr, hasCurr |-> u.hasCurr,
           quoted |-> u.quoted, pendingSeparator |-> TRUE]
  BY <1>1, <1>3 DEF IsScanner
<1>5. Flushes(u, t)
  BY <1>1, <1>2, <1>4 DEF Flushes, IsScanner
<1> QED BY <1>0, <1>5

\* A separator right behind a separator changes nothing.
LEMMA FlushedTwice ==
  ASSUME NEW s, IsScanner(s), ~ s.hasCurr, s.tokens = <<>>, s.pendingSeparator
  PROVE  flushSegment(s) = s
<1>1. PICK t, u : t = flushSegment(s) /\ u = flushToken(s)
  OBVIOUS
<1>2. u = s
  BY <1>1 DEF flushToken
<1>6. Flushes(u, t)
  BY <1>1, FlushSegmentIs
<1>3. /\ IsScanner(t) /\ t.segments = s.segments /\ t.tokens = <<>> /\ t.pendingSeparator = TRUE
      /\ t.curr = s.curr /\ t.hasCurr = s.hasCurr /\ t.quoted = s.quoted
  BY <1>2, <1>6 DEF Flushes
<1>4. s.pendingSeparator = TRUE
  BY DEF IsScanner
<1>5. t = s
  BY <1>3, <1>4 DEF IsScanner
<1> QED BY <1>1, <1>5

-----------------------------------------------------------------------------
(* What the scanner holds of the text before p. *)

HoldsWord(c, s, p, a) ==
  /\ Begun(a, p, GapsOf(c))
  /\ s.hasCurr <=> a < p
  /\ s.curr = TextOf(c, a, p - 1, DelimitersOf(c))
  /\ s.quoted <=> \E i \in a .. p - 1 : i \in DelimitersOf(c)

Reads(c, s, p) ==
  /\ \E a \in 1..p : HoldsWord(c, s, p, a)
  /\ s.tokens = Tokens(c, Now(p, WordsOf(c), BreaksOf(c)), DelimitersOf(c))
  /\ s.segments = Segments(c, Past(p, WordsOf(c), BreaksOf(c)), WordsOf(c), BreaksOf(c),
                           DelimitersOf(c))
  /\ (\E b \in BreaksOf(c) : b < p /\ \A i \in b .. p - 1 : i \in GapsOf(c))
       => s.pendingSeparator

\* No word is under way behind a gap.
LEMMA NoWordBegun ==
  ASSUME NEW c \in Texts, NEW t, NEW p \in Nat \ {0}, p - 1 \in GapsOf(c),
         t.curr = <<>>, ~ t.hasCurr, ~ t.quoted
  PROVE  \E a \in 1..p : HoldsWord(c, t, p, a)
<1>1. PICK q \in Nat : q = p - 1
  OBVIOUS
<1>2. TextOf(c, p, q, DelimitersOf(c)) = <<>>
  BY <1>1, TextNone
<1>3. Begun(p, p, GapsOf(c))
  BY DEF Begun
<1>4. ~ \E i \in p .. p - 1 : i \in DelimitersOf(c)
  OBVIOUS
<1>5. HoldsWord(c, t, p, p)
  BY <1>1, <1>2, <1>3, <1>4 DEF HoldsWord
<1> QED BY <1>5

\* At a gap the word under way becomes a token.
LEMMA FlushedAtGap ==
  ASSUME NEW c \in Texts, NEW s, IsScanner(s), NEW p \in 1..(Len(c) + 1), p \in GapsOf(c),
         Reads(c, s, p), NEW u, u = flushToken(s)
  PROVE  /\ u.tokens = Tokens(c, Done(p, WordsOf(c), BreaksOf(c)), DelimitersOf(c))
         /\ u.curr = <<>> /\ ~ u.hasCurr /\ ~ u.quoted
<1>1. PICK a \in 1..p : HoldsWord(c, s, p, a)
  BY DEF Reads
<1>2. PICK n, G, B : n = Len(c) /\ G = GapsOf(c) /\ B = BreaksOf(c)
  OBVIOUS
<1>3. Frame(n, G, B) /\ n \in Nat
  BY <1>2, FrameOf
<1>4. Begun(a, p, G)
  BY <1>1, <1>2 DEF HoldsWord
<1>5. Done(p, Words(G), B) = Now(p, Words(G), B) \cup (IF a < p THEN {<<a, p - 1>>} ELSE {})
  BY <1>2, <1>3, <1>4, WordEnds
<1>6. s.tokens = Tokens(c, Now(p, Words(G), B), DelimitersOf(c))
  BY <1>2 DEF Reads, WordsOf
<1>7. CASE a < p
  <2>1. PICK q \in Nat : q = p - 1 /\ a <= q
    BY <1>2, <1>3, <1>7
  <2>2. PICK w : w = <<a, q>>
    OBVIOUS
  <2>3. PICK S : S = Now(p, Words(G), B)
    OBVIOUS
  <2>4. Done(p, Words(G), B) = S \cup {w}
    BY <1>5, <1>7, <2>1, <2>2, <2>3
  <2>5. w \in Words(G) /\ S \subseteq Words(G)
    BY <2>3, <2>4 DEF Done, Now
  <2>6. \A v \in S : v[1] < w[1]
    <3> SUFFICES ASSUME NEW v \in S PROVE v[1] < w[1]
      OBVIOUS
    <3>1. v \in Words(G) /\ v[2] + 1 < p
      BY <2>3 DEF Now
    <3>2. v[1] \in Nat /\ v[2] \in Nat /\ v[1] <= v[2] /\ w[1] = a /\ w[2] = q
      BY <1>3, <2>2, <3>1, FrameFacts
    <3>3. v # w
      BY <2>1, <3>1, <3>2
    <3>4. v[1] # w[1] /\ ~ (w[1] < v[1] /\ ~ (w[2] + 1 < v[1]))
      BY <1>3, <2>5, <3>1, <3>3, WordsApart
    <3> QED BY <2>1, <3>1, <3>2, <3>4
  <2>7. Follows(w, S) /\ Ordered(S)
    <3>1. w \in Nat \X Nat
      BY <1>2, <2>1, <2>2
    <3> QED BY <1>3, <2>5, <2>6, <3>1, WordsOrdered DEF Follows
  <2>8. Tokens(c, S \cup {w}, DelimitersOf(c))
          = Append(Tokens(c, S, DelimitersOf(c)), Token(c, w, DelimitersOf(c)))
    BY <2>7, TokensGrow
  <2>9. Token(c, w, DelimitersOf(c)) = [text |-> s.curr, quoted |-> s.quoted]
    <3>1. s.curr = TextOf(c, a, q, DelimitersOf(c))
      BY <1>1, <2>1 DEF HoldsWord
    <3>2. s.quoted = (\E i \in a..q : i \in DelimitersOf(c))
      BY <1>1, <2>1 DEF HoldsWord, IsScanner
    <3>3. Token(c, w, DelimitersOf(c))
            = [text |-> Token(c, w, DelimitersOf(c)).text,
               quoted |-> \E i \in a..q : i \in DelimitersOf(c)]
      BY <2>2 DEF Token
    <3> QED BY <2>2, <3>1, <3>2, <3>3 DEF TextOf
  <2>10. s.hasCurr
    BY <1>1, <1>7 DEF HoldsWord
  <2>11. /\ u.tokens = Append(s.tokens, [text |-> s.curr, quoted |-> s.quoted])
         /\ u.curr = <<>> /\ ~ u.hasCurr /\ ~ u.quoted
    BY <2>10, FlushTokenIs
  <2> QED BY <1>2, <1>6, <2>3, <2>4, <2>8, <2>9, <2>11 DEF WordsOf
<1>8. CASE ~ (a < p)
  <2>1. a = p /\ ~ s.hasCurr
    BY <1>1, <1>2, <1>3, <1>8 DEF HoldsWord
  <2>2. u = s
    BY <2>1, FlushTokenIs
  <2>3. Done(p, Words(G), B) = Now(p, Words(G), B)
    BY <1>5, <1>8
  <2>4. s.curr = <<>>
    <3>1. PICK q \in Nat : q = p - 1
      OBVIOUS
    <3>2. TextOf(c, p, q, DelimitersOf(c)) = <<>>
      BY <3>1, TextNone
    <3> QED BY <1>1, <2>1, <3>1, <3>2 DEF HoldsWord
  <2>5. ~ s.quoted
    BY <1>1, <2>1 DEF HoldsWord
  <2> QED BY <1>2, <1>6, <2>1, <2>2, <2>3, <2>4, <2>5 DEF WordsOf
<1> QED BY <1>7, <1>8

-----------------------------------------------------------------------------
(* The steps of the scanner. *)

\* At a gap that is no separator.
LEMMA ReadsGap ==
  ASSUME NEW c \in Texts, NEW s, IsScanner(s), NEW p \in 1..Len(c), p \in GapsOf(c),
         p \notin BreaksOf(c), Reads(c, s, p)
  PROVE  IsScanner(flushToken(s)) /\ Reads(c, flushToken(s), p + 1)
<1>1. PICK u, r : u = flushToken(s) /\ r = p + 1
  OBVIOUS
<1>2. PICK n, G, B, D : n = Len(c) /\ G = GapsOf(c) /\ B = BreaksOf(c) /\ D = DelimitersOf(c)
  OBVIOUS
<1>3. Frame(n, G, B) /\ n \in Nat /\ p \in 1..(n + 1) /\ r \in Nat \ {0} /\ r = p + 1 /\ p \in Nat
  BY <1>1, <1>2, FrameOf
<1>4. u.tokens = Tokens(c, Done(p, WordsOf(c), B), D) /\ u.curr = <<>> /\ ~ u.hasCurr /\ ~ u.quoted
  BY <1>1, <1>2, <1>3, FlushedAtGap
<1>5. IsScanner(u) /\ u.segments = s.segments /\ u.pendingSeparator = s.pendingSeparator
  BY <1>1, FlushTokenIs
<1>6. Now(r, Words(G), B) = Done(p, Words(G), B) /\ Past(r, Words(G), B) = Past(p, Words(G), B)
  BY <1>2, <1>3, NowAfterGap
<1>7. \E a \in 1..r : HoldsWord(c, u, r, a)
  <2>1. r - 1 \in GapsOf(c)
    BY <1>1, <1>3
  <2> QED BY <1>3, <1>4, <2>1, NoWordBegun
<1>8. ASSUME NEW b \in B, b < r, \A i \in b .. r - 1 : i \in G PROVE u.pendingSeparator
  <2>1. b \in Nat /\ b # p
    BY <1>2, <1>3, FrameFacts
  <2>2. b < p /\ \A i \in b .. p - 1 : i \in G
    BY <1>3, <1>8, <2>1
  <2> QED BY <1>2, <1>5, <2>2 DEF Reads
<1>9. /\ u.tokens = Tokens(c, Now(r, Words(G), B), D)
      /\ u.segments = Segments(c, Past(r, Words(G), B), Words(G), B, D)
  BY <1>2, <1>4, <1>5, <1>6 DEF Reads, WordsOf
<1>10. Reads(c, u, r)
  BY <1>2, <1>7, <1>8, <1>9 DEF Reads, WordsOf
<1> QED BY <1>1, <1>5, <1>10

\* At a separator, and at the end.
LEMMA FlushedSegments ==
  ASSUME NEW c \in Texts, NEW s, IsScanner(s), NEW p \in 1..(Len(c) + 1),
         p \in BreaksOf(c) \/ p = Len(c) + 1, Reads(c, s, p)
  PROVE  /\ IsScanner(flushSegment(s))
         /\ flushSegment(s).segments
              = Segments(c, Past(p, WordsOf(c), BreaksOf(c)) \cup Done(p, WordsOf(c), BreaksOf(c)),
                         WordsOf(c), BreaksOf(c), DelimitersOf(c))
         /\ flushSegment(s).tokens = <<>> /\ flushSegment(s).curr = <<>>
         /\ ~ flushSegment(s).hasCurr /\ ~ flushSegment(s).quoted
         /\ flushSegment(s).pendingSeparator
<1>1. PICK u, t : u = flushToken(s) /\ t = flushSegment(s)
  OBVIOUS
<1>2. PICK n, G, B, D : n = Len(c) /\ G = GapsOf(c) /\ B = BreaksOf(c) /\ D = DelimitersOf(c)
  OBVIOUS
<1>3. Frame(n, G, B) /\ n \in Nat /\ p \in Nat
  BY <1>2, FrameOf
<1>4. p \in GapsOf(c)
  BY <1>2, <1>3 DEF Frame
<1>5. u.tokens = Tokens(c, Done(p, WordsOf(c), B), D) /\ u.curr = <<>> /\ ~ u.hasCurr /\ ~ u.quoted
  BY <1>1, <1>2, <1>4, FlushedAtGap
<1>6. u.segments = s.segments
  BY <1>1, FlushTokenIs
<1>7. Flushes(u, t)
  BY <1>1, FlushSegmentIs
<1>8. PICK past, done : past = Past(p, Words(G), B) /\ done = Done(p, Words(G), B)
  OBVIOUS
<1>9. Segments(c, past \cup done, Words(G), B, D)
        = IF done = {} THEN Segments(c, past, Words(G), B, D)
          ELSE Append(Segments(c, past, Words(G), B, D), Tokens(c, done, D))
  <2>1. p \in B \/ p = n + 1
    BY <1>2
  <2>2. OneSegmentMore(c, Past(p, Words(G), B), Done(p, Words(G), B), Words(G), B, D)
    BY <1>3, <2>1, SegmentsGrow
  <2> QED BY <1>8, <2>2 DEF OneSegmentMore
<1>10. u.segments = Segments(c, past, Words(G), B, D) /\ u.tokens = Tokens(c, done, D)
  BY <1>2, <1>5, <1>6, <1>8 DEF Reads, WordsOf
<1>11. u.tokens = <<>> <=> done = {}
  <2>1. done \in SUBSET Words(G)
    BY <1>8 DEF Done
  <2>2. Ordered(done)
    BY <1>3, <2>1, WordsOrdered
  <2> QED BY <1>10, <2>2, TokensNone
<1>12. t.segments = Segments(c, past \cup done, Words(G), B, D)
  BY <1>7, <1>9, <1>10, <1>11 DEF Flushes
<1>13. /\ IsScanner(t) /\ t.tokens = <<>> /\ t.curr = <<>> /\ ~ t.hasCurr /\ ~ t.quoted
       /\ t.pendingSeparator
  BY <1>5, <1>7 DEF Flushes
<1> QED BY <1>1, <1>2, <1>8, <1>12, <1>13 DEF WordsOf

\* A separator reads its character.
LEMMA ReadsBreak ==
  ASSUME NEW c \in Texts, NEW s, IsScanner(s), NEW p \in 1..Len(c), p \in BreaksOf(c),
         Reads(c, s, p)
  PROVE  IsScanner(flushSegment(s)) /\ Reads(c, flushSegment(s), p + 1)
<1>1. PICK t, r : t = flushSegment(s) /\ r = p + 1
  OBVIOUS
<1>2. PICK n, G, B, D : n = Len(c) /\ G = GapsOf(c) /\ B = BreaksOf(c) /\ D = DelimitersOf(c)
  OBVIOUS
<1>3. Frame(n, G, B) /\ n \in Nat /\ p \in 1..(n + 1) /\ r \in Nat \ {0} /\ r = p + 1 /\ p \in Nat
  BY <1>1, <1>2, FrameOf
<1>4. /\ IsScanner(t) /\ t.tokens = <<>> /\ t.curr = <<>> /\ ~ t.hasCurr /\ ~ t.quoted
      /\ t.pendingSeparator
      /\ t.segments = Segments(c, Past(p, Words(G), B) \cup Done(p, Words(G), B), Words(G), B, D)
  BY <1>1, <1>2, <1>3, FlushedSegments DEF WordsOf
<1>5. /\ Now(r, Words(G), B) = {}
      /\ Past(r, Words(G), B) = Past(p, Words(G), B) \cup Done(p, Words(G), B)
  BY <1>2, <1>3, NowAfterBreak
<1>6. Tokens(c, {}, D) = <<>>
  BY InOrderNone, TokensNone
<1>7. \E a \in 1..r : HoldsWord(c, t, r, a)
  <2>1. r - 1 \in GapsOf(c)
    BY <1>2, <1>3 DEF Frame
  <2> QED BY <1>3, <1>4, <2>1, NoWordBegun
<1>8. Reads(c, t, r)
  BY <1>2, <1>4, <1>5, <1>6, <1>7 DEF Reads, WordsOf
<1> QED BY <1>1, <1>4, <1>8

\* The same separator again.
LEMMA ReadsBreaks ==
  ASSUME NEW c \in Texts, NEW s, IsScanner(s), NEW p \in 1..Len(c), NEW r \in 1..Len(c),
         r = p + 1, p \in BreaksOf(c), r \in BreaksOf(c), Reads(c, s, p)
  PROVE  Reads(c, flushSegment(s), r + 1)
<1>1. PICK t : t = flushSegment(s)
  OBVIOUS
<1>2. IsScanner(t) /\ Reads(c, t, r)
  BY <1>1, ReadsBreak
<1>3. Reads(c, flushSegment(t), r + 1)
  BY <1>2, ReadsBreak
<1>4. ~ t.hasCurr /\ t.tokens = <<>> /\ t.pendingSeparator
  <2>1. p \in 1..(Len(c) + 1)
    BY FrameOf
  <2> QED BY <1>1, <2>1, FlushedSegments
<1>5. flushSegment(t) = t
  BY <1>2, <1>4, FlushedTwice
<1> QED BY <1>1, <1>3, <1>5

\* Within a word.
LEMMA ReadsWord ==
  ASSUME NEW c \in Texts, NEW s, NEW p \in 1..Len(c), NEW q \in Nat, p <= q, q <= Len(c),
         NEW a \in 1..p, HoldsWord(c, s, p, a), Reads(c, s, p), NoGap(p, q, GapsOf(c)),
         NEW t, t.tokens = s.tokens, t.segments = s.segments, t.hasCurr,
         t.curr = TextOf(c, a, q, DelimitersOf(c)),
         t.quoted <=> \E i \in a..q : i \in DelimitersOf(c)
  PROVE  Reads(c, t, q + 1)
<1>1. PICK r \in Nat : r = q + 1
  OBVIOUS
<1>2. PICK n, G, B, D : n = Len(c) /\ G = GapsOf(c) /\ B = BreaksOf(c) /\ D = DelimitersOf(c)
  OBVIOUS
<1>3. Frame(n, G, B) /\ n \in Nat /\ p \in Nat /\ r - 1 = q /\ p <= r
  BY <1>1, <1>2, FrameOf
<1>4. Now(r, Words(G), B) = Now(p, Words(G), B) /\ Past(r, Words(G), B) = Past(p, Words(G), B)
  <2>1. NoGap(p, r - 1, G)
    BY <1>2, <1>3
  <2> QED BY <1>3, <2>1, NothingRead
<1>5. HoldsWord(c, t, r, a)
  <2>1. Begun(a, p, G)
    BY <1>2 DEF HoldsWord
  <2>2. a \in 1..r /\ a < r
    BY <1>1, <1>3
  <2>3. \A i \in a .. r - 1 : i \notin G
    BY <1>2, <1>3, <2>1 DEF Begun, NoGap
  <2>4. Begun(a, r, G)
    BY <2>1, <2>2, <2>3 DEF Begun
  <2> QED BY <1>2, <1>3, <2>2, <2>4 DEF HoldsWord
<1>6. a \in 1..r
  BY <1>1, <1>3
<1>7. ASSUME NEW b \in B, b < r, \A i \in b .. r - 1 : i \in G PROVE FALSE
  <2>1. b \in Nat /\ q \in b .. r - 1 /\ q \in p..q
    BY <1>1, <1>3, <1>7, FrameFacts
  <2> QED BY <1>2, <1>7, <2>1 DEF NoGap
<1>8. /\ t.tokens = Tokens(c, Now(r, Words(G), B), D)
      /\ t.segments = Segments(c, Past(r, Words(G), B), Words(G), B, D)
  BY <1>2, <1>4 DEF Reads, WordsOf
<1>9. Reads(c, t, r)
  BY <1>2, <1>5, <1>6, <1>7, <1>8 DEF Reads, WordsOf
<1> QED BY <1>1, <1>9

\* A literal reads its character.
LEMMA ReadsLiteral ==
  ASSUME NEW c \in Texts, NEW s, IsScanner(s), NEW p \in 1..Len(c), p \notin GapsOf(c),
         p \notin DelimitersOf(c), Reads(c, s, p)
  PROVE  /\ IsScanner(appendLiteral(s, <<c[p]>>, FALSE))
         /\ Reads(c, appendLiteral(s, <<c[p]>>, FALSE), p + 1)
<1>1. PICK a \in 1..p : HoldsWord(c, s, p, a)
  BY DEF Reads
<1>2. PICK t : t = appendLiteral(s, <<c[p]>>, FALSE)
  OBVIOUS
<1>3. PICK D : D = DelimitersOf(c)
  OBVIOUS
<1>4. Len(c) \in Nat
  BY CommandFacts
<1>5. PICK q \in Nat : q = p - 1
  BY <1>4
<1>6. PICK r \in Nat : r = p
  BY <1>4
<1>7. PICK text : text = <<c[p]>>
  OBVIOUS
<1>8. /\ IsScanner(t) /\ t.segments = s.segments /\ t.tokens = s.tokens
      /\ t.curr = s.curr \o text /\ t.hasCurr = TRUE /\ (t.quoted <=> s.quoted \/ FALSE)
  <2>1. Extends(s, text, FALSE, t)
    BY <1>2, <1>7, AppendLiteralIs
  <2> QED BY <2>1 DEF Extends
<1>9. t.curr = TextOf(c, a, r, D)
  <2>1. s.curr = TextOf(c, a, q, D)
    BY <1>1, <1>3, <1>5 DEF HoldsWord
  <2>2. a \in Nat \ {0} /\ r = q + 1 /\ a <= r /\ r <= Len(c) /\ q <= Len(c) /\ r \notin D
    BY <1>3, <1>4, <1>5, <1>6
  <2>3. TextOf(c, a, r, D) = Append(TextOf(c, a, q, D), c[r])
    BY <2>2, TextGrows
  <2>4. PICK e \in Texts : e = TextOf(c, a, q, D)
    BY <2>2, TextIsText
  <2>5. PICK x \in STRING : x = c[p]
    BY CommandFacts
  <2>6. Append(e, x) = e \o <<x>>
    BY OneCharacter
  <2> QED BY <1>6, <1>7, <1>8, <2>1, <2>3, <2>4, <2>5, <2>6
<1>10. t.quoted <=> \E i \in a..r : i \in D
  <2>1. s.quoted <=> \E i \in a .. p - 1 : i \in D
    BY <1>1, <1>3 DEF HoldsWord
  <2>2. \A i \in a..r : i \in D => i \in a .. p - 1
    BY <1>3, <1>4, <1>6
  <2>3. \A i \in a .. p - 1 : i \in a..r
    BY <1>4, <1>6
  <2> QED BY <1>8, <2>1, <2>2, <2>3
<1>11. NoGap(p, r, GapsOf(c)) /\ p <= r /\ r <= Len(c)
  BY <1>4, <1>6 DEF NoGap
<1>12. Reads(c, t, r + 1)
  BY <1>1, <1>3, <1>8, <1>9, <1>10, <1>11, ReadsWord
<1> QED BY <1>2, <1>6, <1>8, <1>12

\* A quoted text from p to k.
Quoted(c, p, k) ==
  /\ p \in 1..Len(c) /\ k \in 1..Len(c) /\ p < k /\ Open(c)[p] = "none"
  /\ c[p] \in Quotes /\ c[k] = c[p] /\ \A i \in (p + 1)..(k - 1) : c[i] # c[p]

\* From a quote to the one that closes it no position is a gap, and what lies between them is no delimiter.
LEMMA QuotedFacts ==
  ASSUME NEW c \in Texts, NEW p, NEW k, Quoted(c, p, k)
  PROVE  /\ \A i \in (p + 1)..k : Open(c)[i] = c[p]
         /\ Open(c)[k + 1] = "none" /\ NoGap(p, k, GapsOf(c))
         /\ p \in DelimitersOf(c) /\ k \in DelimitersOf(c)
         /\ Plain(p + 1, k - 1, DelimitersOf(c))
<1>1. p \in 1..Len(c) /\ k \in 1..Len(c) /\ p < k /\ Len(c) \in Nat /\ Open(c)[p] = "none"
  BY CommandFacts DEF Quoted
<1>2. PICK quote \in Quotes : quote = c[p] /\ quote = c[k]
  BY DEF Quoted
<1>3. \A i \in (p + 1)..k : Open(c)[i] = quote
  BY <1>1, <1>2, QuotesStay DEF Quoted
<1>4. Open(c)[k] = quote
  BY <1>1, <1>3
<1>5. Open(c)[k + 1] = "none" /\ k \in DelimitersOf(c)
  BY <1>1, <1>2, <1>4, QuotedCharacters
<1>6. p \in DelimitersOf(c) /\ p \notin GapsOf(c)
  <2>1. c[p] \in Quotes
    BY <1>2
  <2>2. c[p] \notin NewLines \cup {"|", "&"} \cup Blank
    BY <2>1 DEF Quotes, Single, Double, NewLines, Blank
  <2> QED BY <1>1, <2>1, <2>2, Characters
<1>7. NoGap(p, k, GapsOf(c))
  <2> SUFFICES ASSUME NEW i \in p..k PROVE i \notin GapsOf(c)
    BY DEF NoGap
  <2>1. CASE i = p
    BY <1>6, <2>1
  <2>2. CASE i # p
    <3>1. i \in (p + 1)..k /\ i \in 1..Len(c)
      BY <1>1, <2>2
    <3> QED BY <1>3, <3>1, QuotedCharacters
  <2> QED BY <2>1, <2>2
<1>8. Plain(p + 1, k - 1, DelimitersOf(c))
  <2> SUFFICES ASSUME NEW i \in (p + 1)..(k - 1) PROVE i \notin DelimitersOf(c)
    BY DEF Plain
  <2>1. i \in (p + 1)..k /\ i \in 1..Len(c)
    BY <1>1
  <2>2. c[i] # quote
    BY <1>2 DEF Quoted
  <2> QED BY <1>3, <2>1, <2>2, QuotedCharacters
<1> QED BY <1>2, <1>3, <1>5, <1>6, <1>7, <1>8

\* A quoted text is read with its quotes.
LEMMA ReadsQuoted ==
  ASSUME NEW c \in Texts, NEW s, IsScanner(s), NEW p, NEW k, Quoted(c, p, k), Reads(c, s, p)
  PROVE  /\ IsScanner(appendLiteral(s, SubSeq(c, p + 1, k - 1), TRUE))
         /\ Reads(c, appendLiteral(s, SubSeq(c, p + 1, k - 1), TRUE), k + 1)
<1>1. PICK a \in 1..p : HoldsWord(c, s, p, a)
  BY DEF Reads
<1>2. PICK text : text = SubSeq(c, p + 1, k - 1)
  OBVIOUS
<1>3. PICK t : t = appendLiteral(s, text, TRUE)
  OBVIOUS
<1>4. PICK D : D = DelimitersOf(c)
  OBVIOUS
<1>5. p \in 1..Len(c) /\ k \in 1..Len(c) /\ p < k /\ Len(c) \in Nat
  BY CommandFacts DEF Quoted
<1>6. PICK o \in Nat, b \in Nat, q \in Nat, m \in Nat, l \in Nat :
        o = p - 1 /\ m = p /\ b = p + 1 /\ q = k - 1 /\ l = k
  BY <1>5
<1>7. /\ IsScanner(t) /\ t.segments = s.segments /\ t.tokens = s.tokens
      /\ t.curr = s.curr \o text /\ t.hasCurr = TRUE /\ (t.quoted <=> s.quoted \/ TRUE)
  <2>1. Extends(s, text, TRUE, t)
    BY <1>3, AppendLiteralIs
  <2> QED BY <2>1 DEF Extends
<1>8. p \in D /\ k \in D /\ Plain(b, q, D) /\ NoGap(p, k, GapsOf(c))
  BY <1>4, <1>6, QuotedFacts
<1>9. a \in Nat \ {0} /\ a <= m
  BY <1>5, <1>6
<1>10. t.curr = TextOf(c, a, l, D)
  <2>1. s.curr = TextOf(c, a, o, D)
    BY <1>1, <1>4, <1>6 DEF HoldsWord
  <2>2. TextOf(c, a, m, D) = TextOf(c, a, o, D)
    <3>1. m = o + 1 /\ a <= m /\ m <= Len(c) /\ m \in D
      BY <1>5, <1>6, <1>8
    <3> QED BY <1>9, <3>1, TextGrows
  <2>3. TextOf(c, a, q, D) = TextOf(c, a, m, D) \o Piece(c, b, q)
    <3>1. m < b /\ b <= m + 1 /\ a <= b /\ m <= q /\ q <= Len(c)
      BY <1>5, <1>6, <1>9
    <3> QED BY <1>8, <1>9, <3>1, TextSpans
  <2>4. TextOf(c, a, l, D) = TextOf(c, a, q, D)
    <3>1. l = q + 1 /\ a <= l /\ l <= Len(c) /\ l \in D
      BY <1>5, <1>6, <1>8, <1>9
    <3> QED BY <1>9, <3>1, TextGrows
  <2>5. text = Piece(c, b, q)
    BY <1>2, <1>6 DEF Piece
  <2> QED BY <1>7, <2>1, <2>2, <2>3, <2>4, <2>5
<1>11. t.quoted <=> \E i \in a..l : i \in D
  <2>1. p \in a..l
    BY <1>5, <1>6, <1>9
  <2> QED BY <1>7, <1>8, <2>1
<1>12. p <= l /\ l <= Len(c) /\ NoGap(p, l, GapsOf(c))
  BY <1>5, <1>6, <1>8
<1>13. Reads(c, t, l + 1)
  BY <1>1, <1>4, <1>5, <1>7, <1>10, <1>11, <1>12, ReadsWord
<1> QED BY <1>2, <1>3, <1>6, <1>7, <1>13

\* At the end the segments are those of the command.
LEMMA ReadsAll ==
  ASSUME NEW c \in Texts, NEW s, IsScanner(s), Reads(c, s, Len(c) + 1)
  PROVE  flushSegment(s).segments = Reading(c, Open(c)) /\ IsScanner(flushSegment(s))
<1>1. PICK p \in Nat : p = Len(c) + 1 /\ p \in 1..(Len(c) + 1)
  BY CommandFacts
<1>2. PICK G, B, W, D : /\ G = GapsOf(c) /\ B = BreaksOf(c) /\ W = WordsOf(c)
                        /\ D = DelimitersOf(c)
  OBVIOUS
<1>3. /\ flushSegment(s).segments = Segments(c, Past(p, W, B) \cup Done(p, W, B), W, B, D)
      /\ IsScanner(flushSegment(s))
  BY <1>1, <1>2, FlushedSegments
<1>4. W = Past(p, W, B) \cup Done(p, W, B)
  BY <1>1, <1>2, FrameOf, AllRead DEF WordsOf
<1>5. Segments(c, W, W, B, D) = Reading(c, Open(c))
  BY <1>2 DEF Segments, Reading, GapsOf, BreaksOf, WordsOf, DelimitersOf
<1> QED BY <1>3, <1>4, <1>5

-----------------------------------------------------------------------------
(* Refusals. *)

\* Nothing before p is refused.
Passed(c, p) ==
  /\ p \in 1 .. Len(c) + 1 /\ Open(c)[p] = "none"
  /\ \A i \in 1 .. p - 1 : ~ Live(c, i, Open(c)) /\ ~ Alone(c, i, Open(c))
  /\ Cardinality(Ampersands(c, p - 1, Open(c))) % 2 = 0

\* Harmless characters without ampersands outside of quotes are passed.
LEMMA PassedSpan ==
  ASSUME NEW c \in Texts, NEW p, Passed(c, p), NEW q \in Nat, p <= q, q <= Len(c),
         Open(c)[q + 1] = "none",
         \A i \in p..q : ~ Live(c, i, Open(c)) /\ (c[i] # "&" \/ Open(c)[i] # "none")
  PROVE  Passed(c, q + 1)
<1>1. Len(c) \in Nat /\ p \in 1 .. Len(c) + 1
  BY CommandFacts DEF Passed
<1>2. PICK r \in Nat : r = q + 1 /\ r - 1 = q
  OBVIOUS
<1>3. r \in 1 .. Len(c) + 1
  BY <1>1, <1>2
<1>4. ASSUME NEW i \in 1 .. r - 1 PROVE ~ Live(c, i, Open(c)) /\ ~ Alone(c, i, Open(c))
  <2>1. CASE i \in 1 .. p - 1
    BY <2>1 DEF Passed
  <2>2. CASE i \in p..q
    <3>1. i \in Nat
      BY <1>1, <2>2
    <3> QED BY <2>2, <3>1, NoAmpersand
  <2> QED BY <1>1, <1>2, <2>1, <2>2
<1>5. Cardinality(Ampersands(c, q, Open(c))) = 0
  <2>1. q \in p..q
    BY <1>1
  <2> QED BY <2>1, NoAmpersand
<1>6. Cardinality(Ampersands(c, r - 1, Open(c))) % 2 = 0
  BY <1>2, <1>5
<1>7. Passed(c, r)
  BY <1>2, <1>3, <1>4, <1>6 DEF Passed
<1> QED BY <1>2, <1>7

\* The ampersand at p is the odd one of its run.
LEMMA OddAmpersand ==
  ASSUME NEW c \in Texts, NEW p, Passed(c, p), p <= Len(c), c[p] = "&"
  PROVE  Cardinality(Ampersands(c, p, Open(c))) \in Nat
         /\ Cardinality(Ampersands(c, p, Open(c))) % 2 = 1
<1>1. Len(c) \in Nat /\ p \in 1 .. Len(c) + 1 /\ Open(c)[p] = "none"
  BY CommandFacts DEF Passed
<1>2. PICK h : h = p - 1
  OBVIOUS
<1>3. /\ Cardinality(Ampersands(c, p, Open(c))) \in Nat
      /\ Cardinality(Ampersands(c, h, Open(c))) \in Nat
      /\ Cardinality(Ampersands(c, p, Open(c))) = Cardinality(Ampersands(c, h, Open(c))) + 1
  BY <1>1, <1>2, OneAmpersandMore
<1>4. Cardinality(Ampersands(c, h, Open(c))) % 2 = 0
  BY <1>2 DEF Passed
<1>5. PICK m \in Nat : m = Cardinality(Ampersands(c, h, Open(c)))
  BY <1>3
<1>6. (m + 1) % 2 = 1
  BY <1>4, <1>5
<1> QED BY <1>3, <1>5, <1>6

\* A pair of ampersands is passed.
LEMMA PassedPair ==
  ASSUME NEW c \in Texts, NEW p, Passed(c, p), p < Len(c), c[p] = "&", c[p + 1] = "&"
  PROVE  Passed(c, p + 2)
<1>1. Len(c) \in Nat /\ p \in 1 .. Len(c) + 1 /\ Open(c)[p] = "none"
  BY CommandFacts DEF Passed
<1>2. PICK q \in 1..Len(c) : q = p + 1 /\ q - 1 = p
  BY <1>1
<1>3. p \in 1..Len(c) /\ "&" \notin Quotes /\ c[q] = "&"
  BY <1>1, <1>2 DEF Quotes, Single, Double
<1>4. Open(c)[q] = "none"
  BY <1>1, <1>2, <1>3, Characters
<1>5. Open(c)[q + 1] = "none"
  BY <1>3, <1>4, Characters
<1>6. /\ Cardinality(Ampersands(c, p, Open(c))) \in Nat
      /\ Cardinality(Ampersands(c, p, Open(c))) % 2 = 1
  BY <1>1, OddAmpersand
<1>7. /\ Cardinality(Ampersands(c, q, Open(c))) \in Nat
      /\ Cardinality(Ampersands(c, q, Open(c))) = Cardinality(Ampersands(c, p, Open(c))) + 1
  <2>1. q \in Nat /\ p = q - 1 /\ q >= 1
    BY <1>2
  <2> QED BY <1>3, <1>4, <2>1, OneAmpersandMore
<1>8. Cardinality(Ampersands(c, q, Open(c))) % 2 = 0
  <2>1. PICK m \in Nat : m = Cardinality(Ampersands(c, p, Open(c)))
    BY <1>6
  <2>2. (m + 1) % 2 = 0
    BY <1>6, <2>1
  <2> QED BY <1>7, <2>1, <2>2
<1>9. ~ Alone(c, p, Open(c)) /\ ~ Alone(c, q, Open(c))
  <2>1. ~ Alone(c, p, Open(c))
    BY <1>1, <1>2, <1>3 DEF Alone
  <2>2. ~ Alone(c, q, Open(c))
    BY <1>8 DEF Alone
  <2> QED BY <2>1, <2>2
<1>10. ~ Live(c, p, Open(c)) /\ ~ Live(c, q, Open(c))
  BY <1>3 DEF Live, Forbidden, Tick, Backslash
<1>11. PICK r \in Nat : r = p + 2 /\ r - 1 = q
  BY <1>1, <1>2
<1>12. r \in 1 .. Len(c) + 1 /\ Open(c)[r] = "none"
  BY <1>1, <1>2, <1>5, <1>11
<1>13. ASSUME NEW i \in 1 .. r - 1 PROVE ~ Live(c, i, Open(c)) /\ ~ Alone(c, i, Open(c))
  <2>1. i \in 1 .. p - 1 \/ i = p \/ i = q
    BY <1>1, <1>2, <1>11
  <2>2. CASE i \in 1 .. p - 1
    BY <2>2 DEF Passed
  <2> QED BY <1>9, <1>10, <2>1, <2>2
<1>14. Passed(c, r)
  BY <1>8, <1>11, <1>12, <1>13 DEF Passed
<1> QED BY <1>11, <1>14

\* A quoted text without an expansion is passed.
LEMMA PassedQuoted ==
  ASSUME NEW c \in Texts, NEW p, NEW k, Quoted(c, p, k), Passed(c, p),
         c[p] = Double => \A i \in (p + 1)..(k - 1) :
           c[i] \notin {Tick, Backslash} /\ ~ (c[i] = "$" /\ i < k - 1 /\ c[i + 1] = "(")
  PROVE  Passed(c, k + 1)
<1>1. p \in 1..Len(c) /\ k \in 1..Len(c) /\ p < k /\ Len(c) \in Nat
  BY CommandFacts DEF Quoted
<1>2. PICK quote \in Quotes : quote = c[p] /\ quote = c[k]
  BY DEF Quoted
<1>3. Open(c)[k + 1] = "none" /\ \A i \in (p + 1)..k : Open(c)[i] = quote
  <2>1. Open(c)[k + 1] = "none" /\ \A i \in (p + 1)..k : Open(c)[i] = c[p]
    BY QuotedFacts
  <2> QED BY <1>2, <2>1
<1>4. quote # "none" /\ quote # "&" /\ quote # "$" /\ quote # "("
      /\ quote \notin {Tick, Backslash} /\ quote \notin Forbidden
      /\ (quote = Single \/ quote = Double)
  BY DEF Quotes, Single, Double, Forbidden, Tick, Backslash
<1>5. ASSUME NEW i \in p..k
      PROVE  ~ Live(c, i, Open(c)) /\ (c[i] # "&" \/ Open(c)[i] # "none")
  <2>1. CASE i = p \/ i = k
    <3>1. c[i] = quote
      BY <1>2, <2>1
    <3> QED BY <1>4, <3>1 DEF Live
  <2>2. CASE i # p /\ i # k
    <3>1. i \in (p + 1)..(k - 1) /\ i \in (p + 1)..k
      BY <1>1, <2>2
    <3>2. Open(c)[i] = quote /\ Open(c)[i] # "none"
      BY <1>3, <1>4, <3>1
    <3>3. CASE quote = Single
      BY <3>2, <3>3, <1>4 DEF Live
    <3>4. CASE quote = Double
      <4>1. c[i] \notin {Tick, Backslash} /\ ~ (c[i] = "$" /\ i < k - 1 /\ c[i + 1] = "(")
        BY <1>2, <3>1, <3>4
      <4>2. ~ (c[i] = "$" /\ i < Len(c) /\ c[i + 1] = "(")
        <5>1. CASE i < k - 1
          BY <4>1, <5>1
        <5>2. CASE ~ (i < k - 1)
          <6>1. i + 1 = k
            BY <1>1, <3>1, <5>2
          <6> QED BY <1>2, <1>4, <6>1
        <5> QED BY <5>1, <5>2
      <4> QED BY <3>2, <4>1, <4>2 DEF Live
    <3> QED BY <1>4, <3>3, <3>4
  <2> QED BY <2>1, <2>2
<1>6. PICK q \in Nat : q = k
  BY <1>1
<1>7. Passed(c, q + 1)
  <2>1. p <= q /\ q <= Len(c) /\ Open(c)[q + 1] = "none"
    BY <1>1, <1>3, <1>6
  <2>2. \A i \in p..q : ~ Live(c, i, Open(c)) /\ (c[i] # "&" \/ Open(c)[i] # "none")
    BY <1>5, <1>6
  <2> QED BY <2>1, <2>2, PassedSpan
<1> QED BY <1>6, <1>7

\* An ampersand that is no pair.
LEMMA AmpersandUnsupported ==
  ASSUME NEW c \in Texts, NEW p, Passed(c, p), p <= Len(c), c[p] = "&",
         p = Len(c) \/ c[p + 1] # "&"
  PROVE  Unsupported(c, Open(c))
<1>1. Alone(c, p, Open(c))
  BY OddAmpersand DEF Alone
<1>2. p \in 1..Len(c)
  BY CommandFacts DEF Passed
<1> QED BY <1>1, <1>2, UnsupportedBy

\* A quote that is not closed.
LEMMA OpenUnsupported ==
  ASSUME NEW c \in Texts, NEW p, Passed(c, p), p <= Len(c), c[p] \in Quotes,
         \A k \in (p + 1)..Len(c) : c[k] # c[p]
  PROVE  Unsupported(c, Open(c))
<1>1. Len(c) \in Nat /\ p \in 1..Len(c) /\ Open(c)[p] = "none"
  BY CommandFacts DEF Passed
<1>2. PICK k \in Nat : k = Len(c) + 1 /\ k - 1 = Len(c)
  BY <1>1
<1>3. p < k /\ k <= Len(c) + 1 /\ \A i \in (p + 1)..(k - 1) : c[i] # c[p]
  BY <1>1, <1>2
<1>4. \A i \in (p + 1)..k : Open(c)[i] = c[p]
  BY <1>1, <1>3, QuotesStay
<1>5. Open(c)[k] = c[p]
  BY <1>1, <1>2, <1>4
<1>6. c[p] # "none"
  BY DEF Quotes, Single, Double
<1> QED BY <1>2, <1>5, <1>6 DEF Unsupported

\* An expansion in double quotes.
LEMMA ExpansionUnsupported ==
  ASSUME NEW c \in Texts, NEW p, NEW k, Quoted(c, p, k), c[p] = Double,
         NEW i \in (p + 1)..(k - 1),
         c[i] \in {Tick, Backslash} \/ (c[i] = "$" /\ i < k - 1 /\ c[i + 1] = "(")
  PROVE  Unsupported(c, Open(c))
<1>1. p \in 1..Len(c) /\ k \in 1..Len(c) /\ p < k /\ Len(c) \in Nat
  BY CommandFacts DEF Quoted
<1>2. i \in (p + 1)..k /\ i \in 1..Len(c) /\ i < Len(c)
  BY <1>1
<1>3. Open(c)[i] = Double
  BY <1>2, QuotedFacts
<1>4. Live(c, i, Open(c))
  BY <1>2, <1>3 DEF Live, Single, Double
<1> QED BY <1>2, <1>4, UnsupportedBy

\* A separator at the end: it is pending, and no word is under way.
LEMMA TrailingSeparator ==
  ASSUME NEW c \in Texts, NEW s, NEW p, p = Len(c) + 1, Passed(c, p), Reads(c, s, p),
         Unsupported(c, Open(c))
  PROVE  s.pendingSeparator /\ ~ s.hasCurr
<1>1. PICK n, G, B : n = Len(c) /\ G = GapsOf(c) /\ B = BreaksOf(c)
  OBVIOUS
<1>2. Frame(n, G, B) /\ n \in Nat /\ p = n + 1 /\ DOMAIN c = 1..n
  BY <1>1, FrameOf, CommandFacts
<1>3. PICK i \in 1..n : i \in B /\ \A w \in Words(G) : w[2] < i
  <2>1. Open(c)[Len(c) + 1] = "none"
    BY DEF Passed
  <2>2. \A i \in 1..n : ~ Live(c, i, Open(c)) /\ ~ Alone(c, i, Open(c))
    BY <1>2 DEF Passed
  <2> QED BY <1>1, <1>2, <2>1, <2>2 DEF Unsupported, GapsOf, BreaksOf
<1>4. ASSUME NEW j \in i..n PROVE j \in G
  <2> SUFFICES ASSUME j \notin G PROVE FALSE
    OBVIOUS
  <2>1. j \in 1..n
    BY <1>2
  <2>2. PICK w \in Words(G) : w[1] <= j /\ j <= w[2]
    BY <1>2, <2>1, WordAround
  <2>3. w[2] < i /\ w[2] \in Nat
    BY <1>2, <1>3, FrameFacts
  <2> QED BY <2>2, <2>3
<1>5. s.pendingSeparator
  <2>1. i < p /\ \A j \in i .. p - 1 : j \in G
    BY <1>2, <1>4
  <2> QED BY <1>1, <1>3, <2>1 DEF Reads
<1>6. ~ s.hasCurr
  <2>1. PICK a \in 1..p : HoldsWord(c, s, p, a)
    BY DEF Reads
  <2>2. ~ (a < p)
    <3>1. n \in G
      BY <1>2, <1>4
    <3> QED BY <1>1, <1>2, <2>1, <3>1 DEF HoldsWord, Begun
  <2> QED BY <2>1, <2>2 DEF HoldsWord
<1> QED BY <1>5, <1>6

-----------------------------------------------------------------------------
(* The invariant. *)

ReadInv ==
  verdict = "none" /\ cmd /= Malformed => Reads(cmd, scanner, at) /\ Passed(cmd, at)

\* What the verdict says of the command.
VerdictInv ==
  verdict = "allowed" /\ call.tool = "bash" =>
    /\ cmd /= Malformed /\ ~ EmptyCommand /\ at > Len(cmd)
    /\ \A i \in DOMAIN scanner.segments : validateReadOnlySegment(scanner.segments[i])

BashInv ==
  /\ cmd \in Commands \cup {Malformed}
  /\ IsScanner(scanner)
  /\ EmptyCommand => at = 1
  /\ ReadInv
  /\ VerdictInv
  /\ CommandsAreReadRight

\* At first nothing has been read and nothing has been passed.
LEMMA NothingReadYet ==
  ASSUME NEW c \in Texts
  PROVE  Reads(c, NewScanner, 1) /\ Passed(c, 1)
<1>1. PICK n, G, B, D : n = Len(c) /\ G = GapsOf(c) /\ B = BreaksOf(c) /\ D = DelimitersOf(c)
  OBVIOUS
<1>2. Frame(n, G, B) /\ n \in Nat
  BY <1>1, FrameOf
<1>3. Now(1, Words(G), B) = {} /\ Past(1, Words(G), B) = {}
  <2>1. \A w \in Words(G) : w[1] \in 1..n /\ w[2] \in 1..n
    BY <1>2, WordFacts
  <2>2. \A b \in B : b \in 1..n
    BY <1>2, FrameFacts
  <2> QED BY <1>2, <2>1, <2>2 DEF Now, Past
<1>4. Tokens(c, {}, D) = <<>>
  BY InOrderNone, TokensNone
<1>5. Segments(c, {}, Words(G), B, D) = <<>>
  <2>1. Firsts({}, Words(G), B) = {} /\ {} \in SUBSET Words(G)
    BY DEF Firsts
  <2>2. PICK t : t = Segments(c, {}, Words(G), B, D)
    OBVIOUS
  <2>3. Lists(t, c, Firsts({}, Words(G), B), Words(G), B, D)
    BY <1>2, <2>1, <2>2, SegmentsIs
  <2>4. Cardinality({}) = 0
    BY FS_EmptySet
  <2>5. Listing(t, 0)
    BY <2>1, <2>3, <2>4 DEF Lists
  <2>6. t = <<>>
    BY <2>5 DEF Listing
  <2> QED BY <2>2, <2>6
<1>6. \E a \in 1..1 : HoldsWord(c, NewScanner, 1, a)
  <2>1. 1 - 1 \in GapsOf(c)
    BY <1>1, <1>2 DEF Frame
  <2>2. NewScanner.curr = <<>> /\ ~ NewScanner.hasCurr /\ ~ NewScanner.quoted
    BY DEF NewScanner
  <2> QED BY <2>1, <2>2, NoWordBegun
<1>7. ~ \E b \in B : b < 1
  BY <1>2, FrameFacts
<1>8. NewScanner.tokens = <<>> /\ NewScanner.segments = <<>>
  BY DEF NewScanner
<1>9. Reads(c, NewScanner, 1)
  BY <1>1, <1>3, <1>4, <1>5, <1>6, <1>7, <1>8 DEF Reads, WordsOf
<1>10. Passed(c, 1)
  <2>1. Open(c)[1] = "none"
    BY OpenIs
  <2>2. PICK h \in Nat : h = 1 - 1 /\ h = 0
    OBVIOUS
  <2>3. Cardinality(Ampersands(c, h, Open(c))) = 0
    BY <2>2, NoAmpersand
  <2>4. 0 % 2 = 0 /\ 1 \in 1..(Len(c) + 1) /\ ~ \E i \in 1..(1 - 1) : TRUE
    BY <1>1, <1>2
  <2> QED BY <2>1, <2>2, <2>3, <2>4 DEF Passed
<1> QED BY <1>9, <1>10

\* An empty command has no segments.
LEMMA NothingToRead ==
  ASSUME NEW c \in Texts, NEW s, Reads(c, s, 1), Len(c) = 0
  PROVE  s.segments = Reading(c, Open(c))
<1>1. PICK G, B, D : G = GapsOf(c) /\ B = BreaksOf(c) /\ D = DelimitersOf(c)
  OBVIOUS
<1>2. Frame(0, G, B)
  BY <1>1, FrameOf
<1>3. Words(G) = {}
  <2>1. \A w \in Words(G) : w[1] \in 1..0
    BY <1>2, WordFacts
  <2> QED BY <2>1
<1>4. Past(1, Words(G), B) = Words(G)
  BY <1>3 DEF Past
<1>5. s.segments = Segments(c, Words(G), Words(G), B, D)
  BY <1>1, <1>4 DEF Reads, WordsOf
<1> QED BY <1>1, <1>5 DEF Segments, Reading, GapsOf, BreaksOf, DelimitersOf

\* The invariant holds at first.
LEMMA InitInv == Init => BashInv
<1> SUFFICES ASSUME Init PROVE BashInv
  OBVIOUS
<1>1. cmd \in Commands \cup {Malformed} /\ at = 1 /\ scanner = NewScanner /\ verdict = "none"
  BY DEF Init, cmd
<1>2. cmd /= Malformed => cmd \in Texts
  BY <1>1, ReadOnlyBashAssumption DEF Texts
<1>3. IsScanner(scanner)
  BY <1>1, NewScannerIs
<1>4. ReadInv
  BY <1>1, <1>2, NothingReadYet DEF ReadInv
<1>5. VerdictInv /\ CommandsAreReadRight
  BY <1>1 DEF VerdictInv, CommandsAreReadRight, Judged
<1> QED BY <1>1, <1>2, <1>3, <1>4, <1>5 DEF BashInv

\* What holds while the scanner runs.
LEMMA ScanningFacts ==
  ASSUME BashInv, Scanning
  PROVE  /\ cmd \in Texts /\ IsScanner(scanner) /\ at \in 1..Len(cmd) /\ Len(cmd) \in Nat
         /\ Reads(cmd, scanner, at) /\ Passed(cmd, at) /\ Open(cmd)[at] = "none"
<1>1. cmd \in Texts /\ IsScanner(scanner) /\ Reads(cmd, scanner, at) /\ Passed(cmd, at)
  BY ReadOnlyBashAssumption DEF BashInv, ReadInv, Scanning, Texts
<1>2. Len(cmd) \in Nat
  BY <1>1, CommandFacts
<1> QED BY <1>1, <1>2 DEF Passed, Scanning

\* The invariant is kept by a scanner that reads and passes what it steps over.
LEMMA AdvancedInv ==
  ASSUME BashInv, Scanning, NEW s, NEW p, Advance(s, p), IsScanner(s),
         Reads(cmd, s, p), Passed(cmd, p)
  PROVE  BashInv'
<1>1. call' = call /\ cmd' = cmd /\ verdict' = verdict /\ verdict = "none"
      /\ scanner' = s /\ at' = p
  BY DEF Advance, Scanning, cmd
<1>2. ~ EmptyCommand'
  BY <1>1 DEF EmptyCommand, Scanning
<1>3. cmd' \in Commands \cup {Malformed} /\ IsScanner(scanner')
  BY <1>1 DEF BashInv
<1>4. ReadInv'
  BY <1>1 DEF ReadInv
<1>5. VerdictInv' /\ CommandsAreReadRight'
  BY <1>1 DEF VerdictInv, CommandsAreReadRight, Judged
<1> QED BY <1>2, <1>3, <1>4, <1>5 DEF BashInv

\* The invariant is kept by a refusal that has a reason.
LEMMA RefusedInv ==
  ASSUME BashInv, Refuse, at > Len(cmd) => scanner.segments = Reading(cmd, Open(cmd)),
         ~ (at > Len(cmd)) => Unsupported(cmd, Open(cmd)) \/ EmptyCommand
  PROVE  BashInv'
<1>1. call' = call /\ cmd' = cmd /\ verdict' = "refused" /\ scanner' = scanner /\ at' = at
  BY DEF Refuse, cmd
<1>2. EmptyCommand' <=> EmptyCommand
  BY <1>1 DEF EmptyCommand
<1>3. cmd' \in Commands \cup {Malformed} /\ IsScanner(scanner') /\ (EmptyCommand' => at' = 1)
  BY <1>1, <1>2 DEF BashInv
<1>4. ReadInv' /\ VerdictInv'
  BY <1>1 DEF ReadInv, VerdictInv
<1>5. CommandsAreReadRight'
  BY <1>1, <1>2 DEF CommandsAreReadRight, Judged
<1> QED BY <1>3, <1>4, <1>5 DEF BashInv

\* Each action keeps the invariant.  A quoted text:
LEMMA ScanQuotedInv ==
  ASSUME BashInv, ScanQuoted
  PROVE  BashInv'
<1>1. Scanning /\ cmd[at] \in Quotes
  BY DEF ScanQuoted
<1>2. PICK c, s, p : c = cmd /\ s = scanner /\ p = at
  OBVIOUS
<1>3. /\ c \in Texts /\ IsScanner(s) /\ p \in 1..Len(c) /\ Len(c) \in Nat
      /\ Reads(c, s, p) /\ Passed(c, p) /\ Open(c)[p] = "none" /\ c[p] \in Quotes
  BY <1>1, <1>2, ScanningFacts
<1>4. PICK quote : quote = c[p]
  OBVIOUS
<1>5. Behind(quote) = {k \in (p + 1)..Len(c) : c[k] = quote}
  BY <1>2 DEF Behind
<1>6. p <= Len(c) /\ ~ (at > Len(cmd))
  BY <1>2, <1>3
<1>7. CASE Behind(quote) = {}
  <2>1. \A k \in (p + 1)..Len(c) : c[k] # c[p]
    BY <1>4, <1>5, <1>7
  <2>2. Unsupported(c, Open(c))
    BY <1>3, <1>6, <2>1, OpenUnsupported
  <2>3. Refuse
    BY <1>2, <1>4, <1>7 DEF ScanQuoted
  <2> QED BY <1>2, <1>6, <2>2, <2>3, RefusedInv
<1>8. CASE Behind(quote) # {}
  <2>1. Behind(quote) \in SUBSET Nat
    BY <1>3, <1>5
  <2>2. \E k \in Behind(quote) : \A l \in Behind(quote) : k <= l
    <3> HIDE DEF Behind
    <3> QED BY <1>8, <2>1, Least
  <2>3. PICK k \in Behind(quote) : k = Closing(quote) /\ \A l \in Behind(quote) : k <= l
    BY <2>2 DEF Closing
  <2>4. Quoted(c, p, k)
    <3>1. k \in (p + 1)..Len(c) /\ c[k] = quote
      BY <1>5, <2>3
    <3>2. \A i \in (p + 1)..(k - 1) : c[i] # c[p]
      <4> SUFFICES ASSUME NEW i \in (p + 1)..(k - 1), c[i] = quote PROVE FALSE
        BY <1>4
      <4>1. i \in (p + 1)..Len(c) /\ i < k
        BY <1>3, <3>1
      <4>2. i \in Behind(quote)
        BY <1>5, <4>1
      <4>3. k <= i
        BY <2>3, <4>2
      <4> QED BY <3>1, <4>1, <4>3
    <3>3. k \in 1..Len(c) /\ p < k
      BY <1>3, <3>1
    <3> QED BY <1>3, <1>4, <3>1, <3>2, <3>3 DEF Quoted
  <2>5. CASE quote = Double /\ Expanded(at + 1, k - 1)
    <3>1. PICK i \in (p + 1)..(k - 1) :
            c[i] \in {Tick, Backslash} \/ (c[i] = "$" /\ i < k - 1 /\ c[i + 1] = "(")
      BY <1>2, <2>5 DEF Expanded
    <3>2. Unsupported(c, Open(c))
      BY <1>3, <1>4, <2>4, <2>5, <3>1, ExpansionUnsupported
    <3>3. Refuse
      BY <1>2, <1>4, <1>8, <2>3, <2>5 DEF ScanQuoted
    <3> QED BY <1>2, <1>6, <3>2, <3>3, RefusedInv
  <2>6. CASE ~ (quote = Double /\ Expanded(at + 1, k - 1))
    <3>1. c[p] = Double => \A i \in (p + 1)..(k - 1) :
            c[i] \notin {Tick, Backslash} /\ ~ (c[i] = "$" /\ i < k - 1 /\ c[i + 1] = "(")
      BY <1>2, <1>4, <2>6 DEF Expanded
    <3>2. Passed(c, k + 1)
      BY <1>3, <2>4, <3>1, PassedQuoted
    <3>3. PICK t : t = appendLiteral(s, SubSeq(c, p + 1, k - 1), TRUE)
      OBVIOUS
    <3>4. IsScanner(t) /\ Reads(c, t, k + 1)
      BY <1>3, <2>4, <3>3, ReadsQuoted
    <3>5. Advance(t, k + 1)
      BY <1>2, <1>4, <1>8, <2>3, <2>6, <3>3 DEF ScanQuoted
    <3>6. PICK r : r = k + 1
      OBVIOUS
    <3>7. Advance(t, r) /\ Reads(cmd, t, r) /\ Passed(cmd, r)
      BY <1>2, <3>2, <3>4, <3>5, <3>6
    <3> QED BY <1>1, <3>4, <3>7, AdvancedInv
  <2> QED BY <2>5, <2>6
<1> QED BY <1>7, <1>8

\* A blank ends the word under way.
LEMMA ScanBlankInv ==
  ASSUME BashInv, ScanBlank
  PROVE  BashInv'
<1>1. Scanning /\ cmd[at] \in Blank /\ Advance(flushToken(scanner), at + 1)
  BY DEF ScanBlank
<1>2. PICK c, s, p : c = cmd /\ s = scanner /\ p = at
  OBVIOUS
<1>3. /\ c \in Texts /\ IsScanner(s) /\ p \in 1..Len(c) /\ Len(c) \in Nat
      /\ Reads(c, s, p) /\ Passed(c, p) /\ Open(c)[p] = "none" /\ c[p] \in Blank
  BY <1>1, <1>2, ScanningFacts
<1>4. c[p] \notin NewLines \cup {"|", "&"} /\ c[p] \notin Quotes /\ c[p] # "&" /\ c[p] # "$"
      /\ c[p] \notin {Tick, Backslash} /\ c[p] \notin Forbidden
  BY <1>3 DEF Blank, NewLines, Quotes, Single, Double, Tick, Backslash, Forbidden
<1>5. p \in GapsOf(c) /\ p \notin BreaksOf(c) /\ Open(c)[p + 1] = "none"
  BY <1>3, <1>4, Characters
<1>6. Passed(c, p + 1)
  <2>1. ~ Live(c, p, Open(c))
    BY <1>4 DEF Live
  <2>2. p \in Nat /\ p <= Len(c) /\ \A i \in p..p : i = p
    BY <1>3
  <2> QED BY <1>3, <1>4, <1>5, <2>1, <2>2, PassedSpan
<1>7. PICK t, r : t = flushToken(s) /\ r = p + 1
  OBVIOUS
<1>8. IsScanner(t) /\ Reads(c, t, r)
  BY <1>3, <1>5, <1>7, ReadsGap
<1>9. Advance(t, r) /\ Reads(cmd, t, r) /\ Passed(cmd, r)
  BY <1>1, <1>2, <1>6, <1>7, <1>8
<1> QED BY <1>1, <1>8, <1>9, AdvancedInv

\* Any other character belongs to the word under way.
LEMMA ScanLiteralInv ==
  ASSUME BashInv, ScanLiteral
  PROVE  BashInv'
<1>1. /\ Scanning
      /\ cmd[at] \notin Quotes \cup Blank \cup NewLines \cup {"|", "&"} \cup Forbidden
      /\ ~ (cmd[at] = "$" /\ Peek = "(")
      /\ Advance(appendLiteral(scanner, <<cmd[at]>>, FALSE), at + 1)
  BY DEF ScanLiteral
<1>2. PICK c, s, p : c = cmd /\ s = scanner /\ p = at
  OBVIOUS
<1>3. /\ c \in Texts /\ IsScanner(s) /\ p \in 1..Len(c) /\ Len(c) \in Nat
      /\ Reads(c, s, p) /\ Passed(c, p) /\ Open(c)[p] = "none"
  BY <1>1, <1>2, ScanningFacts
<1>4. /\ c[p] \notin Quotes /\ c[p] \notin NewLines \cup {"|", "&"} \cup Blank /\ c[p] # "&"
      /\ c[p] \notin Forbidden /\ c[p] \notin {Tick, Backslash}
  BY <1>1, <1>2 DEF Forbidden
<1>5. p \notin GapsOf(c) /\ p \notin DelimitersOf(c) /\ Open(c)[p + 1] = "none"
  BY <1>3, <1>4, Characters
<1>6. Passed(c, p + 1)
  <2>1. ~ (c[p] = "$" /\ p < Len(c) /\ c[p + 1] = "(")
    BY <1>1, <1>2 DEF Peek
  <2>2. ~ Live(c, p, Open(c))
    BY <1>4, <2>1 DEF Live
  <2>3. p \in Nat /\ p <= Len(c) /\ \A i \in p..p : i = p
    BY <1>3
  <2> QED BY <1>3, <1>4, <1>5, <2>2, <2>3, PassedSpan
<1>7. PICK t, r : t = appendLiteral(s, <<c[p]>>, FALSE) /\ r = p + 1
  OBVIOUS
<1>8. IsScanner(t) /\ Reads(c, t, r)
  BY <1>3, <1>5, <1>7, ReadsLiteral
<1>9. Advance(t, r) /\ Reads(cmd, t, r) /\ Passed(cmd, r)
  BY <1>1, <1>2, <1>6, <1>7, <1>8
<1> QED BY <1>1, <1>8, <1>9, AdvancedInv

\* A character that is not supported is refused.
LEMMA ScanRejectedInv ==
  ASSUME BashInv, ScanRejected
  PROVE  BashInv'
<1>1. Scanning /\ (cmd[at] \in Forbidden \/ (cmd[at] = "$" /\ Peek = "(")) /\ Refuse
  BY DEF ScanRejected
<1>2. PICK c, p : c = cmd /\ p = at
  OBVIOUS
<1>3. c \in Texts /\ p \in 1..Len(c) /\ Open(c)[p] = "none" /\ Len(c) \in Nat
  BY <1>1, <1>2, ScanningFacts
<1>4. Live(c, p, Open(c))
  <2>1. CASE c[p] \in Forbidden
    BY <1>3, <2>1 DEF Live
  <2>2. CASE c[p] = "$" /\ Peek = "("
    <3>1. p < Len(c) /\ c[p + 1] = "("
      BY <1>2, <2>2 DEF Peek
    <3> QED BY <1>3, <2>2, <3>1 DEF Live, Single
  <2> QED BY <1>1, <1>2, <2>1, <2>2
<1>5. Unsupported(cmd, Open(cmd)) /\ ~ (at > Len(cmd))
  BY <1>2, <1>3, <1>4, UnsupportedBy
<1> QED BY <1>1, <1>5, RefusedInv

\* A step over one separator.
LEMMA PassedSeparator ==
  ASSUME NEW c \in Texts, NEW p \in 1..Len(c), Passed(c, p), c[p] \in NewLines \cup {"|"}
  PROVE  p \in BreaksOf(c) /\ Passed(c, p + 1)
<1>1. c[p] \notin Quotes /\ c[p] # "&" /\ c[p] # "$" /\ c[p] \notin {Tick, Backslash}
      /\ c[p] \notin Forbidden
  BY DEF NewLines, Quotes, Single, Double, Tick, Backslash, Forbidden
<1>2. p \in BreaksOf(c) /\ Open(c)[p + 1] = "none"
  BY <1>1, Characters DEF Passed
<1>3. ~ Live(c, p, Open(c))
  BY <1>1 DEF Live
<1>4. p \in Nat /\ p <= p /\ p <= Len(c) /\ \A i \in p..p : i = p
  BY CommandFacts
<1> QED BY <1>1, <1>2, <1>3, <1>4, PassedSpan

\* A line break, a semicolon, a bar or two end the segment.
LEMMA ScanSeparatorInv ==
  ASSUME BashInv, ScanSeparator
  PROVE  BashInv'
<1>1. /\ Scanning /\ cmd[at] \in NewLines \cup {"|"}
      /\ Advance(flushSegment(scanner), at + (IF cmd[at] = "|" THEN separatorLen("|") ELSE 1))
  BY DEF ScanSeparator
<1>2. PICK c, s, p, t : c = cmd /\ s = scanner /\ p = at /\ t = flushSegment(s)
  OBVIOUS
<1>3. /\ c \in Texts /\ IsScanner(s) /\ p \in 1..Len(c) /\ Len(c) \in Nat
      /\ Reads(c, s, p) /\ Passed(c, p) /\ c[p] \in NewLines \cup {"|"}
  BY <1>1, <1>2, ScanningFacts
<1>4. PICK r : r = p + 1
  OBVIOUS
<1>5. p \in BreaksOf(c) /\ Passed(c, r)
  BY <1>3, <1>4, PassedSeparator
<1>6. IsScanner(t) /\ Reads(c, t, r)
  BY <1>2, <1>3, <1>4, <1>5, ReadsBreak
<1>7. CASE c[p] = "|" /\ Peek = "|"
  <2>1. r \in 1..Len(c) /\ c[r] = "|"
    <3>1. p < Len(c) /\ c[p + 1] = "|"
      BY <1>2, <1>7 DEF Peek
    <3> QED BY <1>3, <1>4, <3>1
  <2>2. r \in BreaksOf(c) /\ Passed(c, r + 1)
    <3>1. c[r] \in NewLines \cup {"|"}
      BY <2>1
    <3> QED BY <1>3, <1>5, <2>1, <3>1, PassedSeparator
  <2>3. Reads(c, t, r + 1)
    BY <1>2, <1>3, <1>4, <1>5, <2>1, <2>2, ReadsBreaks
  <2>4. Advance(t, r + 1)
    <3>1. at + (IF cmd[at] = "|" THEN separatorLen("|") ELSE 1) = r + 1
      BY <1>2, <1>3, <1>4, <1>7 DEF separatorLen
    <3> QED BY <1>1, <1>2, <3>1
  <2>5. PICK q : q = r + 1
    OBVIOUS
  <2>6. Advance(t, q) /\ Reads(cmd, t, q) /\ Passed(cmd, q)
    BY <1>2, <2>2, <2>3, <2>4, <2>5
  <2> QED BY <1>1, <1>6, <2>6, AdvancedInv
<1>8. CASE ~ (c[p] = "|" /\ Peek = "|")
  <2>1. at + (IF cmd[at] = "|" THEN separatorLen("|") ELSE 1) = r
    BY <1>2, <1>3, <1>4, <1>8 DEF separatorLen
  <2>2. Advance(t, r) /\ Reads(cmd, t, r) /\ Passed(cmd, r)
    BY <1>1, <1>2, <1>5, <1>6, <2>1
  <2> QED BY <1>1, <1>6, <2>2, AdvancedInv
<1> QED BY <1>7, <1>8

\* Two ampersands end the segment, and one is refused.
LEMMA ScanAmpersandInv ==
  ASSUME BashInv, ScanAmpersand
  PROVE  BashInv'
<1>1. Scanning /\ cmd[at] = "&"
  BY DEF ScanAmpersand
<1>2. PICK c, s, p, t : c = cmd /\ s = scanner /\ p = at /\ t = flushSegment(s)
  OBVIOUS
<1>3. /\ c \in Texts /\ IsScanner(s) /\ p \in 1..Len(c) /\ Len(c) \in Nat
      /\ Reads(c, s, p) /\ Passed(c, p) /\ c[p] = "&" /\ Open(c)[p] = "none"
  BY <1>1, <1>2, ScanningFacts
<1>4. CASE Peek /= "&"
  <2>1. p = Len(c) \/ c[p + 1] # "&"
    BY <1>2, <1>3, <1>4 DEF Peek
  <2>2. Unsupported(c, Open(c)) /\ ~ (at > Len(cmd))
    BY <1>2, <1>3, <2>1, AmpersandUnsupported
  <2>3. Refuse
    BY <1>4 DEF ScanAmpersand
  <2> QED BY <1>2, <2>2, <2>3, RefusedInv
<1>5. CASE Peek = "&"
  <2>1. PICK r : r = p + 1
    OBVIOUS
  <2>2. p < Len(c) /\ c[p + 1] = "&"
    BY <1>2, <1>5 DEF Peek
  <2>3. r \in 1..Len(c) /\ c[r] = "&"
    BY <1>3, <2>1, <2>2
  <2>4. p \in BreaksOf(c) /\ Open(c)[r] = "none"
    <3>1. "&" \notin Quotes
      BY DEF Quotes, Single, Double
    <3> QED BY <1>3, <2>1, <3>1, Characters
  <2>5. r \in BreaksOf(c)
    BY <1>3, <2>3, <2>4, Characters
  <2>6. Reads(c, t, r + 1) /\ IsScanner(t)
    <3>1. IsScanner(t)
      BY <1>2, <1>3, <2>4, ReadsBreak
    <3> QED BY <1>2, <1>3, <2>1, <2>3, <2>4, <2>5, <3>1, ReadsBreaks
  <2>7. PICK q : q = p + 2
    OBVIOUS
  <2>8. Passed(c, q)
    BY <1>3, <2>2, <2>7, PassedPair
  <2>9. Advance(t, q)
    <3>1. Advance(flushSegment(scanner), at + separatorLen("&"))
      BY <1>5 DEF ScanAmpersand
    <3>2. separatorLen("&") = 2
      BY <1>5 DEF separatorLen
    <3> QED BY <1>2, <2>7, <3>1, <3>2
  <2>10. q = r + 1
    BY <1>3, <2>1, <2>7
  <2>11. Reads(cmd, t, q) /\ Passed(cmd, q)
    BY <1>2, <2>6, <2>8, <2>10
  <2> QED BY <1>1, <2>6, <2>9, <2>11, AdvancedInv
<1> QED BY <1>4, <1>5

\* A tool other than bash is let through.
LEMMA NotBashInv ==
  ASSUME BashInv, NotBash
  PROVE  BashInv'
<1>1. /\ call' = call /\ cmd' = cmd /\ verdict' = "allowed" /\ scanner' = scanner /\ at' = at
      /\ call.tool # "bash"
  BY DEF NotBash, cmd
<1>2. EmptyCommand' <=> EmptyCommand
  BY <1>1 DEF EmptyCommand
<1>3. cmd' \in Commands \cup {Malformed} /\ IsScanner(scanner') /\ (EmptyCommand' => at' = 1)
  BY <1>1, <1>2 DEF BashInv
<1>4. ReadInv' /\ VerdictInv' /\ CommandsAreReadRight'
  BY <1>1 DEF ReadInv, VerdictInv, CommandsAreReadRight, Judged
<1> QED BY <1>3, <1>4 DEF BashInv

\* Malformed arguments and an empty command are refused.
LEMMA NotReadableInv ==
  ASSUME BashInv, NotReadable
  PROVE  BashInv'
<1>1. verdict = "none" /\ Refuse
  BY DEF NotReadable
<1>2. CASE cmd = Malformed
  <2>1. call' = call /\ cmd' = cmd /\ verdict' = "refused" /\ scanner' = scanner /\ at' = at
    BY <1>1 DEF Refuse, cmd
  <2>2. EmptyCommand' <=> EmptyCommand
    BY <2>1 DEF EmptyCommand
  <2>3. cmd' \in Commands \cup {Malformed} /\ IsScanner(scanner') /\ (EmptyCommand' => at' = 1)
    BY <2>1, <2>2 DEF BashInv
  <2>4. ReadInv' /\ VerdictInv' /\ CommandsAreReadRight'
    BY <1>2, <2>1 DEF ReadInv, VerdictInv, CommandsAreReadRight, Judged
  <2> QED BY <2>3, <2>4 DEF BashInv
<1>3. CASE cmd # Malformed
  <2>1. cmd \in Texts /\ EmptyCommand /\ at = 1 /\ Reads(cmd, scanner, at)
    BY <1>1, <1>3, ReadOnlyBashAssumption DEF BashInv, ReadInv, NotReadable, Texts
  <2>2. PICK c, s : c = cmd /\ s = scanner
    OBVIOUS
  <2>3. c \in Texts /\ Reads(c, s, 1) /\ Len(c) \in Nat
    BY <2>1, <2>2, CommandFacts
  <2>4. at > Len(cmd) => scanner.segments = Reading(cmd, Open(cmd))
    <3>1. at > Len(cmd) => Len(c) = 0
      BY <2>1, <2>2, <2>3
    <3> QED BY <2>2, <2>3, <3>1, NothingToRead
  <2> QED BY <1>1, <2>1, <2>4, RefusedInv
<1> QED BY <1>2, <1>3

\* The last segment ends, and the policy decides.
LEMMA ValidateInv ==
  ASSUME BashInv, Validate
  PROVE  BashInv'
<1>1. /\ verdict = "none" /\ call.tool = "bash" /\ cmd # Malformed /\ ~ EmptyCommand
      /\ at > Len(cmd) /\ scanner' = flushSegment(scanner) /\ call' = call /\ at' = at
  BY DEF Validate
<1>2. cmd' = cmd
  BY <1>1 DEF cmd
<1>3. PICK c, s, p : c = cmd /\ s = scanner /\ p = at
  OBVIOUS
<1>4. c \in Texts /\ IsScanner(s) /\ Reads(c, s, p) /\ Passed(c, p)
  BY <1>1, <1>3, ReadOnlyBashAssumption DEF BashInv, ReadInv, Texts
<1>5. p = Len(c) + 1
  BY <1>1, <1>3, <1>4, CommandFacts DEF Passed
<1>6. flushSegment(s).segments = Reading(c, Open(c)) /\ IsScanner(flushSegment(s))
  BY <1>4, <1>5, ReadsAll
<1>7. Unsupported(c, Open(c)) => s.pendingSeparator /\ ~ s.hasCurr
  BY <1>4, <1>5, TrailingSeparator
<1>8. /\ verdict' = "allowed" \/ verdict' = "refused"
      /\ Unsupported(c, Open(c)) => verdict' = "refused"
      /\ verdict' = "allowed" => \A i \in DOMAIN scanner'.segments :
                                   validateReadOnlySegment(scanner'.segments[i])
  BY <1>3, <1>7 DEF Validate
<1>9. ~ EmptyCommand'
  BY <1>1, <1>2 DEF EmptyCommand
<1>10. cmd' \in Commands \cup {Malformed} /\ IsScanner(scanner')
  BY <1>1, <1>2, <1>3, <1>6 DEF BashInv
<1>11. ReadInv' /\ VerdictInv'
  BY <1>1, <1>2, <1>8, <1>9 DEF ReadInv, VerdictInv
<1>12. CommandsAreReadRight'
  <2>1. scanner'.segments = Reading(c, Open(c)) /\ c = cmd' /\ at' > Len(cmd')
    BY <1>1, <1>2, <1>3, <1>6
  <2> QED BY <1>8, <2>1 DEF CommandsAreReadRight
<1> QED BY <1>9, <1>10, <1>11, <1>12 DEF BashInv

\* A step that changes nothing keeps the invariant.
LEMMA UnchangedInv ==
  ASSUME BashInv, UNCHANGED vars
  PROVE  BashInv'
<1>1. call' = call /\ cmd' = cmd /\ verdict' = verdict /\ scanner' = scanner /\ at' = at
  BY DEF vars, cmd
<1>2. EmptyCommand' <=> EmptyCommand
  BY <1>1 DEF EmptyCommand
<1>3. ReadInv' /\ VerdictInv'
  BY <1>1, <1>2 DEF BashInv, ReadInv, VerdictInv
<1>4. CommandsAreReadRight'
  BY <1>1, <1>2 DEF BashInv, CommandsAreReadRight, Judged
<1>5. cmd' \in Commands \cup {Malformed} /\ IsScanner(scanner') /\ (EmptyCommand' => at' = 1)
  BY <1>1, <1>2 DEF BashInv
<1> QED BY <1>3, <1>4, <1>5 DEF BashInv

\* Every step keeps the invariant.
LEMMA BashInvStep == BashInv /\ [Next]_vars => BashInv'
<1> SUFFICES ASSUME BashInv, [Next]_vars PROVE BashInv'
  OBVIOUS
<1>1. CASE NotBash
  BY <1>1, NotBashInv
<1>2. CASE NotReadable
  BY <1>2, NotReadableInv
<1>3. CASE ScanQuoted
  BY <1>3, ScanQuotedInv
<1>4. CASE ScanBlank
  BY <1>4, ScanBlankInv
<1>5. CASE ScanSeparator
  BY <1>5, ScanSeparatorInv
<1>6. CASE ScanAmpersand
  BY <1>6, ScanAmpersandInv
<1>7. CASE ScanRejected
  BY <1>7, ScanRejectedInv
<1>8. CASE ScanLiteral
  BY <1>8, ScanLiteralInv
<1>9. CASE Validate
  BY <1>9, ValidateInv
<1>10. CASE Decided
  BY <1>10, UnchangedInv DEF Decided
<1>11. CASE UNCHANGED vars
  BY <1>11, UnchangedInv
<1> QED
  BY <1>1, <1>2, <1>3, <1>4, <1>5, <1>6, <1>7, <1>8, <1>9, <1>10, <1>11 DEF Next

\* The invariant of the middleware.
LEMMA BashInvHolds == Spec => []BashInv
<1>1. Init => BashInv
  BY InitInv
<1>2. BashInv /\ [Next]_vars => BashInv'
  BY BashInvStep
<1> QED BY <1>1, <1>2, PTL DEF Spec

\* Whatever the command, the scanner of the middleware splits it into the
\* segments and tokens of its text, and refuses what is not supported
\* ( commandScanner ).
THEOREM ReadRight == Spec => []CommandsAreReadRight
<1>1. BashInv => CommandsAreReadRight
  BY DEF BashInv
<1> QED BY <1>1, BashInvHolds, PTL

-----------------------------------------------------------------------------
(* What the policy says of the words. *)

\* The token of a word; without quotes its text is that of the word.
LEMMA TokenFacts ==
  ASSUME NEW c \in Texts, NEW w \in WordsOf(c), NEW t, t = Token(c, w, DelimitersOf(c))
  PROVE  /\ t.quoted <=> \E i \in w[1]..w[2] : i \in DelimitersOf(c)
         /\ ~ t.quoted => t.text = Piece(c, w[1], w[2])
<1>1. PICK n, G, B, D : n = Len(c) /\ G = GapsOf(c) /\ B = BreaksOf(c) /\ D = DelimitersOf(c)
  OBVIOUS
<1>2. Frame(n, G, B) /\ w \in Words(G)
  BY <1>1, FrameOf DEF WordsOf
<1>3. PICK a \in 1..n, q \in 1..n : w = <<a, q>> /\ a <= q
  <2>1. w \in (1..n) \X (1..n) /\ w[1] <= w[2]
    BY <1>2, WordFacts
  <2> QED BY <2>1
<1>4. w[1] = a /\ w[2] = q
  BY <1>3
<1>5. t.quoted <=> \E i \in a..q : i \in D
  BY <1>1, <1>4 DEF Token
<1>6. t.text = TextOf(c, a, q, D)
  BY <1>1, <1>3 DEF TextOf
<1>7. ASSUME ~ t.quoted PROVE t.text = Piece(c, a, q)
  <2>1. Plain(a, q, D)
    BY <1>5, <1>7 DEF Plain
  <2>2. n \in Nat
    BY <1>2, FrameFacts
  <2>3. a \in Nat \ {0} /\ q \in Nat /\ a <= q + 1 /\ q <= Len(c)
    BY <1>1, <1>3, <2>2
  <2>4. TextOf(c, a, q, D) = Piece(c, a, q)
    BY <2>1, <2>3, TextIsPiece
  <2> QED BY <1>6, <2>4
<1> QED BY <1>1, <1>4, <1>5, <1>7

\* The tokens of the segment of a word.
LEMMA SegmentOfWord ==
  ASSUME NEW c \in Texts, NEW w \in WordsOf(c),
         NEW S, S = Segment(w, WordsOf(c), BreaksOf(c))
  PROVE  /\ w \in S /\ S \subseteq WordsOf(c) /\ Ordered(S)
         /\ \E i \in DOMAIN Reading(c, Open(c)) :
              ListsTokens(Reading(c, Open(c))[i], c, S, DelimitersOf(c))
<1>1. PICK n, G, B, D : n = Len(c) /\ G = GapsOf(c) /\ B = BreaksOf(c) /\ D = DelimitersOf(c)
  OBVIOUS
<1>2. Frame(n, G, B) /\ w \in Words(G) /\ S = Segment(w, Words(G), B)
  BY <1>1, FrameOf DEF WordsOf
<1>3. w \in S /\ S \subseteq Words(G) /\ Segment(First(S), Words(G), B) = S
  BY <1>2, SegmentHolds
<1>4. Ordered(S)
  BY <1>2, <1>3, WordsOrdered
<1>5. PICK all \in SUBSET Words(G) : all = Words(G)
  OBVIOUS
<1>6. PICK F, s : F = Firsts(all, Words(G), B) /\ s = Segments(c, all, Words(G), B, D)
  OBVIOUS
<1>7. Lists(s, c, F, Words(G), B, D)
  BY <1>2, <1>6, SegmentsIs
<1>8. PICK m, f : m = Cardinality(F) /\ f = InOrder(F)
  OBVIOUS
<1>9. /\ Listing(s, m)
      /\ \A k \in 1..m : s[k] = Tokens(c, Segment(f[k], Words(G), B), D)
  BY <1>7, <1>8 DEF Lists
<1>10. Ordered(F)
  BY <1>2, <1>6, FirstsOrdered
<1>11. First(S) \in F
  BY <1>2, <1>5, <1>6 DEF Firsts
<1>12. PICK k \in 1..m : f[k] = First(S)
  BY <1>8, <1>10, <1>11, InOrderIs
<1>13. s[k] = Tokens(c, S, D)
  BY <1>3, <1>9, <1>12
<1>14. ListsTokens(s[k], c, S, D)
  <2>1. ListsTokens(Tokens(c, S, D), c, S, D)
    BY <1>4, TokensIs
  <2> QED BY <1>13, <2>1
<1>15. k \in DOMAIN s
  BY <1>9 DEF Listing
<1>16. s = Reading(c, Open(c))
  BY <1>1, <1>5, <1>6 DEF Segments, Reading, GapsOf, BreaksOf, DelimitersOf
<1> QED BY <1>1, <1>3, <1>4, <1>14, <1>15, <1>16 DEF WordsOf

\* Of a word w whose segment begins with head and goes on with second: what
\* the policy asks of its token.
Follow(c, w, S) ==
  LET T(v) == Token(c, v, DelimitersOf(c)) IN
  /\ ~ T(First(S)).quoted
  /\ \E name \in readOnlyBinaries \cup {"git"} : T(First(S)).text = <<name>>
  /\ w # First(S) =>
       /\ T(First(S)).text = <<"git">> /\ w = First(S \ {First(S)}) =>
            ~ T(w).quoted /\ \E sub \in readOnlyGitSubcommands : T(w).text = <<sub>>
       /\ T(First(S)).text = <<"find">> =>
            \A flag \in findForbiddenFlags : T(w).text # <<flag>>
       /\ ~ T(w).quoted =>
            /\ T(w).text[1] \notin {"/", "~"}
            /\ \A i \in 1 .. Len(T(w).text) - 1 : SubSeq(T(w).text, i, i + 1) # <<".", ".">>

\* A segment that the policy accepts meets what is asked of each of its words.
LEMMA PolicyFollows ==
  ASSUME NEW c \in Texts, NEW w, NEW S, Ordered(S), w \in S,
         NEW s, ListsTokens(s, c, S, DelimitersOf(c)), validateReadOnlySegment(s)
  PROVE  Follow(c, w, S)
<1>1. PICK n, f : n = Cardinality(S) /\ f = InOrder(S)
  OBVIOUS
<1>2. /\ n \in Nat /\ f \in [1..n -> S] /\ Listing(s, n)
      /\ \A k \in 1..n : s[k] = Token(c, f[k], DelimitersOf(c))
  BY <1>1 DEF ListsTokens
<1>3. PICK head \in S : head = First(S)
  BY FirstIs
<1>4. 1 \in 1..n /\ f[1] = head
  BY <1>1, <1>3, InOrderFirst
<1>5. PICK h : h = Token(c, head, DelimitersOf(c))
  OBVIOUS
<1>6. s[1] = h /\ Len(s) = n
  <2>1. s[1] = h
    BY <1>2, <1>4, <1>5
  <2>2. Len(s) = n
    BY <1>2 DEF Listing
  <2> QED BY <2>1, <2>2
<1>7. ~ h.quoted /\ checkPathHygiene(s) /\ checkBinaryPolicy(s)
  BY <1>6 DEF validateReadOnlySegment
<1>8. <<"find">> # <<"git">>
  OBVIOUS
<1>9. /\ h.text = <<"find">> =>
           \A x \in Arguments(s) : \A flag \in findForbiddenFlags : x.text # <<flag>>
      /\ h.text = <<"git">> => checkGitReadOnly(s)
      /\ h.text # <<"find">> /\ h.text # <<"git">> =>
           \E name \in readOnlyBinaries : h.text = <<name>>
  <2>1. CASE h.text = <<"find">>
    BY <1>6, <1>7, <1>8, <2>1 DEF checkBinaryPolicy
  <2>2. CASE h.text = <<"git">>
    BY <1>6, <1>7, <1>8, <2>2 DEF checkBinaryPolicy
  <2>3. CASE h.text # <<"find">> /\ h.text # <<"git">>
    BY <1>6, <1>7, <2>3 DEF checkBinaryPolicy
  <2> QED BY <1>8, <2>1, <2>2, <2>3
<1>10. \E name \in readOnlyBinaries \cup {"git"} : h.text = <<name>>
  BY <1>9 DEF readOnlyBinaries
<1>11. PICK x : x = Token(c, w, DelimitersOf(c))
  OBVIOUS
<1>12. ASSUME w # head
       PROVE  /\ h.text = <<"git">> /\ w = First(S \ {head}) =>
                   ~ x.quoted /\ \E sub \in readOnlyGitSubcommands : x.text = <<sub>>
              /\ h.text = <<"find">> => \A flag \in findForbiddenFlags : x.text # <<flag>>
              /\ ~ x.quoted =>
                   /\ x.text[1] \notin {"/", "~"}
                   /\ \A i \in 1 .. Len(x.text) - 1 : SubSeq(x.text, i, i + 1) # <<".", ".">>
  <2>1. PICK k \in 1..n : f[k] = w
    BY <1>1, InOrderIs
  <2>2. k \in 2..Len(s) /\ s[k] = x
    BY <1>2, <1>4, <1>6, <1>11, <1>12, <2>1
  <2>3. x \in Arguments(s)
    BY <2>2 DEF Arguments
  <2>4. ASSUME h.text = <<"git">>, w = First(S \ {head})
        PROVE  ~ x.quoted /\ \E sub \in readOnlyGitSubcommands : x.text = <<sub>>
    <3>1. S # {} /\ S \ {head} # {}
      BY <1>12
    <3>2. 2 \in 1..n /\ f[2] = w
      BY <1>1, <1>3, <2>4, <3>1, InOrderSecond
    <3>3. s[2] = x
      BY <1>2, <1>11, <3>2
    <3>4. checkGitReadOnly(s)
      BY <1>9, <2>4
    <3> QED BY <3>3, <3>4 DEF checkGitReadOnly
  <2>5. h.text = <<"find">> => \A flag \in findForbiddenFlags : x.text # <<flag>>
    BY <1>9, <2>3
  <2>6. ~ x.quoted =>
          /\ x.text[1] \notin {"/", "~"}
          /\ \A i \in 1 .. Len(x.text) - 1 : SubSeq(x.text, i, i + 1) # <<".", ".">>
    BY <1>7, <2>3 DEF checkPathHygiene
  <2> QED BY <2>4, <2>5, <2>6
<1> QED BY <1>3, <1>5, <1>7, <1>10, <1>11, <1>12 DEF Follow

\* A piece of a command, by its characters.
LEMMA PieceFacts ==
  ASSUME NEW c \in Texts, NEW a \in Nat \ {0}, NEW q \in Nat, a <= q, q <= Len(c),
         NEW t, t = Piece(c, a, q)
  PROVE  /\ t[1] = c[a]
         /\ \A i \in a .. q - 1 : \E j \in 1 .. Len(t) - 1 :
              SubSeq(t, j, j + 1) = <<c[i], c[i + 1]>>
<1>1. PICK n \in Nat : n = Len(c)
  BY CommandFacts
<1>2. PICK l \in Nat : l = q - a + 1
  OBVIOUS
<1>3. t = [i \in 1..l |-> c[a + i - 1]]
  BY <1>1, <1>2 DEF Piece
<1>4. Len(t) = l
  BY <1>3
<1>5. t[1] = c[a]
  BY <1>2, <1>3
<1>6. ASSUME NEW i \in a .. q - 1
      PROVE  \E j \in 1 .. Len(t) - 1 : SubSeq(t, j, j + 1) = <<c[i], c[i + 1]>>
  <2>1. PICK j \in Nat, k \in Nat : j = i - a + 1 /\ k = j + 1
    BY <1>2
  <2>2. j \in 1..l /\ k \in 1..l /\ j \in 1 .. l - 1 /\ a + j - 1 = i /\ a + k - 1 = i + 1
    BY <1>2, <2>1
  <2>3. t[j] = c[i] /\ t[k] = c[i + 1]
    BY <1>3, <2>2
  <2>4. PICK x, y : x = t[j] /\ y = t[k]
    OBVIOUS
  <2>5. SubSeq(t, j, k) = <<x, y>>
    <3>1. t = [m \in 1..l |-> t[m]]
      BY <1>3
    <3>2. SubSeq(t, j, k) = [m \in 1..2 |-> t[j + m - 1]]
      BY <1>3, <1>4, <2>1, <2>2
    <3>3. \A m \in 1..2 : t[j + m - 1] = IF m = 1 THEN x ELSE y
      BY <2>1, <2>4
    <3>4. <<x, y>> = [m \in 1..2 |-> IF m = 1 THEN x ELSE y]
      OBVIOUS
    <3> QED BY <3>2, <3>3, <3>4
  <2> QED BY <1>4, <2>1, <2>2, <2>3, <2>4, <2>5
<1> QED BY <1>5, <1>6

\* A command with segments that are all read-only has a word, unless it is
\* empty or not supported.
LEMMA SomeWord ==
  ASSUME NEW c \in Texts, ~ Unsupported(c, Open(c)),
         NEW i \in DOMAIN c, c[i] \notin Blank \cup {"\n"}
  PROVE  WordsOf(c) # {}
<1> SUFFICES ASSUME WordsOf(c) = {} PROVE FALSE
  OBVIOUS
<1>1. PICK n, G, B : n = Len(c) /\ G = GapsOf(c) /\ B = BreaksOf(c)
  OBVIOUS
<1>2. Frame(n, G, B) /\ Words(G) = {} /\ n \in Nat
  BY <1>1, FrameOf DEF WordsOf
<1>3. i \in 1..n /\ i # 0 /\ i # n + 1
  BY <1>1, <1>2, CommandFacts
<1>4. i \in G
  BY <1>2, <1>3, WordAround
<1>5. i \in B
  BY <1>1, <1>3, <1>4 DEF GapsOf, BreaksOf, Gaps
<1> QED BY <1>1, <1>3, <1>5, UnsupportedBy

\* What the property says of a word w of segment S.
Text(c, w) == SubSeq(c, w[1], w[2])
Among(c, w, names) == \E n \in names : Text(c, w) = <<n>>

ReadOnlyWord(c, w, S, delimiters) ==
  IF w = First(S) THEN Among(c, w, readOnlyBinaries \cup {"git"})
  ELSE
    /\ Among(c, First(S), {"git"}) /\ w = First(S \ {First(S)}) =>
         Among(c, w, readOnlyGitSubcommands)
    /\ Among(c, First(S), {"find"}) =>
         ~ \E f \in findForbiddenFlags : Token(c, w, delimiters).text = <<f>>
    /\ delimiters \cap (w[1]..w[2]) = {} =>
         /\ c[w[1]] \notin {"/", "~"}
         /\ \A i \in w[1] .. w[2] - 1 : c[i] /= "." \/ c[i + 1] /= "."

\* What the invariant says of a command that passes.
LEMMA AllowedMeetsPolicy == BashInv => AllowedCommandsMeetPolicy
<1> SUFFICES ASSUME BashInv, verdict = "allowed", call.tool = "bash"
             PROVE  AllowedCommandsMeetPolicy
  BY DEF AllowedCommandsMeetPolicy
<1>1. PICK c : c = cmd
  OBVIOUS
<1>2. /\ c \in Texts /\ ~ EmptyCommand /\ at > Len(cmd) /\ cmd # Malformed
      /\ \A i \in DOMAIN scanner.segments : validateReadOnlySegment(scanner.segments[i])
  BY <1>1, ReadOnlyBashAssumption DEF BashInv, VerdictInv, Texts
<1>3. ~ Unsupported(c, Open(c)) /\ scanner.segments = Reading(c, Open(c))
  BY <1>1, <1>2 DEF BashInv, CommandsAreReadRight, Judged
<1>4. PICK W, B, D : W = WordsOf(c) /\ B = BreaksOf(c) /\ D = DelimitersOf(c)
  OBVIOUS
<1>5. W # {}
  <2>1. PICK i \in DOMAIN c : c[i] \notin Blank \cup {"\n"}
    BY <1>1, <1>2 DEF EmptyCommand
  <2> QED BY <1>2, <1>3, <1>4, <2>1, SomeWord
<1>6. ASSUME NEW w \in W PROVE ReadOnlyWord(c, w, Segment(w, W, B), D)
  <2>0. PICK S, head : S = Segment(w, W, B) /\ head = First(S)
    OBVIOUS
  <2>1. w \in S /\ S \subseteq W /\ Ordered(S) /\ Follow(c, w, S)
    <3>1. /\ w \in S /\ S \subseteq WordsOf(c) /\ Ordered(S)
          /\ \E i \in DOMAIN Reading(c, Open(c)) :
               ListsTokens(Reading(c, Open(c))[i], c, S, DelimitersOf(c))
      BY <1>2, <1>4, <1>6, <2>0, SegmentOfWord
    <3>2. PICK i \in DOMAIN scanner.segments :
            ListsTokens(scanner.segments[i], c, S, DelimitersOf(c))
      BY <1>3, <3>1
    <3>3. PICK s : s = scanner.segments[i]
      OBVIOUS
    <3>4. validateReadOnlySegment(s) /\ ListsTokens(s, c, S, DelimitersOf(c))
      BY <1>2, <3>2, <3>3
    <3>5. Follow(c, w, S)
      BY <1>2, <3>1, <3>4, PolicyFollows
    <3> QED BY <1>4, <3>1, <3>5
  <2>2. head \in S
    BY <2>0, <2>1, FirstIs
  <2>3. PICK h, x : h = Token(c, head, DelimitersOf(c)) /\ x = Token(c, w, DelimitersOf(c))
    OBVIOUS
  <2>4. head \in WordsOf(c) /\ w \in WordsOf(c)
    BY <1>4, <2>1, <2>2
  <2>5. ~ h.quoted => h.text = Text(c, head)
    BY <1>2, <2>3, <2>4, TokenFacts DEF Piece, Text
  <2>6. /\ x.quoted <=> \E i \in w[1]..w[2] : i \in DelimitersOf(c)
        /\ ~ x.quoted => x.text = Text(c, w)
    BY <1>2, <2>3, <2>4, TokenFacts DEF Piece, Text
  <2>7. /\ h.text = Text(c, head)
        /\ \E name \in readOnlyBinaries \cup {"git"} : h.text = <<name>>
        /\ w # head =>
             /\ h.text = <<"git">> /\ w = First(S \ {head}) =>
                  ~ x.quoted /\ \E sub \in readOnlyGitSubcommands : x.text = <<sub>>
             /\ h.text = <<"find">> => \A flag \in findForbiddenFlags : x.text # <<flag>>
             /\ ~ x.quoted =>
                  /\ x.text[1] \notin {"/", "~"}
                  /\ \A i \in 1 .. Len(x.text) - 1 : SubSeq(x.text, i, i + 1) # <<".", ".">>
    BY <2>0, <2>1, <2>3, <2>5 DEF Follow
  <2>8. w = head => Among(c, w, readOnlyBinaries \cup {"git"})
    BY <2>7 DEF Among
  <2>9. ASSUME w # head, Among(c, head, {"git"}), w = First(S \ {head})
        PROVE  Among(c, w, readOnlyGitSubcommands)
    <3>1. h.text = <<"git">>
      BY <2>7, <2>9 DEF Among
    <3> QED BY <2>6, <2>7, <2>9, <3>1 DEF Among
  <2>10. ASSUME w # head, Among(c, head, {"find"})
         PROVE  ~ \E f \in findForbiddenFlags : Token(c, w, D).text = <<f>>
    <3>1. h.text = <<"find">>
      BY <2>7, <2>10 DEF Among
    <3> QED BY <1>4, <2>3, <2>7, <2>10, <3>1
  <2>11. ASSUME w # head, D \cap (w[1]..w[2]) = {}
         PROVE  /\ c[w[1]] \notin {"/", "~"}
                /\ \A i \in w[1] .. w[2] - 1 : c[i] # "." \/ c[i + 1] # "."
    <3>1. ~ x.quoted
      BY <1>4, <2>6, <2>11
    <3>2. PICK a \in Nat \ {0}, q \in Nat : a = w[1] /\ q = w[2] /\ a <= q /\ q <= Len(c)
      <4>1. PICK n, G, E : n = Len(c) /\ G = GapsOf(c) /\ E = BreaksOf(c)
        OBVIOUS
      <4>2. Frame(n, G, E) /\ w \in Words(G) /\ n \in Nat
        BY <1>2, <2>4, <4>1, FrameOf DEF WordsOf
      <4>3. w \in (1..n) \X (1..n) /\ w[1] <= w[2]
        BY <4>2, WordFacts
      <4> QED BY <4>1, <4>2, <4>3
    <3>3. PICK t : t = x.text
      OBVIOUS
    <3>4. t = Piece(c, a, q)
      BY <2>6, <3>1, <3>2, <3>3 DEF Text, Piece
    <3>5. /\ t[1] = c[a]
          /\ \A i \in a .. q - 1 : \E j \in 1 .. Len(t) - 1 :
               SubSeq(t, j, j + 1) = <<c[i], c[i + 1]>>
      BY <1>2, <3>2, <3>4, PieceFacts
    <3>6. /\ t[1] \notin {"/", "~"}
          /\ \A j \in 1 .. Len(t) - 1 : SubSeq(t, j, j + 1) # <<".", ".">>
      BY <2>7, <2>11, <3>1, <3>3
    <3>7. \A i \in a .. q - 1 : c[i] # "." \/ c[i + 1] # "."
      BY <3>5, <3>6
    <3> QED BY <3>2, <3>5, <3>6, <3>7
  <2>12. ReadOnlyWord(c, w, S, D)
    BY <2>0, <2>8, <2>9, <2>10, <2>11 DEF ReadOnlyWord
  <2> QED BY <2>0, <2>12
<1>7. \A w \in WordsOf(cmd) :
        ReadOnlyWord(cmd, w, Segment(w, WordsOf(cmd), BreaksOf(cmd)), DelimitersOf(cmd))
  BY <1>1, <1>4, <1>6
<1>8. WordsOf(cmd) # {}
  BY <1>1, <1>4, <1>5
<1> QED
  BY <1>7, <1>8 DEF AllowedCommandsMeetPolicy, ReadOnlyWord, Among, Text,
                    WordsOf, GapsOf, BreaksOf, DelimitersOf

\* Whatever the command, one that passes meets the policy as its text reads: the
\* quotes, blanks and separators the scanner has taken out hide no word from the
\* checks of validateReadOnlySegment.
THEOREM AllowedMeetThePolicy == Spec => []AllowedCommandsMeetPolicy
  BY AllowedMeetsPolicy, BashInvHolds, PTL
=============================================================================
