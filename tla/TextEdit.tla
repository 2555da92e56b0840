------------------------------ MODULE TextEdit ------------------------------
(***************************************************************************)
(* The replacement of the file editor ( tools/file_editor.go, fuzzyReplace *)
(* and lineByLineReplace ): four levels, from the exact match to a match   *)
(* line by line that ignores indentation.  A text is a sequence of         *)
(* characters, of which only the white space is told apart by name.        *)
(***************************************************************************)
EXTENDS Integers, SequencesExt

Text == Seq(STRING)

LF == "\n"
CR == "\r"
White == {" ", "\t", LF, CR}

\* The text without what it has at some places.
Drop(t, places) ==
  LET upTo[n \in 0..Len(t)] ==
        IF n = 0 THEN <<>>
        ELSE IF n \in places THEN upTo[n - 1] ELSE Append(upTo[n - 1], t[n])
  IN  upTo[Len(t)]

\* strings.ReplaceAll(t, "\r\n", "\n").
Normalize[t \in Text] ==
  Drop(t, {i \in 1..(Len(t) - 1) : t[i] = CR /\ t[i+1] = LF})

TrimSpace[t \in Text] ==
  LET ink == {i \in 1..Len(t) : t[i] \notin White}
  IN  IF ink = {} THEN <<>> ELSE SubSeq(t, Min(ink), Max(ink))

Occurrences(t, pat) ==
  {i \in 1..(Len(t) - Len(pat) + 1) : SubSeq(t, i, i + Len(pat) - 1) = pat}

\* strings.Count, as far as the editor asks: not at all, once, more often.  The
\* search goes on behind a match; an empty pattern is found before every
\* character and at the end.
Count(t, pat) ==
  LET found  == Occurrences(t, pat)
      behind == Min(found) + Max({Len(pat), 1})
  IN  IF found = {} THEN 0
      ELSE IF \A j \in found : j < behind THEN 1 ELSE 2

ReplaceFirst(t, pat, new) ==
  ReplaceSubSeqAt(Min(Occurrences(t, pat)), new, pat, t)

\* White space at an end of its line.
Outer(t, i) ==
  /\ t[i] \in White \ {LF}
  /\ \/ \A j \in 1..i : t[j] \notin White => LF \in {t[k] : k \in j..i}
     \/ \A j \in i..Len(t) : t[j] \notin White => LF \in {t[k] : k \in i..j}

\* The lines of a text, each trimmed.
Skeleton[t \in Text] == Drop(t, {i \in 1..Len(t) : Outer(t, i)})

Replaced(t)  == [code |-> "", text |-> t]
Failed(code) == [code |-> code, text |-> <<>>]

\* lineByLineReplace: whole lines of t that equal those of old but for the
\* white space at their ends; a block of lines is what lies between two breaks.
LineByLine(t, old, new) ==
  LET breaks == {0, Len(t) + 1} \cup {i \in 1..Len(t) : t[i] = LF}
      blocks == {b \in breaks \X breaks :
                   b[1] < b[2] /\ Skeleton[SubSeq(t, b[1] + 1, b[2] - 1)]
                                  = Skeleton[TrimSpace[old]]}
  IN  IF blocks = {} THEN Failed("ERR_EDIT_NO_MATCH")
      ELSE IF \E b, c \in blocks : b # c THEN Failed("ERR_EDIT_AMBIGUOUS")
      ELSE LET b == CHOOSE b \in blocks : TRUE
           IN  Replaced(SubSeq(t, 1, b[1]) \o new \o SubSeq(t, b[2], Len(t)))

\* Mutation: the first of several exact matches is taken.
FuzzyReplaceFirst(t, old, new) ==
  IF Count(t, old) >= 1 THEN Replaced(ReplaceFirst(t, old, new))
  ELSE LineByLine(Normalize[t], Normalize[old], new)

FuzzyReplace(t, old, new) ==
  LET text    == Normalize[t]
      pattern == Normalize[old]
      trimmed == TrimSpace[pattern]
  IN  IF Count(t, old) = 1 THEN Replaced(ReplaceFirst(t, old, new))
      ELSE IF Count(t, old) > 1 THEN Failed("ERR_EDIT_AMBIGUOUS")
      ELSE IF Count(text, pattern) = 1 THEN Replaced(ReplaceFirst(text, pattern, new))
      ELSE IF trimmed # <<>> /\ Count(text, trimmed) = 1
      THEN Replaced(ReplaceFirst(text, trimmed, new))
      ELSE LineByLine(text, pattern, new)

-----------------------------------------------------------------------------
(* What an edit promises, without the levels. *)

Disjoint(i, j, n) == i + n <= j \/ j + n <= i

\* r is t, or t with its line ends normalised, with one region replaced that
\* reads like old but for the white space around its lines.
OneRegionReplaced(t, old, new, r) ==
  \E s \in {t, Normalize[t]} : \E i \in 1..(Len(s) + 1) : \E j \in i..(Len(s) + 1) :
    /\ r = SubSeq(s, 1, i - 1) \o new \o SubSeq(s, j, Len(s))
    /\ Skeleton[TrimSpace[Normalize[SubSeq(s, i, j - 1)]]]
         = Skeleton[TrimSpace[Normalize[old]]]

\* An edit that is accepted changes one such region; it is refused when old is
\* found at two places that do not overlap, and it is accepted, with old itself
\* replaced, when old is found at one place only.
EditPromise(t, old, new, e) ==
  LET found == Occurrences(t, old) IN
    /\ e.code = "" => OneRegionReplaced(t, old, new, e.text)
    /\ (\E i, j \in found : i # j /\ Disjoint(i, j, Len(old)))
         => e.code = "ERR_EDIT_AMBIGUOUS"
    /\ \A i \in found : found = {i} =>
         e = Replaced(SubSeq(t, 1, i - 1) \o new \o SubSeq(t, i + Len(old), Len(t)))
=============================================================================
