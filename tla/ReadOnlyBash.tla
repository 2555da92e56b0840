---------------------------- MODULE ReadOnlyBash ----------------------------
(***************************************************************************)
(* tools/readonly_bash.go: the middleware that lets a subagent's bash      *)
(* command pass only if it can be read as a list of read-only commands.    *)
(* The command is scanned character by character into segments of tokens,  *)
(* and each segment is held against the policy.                            *)
(*                                                                         *)
(* A command is a sequence of symbols: the characters the scanner tells    *)
(* apart, and names such as "ls" or "-exec" that stand for the characters  *)
(* they are written with.  The reason of a refusal is not modelled.        *)
(***************************************************************************)
EXTENDS Naturals, Sequences, SequencesExt, FiniteSets

CONSTANTS Commands, \* the commands a model may ask for
          Flags     \* names in them that begin with a hyphen

ASSUME ReadOnlyBashAssumption == Commands \subseteq Seq(STRING)

VARIABLES call,     \* the tool call: its tool and its command
          at,       \* the position the scanner has come to
          scanner,  \* commandScanner
          verdict   \* "none", "allowed" or "refused"

vars == <<call, at, scanner, verdict>>

Malformed == <<"malformed">>

\* Characters that are written by name here.
Single == "single quote"
Double == "double quote"
Tick == "backtick"
Backslash == "backslash"

Blank     == {" ", "\t", "\r"}
NewLines  == {"\n", ";"}
Forbidden == {">", "<", "(", ")", Tick, Backslash}
Quotes    == {Single, Double}

readOnlyBinaries == {"ls", "cat", "head", "tail", "grep", "rg", "find", "wc", "file",
                     "stat", "tree", "du", "diff", "which"}
readOnlyGitSubcommands == {"status", "log", "show", "diff", "blame", "branch", "tag",
                           "rev-parse", "ls-files", "shortlog", "describe"}
findForbiddenFlags == {"-exec", "-ok", "-delete", "-fprintf", "-fprint"}

Flag(symbol) == symbol \in {"-"} \cup findForbiddenFlags \cup Flags

-----------------------------------------------------------------------------
(* The tokenizer. *)

NewScanner == [segments |-> <<>>, tokens |-> <<>>, curr |-> <<>>,
               hasCurr |-> FALSE, quoted |-> FALSE, pendingSeparator |-> FALSE]

appendLiteral(s, text, quoted) ==
  [s EXCEPT !.curr = @ \o text, !.hasCurr = TRUE, !.quoted = @ \/ quoted,
            !.pendingSeparator = FALSE]

\* Mutation: the next token inherits the quotes of the last one.
flushTokenQuoted(s) ==
  IF ~ s.hasCurr THEN s
  ELSE [s EXCEPT !.tokens = Append(@, [text |-> s.curr, quoted |-> s.quoted]),
                 !.curr = <<>>, !.hasCurr = FALSE]

flushToken(s) ==
  IF ~ s.hasCurr THEN s
  ELSE [s EXCEPT !.tokens = Append(@, [text |-> s.curr, quoted |-> s.quoted]),
                 !.curr = <<>>, !.hasCurr = FALSE, !.quoted = FALSE]

\* Mutation: a separator right after a word is the end of that word only.
flushSegmentLate(s) ==
  IF s.hasCurr THEN flushToken(s)
  ELSE [s EXCEPT !.segments = IF s.tokens = <<>> THEN @ ELSE Append(@, s.tokens),
                 !.tokens = <<>>, !.pendingSeparator = TRUE]

flushSegment(s) ==
  LET t == flushToken(s)
  IN  [t EXCEPT !.segments = IF t.tokens = <<>> THEN @ ELSE Append(@, t.tokens),
                !.tokens = <<>>, !.pendingSeparator = TRUE]

Init ==
  /\ call \in [tool : {"bash", "read_file"}, command : Commands \cup {Malformed}]
  /\ at = 1 /\ scanner = NewScanner /\ verdict = "none"

cmd == call.command
Peek == IF at < Len(cmd) THEN cmd[at + 1] ELSE "end"

Refuse == verdict' = "refused" /\ UNCHANGED <<call, at, scanner>>
Advance(s, position) ==
  scanner' = s /\ at' = position /\ UNCHANGED <<call, verdict>>

\* The middleware looks at bash only, and an empty command is refused at once.
EmptyCommand == \A i \in DOMAIN cmd : cmd[i] \in Blank \cup {"\n"}

NotBash ==
  /\ verdict = "none" /\ call.tool /= "bash"
  /\ verdict' = "allowed"
  /\ UNCHANGED <<call, at, scanner>>

NotReadable ==
  /\ verdict = "none" /\ call.tool = "bash"
  /\ cmd = Malformed \/ EmptyCommand
  /\ Refuse

Scanning ==
  /\ verdict = "none" /\ call.tool = "bash"
  /\ cmd /= Malformed /\ ~ EmptyCommand
  /\ at <= Len(cmd)

\* Where the quote may be closed; a double-quoted text is refused where
\* something in it would be expanded or escaped.
Behind(quote) == {k \in at + 1 .. Len(cmd) : cmd[k] = quote}
Closing(quote) == CHOOSE k \in Behind(quote) : \A l \in Behind(quote) : k <= l

Expanded(from, to) ==
  \E k \in from..to : \/ cmd[k] \in {Tick, Backslash}
                      \/ cmd[k] = "$" /\ k < to /\ cmd[k + 1] = "("

ScanQuoted ==
  /\ Scanning /\ cmd[at] \in Quotes
  /\ LET quote == cmd[at] IN
     IF Behind(quote) = {} THEN Refuse
     ELSE LET k == Closing(quote) IN
          IF quote = Double /\ Expanded(at + 1, k - 1) THEN Refuse
          ELSE Advance(appendLiteral(scanner, SubSeq(cmd, at + 1, k - 1), TRUE), k + 1)

ScanBlank ==
  /\ Scanning /\ cmd[at] \in Blank
  /\ Advance(flushToken(scanner), at + 1)

separatorLen(ch) == IF Peek = ch THEN 2 ELSE 1

ScanSeparator ==
  /\ Scanning /\ cmd[at] \in NewLines \cup {"|"}
  /\ Advance(flushSegment(scanner), at + (IF cmd[at] = "|" THEN separatorLen("|") ELSE 1))

ScanAmpersand ==
  /\ Scanning /\ cmd[at] = "&"
  /\ IF Peek /= "&" THEN Refuse
     ELSE Advance(flushSegment(scanner), at + separatorLen("&"))

ScanRejected ==
  /\ Scanning
  /\ cmd[at] \in Forbidden \/ (cmd[at] = "$" /\ Peek = "(")
  /\ Refuse

ScanLiteral ==
  /\ Scanning
  /\ cmd[at] \notin Quotes \cup Blank \cup NewLines \cup {"|", "&"} \cup Forbidden
  /\ ~ (cmd[at] = "$" /\ Peek = "(")
  /\ Advance(appendLiteral(scanner, <<cmd[at]>>, FALSE), at + 1)

-----------------------------------------------------------------------------
(* The policy. *)

Arguments(tokens) == {tokens[i] : i \in 2..Len(tokens)}

\* Unquoted arguments are not absolute, do not start at home and have no dots
\* that lead upwards.
checkPathHygiene(tokens) ==
  \A t \in Arguments(tokens) :
    ~ t.quoted => /\ t.text[1] \notin {"/", "~"}
                  /\ \A i \in 1..Len(t.text) - 1 : SubSeq(t.text, i, i + 1) /= <<".", ".">>

checkGitReadOnly(tokens) ==
  /\ Len(tokens) >= 2
  /\ ~ tokens[2].quoted /\ ~ Flag(tokens[2].text[1])
  /\ \E sub \in readOnlyGitSubcommands : tokens[2].text = <<sub>>

checkBinaryPolicy(tokens) ==
  CASE tokens[1].text = <<"find">> ->
         \A t \in Arguments(tokens) : \A flag \in findForbiddenFlags : t.text /= <<flag>>
    [] tokens[1].text = <<"git">> -> checkGitReadOnly(tokens)
    [] OTHER -> \E name \in readOnlyBinaries : tokens[1].text = <<name>>

validateReadOnlySegment(tokens) ==
  /\ ~ tokens[1].quoted
  /\ ~ Contains(tokens[1].text, "=")
  /\ checkPathHygiene(tokens)
  /\ checkBinaryPolicy(tokens)

\* The scan is over: a command must not end with a separator, and every
\* segment has to satisfy the policy.
Validate ==
  /\ verdict = "none" /\ call.tool = "bash"
  /\ cmd /= Malformed /\ ~ EmptyCommand
  /\ at > Len(cmd)
  /\ scanner' = flushSegment(scanner)
  /\ verdict' = IF /\ ~ (scanner.pendingSeparator /\ ~ scanner.hasCurr)
                   /\ \A i \in DOMAIN scanner'.segments :
                        validateReadOnlySegment(scanner'.segments[i])
                THEN "allowed" ELSE "refused"
  /\ UNCHANGED <<call, at>>

Decided == verdict /= "none" /\ UNCHANGED vars

Next == \/ NotBash \/ NotReadable
        \/ ScanQuoted \/ ScanBlank \/ ScanSeparator \/ ScanAmpersand
        \/ ScanRejected \/ ScanLiteral
        \/ Validate \/ Decided

Spec == Init /\ [][Next]_vars

-----------------------------------------------------------------------------
(* How a command c reads, said of its positions and without a scanner. *)

\* The quotes that are open before each position.
Open(c) ==
  LET open[i \in 1 .. Len(c) + 1] ==
        IF i = 1 THEN "none"
        ELSE LET before == open[i - 1] IN
             CASE before = "none" /\ c[i - 1] \in Quotes -> c[i - 1]
               [] before = c[i - 1] -> "none"
               [] OTHER -> before
  IN  open

\* The separators, the quotes that open or close, and all that ends a word.
Breaks(c, open) ==
  {i \in DOMAIN c : open[i] = "none" /\ c[i] \in NewLines \cup {"|", "&"}}
Delimiters(c, open) == {i \in DOMAIN c : c[i] \in Quotes /\ open[i] \in {"none", c[i]}}
Gaps(c, open) ==
  Breaks(c, open) \cup {i \in DOMAIN c : open[i] = "none" /\ c[i] \in Blank}
                  \cup {0, Len(c) + 1}

\* The words lie between neighbouring gaps.
Words(gaps) ==
  {<<p[1] + 1, p[2] - 1>> : p \in {g \in gaps \X gaps :
     g[1] + 1 < g[2] /\ ~ \E h \in gaps : g[1] < h /\ h < g[2]}}

\* Words belong to one segment when no separator is between them.
Together(v, w, breaks) == {b \in breaks : b < v[1]} = {b \in breaks : b < w[1]}
Segment(w, words, breaks) == {v \in words : Together(v, w, breaks)}

First(S) == CHOOSE v \in S : \A w \in S : v[1] <= w[1]

InOrder(S) == [k \in 1 .. Cardinality(S) |->
                 CHOOSE w \in S : Cardinality({v \in S : v[1] < w[1]}) = k - 1]

\* Quotes are not part of a text.
Token(c, w, delimiters) ==
  LET letters == InOrder({<<i, i>> : i \in (w[1]..w[2]) \ delimiters})
  IN  [text   |-> [k \in DOMAIN letters |-> c[letters[k][1]]],
       quoted |-> \E i \in w[1]..w[2] : i \in delimiters]

Tokens(c, words, delimiters) ==
  LET seg == InOrder(words) IN [j \in DOMAIN seg |-> Token(c, seg[j], delimiters)]

Reading(c, open) ==
  LET breaks == Breaks(c, open)
      words  == Words(Gaps(c, open))
      firsts == InOrder({First(Segment(w, words, breaks)) : w \in words})
  IN  [i \in DOMAIN firsts |->
         Tokens(c, Segment(firsts[i], words, breaks), Delimiters(c, open))]

\* What is not supported, wherever it is: an open quote, an expansion or escape
\* outside single quotes, a redirection or subshell outside all quotes, an
\* ampersand that is not one of a pair, and a separator with nothing behind it.
Live(c, i, open) ==
  \/ open[i] /= Single /\ c[i] \in {Tick, Backslash}
  \/ open[i] /= Single /\ c[i] = "$" /\ i < Len(c) /\ c[i + 1] = "("
  \/ open[i] = "none" /\ c[i] \in Forbidden

Ampersands(c, i, open) == {j \in 1..i : \A k \in j..i : open[k] = "none" /\ c[k] = "&"}
Alone(c, i, open) ==
  Cardinality(Ampersands(c, i, open)) % 2 = 1 /\ (i = Len(c) \/ c[i + 1] /= "&")

Unsupported(c, open) ==
  \/ open[Len(c) + 1] /= "none"
  \/ \E i \in DOMAIN c :
       \/ Live(c, i, open)
       \/ Alone(c, i, open)
       \/ i \in Breaks(c, open) /\ \A w \in Words(Gaps(c, open)) : w[2] < i

Judged == verdict /= "none" /\ call.tool = "bash" /\ cmd /= Malformed

-----------------------------------------------------------------------------
(* Properties. *)

\* The scanner reads what is there: a command it reads to the end is split
\* into the segments and tokens that its quotes, blanks and separators make,
\* each token knows whether quotes are part of it, and a command with syntax
\* that is not supported is refused wherever that is ( commandScanner ).
CommandsAreReadRight ==
  Judged =>
    LET open == Open(cmd) IN
    /\ Unsupported(cmd, open) => verdict = "refused"
    /\ IF at > Len(cmd) THEN scanner.segments = Reading(cmd, open)
       ELSE Unsupported(cmd, open) \/ EmptyCommand

\* What passes meets the policy as its text reads, whatever the scanner made of
\* it: every segment starts with a name of the list that is written without
\* quotes, what follows git is on the list of subcommands, find has none of the
\* forbidden flags, quoted or not, and no argument that is free of quotes starts
\* at the root or at home or has two dots ( validateReadOnlySegment ); and there
\* is at least one segment.  That the lists keep out all that writes is another
\* matter: AllowedCommandsWriteNothing.
AllowedCommandsMeetPolicy ==
  verdict = "allowed" /\ call.tool = "bash" =>
    LET open  == Open(cmd)
        words == Words(Gaps(cmd, open))
        Text(w) == SubSeq(cmd, w[1], w[2])
        Among(w, names) == \E n \in names : Text(w) = <<n>>
    IN
    /\ words /= {}
    /\ \A w \in words :
         LET seg  == Segment(w, words, Breaks(cmd, open))
             head == First(seg) IN
         IF w = head THEN Among(w, readOnlyBinaries \cup {"git"})
         ELSE
           /\ Among(head, {"git"}) /\ w = First(seg \ {head}) => Among(w, readOnlyGitSubcommands)
           /\ Among(head, {"find"}) =>
                ~ \E f \in findForbiddenFlags : Token(cmd, w, Delimiters(cmd, open)).text = <<f>>
           /\ Delimiters(cmd, open) \cap (w[1]..w[2]) = {} =>
                /\ cmd[w[1]] \notin {"/", "~"}
                /\ \A i \in w[1] .. w[2] - 1 : cmd[i] /= "." \/ cmd[i + 1] /= "."

-----------------------------------------------------------------------------
(* What the commands of the lists do when they run. *)

\* git branch and git tag make what they are given the name of; find has more
\* flags that write a file or run a command than the code's list, and all but
\* one of them take an argument.
findEffects == findForbiddenFlags \cup {"-execdir", "-okdir", "-fls", "-fprint0"}

Writes(tokens) ==
  \/ /\ tokens[1].text = <<"git">> /\ Len(tokens) > 2
     /\ tokens[2].text \in {<<"branch">>, <<"tag">>}
     /\ tokens[3].text /= <<>> /\ ~ Flag(tokens[3].text[1])
  \/ /\ tokens[1].text = <<"find">>
     /\ \E i \in 2..Len(tokens) : \E flag \in findEffects :
          tokens[i].text = <<flag>> /\ (i < Len(tokens) \/ flag = "-delete")

\* A subagent's command is held to reading by construction ( main.go:184 ),
\* the middleware being the boundary ( readonly_bash.go:63 ): no command that
\* passes makes, changes or removes anything.
AllowedCommandsWriteNothing ==
  verdict = "allowed" /\ call.tool = "bash" =>
    \A i \in DOMAIN scanner.segments : ~ Writes(scanner.segments[i])
=============================================================================
