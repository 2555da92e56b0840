--------------------------- MODULE MCReadOnlyBash ---------------------------
(* Small instances of ReadOnlyBash for TLC. *)
EXTENDS ReadOnlyBash

Strings(symbols, n) == UNION {[1..k -> symbols] : k \in 0..n}

\* Every symbol the scanner tells apart, in short commands.
Short == Strings(Blank \cup NewLines \cup Forbidden \cup Quotes \cup {"|", "&", "$", "ls", "x"}, 3)

\* Quotes, blanks and separators in longer ones.
Quoting == {<<"ls">> \o s : s \in Strings({Single, Double, " ", ";", Tick, "x"}, 5)}
Pairs   == {<<"ls">> \o s \o <<"ls">> : s \in Strings({"&", "|", Single, " "}, 6)}

\* Names, flags and paths.
Names ==
  {<<head, " ">> \o s : head \in {"ls", "git", "find", "rm"},
                        s \in Strings({"log", "push", "-exec", "/", "~", ".", " ", Single}, 4)}
  \cup {s \o <<" ", "x">> : s \in Strings({"ls", "=", "x", Single}, 2)}
  \cup {<<"ls", " ", Single, "x", Single, " ">> \o s \o t :
          t \in {<<>>, <<";", "cat", " ", "x">>}, s \in Strings({"/", ".", "x", Single}, 3)}

\* Arguments of the names of the lists that can do more than read.
Writers ==
  {<<"git", " ", sub>> \o s : sub \in {"branch", "tag", "status"}, s \in Strings({" ", "x", "-a"}, 3)}
  \cup {<<"find", " ", flag>> \o s : flag \in findEffects \cup {"-a"}, s \in Strings({" ", "x", Double}, 2)}

MoreFlags == {"-a"} \cup findEffects

AllCommands == Writers \cup Short \cup Quoting \cup Pairs \cup Names
=============================================================================
