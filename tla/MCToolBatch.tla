---------------------------- MODULE MCToolBatch ----------------------------
(* Small instances of ToolBatch for TLC. *)
EXTENDS ToolBatch, TLC

Texts(chars, n) == UNION {[1..k -> chars] : k \in 0..n}

AnyLineEnds == Texts({"a", " ", LF, CR}, 4)
Patterns    == Texts({"a", " ", LF, CR}, 2)
Indented    == Texts({"a", " ", LF}, 5)

OneBatch(disk0, calls) == [disk |-> disk0, runs |-> << << calls >> >>]

\* One edit, every small text and pattern: overlaps, line ends, indentation.
Edits ==
  {OneBatch("f" :> t, <<EditCall("f", o, <<"n", "n">>)>>) :
     t \in AnyLineEnds, o \in Patterns}
  \cup
  {OneBatch("f" :> t, <<EditCall("f", o, <<"n">>)>>) :
     t \in Indented, o \in {<<"a", LF, "a">>, <<" ", "a", LF, "a">>,
                                           <<"a", LF, " ", "a">>, <<"a", CR, LF>>}}

ab == <<"a", "b", "a">>
Mutators == {EditCall("f", <<"a">>, <<"x">>), EditCall("f", <<"b">>, <<>>),
             EditCall("f", <<"b">>, <<"y", "y">>),
             WriteCall("f", <<"w">>), WriteCall("f", <<"b", "v">>)}

\* Several calls on one file at a time.
Crowds ==
  {OneBatch("f" :> ab, <<c, d>>) : c \in Mutators \cup {ReadCall("f")}, d \in Mutators}
  \cup {OneBatch("f" :> ab, <<c, WriteCall("f", <<"b", "v">>), d>>) :
          c \in Mutators, d \in {ReadCall("f"), EditCall("f", <<"b">>, <<"y", "y">>)}}

\* Every barrier, missing and sealed files, long files.
Refused ==
  {OneBatch("f" :> ab @@ "s" :> ab, <<c, d>>) :
     c \in {ReadCall("g"), EditCall("g", <<"a">>, <<"x">>), EditCall("s", <<"b">>, <<"x">>),
            WriteCall("s", <<"w">>), Broken(BashCall("echo")), Broken(ReadCall("f")),
            EditCall("up", <<"a">>, <<"x">>), AsAnnounced(EditCall("f", <<"b">>, <<"x">>)),
            WriteCall("g", <<"w">>), [tool |-> "grep", keys |-> "read", path |-> "f"]},
     d \in {ReadCall("f"), WriteCall("f", <<"w">>)}}

fail == ReadCall("g")
deny == BashCall("echo")
miss == EditCall("f", <<"z">>, <<>>)

\* Failures that come, pause and come back, over two runs.
Rounds ==
  {[disk |-> "f" :> ab, runs |-> <<r, <<b>>>>] :
     r \in [1..3 -> {<<fail>>, <<fail, fail>>, <<fail, deny>>, <<miss, fail>>, <<WriteCall("g", ab), miss>>}],
     b \in {<<fail>>, <<fail, miss>>}}

Commands == {OneBatch("f" :> ab, <<BashCall(c), d>>) : c \in {"serve", "echo", "nohup"}, d \in {deny, fail}}

AllScripts == Edits \cup Crowds \cup Refused \cup Rounds \cup Commands

\* A server started in the background.
Background == {OneBatch("f" :> ab, <<BashCall("nohup"), ReadCall("f")>>)}

\* Edits written as the schema says.
Announced == {OneBatch("f" :> ab, <<AsAnnounced(c), ReadCall("f")>>) : c \in Mutators}
=============================================================================
