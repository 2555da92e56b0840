----------------------------- MODULE MCApproval -----------------------------
(* Small instances of Approval for TLC. *)
EXTENDS Approval, TLC

CONSTANTS c1, c2, c3, bash, reader, x, y

\* Two calls of one tool, in two chats or in one.
SameTool == c1 :> bash @@ c2 :> bash
TwoChats == c1 :> x @@ c2 :> y
OneChat  == [c \in Calls |-> x]

\* A call of a read-only tool beside them.
WithReader == c1 :> bash @@ c2 :> bash @@ c3 :> reader
=============================================================================
