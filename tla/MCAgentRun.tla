----------------------------- MODULE MCAgentRun -----------------------------
(* Small instances of AgentRun for TLC. *)
EXTENDS AgentRun, TLC

CONSTANTS t1, t2, t3, s1, s2

\* Two messages of one chat.
SameSession == t1 :> s1 @@ t2 :> s1
\* One message in each of two chats.
EachAlone == t1 :> s1 @@ t3 :> s2
=====
