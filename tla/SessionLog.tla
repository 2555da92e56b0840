----------------------------- MODULE SessionLog -----------------------------
(***************************************************************************)
(* What a session promises to the runs that share it, without the engine   *)
(* loop: a log to which anybody may post a prompt, while everything else is *)
(* written by one owner at a time, in whole turns.  A run asks, answers     *)
(* everything it asked at once, or concludes; once it is over it writes     *)
(* nothing more, and it never owns the log twice.                           *)
(***************************************************************************)
EXTENDS Integers, Sequences

CONSTANTS Tasks, Sessions, SessionOf,
          MaxCalls   \* bound: calls one reply asks for

VARIABLES log,    \* the messages of each session
          owner,  \* the run that may write, or Nobody
          stage,  \* what the owner may do next
          round,  \* the owner's turn, 0 without an owner
          asked,  \* how many calls the owner has asked for in this turn
          past    \* the tasks that will write nothing more

logVars == <<log, owner, stage, round, asked, past>>

Nobody == "nobody"

Msg(role, t, k, n, c) ==
  [role |-> role, run |-> t, turn |-> k, calls |-> n, call |-> c]

Init ==
  /\ log = [s \in Sessions |-> <<>>]
  /\ owner = [s \in Sessions |-> Nobody]
  /\ stage = [s \in Sessions |-> "free"]
  /\ round = [s \in Sessions |-> 0]
  /\ asked = [s \in Sessions |-> 0]
  /\ past = {}

Extend(s, block) == log' = [log EXCEPT ![s] = @ \o block]

\* The owner t of session s goes on from one stage to the next.
Move(t, s, from, to) ==
  /\ s = SessionOf[t]
  /\ owner[s] = t
  /\ stage[s] = from
  /\ stage' = [stage EXCEPT ![s] = to]

\* Anybody who is not over may post a prompt, whoever owns the log.
Post(t) ==
  /\ t \notin past
  /\ Extend(SessionOf[t], <<Msg("user", t, 0, 0, 0)>>)
  /\ UNCHANGED <<owner, stage, round, asked, past>>

Take(t, s) ==
  /\ s = SessionOf[t]
  /\ t \notin past
  /\ owner[s] = Nobody
  /\ owner' = [owner EXCEPT ![s] = t]
  /\ stage' = [stage EXCEPT ![s] = "open"]
  /\ round' = [round EXCEPT ![s] = 1]
  /\ UNCHANGED <<log, asked, past>>

Ask(t, s) ==
  /\ Move(t, s, "open", "asked")
  /\ \E n \in 1..MaxCalls :
       /\ Extend(s, <<Msg("assistant", t, round[s], n, 0)>>)
       /\ asked' = [asked EXCEPT ![s] = n]
  /\ UNCHANGED <<owner, round, past>>

\* All calls are answered in their order; a notice may follow.
Answer(t, s) ==
  /\ Move(t, s, "asked", "open")
  /\ asked' = [asked EXCEPT ![s] = 0]
  /\ round' = [round EXCEPT ![s] = @ + 1]
  /\ LET results == [c \in 1..asked[s] |-> Msg("user", t, round[s], 0, c)] IN
       \/ Extend(s, results)
       \/ Extend(s, Append(results, Msg("user", t, round[s], 0, 0)))
  /\ UNCHANGED <<owner, past>>

\* The run is told to conclude.
Instruct(t, s) ==
  /\ Move(t, s, "open", "closing")
  /\ Extend(s, <<Msg("user", t, round[s], 0, 0)>>)
  /\ UNCHANGED <<owner, round, asked, past>>

Conclude(t, s) ==
  /\ Move(t, s, "open", "over") \/ Move(t, s, "closing", "over")
  /\ Extend(s, <<Msg("assistant", t, round[s], 0, 0)>>)
  /\ UNCHANGED <<owner, round, asked, past>>

GiveUp(t, s) ==
  /\ \E from \in {"open", "asked", "closing"} : Move(t, s, from, "over")
  /\ asked' = [asked EXCEPT ![s] = 0]
  /\ UNCHANGED <<log, owner, round, past>>

\* The owner hands the log back, once it is over.
Release(t, s) ==
  /\ Move(t, s, "over", "free")
  /\ owner' = [owner EXCEPT ![s] = Nobody]
  /\ round' = [round EXCEPT ![s] = 0]
  /\ past' = past \cup {t}
  /\ UNCHANGED <<log, asked>>

\* A task that does not own the log leaves.
Leave(t) ==
  /\ owner[SessionOf[t]] # t
  /\ past' = past \cup {t}
  /\ UNCHANGED <<log, owner, stage, round, asked>>

Next ==
  \/ \E t \in Tasks : Post(t) \/ Leave(t)
  \/ \E t \in Tasks, s \in Sessions :
       \/ Take(t, s) \/ Ask(t, s) \/ Answer(t, s) \/ Instruct(t, s)
       \/ Conclude(t, s) \/ GiveUp(t, s) \/ Release(t, s)

Spec == Init /\ [][Next]_logVars
=============================================================================
