---------------------------- MODULE MCDelegation ----------------------------
(* Small instances of Delegation for TLC. *)
EXTENDS Delegation, TLC

\* Two roles share a registry; one has no budget of its own.
OneRegistry == "explorer" :> "reads" @@ "reviewer" :> "reads"
NoBudget == "explorer" :> 1 @@ "reviewer" :> 0

\* No token budget, or some tokens left.
LedgersLeft == {Unlimited, 2}
=============================================================================
