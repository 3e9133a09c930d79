-------------------------- MODULE MCRolloutRouting --------------------------
(* RolloutRouting for TLC: a conversation of a tool agent with two turns and *)
(* one with a single turn; both prompts have the greatest length.            *)
EXTENDS RolloutRouting, TLC

CONSTANTS c1, c2

BothLongest == [c \in {c1, c2} |-> PromptLength]
TwoAndOne == c1 :> 2 @@ c2 :> 1
=============================================================================
