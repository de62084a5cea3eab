------------------------------- MODULE MCTurn -------------------------------
(* What TLC needs to run turns: three texts of different lengths, of which *)
(* two fit in the prompt together but not every two, and what the model    *)
(* may ask for.                                                            *)
EXTENDS Turn, TLC

CONSTANTS a, t1, t2, t3

OtherTools == {a}
AllTexts == {t1, t2, t3}
Lengths == t1 :> 1 @@ t2 :> 2 @@ t3 :> 3

SomeAsks == {[tool |-> tool, about |-> a] : tool \in Switching}
            \cup {[tool |-> "remember_fact", fact |-> text] : text \in AllTexts}
            \cup {[tool |-> "forget_fact", number |-> 1]}
            \cup {[tool |-> tool] : tool \in {Unknown, a}}
=============================================================================
