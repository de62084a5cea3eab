-------------------------------- MODULE Window --------------------------------
(***************************************************************************)
(* The rolling conversation window, as InMemoryConversationMemory of       *)
(* core/memory.py keeps it in a list: what any store of the history is     *)
(* expected to amount to.                                                  *)
(***************************************************************************)
EXTENDS Naturals, Sequences

CONSTANTS Messages,      \* what can be said: records with a role
          MaxMessages    \* retained per conversation

VARIABLE window

\* The suffix of s of length at most MaxMessages that is as long as it can be
\* without an answer at its front: the API wants the user to speak first.
Suffix(s, i) == SubSeq(s, i, Len(s))
Kept(s, i) == /\ Len(s) - i + 1 <= MaxMessages
              /\ i <= Len(s) => s[i].role = "user"
Pruned(s) == Suffix(s, CHOOSE i \in 1..(Len(s) + 1) :
                          Kept(s, i) /\ \A j \in 1..(i - 1) : ~Kept(s, j))

Init == window = <<>>

Remember(m) == window' = Pruned(Append(window, m))

Next == \E m \in Messages : Remember(m)

Spec == Init /\ [][Next]_window
===============================================================================
