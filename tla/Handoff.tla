------------------------------- MODULE Handoff -------------------------------
(***************************************************************************)
(* What the development queue of EMMA promises, whatever its columns are   *)
(* called: a job belongs to exactly one side at a time, and an answer only *)
(* ever settles a question that was put and not yet answered.              *)
(*                                                                         *)
(* The table of core/tasks.py, written by two programs at once, is shown   *)
(* to implement this in TaskQueue.                                         *)
(***************************************************************************)
EXTENDS Naturals

CONSTANT Jobs         \* every number a job may be known by

VARIABLES turn,       \* whose move it is, per job
          asked,      \* how many questions the developer has put
          answered    \* how many answers have been recorded

hvars == <<turn, asked, answered>>

Turns == {"nobody", "developer", "user", "closed"}

Init == /\ turn = [j \in Jobs |-> "nobody"]
        /\ asked = [j \in Jobs |-> 0]
        /\ answered = [j \in Jobs |-> 0]

\* A job is commissioned: the developer moves first.
Open(j) == /\ turn[j] = "nobody"
           /\ turn' = [turn EXCEPT ![j] = "developer"]
           /\ UNCHANGED <<asked, answered>>

\* A checkpoint.  Nothing says the previous question was answered, nor that
\* the job was still open: the queue checks neither.
Ask(j) == /\ turn[j] # "nobody"
          /\ turn' = [turn EXCEPT ![j] = "user"]
          /\ asked' = [asked EXCEPT ![j] = @ + 1]
          /\ UNCHANGED answered

\* An answer hands the job back, and needs a question standing.
Answer(j) == /\ turn[j] = "user"
             /\ turn' = [turn EXCEPT ![j] = "developer"]
             /\ answered' = [answered EXCEPT ![j] = @ + 1]
             /\ UNCHANGED asked

Close(j) == /\ turn[j] # "nobody"
            /\ turn' = [turn EXCEPT ![j] = "closed"]
            /\ UNCHANGED <<asked, answered>>

Next == \E j \in Jobs : Open(j) \/ Ask(j) \/ Answer(j) \/ Close(j)

Spec == Init /\ [][Next]_hvars
=============================================================================
