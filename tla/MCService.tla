----------------------------- MODULE MCService -----------------------------
(* The stores that main.py opens, in its order.                            *)
EXTENDS Service

StoresOfEmma == <<"conversation memory", "task queue", "fact store", "tool state">>
=============================================================================
