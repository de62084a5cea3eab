------------------------------- MODULE Service -------------------------------
(***************************************************************************)
(* The running service: the lifespan of the process and the turn that may  *)
(* be under way in it, with its call to the model.                         *)
(*                                                                         *)
(* The two meet at shutdown.  A turn is run by the Telegram application,   *)
(* one at a time, whose stop() waits for the turn under way; the lifespan  *)
(* goes on when a stop raises, and the turn then outlives what it uses.    *)
(***************************************************************************)
EXTENDS Lifespan, ModelCall

VARIABLE turn   \* idle, calling the model, or filing what it said

vars == <<process, callVars, turn>>

Init == ProcessInit /\ CallInit /\ turn = "idle"

-----------------------------------------------------------------------------
Application == <<"telegram_adapter", "application">>
Pool == <<"model_client", "pool">>
Connections == {<<store, "connection">> : store \in ToSet(Stores)}

\* An update is handed to the router: by a running application, whose polling
\* has begun.  What was fetched before polling stopped is still handed over.
Begin == /\ turn = "idle" /\ Application \in held
         /\ "telegram_adapter" \in ToSet(started)
         /\ turn' = "calling"
         /\ UNCHANGED <<process, callVars>>

\* The call proceeds; there is no reply without a pool to bring it.
Consult == /\ turn = "calling" /\ ladder # "done"
           /\ CallNext
           /\ said' = "reply" => Pool \in held
           /\ UNCHANGED <<process, turn>>

\* handle() files the exchange, or has nothing to file.
File == /\ turn = "calling" /\ ladder = "done"
        /\ turn' = IF outcome = "response" THEN "filing" ELSE "idle"
        /\ IF outcome = "response"
           THEN UNCHANGED callVars
           ELSE Afresh
        /\ UNCHANGED process

Filed == /\ turn = "filing"
         /\ turn' = "idle" /\ Afresh
         /\ UNCHANGED process

\* The lifespan proceeds; Application.stop() of the library returns only when
\* the turn is over.
Proceed == /\ ProcessNext
           /\ Application \in held \ held' => turn = "idle"
           /\ UNCHANGED <<callVars, turn>>

Next == Begin \/ Consult \/ File \/ Filed \/ Proceed

Spec == Init /\ [][Next]_vars

-----------------------------------------------------------------------------
\* Every variable stays in its range.
TypeOK == ProcessTypeOK /\ CallTypeOK /\ turn \in {"idle", "calling", "filing"}

\* While a turn is under way the model client and every store are there for it,
\* whatever raised or died on the way down, and whenever the signal came: only an
\* application that would not stop leaves a turn behind.
NoTurnOutlivesWhatItUses ==
    turn # "idle" /\ Application \notin stuck => {Pool} \cup Connections \subseteq held
===============================================================================
