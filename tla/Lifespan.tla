------------------------------- MODULE Lifespan -------------------------------
(***************************************************************************)
(* The life of the process: the lifespan of main.py, which opens five      *)
(* components in order and stops what it opened, newest first; the open()  *)
(* and close() of the stores; start() and stop() of the Telegram adapter.  *)
(*                                                                         *)
(* What a component really holds is kept apart from what the lifespan has  *)
(* on its list: an open() is several calls, and each of them may raise.    *)
(***************************************************************************)
EXTENDS Naturals, Sequences, SequencesExt

CONSTANT Stores   \* the stores, in the order they are opened

ASSUME LifespanAssumption ==
    /\ Stores \in Seq(ToSet(Stores)) /\ IsInjective(Stores)
    /\ {"model_client", "telegram_adapter"} \cap ToSet(Stores) = {}

\* In the order of the lifespan's list, whose names for these two, "model client"
\* and "telegram adapter", have a space.
Components == <<"model_client">> \o Stores \o <<"telegram_adapter">>

\* What opening a component takes hold of, call by call; a store then has a
\* schema to create, which holds nothing.
Parts(c) == CASE c = "model_client" -> <<"pool">>
              [] c = "telegram_adapter" -> <<"resources", "application", "polling">>
              [] OTHER -> <<"connection", "schema">>
Holds(c) == IF c \in ToSet(Stores) THEN {"connection"} ELSE ToSet(Parts(c))
Held == UNION {{<<c, part>> : part \in Holds(c)} : c \in ToSet(Components)}

VARIABLES
  at,         \* starting, serving, stopping or gone
  opening,    \* which component is being opened, by its place
  call,       \* how many of its calls have been made
  held,       \* the parts really in hand
  started,    \* the lifespan's list
  toStop,     \* what of the list has not been stopped yet
  releasing,  \* the parts telegram.stop() has still to release
  stuck,      \* observation: the parts whose release raised
  stopped     \* observation: the components whose stop was called, in order

process == <<at, opening, call, held, started, toStop, releasing, stuck, stopped>>

\* The model client exists from construction.
ProcessInit == /\ at = "starting" /\ opening = 2 /\ call = 0
               /\ held = {<<"model_client", "pool">>}
               /\ started = <<"model_client">>
               /\ toStop = <<>> /\ releasing = <<>>
               /\ stuck = {} /\ stopped = <<>>

-----------------------------------------------------------------------------
Opening == Components[opening]

\* One call of an open() returns.  The last one puts the component on the list.
CallReturns ==
    /\ at = "starting"
    /\ LET part == Parts(Opening)[call + 1]
           over == call + 1 = Len(Parts(Opening))
       IN /\ held' = IF part \in Holds(Opening) THEN held \cup {<<Opening, part>>} ELSE held
          /\ started' = IF over THEN Append(started, Opening) ELSE started
          /\ call' = IF over THEN 0 ELSE call + 1
          /\ opening' = IF over THEN opening + 1 ELSE opening
          /\ at' = IF over /\ opening = Len(Components) THEN "serving" ELSE at
    /\ UNCHANGED <<toStop, releasing, stuck, stopped>>

\* Or it raises: start-up is over, and shut_down() goes through the list.
CallRaises ==
    /\ at = "starting"
    /\ at' = "stopping" /\ toStop' = started
    /\ UNCHANGED <<opening, call, held, started, releasing, stuck, stopped>>

\* SIGTERM, while serving.
Terminate ==
    /\ at = "serving"
    /\ at' = "stopping" /\ toStop' = started
    /\ UNCHANGED <<opening, call, held, started, releasing, stuck, stopped>>

\* Long polling stops by itself: the updater no longer runs.
GoesDeaf ==
    /\ at = "serving"
    /\ held' = held \ {<<"telegram_adapter", "polling">>}
    /\ UNCHANGED <<at, opening, call, started, toStop, releasing, stuck, stopped>>

\* What stop() of a component has to release, newest first: telegram.stop()
\* leaves out what is not running, its resources excepted.
IfHeld(c, part) == IF <<c, part>> \in held THEN <<part>> ELSE <<>>

\* A slip: an adapter that no longer polls is taken for one that has stopped.
StopCallsUnlessDeaf(c) ==
    CASE c = "model_client" -> IfHeld(c, "pool")
      [] c = "telegram_adapter" -> IF <<c, "polling">> \notin held THEN <<"resources">>
                                   ELSE <<"polling">> \o IfHeld(c, "application") \o <<"resources">>
      [] OTHER -> IfHeld(c, "connection")

StopCalls(c) ==
    CASE c = "model_client" -> IfHeld(c, "pool")
      [] c = "telegram_adapter" ->
            IfHeld(c, "polling") \o IfHeld(c, "application") \o <<"resources">>
      [] OTHER -> IfHeld(c, "connection")

\* A slip: oldest first.
StopOldest ==
    /\ at = "stopping" /\ releasing = <<>> /\ toStop # <<>>
    /\ LET c == Head(toStop) IN
       /\ releasing' = [i \in DOMAIN StopCalls(c) |-> <<c, StopCalls(c)[i]>>]
       /\ stopped' = Append(stopped, c)
    /\ toStop' = Tail(toStop)
    /\ UNCHANGED <<at, opening, call, held, started, stuck>>

\* The newest component on the list that is left.
Stop ==
    /\ at = "stopping" /\ releasing = <<>> /\ toStop # <<>>
    /\ LET c == Last(toStop) IN
       /\ releasing' = [i \in DOMAIN StopCalls(c) |-> <<c, StopCalls(c)[i]>>]
       /\ stopped' = Append(stopped, c)
    /\ toStop' = Front(toStop)
    /\ UNCHANGED <<at, opening, call, held, started, stuck>>

\* A slip: the steps chained, so that one raise skips the rest.
ReleaseChained ==
    /\ releasing # <<>>
    /\ \/ /\ held' = held \ {Head(releasing)} /\ UNCHANGED stuck
          /\ releasing' = Tail(releasing) /\ UNCHANGED toStop
       \/ /\ stuck' = stuck \cup {Head(releasing)} /\ UNCHANGED held
          /\ releasing' = <<>> /\ toStop' = <<>>
    /\ UNCHANGED <<at, opening, call, started, stopped>>

\* One of its steps returns or raises, which is logged; the rest follows.
Release ==
    /\ releasing # <<>>
    /\ releasing' = Tail(releasing)
    /\ \/ held' = held \ {Head(releasing)} /\ UNCHANGED stuck
       \/ stuck' = stuck \cup {Head(releasing)} /\ UNCHANGED held
    /\ UNCHANGED <<at, opening, call, started, toStop, stopped>>

Gone ==
    /\ at = "stopping" /\ releasing = <<>> /\ toStop = <<>>
    /\ at' = "gone"
    /\ UNCHANGED <<opening, call, held, started, toStop, releasing, stuck, stopped>>

ProcessNext == CallReturns \/ CallRaises \/ Terminate \/ GoesDeaf \/ Stop \/ Release \/ Gone

-----------------------------------------------------------------------------
\* Every variable stays in its range.
ProcessTypeOK == /\ at \in {"starting", "serving", "stopping", "gone"}
                 /\ opening \in 2..(Len(Components) + 1) /\ call \in 0..2
                 /\ held \subseteq Held
                 /\ IsPrefix(started, Components)
                 /\ ToSet(toStop) \subseteq ToSet(started)
                 /\ ToSet(releasing) \subseteq Held
                 /\ stuck \subseteq Held
                 /\ stopped \in Seq(ToSet(Components))

\* "a shutdown step that raises does not take the steps after it with it": once
\* the process is gone, everything it had started was asked to stop, and the
\* only parts of it left in hand are those whose own release raised, whether or
\* not long polling had died meanwhile.
NobodyIsStranded ==
    at = "gone" => /\ ToSet(stopped) = ToSet(started)
                   /\ \A h \in held \ stuck : h[1] \notin ToSet(started)

\* Whoever uses a component is asked to stop before it is: no store is closed,
\* nor the model client released, while the adapter has not been asked, nor
\* anything opened later.
UsersStopFirst ==
    \A i, j \in DOMAIN started :
        i < j /\ started[i] \in ToSet(stopped) => started[j] \in ToSet(stopped)
===============================================================================
