------------------------------ MODULE ToolSwitch ------------------------------
(***************************************************************************)
(* Removing a tool in two occasions: the switch of tools/toolstate/store.py *)
(* and the remove_tool / enable_tool of tools/toolstate/tools.py, with the *)
(* development queue the second occasion writes into.                      *)
(*                                                                         *)
(* EMMA runs one tool at a time, inside a turn of bounded length; the      *)
(* developer closes and reopens jobs and restarts the service, possibly    *)
(* with a tool taken out of the code or put back, at any moment.  remove_tool is four  *)
(* database calls with an await between them, hence up to four steps.      *)
(***************************************************************************)
EXTENDS Naturals

CONSTANTS Others,        \* the ordinary tools
          MinTimeOff,    \* MIN_TIME_OFF_SECONDS, in ticks
          TurnTime,      \* the longest a turn can last, in ticks
          MaxTime,       \* bound: how far the clock goes
          MaxJobs        \* bound: how many removal jobs a tool is filed

PROTECTED == {"list_tools", "enable_tool"}
Names == {"list_tools", "enable_tool", "remove_tool"} \cup Others

\* "long enough that no single conversation can cross it": a turn makes a
\* bounded number of model calls, each with a timeout.
ASSUME ToolSwitchAssumption ==
    /\ MinTimeOff \in Nat /\ TurnTime \in Nat /\ MaxTime \in Nat /\ MaxJobs \in Nat
    /\ TurnTime < MinTimeOff

VARIABLES
  registered,   \* the tools in the code that is running
  off,          \* tool_state: since when each name is off, or On
  removals,     \* per tool, its removal jobs in the queue, counted by state
  clock,
  turn,         \* ticks the current turn may still last, or NoTurn
  doing,        \* the remove_tool call under way
  lastOn,       \* observation: when each tool was last on
  offThisTurn   \* observation: the tools switched off in the current turn

vars == <<registered, off, removals, clock, turn, doing, lastOn, offThisTurn>>

On == MaxTime + 1
NoTurn == TurnTime + 1
Idle == [at |-> "idle"]
InTurn == turn # NoTurn

\* A tool's removal jobs: those open as they were filed, those open because
\* the developer put a closed one back to work, and those closed.
NoJobs == [open |-> 0, reopened |-> 0, closed |-> 0]
OpenJobs(n) == removals[n].open + removals[n].reopened

Init == /\ registered = Names
        /\ off = [n \in Names |-> On]
        /\ removals = [n \in Names |-> NoJobs]
        /\ clock = 0
        /\ turn = NoTurn
        /\ doing = Idle
        /\ lastOn = [n \in Names |-> 0]
        /\ offThisTurn = {}

-----------------------------------------------------------------------------
(* The rows of tool_state.                                                 *)

\* INSERT OR IGNORE, refused for a protected name here as well: TRUE when
\* this call is the one that turned the tool off.
\*
\* A slip: INSERT OR REPLACE.
DisableReplaces(n) == off' = [off EXCEPT ![n] = IF n \notin PROTECTED THEN clock ELSE @]
Disables(n) == n \notin PROTECTED /\ off[n] = On
Disable(n) == off' = [off EXCEPT ![n] = IF Disables(n) THEN clock ELSE @]

\* DELETE, whatever the name: a row can outlive the tool it names.
Enable(n) == off' = [off EXCEPT ![n] = On]

-----------------------------------------------------------------------------
BeginTurn == /\ ~InTurn
             /\ turn' = TurnTime
             /\ offThisTurn' = {}
             /\ UNCHANGED <<registered, off, removals, clock, doing, lastOn>>

EndTurn == /\ InTurn /\ doing = Idle
           /\ turn' = NoTurn
           /\ offThisTurn' = {}
           /\ UNCHANGED <<registered, off, removals, clock, doing, lastOn>>

\* remove_tool: a name that is missing, unknown or protected is refused
\* before anything is touched; otherwise the first thing is disable().
RemoveBegin(n) ==
    /\ InTurn /\ doing = Idle
    /\ n \in registered \ PROTECTED
    /\ Disable(n)
    /\ IF Disables(n)
       THEN doing' = Idle /\ offThisTurn' = offThisTurn \cup {n}
       ELSE doing' = [at |-> "disabled_since", tool |-> n] /\ UNCHANGED offThisTurn
    /\ UNCHANGED <<registered, removals, clock, turn, lastOn>>

\* Two slips: being off at all is enough, and the wrong unit.
RemoveSinceAny ==
    /\ doing.at = "disabled_since"
    /\ doing' = [doing EXCEPT !.at = "existing_job"]
    /\ UNCHANGED <<registered, off, removals, clock, turn, lastOn, offThisTurn>>
RemoveSinceWrongUnit ==
    /\ doing.at = "disabled_since"
    /\ doing' = IF off[doing.tool] # On /\ clock - off[doing.tool] < 1
                THEN Idle ELSE [doing EXCEPT !.at = "existing_job"]
    /\ UNCHANGED <<registered, off, removals, clock, turn, lastOn, offThisTurn>>

\* Already off: how long for?
RemoveSince ==
    /\ doing.at = "disabled_since"
    /\ LET since == off[doing.tool] IN
       doing' = IF since # On /\ clock - since < MinTimeOff
                THEN Idle
                ELSE [doing EXCEPT !.at = "existing_job"]
    /\ UNCHANGED <<registered, off, removals, clock, turn, lastOn, offThisTurn>>

\* A slip: nobody looks for a job already filed.
RemoveLookSkipped ==
    /\ doing.at = "existing_job"
    /\ doing' = [doing EXCEPT !.at = "create"]
    /\ UNCHANGED <<registered, off, removals, clock, turn, lastOn, offThisTurn>>

\* _existing_job(): an open job with the same opening words.
RemoveLook ==
    /\ doing.at = "existing_job"
    /\ doing' = IF OpenJobs(doing.tool) > 0 THEN Idle ELSE [doing EXCEPT !.at = "create"]
    /\ UNCHANGED <<registered, off, removals, clock, turn, lastOn, offThisTurn>>

RemoveCreate ==
    /\ doing.at = "create"
    /\ OpenJobs(doing.tool) + removals[doing.tool].closed < MaxJobs
    /\ removals' = [removals EXCEPT ![doing.tool].open = @ + 1]
    /\ doing' = Idle
    /\ UNCHANGED <<registered, off, clock, turn, lastOn, offThisTurn>>

EnableTool(n) ==
    /\ InTurn /\ doing = Idle
    /\ Enable(n)
    /\ lastOn' = [lastOn EXCEPT ![n] = clock]
    /\ UNCHANGED <<registered, removals, clock, turn, doing, offThisTurn>>

-----------------------------------------------------------------------------
\* finish or abandon, by the developer or the user, of any open job.
CloseJob(n) ==
    /\ \/ /\ removals[n].open > 0
          /\ removals' = [removals EXCEPT ![n].open = @ - 1, ![n].closed = @ + 1]
       \/ /\ removals[n].reopened > 0
          /\ removals' = [removals EXCEPT ![n].reopened = @ - 1, ![n].closed = @ + 1]
    /\ UNCHANGED <<registered, off, clock, turn, doing, lastOn, offThisTurn>>

\* advance does not ask whether the job is still open: one that was closed
\* waits for the user again.
ReopenJob(n) ==
    /\ removals[n].closed > 0
    /\ removals' = [removals EXCEPT ![n].closed = @ - 1, ![n].reopened = @ + 1]
    /\ UNCHANGED <<registered, off, clock, turn, doing, lastOn, offThisTurn>>

\* The service restarts on some version of the code: the rows stay, the turn
\* and the call under way are lost.
Restart(tools) ==
    /\ registered' = tools
    /\ turn' = NoTurn
    /\ doing' = Idle
    /\ offThisTurn' = {}
    /\ UNCHANGED <<off, removals, clock, lastOn>>

Tick == /\ clock < MaxTime
        /\ InTurn => turn > 0
        /\ turn' = IF InTurn THEN turn - 1 ELSE turn
        /\ clock' = clock + 1
        /\ lastOn' = [n \in Names |-> IF off[n] = On THEN clock + 1 ELSE lastOn[n]]
        /\ UNCHANGED <<registered, off, removals, doing, offThisTurn>>

-----------------------------------------------------------------------------
Next == \/ BeginTurn
        \/ EndTurn
        \/ \E n \in Names : RemoveBegin(n)
        \/ RemoveSince
        \/ RemoveLook
        \/ RemoveCreate
        \/ \E n \in Names : EnableTool(n)
        \/ \E n \in Names : CloseJob(n)
        \/ \E n \in Names : ReopenJob(n)
        \/ \E gone \in SUBSET Others : Restart(Names \ gone)
        \/ Tick

Spec == Init /\ [][Next]_vars

-----------------------------------------------------------------------------
DoingTyped == doing \in [at : {"idle"}]
                        \cup [at : {"disabled_since", "existing_job", "create"}, tool : Names]

\* Every variable stays in its range.
TypeOK == /\ registered \subseteq Names
          /\ off \in [Names -> 0..On]
          /\ removals \in [Names -> [open : Nat, reopened : Nat, closed : Nat]]
          /\ clock \in 0..MaxTime
          /\ turn \in 0..NoTurn
          /\ DoingTyped
          /\ lastOn \in [Names -> 0..MaxTime]
          /\ offThisTurn \subseteq Names

\* "already off is evidence": a removal job is only ever filed for a tool that
\* has been off, without a break, for at least MIN_TIME_OFF_SECONDS.
RemovalRestsOnEvidence ==
    [][\A n \in Names :
          removals'[n].open > removals[n].open =>
              off[n] # On /\ clock - lastOn[n] >= MinTimeOff]_vars

\* "two calls, not two occasions": the turn that switches a tool off never
\* also files its removal.
TwoOccasions ==
    [][\A n \in Names : removals'[n].open > removals[n].open => n \notin offThisTurn]_vars

\* "Without this, every further request opens another identical job": however
\* often the user insists, and whatever the developer closes and reopens in
\* between, remove_tool never files a job while one it filed is still open.  A
\* second open job is always one the developer put back to work after closing it.
OneRemovalJobPerTool == \A n \in Names : removals[n].open <= 1

\* Asking again does not restart the wait: the row keeps the moment the tool
\* really went off, across repeated requests and restarts.
WaitIsNotRestarted == \A n \in Names : off[n] # On => off[n] = lastOn[n]
=============================================================================
