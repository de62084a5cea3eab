--------------------------- MODULE ToolSwitchProofs ---------------------------
(***************************************************************************)
(* What ToolSwitch claims of removing a tool in two occasions, proved for   *)
(* any tools, any wait longer than a turn, any length of time and any       *)
(* number of jobs.                                                         *)
(***************************************************************************)
EXTENDS ToolSwitch, TLAPS

-----------------------------------------------------------------------------
(* The inductive invariant.                                                *)

\* While a tool is on, the moment it was last on is now.
LastOnIsKept == \A n \in Names : /\ lastOn[n] <= clock
                                 /\ off[n] = On => lastOn[n] = clock

\* remove_tool has found the tool off; after it has looked since when, off for
\* the whole wait; and before it files a job, none it filed is still open.
Evidence ==
    /\ doing # Idle => off[doing.tool] # On
    /\ doing.at \in {"existing_job", "create"} => clock - lastOn[doing.tool] >= MinTimeOff
    /\ doing.at = "create" => removals[doing.tool].open = 0

\* What was switched off in this turn was on no longer ago than the turn is old.
TurnIsShort ==
    \A n \in offThisTurn : InTurn /\ clock + turn <= lastOn[n] + TurnTime

SwitchInv == /\ TypeOK /\ LastOnIsKept /\ WaitIsNotRestarted
             /\ Evidence /\ OneRemovalJobPerTool /\ TurnIsShort

USE ToolSwitchAssumption

\* Before the first turn everything is on, nothing is filed.
LEMMA InitInv == Init => SwitchInv
  BY DEF Init, SwitchInv, TypeOK, DoingTyped, LastOnIsKept, WaitIsNotRestarted, Evidence,
         OneRemovalJobPerTool, TurnIsShort, Idle, On, NoTurn, Names,
         NoJobs

\* Every step keeps every variable in its range.
LEMMA StepTyped == TypeOK /\ [Next]_vars => TypeOK'
<1> SUFFICES ASSUME TypeOK, [Next]_vars PROVE TypeOK'
  OBVIOUS
<1> USE DEF TypeOK, DoingTyped, Idle, On, NoTurn, InTurn
<1>1. CASE BeginTurn BY <1>1 DEF BeginTurn
<1>2. CASE EndTurn BY <1>2 DEF EndTurn
<1>3. ASSUME NEW n \in Names, RemoveBegin(n) PROVE TypeOK'
  BY <1>3 DEF RemoveBegin, Disable, Disables
<1>4. CASE RemoveSince BY <1>4 DEF RemoveSince
<1>5. CASE RemoveLook BY <1>5 DEF RemoveLook
<1>6. CASE RemoveCreate BY <1>6 DEF RemoveCreate
<1>7. ASSUME NEW n \in Names, EnableTool(n) PROVE TypeOK'
  BY <1>7 DEF EnableTool, Enable
<1>8. ASSUME NEW n \in Names, CloseJob(n) PROVE TypeOK'
  <2>1. CASE /\ removals[n].open > 0
             /\ removals' = [removals EXCEPT ![n].open = @ - 1, ![n].closed = @ + 1]
    <3> DEFINE jobs == [removals[n] EXCEPT !.open = @ - 1, !.closed = @ + 1]
    <3>1. jobs \in [open : Nat, reopened : Nat, closed : Nat] BY <2>1
    <3>2. removals' = [removals EXCEPT ![n] = jobs] BY <2>1
    <3> QED BY <1>8, <3>1, <3>2 DEF CloseJob
  <2>2. CASE /\ removals[n].reopened > 0
             /\ removals' = [removals EXCEPT ![n].reopened = @ - 1, ![n].closed = @ + 1]
    <3> DEFINE jobs == [removals[n] EXCEPT !.reopened = @ - 1, !.closed = @ + 1]
    <3>1. jobs \in [open : Nat, reopened : Nat, closed : Nat] BY <2>2
    <3>2. removals' = [removals EXCEPT ![n] = jobs] BY <2>2
    <3> QED BY <1>8, <3>1, <3>2 DEF CloseJob
  <2> QED BY <1>8, <2>1, <2>2 DEF CloseJob
<1>9. ASSUME NEW n \in Names, ReopenJob(n) PROVE TypeOK'
  <2> DEFINE jobs == [removals[n] EXCEPT !.closed = @ - 1, !.reopened = @ + 1]
  <2>1. jobs \in [open : Nat, reopened : Nat, closed : Nat]
    BY <1>9 DEF ReopenJob
  <2>2. removals' = [removals EXCEPT ![n] = jobs]
    BY <1>9 DEF ReopenJob
  <2> QED BY <1>9, <2>1, <2>2 DEF ReopenJob
<1>10. ASSUME NEW gone \in SUBSET Others, Restart(Names \ gone) PROVE TypeOK'
  BY <1>10 DEF Restart
<1>11. CASE Tick BY <1>11 DEF Tick
<1>12. CASE UNCHANGED vars BY <1>12 DEF vars
<1> QED
  BY <1>1, <1>2, <1>3, <1>4, <1>5, <1>6, <1>7, <1>8, <1>9, <1>10, <1>11, <1>12 DEF Next

-----------------------------------------------------------------------------
(* The clock, and the rows of the switch.                                  *)

\* disable() leaves the moment a tool was last on behind, enable() renews it, and
\* while the tool is on it moves with the clock.
LEMMA StepKeepsLastOn == TypeOK /\ LastOnIsKept /\ [Next]_vars => LastOnIsKept'
<1> SUFFICES ASSUME TypeOK, LastOnIsKept, [Next]_vars PROVE LastOnIsKept'
  OBVIOUS
<1> USE DEF TypeOK, LastOnIsKept, On
<1>1. ASSUME NEW n \in Names, RemoveBegin(n) PROVE LastOnIsKept'
  BY <1>1 DEF RemoveBegin, Disable, Disables
<1>2. ASSUME NEW n \in Names, EnableTool(n) PROVE LastOnIsKept'
  BY <1>2 DEF EnableTool, Enable
<1>3. CASE Tick BY <1>3 DEF Tick
<1>4. CASE UNCHANGED <<off, clock, lastOn>> BY <1>4
<1> QED
  BY <1>1, <1>2, <1>3, <1>4
     DEF Next, vars, BeginTurn, EndTurn, RemoveSince, RemoveLook, RemoveCreate, CloseJob,
         ReopenJob, Restart

\* Only disable() writes a row, and only the row of a tool that was on until now.
LEMMA StepKeepsWait ==
    TypeOK /\ LastOnIsKept /\ WaitIsNotRestarted /\ [Next]_vars => WaitIsNotRestarted'
<1> SUFFICES ASSUME TypeOK, LastOnIsKept, WaitIsNotRestarted, [Next]_vars
             PROVE  WaitIsNotRestarted'
  OBVIOUS
<1> USE DEF TypeOK, LastOnIsKept, WaitIsNotRestarted, On
<1>1. ASSUME NEW n \in Names, RemoveBegin(n) PROVE WaitIsNotRestarted'
  BY <1>1 DEF RemoveBegin, Disable, Disables
<1>2. ASSUME NEW n \in Names, EnableTool(n) PROVE WaitIsNotRestarted'
  BY <1>2 DEF EnableTool, Enable
<1>3. CASE Tick BY <1>3 DEF Tick
<1>4. CASE UNCHANGED <<off, lastOn>> BY <1>4
<1> QED
  BY <1>1, <1>2, <1>3, <1>4
     DEF Next, vars, BeginTurn, EndTurn, RemoveSince, RemoveLook, RemoveCreate, CloseJob,
         ReopenJob, Restart

-----------------------------------------------------------------------------
(* The call under way, and the jobs it may file.                           *)

\* Only the last step of remove_tool files a job, and for its own tool.
LEMMA OnlyCreateFiles ==
    ASSUME TypeOK, [Next]_vars, NEW n \in Names, removals'[n].open > removals[n].open
    PROVE  RemoveCreate /\ n = doing.tool
<1> USE DEF TypeOK
<1>1. CASE RemoveCreate BY <1>1 DEF RemoveCreate, DoingTyped
<1>2. ASSUME NEW m \in Names, CloseJob(m) PROVE FALSE
  BY <1>2 DEF CloseJob
<1>3. ASSUME NEW m \in Names, ReopenJob(m) PROVE FALSE
  BY <1>3 DEF ReopenJob
<1>4. CASE UNCHANGED removals BY <1>4
<1> QED
  BY <1>1, <1>2, <1>3, <1>4
     DEF Next, vars, BeginTurn, EndTurn, RemoveBegin, RemoveSince, RemoveLook, EnableTool,
         Restart, Tick

\* Each step of remove_tool adds its finding to what the earlier ones found, and
\* what may happen between two steps spoils none of them: no tool is enabled and no
\* job filed while a call is under way, and a job put back to work was filed before.
LEMMA StepKeepsEvidence ==
    TypeOK /\ WaitIsNotRestarted /\ Evidence /\ [Next]_vars => Evidence'
<1> SUFFICES ASSUME TypeOK, WaitIsNotRestarted, Evidence, [Next]_vars PROVE Evidence'
  OBVIOUS
<1> USE DEF TypeOK, DoingTyped, Evidence, On, Idle
<1>1. ASSUME NEW n \in Names, RemoveBegin(n) PROVE Evidence'
  BY <1>1 DEF RemoveBegin, Disable, Disables
<1>2. CASE RemoveSince BY <1>2 DEF RemoveSince, WaitIsNotRestarted
<1>3. CASE RemoveLook BY <1>3 DEF RemoveLook, OpenJobs
<1>4. ASSUME doing' = Idle PROVE Evidence'
  BY <1>4
<1>5. ASSUME NEW n \in Names, CloseJob(n) PROVE Evidence'
  BY <1>5 DEF CloseJob
<1>6. ASSUME NEW n \in Names, ReopenJob(n) PROVE Evidence'
  BY <1>6 DEF ReopenJob
<1>7. CASE Tick BY <1>7 DEF Tick
<1>8. CASE UNCHANGED <<off, removals, clock, doing, lastOn>> BY <1>8
<1> QED
  BY <1>1, <1>2, <1>3, <1>4, <1>5, <1>6, <1>7, <1>8
     DEF Next, vars, BeginTurn, EndTurn, RemoveCreate, EnableTool, Restart

\* A job is filed where none filed was open; closing leaves fewer, and reopening
\* counts apart.
LEMMA StepKeepsOneJob ==
    TypeOK /\ Evidence /\ OneRemovalJobPerTool /\ [Next]_vars => OneRemovalJobPerTool'
<1> SUFFICES ASSUME TypeOK, Evidence, OneRemovalJobPerTool, [Next]_vars,
                    NEW n \in Names
             PROVE  removals'[n].open <= 1
  BY DEF OneRemovalJobPerTool
<1>1. CASE removals'[n].open > removals[n].open
  BY <1>1, OnlyCreateFiles DEF RemoveCreate, Evidence, TypeOK
<1>2. CASE ~(removals'[n].open > removals[n].open)
  <2>1. removals[n].open \in Nat /\ removals'[n].open \in Nat
    BY StepTyped DEF TypeOK
  <2> QED BY <1>2, <2>1 DEF OneRemovalJobPerTool
<1> QED BY <1>1, <1>2

-----------------------------------------------------------------------------
(* The turn.                                                               *)

\* Every tick ages the turn by as much as it ages what was switched off in it.
LEMMA StepKeepsTurn ==
    TypeOK /\ LastOnIsKept /\ TurnIsShort /\ [Next]_vars => TurnIsShort'
<1> SUFFICES ASSUME TypeOK, LastOnIsKept, TurnIsShort, [Next]_vars PROVE TurnIsShort'
  OBVIOUS
<1> USE DEF TypeOK, LastOnIsKept, TurnIsShort, InTurn, NoTurn, On
<1>1. ASSUME NEW n \in Names, RemoveBegin(n) PROVE TurnIsShort'
  BY <1>1 DEF RemoveBegin, Disables
<1>2. ASSUME NEW n \in Names, EnableTool(n) PROVE TurnIsShort'
  BY <1>2 DEF EnableTool
<1>3. CASE Tick BY <1>3 DEF Tick
<1>4. ASSUME offThisTurn' = {} PROVE TurnIsShort'
  BY <1>4
<1>5. CASE UNCHANGED <<clock, turn, lastOn, offThisTurn>> BY <1>5
<1> QED
  BY <1>1, <1>2, <1>3, <1>4, <1>5
     DEF Next, vars, BeginTurn, EndTurn, RemoveSince, RemoveLook, RemoveCreate, CloseJob,
         ReopenJob, Restart

-----------------------------------------------------------------------------
\* The parts together are inductive.
LEMMA StepInv == SwitchInv /\ [Next]_vars => SwitchInv'
  BY StepTyped, StepKeepsLastOn, StepKeepsWait, StepKeepsEvidence, StepKeepsOneJob, StepKeepsTurn
     DEF SwitchInv

\* Every reachable state satisfies the invariant.
THEOREM SwitchInvHolds == Spec => []SwitchInv
  BY InitInv, StepInv, PTL DEF Spec

\* The row keeps the moment the tool really went off, however often the request
\* is repeated and the service restarted.
THEOREM WaitsAreKept == Spec => []WaitIsNotRestarted
<1>1. SwitchInv => WaitIsNotRestarted BY DEF SwitchInv
<1> QED BY <1>1, SwitchInvHolds, PTL

\* Of the removal jobs a tool was filed, at most one is open without having been
\* closed and put back to work, though the look for one and the filing of one are
\* separate calls and the developer closes and reopens jobs in between.
THEOREM OneJobAtATime == Spec => []OneRemovalJobPerTool
<1>1. SwitchInv => OneRemovalJobPerTool BY DEF SwitchInv
<1> QED BY <1>1, SwitchInvHolds, PTL

\* A removal job is filed only for a tool that has been off, without a break, for
\* the whole wait.
THEOREM RemovalsRestOnEvidence == Spec => RemovalRestsOnEvidence
<1>1. SwitchInv /\ [Next]_vars =>
         \A n \in Names : removals'[n].open > removals[n].open =>
             off[n] # On /\ clock - lastOn[n] >= MinTimeOff
  BY OnlyCreateFiles DEF SwitchInv, Evidence, RemoveCreate, Idle
<1> QED BY <1>1, SwitchInvHolds, PTL DEF Spec, RemovalRestsOnEvidence

\* The turn that switches a tool off never files its removal: it would have to
\* last longer than the wait.
THEOREM RemovalTakesTwoOccasions == Spec => TwoOccasions
<1>1. SwitchInv /\ [Next]_vars =>
         \A n \in Names : removals'[n].open > removals[n].open => n \notin offThisTurn
  <2> SUFFICES ASSUME SwitchInv, [Next]_vars, NEW n \in Names, removals'[n].open > removals[n].open,
                      n \in offThisTurn
               PROVE  FALSE
    OBVIOUS
  <2>1. clock - lastOn[n] >= MinTimeOff
    BY OnlyCreateFiles DEF SwitchInv, Evidence, RemoveCreate
  <2>2. clock + turn <= lastOn[n] + TurnTime
    BY DEF SwitchInv, TurnIsShort
  <2>3. clock \in Nat /\ turn \in Nat /\ lastOn[n] \in Nat
    BY DEF SwitchInv, TypeOK, NoTurn
  <2> QED BY <2>1, <2>2, <2>3
<1> QED BY <1>1, SwitchInvHolds, PTL DEF Spec, TwoOccasions
===============================================================================
