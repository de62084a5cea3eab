------------------------------ MODULE TurnProofs ------------------------------
(***************************************************************************)
(* What Turn claims of the gate, of the calls of a reply and of the facts, *)
(* proved for any tools and facts, any number of rounds and of calls.      *)
(***************************************************************************)
EXTENDS Turn, Induction, FiniteSetTheorems

-----------------------------------------------------------------------------
(* The facts.                                                              *)

FactsInv == facts \in Rows /\ ActiveFactsBounded

USE FactsAssumption, TurnAssumption

LEMMA GreatestUpTo == ASSUME NEW n \in Nat PROVE Max(0..n) = n
<1>1. n \in 0..n /\ \A y \in 0..n : n >= y
  OBVIOUS
<1>2. \A x \in 0..n : (\A y \in 0..n : x >= y) => x = n
  OBVIOUS
<1> QED BY <1>1, <1>2 DEF Max

\* The numbers in the table are the first ones.
LEMMA RowsNumbered ==
    ASSUME facts \in Rows
    PROVE  \E n \in 0..MaxFacts : facts \in [1..n -> Row] /\ NextNumber = n + 1
<1>1. PICK n \in 0..MaxFacts : facts \in [1..n -> Row]
  BY DEF Rows
<1>2. DOMAIN facts \cup {0} = 0..n
  BY <1>1
<1>3. Max(0..n) = n
  BY GreatestUpTo
<1> QED BY <1>1, <1>2, <1>3 DEF NextNumber

\* There is nothing in force before anything is recorded.
LEMMA NoFactsInv == facts = NoFacts => FactsInv
<1> SUFFICES ASSUME facts = NoFacts PROVE FactsInv
  OBVIOUS
<1>1. facts \in [1..0 -> Row] /\ 0 \in 0..MaxFacts
  BY DEF NoFacts
<1>2. facts \in Rows
  BY <1>1 DEF Rows
<1>3. Active = {}
  BY <1>1 DEF Active
<1> QED BY <1>2, <1>3, FS_EmptySet DEF FactsInv, ActiveFactsBounded

\* The facts in force are finitely many.
LEMMA ActiveFinite == ASSUME facts \in Rows PROVE IsFiniteSet(Active)
<1>1. PICK n \in 0..MaxFacts : facts \in [1..n -> Row]
  BY DEF Rows
<1>2. Active \subseteq 1..n /\ IsFiniteSet(1..n)
  BY <1>1, FS_Interval DEF Active
<1> QED BY <1>2, FS_Subset

\* A new fact is under a new number, unlike any in force, and finds a place left.
LEMMA RememberKeepsFacts ==
    ASSUME FactsInv, NEW text \in Texts, Remember(text) PROVE FactsInv'
<1>1. CASE UNCHANGED facts
  BY <1>1 DEF FactsInv, ActiveFactsBounded, Active
<1>2. CASE ~(Refused(text) \/ Known(text) \/ Full)
  <2>1. PICK n \in 0..MaxFacts : facts \in [1..n -> Row] /\ NextNumber = n + 1
    BY RowsNumbered DEF FactsInv
  <2>2. n + 1 \in 0..MaxFacts
    BY <1>2, <2>1 DEF Remember
  <2>3. facts' = [m \in 1..(n + 1) |-> IF m \in 1..n THEN facts[m]
                                       ELSE [text |-> text, active |-> TRUE]]
    BY <1>2, <2>1 DEF Remember
  <2>4. facts' \in [1..(n + 1) -> Row]
    BY <2>1, <2>3 DEF Row
  <2>5. Active' = Active \cup {n + 1} /\ n + 1 \notin Active
    BY <2>1, <2>3 DEF Active
  <2>6. Cardinality(Active') = Cardinality(Active) + 1 /\ Cardinality(Active) \in Nat
    BY <2>5, ActiveFinite, FS_AddElement, FS_CardinalityType DEF FactsInv
  <2>7. Cardinality(Active') <= MAX_ACTIVE_FACTS
    BY <2>6, <1>2 DEF Full
  <2>8. \A m \in Active : facts'[m] = facts[m] /\ facts[m].text # text
    BY <1>2, <2>1, <2>3 DEF Active, Known
  <2>9. facts'[n + 1].text = text
    BY <2>1, <2>3
  <2>10. \A l, m \in Active' : l # m => facts'[l].text # facts'[m].text
    BY <2>5, <2>8, <2>9 DEF FactsInv, ActiveFactsBounded
  <2>11. facts' \in Rows
    BY <2>2, <2>4 DEF Rows
  <2> QED BY <2>7, <2>10, <2>11 DEF FactsInv, ActiveFactsBounded
<1> QED BY <1>1, <1>2 DEF Remember

\* Forgetting leaves fewer in force.
LEMMA ForgetKeepsFacts ==
    ASSUME FactsInv, NEW number \in Nat, Forget(number) PROVE FactsInv'
<1>1. CASE UNCHANGED facts
  BY <1>1 DEF FactsInv, ActiveFactsBounded, Active
<1>2. CASE number \in Active /\ facts' = [facts EXCEPT ![number].active = FALSE]
  <2>1. PICK n \in 0..MaxFacts : facts \in [1..n -> Row]
    BY DEF FactsInv, Rows
  <2>2. facts' \in [1..n -> Row]
    BY <1>2, <2>1 DEF Row
  <2>3. \A m \in 1..n : facts'[m].text = facts[m].text
    BY <1>2, <2>1 DEF Row
  <2>4. Active' = Active \ {number}
    BY <1>2, <2>1, <2>2 DEF Active, Row
  <2>5. Cardinality(Active') <= Cardinality(Active) /\ Cardinality(Active) \in Nat
        /\ Cardinality(Active') \in Nat
    BY <2>4, ActiveFinite, FS_Subset, FS_CardinalityType DEF FactsInv
  <2>6. Cardinality(Active') <= MAX_ACTIVE_FACTS
    BY <2>5 DEF FactsInv, ActiveFactsBounded
  <2>7. \A l, m \in Active' : l # m => facts'[l].text # facts'[m].text
    BY <2>1, <2>3, <2>4 DEF FactsInv, ActiveFactsBounded, Active
  <2>8. facts' \in Rows
    BY <2>2 DEF Rows
  <2> QED BY <2>6, <2>7, <2>8 DEF FactsInv, ActiveFactsBounded
<1> QED BY <1>1, <1>2 DEF Forget

-----------------------------------------------------------------------------
(* The lines of the facts.                                                 *)

\* The lines kept after each row of a table, as the loop of snapshot() keeps them.
Room(table, kept, n) ==
    n \in {m \in DOMAIN table : table[m].active}
    /\ kept.used + Length[table[n].text] <= MAX_CONTEXT_CHARS
More(table, kept, n) ==
    IF Room(table, kept, n)
    THEN [numbers |-> kept.numbers \cup {n}, used |-> kept.used + Length[table[n].text]]
    ELSE kept
Kept(table, last) ==
    CHOOSE kept : kept = [n \in 0..last |-> IF n = 0 THEN Nothing ELSE More(table, kept[n - 1], n)]

LEMMA FittingIsKept == Fitting = Kept(facts, NextNumber - 1)[NextNumber - 1].numbers
  BY DEF Fitting, Kept, More, Room, WithLine, Active

LEMMA FittingIsKeptNext ==
    Fitting' = Kept(facts', NextNumber' - 1)[NextNumber' - 1].numbers
  BY DEF Fitting, Kept, More, Room, WithLine, Active

\* They are the lines of rows of the table, and each row is weighed once.
LEMMA KeptIsMade ==
    ASSUME NEW n \in Nat, NEW table \in [1..n -> Row]
    PROVE  /\ \A i \in 0..n : Kept(table, n)[i].numbers \subseteq 1..n
           /\ Kept(table, n)[0] = Nothing
           /\ \A i \in 1..n : Kept(table, n)[i] = More(table, Kept(table, n)[i - 1], i)
<1> DEFINE V == [numbers : SUBSET (1..n), used : Nat]
           step == [p \in (1..n) \X V |-> More(table, p[2], p[1])]
           f == CHOOSE g : g = [i \in 0..n |-> IF i = 0 THEN Nothing ELSE More(table, g[i - 1], i)]
<1>1. Nothing \in V
  BY DEF Nothing
<1>2. step \in [(1..n) \X V -> V]
  <2> SUFFICES ASSUME NEW i \in 1..n, NEW v \in V PROVE More(table, v, i) \in V
    OBVIOUS
  <2>1. table[i].text \in Texts
    BY DEF Row
  <2>2. Length[table[i].text] \in Nat
    BY <2>1
  <2> QED BY <2>2 DEF More
<1>3. PICK g : MadeStepwise(g, V, Nothing, n, step)
  <2> HIDE DEF V, step
  <2> QED BY <1>1, <1>2, PrimitiveRecursion
<1>4. /\ g \in [0..n -> V] /\ g[0] = Nothing
      /\ \A i \in 1..n : g[i] = More(table, g[i - 1], i)
  <2>1. g \in [0..n -> V] /\ g[0] = Nothing /\ \A i \in 1..n : g[i] = step[<<i, g[i - 1]>>]
    BY <1>3 DEF MadeStepwise
  <2>2. \A i \in 1..n : g[i - 1] \in V
    <3> HIDE DEF V, step
    <3> QED BY <2>1
  <2>3. \A i \in 1..n : step[<<i, g[i - 1]>>] = More(table, g[i - 1], i)
    <3> HIDE DEF V
    <3> QED BY <2>2
  <2> QED BY <2>1, <2>3
<1>5. g = [i \in 0..n |-> IF i = 0 THEN Nothing ELSE More(table, g[i - 1], i)]
  BY <1>4
<1>6. f = [i \in 0..n |-> IF i = 0 THEN Nothing ELSE More(table, f[i - 1], i)]
  BY <1>5
<1>7. Kept(table, n) = f
  BY DEF Kept
<1> HIDE DEF f
<1>8. /\ f[0] = Nothing /\ \A i \in 1..n : f[i] = More(table, f[i - 1], i)
  BY <1>6
<1>9. NeverPart(f, g, n)
  BY <1>4, <1>8 DEF NeverPart
<1>10. \A i \in 0..n : f[i] = g[i]
  BY <1>9, StepwiseAgree
<1> QED BY <1>4, <1>7, <1>8, <1>10

\* The rows at the front of a longer table are weighed the same.
LEMMA KeptOfMore ==
    ASSUME NEW n \in Nat, NEW table \in [1..n -> Row], NEW longer \in [1..(n + 1) -> Row],
           \A i \in 1..n : longer[i] = table[i]
    PROVE  Kept(table, n)[n].numbers \subseteq Kept(longer, n + 1)[n + 1].numbers
<1> DEFINE f == Kept(table, n)
           g == Kept(longer, n + 1)
<1>1. /\ f[0] = Nothing /\ \A i \in 1..n : f[i] = More(table, f[i - 1], i)
  BY KeptIsMade
<1>2. /\ g[0] = Nothing /\ \A i \in 1..(n + 1) : g[i] = More(longer, g[i - 1], i)
  <2>1. n + 1 \in Nat
    OBVIOUS
  <2> QED BY <2>1, KeptIsMade
<1> HIDE DEF f, g
<1>3. ASSUME NEW i \in 1..n, NEW kept PROVE More(table, kept, i) = More(longer, kept, i)
  <2>1. /\ i \in {m \in DOMAIN table : table[m].active} <=> table[i].active
        /\ i \in {m \in DOMAIN longer : longer[m].active} <=> longer[i].active
    OBVIOUS
  <2>2. longer[i] = table[i]
    OBVIOUS
  <2> QED BY <2>1, <2>2 DEF More, Room
<1>4. NeverPart(f, g, n)
  <2>1. ASSUME NEW i \in 1..n, f[i - 1] = g[i - 1] PROVE f[i] = g[i]
    <3>1. i \in 1..(n + 1)
      OBVIOUS
    <3> QED BY <1>1, <1>2, <1>3, <2>1, <3>1
  <2> QED BY <1>1, <1>2, <2>1 DEF NeverPart
<1>5. f[n] = g[n]
  <2>1. n \in 0..n
    OBVIOUS
  <2> QED BY <1>4, <2>1, StepwiseAgree
<1>6. g[n + 1] = More(longer, g[n], n + 1)
  <2>1. n + 1 \in 1..(n + 1) /\ (n + 1) - 1 = n
    OBVIOUS
  <2> QED BY <1>2, <2>1
<1>7. g[n].numbers \subseteq g[n + 1].numbers
  BY <1>6 DEF More
<1> QED BY <1>5, <1>7 DEF f, g

\* What is shown is of facts that are in the table.
LEMMA LinesAreOfFacts ==
    ASSUME facts \in Rows, NEW line \in Lines
    PROVE  line.number \in DOMAIN facts /\ facts[line.number].text = line.text
<1>1. PICK n \in 0..MaxFacts : facts \in [1..n -> Row] /\ NextNumber = n + 1
  BY RowsNumbered
<1>2. Fitting \subseteq 1..n
  <2>1. n \in Nat /\ (n + 1) - 1 = n /\ n \in 0..n
    OBVIOUS
  <2>2. Kept(facts, n)[n].numbers \subseteq 1..n
    BY <1>1, <2>1, KeptIsMade
  <2> QED BY <1>1, <2>1, <2>2, FittingIsKept
<1> QED BY <1>1, <1>2 DEF Lines

-----------------------------------------------------------------------------
(* The turn.                                                               *)

\* The results are those of the first calls of the reply, and of all of it when
\* the model is consulted again.
CallsInv ==
    /\ asked \in Seq(Call) /\ results \in Seq([tool_use_id : 1..MaxCalls])
    /\ Len(results) <= Len(asked)
    /\ \A i \in 1..Len(results) : results[i].tool_use_id = asked[i].id
    /\ at \in {"idle", "system_prompt"} => asked = <<>> /\ results = <<>>
    /\ at = "gate" => Len(results) = Len(asked)

\* What the model was shown is what the table has under the same number.
ShownInv == \A line \in shown : line.number \in DOMAIN facts
                                /\ facts[line.number].text = line.text

TurnInv == /\ FactsInv /\ CallsInv /\ ShownInv /\ OffToolsStayQuiet
           /\ ran \in [read : BOOLEAN, wasOff : BOOLEAN]

\* A reply numbers its calls in order, and they are calls.
LEMMA RepliesAreCalls == \A calls \in Replies : calls \in Seq(Call)
<1> SUFFICES ASSUME NEW n \in 1..MaxCalls, NEW uses \in [1..n -> Asks]
             PROVE  [i \in 1..n |-> [id |-> i, use |-> uses[i]]] \in Seq(Call)
  BY DEF Replies
<1>1. \A i \in 1..n : [id |-> i, use |-> uses[i]] \in Call
  BY DEF Call
<1> QED BY <1>1

\* The facts change by the effect of a tool, in one of two ways.
LEMMA FactsChange ==
    ASSUME CallsInv, [Next]_vars
    PROVE  \/ UNCHANGED facts
           \/ \E t \in Texts : Remember(t)
           \/ \E number \in Nat : Forget(number)
<1>1. CASE ExecuteTool
  <2> DEFINE use == asked[Len(results) + 1].use
  <2>1. use \in Blocks
    <3>1. Len(results) \in Nat /\ Len(asked) \in Nat /\ Len(results) < Len(asked)
      BY <1>1 DEF ExecuteTool, CallsInv
    <3>2. asked[Len(results) + 1] \in Call
      BY <3>1 DEF CallsInv
    <3> QED BY <3>2 DEF Call
  <2>2. Effect(use) \/ UNCHANGED facts
    BY <1>1 DEF ExecuteTool
  <2> HIDE DEF use
  <2>3. CASE use.tool = "remember_fact" /\ Remember(use.fact)
    <3>1. use.fact \in Texts
      BY <2>1, <2>3 DEF Blocks, Switching, Registered, FactTools, PROTECTED
    <3> QED BY <2>3, <3>1
  <2>4. CASE use.tool = "forget_fact" /\ Forget(use.number)
    <3>1. use.number \in Nat
      BY <2>1, <2>4 DEF Blocks, Switching, Registered, FactTools, PROTECTED
    <3> QED BY <2>4, <3>1
  <2> QED BY <2>2, <2>3, <2>4 DEF Effect
<1> QED
  BY <1>1
     DEF Next, TurnStep, vars, context, Begin, GatherFacts, Offer, Ceiling, ModelAnswers,
         ModelFails, ModelAsks, NextRound, Finish

LEMMA StepKeepsFacts == FactsInv /\ CallsInv /\ [Next]_vars => FactsInv'
<1> SUFFICES ASSUME FactsInv, CallsInv, [Next]_vars PROVE FactsInv'
  OBVIOUS
<1>1. CASE UNCHANGED facts
  BY <1>1 DEF FactsInv, ActiveFactsBounded, Active
<1> QED BY <1>1, FactsChange, RememberKeepsFacts, ForgetKeepsFacts

\* A fact that was recorded keeps its number and its text.
LEMMA FactsEndure ==
    ASSUME FactsInv, CallsInv, [Next]_vars
    PROVE  \A n \in DOMAIN facts : n \in DOMAIN facts' /\ facts'[n].text = facts[n].text
<1>1. PICK n \in 0..MaxFacts : facts \in [1..n -> Row]
  BY DEF FactsInv, Rows
<1>2. ASSUME NEW t \in Texts, Remember(t)
      PROVE  \A m \in DOMAIN facts : m \in DOMAIN facts' /\ facts'[m].text = facts[m].text
  BY <1>2 DEF Remember
<1>3. ASSUME NEW number \in Nat, Forget(number)
      PROVE  \A m \in DOMAIN facts : m \in DOMAIN facts' /\ facts'[m].text = facts[m].text
  <2>1. facts' = facts \/ (number \in 1..n /\ facts' = [facts EXCEPT ![number].active = FALSE])
    BY <1>1, <1>3 DEF Forget, Active
  <2>2. ASSUME NEW m \in 1..n, number \in 1..n, facts' = [facts EXCEPT ![number].active = FALSE]
        PROVE  m \in DOMAIN facts' /\ facts'[m].text = facts[m].text
    <3>1. facts[m] \in Row
      BY <1>1
    <3>2. DOMAIN facts' = 1..n
      BY <1>1, <2>2
    <3>3. facts'[m] = IF m = number THEN [facts[m] EXCEPT !.active = FALSE] ELSE facts[m]
      BY <1>1, <2>2
    <3> QED BY <3>1, <3>2, <3>3 DEF Row
  <2> QED BY <1>1, <2>1, <2>2
<1> QED BY <1>2, <1>3, FactsChange

\* The prompt of this turn goes on saying what the table has.
LEMMA StepKeepsShown == FactsInv /\ CallsInv /\ ShownInv /\ [Next]_vars => ShownInv'
<1> SUFFICES ASSUME FactsInv, CallsInv, ShownInv, [Next]_vars PROVE ShownInv'
  OBVIOUS
<1>1. CASE shown' = shown
  BY <1>1, FactsEndure DEF ShownInv
<1>2. CASE GatherFacts
  <2>1. shown' \in {Lines, {}} /\ facts' = facts
    BY <1>2 DEF GatherFacts
  <2>2. CASE shown' = Lines
    BY <2>1, <2>2, LinesAreOfFacts DEF FactsInv, ShownInv
  <2>3. CASE shown' = {}
    BY <2>3 DEF ShownInv
  <2> QED BY <2>1, <2>2, <2>3
<1>3. CASE Finish
  BY <1>3 DEF Finish, ShownInv
<1> QED
  BY <1>1, <1>2, <1>3
     DEF Next, TurnStep, vars, context, Begin, Offer, Ceiling, ModelAnswers, ModelFails,
         ModelAsks, ExecuteTool, NextRound

\* Each call executed adds the result that carries its id, and the round ends when
\* all have theirs.
LEMMA StepKeepsCalls == CallsInv /\ [Next]_vars => CallsInv'
<1> SUFFICES ASSUME CallsInv, [Next]_vars PROVE CallsInv'
  OBVIOUS
<1>1. CASE ExecuteTool
  <2> DEFINE call == asked[Len(results) + 1]
  <2>1. Len(results) \in Nat /\ Len(asked) \in Nat /\ Len(results) < Len(asked)
    BY <1>1 DEF ExecuteTool, CallsInv
  <2>2. call \in Call
    BY <2>1 DEF CallsInv
  <2>3. call.id \in 1..MaxCalls
    BY <2>2 DEF Call
  <2>4. results' = Append(results, [tool_use_id |-> call.id]) /\ UNCHANGED <<asked, at>>
        /\ at = "tools"
    BY <1>1 DEF ExecuteTool, ToolResult
  <2>5. /\ results' \in Seq([tool_use_id : 1..MaxCalls])
        /\ Len(results') = Len(results) + 1
    BY <2>3, <2>4 DEF CallsInv
  <2>6. \A i \in 1..Len(results') : results'[i].tool_use_id = asked[i].id
    <3> SUFFICES ASSUME NEW i \in 1..Len(results') PROVE results'[i].tool_use_id = asked[i].id
      OBVIOUS
    <3>1. CASE i = Len(results) + 1
      BY <3>1, <2>4, <2>3 DEF CallsInv
    <3>2. CASE i \in 1..Len(results)
      BY <3>2, <2>4, <2>3 DEF CallsInv
    <3> QED BY <3>1, <3>2, <2>1, <2>5
  <2> QED BY <2>1, <2>4, <2>5, <2>6 DEF CallsInv
<1>2. ASSUME NEW calls \in Replies, ModelAsks(calls) PROVE CallsInv'
  BY <1>2, RepliesAreCalls DEF ModelAsks, CallsInv
<1>3. CASE Offer BY <1>3 DEF Offer, CallsInv
<1>4. CASE Finish BY <1>4 DEF Finish, CallsInv
<1>5. CASE NextRound BY <1>5 DEF NextRound, CallsInv
<1>6. CASE Begin \/ GatherFacts \/ Ceiling \/ ModelAnswers \/ ModelFails \/ UNCHANGED vars
  BY <1>6 DEF Begin, GatherFacts, Ceiling, ModelAnswers, ModelFails, vars, CallsInv
<1> QED BY <1>1, <1>2, <1>3, <1>4, <1>5, <1>6 DEF Next, TurnStep

\* The gate is asked at the moment the tool runs.
LEMMA StepKeepsGate ==
    ran \in [read : BOOLEAN, wasOff : BOOLEAN] /\ OffToolsStayQuiet /\ [Next]_vars
        => (ran \in [read : BOOLEAN, wasOff : BOOLEAN] /\ OffToolsStayQuiet)'
<1> SUFFICES ASSUME ran \in [read : BOOLEAN, wasOff : BOOLEAN], OffToolsStayQuiet, [Next]_vars
             PROVE  (ran \in [read : BOOLEAN, wasOff : BOOLEAN] /\ OffToolsStayQuiet)'
  OBVIOUS
<1>1. CASE ran' \in {ran, NothingRan}
  <2>1. CASE ran' = ran BY <2>1 DEF OffToolsStayQuiet
  <2>2. CASE ran' = NothingRan BY <2>2 DEF OffToolsStayQuiet, NothingRan
  <2> QED BY <1>1, <2>1, <2>2
<1>2. CASE ExecuteTool
  <2> DEFINE tool == asked[Len(results) + 1].use.tool
  <2>1. PICK readable \in BOOLEAN :
           \/ ran' = NothingRan
           \/ ~Refuses(tool, readable) /\ ran' = [read |-> readable, wasOff |-> tool \in off]
    BY <1>2 DEF ExecuteTool
  <2> HIDE DEF tool
  <2>2. CASE ~Refuses(tool, readable) /\ ran' = [read |-> readable, wasOff |-> tool \in off]
    BY <2>2 DEF Refuses, SwitchedOff, OffToolsStayQuiet
  <2> QED BY <2>1, <2>2, <1>1
<1> QED
  BY <1>1, <1>2
     DEF Next, TurnStep, vars, Begin, GatherFacts, Offer, Ceiling, ModelAnswers, ModelFails,
         ModelAsks, NextRound, Finish

\* Every reachable state satisfies the invariant.
THEOREM TurnInvHolds == Spec => []TurnInv
<1>1. Init => TurnInv
  BY NoFactsInv DEF Init, TurnInv, CallsInv, ShownInv, OffToolsStayQuiet, NothingRan
<1>2. TurnInv /\ [Next]_vars => TurnInv'
  BY StepKeepsFacts, StepKeepsCalls, StepKeepsShown, StepKeepsGate DEF TurnInv
<1> QED BY <1>1, <1>2, PTL DEF Spec

\* The model is consulted again only when each of its calls has the result of its
\* id, in order, whatever was refused or failed.
THEOREM EveryCallIsAnswered == Spec => []EveryCallAnswered
<1>1. TurnInv => EveryCallAnswered
  BY DEF TurnInv, CallsInv, EveryCallAnswered
<1> QED BY <1>1, TurnInvHolds, PTL

\* No tool runs while it is off, whenever it was switched off and whoever asked for
\* it, unless the gate could not be read.
THEOREM TheGateIsAGuarantee == Spec => []OffToolsStayQuiet
<1>1. TurnInv => OffToolsStayQuiet BY DEF TurnInv
<1> QED BY <1>1, TurnInvHolds, PTL

\* The facts in force never outnumber the ceiling, and no two of them are the same.
THEOREM FactsAreBounded == Spec => []ActiveFactsBounded
<1>1. TurnInv => ActiveFactsBounded BY DEF TurnInv, FactsInv
<1> QED BY <1>1, TurnInvHolds, PTL

\* Whatever forget_fact forgets by a number that snapshot() put in the prompt is
\* the fact it was put there with, whatever else the turn recorded or forgot.
THEOREM NumbersKeepTheirFacts == Spec => []NumbersStandForOneFact
<1>1. TurnInv => NumbersStandForOneFact BY DEF TurnInv, ShownInv, NumbersStandForOneFact
<1> QED BY <1>1, TurnInvHolds, PTL

\* Whatever remember() records, every line that snapshot() would have shown before
\* it still finds room after it.
THEOREM NoLineGivesWay == Spec => RememberingDisplacesNothing
<1>1. TurnInv /\ [Next]_vars => (DOMAIN facts' # DOMAIN facts => Lines \subseteq Lines')
  <2> SUFFICES ASSUME FactsInv, CallsInv, [Next]_vars, DOMAIN facts' # DOMAIN facts
               PROVE  Lines \subseteq Lines'
    BY DEF TurnInv
  <2>1. PICK n \in 0..MaxFacts : facts \in [1..n -> Row] /\ NextNumber = n + 1
    BY RowsNumbered DEF FactsInv
  <2>2. PICK t \in Texts : Remember(t) /\ facts' # facts
    BY FactsChange DEF Forget
  <2>3. facts' = [m \in 1..(n + 1) |-> IF m \in 1..n THEN facts[m]
                                       ELSE [text |-> t, active |-> TRUE]]
    <3>1. DOMAIN facts = 1..n /\ (1..n) \cup {n + 1} = 1..(n + 1)
      BY <2>1
    <3> QED BY <2>1, <2>2, <3>1 DEF Remember
  <2>4. facts' \in [1..(n + 1) -> Row] /\ \A i \in 1..n : facts'[i] = facts[i]
    BY <2>1, <2>3 DEF Row
  <2>5. NextNumber' = n + 2
    <3>1. DOMAIN facts' \cup {0} = 0..(n + 1)
      BY <2>3
    <3>2. n + 1 \in Nat
      OBVIOUS
    <3>3. NextNumber' = (n + 1) + 1
      BY <3>1, <3>2, GreatestUpTo DEF NextNumber
    <3> QED BY <3>3
  <2>6. Kept(facts, n)[n].numbers \subseteq Kept(facts', n + 1)[n + 1].numbers
    <3>1. n \in Nat OBVIOUS
    <3> QED BY <2>1, <2>4, <3>1, KeptOfMore
  <2>7. (n + 1) - 1 = n /\ (n + 2) - 1 = n + 1
    OBVIOUS
  <2>8. Fitting \subseteq Fitting'
    BY <2>1, <2>5, <2>6, <2>7, FittingIsKept, FittingIsKeptNext
  <2>9. \A m \in Fitting : facts'[m].text = facts[m].text
    <3>1. ASSUME NEW m \in Fitting PROVE m \in DOMAIN facts
      <4> DEFINE line == [number |-> m, text |-> facts[m].text]
      <4>1. line \in Lines
        BY DEF Lines
      <4>2. line.number \in DOMAIN facts
        BY <4>1, LinesAreOfFacts DEF FactsInv
      <4> QED BY <4>2
    <3> QED BY <3>1, FactsEndure
  <2> QED BY <2>8, <2>9 DEF Lines
<1> QED BY <1>1, TurnInvHolds, PTL DEF Spec, RememberingDisplacesNothing
===============================================================================
