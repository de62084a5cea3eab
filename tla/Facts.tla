-------------------------------- MODULE Facts --------------------------------
(***************************************************************************)
(* The facts the user asked to be remembered: the store of                 *)
(* tools/facts/store.py, the two tools that write it and the lines that    *)
(* FactsContext puts in the system prompt.                                 *)
(*                                                                         *)
(* A text stands for all that the store takes for the same fact, blanks    *)
(* and case apart.  The facts have no step of their own: a turn uses them. *)
(***************************************************************************)
EXTENDS Naturals, FiniteSets, FiniteSetsExt

CONSTANTS Texts,
          Length,             \* of the line each text makes
          MAX_ACTIVE_FACTS,
          MAX_FACT_LENGTH,
          MAX_CONTEXT_CHARS,
          MaxFacts            \* bound: facts ever recorded

ASSUME FactsAssumption ==
    /\ Length \in [Texts -> Nat]
    /\ MAX_ACTIVE_FACTS \in Nat /\ MAX_FACT_LENGTH \in Nat
    /\ MAX_CONTEXT_CHARS \in Nat /\ MaxFacts \in Nat

VARIABLE facts   \* the table: number -> text, and whether it is in force

Row == [text : Texts, active : BOOLEAN]
Rows == UNION {[1..n -> Row] : n \in 0..MaxFacts}
NoFacts == [n \in {} |-> 0]

-----------------------------------------------------------------------------
\* active(): the rows that are not stamped as forgotten.
Active == {n \in DOMAIN facts : facts[n].active}

\* AUTOINCREMENT, whose sequence only an INSERT moves.  No statement of the store
\* deletes a row, so the greatest number ever given is the greatest in the table.
NextNumber == Max(DOMAIN facts \cup {0}) + 1

Refused(text) == Length[text] = 0 \/ Length[text] > MAX_FACT_LENGTH
Known(text) == \E n \in Active : facts[n].text = text
\* A slip: the ceiling may be passed by one.
FullOneLate == Cardinality(Active) > MAX_ACTIVE_FACTS
Full == Cardinality(Active) >= MAX_ACTIVE_FACTS

\* A slip: the row of a forgotten fact is written over to make room.
RememberReuses(text) ==
    IF Refused(text) \/ Known(text) \/ Full
    THEN UNCHANGED facts
    ELSE \E n \in (DOMAIN facts \ Active) \cup {NextNumber} :
            /\ n <= MaxFacts
            /\ facts' = [m \in DOMAIN facts \cup {n} |->
                            IF m = n THEN [text |-> text, active |-> TRUE] ELSE facts[m]]

\* remember(): nothing is written for a text that is empty, too long or in
\* force already, nor when there are as many as there may be.
Remember(text) ==
    IF Refused(text) \/ Known(text) \/ Full
    THEN UNCHANGED facts
    ELSE /\ NextNumber <= MaxFacts
         /\ facts' = [n \in DOMAIN facts \cup {NextNumber} |->
                         IF n \in DOMAIN facts THEN facts[n] ELSE [text |-> text, active |-> TRUE]]

\* forget(): the row stays, stamped.
Forget(n) == IF n \in Active
             THEN facts' = [facts EXCEPT ![n].active = FALSE]
             ELSE UNCHANGED facts

-----------------------------------------------------------------------------
Nothing == [numbers |-> {}, used |-> 0]

\* The line of a fact in force is added to those that were kept, if there is room
\* for it beside them.
WithLine(kept, n) ==
    IF n \in Active /\ kept.used + Length[facts[n].text] <= MAX_CONTEXT_CHARS
    THEN [numbers |-> kept.numbers \cup {n}, used |-> kept.used + Length[facts[n].text]]
    ELSE kept

\* A slip: the space is given to the newest first.
FittingNewest ==
    LET last == NextNumber - 1
        kept[n \in 0..last] == IF n = 0 THEN Nothing
                               ELSE WithLine(kept[n - 1], last + 1 - n)
    IN kept[last].numbers

\* The facts that fit in the prompt: oldest first, each one that does not
\* find room is left out and the next is tried.
Fitting ==
    LET last == NextNumber - 1
        kept[n \in 0..last] == IF n = 0 THEN Nothing ELSE WithLine(kept[n - 1], n)
    IN kept[last].numbers

\* FactsContext.snapshot(): one line for each, with its number.
Lines == {[number |-> n, text |-> facts[n].text] : n \in Fitting}

-----------------------------------------------------------------------------
FactsTypeOK == facts \in Rows

\* "the same fact twice is not two facts", and the ceiling that keeps the
\* prompt affordable holds, in whatever order facts come and go.
ActiveFactsBounded ==
    /\ Cardinality(Active) <= MAX_ACTIVE_FACTS
    /\ \A m, n \in Active : m # n => facts[m].text # facts[n].text
==============================================================================
