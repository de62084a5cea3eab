\* Two calls per reply are what it takes to switch a tool off and call it in
\* the same breath; two rounds what it takes to call it later, and to forget a
\* fact by a number that has been read before the facts changed.
SPECIFICATION Spec
CONSTANTS
    a = a
    t1 = t1
    t2 = t2
    t3 = t3
    Unknown = Unknown
    Others <- OtherTools
    Texts <- AllTexts
    Length <- Lengths
    MAX_ACTIVE_FACTS = 2
    MAX_FACT_LENGTH = 3
    MAX_CONTEXT_CHARS = 3
    MaxFacts = 3
    MaxRounds = 2
    MaxCalls = 2
    Asks <- SomeAsks
INVARIANTS
    EveryCallAnswered
    OffToolsStayQuiet
    ActiveFactsBounded
    NumbersStandForOneFact
PROPERTIES
    RememberingDisplacesNothing
    TurnsEnd
