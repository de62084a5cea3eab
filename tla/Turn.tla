-------------------------------- MODULE Turn --------------------------------
(***************************************************************************)
(* One turn of the router (core/router.py): the facts are gathered once,   *)
(* then the model is consulted in rounds, and every tool it asks for is    *)
(* run or refused, until it answers or the ceiling is reached.             *)
(*                                                                         *)
(* Turns are serialised.  The gate may be unreadable at any call, a tool    *)
(* may fail before or after it took effect, and both the set of tools and  *)
(* the facts change under the turn, by the tools it runs.  The words       *)
(* exchanged are left out, the lines of facts in the system prompt         *)
(* excepted; the blocks that carry calls and results are kept, by call id. *)
(***************************************************************************)
EXTENDS Facts, Sequences

CONSTANTS Others,       \* ordinary tools
          Unknown,      \* a name the model made up
          MaxRounds,    \* max_tool_iterations
          MaxCalls,     \* bound: tool calls in one reply of the model
          Asks          \* bound: what the model may ask for

PROTECTED == {"list_tools", "enable_tool"}
Switching == {"remove_tool", "enable_tool"}
FactTools == {"remember_fact", "forget_fact"}
Registered == PROTECTED \cup Switching \cup FactTools \cup Others

\* What a tool_use block asks for: a tool, with the tool, the text or the number
\* it is about.
Blocks == [tool : Switching, about : Registered]
          \cup [tool : {"remember_fact"}, fact : Texts]
          \cup [tool : {"forget_fact"}, number : Nat]
          \cup [tool : {"list_tools", Unknown} \cup Others]

ASSUME TurnAssumption ==
    /\ MaxRounds \in Nat \ {0} /\ MaxCalls \in Nat \ {0}
    /\ Asks \subseteq Blocks
    /\ Others \cap (PROTECTED \cup Switching \cup FactTools) = {}
    /\ Unknown \notin Registered

\* A block, with the id the reply gives it, which is its place.
Call == [id : 1..MaxCalls, use : Asks]

Steps == {"idle", "system_prompt", "gate", "model", "tools", "finish"}
Degradations == {"empty_answer", "tool_loop_ceiling", "quota_exhausted", "model_unreachable"}
Outcomes == Degradations \cup {"none", "answer", "raised"}

VARIABLES
  off,        \* the names in tool_state
  shown,      \* the lines of facts in the system prompt of this turn
  at,         \* where the turn is
  round,      \* model calls made in this turn
  offered,    \* the declarations sent with the last model call
  asked,      \* the tool_use blocks of the round under way
  results,    \* the tool_result blocks gathered for it
  outcome,    \* how the last turn ended
  ran         \* observation: of the tool just run, whether the gate had been read
              \* and whether it was holding the tool off at that moment

context == <<facts, off, shown>>
vars == <<context, at, round, offered, asked, results, outcome, ran>>

NothingRan == [read |-> FALSE, wasOff |-> FALSE]

Init == /\ facts = NoFacts /\ off = {} /\ shown = {}
        /\ at = "idle" /\ round = 0
        /\ offered = {} /\ asked = <<>> /\ results = <<>>
        /\ outcome = "none"
        /\ ran = NothingRan

-----------------------------------------------------------------------------
\* _switched_off(): the gate, or nothing when it cannot be read.
SwitchedOff(readable) == IF readable THEN off ELSE {}

\* handle(): the message is in, and whatever the history gave.
Begin == /\ at = "idle"
         /\ at' = "system_prompt"
         /\ outcome' = "none"
         /\ UNCHANGED <<context, round, offered, asked, results, ran>>

\* _system_prompt_now(): once per turn; without the facts when they cannot be
\* read.
GatherFacts == /\ at = "system_prompt"
               /\ at' = "gate"
               /\ shown' \in {Lines, {}}
               /\ UNCHANGED <<facts, off, round, offered, asked, results, outcome, ran>>

\* A slip: rounds that are not counted.
OfferUncounted == /\ at = "gate" /\ round < MaxRounds
                  /\ \E readable \in BOOLEAN : offered' = Registered \ SwitchedOff(readable)
                  /\ at' = "model" /\ asked' = <<>> /\ results' = <<>>
                  /\ UNCHANGED <<context, round, outcome, ran>>

\* The top of the loop: the declarations minus what is off now, or the end of
\* the turn when the rounds are used up.
Offer == /\ at = "gate" /\ round < MaxRounds
         /\ \E readable \in BOOLEAN : offered' = Registered \ SwitchedOff(readable)
         /\ round' = round + 1
         /\ at' = "model" /\ asked' = <<>> /\ results' = <<>>
         /\ UNCHANGED <<context, outcome, ran>>

Ceiling == /\ at = "gate" /\ round = MaxRounds
           /\ at' = "finish"
           /\ outcome' = "tool_loop_ceiling"
           /\ UNCHANGED <<context, round, offered, asked, results, ran>>

\* The model answers, in words or with nothing to show.
ModelAnswers == /\ at = "model"
                /\ outcome' \in {"answer", "empty_answer"}
                /\ at' = "finish" /\ offered' = {}
                /\ UNCHANGED <<context, round, asked, results, ran>>

\* The retry ladder gives up, as a quota or as an outage; any other exception
\* is caught by nobody here.
ModelFails == /\ at = "model"
              /\ outcome' \in {"quota_exhausted", "model_unreachable", "raised"}
              /\ at' = "finish" /\ offered' = {}
              /\ UNCHANGED <<context, round, asked, results, ran>>

\* The model asks for tools, among them perhaps one that is off or unknown.
ModelAsks(calls) == /\ at = "model"
                    /\ asked' = calls /\ results' = <<>>
                    /\ at' = "tools" /\ offered' = {}
                    /\ UNCHANGED <<context, round, outcome, ran>>

\* What a tool does: remove_tool and enable_tool are how the set changes under a
\* turn already in flight, remember_fact and forget_fact how the facts do.
Effect(use) ==
    CASE use.tool = "remove_tool" -> off' = off \cup ({use.about} \ PROTECTED)
                                     /\ UNCHANGED facts
      [] use.tool = "enable_tool" -> off' = off \ {use.about} /\ UNCHANGED facts
      [] use.tool = "remember_fact" -> Remember(use.fact) /\ UNCHANGED off
      [] use.tool = "forget_fact" -> Forget(use.number) /\ UNCHANGED off
      [] OTHER -> UNCHANGED <<facts, off>>

\* _tool_result(): the block carries the id of the call it answers; a slip
\* would be to give each the id of the first.
ToolResultFirst(call) == [tool_use_id |-> asked[1].id]
ToolResult(call) == [tool_use_id |-> call.id]

\* The refusal at execution.  A slip: trusting what was offered.
TrustsTheOffer(tool, readable) == tool = Unknown
Refuses(tool, readable) == tool \in SwitchedOff(readable) \cup {Unknown}

\* _execute_tool(): the gate is asked again, for each call; a refusal, an
\* unknown name and an exception each still produce a result.
ExecuteTool ==
    /\ at = "tools" /\ Len(results) < Len(asked)
    /\ LET call == asked[Len(results) + 1] IN
       /\ results' = Append(results, ToolResult(call))
       /\ \E readable \in BOOLEAN :
         \/ /\ Refuses(call.use.tool, readable)
            /\ ran' = NothingRan
            /\ UNCHANGED <<facts, off>>
         \/ /\ ~Refuses(call.use.tool, readable)
            /\ ran' = [read |-> readable, wasOff |-> call.use.tool \in off]
            /\ Effect(call.use) \/ UNCHANGED <<facts, off>>
    /\ UNCHANGED <<shown, at, round, offered, asked, outcome>>

\* Every call has its result: one user message carries them back.
NextRound == /\ at = "tools" /\ Len(results) = Len(asked)
             /\ at' = "gate"
             /\ ran' = NothingRan
             /\ UNCHANGED <<context, round, offered, asked, results, outcome>>

\* handle() returns, or lets the exception through to the adapter.
Finish == /\ at = "finish"
          /\ at' = "idle" /\ round' = 0
          /\ asked' = <<>> /\ results' = <<>> /\ shown' = {}
          /\ UNCHANGED <<facts, off, offered, outcome, ran>>

-----------------------------------------------------------------------------
\* The replies the model can make: up to MaxCalls blocks, numbered in order.
Replies == UNION {{[i \in 1..n |-> [id |-> i, use |-> uses[i]]] : uses \in [1..n -> Asks]} :
                     n \in 1..MaxCalls}

TurnStep == \/ Begin \/ GatherFacts \/ Offer \/ Ceiling
            \/ ModelAnswers \/ ModelFails
            \/ \E calls \in Replies : ModelAsks(calls)
            \/ ExecuteTool \/ NextRound \/ Finish

Next == TurnStep

\* A turn that has begun is driven to its end by the event loop, and every
\* call it awaits ends in a reply, an error or a timeout.
Fairness == WF_vars(TurnStep /\ at # "idle")

Spec == Init /\ [][Next]_vars /\ Fairness

-----------------------------------------------------------------------------
\* Every variable stays in its range.
TypeOK == /\ FactsTypeOK
          /\ off \subseteq Registered
          /\ shown \subseteq [number : 1..MaxFacts, text : Texts]
          /\ at \in Steps
          /\ round \in 0..MaxRounds
          /\ offered \subseteq Registered
          /\ asked \in Seq(Call) /\ Len(asked) <= MaxCalls
          /\ results \in Seq([tool_use_id : 1..MaxCalls])
          /\ Len(results) <= MaxCalls
          /\ outcome \in Outcomes
          /\ ran \in [read : BOOLEAN, wasOff : BOOLEAN]

\* Before the model is consulted again, every tool_use of its last reply is
\* answered with one tool_result of the same id, in order: the API rejects
\* anything else, and the whole turn with it.
EveryCallAnswered ==
    at = "gate" =>
        /\ Len(results) = Len(asked)
        /\ \A i \in DOMAIN asked : results[i].tool_use_id = asked[i].id

\* "refusing at execution is what makes the gate a guarantee": no tool runs
\* while it is off, in whatever round or reply it was asked for and whatever
\* switched it off, unless the gate itself could not be read.
OffToolsStayQuiet == ran.read => ~ran.wasOff

\* The numbers in the prompt are read once, and the model forgets by them after
\* facts have come and gone in the turn: whatever is forgotten by a number the
\* model was shown is the fact it was shown under it.
NumbersStandForOneFact ==
    \A line \in shown :
        line.number \in DOMAIN facts /\ facts[line.number].text = line.text

\* Recording one more fact never takes another out of the model's sight, though
\* the space in the prompt is limited and is shared out anew at every turn.
RememberingDisplacesNothing ==
    [][DOMAIN facts' # DOMAIN facts => Lines \subseteq Lines']_vars

\* The ceiling is on model calls, and it is what ends a model that never stops
\* asking: whatever it replies, every turn ends.
TurnsEnd == at # "idle" ~> at = "idle"
=============================================================================
