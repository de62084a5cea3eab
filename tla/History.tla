------------------------------- MODULE History -------------------------------
(***************************************************************************)
(* What the model reads in a turn, and how the turn is remembered: the     *)
(* messages of Router.handle, from the stored history to the last round of *)
(* tools, in the dialect of either provider, and the two transactions      *)
(* SqliteConversationMemory makes of one append().                         *)
(*                                                                         *)
(* The INSERT is committed before the pruning begins, and the pruning is a *)
(* second transaction, so a fault or a kill between the two leaves rows    *)
(* the window should not have.  A write that finds the database locked     *)
(* leaves behind the transaction the driver had begun for it, and nobody   *)
(* rolls it back: once another connection has committed, this one reads    *)
(* what it read before and writes no more, until the process is restarted. *)
(***************************************************************************)
EXTENDS Translation

CONSTANTS MaxMessages,   \* MAX_HISTORY_MESSAGES
          MaxTurns,      \* bound: turns taken
          MaxRounds,     \* max_tool_iterations
          MaxBlocks      \* bound: calls, or blocks, in one reply

\* The configuration accepts 1 as well, which remembers nothing: every answer
\* is at the front of a window of one, and is dropped.
ASSUME HistoryAssumption ==
    /\ MaxMessages \in Nat \ {0, 1} /\ MaxTurns \in Nat
    /\ MaxRounds \in Nat \ {0} /\ MaxBlocks \in Nat

VARIABLES
  rows,       \* the committed rows of the conversation, oldest first
  conn,       \* the connection: clean, with a transaction left open, or frozen
  at,         \* where handle() is
  role,       \* whose message is being appended
  turn,       \* the turn under way, or the last one
  provider,   \* LLM_PROVIDER
  messages,   \* what the router has for the model in this turn, in its dialect
  said,       \* observation: the replies of this turn, as the provider sent them
  answered    \* observation: the turns that ended in a genuine answer

loop == <<messages, said>>
vars == <<rows, conn, at, role, turn, provider, loop, answered>>

Message == [role : {"user", "assistant"}, turn : 1..MaxTurns]
Steps == {"idle", "model", "insert", "prune"}

Init == /\ rows = <<>> /\ conn = "clean"
        /\ at = "idle" /\ role = "user"
        /\ turn = 0
        /\ provider \in {"anthropic", "groq"}
        /\ messages = <<>> /\ said = <<>>
        /\ answered = {}

-----------------------------------------------------------------------------
(* The pruning transaction.                                                *)

\* DELETE the oldest beyond MaxMessages.  A slip: one too many goes.
DropOneTooMany(s) == IF Len(s) >= MaxMessages
                     THEN SubSeq(s, Len(s) - MaxMessages + 2, Len(s)) ELSE s
DropExcess(s) == IF Len(s) > MaxMessages
                 THEN SubSeq(s, Len(s) - MaxMessages + 1, Len(s)) ELSE s

\* DELETE from the front, one by one, until the user speaks first or none is left.
FirstOfUser(s) == Min({i \in DOMAIN s : s[i].role = "user"} \cup {Len(s) + 1})
DropOrphans(s) == SubSeq(s, FirstOfUser(s), Len(s))

PruneRows(s) == DropOrphans(DropExcess(s))

-----------------------------------------------------------------------------
(* The turn.                                                               *)

\* What a provider may send: its calls get ids that no other has, and the
\* arguments are the model's own work.
Id(i) == <<Len(said) + 1, i>>
CallsOf(uses) == [i \in DOMAIN uses |-> [id |-> Id(i), arguments |-> uses[i]]]
GroqReplies ==
    [content : {Null, Prose}, finish_reason : {"stop", "tool_calls", "length"},
     tool_calls : {CallsOf(uses) : uses \in SeqOf(Arguments, MaxBlocks)}]
AnthropicBlocks(s) == [i \in DOMAIN s |->
    CASE s[i] = "text" -> Text(Prose)
      [] s[i] = "thinking" -> [type |-> "thinking"]
      [] OTHER -> [type |-> "tool_use", id |-> Id(i), input |-> s[i]]]
AnthropicReplies ==
    [content : {AnthropicBlocks(s) : s \in SeqOf({"text", "thinking"} \cup Arguments, MaxBlocks)},
     stop_reason : {"end_turn", "tool_use", "max_tokens"}]

Replies == IF provider = "groq" THEN GroqReplies ELSE AnthropicReplies
Response(raw) == IF provider = "groq" THEN from_groq_message(raw, raw.finish_reason)
                                      ELSE to_response(raw)
WantsTools(response) == response.stop_reason = "tool_use" /\ tool_uses(response) # <<>>

\* handle(): the history is read, or is not and the turn goes on without it;
\* the rows are as they were.
Begin == /\ at = "idle" /\ turn < MaxTurns
         /\ turn' = turn + 1
         /\ at' = "model"
         /\ \E history \in {rows, <<>>} :
               messages' = Append([i \in DOMAIN history |-> [role |-> history[i].role, content |-> Prose]],
                                  [role |-> "user", content |-> Prose])
         /\ UNCHANGED <<rows, conn, role, provider, said, answered>>

\* A round of the loop: the reply replayed, and one result for each call in it.
RunTools(raw) ==
    /\ at = "model" /\ Len(said) < MaxRounds
    /\ WantsTools(Response(raw))
    /\ messages' = messages \o
          <<to_assistant_message(Response(raw)),
            [role |-> "user", blocks |-> Mapped(LAMBDA b : ToolResult(b.id), tool_uses(Response(raw)))]>>
    /\ said' = Append(said, raw)
    /\ UNCHANGED <<rows, conn, at, role, turn, provider, answered>>

\* "A degraded turn is not worth remembering": the model fails, has no words, or
\* has used up the rounds.
Degrade == /\ at = "model"
           /\ at' = "idle"
           /\ messages' = <<>> /\ said' = <<>>
           /\ UNCHANGED <<rows, conn, role, turn, provider, answered>>

Answer(raw) == /\ at = "model" /\ Len(said) < MaxRounds
               /\ ~WantsTools(Response(raw)) /\ HasText(Response(raw))
               /\ at' = "insert" /\ role' = "user"
               /\ messages' = <<>> /\ said' = <<>>
               /\ answered' = answered \cup {turn}
               /\ UNCHANGED <<rows, conn, turn, provider>>

-----------------------------------------------------------------------------
(* What is remembered of it.                                               *)

\* append(): the row, committed, and with it what had been left open.
Insert == /\ at = "insert" /\ conn # "frozen"
          /\ rows' = Append(rows, [role |-> role, turn |-> turn])
          /\ conn' = "clean"
          /\ at' = "prune"
          /\ UNCHANGED <<role, turn, provider, loop, answered>>

\* append(): the window, in a transaction of its own; then the answer's turn.
Prune == /\ at = "prune"
         /\ rows' = PruneRows(rows) /\ UNCHANGED conn
         /\ at' = IF role = "user" THEN "insert" ELSE "idle"
         /\ role' = "assistant"
         /\ UNCHANGED <<turn, provider, loop, answered>>

\* A slip: each append in a try of its own.
StoreFailsOnce == /\ at \notin {"idle", "model"}
                  /\ conn' = IF conn = "clean" THEN "open" ELSE conn
                  /\ at' = IF role = "user" THEN "insert" ELSE "idle"
                  /\ role' = "assistant"
                  /\ UNCHANGED <<rows, turn, provider, loop, answered>>

\* The store fails: "the answer was delivered but not remembered".  One try
\* covers both appends, so what is left of them is not attempted.
StoreFails == /\ at \notin {"idle", "model"}
              /\ conn' = IF conn = "clean" THEN "open" ELSE conn
              /\ at' = "idle"
              /\ UNCHANGED <<rows, role, turn, provider, loop, answered>>

\* Another store or the script commits, after this connection has read.
Overtaken == /\ conn = "open"
             /\ conn' = "frozen"
             /\ UNCHANGED <<rows, at, role, turn, provider, loop, answered>>

\* The process ends, by itself or killed, and starts again on what was committed.
Crash == /\ at' = "idle" /\ conn' = "clean"
         /\ messages' = <<>> /\ said' = <<>>
         /\ UNCHANGED <<rows, role, turn, provider, answered>>

Next == \/ Begin \/ Degrade
        \/ \E raw \in Replies : RunTools(raw) \/ Answer(raw)
        \/ Insert \/ Prune
        \/ StoreFails \/ Overtaken \/ Crash

Spec == Init /\ [][Next]_vars

-----------------------------------------------------------------------------
\* Every variable stays in its range.
TypeOK == /\ rows \in Seq(Message) /\ conn \in {"clean", "open", "frozen"}
          /\ at \in Steps /\ role \in {"user", "assistant"}
          /\ turn \in 0..MaxTurns
          /\ answered \subseteq 1..MaxTurns

\* Every request is one the API accepts, in either dialect, whatever the table
\* was left with and whatever the model replied in the rounds before.
RequestsAreWellFormed ==
    at = "model" => IF provider = "groq" THEN GroqAccepts(to_groq_messages(messages))
                                         ELSE AnthropicAccepts(messages)

\* What the model finds of its own replies in this turn is what it said, reply by
\* reply: the same prose, the same calls in the same order, and the very arguments
\* each was made with.  The replay is not the "verbatim" one that LLMResponse and
\* the router speak of: arguments that are no object come back as an empty one, and
\* blocks that are neither prose nor a call do not come back.
RepliesAreReplayed ==
    at = "model" =>
        LET loop_messages == SubSeq(messages, Len(messages) - 2 * Len(said) + 1, Len(messages))
            sent == IF provider = "groq" THEN Tail(to_groq_messages(loop_messages))
                                         ELSE loop_messages
            heard == Those(sent, {m \in ToSet(sent) : m.role = "assistant"})
        IN /\ Len(heard) = Len(said)
           /\ \A i \in DOMAIN said :
                 IF provider = "groq"
                 THEN Echoes(GroqContents(heard[i]), GroqContents(said[i]))
                 ELSE Echoes(AnthropicContents(heard[i].blocks), AnthropicContents(said[i].content))

\* An answer is never remembered under a question it does not answer, nor a
\* turn remembered that only apologised, whatever failed in between.
AnswersFollowTheirQuestions ==
    /\ \A i \in DOMAIN rows : rows[i].turn \in answered
    /\ \A i \in DOMAIN rows :
          rows[i].role = "assistant" /\ i > 1 =>
              rows[i - 1] = [role |-> "user", turn |-> rows[i].turn]

\* Whatever pruning a fault or a crash has put off, the table amounts to the
\* window the in-memory store would have kept: late pruning loses nothing the
\* window had and brings back nothing it had dropped.
Window == INSTANCE Window WITH Messages <- Message, window <- PruneRows(rows)
ImplementsWindow == Window!Spec
=============================================================================
