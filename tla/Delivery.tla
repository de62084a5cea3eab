------------------------------- MODULE Delivery -------------------------------
(***************************************************************************)
(* One update through the Telegram adapter (adapters/telegram.py): the     *)
(* whitelist, the router, the chunks of the answer sent one by one with    *)
(* retries, and the error handler behind it all.                           *)
(*                                                                         *)
(* Updates are handled one at a time.  A call to Telegram may succeed, be  *)
(* refused for good, or time out: the adapter gives up waiting, but the    *)
(* request is still under way and may reach the chat at any moment after   *)
(* that, once later chunks were sent or the turn is over, or never.  Once  *)
(* the answer is split, its chunks are known by their number; the apology  *)
(* of the error handler is chunk 0.                                        *)
(***************************************************************************)
EXTENDS SplitMessage

CONSTANT DEFAULT_SEND_ATTEMPTS

ASSUME DeliveryAssumption == DEFAULT_SEND_ATTEMPTS \in Nat \ {0}

VARIABLES
  at,         \* where the handler is
  from,       \* who wrote
  chunks,     \* how many chunks the answer was split into
  chunk,      \* the one being sent
  attempt,
  delivered,  \* sends that returned True
  logged,     \* what the log says became of the update
  phone,      \* observation: what the chat received, in order
  flight,     \* requests for each chunk that nobody waits for any more
  tries,      \* observation: calls made for each chunk
  confirmed,  \* observation: the chunks a call for which returned
  refused     \* observation: the chunks Telegram refused for good

sent == <<phone, flight, tries, confirmed, refused>>
handling == <<from, chunks, chunk, attempt, delivered, logged, sent>>
vars == <<at, handling, splitVars>>

Fallback == 0
Untried(n) == [c \in Fallback..n |-> 0]

Init == /\ at = "idle" /\ from = "user"
        /\ chunks = 0 /\ chunk = Fallback /\ attempt = 1
        /\ delivered = 0 /\ logged = "none"
        /\ phone = <<>> /\ flight = Untried(0) /\ tries = Untried(0)
        /\ confirmed = {} /\ refused = {}
        /\ text = <<>> /\ remaining = <<>> /\ pieces = <<>> /\ split = FALSE

-----------------------------------------------------------------------------
\* An update reaches the handlers.
Incoming(who) == /\ at = "idle" /\ logged = "none"
                 /\ from' = who
                 /\ at' = "handler"
                 /\ UNCHANGED <<chunks, chunk, attempt, delivered, logged, sent, splitVars>>

\* _on_text_message(), up to the whitelist.
Ignore == /\ at = "handler" /\ from = "stranger"
          /\ at' = "idle" /\ logged' = "ignored"
          /\ UNCHANGED <<from, chunks, chunk, attempt, delivered, sent, splitVars>>

\* The typing indicator, whatever comes of it, and the router's answer ...
Consult == /\ at = "handler" /\ from = "user"
           /\ at' = "split"
           /\ \E n \in 1..MaxLength : text' \in Answers(n)
           /\ remaining' = text'
           /\ UNCHANGED <<handling, pieces, split>>

\* ... which is cut into chunks ...
Split == /\ at = "split"
         /\ SplitNext
         /\ UNCHANGED <<at, handling>>

\* ... that are then sent one by one.
StartSending == /\ at = "split" /\ split
                /\ at' = "send"
                /\ chunks' = Len(pieces) /\ chunk' = 1 /\ attempt' = 1
                /\ text' = <<>> /\ remaining' = <<>> /\ pieces' = <<>> /\ split' = FALSE
                /\ flight' = Untried(chunks') /\ tries' = Untried(chunks')
                /\ UNCHANGED <<from, delivered, logged, phone, confirmed, refused>>

\* Something raises that nobody foresaw, before or after the whitelist:
\* _on_error() logs it and apologises, to the whitelisted user alone.
Break == /\ at = "handler"
         /\ logged' = "error"
         /\ IF from = "user"
            THEN at' = "send" /\ chunks' = 0 /\ chunk' = Fallback /\ attempt' = 1
            ELSE at' = "idle" /\ UNCHANGED <<chunks, chunk, attempt>>
         /\ UNCHANGED <<from, delivered, sent, splitVars>>

-----------------------------------------------------------------------------
(* _send(): one chunk, up to DEFAULT_SEND_ATTEMPTS calls.                  *)

\* What is counted as delivered, and which chunk is next.  A slip: to give up at
\* the first loss.
Count(ok) == IF ok /\ chunk # Fallback THEN delivered + 1 ELSE delivered
NextUnlessLost(ok) == IF ok THEN chunk + 1 ELSE chunks + 1
NextChunk(ok) == chunk + 1

\* It returns: the loop over the chunks counts it and goes on, or reports.
Report(n) == IF n = 0 THEN "never_delivered" ELSE "answered"
Return(ok) ==
    /\ delivered' = Count(ok)
    /\ IF NextChunk(ok) <= chunks
       THEN chunk' = NextChunk(ok) /\ attempt' = 1 /\ UNCHANGED <<at, logged>>
       ELSE /\ at' = "idle"
            /\ logged' = IF chunk = Fallback THEN logged ELSE Report(delivered')
            /\ UNCHANGED <<chunk, attempt>>

Try == /\ at = "send"
       /\ tries' = [tries EXCEPT ![chunk] = @ + 1]
       /\ UNCHANGED <<from, chunks, splitVars>>

Succeeds == /\ confirmed' = confirmed \cup {chunk}
            /\ Return(TRUE)
            /\ UNCHANGED <<flight, refused>>

SendSucceeds == /\ Try
                /\ phone' = Append(phone, chunk)
                /\ Succeeds

\* A slip: a call that timed out taken for one that arrived.
TimeoutTakenForSuccess == Try /\ UNCHANGED phone /\ Succeeds

\* TimedOut or NetworkError: nobody waits for the request any more.
SendFails == /\ Try
             /\ flight' = [flight EXCEPT ![chunk] = @ + 1]
             /\ IF attempt < DEFAULT_SEND_ATTEMPTS
                THEN attempt' = attempt + 1 /\ UNCHANGED <<at, chunk, delivered, logged>>
                ELSE Return(FALSE)
             /\ UNCHANGED <<phone, confirmed, refused>>

\* Telegram: such a request arrives all the same, whatever is sent or done by then.
Lands(c) == /\ flight[c] > 0
            /\ flight' = [flight EXCEPT ![c] = @ - 1]
            /\ phone' = Append(phone, c)
            /\ UNCHANGED <<at, from, chunks, chunk, attempt, delivered, logged,
                           tries, confirmed, refused, splitVars>>

\* BadRequest, caught before the NetworkError it inherits from, or any other
\* exception: the same refusal would come back each time.
SendRefused == /\ Try
               /\ refused' = refused \cup {chunk}
               /\ Return(FALSE)
               /\ UNCHANGED <<phone, flight, confirmed>>

\* The process is killed; what was pending is dropped at the restart.
Kill == /\ at # "idle"
        /\ at' = "idle" /\ logged' = "killed"
        /\ UNCHANGED <<from, chunks, chunk, attempt, delivered, sent, splitVars>>

Next == \/ \E who \in {"user", "stranger"} : Incoming(who)
        \/ Ignore
        \/ Consult
        \/ Split \/ StartSending
        \/ Break
        \/ SendSucceeds \/ SendFails \/ SendRefused
        \/ \E c \in Fallback..chunks : Lands(c)
        \/ Kill

Spec == Init /\ [][Next]_vars

-----------------------------------------------------------------------------
\* Every variable stays in its range.
TypeOK == /\ at \in {"idle", "handler", "split", "send"}
          /\ from \in {"user", "stranger"}
          /\ chunks \in Nat /\ chunk \in Fallback..chunks
          /\ attempt \in 1..DEFAULT_SEND_ATTEMPTS
          /\ delivered \in 0..chunks
          /\ logged \in {"none", "ignored", "answered", "never_delivered", "error", "killed"}
          /\ phone \in Seq(Fallback..chunks)
          /\ flight \in [Fallback..chunks -> Nat]
          /\ tries \in [Fallback..chunks -> Nat]
          /\ confirmed \subseteq Fallback..chunks
          /\ refused \subseteq Fallback..chunks
          /\ SplitTypeOK

\* What _send() calls delivered can be read in its place: the chat shows the chunk,
\* with none of a later part above it, whatever else times out, is sent again or
\* turns up long after.  (Only a chunk none of whose calls returned may turn up
\* below a later one: nothing waits for a request that was given up.)
ChunksReadInOrder ==
    \A c \in confirmed : \E i \in DOMAIN phone :
        phone[i] = c /\ \A j \in 1..i : phone[j] <= c

\* "one lost chunk should not discard the ones that did arrive": a turn that
\* ends by itself has tried every chunk, and stopped short of the attempts only
\* at one that was delivered or refused for good.
EveryChunkIsTried ==
    logged \in {"answered", "never_delivered"} =>
        \A c \in 1..chunks : /\ tries[c] > 0
                             /\ \/ c \in confirmed \cup refused
                                \/ tries[c] = DEFAULT_SEND_ATTEMPTS
==============================================================================
