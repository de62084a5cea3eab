------------------------------ MODULE ModelCall ------------------------------
(***************************************************************************)
(* One call to the language model: the retry ladder of core/llm.py with    *)
(* the policy of core/retry.py under it, and what the router's handle()    *)
(* makes of the way it ends.                                               *)
(*                                                                         *)
(* The provider is consistent: a rate limit it has begun lasts until a     *)
(* moment it knows, and it tells the time left in the retry-after header,  *)
(* unless the header is missing or carries a date, which the code reads as *)
(* no advice.  Time is in units of Backoff, and a call takes some of it.   *)
(***************************************************************************)
EXTENDS Integers

CONSTANTS MaxAttempts,   \* attempts in total, the first one included
          Backoff,       \* the pause before the second attempt
          CallTime,      \* bound: the longest a call takes
          LongestLimit   \* bound: the longest rate limit

ASSUME ModelCallAssumption ==
    /\ MaxAttempts \in Nat \ {0} /\ Backoff \in Nat
    /\ CallTime \in Nat /\ LongestLimit \in Nat

VARIABLES
  ladder,      \* where the ladder is
  attempt,
  last_error,  \* the failure it remembers
  outcome,     \* what handle() is left with
  now,
  clears,      \* when the provider's rate limit clears
  said,        \* observation: what the last call met
  advice,      \* observation: the wait the last call was told, or None
  callEnded    \* observation: when the last call ended

callVars == <<ladder, attempt, last_error, outcome, now, clears, said, advice, callEnded>>

None == -1
Transient == {"connection", "rate_limit", "server"}
Failures == Transient \cup {"rejected", "sdk", "foreign"}

CallInit == /\ ladder = "call" /\ attempt = 1
            /\ last_error = "none" /\ outcome = "none"
            /\ now = 0 /\ clears = 0
            /\ said = "none" /\ advice = None /\ callEnded = 0

\* The next call to complete() remembers nothing of the last one.
Afresh == /\ ladder' = "call" /\ attempt' = 1
          /\ last_error' = "none" /\ outcome' = "none"
          /\ now' = 0 /\ clears' = 0
          /\ said' = "none" /\ advice' = None /\ callEnded' = 0

-----------------------------------------------------------------------------
(* core/retry.py                                                           *)

\* Backoff, doubled with each attempt after the first.
backoff_delay(n) ==
    LET doubled[i \in 0..MaxAttempts] == IF i = 0 THEN Backoff ELSE 2 * doubled[i - 1]
    IN doubled[n - 1]

\* The sum of the pauses still to come, from the last one back.
remaining_backoff(n) ==
    LET last[k \in 0..(MaxAttempts - 1)] ==
            IF k = 0 THEN 0 ELSE last[k - 1] + backoff_delay(MaxAttempts - k)
    IN last[MaxAttempts - n]

pause_before_retry(n) == IF n < MaxAttempts THEN backoff_delay(n) ELSE 0

-----------------------------------------------------------------------------
(* One attempt.                                                            *)

\* The call returns or raises, some time later.
CallEnds(what) == /\ ladder = "call"
                  /\ now' \in now..(now + CallTime)
                  /\ callEnded' = now'
                  /\ said' = what

Fails(what) == CallEnds(what) /\ advice' = None /\ UNCHANGED <<attempt, clears>>

Over(result) == ladder' = "done" /\ outcome' = result

\* A reply, which complete() translates; one without the parts it reads makes
\* it raise instead.
Replies == /\ CallEnds("reply")
           /\ clears <= now'
           /\ \E result \in {"response", "raised"} : Over(result)
           /\ advice' = None
           /\ UNCHANGED <<attempt, last_error, clears>>

\* A connection failure or a 5xx: remembered, and tried again.
FailsTransiently(what) == /\ Fails(what)
                          /\ last_error' = what
                          /\ ladder' = "pause"
                          /\ UNCHANGED outcome

\* _check_rate_limit(): refused at once when the wait asked for is longer than
\* the pauses to come.
\* Two slips: the boundary refused, and every limit waited for.
WorthWaitingStrict(told) == told = None \/ told < remaining_backoff(attempt)
WorthWaitingAlways(told) == TRUE
WorthWaiting(told) == told = None \/ told <= remaining_backoff(attempt)

RateLimited ==
    /\ CallEnds("rate_limit")
    /\ clears' \in IF clears > now' THEN {clears} ELSE (now' + 1)..(now' + LongestLimit)
    /\ advice' \in {None, clears' - now'}
    /\ IF WorthWaiting(advice')
       THEN ladder' = "pause" /\ last_error' = "rate_limit" /\ UNCHANGED outcome
       ELSE Over("quota") /\ UNCHANGED last_error
    /\ UNCHANGED attempt

\* A 4xx, or another error of the SDK: not retried.
FailsPermanently(what) == /\ Fails(what)
                          /\ Over("unavailable")
                          /\ UNCHANGED last_error

\* An exception that is not the SDK's passes through every clause.
Escapes == /\ Fails("foreign")
           /\ Over("raised")
           /\ UNCHANGED last_error

\* _exhausted(): a limit that survived is named.
Exhausted == IF last_error = "rate_limit" THEN "quota" ELSE "unavailable"

\* pause_before_retry(), then the next attempt, or _exhausted().
Pause == /\ ladder = "pause"
         /\ now' = now + pause_before_retry(attempt)
         /\ IF attempt < MaxAttempts
            THEN ladder' = "call" /\ attempt' = attempt + 1 /\ UNCHANGED outcome
            ELSE Over(Exhausted) /\ UNCHANGED attempt
         /\ UNCHANGED <<last_error, clears, said, advice, callEnded>>

CallNext == \/ Replies
            \/ FailsTransiently("connection")
            \/ FailsTransiently("server")
            \/ RateLimited
            \/ FailsPermanently("rejected")
            \/ FailsPermanently("sdk")
            \/ Escapes
            \/ Pause

-----------------------------------------------------------------------------
\* Every variable stays in its range.
CallTypeOK == /\ ladder \in {"call", "pause", "done"}
              /\ attempt \in 1..MaxAttempts
              /\ last_error \in {"none"} \cup Transient
              /\ outcome \in {"none", "response", "quota", "unavailable", "raised"}
              /\ now \in Nat /\ clears \in Nat /\ callEnded \in 0..now
              /\ said \in {"none", "reply"} \cup Failures
              /\ advice \in {None} \cup Nat

\* The pauses left after attempt n, in closed form: each is what the next one
\* exceeds it by.
Left(n) == backoff_delay(MaxAttempts) - backoff_delay(n)

\* A limit the schedule could have waited out is never refused: there is no
\* later attempt that would have found it cleared.
RefusedOnlyWhenHopeless ==
    outcome = "quota" => clears > callEnded + Left(attempt)

\* No attempt is spent on a limit the provider said would outlast them all.
NoFutileAttempt ==
    [][attempt' > attempt /\ said = "rate_limit" =>
          advice = None \/ clears <= callEnded + Left(attempt)]_callVars
=============================================================================
