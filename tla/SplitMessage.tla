----------------------------- MODULE SplitMessage -----------------------------
(***************************************************************************)
(* _split_message() of adapters/telegram.py, one pass of its loop a step,  *)
(* for the adapter that goes on to send what it returns (Delivery).        *)
(*                                                                         *)
(* A text is a sequence of characters: those that can be seen, each one    *)
(* like itself only, and the two kinds of blank that the cuts tell apart.  *)
(***************************************************************************)
EXTENDS Integers, Sequences, FiniteSetsExt, SequencesExt, Subsequence

CONSTANTS Letters,             \* the characters that can be seen
          MaxLength,           \* bound: characters in an answer
          MAX_MESSAGE_LENGTH   \* in code points, as Python counts

ASSUME SplitAssumption == /\ Letters \cap {"space", "newline"} = {}
                          /\ MaxLength \in Nat /\ MAX_MESSAGE_LENGTH \in Nat \ {0}

VARIABLES text, remaining,
          pieces,    \* the chunks cut so far
          split      \* the loop is over
splitVars == <<text, remaining, pieces, split>>

Char == Letters \cup {"space", "newline"}

\* What can be seen of a text, in order.
Ink(s) == Those(s, Letters)

\* The answers of n characters the router may return: not empty, and stripped.
Answers(n) == {s \in [1..n -> Char] : s[1] \in Letters /\ s[n] \in Letters}

-----------------------------------------------------------------------------
Prefix(s, n) == SubSeq(s, 1, n)
From(s, n) == SubSeq(s, n + 1, Len(s))

\* str.rstrip() and str.rfind("\n"), which counts from 0.
rstrip(s) == Prefix(s, Max({0} \cup {i \in DOMAIN s : s[i] \in Letters}))
rfind(s) == Max({-1} \cup {i - 1 : i \in {j \in DOMAIN s : s[j] = "newline"}})

\* On the second newline of a blank line, the cut steps back one.
Cut(s) == LET cut == rfind(s) IN
          IF cut > 0 /\ s[cut] = "newline" THEN cut - 1 ELSE cut

\* Two slips: a character skipped as if it were the newline, and a cut that
\* does not look for one.
HardCutSkips == LET window == Prefix(remaining, MAX_MESSAGE_LENGTH) IN
                /\ Len(remaining) > MAX_MESSAGE_LENGTH
                /\ rfind(window) < MAX_MESSAGE_LENGTH \div 2
                /\ pieces' = Append(pieces, rstrip(window))
                /\ remaining' = From(remaining, MAX_MESSAGE_LENGTH + 1)
                /\ UNCHANGED <<text, split>>
HardCutAlways == /\ Len(remaining) > MAX_MESSAGE_LENGTH
                 /\ pieces' = Append(pieces, rstrip(Prefix(remaining, MAX_MESSAGE_LENGTH)))
                 /\ remaining' = From(remaining, MAX_MESSAGE_LENGTH)
                 /\ UNCHANGED <<text, split>>

HardCut == LET window == Prefix(remaining, MAX_MESSAGE_LENGTH) IN
           /\ Len(remaining) > MAX_MESSAGE_LENGTH
           /\ rfind(window) < MAX_MESSAGE_LENGTH \div 2
           /\ pieces' = Append(pieces, rstrip(window))
           /\ remaining' = From(remaining, MAX_MESSAGE_LENGTH)
           /\ UNCHANGED <<text, split>>

CutAtNewline == LET window == Prefix(remaining, MAX_MESSAGE_LENGTH) IN
                /\ Len(remaining) > MAX_MESSAGE_LENGTH
                /\ rfind(window) >= MAX_MESSAGE_LENGTH \div 2
                /\ pieces' = Append(pieces, rstrip(Prefix(remaining, Cut(window))))
                /\ remaining' = From(remaining, Cut(window) + 1)
                /\ UNCHANGED <<text, split>>

Rest == /\ ~split /\ Len(remaining) <= MAX_MESSAGE_LENGTH
        /\ pieces' = Append(pieces, remaining)
        /\ split' = TRUE
        /\ UNCHANGED <<text, remaining>>

SplitNext == HardCut \/ CutAtNewline \/ Rest

-----------------------------------------------------------------------------
\* Every variable stays in its range, and every chunk within the limit.
SplitTypeOK == /\ text \in Seq(Char) /\ remaining \in Seq(Char)
               /\ pieces \in Seq(Seq(Char)) /\ split \in BOOLEAN
               /\ \A i \in DOMAIN pieces : Len(pieces[i]) <= MAX_MESSAGE_LENGTH

\* No visible character the assistant wrote is lost, repeated or moved by the cuts,
\* wherever the blanks around them stand.  (Which blanks go with a cut is not told.)
NothingWrittenIsLost ==
    Ink(FlattenSeq(pieces)) \o (IF split THEN <<>> ELSE Ink(remaining)) = Ink(text)

\* "paragraphs and code blocks are not cut mid-line whenever avoidable": when
\* a chunk gives way to the next inside a line, no earlier newline would have
\* made a chunk of at least half the limit.
LinesCutOnlyWhenUnavoidable ==
    [][/\ Len(pieces') > Len(pieces) /\ Len(remaining') < Len(remaining)
       /\ remaining[Len(remaining) - Len(remaining')] # "newline"
       => \A i \in (1 + MAX_MESSAGE_LENGTH \div 2)..MAX_MESSAGE_LENGTH :
             remaining[i] # "newline"]_splitVars
=============================================================================
