---------------------------- MODULE DeliveryProofs ----------------------------
(***************************************************************************)
(* An answer is cut so that all of it is in its chunks, in order, and every *)
(* chunk is tried and, if delivered, read in its place, for any characters, *)
(* any limit on the length of a chunk and any number of attempts.          *)
(***************************************************************************)
EXTENDS Delivery, Induction

-----------------------------------------------------------------------------
(* What can be seen of a text.                                             *)

LEMMA InkIsLetters == \A s \in Seq(Char) : Ink(s) \in Seq(Letters)
<1> SUFFICES ASSUME NEW s \in Seq(Char) PROVE Ink(s) \in Seq(Letters)
  OBVIOUS
<1>1. Ink(s) \in Seq(Char \cap Letters) /\ Char \cap Letters \subseteq Letters
  BY ThoseAreSome DEF Ink
<1> QED BY <1>1, SeqMonotonic

\* Nothing is seen of blanks.
LEMMA InkOfBlanks ==
    ASSUME NEW s \in Seq(Char), \A i \in 1..Len(s) : s[i] \notin Letters
    PROVE  Ink(s) = <<>>
  BY ThoseOfNone DEF Ink

LEMMA JoinsOfLetters ==
    \A u, v, w \in Seq(Letters) : (u \o v) \o w = u \o (v \o w)
  BY ConcatAssociative

LEMMA InkOfNothing == <<>> \in Seq(Char) /\ Ink(<<>>) = <<>>
  BY ThoseOfNothing DEF Ink

\* What is seen of two texts, one after the other, is seen of them together.
LEMMA InkOfBoth ==
    ASSUME NEW s \in Seq(Char), NEW t \in Seq(Char)
    PROVE  Ink(s \o t) = Ink(s) \o Ink(t)
  BY ThoseOfBoth DEF Ink

-----------------------------------------------------------------------------
(* The cuts.                                                               *)

LEMMA GreatestIs ==
    ASSUME NEW S, S \subseteq Int, NEW x \in S, \A y \in S : y <= x
    PROVE  Max(S) = x
<1>1. \A y \in S : x >= y
  OBVIOUS
<1>2. \A z \in S : (\A y \in S : z >= y) => z = x
  OBVIOUS
<1> QED BY <1>1, <1>2 DEF Max

\* A text in two parts.
LEMMA PartsOf ==
    ASSUME NEW s \in Seq(Char), NEW n \in 0..Len(s)
    PROVE  /\ Prefix(s, n) \in Seq(Char) /\ Len(Prefix(s, n)) = n
           /\ From(s, n) \in Seq(Char) /\ Len(From(s, n)) = Len(s) - n
           /\ \A i \in 1..n : Prefix(s, n)[i] = s[i]
           /\ \A i \in 1..(Len(s) - n) : From(s, n)[i] = s[n + i]
           /\ Ink(s) = Ink(Prefix(s, n)) \o Ink(From(s, n))
<1>1. Len(s) \in Nat /\ \A i \in 1..Len(s) : s[i] \in Char
  OBVIOUS
<1>2. /\ Prefix(s, n) \in Seq(Char) /\ Len(Prefix(s, n)) = n
      /\ \A i \in 1..n : Prefix(s, n)[i] = s[i]
  BY <1>1 DEF Prefix
<1>3. /\ From(s, n) \in Seq(Char) /\ Len(From(s, n)) = Len(s) - n
      /\ \A i \in 1..(Len(s) - n) : From(s, n)[i] = s[n + i]
  BY <1>1 DEF From
<1>4. Prefix(s, n) \o From(s, n) = s
  <2>1. 1 \in 1..(Len(s) + 1) /\ n \in (1 - 1)..Len(s) /\ Len(s) \in n..Len(s)
    BY <1>1
  <2>2. SubSeq(s, 1, n) \o SubSeq(s, n + 1, Len(s)) = SubSeq(s, 1, Len(s))
    BY <2>1, ConcatAdjacentSubSeq
  <2>3. SubSeq(s, 1, Len(s)) = s
    BY SubSeqFull
  <2> QED BY <2>2, <2>3 DEF Prefix, From
<1>5. Ink(Prefix(s, n) \o From(s, n)) = Ink(Prefix(s, n)) \o Ink(From(s, n))
  BY <1>2, <1>3, InkOfBoth
<1> QED BY <1>2, <1>3, <1>4, <1>5

\* What rstrip() takes off cannot be seen.
LEMMA InkOfStripped ==
    ASSUME NEW s \in Seq(Char)
    PROVE  rstrip(s) \in Seq(Char) /\ Ink(rstrip(s)) = Ink(s)
<1> DEFINE T == {0} \cup {i \in DOMAIN s : s[i] \in Letters}
<1>1. DOMAIN s = 1..Len(s) /\ Len(s) \in Nat
  OBVIOUS
<1>2. PICK k \in T : \A y \in T : y <= k
  <2>1. T \subseteq Nat /\ T # {} /\ \A y \in T : y <= Len(s)
    BY <1>1
  <2> HIDE DEF T
  <2> QED BY <1>1, <2>1, GreatestElement
<1>3. Max(T) = k
  <2>1. T \subseteq Int
    BY <1>1
  <2> HIDE DEF T
  <2> QED BY <1>2, <2>1, GreatestIs
<1>4. k \in 0..Len(s) /\ \A i \in 1..(Len(s) - k) : s[k + i] \notin Letters
  <2>1. k \in 0..Len(s)
    BY <1>1
  <2>2. ASSUME NEW i \in 1..(Len(s) - k), s[k + i] \in Letters PROVE FALSE
    <3>1. k + i \in 1..Len(s) /\ ~(k + i <= k)
      BY <1>1, <2>1
    <3>2. k + i \in T
      BY <1>1, <2>2, <3>1
    <3> QED BY <1>2, <3>1, <3>2
  <2> QED BY <2>1, <2>2
<1>5. rstrip(s) = Prefix(s, k)
  BY <1>3 DEF rstrip
<1> HIDE DEF T
<1>6. Ink(From(s, k)) = <<>>
  <2>1. /\ From(s, k) \in Seq(Char) /\ Len(From(s, k)) = Len(s) - k
        /\ \A i \in 1..(Len(s) - k) : From(s, k)[i] = s[k + i]
    BY <1>4, PartsOf
  <2> QED BY <1>4, <2>1, InkOfBlanks
<1>7. Ink(Prefix(s, k)) \in Seq(Letters) /\ Ink(s) = Ink(Prefix(s, k)) \o Ink(From(s, k))
  BY <1>4, PartsOf, InkIsLetters
<1>8. Ink(Prefix(s, k)) \o <<>> = Ink(Prefix(s, k))
  BY <1>7, ConcatEmptySeq
<1> QED BY <1>4, <1>5, <1>6, <1>7, <1>8, PartsOf

\* A cut at any place loses nothing ...
LEMMA CutLosesNothing ==
    ASSUME NEW s \in Seq(Char), NEW n \in 0..Len(s)
    PROVE  /\ rstrip(Prefix(s, n)) \in Seq(Char) /\ From(s, n) \in Seq(Char)
           /\ Ink(rstrip(Prefix(s, n))) \o Ink(From(s, n)) = Ink(s)
  BY PartsOf, InkOfStripped

\* ... nor does one that skips a newline.
LEMMA NewlineLosesNothing ==
    ASSUME NEW s \in Seq(Char), NEW n \in 0..(Len(s) - 1), s[n + 1] = "newline"
    PROVE  /\ rstrip(Prefix(s, n)) \in Seq(Char) /\ From(s, n + 1) \in Seq(Char)
           /\ Ink(rstrip(Prefix(s, n))) \o Ink(From(s, n + 1)) = Ink(s)
<1>1. Len(s) \in Nat /\ n \in 0..Len(s) /\ n + 1 \in 0..Len(s) /\ 1 \in 0..(Len(s) - n)
  OBVIOUS
<1> DEFINE t == From(s, n)
<1>2. t \in Seq(Char) /\ Len(t) = Len(s) - n /\ t[1] = "newline"
      /\ \A i \in 1..(Len(s) - n) : t[i] = s[n + i]
  <2>1. 1 \in 1..(Len(s) - n)
    BY <1>1
  <2> QED BY <1>1, <2>1, PartsOf
<1> HIDE DEF t
<1>7. 1 \in 0..Len(t) /\ 1 \in 1..1
  BY <1>1, <1>2
<1>3. Ink(Prefix(t, 1)) = <<>>
  <2>1. Prefix(t, 1) \in Seq(Char) /\ Len(Prefix(t, 1)) = 1 /\ Prefix(t, 1)[1] = "newline"
    BY <1>2, <1>7, PartsOf
  <2> QED BY <2>1, InkOfBlanks, SplitAssumption
<1>4. Ink(t) = Ink(Prefix(t, 1)) \o Ink(From(t, 1))
      /\ From(t, 1) \in Seq(Char)
  BY <1>2, <1>7, PartsOf
<1>5. Ink(t) = Ink(From(t, 1))
  BY <1>3, <1>4, InkIsLetters, ConcatEmptySeq
<1>6. From(t, 1) = From(s, n + 1)
  <2> DEFINE a == From(t, 1)
             b == From(s, n + 1)
  <2>1. a \in Seq(Char) /\ Len(a) = Len(t) - 1 /\ \A i \in 1..(Len(t) - 1) : a[i] = t[1 + i]
    BY <1>2, <1>7, PartsOf
  <2>2. /\ b \in Seq(Char) /\ Len(b) = Len(s) - (n + 1)
        /\ \A i \in 1..(Len(s) - (n + 1)) : b[i] = s[(n + 1) + i]
    BY <1>1, PartsOf
  <2> HIDE DEF a, b
  <2>3. Len(a) = Len(b)
    BY <1>1, <1>2, <2>1, <2>2
  <2>4. ASSUME NEW i \in 1..Len(a) PROVE a[i] = b[i]
    <3>1. /\ i \in 1..(Len(t) - 1) /\ i \in 1..(Len(s) - (n + 1))
          /\ 1 + i \in 1..(Len(s) - n) /\ n + (1 + i) = (n + 1) + i
      BY <1>1, <1>2, <2>1
    <3> QED BY <1>2, <2>1, <2>2, <3>1
  <2>5. a = b
    BY <2>1, <2>2, <2>3, <2>4, SeqEqual
  <2> QED BY <2>5 DEF a, b
<1> QED BY <1>1, <1>4, <1>5, <1>6, CutLosesNothing DEF t

\* rfind() finds the last newline, or says there is none.
LEMMA LastNewline ==
    ASSUME NEW s \in Seq(Char)
    PROVE  /\ rfind(s) \in -1..(Len(s) - 1)
           /\ rfind(s) >= 0 => s[rfind(s) + 1] = "newline"
           /\ \A i \in 1..Len(s) : s[i] = "newline" => i - 1 <= rfind(s)
<1> DEFINE T == {j \in DOMAIN s : s[j] = "newline"}
           R == {-1} \cup {i - 1 : i \in T}
<1>1. DOMAIN s = 1..Len(s) /\ Len(s) \in Nat
  OBVIOUS
<1>2. PICK k \in {0} \cup T : \A y \in {0} \cup T : y <= k
  <2> DEFINE U == {0} \cup T
  <2>1. U \subseteq Nat /\ U # {} /\ \A y \in U : y <= Len(s)
    BY <1>1
  <2> HIDE DEF U
  <2>2. \E x \in U : \A y \in U : y <= x
    BY <1>1, <2>1, GreatestElement
  <2> QED BY <2>2 DEF U
<1>3. Max(R) = k - 1
  <2>1. R \subseteq Int /\ k - 1 \in R /\ \A y \in R : y <= k - 1
    BY <1>1, <1>2
  <2> HIDE DEF R
  <2> QED BY <2>1, GreatestIs
<1>4. rfind(s) = k - 1
  BY <1>3 DEF rfind
<1> QED BY <1>1, <1>2, <1>4

\* The cut skips a newline.
LEMMA CutIsAtNewline ==
    ASSUME NEW s \in Seq(Char), rfind(s) >= 0
    PROVE  Cut(s) \in 0..(Len(s) - 1) /\ s[Cut(s) + 1] = "newline"
<1> DEFINE r == rfind(s)
<1>1. r \in 0..(Len(s) - 1) /\ s[r + 1] = "newline" /\ Len(s) \in Nat
  <2>1. r \in -1..(Len(s) - 1) /\ (r >= 0 => s[r + 1] = "newline") /\ Len(s) \in Nat
    BY LastNewline
  <2> QED BY <2>1
<1>2. Cut(s) = IF r > 0 /\ s[r] = "newline" THEN r - 1 ELSE r
  BY DEF Cut
<1> HIDE DEF r
<1> QED BY <1>1, <1>2

-----------------------------------------------------------------------------
(* The delivery.                                                           *)

\* A chunk the adapter is done with: it was delivered, was refused for good, or has
\* had all its attempts.
Settled(c) == /\ tries[c] > 0
              /\ \/ c \in confirmed \cup refused
                 \/ tries[c] = DEFAULT_SEND_ATTEMPTS

\* A chunk that the chat shows with no later one above it.
InPlace(c) == \E i \in 1..Len(phone) : phone[i] = c /\ \A j \in 1..i : phone[j] <= c

\* All of the answer is in the chunks and in what remains, and there is at least one
\* chunk when the loop ends.  It begins with none, as no update comes after a kill.
Cutting == /\ text \in Seq(Char) /\ remaining \in Seq(Char)
           /\ pieces \in Seq(Seq(Char)) /\ split \in BOOLEAN
           /\ split => Len(pieces) >= 1 /\ Len(remaining) <= MAX_MESSAGE_LENGTH
           /\ NothingWrittenIsLost
           /\ at \in {"handler", "send"} \/ (at = "idle" /\ logged # "killed")
                 => pieces = <<>> /\ split = FALSE

Counters == /\ chunks \in Nat /\ chunk \in Nat
            /\ attempt \in Nat /\ attempt <= DEFAULT_SEND_ATTEMPTS
            /\ tries \in [Fallback..chunks -> Nat]

\* Nothing is sent before the answer has been split, and nothing once it was sent.
Stages == /\ at \in {"handler", "split"} => logged = "none"
          /\ at = "send" => logged = IF chunk = Fallback THEN "error" ELSE "none"
          /\ at # "send" /\ logged = "none"
                => phone = <<>> /\ chunks = 0 /\ confirmed = {} /\ flight[Fallback] = 0

\* Of what the loop has not come to, the chat shows nothing and nothing is under way;
\* so a chunk is in its place when its call returns, and what arrives later, below
\* it, cannot move it.
Shown == /\ phone \in Seq(Nat) /\ flight \in [Fallback..chunks -> Nat] /\ confirmed \in SUBSET Nat
         /\ at = "send" => /\ \A i \in 1..Len(phone) : phone[i] <= chunk
                           /\ \A c \in Fallback..chunks : flight[c] > 0 => c <= chunk
         /\ \A c \in confirmed : InPlace(c)

\* The loop has settled every chunk before the one it is at, and counts the
\* attempts it makes at that one.
Progress ==
    /\ at = "send" /\ chunk = Fallback => chunks = 0
    /\ at = "send" /\ chunk # Fallback =>
          /\ chunk \in 1..chunks /\ tries[chunk] = attempt - 1
          /\ \A c \in 1..(chunk - 1) : Settled(c)
          /\ \A c \in (chunk + 1)..chunks : tries[c] = 0
    /\ logged \in {"answered", "never_delivered"} => \A c \in 1..chunks : Settled(c)

DeliveryInv == Cutting /\ Counters /\ Stages /\ Shown /\ Progress

-----------------------------------------------------------------------------
\* A chunk that takes with it what it should of the rest loses nothing.
LEMMA ChunkLosesNothing ==
    ASSUME Cutting, ~split, UNCHANGED text,
           NEW p \in Seq(Char), pieces' = Append(pieces, p),
           NEW rest, rest \in Seq(Letters), Ink(p) \o rest = Ink(remaining),
           (IF split' THEN <<>> ELSE Ink(remaining')) = rest
    PROVE  NothingWrittenIsLost'
<1> DEFINE a == FlattenSeq(pieces)
<1>1. a \in Seq(Char) /\ Ink(a) \in Seq(Letters) /\ Ink(p) \in Seq(Letters)
  BY FlatIsSeq, InkIsLetters DEF Cutting
<1>2. Ink(FlattenSeq(pieces')) = Ink(a) \o Ink(p)
  <2>1. FlattenSeq(Append(pieces, p)) = a \o p
    BY FlatOfMore DEF Cutting
  <2> QED BY <1>1, <2>1, InkOfBoth
<1>3. (Ink(a) \o Ink(p)) \o rest = Ink(a) \o (Ink(p) \o rest)
  <2> DEFINE x == Ink(a)
             y == Ink(p)
  <2>1. x \in Seq(Letters) /\ y \in Seq(Letters)
    BY <1>1
  <2> HIDE DEF x, y
  <2>2. (x \o y) \o rest = x \o (y \o rest)
    BY <2>1, JoinsOfLetters
  <2> QED BY <2>2 DEF x, y
<1>4. Ink(a) \o Ink(remaining) = Ink(text)
  BY DEF Cutting, NothingWrittenIsLost
<1> QED BY <1>2, <1>3, <1>4 DEF NothingWrittenIsLost

\* One pass of the loop of _split_message().
LEMMA PassLosesNothing ==
    ASSUME Cutting, SplitNext, UNCHANGED at, at = "split" PROVE Cutting'
<1> DEFINE L == MAX_MESSAGE_LENGTH
           window == Prefix(remaining, L)
<1>0. L \in Nat \ {0} /\ Len(remaining) \in Nat
  BY SplitAssumption DEF Cutting
<1>1. ASSUME NEW p \in Seq(Char), pieces' = Append(pieces, p), UNCHANGED <<text, split>>, ~split,
             remaining' \in Seq(Char), Ink(p) \o Ink(remaining') = Ink(remaining)
      PROVE  Cutting'
  <2>1. NothingWrittenIsLost'
    <3> DEFINE rest == Ink(remaining')
    <3>1. rest \in Seq(Letters) /\ Ink(p) \o rest = Ink(remaining)
          /\ (IF split' THEN <<>> ELSE Ink(remaining')) = rest
      BY <1>1, InkIsLetters
    <3> HIDE DEF rest
    <3> QED BY <1>1, <3>1, ChunkLosesNothing
  <2>2. pieces' \in Seq(Seq(Char))
    BY <1>1 DEF Cutting
  <2> QED BY <1>1, <2>1, <2>2 DEF Cutting
<1>2. CASE HardCut
  <2>1. /\ Len(remaining) > L /\ pieces' = Append(pieces, rstrip(window))
        /\ remaining' = From(remaining, L) /\ UNCHANGED <<text, split>>
    BY <1>2 DEF HardCut
  <2>2. L \in 0..Len(remaining) /\ ~split
    BY <1>0, <2>1 DEF Cutting
  <2> HIDE DEF L
  <2>3. /\ rstrip(window) \in Seq(Char) /\ From(remaining, L) \in Seq(Char)
        /\ Ink(rstrip(window)) \o Ink(From(remaining, L)) = Ink(remaining)
    BY <2>2, CutLosesNothing DEF Cutting
  <2> QED BY <1>1, <2>1, <2>2, <2>3
<1>3. CASE CutAtNewline
  <2> DEFINE n == Cut(window)
  <2>1. /\ Len(remaining) > L /\ rfind(window) >= L \div 2
        /\ pieces' = Append(pieces, rstrip(Prefix(remaining, n)))
        /\ remaining' = From(remaining, n + 1) /\ UNCHANGED <<text, split>>
    BY <1>3 DEF CutAtNewline
  <2>2. L \in 0..Len(remaining) /\ ~split
    BY <1>0, <2>1 DEF Cutting
  <2>3. /\ window \in Seq(Char) /\ Len(window) = L
        /\ \A i \in 1..L : window[i] = remaining[i]
    BY <2>2, PartsOf DEF Cutting
  <2>4. n \in 0..(L - 1) /\ window[n + 1] = "newline"
    <3>1. rfind(window) \in -1..(L - 1)
      BY <2>3, LastNewline
    <3>2. rfind(window) >= 0
      <4> DEFINE r == rfind(window)
      <4>1. r \in Int /\ r >= L \div 2
        BY <1>0, <2>1, <3>1
      <4> HIDE DEF r, L
      <4>2. L \div 2 \in Nat
        BY <1>0
      <4>3. r >= 0
        BY <4>1, <4>2
      <4> QED BY <4>3 DEF r
    <3> QED BY <2>3, <3>2, CutIsAtNewline
  <2>5. n \in 0..(Len(remaining) - 1) /\ remaining[n + 1] = "newline"
    <3> HIDE DEF n
    <3> QED BY <1>0, <2>2, <2>3, <2>4
  <2>6. /\ rstrip(Prefix(remaining, n)) \in Seq(Char) /\ From(remaining, n + 1) \in Seq(Char)
        /\ Ink(rstrip(Prefix(remaining, n))) \o Ink(From(remaining, n + 1)) = Ink(remaining)
    BY <2>5, NewlineLosesNothing DEF Cutting
  <2> HIDE DEF n
  <2> QED BY <1>1, <2>1, <2>2, <2>6
<1>4. CASE Rest
  <2>1. /\ ~split /\ Len(remaining) <= L /\ pieces' = Append(pieces, remaining)
        /\ split' = TRUE /\ UNCHANGED <<text, remaining>>
    BY <1>4 DEF Rest
  <2>2. NothingWrittenIsLost'
    <3>1. /\ <<>> \in Seq(Letters) /\ Ink(remaining) \o <<>> = Ink(remaining)
          /\ remaining \in Seq(Char)
      BY InkIsLetters, ConcatEmptySeq DEF Cutting
    <3> QED BY <2>1, <3>1, ChunkLosesNothing
  <2>3. pieces' \in Seq(Seq(Char)) /\ Len(pieces') = Len(pieces) + 1 /\ Len(pieces) \in Nat
    BY <2>1 DEF Cutting
  <2> QED BY <2>1, <2>2, <2>3 DEF Cutting
<1> QED BY <1>2, <1>3, <1>4 DEF SplitNext

\* Nothing has been cut: nothing is lost.
LEMMA NothingToLose ==
    ASSUME remaining \in Seq(Char), text = remaining, pieces = <<>>, split = FALSE
    PROVE  NothingWrittenIsLost
<1>1. FlattenSeq(<<>>) = <<>>
  BY DEF FlattenSeq
<1>2. <<>> \o Ink(remaining) = Ink(remaining)
  BY InkIsLetters, ConcatEmptySeq
<1> QED BY <1>1, <1>2, InkOfNothing DEF NothingWrittenIsLost

\* Only that loop moves its variables, from an answer that is whole.
LEMMA CuttingKept == DeliveryInv /\ [Next]_vars => Cutting'
<1> SUFFICES ASSUME DeliveryInv, [Next]_vars PROVE Cutting'
  OBVIOUS
<1> USE DEF DeliveryInv
<1>1. ASSUME UNCHANGED splitVars,
             at' \in {"handler", "send"} \/ (at' = "idle" /\ logged' # "killed")
                => pieces = <<>> /\ split = FALSE
      PROVE  Cutting'
  BY <1>1 DEF Cutting, splitVars, NothingWrittenIsLost
<1>2. CASE Consult
  <2>1. PICK n \in 1..MaxLength : text' \in Answers(n)
    BY <1>2 DEF Consult
  <2>2. text' \in Seq(Char)
    BY <2>1, SplitAssumption DEF Answers
  <2>3. pieces = <<>> /\ split = FALSE /\ UNCHANGED <<pieces, split>> /\ remaining' = text' /\ at' = "split"
    BY <1>2 DEF Consult, Cutting
  <2>4. NothingWrittenIsLost'
    <3>1. FlattenSeq(<<>>) = <<>> /\ Ink(<<>>) = <<>>
      BY InkOfNothing DEF FlattenSeq
    <3>2. <<>> \o Ink(text') = Ink(text')
      BY <2>2, InkIsLetters, ConcatEmptySeq
    <3> QED BY <2>3, <3>1, <3>2 DEF NothingWrittenIsLost
  <2> QED BY <2>2, <2>3, <2>4 DEF Cutting
<1>3. CASE Split
  BY <1>3, PassLosesNothing DEF Split
<1>4. CASE StartSending
  <2>1. text' = <<>> /\ remaining' = <<>> /\ pieces' = <<>> /\ split' = FALSE /\ at' = "send"
    BY <1>4 DEF StartSending
  <2>2. NothingWrittenIsLost'
    <3>1. FlattenSeq(<<>>) = <<>> /\ Ink(<<>>) = <<>> /\ <<>> \o <<>> = <<>>
      BY InkOfNothing, ConcatEmptySeq DEF FlattenSeq
    <3> QED BY <2>1, <3>1 DEF NothingWrittenIsLost
  <2>3. <<>> \in Seq(Char) /\ <<>> \in Seq(Seq(Char))
    OBVIOUS
  <2> QED BY <2>1, <2>2, <2>3 DEF Cutting
<1>5. CASE \/ \E who \in {"user", "stranger"} : Incoming(who)
           \/ Ignore \/ Break \/ Kill \/ UNCHANGED vars
  BY <1>1, <1>5 DEF Incoming, Ignore, Break, Kill, vars, Cutting, splitVars, handling
<1>7. CASE \E c \in Fallback..chunks : Lands(c)
  BY <1>1, <1>7 DEF Lands, Cutting
<1>6. CASE SendSucceeds \/ SendFails \/ SendRefused
  <2>1. at = "send" /\ UNCHANGED splitVars
    BY <1>6 DEF SendSucceeds, SendFails, SendRefused, Try, Stages
  <2>2. pieces = <<>> /\ split = FALSE
    BY <2>1 DEF Cutting
  <2> QED BY <1>1, <2>1, <2>2
<1> QED BY <1>2, <1>3, <1>4, <1>5, <1>6, <1>7 DEF Next

\* One more message on the phone moves no chunk from its place.
LEMMA Arrives ==
    ASSUME phone \in Seq(Nat), NEW m \in Nat, phone' = Append(phone, m)
    PROVE  /\ phone' \in Seq(Nat) /\ Len(phone') = Len(phone) + 1 /\ Len(phone) \in Nat
           /\ \A i \in 1..Len(phone) : phone'[i] = phone[i]
           /\ phone'[Len(phone) + 1] = m
           /\ \A c : InPlace(c) => InPlace(c)'
<1>1. /\ phone' \in Seq(Nat) /\ Len(phone') = Len(phone) + 1 /\ Len(phone) \in Nat
      /\ \A i \in 1..Len(phone) : phone'[i] = phone[i]
      /\ phone'[Len(phone) + 1] = m
  OBVIOUS
<1>2. ASSUME NEW c, NEW i \in 1..Len(phone), phone[i] = c, \A j \in 1..i : phone[j] <= c
      PROVE  InPlace(c)'
  <2>1. i \in 1..Len(phone') /\ \A j \in 1..i : j \in 1..Len(phone)
    BY <1>1
  <2>2. phone'[i] = c /\ \A j \in 1..i : phone'[j] <= c
    BY <1>1, <1>2, <2>1
  <2> QED BY <2>1, <2>2 DEF InPlace
<1> QED BY <1>1, <1>2 DEF InPlace

\* A request that nobody waits for belongs to a chunk the loop has come to.
LEMMA LateIsShown ==
    ASSUME DeliveryInv, NEW c \in Fallback..chunks, Lands(c)
    PROVE  Shown'
<1> USE DEF Fallback
<1>1. /\ phone' = Append(phone, c) /\ flight[c] > 0 /\ flight' = [flight EXCEPT ![c] = @ - 1]
      /\ UNCHANGED <<at, chunks, chunk, confirmed>>
  BY DEF Lands
<1>2. Shown /\ chunks \in Nat /\ chunk \in Nat /\ c \in Nat
  BY DEF DeliveryInv, Counters
<1>3. /\ phone' \in Seq(Nat) /\ Len(phone') = Len(phone) + 1 /\ Len(phone) \in Nat
      /\ \A i \in 1..Len(phone) : phone'[i] = phone[i]
      /\ phone'[Len(phone) + 1] = c
      /\ \A d : InPlace(d) => InPlace(d)'
  BY <1>1, <1>2, Arrives DEF Shown
<1>4. \A d \in confirmed' : InPlace(d)'
  BY <1>1, <1>2, <1>3 DEF Shown
<1>5. /\ flight' \in [0..chunks' -> Nat]
      /\ \A d \in 0..chunks : flight'[d] > 0 => flight[d] > 0
  <2>1. flight \in [0..chunks -> Nat] /\ flight[c] - 1 \in Nat
    BY <1>1, <1>2 DEF Shown
  <2> QED BY <1>1, <2>1
<1>6. at = "send" => \A i \in 1..Len(phone') : phone'[i] <= chunk
  <2>1. \A i \in 1..Len(phone') : i \in 1..Len(phone) \/ i = Len(phone) + 1
    BY <1>3
  <2> QED BY <1>1, <1>2, <1>3, <2>1 DEF Shown
<1>7. at = "send" => \A d \in 0..chunks : flight'[d] > 0 => d <= chunk
  BY <1>2, <1>5 DEF Shown
<1> QED BY <1>1, <1>2, <1>3, <1>4, <1>5, <1>6, <1>7 DEF Shown

\* A chunk that was settled stays so: its tries are not reset and what was delivered
\* or refused is not taken back.
LEMMA SettledStays ==
    ASSUME DeliveryInv, NEW c \in 1..chunks, Settled(c),
           tries' = [tries EXCEPT ![chunk] = @ + 1], c # chunk,
           confirmed \subseteq confirmed', refused \subseteq refused'
    PROVE  Settled(c)'
<1>1. tries'[c] = tries[c]
  <2>1. tries \in [0..chunks -> Nat] /\ c \in 0..chunks
    BY DEF DeliveryInv, Counters, Fallback
  <2> QED BY <2>1
<1> QED BY <1>1 DEF Settled

\* One call of _send(), whatever comes of it: the loop then tries the same chunk
\* again, goes on to the next, or is over.
Again == /\ at' = "send" /\ chunk' = chunk /\ logged' = logged
         /\ attempt < DEFAULT_SEND_ATTEMPTS /\ attempt' = attempt + 1
Onward == /\ at' = "send" /\ chunk + 1 <= chunks /\ chunk' = chunk + 1 /\ logged' = logged
          /\ attempt' = 1
Finished == /\ at' = "idle" /\ chunk + 1 > chunks /\ chunk' = chunk /\ attempt' = attempt
            /\ logged' = IF chunk = Fallback THEN logged ELSE Report(delivered')

Attempted == /\ at = "send"
             /\ tries' = [tries EXCEPT ![chunk] = @ + 1]
             /\ confirmed \subseteq confirmed' /\ refused \subseteq refused'
             /\ chunks' = chunks
             /\ Again \/ Onward \/ Finished

\* A chunk is in its place when its call returns: of later ones the chat shows none.
LEMMA CallsShow ==
    ASSUME DeliveryInv, Attempted, SendSucceeds \/ SendFails \/ SendRefused
    PROVE  Shown'
<1> USE DEF Fallback
<1>1. Shown /\ Counters /\ chunks \in Nat /\ chunk \in Nat /\ at = "send" /\ chunks' = chunks
      /\ chunk' \in {chunk, chunk + 1}
  BY DEF DeliveryInv, Counters, Attempted, Again, Onward, Finished
<1>2. \A n \in Nat : n <= chunk => n <= chunk'
  BY <1>1
<1>3. CASE SendSucceeds
  <2>1. phone' = Append(phone, chunk) /\ confirmed' = confirmed \cup {chunk} /\ flight' = flight
    BY <1>3 DEF SendSucceeds, Succeeds
  <2> DEFINE m == Len(phone) + 1
  <2>2. /\ phone' \in Seq(Nat) /\ Len(phone') = m /\ Len(phone) \in Nat
        /\ \A i \in 1..Len(phone) : phone'[i] = phone[i]
        /\ phone'[m] = chunk
        /\ \A c : InPlace(c) => InPlace(c)'
    BY <1>1, <2>1, Arrives DEF Shown
  <2>3. m \in 1..Len(phone') /\ \A i \in 1..m : i \in 1..Len(phone) \/ i = m
    BY <2>2
  <2>4. \A i \in 1..m : phone'[i] \in Nat /\ phone'[i] <= chunk
    <3>1. \A i \in 1..Len(phone) : phone[i] \in Nat /\ phone[i] <= chunk
      BY <1>1 DEF Shown
    <3> QED BY <1>1, <2>2, <2>3, <3>1
  <2>5. \A c \in confirmed' : InPlace(c)'
    <3>1. phone'[m] = chunk /\ m \in 1..Len(phone') /\ \A j \in 1..m : phone'[j] <= chunk
      BY <2>2, <2>3, <2>4
    <3>2. PICK n : n = chunk
      OBVIOUS
    <3>3. InPlace(n)'
      BY <3>1, <3>2 DEF InPlace
    <3> QED BY <1>1, <2>1, <2>2, <3>2, <3>3 DEF Shown
  <2>6. \A i \in 1..Len(phone') : phone'[i] <= chunk'
    BY <1>2, <2>2, <2>4
  <2>7. \A c \in 0..chunks' : flight'[c] > 0 => c <= chunk'
    BY <1>1, <1>2, <2>1 DEF Shown
  <2>8. flight' \in [0..chunks' -> Nat] /\ confirmed' \in SUBSET Nat
    BY <1>1, <2>1 DEF Shown
  <2> QED BY <2>2, <2>5, <2>6, <2>7, <2>8 DEF Shown
<1>4. CASE SendFails \/ SendRefused
  <2>1. /\ UNCHANGED <<phone, confirmed>>
        /\ flight' \in {flight, [flight EXCEPT ![chunk] = @ + 1]}
    BY <1>4 DEF SendFails, SendRefused
  <2>2. flight' \in [0..chunks' -> Nat] /\ \A c \in 0..chunks' : flight'[c] > 0 => c <= chunk'
    <3>1. flight \in [0..chunks -> Nat] /\ \A c \in 0..chunks : flight[c] > 0 => c <= chunk
      BY <1>1 DEF Shown
    <3>2. \A c \in 0..chunks : flight[c] + 1 \in Nat
      BY <3>1
    <3>3. flight' \in [0..chunks -> Nat] /\ \A c \in 0..chunks : c # chunk => flight'[c] = flight[c]
      BY <2>1, <3>1, <3>2
    <3>4. \A c \in 0..chunks : flight'[c] > 0 => c <= chunk
      BY <1>1, <3>1, <3>3
    <3> QED BY <1>1, <1>2, <3>3, <3>4
  <2>3. \A i \in 1..Len(phone') : phone'[i] <= chunk'
    <3>1. \A i \in 1..Len(phone) : phone[i] \in Nat /\ phone[i] <= chunk
      BY <1>1 DEF Shown
    <3> QED BY <1>2, <2>1, <3>1
  <2>4. \A c \in confirmed' : InPlace(c)'
    BY <1>1, <2>1 DEF Shown, InPlace
  <2>5. phone' \in Seq(Nat) /\ confirmed' \in SUBSET Nat
    BY <1>1, <2>1 DEF Shown
  <2> QED BY <2>2, <2>3, <2>4, <2>5 DEF Shown
<1> QED BY <1>3, <1>4

\* Each of them keeps the invariant, if the chunk is settled before the loop leaves
\* it.
LEMMA AttemptKeeps ==
    ASSUME DeliveryInv, Cutting', Shown', Attempted,
           NEW k, k = chunk, Again \/ k = Fallback \/ Settled(k)'
    PROVE  DeliveryInv'
<1> USE DEF Fallback
<1>0. DEFAULT_SEND_ATTEMPTS \in Nat /\ DEFAULT_SEND_ATTEMPTS >= 1
  BY DeliveryAssumption
<1>1. Counters /\ Stages /\ Shown /\ Progress
  BY DEF DeliveryInv
<1>a. /\ at = "send" /\ chunks' = chunks /\ chunks \in Nat /\ chunk \in Nat /\ attempt \in Nat
      /\ Again \/ Onward \/ Finished
  BY <1>1 DEF Attempted, Counters
<1>2. /\ at = "send" /\ chunks' = chunks /\ chunk \in Nat /\ chunk' \in {chunk, chunk + 1}
      /\ chunk' \in Nat /\ attempt' \in Nat /\ attempt' <= DEFAULT_SEND_ATTEMPTS
  BY <1>0, <1>1, <1>a DEF Again, Onward, Finished, Counters
<1>4. Counters'
  <2>1. tries' \in [0..chunks -> Nat]
    <3>1. tries \in [0..chunks -> Nat] /\ tries' = [tries EXCEPT ![chunk] = @ + 1]
      BY <1>1 DEF Counters, Attempted
    <3>2. \A c \in 0..chunks : tries[c] + 1 \in Nat
      BY <3>1
    <3> QED BY <3>1, <3>2
  <2> QED BY <1>1, <1>2, <2>1 DEF Counters
<1>5. Stages'
  <2>1. logged = IF chunk = 0 THEN "error" ELSE "none"
    BY <1>1, <1>a DEF Stages
  <2>2. chunk = 0 => chunks = 0
    BY <1>1, <1>a DEF Progress
  <2>3. CASE Again
    BY <2>1, <2>3 DEF Again, Stages
  <2>4. CASE Onward
    <3>1. chunk # 0 /\ chunk' # 0
      BY <1>a, <2>2, <2>4 DEF Onward
    <3> QED BY <2>1, <2>4, <3>1 DEF Onward, Stages
  <2>5. CASE Finished
    <3>1. at' = "idle" /\ logged' # "none"
      BY <2>1, <2>5 DEF Finished, Report
    <3> QED BY <3>1 DEF Stages
  <2> QED BY <1>a, <2>3, <2>4, <2>5
<1>7. Progress'
  <2>1. CASE chunk = 0
    <3>1. chunks = 0 /\ logged = "error" /\ ~Onward
      <4>1. chunks = 0 /\ logged = "error"
        BY <1>1, <1>a, <2>1 DEF Stages, Progress
      <4> QED BY <2>1, <4>1 DEF Onward
    <3>2. chunk' = 0 /\ chunks' = 0 /\ logged' = "error"
      BY <1>a, <2>1, <3>1 DEF Again, Finished
    <3> QED BY <3>2 DEF Progress
  <2>2. CASE chunk # 0
    <3>1. chunk \in 1..chunks /\ tries[chunk] = attempt - 1 /\ logged = "none"
      BY <1>1, <1>2, <2>2 DEF Progress, Stages
    <3>2. ASSUME NEW c \in 1..(chunk - 1) PROVE Settled(c)'
      <4>1. c \in 1..chunks /\ c # chunk
        BY <1>a, <3>1
      <4>2. Settled(c)
        BY <1>1, <1>2, <2>2 DEF Progress
      <4> QED BY <4>1, <4>2, SettledStays DEF Attempted
    <3>3. tries'[chunk] = attempt
      BY <1>1, <3>1 DEF Attempted, Counters
    <3>u. \A c \in (chunk + 1)..chunks : tries'[c] = 0
      <4>1. \A c \in (chunk + 1)..chunks : tries[c] = 0 /\ c \in 0..chunks /\ c # chunk
        BY <1>1, <1>a, <2>2 DEF Progress
      <4>2. tries \in [0..chunks -> Nat] /\ tries' = [tries EXCEPT ![chunk] = @ + 1]
        BY <1>1 DEF Counters, Attempted
      <4> QED BY <4>1, <4>2
    <3>4. CASE Again
      <4>1. \A c \in 1..(chunk' - 1) : Settled(c)'
        BY <3>2, <3>4 DEF Again
      <4>2. chunk' \in 1..chunks' /\ chunk' # 0 /\ tries'[chunk'] = attempt' - 1 /\ logged' = "none"
        BY <1>a, <3>1, <3>3, <3>4 DEF Again
      <4>3. \A c \in (chunk' + 1)..chunks' : tries'[c] = 0
        BY <1>a, <3>4, <3>u DEF Again
      <4> QED BY <4>1, <4>2, <4>3 DEF Progress
    <3>5. CASE Settled(k)' /\ Onward
      <4>1. \A c \in 1..chunk : Settled(c)'
        <5>1. \A c \in 1..chunk : c \in 1..(chunk - 1) \/ c = k
          BY <1>a
        <5> QED BY <3>2, <3>5, <5>1
      <4>2. /\ chunk' - 1 = chunk /\ chunk' \in 1..chunks' /\ chunk' # 0 /\ logged' = "none"
            /\ attempt' - 1 = 0
        BY <1>a, <3>1, <3>5 DEF Onward
      <4>3. tries'[chunk'] = 0 /\ \A c \in (chunk' + 1)..chunks' : tries'[c] = 0
        <5>1. /\ chunk' \in (chunk + 1)..chunks
              /\ \A c \in (chunk' + 1)..chunks' : c \in (chunk + 1)..chunks
          BY <1>a, <3>5 DEF Onward
        <5> QED BY <3>u, <5>1
      <4>4. tries'[chunk'] = attempt' - 1 /\ \A c \in 1..(chunk' - 1) : Settled(c)'
        BY <4>1, <4>2, <4>3
      <4> QED BY <4>2, <4>3, <4>4 DEF Progress
    <3>6. CASE Settled(k)' /\ Finished
      <4>1. \A c \in 1..chunks' : c \in 1..(chunk - 1) \/ c = k
        BY <1>a, <3>1, <3>6 DEF Finished
      <4>2. \A c \in 1..chunks' : Settled(c)'
        BY <3>2, <3>6, <4>1
      <4>3. at' = "idle"
        BY <3>6 DEF Finished
      <4> QED BY <4>2, <4>3 DEF Progress
    <3> QED BY <1>a, <2>2, <3>4, <3>5, <3>6
  <2> QED BY <2>1, <2>2
<1> QED BY <1>4, <1>5, <1>7 DEF DeliveryInv

\* What a call to Telegram does is one of the outcomes of Attempted.
LEMMA CallsAreAttempts ==
    ASSUME DeliveryInv, [Next]_vars, SendSucceeds \/ SendFails \/ SendRefused
    PROVE  DeliveryInv'
<1> USE DEF Fallback
<1> DEFINE k == chunk
<1>0. /\ at = "send" /\ tries' = [tries EXCEPT ![chunk] = @ + 1] /\ UNCHANGED chunks
      /\ confirmed \subseteq confirmed' /\ refused \subseteq refused'
  BY DEF SendSucceeds, Succeeds, SendFails, SendRefused, Try
<1>1. chunk \in Nat /\ chunks \in Nat /\ tries \in [0..chunks -> Nat]
  BY DEF DeliveryInv, Counters
<1>2. ASSUME NEW ok, Return(ok) PROVE Onward \/ Finished
  BY <1>0, <1>1, <1>2 DEF Return, NextChunk, Onward, Finished
<1>3. Attempted
  BY <1>0, <1>2 DEF SendSucceeds, Succeeds, SendFails, SendRefused, Attempted, Again
<1>4. PICK n : n = chunk
  OBVIOUS
<1>5. n \in Nat /\ (n # 0 => n \in 0..chunks /\ tries[n] = attempt - 1 /\ tries[n] \in Nat)
  BY <1>0, <1>1, <1>4 DEF DeliveryInv, Progress
<1>6. n # 0 => tries'[n] = attempt /\ tries'[n] > 0
  BY <1>0, <1>1, <1>4, <1>5 DEF DeliveryInv, Counters
<1>7. ASSUME Settled(n)' \/ Again \/ n = 0 PROVE DeliveryInv'
  BY <1>3, <1>4, <1>7, CuttingKept, CallsShow, AttemptKeeps
<1>8. CASE SendSucceeds
  <2>1. n \in confirmed'
    BY <1>4, <1>8 DEF SendSucceeds, Succeeds
  <2>2. n # 0 => Settled(n)'
    BY <1>6, <2>1 DEF Settled
  <2> QED BY <1>7, <2>2
<1>9. CASE SendFails
  <2>1. Again \/ ~(attempt < DEFAULT_SEND_ATTEMPTS)
    BY <1>0, <1>9 DEF SendFails, Again
  <2>2. attempt \in Nat /\ attempt <= DEFAULT_SEND_ATTEMPTS /\ DEFAULT_SEND_ATTEMPTS \in Nat
    BY DeliveryAssumption DEF DeliveryInv, Counters
  <2>3. Again \/ attempt = DEFAULT_SEND_ATTEMPTS
    BY <2>1, <2>2
  <2>4. ~Again /\ n # 0 => Settled(n)'
    BY <1>6, <2>3 DEF Settled
  <2> QED BY <1>7, <2>4
<1>10. CASE SendRefused
  <2>1. n \in refused'
    BY <1>4, <1>10 DEF SendRefused
  <2>2. n # 0 => Settled(n)'
    BY <1>6, <2>1 DEF Settled
  <2> QED BY <1>7, <2>2
<1> QED BY <1>8, <1>9, <1>10

\* Every reachable state satisfies the invariant.
THEOREM DeliveryInvHolds == Spec => []DeliveryInv
<1> USE DEF Fallback
<1>1. Init => DeliveryInv
  <2> SUFFICES ASSUME Init PROVE DeliveryInv
    OBVIOUS
  <2>1. Cutting
    <3>1. text = <<>> /\ remaining = <<>> /\ pieces = <<>> /\ split = FALSE
      BY DEF Init
    <3>2. <<>> \in Seq(Char) /\ <<>> \in Seq(Seq(Char))
      OBVIOUS
    <3> QED BY <3>1, <3>2, NothingToLose DEF Cutting
  <2>2. Counters
    BY DeliveryAssumption DEF Init, Counters, Untried
  <2>3. Stages /\ Shown /\ Progress
    BY DEF Init, Stages, Shown, Progress, Untried
  <2> QED BY <2>1, <2>2, <2>3 DEF DeliveryInv
<1>2. DeliveryInv /\ [Next]_vars => DeliveryInv'
  <2> SUFFICES ASSUME DeliveryInv, [Next]_vars PROVE DeliveryInv'
    OBVIOUS
  <2>0. Cutting' /\ Cutting /\ Counters /\ Stages /\ Shown /\ Progress
    BY CuttingKept DEF DeliveryInv
  <2>1. ASSUME UNCHANGED <<chunks, chunk, attempt, sent, logged>>,
               at' = at \/ (at # "send" /\ at' \in {"handler", "split"} /\ logged = "none")
        PROVE  DeliveryInv'
    BY <2>0, <2>1 DEF DeliveryInv, Counters, Stages, Shown, Progress, Settled, InPlace, sent
  <2>2. ASSUME UNCHANGED <<chunks, chunk, attempt, sent>>,
               at' = "idle", logged' \in {"ignored", "error", "killed"}
        PROVE  DeliveryInv'
    BY <2>0, <2>2 DEF DeliveryInv, Counters, Stages, Shown, Progress, InPlace, sent
  <2>3. CASE StartSending
    <3>1. /\ at = "split" /\ split /\ at' = "send" /\ chunk' = 1 /\ attempt' = 1
          /\ chunks' = Len(pieces) /\ tries' = [c \in 0..chunks' |-> 0]
          /\ flight' = [c \in 0..chunks' |-> 0] /\ UNCHANGED <<logged, phone, confirmed>>
      BY <2>3 DEF StartSending, Untried
    <3>2. pieces \in Seq(Seq(Char)) /\ Len(pieces) >= 1
      BY <2>0, <3>1 DEF Cutting
    <3>3. chunks' \in Nat /\ chunks' >= 1
      BY <3>1, <3>2
    <3>4. logged = "none" /\ phone = <<>> /\ confirmed = {}
      BY <2>0, <3>1 DEF Stages
    <3>5. Counters'
      BY <2>0, <3>1, <3>3, DeliveryAssumption DEF Counters
    <3>6. Stages' /\ Shown'
      BY <3>1, <3>3, <3>4 DEF Stages, Shown
    <3>7. Progress'
      BY <3>1, <3>3, <3>4 DEF Progress
    <3> QED BY <2>0, <3>5, <3>6, <3>7 DEF DeliveryInv
  <2>4. CASE Break /\ from = "user"
    <3>1. /\ at = "handler" /\ at' = "send" /\ chunks' = 0 /\ chunk' = 0 /\ attempt' = 1
          /\ logged' = "error" /\ UNCHANGED <<tries, phone, flight, confirmed>>
      BY <2>4 DEF Break, sent
    <3>2. phone = <<>> /\ chunks = 0 /\ confirmed = {} /\ flight[0] = 0 /\ Shown
      BY <2>0, <3>1 DEF Stages
    <3>3. Counters'
      BY <2>0, <3>1, <3>2, DeliveryAssumption DEF Counters
    <3>4. Stages' /\ Shown' /\ Progress'
      BY <3>1, <3>2 DEF Stages, Shown, Progress
    <3> QED BY <2>0, <3>3, <3>4 DEF DeliveryInv
  <2>5. CASE SendSucceeds \/ SendFails \/ SendRefused
    BY <2>5, CallsAreAttempts
  <2>6. CASE \/ \E who \in {"user", "stranger"} : Incoming(who)
             \/ Consult
             \/ Split
             \/ UNCHANGED vars
    BY <2>0, <2>1, <2>6 DEF Incoming, Consult, Split, vars, handling, Stages
  <2>7. CASE Ignore \/ (Break /\ from # "user") \/ Kill
    BY <2>0, <2>2, <2>7 DEF Ignore, Break, Kill
  <2>8. ASSUME NEW c \in Fallback..chunks, Lands(c) PROVE DeliveryInv'
    <3>1. UNCHANGED <<at, chunks, chunk, attempt, logged, tries, confirmed, refused>> /\ flight[c] > 0
      BY <2>8 DEF Lands
    <3>2. ~(at # "send" /\ logged = "none")
      <4>1. ASSUME at # "send", logged = "none" PROVE FALSE
        <5>1. chunks = 0 /\ flight[0] = 0
          BY <2>0, <4>1 DEF Stages
        <5>2. c = 0
          BY <5>1
        <5> QED BY <3>1, <5>1, <5>2
      <4> QED BY <4>1
    <3>3. Counters' /\ Stages' /\ Progress'
      BY <2>0, <3>1, <3>2 DEF Counters, Stages, Progress, Settled
    <3> QED BY <2>0, <2>8, <3>3, LateIsShown DEF DeliveryInv
  <2> QED BY <2>3, <2>4, <2>5, <2>6, <2>7, <2>8 DEF Next
<1> QED BY <1>1, <1>2, PTL DEF Spec

\* What _send() says was delivered, the chat shows with no later part above it,
\* whatever else times out, is tried again, is given up or arrives late.
THEOREM PartsAreReadInOrder == Spec => []ChunksReadInOrder
<1>1. DeliveryInv => ChunksReadInOrder
  <2> SUFFICES ASSUME DeliveryInv PROVE ChunksReadInOrder
    OBVIOUS
  <2>1. DOMAIN phone = 1..Len(phone)
    BY DEF DeliveryInv, Shown
  <2>2. \A c \in confirmed : InPlace(c)
    BY DEF DeliveryInv, Shown
  <2> QED BY <2>1, <2>2 DEF ChunksReadInOrder, InPlace
<1> QED BY <1>1, DeliveryInvHolds, PTL

\* The loop of _on_text_message() loses no chunk to the loss of another, and
\* _send() gives none up before its last attempt unless it is refused for good.
THEOREM NoChunkIsSkipped == Spec => []EveryChunkIsTried
<1>1. DeliveryInv => EveryChunkIsTried
  BY DEF DeliveryInv, Progress, Settled, EveryChunkIsTried
<1> QED BY <1>1, DeliveryInvHolds, PTL

\* _split_message() cuts an answer so that the chunks, one after the other, show what
\* the answer shows: the same characters in the same order, blanks apart.
THEOREM AllThatIsWrittenIsCut == Spec => []NothingWrittenIsLost
<1>1. DeliveryInv => NothingWrittenIsLost BY DEF DeliveryInv, Cutting
<1> QED BY <1>1, DeliveryInvHolds, PTL

\* _split_message() parts a line only when the half of the window where it looks for
\* a newline has none.
THEOREM LinesAreSpared == Spec => LinesCutOnlyWhenUnavoidable
<1> DEFINE Spared ==
        /\ Len(pieces') > Len(pieces) /\ Len(remaining') < Len(remaining)
        /\ remaining[Len(remaining) - Len(remaining')] # "newline"
        => \A i \in (1 + MAX_MESSAGE_LENGTH \div 2)..MAX_MESSAGE_LENGTH : remaining[i] # "newline"
<1>1. DeliveryInv /\ [Next]_vars => Spared \/ UNCHANGED splitVars
  <2> SUFFICES ASSUME Cutting, [Next]_vars,
                      Len(pieces') > Len(pieces), Len(remaining') < Len(remaining),
                      remaining[Len(remaining) - Len(remaining')] # "newline",
                      NEW i \in (1 + MAX_MESSAGE_LENGTH \div 2)..MAX_MESSAGE_LENGTH,
                      ~UNCHANGED splitVars
               PROVE  remaining[i] # "newline"
    BY DEF DeliveryInv
  <2> DEFINE L == MAX_MESSAGE_LENGTH
             window == Prefix(remaining, L)
  <2>0. L \in Nat \ {0} /\ Len(remaining) \in Nat
    BY SplitAssumption DEF Cutting
  <2>1. Split
    <3>1. ~Consult /\ ~StartSending
      BY DEF Consult, StartSending, Cutting
    <3> QED BY <3>1 DEF Next, Incoming, Ignore, Break, Kill, Lands, SendSucceeds, SendFails, SendRefused,
                        Try, vars
  <2>2. ~Rest
    BY <2>0 DEF Rest
  <2>3. Len(remaining) > L
    BY <2>1, <2>2 DEF Split, SplitNext, HardCut, CutAtNewline
  <2>4. L \in 0..Len(remaining)
    BY <2>0, <2>3
  <2>5. /\ window \in Seq(Char) /\ Len(window) = L
        /\ \A j \in 1..L : window[j] = remaining[j]
    BY <2>4, PartsOf DEF Cutting
  <2>6. /\ rfind(window) \in -1..(L - 1)
        /\ rfind(window) >= 0 => window[rfind(window) + 1] = "newline"
        /\ \A j \in 1..L : window[j] = "newline" => j - 1 <= rfind(window)
    BY <2>5, LastNewline
  <2>7. CASE HardCut
    <3>1. rfind(window) < L \div 2
      BY <2>7 DEF HardCut
    <3>2. i \in 1..L /\ ~(i - 1 <= rfind(window))
      <4> DEFINE r == rfind(window)
      <4>1. r \in Int /\ r < L \div 2 /\ i \in (1 + L \div 2)..L
        BY <2>6, <3>1
      <4> HIDE DEF r, L
      <4>2. L \div 2 \in Nat /\ L \in Nat
        BY <2>0
      <4>3. i \in 1..L /\ ~(i - 1 <= r)
        BY <4>1, <4>2
      <4> QED BY <4>3 DEF r
    <3> QED BY <2>5, <2>6, <3>2
  <2>8. CASE CutAtNewline
    <3> DEFINE n == Cut(window)
    <3>1. rfind(window) >= L \div 2 /\ remaining' = From(remaining, n + 1)
      BY <2>8 DEF CutAtNewline
    <3>2. rfind(window) >= 0
      <4> DEFINE r == rfind(window)
      <4>1. r \in Int /\ r >= L \div 2
        BY <2>6, <3>1
      <4> HIDE DEF r, L
      <4>2. L \div 2 \in Nat
        BY <2>0
      <4>3. r >= 0
        BY <4>1, <4>2
      <4> QED BY <4>3 DEF r
    <3>3. n \in 0..(L - 1) /\ window[n + 1] = "newline"
      BY <2>5, <3>2, CutIsAtNewline
    <3> HIDE DEF n
    <3>4. n + 1 \in 0..Len(remaining) /\ n + 1 \in 1..L
      BY <2>0, <2>4, <3>3
    <3>5. Len(remaining') = Len(remaining) - (n + 1)
      BY <3>1, <3>4, PartsOf DEF Cutting
    <3>6. Len(remaining) - Len(remaining') = n + 1
      BY <2>0, <3>4, <3>5
    <3>7. remaining[n + 1] = "newline"
      BY <2>5, <3>3, <3>4
    <3> QED BY <3>6, <3>7
  <2> QED BY <2>1, <2>2, <2>7, <2>8 DEF Split, SplitNext
<1>2. DeliveryInv /\ [Next]_vars => [Spared]_splitVars
  BY <1>1
<1> QED BY <1>2, DeliveryInvHolds, PTL DEF Spec, LinesCutOnlyWhenUnavoidable
===============================================================================
