---------------------------- MODULE MemoryProofs ----------------------------
(***************************************************************************)
(* What is claimed of the conversation and of core/memory.py, proved for   *)
(* every value of the constants: of History, the table that outlives the   *)
(* turns and the requests made of it, for any window of two or more, any   *)
(* number of turns, rounds and calls, and faults and kills between any two *)
(* transactions; of SnapshotStore, the file it is in, for any length of    *)
(* history and any number of disk faults.                                  *)
(***************************************************************************)
EXTENDS History, SnapshotStore, Induction

-----------------------------------------------------------------------------
(***************************************************************************)
(* The table: History.                                                     *)
(***************************************************************************)

-----------------------------------------------------------------------------
(* Suffixes.                                                               *)

\* What is left when the oldest go is a suffix.
LEMMA KeptFrom ==
    ASSUME NEW S, NEW s \in Seq(S), NEW k \in 1..(Len(s) + 1)
    PROVE  LET w == SubSeq(s, k, Len(s)) IN
           /\ w \in Seq(S) /\ Len(w) = Len(s) - k + 1
           /\ \A i \in 1..Len(w) : w[i] = s[i + k - 1]
<1>1. SubSeq(s, k, Len(s)) \in Seq(S) OBVIOUS
<1>2. Len(SubSeq(s, k, Len(s))) = Len(s) - k + 1 OBVIOUS
<1>3. \A i \in 1..(Len(s) - k + 1) : SubSeq(s, k, Len(s))[i] = s[i + k - 1] OBVIOUS
<1> QED BY <1>1, <1>2, <1>3

\* A sequence is its length and its elements.
LEMMA SameElements ==
    ASSUME NEW S, NEW v \in Seq(S), NEW w \in Seq(S), Len(v) = Len(w),
           \A i \in 1..Len(v) : v[i] = w[i]
    PROVE  v = w
  OBVIOUS

\* What Min picks.
LEMMA LeastNumber ==
    ASSUME NEW T, T \subseteq Nat, T # {}
    PROVE  Min(T) \in T /\ \A y \in T : Min(T) <= y
BY LeastElement DEF Min

\* The first message of the user is one of the sequence, or one past its end, and
\* none comes before it.
LEMMA FirstOfUserIs ==
    ASSUME NEW s \in Seq(Message)
    PROVE  /\ FirstOfUser(s) \in 1..(Len(s) + 1)
           /\ \A i \in 1..Len(s) : s[i].role = "user" => FirstOfUser(s) <= i
           /\ FirstOfUser(s) <= Len(s) => s[FirstOfUser(s)].role = "user"
<1> DEFINE U == {i \in DOMAIN s : s[i].role = "user"} \cup {Len(s) + 1}
<1>1. U \subseteq 1..(Len(s) + 1) /\ U \subseteq Nat /\ U # {}
  OBVIOUS
<1>2. Min(U) \in U /\ \A y \in U : Min(U) <= y
  BY <1>1, LeastNumber
<1>3. FirstOfUser(s) \in U /\ \A y \in U : FirstOfUser(s) <= y
  BY <1>2 DEF FirstOfUser
<1> QED BY <1>1, <1>3

\* The suffix of s that begins at k is the longest the window may keep.
FirstKept(s, k) ==
    /\ k \in 1..(Len(s) + 1)
    /\ Window!Kept(s, k)
    /\ \A j \in 1..(k - 1) : ~Window!Kept(s, j)

\* There is one such suffix, and the abstract window prunes to it ...
LEMMA WindowPrunes ==
    ASSUME NEW s \in Seq(Message), NEW k, FirstKept(s, k)
    PROVE  Window!Pruned(s) = SubSeq(s, k, Len(s))
<1>1. \A i \in 1..(Len(s) + 1) :
         Window!Kept(s, i) /\ (\A j \in 1..(i - 1) : ~Window!Kept(s, j)) => i = k
  <2> SUFFICES ASSUME NEW i \in 1..(Len(s) + 1), Window!Kept(s, i),
                      \A j \in 1..(i - 1) : ~Window!Kept(s, j)
               PROVE  i = k
    OBVIOUS
  <2>1. ~(k \in 1..(i - 1)) /\ ~(i \in 1..(k - 1)) /\ k \in 1..(Len(s) + 1)
    BY DEF FirstKept
  <2> QED BY <2>1
<1> DEFINE P(i) == Window!Kept(s, i) /\ \A j \in 1..(i - 1) : ~Window!Kept(s, j)
<1>2. k \in 1..(Len(s) + 1) /\ P(k)
  BY DEF FirstKept
<1>3. (CHOOSE i \in 1..(Len(s) + 1) : P(i)) = k
  <2>1. \A i \in 1..(Len(s) + 1) : P(i) => i = k
    BY <1>1
  <2> HIDE DEF P
  <2> QED BY <1>2, <2>1
<1> QED BY <1>3 DEF Window!Pruned, Window!Suffix

\* ... and so does pruning in the table, in its two steps.
LEMMA TablePrunes ==
    ASSUME NEW s \in Seq(Message)
    PROVE  \E k : FirstKept(s, k) /\ PruneRows(s) = SubSeq(s, k, Len(s))
<1>0. Len(s) \in Nat /\ MaxMessages \in Nat /\ MaxMessages >= 2
  BY HistoryAssumption
<1>1. PICK a \in 1..(Len(s) + 1) :
         /\ DropExcess(s) = SubSeq(s, a, Len(s))
         /\ Len(s) - a + 1 <= MaxMessages
         /\ \A j \in 1..(a - 1) : Len(s) - j + 1 > MaxMessages
  <2>1. CASE Len(s) > MaxMessages
    <3>1. /\ Len(s) - MaxMessages + 1 \in 1..(Len(s) + 1)
          /\ Len(s) - (Len(s) - MaxMessages + 1) + 1 <= MaxMessages
          /\ \A j \in 1..((Len(s) - MaxMessages + 1) - 1) : Len(s) - j + 1 > MaxMessages
      BY <1>0, <2>1
    <3> QED BY <3>1, <2>1 DEF DropExcess
  <2>2. CASE ~(Len(s) > MaxMessages)
    <3>1. s = SubSeq(s, 1, Len(s))
      OBVIOUS
    <3>2. /\ 1 \in 1..(Len(s) + 1) /\ Len(s) - 1 + 1 <= MaxMessages
          /\ \A j \in 1..(1 - 1) : Len(s) - j + 1 > MaxMessages
      BY <1>0, <2>2
    <3>3. DropExcess(s) = SubSeq(s, 1, Len(s))
      BY <2>2, <3>1 DEF DropExcess
    <3> QED BY <3>2, <3>3
  <2> QED BY <2>1, <2>2
<1> DEFINE d == DropExcess(s)
           b == FirstOfUser(d)
           k == a + b - 1
<1>2. d \in Seq(Message) /\ Len(d) = Len(s) - a + 1 /\ \A i \in 1..Len(d) : d[i] = s[i + a - 1]
  BY <1>1, KeptFrom
<1> HIDE DEF d
<1>3. /\ b \in 1..(Len(d) + 1)
      /\ \A i \in 1..Len(d) : d[i].role = "user" => b <= i
      /\ b <= Len(d) => d[b].role = "user"
  BY <1>2, FirstOfUserIs
<1> HIDE DEF b
<1>4. Len(d) \in Nat
  BY <1>2
<1>5. k \in 1..(Len(s) + 1) /\ Len(s) - k + 1 = Len(d) - b + 1 /\ k >= a
  BY <1>0, <1>2, <1>3, <1>4
<1>6. PruneRows(s) = SubSeq(d, b, Len(d))
  BY DEF PruneRows, DropOrphans, d, b
<1>7. SubSeq(d, b, Len(d)) = SubSeq(s, k, Len(s))
  <2>1. /\ SubSeq(d, b, Len(d)) \in Seq(Message) /\ Len(SubSeq(d, b, Len(d))) = Len(d) - b + 1
        /\ \A i \in 1..(Len(d) - b + 1) : SubSeq(d, b, Len(d))[i] = d[i + b - 1]
    BY <1>2, <1>3, KeptFrom
  <2> DEFINE w == SubSeq(s, k, Len(s))
  <2>2. w \in Seq(Message) /\ Len(w) = Len(s) - k + 1 /\ \A i \in 1..Len(w) : w[i] = s[i + k - 1]
    <3> HIDE DEF k
    <3> QED BY <1>5, KeptFrom
  <2>3. \A i \in 1..(Len(d) - b + 1) : d[i + b - 1] = s[i + k - 1]
    BY <1>2, <1>3, <1>4
  <2> HIDE DEF w
  <2>4. SubSeq(d, b, Len(d)) = w
    BY <1>5, <2>1, <2>2, <2>3, SameElements
  <2> QED BY <2>4 DEF w
<1>8. Window!Kept(s, k)
  <2>1. Len(s) - k + 1 <= MaxMessages
    BY <1>0, <1>1, <1>5
  <2>2. k <= Len(s) => s[k].role = "user"
    <3> SUFFICES ASSUME k <= Len(s) PROVE s[k].role = "user"
      OBVIOUS
    <3>1. b \in 1..Len(d) /\ b <= Len(d)
      BY <1>0, <1>2, <1>3, <1>4
    <3> QED BY <1>2, <1>3, <3>1
  <2> QED BY <2>1, <2>2 DEF Window!Kept
<1>9. ASSUME NEW j \in 1..(k - 1) PROVE ~Window!Kept(s, j)
  <2>1. CASE j \in 1..(a - 1)
    <3>1. ~(Len(s) - j + 1 <= MaxMessages)
      BY <1>0, <1>1, <2>1
    <3> QED BY <3>1 DEF Window!Kept
  <2>2. CASE ~(j \in 1..(a - 1))
    <3> DEFINE i == j - a + 1
    <3>1. i \in 1..Len(d) /\ ~(b <= i) /\ i + a - 1 = j /\ j <= Len(s)
      BY <1>0, <1>2, <1>3, <1>4, <2>2
    <3>2. d[i] = s[j]
      BY <1>2, <3>1
    <3>3. s[j].role # "user"
      BY <1>3, <3>1, <3>2
    <3> QED BY <3>1, <3>3 DEF Window!Kept
  <2> QED BY <2>1, <2>2
<1>10. FirstKept(s, k)
  BY <1>5, <1>8, <1>9 DEF FirstKept
<1> QED BY <1>6, <1>7, <1>10

\* Pruning leaves a suffix, and the last message when that is the user's.
LEMMA PrunedIsSuffix ==
    ASSUME NEW s \in Seq(Message), s # <<>>
    PROVE  \E k \in 1..(Len(s) + 1) :
              /\ PruneRows(s) = SubSeq(s, k, Len(s))
              /\ s[Len(s)].role = "user" => k <= Len(s)
<1>1. PICK k : FirstKept(s, k) /\ PruneRows(s) = SubSeq(s, k, Len(s))
  BY TablePrunes
<1>2. k \in 1..(Len(s) + 1)
  BY <1>1 DEF FirstKept
<1>3. ASSUME s[Len(s)].role = "user", ~(k <= Len(s)) PROVE FALSE
  <2>1. Len(s) \in 1..(k - 1) /\ Len(s) - Len(s) + 1 <= MaxMessages
    BY <1>2, <1>3, HistoryAssumption
  <2>2. ~Window!Kept(s, Len(s))
    BY <1>1, <2>1 DEF FirstKept
  <2> QED BY <1>3, <2>1, <2>2 DEF Window!Kept
<1> QED BY <1>1, <1>2, <1>3

-----------------------------------------------------------------------------
(* The inductive invariant.                                                *)

\* Rows in order: what is remembered was answered, and follows its question.
InOrder(s) ==
    /\ s \in Seq(Message)
    /\ \A i \in 1..Len(s) : s[i].turn \in answered
    /\ \A i \in 1..Len(s) :
          s[i].role = "assistant" /\ i > 1 =>
              s[i - 1] = [role |-> "user", turn |-> s[i].turn]

\* While a turn is being filed it was answered; what has been inserted is still
\* there, and the answer comes after its question.
Filing ==
    /\ turn \in 0..MaxTurns /\ role \in {"user", "assistant"}
    /\ at # "idle" => turn \in 1..MaxTurns
    /\ at \in {"insert", "prune"} => turn \in answered
    /\ at = "prune" => rows # <<>> /\ rows[Len(rows)] = [role |-> role, turn |-> turn]
    /\ at = "insert" /\ role = "assistant" =>
          rows # <<>> /\ rows[Len(rows)] = [role |-> "user", turn |-> turn]

HistoryInv == InOrder(rows) /\ Filing

USE HistoryAssumption

\* The oldest may go, whatever they are: order is between neighbours.
LEMMA SuffixInOrder ==
    ASSUME NEW s, InOrder(s), NEW k \in 1..(Len(s) + 1)
    PROVE  InOrder(SubSeq(s, k, Len(s)))
<1> DEFINE w == SubSeq(s, k, Len(s))
<1>1. /\ w \in Seq(Message) /\ Len(w) = Len(s) - k + 1
      /\ \A i \in 1..Len(w) : w[i] = s[i + k - 1]
  BY KeptFrom DEF InOrder
<1>2. Len(s) \in Nat
  BY DEF InOrder
<1> HIDE DEF w
<1>3. \A i \in 1..Len(w) : i + k - 1 \in 1..Len(s)
  BY <1>1, <1>2
<1>4. \A i \in 1..Len(w) : w[i].turn \in answered
  BY <1>1, <1>3 DEF InOrder
<1>5. ASSUME NEW i \in 1..Len(w), w[i].role = "assistant", i > 1
      PROVE  w[i - 1] = [role |-> "user", turn |-> w[i].turn]
  <2>1. w[i] = s[i + k - 1] /\ w[i - 1] = s[i + k - 2]
    BY <1>1, <1>5, <1>2
  <2>2. i + k - 1 \in 1..Len(s) /\ i + k - 1 > 1
    BY <1>3, <1>5
  <2>3. s[i + k - 1 - 1] = [role |-> "user", turn |-> s[i + k - 1].turn]
    BY <2>1, <2>2, <1>5 DEF InOrder
  <2> QED BY <2>1, <2>3
<1> QED BY <1>1, <1>4, <1>5 DEF InOrder, w

\* A row inserted has its turn's question before it, or is one.
LEMMA InsertKeeps == HistoryInv /\ Insert => HistoryInv'
<1> SUFFICES ASSUME HistoryInv, Insert PROVE HistoryInv'
  OBVIOUS
<1> DEFINE m == [role |-> role, turn |-> turn]
<1>1. /\ rows' = Append(rows, m) /\ at' = "prune" /\ at = "insert"
      /\ UNCHANGED <<role, turn, answered>>
  BY DEF Insert
<1>2. m \in Message /\ turn \in answered /\ m.turn = turn /\ m.role = role
  BY <1>1 DEF HistoryInv, Filing, Message
<1>3. rows \in Seq(Message) /\ Len(rows) \in Nat
  BY DEF HistoryInv, InOrder
<1> HIDE DEF m
<1>4. /\ rows' \in Seq(Message) /\ Len(rows') = Len(rows) + 1 /\ rows' # <<>>
      /\ \A i \in 1..Len(rows) : rows'[i] = rows[i]
      /\ rows'[Len(rows) + 1] = m
  BY <1>1, <1>2, <1>3
<1>5. \A i \in 1..Len(rows') : rows'[i].turn \in answered
  BY <1>2, <1>3, <1>4 DEF HistoryInv, InOrder
<1>6. ASSUME NEW i \in 1..Len(rows'), rows'[i].role = "assistant", i > 1
      PROVE  rows'[i - 1] = [role |-> "user", turn |-> rows'[i].turn]
  <2>1. CASE i \in 1..Len(rows)
    <3>1. i - 1 \in 1..Len(rows) BY <1>6, <2>1, <1>3
    <3> QED BY <1>4, <1>6, <2>1, <3>1 DEF HistoryInv, InOrder
  <2>2. CASE i = Len(rows) + 1
    <3>1. role = "assistant" /\ i - 1 = Len(rows) /\ Len(rows) \in 1..Len(rows)
      BY <1>2, <1>3, <1>4, <1>6, <2>2
    <3>2. rows[Len(rows)] = [role |-> "user", turn |-> turn]
      BY <3>1, <1>1 DEF HistoryInv, Filing
    <3> QED BY <1>2, <1>4, <2>2, <3>1, <3>2
  <2> QED BY <1>3, <1>4, <2>1, <2>2
<1>7. InOrder(rows)'
  BY <1>1, <1>4, <1>5, <1>6 DEF InOrder
<1>8. Filing'
  BY <1>1, <1>2, <1>4 DEF HistoryInv, Filing, m
<1> QED BY <1>7, <1>8 DEF HistoryInv

\* Pruning keeps the order, and the question whose answer is still to come.
LEMMA PruneKeeps == HistoryInv /\ Prune => HistoryInv'
<1> SUFFICES ASSUME HistoryInv, Prune PROVE HistoryInv'
  OBVIOUS
<1>1. /\ rows' = PruneRows(rows) /\ at = "prune" /\ role' = "assistant"
      /\ at' = IF role = "user" THEN "insert" ELSE "idle"
      /\ UNCHANGED <<turn, answered>>
  BY DEF Prune
<1>2. /\ rows \in Seq(Message) /\ rows # <<>> /\ Len(rows) \in Nat
      /\ rows[Len(rows)] = [role |-> role, turn |-> turn]
  BY <1>1 DEF HistoryInv, Filing, InOrder
<1>3. PICK k \in 1..(Len(rows) + 1) :
         /\ PruneRows(rows) = SubSeq(rows, k, Len(rows))
         /\ rows[Len(rows)].role = "user" => k <= Len(rows)
  BY <1>2, PrunedIsSuffix
<1>4. InOrder(rows')
  BY <1>1, <1>3, SuffixInOrder DEF HistoryInv
<1>5. InOrder(rows)'
  BY <1>1, <1>4 DEF InOrder
<1>6. CASE role = "user"
  <2>1. k <= Len(rows)
    BY <1>2, <1>3, <1>6
  <2>2. /\ Len(rows') = Len(rows) - k + 1
        /\ \A i \in 1..Len(rows') : rows'[i] = rows[i + k - 1]
    BY <1>1, <1>2, <1>3, KeptFrom
  <2>3. Len(rows') \in 1..Len(rows') /\ Len(rows') + k - 1 = Len(rows)
    BY <1>2, <2>1, <2>2
  <2>4. rows'[Len(rows')] = rows[Len(rows)]
    BY <2>2, <2>3
  <2>5. rows' # <<>>
    BY <2>3
  <2> QED BY <1>1, <1>2, <1>5, <1>6, <2>4, <2>5 DEF HistoryInv, Filing
<1>7. CASE role # "user"
  BY <1>1, <1>5, <1>7 DEF HistoryInv, Filing
<1> QED BY <1>6, <1>7

\* Every reachable state satisfies the invariant.
THEOREM HistoryInvHolds == Spec => []HistoryInv
<1>1. Init => HistoryInv
  BY DEF Init, HistoryInv, InOrder, Filing
<1>2. HistoryInv /\ [Next]_vars => HistoryInv'
  <2> SUFFICES ASSUME HistoryInv, [Next]_vars PROVE HistoryInv'
    OBVIOUS
  <2>1. ASSUME UNCHANGED <<rows, turn, role, answered>>, at' \in {"idle", at} PROVE HistoryInv'
    BY <2>1 DEF HistoryInv, InOrder, Filing
  <2>2. CASE Begin
    <3>1. at' = "model" /\ turn' = turn + 1 /\ turn < MaxTurns /\ UNCHANGED <<rows, role, answered>>
      BY <2>2 DEF Begin
    <3>2. turn' \in 1..MaxTurns
      BY <3>1 DEF HistoryInv, Filing
    <3> QED BY <3>1, <3>2 DEF HistoryInv, InOrder, Filing
  <2>3. ASSUME NEW raw \in Replies, Answer(raw) PROVE HistoryInv'
    <3>1. /\ at = "model" /\ at' = "insert" /\ role' = "user"
          /\ answered' = answered \cup {turn} /\ UNCHANGED <<rows, turn>>
      BY <2>3 DEF Answer
    <3> QED BY <3>1 DEF HistoryInv, InOrder, Filing
  <2>4. ASSUME NEW raw \in Replies, RunTools(raw) PROVE HistoryInv'
    BY <2>1, <2>4 DEF RunTools
  <2>5. CASE Degrade \/ StoreFails \/ Overtaken \/ Crash \/ UNCHANGED vars
    BY <2>1, <2>5 DEF Degrade, StoreFails, Overtaken, Crash, vars
  <2> QED
    BY <2>2, <2>3, <2>4, <2>5, InsertKeeps, PruneKeeps DEF Next
<1> QED BY <1>1, <1>2, PTL DEF Spec

\* An answer is never remembered under a question it does not answer, nor a turn
\* that only apologised, whatever failed between the four transactions.
THEOREM AnswersStayWithQuestions == Spec => []AnswersFollowTheirQuestions
<1>1. HistoryInv => AnswersFollowTheirQuestions
  <2> SUFFICES ASSUME HistoryInv PROVE AnswersFollowTheirQuestions
    OBVIOUS
  <2>1. InOrder(rows)
    BY DEF HistoryInv
  <2>2. DOMAIN rows = 1..Len(rows)
    <3>1. rows \in Seq(Message)
      BY <2>1 DEF InOrder
    <3> QED BY <3>1
  <2>3. \A i \in 1..Len(rows) : rows[i].turn \in answered
    BY <2>1 DEF InOrder
  <2>4. \A i \in 1..Len(rows) :
           rows[i].role = "assistant" /\ i > 1 =>
               rows[i - 1] = [role |-> "user", turn |-> rows[i].turn]
    BY <2>1 DEF InOrder
  <2> QED BY <2>2, <2>3, <2>4 DEF AnswersFollowTheirQuestions
<1> QED BY <1>1, HistoryInvHolds, PTL

-----------------------------------------------------------------------------
(* The table amounts to the window.                                        *)

\* What is pruned has nothing more to lose.
LEMMA PrunedAgain ==
    ASSUME NEW s \in Seq(Message)
    PROVE  PruneRows(s) \in Seq(Message) /\ PruneRows(PruneRows(s)) = PruneRows(s)
<1>1. PICK k : FirstKept(s, k) /\ PruneRows(s) = SubSeq(s, k, Len(s))
  BY TablePrunes
<1> DEFINE p == PruneRows(s)
<1>2. k \in 1..(Len(s) + 1)
  BY <1>1 DEF FirstKept
<1>3. p \in Seq(Message) /\ Len(p) = Len(s) - k + 1 /\ \A i \in 1..Len(p) : p[i] = s[i + k - 1]
  BY <1>1, <1>2, KeptFrom
<1>4. p \in Seq(Message) /\ Len(p) \in Nat /\ Len(s) \in Nat
  BY <1>3
<1> HIDE DEF p
<1>5. PICK n : FirstKept(p, n) /\ PruneRows(p) = SubSeq(p, n, Len(p))
  BY <1>4, TablePrunes
<1>6. Window!Kept(p, 1)
  <2>1. Len(p) - 1 + 1 <= MaxMessages
    <3>1. Len(s) - k + 1 <= MaxMessages
      BY <1>1 DEF FirstKept, Window!Kept
    <3> QED BY <1>3, <1>4, <3>1
  <2>2. 1 <= Len(p) => p[1].role = "user"
    <3> SUFFICES ASSUME 1 <= Len(p) PROVE p[1].role = "user"
      OBVIOUS
    <3>1. 1 \in 1..Len(p) /\ k <= Len(s) /\ 1 + k - 1 = k
      BY <1>2, <1>3, <1>4
    <3>2. s[k].role = "user"
      BY <1>1, <3>1 DEF FirstKept, Window!Kept
    <3> QED BY <1>3, <3>1, <3>2
  <2> QED BY <2>1, <2>2 DEF Window!Kept
<1>7. n = 1
  <2>1. n \in 1..(Len(p) + 1) /\ ~(1 \in 1..(n - 1))
    BY <1>5, <1>6 DEF FirstKept
  <2> QED BY <1>4, <2>1
<1>8. SubSeq(p, 1, Len(p)) = p
  BY <1>4
<1> QED BY <1>3, <1>5, <1>7, <1>8 DEF p

\* A message added to what was pruned late, or in time: the same is left.
LEMMA PrunedLate ==
    ASSUME NEW s \in Seq(Message), NEW m \in Message
    PROVE  PruneRows(Append(s, m)) = Window!Pruned(Append(PruneRows(s), m))
<1>1. PICK k : FirstKept(s, k) /\ PruneRows(s) = SubSeq(s, k, Len(s))
  BY TablePrunes
<1> DEFINE p == PruneRows(s)
           t == Append(s, m)
           q == Append(p, m)
<1>2. k \in 1..(Len(s) + 1)
  BY <1>1 DEF FirstKept
<1>3. p \in Seq(Message) /\ Len(p) = Len(s) - k + 1 /\ \A i \in 1..Len(p) : p[i] = s[i + k - 1]
  BY <1>1, <1>2, KeptFrom
<1>4. /\ t \in Seq(Message) /\ Len(t) = Len(s) + 1 /\ t[Len(s) + 1] = m /\ Len(s) \in Nat
      /\ \A i \in 1..Len(s) : t[i] = s[i]
  OBVIOUS
<1> HIDE DEF p
<1>5. /\ q \in Seq(Message) /\ Len(q) = Len(p) + 1 /\ q[Len(p) + 1] = m /\ Len(p) \in Nat
      /\ \A i \in 1..Len(p) : q[i] = p[i]
  BY <1>3
<1> HIDE DEF t, q
<1>6. Len(q) = Len(t) - k + 1
  BY <1>2, <1>3, <1>4, <1>5
<1>. /\ k \in Nat /\ 1 <= k /\ Len(s) \in Nat /\ Len(p) \in Nat /\ Len(q) \in Nat /\ Len(t) \in Nat
     /\ Len(p) = Len(s) - k + 1 /\ Len(q) = Len(p) + 1 /\ Len(t) = Len(s) + 1
  BY <1>2, <1>3, <1>4, <1>5
<1>7. ASSUME NEW i \in 1..Len(q) PROVE q[i] = t[i + k - 1]
  <2>1. CASE i = Len(p) + 1
    <3>1. i + k - 1 = Len(s) + 1
      BY <1>2, <1>3, <1>4, <1>5, <2>1
    <3> QED BY <1>4, <1>5, <2>1, <3>1
  <2>2. CASE i # Len(p) + 1
    <3>1. i \in 1..Len(p) /\ i + k - 1 \in 1..Len(s)
      BY <2>2
    <3> QED BY <1>3, <1>4, <1>5, <3>1
  <2> QED BY <2>1, <2>2
<1>8. PICK l : FirstKept(t, l) /\ PruneRows(t) = SubSeq(t, l, Len(t))
  BY <1>4, TablePrunes
<1>9. l \in 1..(Len(t) + 1)
  BY <1>8 DEF FirstKept
\* Whatever the window would not keep before m it does not keep with m after it.
<1>10. k <= l
  <2> SUFFICES ASSUME ~(k <= l) PROVE FALSE
    OBVIOUS
  <2>1. l \in 1..(k - 1) /\ l \in 1..Len(s)
    BY <1>2, <1>4, <1>9
  <2>2. ~Window!Kept(s, l)
    BY <1>1, <2>1 DEF FirstKept
  <2>3. Window!Kept(t, l)
    BY <1>8 DEF FirstKept
  <2>4. Len(t) - l + 1 <= MaxMessages /\ (l <= Len(t) => t[l].role = "user")
    BY <2>3 DEF Window!Kept
  <2>5. Len(s) - l + 1 <= MaxMessages /\ l <= Len(t)
    BY <1>4, <2>1, <2>4, HistoryAssumption
  <2>6. s[l].role = "user"
    BY <1>4, <2>1, <2>4, <2>5
  <2> QED BY <2>2, <2>5, <2>6 DEF Window!Kept
<1> DEFINE n == l - k + 1
<1>11. n \in 1..(Len(q) + 1) /\ n + k - 1 = l /\ Len(q) \in Nat /\ Len(t) \in Nat
  BY <1>2, <1>4, <1>5, <1>6, <1>9, <1>10
<1>12. ASSUME NEW i \in 1..(Len(q) + 1)
       PROVE  Window!Kept(q, i) <=> Window!Kept(t, i + k - 1)
  <2>1. /\ Len(q) - i + 1 = Len(t) - (i + k - 1) + 1
        /\ i <= Len(q) <=> i + k - 1 <= Len(t)
    OBVIOUS
  <2>2. i <= Len(q) => q[i] = t[i + k - 1]
    <3>1. i <= Len(q) => i \in 1..Len(q)
      OBVIOUS
    <3> QED BY <1>7, <3>1
  <2> QED BY <2>1, <2>2 DEF Window!Kept
<1>13. FirstKept(q, n)
  <2>1. Window!Kept(q, n)
    BY <1>8, <1>11, <1>12 DEF FirstKept
  <2>2. ASSUME NEW j \in 1..(n - 1) PROVE ~Window!Kept(q, j)
    <3>1. j \in 1..(Len(q) + 1) /\ j + k - 1 \in 1..(l - 1)
      BY <1>2, <1>9, <1>11
    <3> QED BY <1>8, <1>12, <3>1 DEF FirstKept
  <2> QED BY <1>11, <2>1, <2>2 DEF FirstKept
<1>14. Window!Pruned(q) = SubSeq(q, n, Len(q))
  BY <1>5, <1>13, WindowPrunes
<1>15. SubSeq(q, n, Len(q)) = SubSeq(t, l, Len(t))
  <2> DEFINE v == SubSeq(q, n, Len(q))
             w == SubSeq(t, l, Len(t))
  <2>1. v \in Seq(Message) /\ Len(v) = Len(q) - n + 1 /\ \A i \in 1..Len(v) : v[i] = q[i + n - 1]
    <3> HIDE DEF n
    <3> QED BY <1>5, <1>11, KeptFrom
  <2>2. w \in Seq(Message) /\ Len(w) = Len(t) - l + 1 /\ \A i \in 1..Len(w) : w[i] = t[i + l - 1]
    BY <1>4, <1>9, KeptFrom
  <2> HIDE DEF v, w
  <2>3. Len(v) = Len(w)
    BY <1>2, <1>6, <1>9, <1>11, <2>1, <2>2
  <2>4. ASSUME NEW i \in 1..Len(v) PROVE v[i] = w[i]
    <3>1. i + n - 1 \in 1..Len(q) /\ (i + n - 1) + k - 1 = i + l - 1
      BY <1>9, <1>11, <2>1
    <3>2. q[i + n - 1] = t[(i + n - 1) + k - 1]
      BY <1>7, <3>1
    <3> QED BY <2>1, <2>2, <2>3, <3>1, <3>2
  <2> QED BY <2>1, <2>2, <2>3, <2>4, SameElements DEF v, w
<1> QED BY <1>8, <1>14, <1>15 DEF p, q, t

\* The table implements the window of the in-memory store: an insertion remembers
\* a message, whether or not the pruning before it was done, and no other step is
\* seen, pruning included.
THEOREM AmountsToTheWindow == Spec => ImplementsWindow
<1>1. Init => Window!Init
  <2> SUFFICES ASSUME rows = <<>> PROVE PruneRows(rows) = <<>>
    BY DEF Init, Window!Init
  <2>1. rows \in Seq(Message) /\ Len(rows) = 0
    OBVIOUS
  <2>2. PICK k : FirstKept(rows, k) /\ PruneRows(rows) = SubSeq(rows, k, Len(rows))
    BY <2>1, TablePrunes
  <2>3. k \in 1..(Len(rows) + 1)
    BY <2>2 DEF FirstKept
  <2>4. PruneRows(rows) \in Seq(Message) /\ Len(PruneRows(rows)) = 0
    BY <2>1, <2>2, <2>3, KeptFrom
  <2> QED BY <2>4
<1>2. HistoryInv /\ [Next]_vars => [Window!Next]_(PruneRows(rows))
  <2> SUFFICES ASSUME HistoryInv, [Next]_vars
               PROVE  Window!Next \/ PruneRows(rows)' = PruneRows(rows)
    OBVIOUS
  <2>0. rows \in Seq(Message)
    BY DEF HistoryInv, InOrder
  <2>1. CASE Insert
    <3> DEFINE m == [role |-> role, turn |-> turn]
    <3>1. m \in Message
      BY <2>1 DEF Insert, HistoryInv, Filing, Message
    <3>2. rows' = Append(rows, m)
      BY <2>1 DEF Insert
    <3> HIDE DEF m
    <3>3. PruneRows(rows)' = Window!Pruned(Append(PruneRows(rows), m))
      <4>1. PruneRows(Append(rows, m)) = Window!Pruned(Append(PruneRows(rows), m))
        BY <2>0, <3>1, PrunedLate
      <4>2. PruneRows(rows)' = PruneRows(rows')
        BY DEF PruneRows, DropOrphans, DropExcess, FirstOfUser
      <4> QED BY <3>2, <4>1, <4>2
    <3>4. Window!Remember(m)
      BY <3>3 DEF Window!Remember
    <3> QED BY <3>1, <3>4 DEF Window!Next
  <2>2. CASE Prune
    <3>1. PruneRows(rows)' = PruneRows(rows')
      BY DEF PruneRows, DropOrphans, DropExcess, FirstOfUser
    <3>2. rows' = PruneRows(rows)
      BY <2>2 DEF Prune
    <3> QED BY <2>0, <3>1, <3>2, PrunedAgain
  <2>3. CASE UNCHANGED rows
    BY <2>3 DEF PruneRows, DropOrphans, DropExcess, FirstOfUser
  <2>4. Insert \/ Prune \/ UNCHANGED rows
    BY DEF Next, Begin, RunTools, Degrade, Answer, StoreFails, Overtaken, Crash, vars
  <2> QED BY <2>1, <2>2, <2>3, <2>4
<1> QED BY <1>1, <1>2, HistoryInvHolds, PTL DEF Spec, ImplementsWindow, Window!Spec

-----------------------------------------------------------------------------
(***************************************************************************)
(* The conversation: what the API accepts, and what the model finds of its *)
(* own replies.  The operators of Translation first, in either dialect,    *)
(* then the turn.                                                          *)
(***************************************************************************)

-----------------------------------------------------------------------------
(* What is in a message.                                                   *)

Ids == Nat \X Nat
Inputs == {Decoded(a) : a \in Arguments}
TextBlock == [type : {"text"}, text : {Prose, Empty}]
UseBlock == [type : {"tool_use"}, id : Ids, input : Inputs]
ResultBlock == [type : {"tool_result"}, tool_use_id : Ids]

PlainMessage == [role : {"user", "assistant"}, content : {Prose}]
ReplyMessage == [role : {"assistant"}, blocks : Seq(TextBlock \cup UseBlock)]
ResultMessage == [role : {"user"}, blocks : Seq(ResultBlock)]
RouterMessage == PlainMessage \cup ReplyMessage \cup ResultMessage

\* The blocks of one type, when all or none of them are of it.
LEMMA OfTypeIsSeq ==
    ASSUME NEW T, NEW s \in Seq(T), NEW type
    PROVE  OfType(s, type) \in Seq({b \in T : b.type = type})
<1> DEFINE S == {b \in ToSet(s) : b.type = type}
<1>1. OfType(s, type) \in Seq(T \cap S)
  <2> HIDE DEF S
  <2>1. Those(s, S) \in Seq(T \cap S)
    BY ThoseAreSome
  <2> QED BY <2>1 DEF OfType, S
<1>2. T \cap S \subseteq {b \in T : b.type = type}
  OBVIOUS
<1> HIDE DEF S
<1> QED BY <1>1, <1>2, SeqMonotonic

LEMMA OfTypeAll ==
    ASSUME NEW T, NEW s \in Seq(T), NEW type, \A b \in T : b.type = type
    PROVE  OfType(s, type) = s
<1> DEFINE S == {b \in ToSet(s) : b.type = type}
<1>1. \A i \in 1..Len(s) : s[i] \in S
  BY DEF ToSet
<1> HIDE DEF S
<1>2. Those(s, S) = s
  BY <1>1, ThoseOfAll
<1> QED BY <1>2 DEF OfType, S

LEMMA OfTypeNone ==
    ASSUME NEW T, NEW s \in Seq(T), NEW type, \A b \in T : b.type # type
    PROVE  OfType(s, type) = <<>>
<1> DEFINE S == {b \in ToSet(s) : b.type = type}
<1>1. \A i \in 1..Len(s) : s[i] \notin S
  <2> SUFFICES ASSUME NEW i \in 1..Len(s) PROVE s[i] \notin S
    OBVIOUS
  <2>1. s[i] \in T
    OBVIOUS
  <2> QED BY <2>1
<1> HIDE DEF S
<1>2. Those(s, S) = <<>>
  BY <1>1, ThoseOfNone
<1> QED BY <1>2 DEF OfType, S

-----------------------------------------------------------------------------
(* Anthropic's dialect.                                                    *)

\* The blocks of one type in a message.
BlocksOf(m, type) == IF "blocks" \in DOMAIN m THEN OfType(m.blocks, type) ELSE <<>>

LEMMA PlainHasNoBlocks ==
    ASSUME NEW m \in PlainMessage, NEW type PROVE BlocksOf(m, type) = <<>>
<1>1. DOMAIN m = {"role", "content"}
  BY DEF PlainMessage
<1> QED BY <1>1 DEF BlocksOf

LEMMA ReplyHasNoResults ==
    ASSUME NEW m \in ReplyMessage
    PROVE  /\ BlocksOf(m, "tool_result") = <<>>
           /\ BlocksOf(m, "tool_use") = OfType(m.blocks, "tool_use")
           /\ BlocksOf(m, "tool_use") \in Seq(UseBlock)
<1>1. DOMAIN m = {"role", "blocks"} /\ m.blocks \in Seq(TextBlock \cup UseBlock)
  BY DEF ReplyMessage
<1>2. \A b \in TextBlock \cup UseBlock : b.type # "tool_result"
  BY DEF TextBlock, UseBlock
<1>3. OfType(m.blocks, "tool_result") = <<>>
  BY <1>1, <1>2, OfTypeNone
<1>4. OfType(m.blocks, "tool_use") \in Seq({b \in TextBlock \cup UseBlock : b.type = "tool_use"})
  BY <1>1, OfTypeIsSeq
<1>5. {b \in TextBlock \cup UseBlock : b.type = "tool_use"} \subseteq UseBlock
  BY DEF TextBlock
<1>6. OfType(m.blocks, "tool_use") \in Seq(UseBlock)
  BY <1>4, <1>5, SeqMonotonic
<1> QED BY <1>1, <1>3, <1>6 DEF BlocksOf

LEMMA ResultsHaveNoCalls ==
    ASSUME NEW m \in ResultMessage
    PROVE  BlocksOf(m, "tool_use") = <<>> /\ BlocksOf(m, "tool_result") = m.blocks
<1>1. DOMAIN m = {"role", "blocks"} /\ m.blocks \in Seq(ResultBlock)
  BY DEF ResultMessage
<1>2. \A b \in ResultBlock : b.type # "tool_use" /\ b.type = "tool_result"
  BY DEF ResultBlock
<1>3. OfType(m.blocks, "tool_use") = <<>>
  BY <1>1, <1>2, OfTypeNone
<1>4. OfType(m.blocks, "tool_result") = m.blocks
  BY <1>1, <1>2, OfTypeAll
<1> QED BY <1>1, <1>3, <1>4 DEF BlocksOf

\* Where there are calls, with their ids, and where there are results.
CallsAt(p) == {<<i + 1, [k \in DOMAIN BlocksOf(p[i], "tool_use") |-> BlocksOf(p[i], "tool_use")[k].id]>> :
                  i \in {j \in DOMAIN p : BlocksOf(p[j], "tool_use") # <<>>}}
ResultsAt(p) == {<<i, [k \in DOMAIN BlocksOf(p[i], "tool_result") |-> BlocksOf(p[i], "tool_result")[k].tool_use_id]>> :
                  i \in {j \in DOMAIN p : BlocksOf(p[j], "tool_result") # <<>>}}

LEMMA AnthropicAcceptsIs ==
    ASSUME NEW p PROVE AnthropicAccepts(p) <=> p[1].role = "user" /\ CallsAt(p) = ResultsAt(p)
BY DEF AnthropicAccepts, CallsAt, ResultsAt, BlocksOf, Mapped

\* A conversation without calls is accepted.
LEMMA AnthropicAcceptsProse ==
    ASSUME NEW p \in Seq(PlainMessage), p[1].role = "user" PROVE AnthropicAccepts(p)
<1>1. \A i \in DOMAIN p : p[i] \in PlainMessage
  OBVIOUS
<1>2. \A i \in DOMAIN p : BlocksOf(p[i], "tool_use") = <<>> /\ BlocksOf(p[i], "tool_result") = <<>>
  BY <1>1, PlainHasNoBlocks
<1>3. CallsAt(p) = {} /\ ResultsAt(p) = {}
  BY <1>2 DEF CallsAt, ResultsAt
<1> QED BY <1>3, AnthropicAcceptsIs

\* A round of tools more is accepted when there is one result for each call.
LEMMA AnthropicAcceptsARound ==
    ASSUME NEW p \in Seq(RouterMessage), p # <<>>, AnthropicAccepts(p),
           NEW a \in ReplyMessage, NEW u \in ResultMessage,
           BlocksOf(a, "tool_use") # <<>>,
           u.blocks = [i \in DOMAIN BlocksOf(a, "tool_use") |-> ToolResult(BlocksOf(a, "tool_use")[i].id)]
    PROVE  AnthropicAccepts(p \o <<a, u>>)
<1> DEFINE q == p \o <<a, u>>
           n == Len(p)
           uses == BlocksOf(a, "tool_use")
<1>1. a \in RouterMessage /\ u \in RouterMessage
  BY DEF RouterMessage
<1>2. /\ n \in Nat /\ n # 0 /\ q \in Seq(RouterMessage) /\ Len(q) = n + 2 /\ DOMAIN q = 1..(n + 2) /\ DOMAIN p = 1..n
      /\ \A i \in 1..n : q[i] = p[i]
      /\ q[n + 1] = a /\ q[n + 2] = u
  BY <1>1
<1> HIDE DEF q, n
<1>3. /\ BlocksOf(q[n + 1], "tool_use") = uses /\ BlocksOf(q[n + 1], "tool_result") = <<>>
      /\ BlocksOf(q[n + 2], "tool_use") = <<>> /\ BlocksOf(q[n + 2], "tool_result") = u.blocks
      /\ uses \in Seq(UseBlock) /\ uses # <<>>
  BY <1>2, ReplyHasNoResults, ResultsHaveNoCalls
<1> HIDE DEF uses
<1> DEFINE calls == [k \in DOMAIN uses |-> uses[k].id]
           results == [k \in DOMAIN u.blocks |-> u.blocks[k].tool_use_id]
<1>4. calls = results /\ u.blocks # <<>>
  <2>1. DOMAIN u.blocks = DOMAIN uses /\ \A k \in DOMAIN uses : u.blocks[k] = ToolResult(uses[k].id)
    BY DEF uses
  <2>2. ASSUME NEW k \in DOMAIN uses PROVE u.blocks[k].tool_use_id = uses[k].id
    <3>1. u.blocks[k] = ToolResult(uses[k].id)
      BY <2>1
    <3>2. ToolResult(uses[k].id).tool_use_id = uses[k].id
      BY DEF ToolResult
    <3> QED BY <3>1, <3>2
  <2>3. DOMAIN uses # {}
    <3>1. uses \in Seq(UseBlock) /\ uses # <<>> /\ Len(uses) # 0
      BY <1>3, EmptySeq
    <3>2. DOMAIN uses = 1..Len(uses) /\ Len(uses) \in Nat
      BY <3>1
    <3>3. 1 \in 1..Len(uses)
      BY <3>1, <3>2
    <3> QED BY <3>2, <3>3
  <2>4. u.blocks # <<>>
    <3>1. DOMAIN <<>> = {}
      OBVIOUS
    <3> QED BY <2>1, <2>3, <3>1
  <2> QED BY <2>1, <2>2, <2>4
<1> HIDE DEF calls, results
<1>5. \A i \in 1..n : i \in DOMAIN q /\ i # n + 1 /\ i # n + 2
  BY <1>2
<1>6. \A i \in DOMAIN q : i \in 1..n \/ i = n + 1 \/ i = n + 2
  BY <1>2
<1>7. CallsAt(q) = CallsAt(p) \cup {<<(n + 1) + 1, calls>>}
  <2> DEFINE At(i, m) == <<i + 1, [k \in DOMAIN BlocksOf(m, "tool_use") |-> BlocksOf(m, "tool_use")[k].id]>>
  <2>1. /\ CallsAt(q) = {At(i, q[i]) : i \in {j \in DOMAIN q : BlocksOf(q[j], "tool_use") # <<>>}}
        /\ CallsAt(p) = {At(i, p[i]) : i \in {j \in DOMAIN p : BlocksOf(p[j], "tool_use") # <<>>}}
    BY DEF CallsAt
  <2>2. At(n + 1, q[n + 1]) = <<(n + 1) + 1, calls>>
    BY <1>3 DEF calls
  <2> HIDE DEF At
  <2>3. BlocksOf(q[n + 1], "tool_use") # <<>> /\ BlocksOf(q[n + 2], "tool_use") = <<>>
    BY <1>3
  <2>4. n + 1 \in DOMAIN q
    BY <1>2
  <2>5. \A x : x \in CallsAt(p) <=> \E i \in 1..n : BlocksOf(q[i], "tool_use") # <<>> /\ x = At(i, q[i])
    <3>1. \A x : x \in CallsAt(p) <=> \E i \in DOMAIN p : BlocksOf(p[i], "tool_use") # <<>> /\ x = At(i, p[i])
      BY <2>1
    <3>2. DOMAIN p = 1..n /\ \A i \in 1..n : q[i] = p[i]
      BY <1>2
    <3> QED BY <3>1, <3>2
  <2>6. \A x : x \in CallsAt(q) <=> \E i \in DOMAIN q : BlocksOf(q[i], "tool_use") # <<>> /\ x = At(i, q[i])
    BY <2>1
  <2>7. \A x : x \in CallsAt(q) <=> x \in CallsAt(p) \/ x = At(n + 1, q[n + 1])
    BY <1>5, <1>6, <2>3, <2>4, <2>5, <2>6
  <2> QED BY <2>2, <2>7
<1>8. ResultsAt(q) = ResultsAt(p) \cup {<<n + 2, results>>}
  BY <1>2, <1>3, <1>4, <1>5, <1>6 DEF ResultsAt, results
<1>9. p[1].role = "user" /\ CallsAt(p) = ResultsAt(p)
  BY AnthropicAcceptsIs
<1>10. (n + 1) + 1 = n + 2 /\ 1 \in 1..n
  BY <1>2
<1>11. q[1].role = "user" /\ CallsAt(q) = ResultsAt(q)
  BY <1>2, <1>4, <1>7, <1>8, <1>9, <1>10
<1> QED BY <1>11, AnthropicAcceptsIs DEF q

-----------------------------------------------------------------------------
(* Groq's dialect: what becomes of one message.                            *)

WireCall == [id : Ids, arguments : Inputs]
SpokenWire == [role : {"system", "user", "assistant"}, content : {Prose, Null}, tool_calls : Seq(WireCall)]
ResultWire == [role : {"tool"}, tool_call_id : Ids]
WireMessage == SpokenWire \cup ResultWire

AsCalls(uses) == [k \in DOMAIN uses |-> [id |-> uses[k].id, arguments |-> uses[k].input]]
AsResults(blocks) == [k \in DOMAIN blocks |-> [role |-> "tool", tool_call_id |-> blocks[k].tool_use_id]]
WireReply(m) == [role |-> "assistant", content |-> text_of(m.blocks),
                 tool_calls |-> AsCalls(OfType(m.blocks, "tool_use"))]

LEMMA WireOfPlain ==
    ASSUME NEW m \in PlainMessage
    PROVE  /\ GroqMessages(m) = <<Plain(m.role, Prose)>>
           /\ Plain(m.role, Prose) \in SpokenWire
<1>1. /\ "content" \in DOMAIN m /\ "blocks" \notin DOMAIN m
      /\ m.content = Prose /\ m.role \in {"user", "assistant"}
  BY DEF PlainMessage
<1>2. GroqMessages(m) = <<Plain(m.role, m.content)>>
  BY <1>1 DEF GroqMessages, Mapped
<1>3. <<>> \in Seq(WireCall)
  OBVIOUS
<1> QED BY <1>1, <1>2, <1>3 DEF Plain, SpokenWire

LEMMA WireOfReply ==
    ASSUME NEW m \in ReplyMessage
    PROVE  /\ GroqMessages(m) = <<WireReply(m)>>
           /\ WireReply(m) \in SpokenWire
<1>1. "content" \notin DOMAIN m /\ "blocks" \in DOMAIN m /\ m.role = "assistant"
  BY DEF ReplyMessage
<1>2. GroqMessages(m) = <<WireReply(m)>>
  BY <1>1 DEF GroqMessages, WireReply, AsCalls, Mapped
<1> DEFINE uses == OfType(m.blocks, "tool_use")
<1>3. uses \in Seq(UseBlock)
  BY ReplyHasNoResults
<1> HIDE DEF uses
<1>4. AsCalls(uses) \in Seq(WireCall)
  <2>1. ASSUME NEW k \in 1..Len(uses)
        PROVE  [id |-> uses[k].id, arguments |-> uses[k].input] \in WireCall
    <3>1. uses[k] \in UseBlock
      BY <1>3
    <3> QED BY <3>1 DEF UseBlock, WireCall
  <2>2. DOMAIN uses = 1..Len(uses) /\ Len(uses) \in Nat
    BY <1>3
  <2> QED BY <2>1, <2>2 DEF AsCalls
<1>5. text_of(m.blocks) \in {Prose, Null}
  BY DEF text_of
<1> QED BY <1>2, <1>4, <1>5 DEF WireReply, SpokenWire, uses

LEMMA WireOfResults ==
    ASSUME NEW m \in ResultMessage
    PROVE  /\ GroqMessages(m) = AsResults(m.blocks)
           /\ AsResults(m.blocks) \in Seq(ResultWire)
<1>1. /\ "content" \notin DOMAIN m /\ "blocks" \in DOMAIN m /\ m.role # "assistant"
      /\ m.blocks \in Seq(ResultBlock)
  BY DEF ResultMessage
<1>2. OfType(m.blocks, "tool_result") = m.blocks
  BY ResultsHaveNoCalls, <1>1 DEF BlocksOf
<1>3. text_of(m.blocks) = Null
  <2>1. ASSUME NEW i \in DOMAIN m.blocks PROVE m.blocks[i].type # "text"
    <3>1. m.blocks[i] \in ResultBlock
      BY <1>1
    <3> QED BY <3>1 DEF ResultBlock
  <2> QED BY <2>1 DEF text_of
<1>4. AsResults(m.blocks) \in Seq(ResultWire)
  <2> DEFINE b == m.blocks
  <2>1. ASSUME NEW k \in 1..Len(b)
        PROVE  [role |-> "tool", tool_call_id |-> b[k].tool_use_id] \in ResultWire
    <3>1. b[k] \in ResultBlock
      BY <1>1
    <3> QED BY <3>1 DEF ResultBlock, ResultWire
  <2>2. DOMAIN b = 1..Len(b) /\ Len(b) \in Nat
    BY <1>1
  <2> HIDE DEF b
  <2>3. AsResults(b) \in Seq(ResultWire)
    BY <2>1, <2>2 DEF AsResults
  <2> QED BY <2>3 DEF b
<1>5. GroqMessages(m) = AsResults(m.blocks) \o <<>>
  BY <1>1, <1>2, <1>3 DEF GroqMessages, AsResults, Mapped
<1> QED BY <1>4, <1>5, ConcatEmptySeq

LEMMA WireIsSeq == \A m \in RouterMessage : GroqMessages(m) \in Seq(WireMessage)
<1>1. \A w \in SpokenWire : <<w>> \in Seq(WireMessage)
  BY DEF WireMessage
<1>2. ResultWire \subseteq WireMessage
  BY DEF WireMessage
<1>3. Seq(ResultWire) \subseteq Seq(WireMessage)
  BY <1>2, SeqMonotonic
<1>4. ASSUME NEW m \in PlainMessage PROVE GroqMessages(m) \in Seq(WireMessage)
  BY <1>1, WireOfPlain
<1>5. ASSUME NEW m \in ReplyMessage PROVE GroqMessages(m) \in Seq(WireMessage)
  BY <1>1, WireOfReply
<1>6. ASSUME NEW m \in ResultMessage PROVE GroqMessages(m) \in Seq(WireMessage)
  BY <1>3, WireOfResults
<1> QED BY <1>4, <1>5, <1>6 DEF RouterMessage

\* What becomes of several, one after the other.
Flat(p) == FlattenSeq([i \in DOMAIN p |-> GroqMessages(p[i])])

LEMMA ToGroqIs ==
    ASSUME NEW p PROVE to_groq_messages(p) = <<Plain("system", Prose)>> \o Flat(p)
BY DEF to_groq_messages, Flat, Mapped

LEMMA WireOfEach ==
    ASSUME NEW p \in Seq(RouterMessage)
    PROVE  /\ [i \in DOMAIN p |-> GroqMessages(p[i])] \in Seq(Seq(WireMessage))
           /\ Flat(p) \in Seq(WireMessage)
<1> DEFINE w == [i \in DOMAIN p |-> GroqMessages(p[i])]
<1>1. DOMAIN p = 1..Len(p) /\ Len(p) \in Nat /\ \A i \in 1..Len(p) : p[i] \in RouterMessage
  OBVIOUS
<1>2. \A i \in 1..Len(p) : GroqMessages(p[i]) \in Seq(WireMessage)
  BY <1>1, WireIsSeq
<1>3. w \in Seq(Seq(WireMessage))
  BY <1>1, <1>2
<1> HIDE DEF w
<1>4. FlattenSeq(w) \in Seq(WireMessage)
  BY <1>3, FlatIsSeq
<1> QED BY <1>3, <1>4 DEF w, Flat

LEMMA FlatAdds ==
    ASSUME NEW p \in Seq(RouterMessage), NEW m \in RouterMessage
    PROVE  Flat(Append(p, m)) = Flat(p) \o GroqMessages(m)
<1> DEFINE w == [i \in DOMAIN p |-> GroqMessages(p[i])]
           q == Append(p, m)
           v == [i \in DOMAIN q |-> GroqMessages(q[i])]
<1>1. w \in Seq(Seq(WireMessage)) /\ GroqMessages(m) \in Seq(WireMessage)
  BY WireOfEach, WireIsSeq
<1>2. /\ q \in Seq(RouterMessage) /\ DOMAIN q = 1..(Len(p) + 1) /\ DOMAIN p = 1..Len(p) /\ Len(p) \in Nat
      /\ q[Len(p) + 1] = m /\ \A i \in 1..Len(p) : q[i] = p[i]
  OBVIOUS
<1>3. v \in Seq(Seq(WireMessage))
  <2> HIDE DEF q
  <2> QED BY <1>2, WireOfEach
<1> HIDE DEF q
<1>4. DOMAIN v = 1..(Len(p) + 1) /\ DOMAIN w = 1..Len(p)
  BY <1>2
<1>5. v[Len(p) + 1] = GroqMessages(m) /\ \A i \in 1..Len(p) : v[i] = w[i]
  BY <1>2
<1> HIDE DEF v, w
<1>6. Len(w) = Len(p) /\ Len(v) = Len(p) + 1
  BY <1>1, <1>2, <1>3, <1>4
<1>7. v = Append(w, GroqMessages(m))
  BY <1>1, <1>2, <1>3, <1>5, <1>6
<1>8. FlattenSeq(v) = FlattenSeq(w) \o GroqMessages(m)
  BY <1>1, <1>7, FlatOfMore
<1> QED BY <1>8 DEF Flat, v, w, q

LEMMA FlatRound ==
    ASSUME NEW p \in Seq(RouterMessage), NEW a \in ReplyMessage, NEW u \in ResultMessage
    PROVE  Flat(p \o <<a, u>>) = (Flat(p) \o <<WireReply(a)>>) \o AsResults(u.blocks)
<1>1. a \in RouterMessage /\ u \in RouterMessage
  BY DEF RouterMessage
<1>2. p \o <<a, u>> = Append(Append(p, a), u) /\ Append(p, a) \in Seq(RouterMessage)
  BY <1>1
<1>3. Flat(Append(Append(p, a), u)) = Flat(Append(p, a)) \o GroqMessages(u)
  BY <1>1, <1>2, FlatAdds
<1>4. Flat(Append(p, a)) = Flat(p) \o GroqMessages(a)
  BY <1>1, FlatAdds
<1> QED BY <1>2, <1>3, <1>4, WireOfReply, WireOfResults

\* Prose stays prose, whoever's it is.
LEMMA FlatOfProse ==
    ASSUME NEW p \in Seq(PlainMessage)
    PROVE  Flat(p) = [i \in 1..Len(p) |-> Plain(p[i].role, Prose)]
<1> DEFINE w == [i \in DOMAIN p |-> GroqMessages(p[i])]
           g == [n \in 0..Len(p) |-> [i \in 1..n |-> Plain(p[i].role, Prose)]]
<1>1. p \in Seq(RouterMessage) /\ Len(p) \in Nat /\ DOMAIN p = 1..Len(p)
  <2>1. PlainMessage \subseteq RouterMessage
    BY DEF RouterMessage
  <2>2. p \in Seq(RouterMessage)
    BY <2>1, SeqMonotonic
  <2> QED BY <2>2
<1>2. /\ w \in Seq(Seq(WireMessage)) /\ Len(w) = Len(p)
      /\ \A i \in 1..Len(p) : w[i] = <<Plain(p[i].role, Prose)>> /\ Plain(p[i].role, Prose) \in SpokenWire
  <2>1. w \in Seq(Seq(WireMessage))
    BY <1>1, WireOfEach
  <2>2. DOMAIN w = 1..Len(p)
    BY <1>1
  <2>3. Len(w) = Len(p)
    <3> HIDE DEF w
    <3> QED BY <1>1, <2>1, <2>2
  <2>4. ASSUME NEW i \in 1..Len(p)
        PROVE  w[i] = <<Plain(p[i].role, Prose)>> /\ Plain(p[i].role, Prose) \in SpokenWire
    BY <1>1, WireOfPlain
  <2> HIDE DEF w
  <2> QED BY <2>1, <2>3, <2>4
<1> HIDE DEF w
<1>3. PICK f \in [0..Len(p) -> Seq(WireMessage)] :
              /\ f[0] = <<>> /\ \A n \in 1..Len(p) : f[n] = f[n - 1] \o w[n]
              /\ FlattenSeq(w) = f[Len(p)]
  <2>1. \E f \in [0..Len(w) -> Seq(WireMessage)] :
              /\ f[0] = <<>> /\ \A n \in 1..Len(w) : f[n] = f[n - 1] \o w[n]
              /\ FlattenSeq(w) = f[Len(w)]
    BY <1>2, FlatMade
  <2> QED BY <1>2, <2>1
<1>4. NeverPart(f, g, Len(p))
  <2>1. f[0] = g[0]
    BY <1>1, <1>3
  <2>2. ASSUME NEW n \in 1..Len(p), f[n - 1] = g[n - 1] PROVE f[n] = g[n]
    <3> DEFINE v == [i \in 1..(n - 1) |-> Plain(p[i].role, Prose)]
               c == Plain(p[n].role, Prose)
    <3>0. n - 1 \in 0..Len(p) /\ n \in 0..Len(p) /\ n \in Nat /\ n - 1 \in Nat /\ (n - 1) + 1 = n
      BY <1>1
    <3>1. f[n] = v \o <<c>>
      BY <1>2, <1>3, <2>2, <3>0
    <3>2. v \in Seq(SpokenWire) /\ Len(v) = n - 1 /\ c \in SpokenWire
      BY <1>2, <3>0
    <3>3. g[n] = [i \in 1..n |-> Plain(p[i].role, Prose)]
      BY <3>0
    <3>4. g[n] \in Seq(SpokenWire) /\ Len(g[n]) = n
      BY <1>2, <3>0, <3>3
    <3>5. /\ \A i \in 1..(n - 1) : g[n][i] = v[i]
          /\ g[n][n] = c
      BY <3>0, <3>3
    <3> HIDE DEF g, v, c
    <3>6. v \o <<c>> \in Seq(SpokenWire) /\ Len(v \o <<c>>) = n
          /\ (\A i \in 1..(n - 1) : (v \o <<c>>)[i] = v[i]) /\ (v \o <<c>>)[n] = c
      <4>1. /\ v \o <<c>> \in Seq(SpokenWire) /\ Len(v \o <<c>>) = Len(v) + 1
            /\ (\A i \in 1..Len(v) : (v \o <<c>>)[i] = v[i]) /\ (v \o <<c>>)[Len(v) + 1] = c
        <5>1. v \o <<c>> = Append(v, c)
          BY <3>2, AppendIsConcat
        <5>2. /\ Append(v, c) \in Seq(SpokenWire) /\ Len(Append(v, c)) = Len(v) + 1
              /\ (\A i \in 1..Len(v) : Append(v, c)[i] = v[i]) /\ Append(v, c)[Len(v) + 1] = c
          <6>1. v \in Seq(SpokenWire) /\ c \in SpokenWire
            BY <3>2
          <6> QED BY <6>1, AppendProperties
        <5> QED BY <5>1, <5>2
      <4> QED BY <3>0, <3>2, <4>1
    <3>7. \A i \in 1..n : (v \o <<c>>)[i] = g[n][i]
      <4>1. \A i \in 1..n : i \in 1..(n - 1) \/ i = n
        BY <3>0
      <4> QED BY <3>5, <3>6, <4>1
    <3>8. v \o <<c>> = g[n]
      BY <3>4, <3>6, <3>7, SeqEqual
    <3> QED BY <3>1, <3>8
  <2> HIDE DEF g
  <2> QED BY <2>1, <2>2 DEF NeverPart
<1> HIDE DEF g
<1>5. \A n \in 0..Len(p) : f[n] = g[n]
  BY <1>1, <1>4, StepwiseAgree
<1>6. Len(p) \in 0..Len(p)
  BY <1>1
<1> QED BY <1>3, <1>5, <1>6 DEF Flat, w, g

-----------------------------------------------------------------------------
(* Groq's dialect: what the API accepts.                                   *)

\* What a message on the wire calls.
CalledBy(m) == IF m.role = "assistant" THEN m.tool_calls ELSE <<>>

LEMMA GroqAcceptsIs ==
    ASSUME NEW W, NEW p \in Seq(W)
    PROVE  GroqAccepts(p) <=>
              /\ p[1].role = "system" /\ p[2].role = "user"
              /\ \A i \in 1..Len(p) : \A k \in DOMAIN CalledBy(p[i]) :
                    \E j \in 1..Len(p) : p[j].role = "tool" /\ <<i + k, CalledBy(p[i])[k].id>> = <<j, p[j].tool_call_id>>
              /\ \A j \in 1..Len(p) : p[j].role = "tool" =>
                    \E i \in 1..Len(p) : \E k \in DOMAIN CalledBy(p[i]) :
                       <<j, p[j].tool_call_id>> = <<i + k, CalledBy(p[i])[k].id>>
<1> DEFINE Call(i, k) == <<i + k, CalledBy(p[i])[k].id>>
           Result(j) == <<j, p[j].tool_call_id>>
           calls == UNION {{Call(i, k) : k \in DOMAIN CalledBy(p[i])} : i \in DOMAIN p}
           results == {Result(j) : j \in {i \in DOMAIN p : p[i].role = "tool"}}
<1>1. GroqAccepts(p) <=> p[1].role = "system" /\ p[2].role = "user" /\ calls = results
  BY DEF GroqAccepts, CalledBy
<1>2. DOMAIN p = 1..Len(p)
  OBVIOUS
<1> HIDE DEF Call, Result
<1>3. \A x : x \in calls <=> \E i \in 1..Len(p) : \E k \in DOMAIN CalledBy(p[i]) : x = Call(i, k)
  BY <1>2
<1>4. \A x : x \in results <=> \E j \in 1..Len(p) : p[j].role = "tool" /\ x = Result(j)
  BY <1>2
<1> HIDE DEF calls, results
<1>5. calls = results <=>
        /\ \A i \in 1..Len(p) : \A k \in DOMAIN CalledBy(p[i]) :
              \E j \in 1..Len(p) : p[j].role = "tool" /\ Call(i, k) = Result(j)
        /\ \A j \in 1..Len(p) : p[j].role = "tool" =>
              \E i \in 1..Len(p) : \E k \in DOMAIN CalledBy(p[i]) : Result(j) = Call(i, k)
  <2>1. calls = results <=> calls \subseteq results /\ results \subseteq calls
    OBVIOUS
  <2>2. calls \subseteq results <=>
           \A i \in 1..Len(p) : \A k \in DOMAIN CalledBy(p[i]) :
              \E j \in 1..Len(p) : p[j].role = "tool" /\ Call(i, k) = Result(j)
    <3>1. ASSUME calls \subseteq results, NEW i \in 1..Len(p), NEW k \in DOMAIN CalledBy(p[i])
          PROVE  \E j \in 1..Len(p) : p[j].role = "tool" /\ Call(i, k) = Result(j)
      <4>1. Call(i, k) \in results
        BY <1>3, <3>1
      <4> QED BY <1>4, <4>1
    <3>2. ASSUME \A i \in 1..Len(p) : \A k \in DOMAIN CalledBy(p[i]) :
                    \E j \in 1..Len(p) : p[j].role = "tool" /\ Call(i, k) = Result(j),
                 NEW x \in calls
          PROVE  x \in results
      <4>1. PICK i \in 1..Len(p) : \E k \in DOMAIN CalledBy(p[i]) : x = Call(i, k)
        BY <1>3, <3>2
      <4> QED BY <1>4, <3>2, <4>1
    <3> QED BY <3>1, <3>2
  <2>3. results \subseteq calls <=>
           \A j \in 1..Len(p) : p[j].role = "tool" =>
              \E i \in 1..Len(p) : \E k \in DOMAIN CalledBy(p[i]) : Result(j) = Call(i, k)
    <3>1. ASSUME results \subseteq calls, NEW j \in 1..Len(p), p[j].role = "tool"
          PROVE  \E i \in 1..Len(p) : \E k \in DOMAIN CalledBy(p[i]) : Result(j) = Call(i, k)
      <4>1. Result(j) \in calls
        BY <1>4, <3>1
      <4> QED BY <1>3, <4>1
    <3>2. ASSUME \A j \in 1..Len(p) : p[j].role = "tool" =>
                    \E i \in 1..Len(p) : \E k \in DOMAIN CalledBy(p[i]) : Result(j) = Call(i, k),
                 NEW x \in results
          PROVE  x \in calls
      <4>1. PICK j \in 1..Len(p) : p[j].role = "tool" /\ x = Result(j)
        BY <1>4, <3>2
      <4> QED BY <1>3, <3>2, <4>1
    <3> QED BY <3>1, <3>2
  <2> QED BY <2>1, <2>2, <2>3
<1> QED BY <1>1, <1>5 DEF Call, Result

\* One after the other: which element comes where.
LEMMA Joined ==
    ASSUME NEW T, NEW s \in Seq(T), NEW t \in Seq(T)
    PROVE  /\ s \o t \in Seq(T) /\ Len(s \o t) = Len(s) + Len(t)
           /\ \A i \in 1..Len(s) : (s \o t)[i] = s[i]
           /\ \A i \in 1..Len(t) : (s \o t)[Len(s) + i] = t[i]
  OBVIOUS

LEMMA GroqAcceptsProse ==
    ASSUME NEW p \in Seq(PlainMessage), p # <<>>, p[1].role = "user"
    PROVE  GroqAccepts(to_groq_messages(p)) /\ Len(to_groq_messages(p)) >= 2
<1> DEFINE q == to_groq_messages(p)
           f == Flat(p)
           s == Plain("system", Prose)
           n == Len(p)
<1>1. n \in Nat /\ 1 \in 1..n /\ \A i \in 1..n : p[i] \in PlainMessage
  OBVIOUS
<1>2. f = [i \in 1..n |-> Plain(p[i].role, Prose)]
  BY FlatOfProse
<1>3. s \in SpokenWire /\ s.role = "system"
  <2>1. <<>> \in Seq(WireCall)
    OBVIOUS
  <2> QED BY <2>1 DEF Plain, SpokenWire
<1>4. \A i \in 1..n : Plain(p[i].role, Prose) \in SpokenWire
  BY <1>1, WireOfPlain
<1>5. f \in Seq(SpokenWire) /\ Len(f) = n
  <2> HIDE DEF n
  <2> QED BY <1>1, <1>2, <1>4
<1>6. q = <<s>> \o f
  BY ToGroqIs
<1> HIDE DEF q, f, s, n
<1>7. /\ q \in Seq(SpokenWire) /\ Len(q) = 1 + n /\ q[1] = s
      /\ \A i \in 1..n : q[1 + i] = f[i]
  <2>1. <<s>> \in Seq(SpokenWire) /\ Len(<<s>>) = 1 /\ <<s>>[1] = s /\ 1 \in 1..1
    BY <1>3
  <2> HIDE DEF s
  <2>2. /\ <<s>> \o f \in Seq(SpokenWire) /\ Len(<<s>> \o f) = Len(<<s>>) + Len(f)
        /\ \A i \in 1..Len(<<s>>) : (<<s>> \o f)[i] = <<s>>[i]
        /\ \A i \in 1..Len(f) : (<<s>> \o f)[Len(<<s>>) + i] = f[i]
    BY <1>5, <2>1, Joined
  <2> QED BY <1>5, <1>6, <2>1, <2>2
<1>8. q[2].role = "user"
  <2>1. q[2] = f[1] /\ f[1] = Plain(p[1].role, Prose)
    BY <1>1, <1>2, <1>7
  <2> QED BY <2>1 DEF Plain
<1>9. ASSUME NEW i \in 1..Len(q) PROVE q[i].role # "tool" /\ CalledBy(q[i]) = <<>>
  <2>1. CASE i = 1
    BY <1>3, <1>7, <2>1 DEF CalledBy
  <2>2. CASE i # 1
    <3>1. i - 1 \in 1..n /\ 1 + (i - 1) = i
      BY <1>1, <1>7, <2>2
    <3>2. q[i] = Plain(p[i - 1].role, Prose) /\ p[i - 1] \in PlainMessage
      BY <1>1, <1>2, <1>7, <3>1
    <3>3. p[i - 1].role # "tool"
      BY <3>2 DEF PlainMessage
    <3> QED BY <3>2, <3>3 DEF Plain, CalledBy
  <2> QED BY <2>1, <2>2
<1>10. DOMAIN <<>> = {}
  OBVIOUS
<1>11. q[1].role = "system"
  BY <1>3, <1>7
<1>12. GroqAccepts(q)
  BY <1>7, <1>8, <1>9, <1>10, <1>11, GroqAcceptsIs
<1>13. Len(q) >= 2
  BY <1>1, <1>7
<1> QED BY <1>12, <1>13 DEF q

\* A round more on the wire: calls, and at once one result for each of them.
LEMMA GroqAcceptsARound ==
    ASSUME NEW p \in Seq(WireMessage), Len(p) >= 2, GroqAccepts(p),
           NEW a \in SpokenWire, a.role = "assistant",
           NEW t \in Seq(ResultWire), DOMAIN t = DOMAIN a.tool_calls,
           \A k \in DOMAIN t : t[k].tool_call_id = a.tool_calls[k].id
    PROVE  GroqAccepts((p \o <<a>>) \o t)
<1> DEFINE q == (p \o <<a>>) \o t
           n == Len(p)
           m == Len(t)
<1>1. n \in Nat /\ n >= 2 /\ m \in Nat /\ DOMAIN t = 1..m
  OBVIOUS
<1>2. t \in Seq(WireMessage) /\ <<a>> \in Seq(WireMessage) /\ \A k \in 1..m : t[k].role = "tool"
  <2>1. ResultWire \subseteq WireMessage /\ SpokenWire \subseteq WireMessage
    BY DEF WireMessage
  <2>2. t \in Seq(WireMessage)
    BY <2>1, SeqMonotonic
  <2>3. <<a>> \in Seq(WireMessage)
    BY <2>1
  <2>4. ASSUME NEW k \in 1..m PROVE t[k].role = "tool"
    <3>1. t[k] \in ResultWire
      BY <1>1
    <3> QED BY <3>1 DEF ResultWire
  <2> QED BY <2>2, <2>3, <2>4
<1>3. /\ q \in Seq(WireMessage) /\ Len(q) = (n + 1) + m
      /\ \A i \in 1..n : q[i] = p[i]
      /\ q[n + 1] = a
      /\ \A k \in 1..m : q[(n + 1) + k] = t[k]
  <2> DEFINE r == p \o <<a>>
  <2>1. Len(<<a>>) = 1 /\ <<a>>[1] = a /\ 1 \in 1..1
    OBVIOUS
  <2>2. /\ r \in Seq(WireMessage) /\ Len(r) = Len(p) + Len(<<a>>)
        /\ \A i \in 1..Len(p) : r[i] = p[i]
        /\ \A i \in 1..Len(<<a>>) : r[Len(p) + i] = <<a>>[i]
    BY <1>2, Joined
  <2> HIDE DEF r
  <2>3. /\ r \o t \in Seq(WireMessage) /\ Len(r \o t) = Len(r) + Len(t)
        /\ \A i \in 1..Len(r) : (r \o t)[i] = r[i]
        /\ \A i \in 1..Len(t) : (r \o t)[Len(r) + i] = t[i]
    <3>1. r \in Seq(WireMessage) /\ t \in Seq(WireMessage)
      BY <1>2, <2>2
    <3> QED BY <3>1, Joined
  <2>4. q = r \o t
    BY DEF r
  <2> HIDE DEF q
  <2>5. Len(r) = n + 1 /\ r[n + 1] = a /\ \A i \in 1..n : r[i] = p[i]
    BY <2>1, <2>2
  <2>6. n + 1 \in 1..(n + 1) /\ \A i \in 1..n : i \in 1..(n + 1)
    BY <1>1
  <2> HIDE DEF n
  <2> QED BY <2>3, <2>4, <2>5, <2>6
<1> DEFINE c == a.tool_calls
<1>4. /\ \A i \in 1..Len(q) : i \in 1..n \/ i = n + 1 \/ i - (n + 1) \in 1..m
      /\ \A i \in 1..n : i \in 1..Len(q)
      /\ n + 1 \in 1..Len(q)
      /\ \A k \in 1..m : (n + 1) + k \in 1..Len(q)
      /\ 1 \in 1..n /\ 2 \in 1..n
      /\ \A i \in Int : (n + 1) + (i - (n + 1)) = i
  <2> HIDE DEF q
  <2> QED BY <1>1, <1>3
<1>5. CalledBy(a) = c /\ a.role # "tool"
  BY DEF CalledBy
<1>6. /\ p[1].role = "system" /\ p[2].role = "user"
      /\ \A i \in 1..n : \A k \in DOMAIN CalledBy(p[i]) :
            \E j \in 1..n : p[j].role = "tool" /\ <<i + k, CalledBy(p[i])[k].id>> = <<j, p[j].tool_call_id>>
      /\ \A j \in 1..n : p[j].role = "tool" =>
            \E i \in 1..n : \E k \in DOMAIN CalledBy(p[i]) :
               <<j, p[j].tool_call_id>> = <<i + k, CalledBy(p[i])[k].id>>
  BY GroqAcceptsIs
<1>7. /\ DOMAIN c = 1..m
      /\ \A k \in 1..m : t[k].tool_call_id = c[k].id
  BY <1>1
<1> HIDE DEF q, n, m, c
<1>8. \A k \in 1..m : CalledBy(q[(n + 1) + k]) = <<>>
  BY <1>2, <1>3 DEF CalledBy
<1>9. ASSUME NEW i \in 1..Len(q), NEW k \in DOMAIN CalledBy(q[i])
      PROVE  \E j \in 1..Len(q) : q[j].role = "tool" /\ <<i + k, CalledBy(q[i])[k].id>> = <<j, q[j].tool_call_id>>
  <2>1. CASE i \in 1..n
    <3>1. q[i] = p[i]
      BY <1>3, <2>1
    <3>2. PICK j \in 1..n : p[j].role = "tool" /\ <<i + k, CalledBy(p[i])[k].id>> = <<j, p[j].tool_call_id>>
      BY <1>6, <1>9, <2>1, <3>1
    <3>3. j \in 1..Len(q) /\ q[j] = p[j]
      BY <1>3, <1>4, <3>2
    <3> QED BY <3>1, <3>2, <3>3
  <2>2. CASE i = n + 1
    <3>1. q[i] = a /\ CalledBy(q[i]) = c /\ k \in 1..m
      BY <1>3, <1>5, <1>7, <1>9, <2>2
    <3>2. q[i + k] = t[k] /\ i + k \in 1..Len(q) /\ t[k].role = "tool" /\ t[k].tool_call_id = c[k].id
      BY <1>2, <1>3, <1>4, <1>7, <2>2, <3>1
    <3> QED BY <3>1, <3>2
  <2>3. CASE i - (n + 1) \in 1..m
    <3>1. i = (n + 1) + (i - (n + 1))
      BY <1>4
    <3>2. CalledBy(q[i]) = <<>>
      BY <1>8, <2>3, <3>1
    <3> QED BY <1>9, <3>2
  <2> QED BY <1>4, <2>1, <2>2, <2>3
<1>10. ASSUME NEW j \in 1..Len(q), q[j].role = "tool"
       PROVE  \E i \in 1..Len(q) : \E k \in DOMAIN CalledBy(q[i]) :
                 <<j, q[j].tool_call_id>> = <<i + k, CalledBy(q[i])[k].id>>
  <2>1. CASE j \in 1..n
    <3>1. q[j] = p[j]
      BY <1>3, <2>1
    <3>2. PICK i \in 1..n : \E k \in DOMAIN CalledBy(p[i]) :
                 <<j, p[j].tool_call_id>> = <<i + k, CalledBy(p[i])[k].id>>
      BY <1>6, <1>10, <2>1, <3>1
    <3>3. i \in 1..Len(q) /\ q[i] = p[i]
      BY <1>3, <1>4, <3>2
    <3> QED BY <3>1, <3>2, <3>3
  <2>2. CASE j = n + 1
    BY <1>3, <1>5, <1>10, <2>2
  <2>3. CASE j - (n + 1) \in 1..m
    <3> DEFINE k == j - (n + 1)
    <3>1. j = (n + 1) + k
      BY <1>4
    <3> HIDE DEF k
    <3>2. k \in 1..m
      BY <2>3 DEF k
    <3>3. q[j] = t[k] /\ t[k].tool_call_id = c[k].id /\ k \in DOMAIN c
      BY <1>3, <1>7, <3>1, <3>2
    <3>4. q[n + 1] = a /\ CalledBy(q[n + 1]) = c /\ n + 1 \in 1..Len(q)
      BY <1>3, <1>4, <1>5
    <3> QED BY <3>1, <3>3, <3>4
  <2> QED BY <1>4, <2>1, <2>2, <2>3
<1>11. q[1].role = "system" /\ q[2].role = "user"
  BY <1>3, <1>4, <1>6
<1>12. GroqAccepts(q)
  BY <1>3, <1>9, <1>10, <1>11, GroqAcceptsIs
<1> QED BY <1>12 DEF q
-----------------------------------------------------------------------------
(* What a provider sends, and what the client makes of it.                 *)

RawCall == [id : Ids, arguments : Arguments]
RawGroq == [content : {Null, Prose}, finish_reason : {"stop", "tool_calls", "length"},
            tool_calls : Seq(RawCall)]
RawText == [type : {"text"}, text : {Prose}]
RawThinking == [type : {"thinking"}]
RawUse == [type : {"tool_use"}, id : Ids, input : Arguments]
RawBlock == RawText \cup RawThinking \cup RawUse
RawAnthropic == [content : Seq(RawBlock), stop_reason : {"end_turn", "tool_use", "max_tokens"}]

LEMMA GroqSends ==
    ASSUME Len(said) \in Nat, NEW raw \in GroqReplies PROVE raw \in RawGroq
<1>1. PICK content \in {Null, Prose}, finish_reason \in {"stop", "tool_calls", "length"},
           uses \in SeqOf(Arguments, MaxBlocks) :
             raw = [content |-> content, finish_reason |-> finish_reason, tool_calls |-> CallsOf(uses)]
  BY DEF GroqReplies
<1>2. PICK m \in 0..MaxBlocks : uses \in [1..m -> Arguments]
  BY DEF SeqOf
<1>3. m \in Nat
  BY HistoryAssumption
<1>4. ASSUME NEW i \in 1..m PROVE [id |-> Id(i), arguments |-> uses[i]] \in RawCall
  <2>1. Id(i) \in Ids
    BY <1>3 DEF Id, Ids
  <2> QED BY <1>2, <2>1 DEF RawCall
<1>5. CallsOf(uses) \in Seq(RawCall)
  <2>1. CallsOf(uses) = [i \in 1..m |-> [id |-> Id(i), arguments |-> uses[i]]]
    BY <1>2 DEF CallsOf
  <2> QED BY <1>3, <1>4, <2>1
<1> QED BY <1>1, <1>5 DEF RawGroq

LEMMA AnthropicSends ==
    ASSUME Len(said) \in Nat, NEW raw \in AnthropicReplies PROVE raw \in RawAnthropic
<1>1. PICK s \in SeqOf({"text", "thinking"} \cup Arguments, MaxBlocks),
           stop_reason \in {"end_turn", "tool_use", "max_tokens"} :
             raw = [content |-> AnthropicBlocks(s), stop_reason |-> stop_reason]
  BY DEF AnthropicReplies
<1>2. PICK m \in 0..MaxBlocks : s \in [1..m -> {"text", "thinking"} \cup Arguments]
  BY DEF SeqOf
<1>3. m \in Nat
  BY HistoryAssumption
<1> DEFINE block(i) == CASE s[i] = "text" -> Text(Prose)
                         [] s[i] = "thinking" -> [type |-> "thinking"]
                         [] OTHER -> [type |-> "tool_use", id |-> Id(i), input |-> s[i]]
<1>4. ASSUME NEW i \in 1..m PROVE block(i) \in RawBlock
  <2>1. Id(i) \in Ids
    BY <1>3 DEF Id, Ids
  <2>2. s[i] \in {"text", "thinking"} \cup Arguments
    BY <1>2
  <2>3. CASE s[i] = "text"
    BY <2>3 DEF RawBlock, RawText, Text
  <2>4. CASE s[i] = "thinking"
    BY <2>4 DEF RawBlock, RawThinking
  <2>5. CASE s[i] \notin {"text", "thinking"}
    BY <2>1, <2>2, <2>5 DEF RawBlock, RawUse
  <2> QED BY <2>3, <2>4, <2>5
<1>5. AnthropicBlocks(s) = [i \in 1..m |-> block(i)]
  BY <1>2 DEF AnthropicBlocks
<1> HIDE DEF block
<1>6. AnthropicBlocks(s) \in Seq(RawBlock)
  BY <1>3, <1>4, <1>5
<1> QED BY <1>1, <1>6 DEF RawAnthropic

\* The blocks of a reply from Groq, its calls and its prose.
LEMMA GroqIsRead ==
    ASSUME NEW raw \in RawGroq, NEW finish_reason
    PROVE  LET response == from_groq_message(raw, finish_reason) IN
           /\ response.blocks \in Seq(TextBlock \cup UseBlock)
           /\ tool_uses(response) # <<>> =>
                 /\ tool_uses(response) = [k \in DOMAIN raw.tool_calls |->
                       ToolUse(raw.tool_calls[k].id, Decoded(raw.tool_calls[k].arguments))]
                 /\ text_of(response.blocks) = IF raw.content = Prose THEN Prose ELSE Null
<1> DEFINE response == from_groq_message(raw, finish_reason)
           prose == IF raw.content = Prose THEN <<Text(raw.content)>> ELSE <<>>
           calls == raw.tool_calls
           uses == [k \in DOMAIN calls |-> ToolUse(calls[k].id, Decoded(calls[k].arguments))]
           blocks == prose \o uses
           B == TextBlock \cup UseBlock
<1>1. calls \in Seq(RawCall) /\ raw.content \in {Null, Prose}
  BY DEF RawGroq
<1>2. uses \in Seq(UseBlock)
  <2> HIDE DEF calls
  <2>1. ASSUME NEW k \in 1..Len(calls)
        PROVE  ToolUse(calls[k].id, Decoded(calls[k].arguments)) \in UseBlock
    <3>1. calls[k] \in RawCall
      BY <1>1
    <3>2. calls[k].id \in Ids /\ Decoded(calls[k].arguments) \in Inputs
      BY <3>1 DEF RawCall, Inputs
    <3> QED BY <3>2 DEF ToolUse, UseBlock
  <2>2. DOMAIN calls = 1..Len(calls) /\ Len(calls) \in Nat
    BY <1>1
  <2> QED BY <2>1, <2>2
<1>3. prose \in Seq(TextBlock)
  <2>1. Text(Prose) \in TextBlock
    BY DEF Text, TextBlock
  <2> QED BY <2>1
<1>4. /\ response.blocks = IF blocks = <<>> THEN <<Text(Empty)>> ELSE blocks
  BY DEF from_groq_message, Mapped
<1> HIDE DEF uses, prose, calls
<1>5. prose \in Seq(B) /\ uses \in Seq(B) /\ blocks \in Seq(B)
  <2>1. TextBlock \subseteq B /\ UseBlock \subseteq B
    OBVIOUS
  <2> HIDE DEF B, blocks
  <2>2. prose \in Seq(B) /\ uses \in Seq(B)
    BY <1>2, <1>3, <2>1, SeqMonotonic
  <2>3. prose \o uses \in Seq(B)
    BY <2>2, ConcatProperties
  <2> QED BY <2>2, <2>3 DEF blocks
<1>6. Text(Empty) \in B /\ Text(Empty) \in TextBlock
  BY DEF Text, TextBlock
<1>7. response.blocks \in Seq(B)
  <2> HIDE DEF B, blocks, response
  <2>1. <<Text(Empty)>> \in Seq(B)
    BY <1>6
  <2> QED BY <1>4, <1>5, <2>1
<1>8. OfType(blocks, "tool_use") = uses
  <2> DEFINE S == {b \in ToSet(blocks) : b.type = "tool_use"}
  <2>1. \A i \in 1..Len(prose) : prose[i] \notin S
    <3> SUFFICES ASSUME NEW i \in 1..Len(prose) PROVE prose[i].type # "tool_use"
      OBVIOUS
    <3>1. prose[i] \in TextBlock
      BY <1>3
    <3> QED BY <3>1 DEF TextBlock
  <2>2. \A i \in 1..Len(uses) : uses[i] \in S
    <3> SUFFICES ASSUME NEW i \in 1..Len(uses) PROVE uses[i] \in S
      OBVIOUS
    <3>1. uses[i] \in UseBlock
      BY <1>2
    <3>2. uses[i].type = "tool_use"
      BY <3>1 DEF UseBlock
    <3>3. blocks[Len(prose) + i] = uses[i] /\ Len(prose) + i \in DOMAIN blocks
      <4>1. prose \in Seq(B) /\ uses \in Seq(B)
        BY <1>5
      <4> HIDE DEF B
      <4> QED BY <4>1
    <3> HIDE DEF blocks
    <3> QED BY <3>2, <3>3 DEF ToSet
  <2> HIDE DEF S, B
  <2>3. Those(prose, S) = <<>>
    BY <1>5, <2>1, ThoseOfNone
  <2>4. Those(uses, S) = uses
    BY <1>5, <2>2, ThoseOfAll
  <2>5. Those(prose \o uses, S) = Those(prose, S) \o Those(uses, S)
    BY <1>5, ThoseOfBoth
  <2>6. <<>> \o uses = uses
    BY <1>5, ConcatEmptySeq
  <2> QED BY <2>3, <2>4, <2>5, <2>6 DEF OfType, S
<1>9. ASSUME tool_uses(response) # <<>>
      PROVE  /\ tool_uses(response) = uses
             /\ text_of(response.blocks) = IF raw.content = Prose THEN Prose ELSE Null
  <2>1. response.blocks = blocks
    <3>1. CASE blocks = <<>>
      <4>1. <<Text(Empty)>> \in Seq(TextBlock)
        BY <1>6
      <4>2. \A b \in TextBlock : b.type # "tool_use"
        BY DEF TextBlock
      <4>3. OfType(<<Text(Empty)>>, "tool_use") = <<>>
        BY <4>1, <4>2, OfTypeNone
      <4> HIDE DEF response, blocks
      <4> QED BY <1>4, <1>9, <3>1, <4>3 DEF tool_uses
    <3> HIDE DEF response, blocks
    <3> QED BY <1>4, <3>1
  <2>2. tool_uses(response) = uses
    <3> HIDE DEF response, blocks
    <3> QED BY <1>8, <2>1 DEF tool_uses
  <2>3. CASE raw.content = Prose
    <3>1. blocks[1] = Text(Prose) /\ 1 \in DOMAIN blocks
      <4>1. prose = <<Text(Prose)>> /\ Len(prose) = 1 /\ prose[1] = Text(Prose) /\ 1 \in 1..1
        BY <2>3 DEF prose
      <4>2. prose \in Seq(B) /\ uses \in Seq(B) /\ Len(uses) \in Nat
        BY <1>5
      <4> HIDE DEF B
      <4> QED BY <4>1, <4>2
    <3>2. Text(Prose).type = "text" /\ Text(Prose).text = Prose
      BY DEF Text
    <3> HIDE DEF blocks, response
    <3> QED BY <2>1, <2>2, <2>3, <3>1, <3>2 DEF text_of
  <2>4. CASE raw.content # Prose
    <3>1. prose = <<>>
      BY <2>4 DEF prose
    <3>2. blocks = uses
      BY <1>5, <3>1, ConcatEmptySeq
    <3> HIDE DEF blocks, response
    <3>3. ASSUME NEW i \in DOMAIN blocks PROVE blocks[i].type # "text"
      <4>1. blocks[i] \in UseBlock
        BY <1>2, <3>2, <3>3
      <4> QED BY <4>1 DEF UseBlock
    <3> QED BY <2>1, <2>2, <2>4, <3>3 DEF text_of
  <2> QED BY <2>2, <2>3, <2>4
<1> QED BY <1>7, <1>9 DEF uses, calls
\* The blocks of a reply from Anthropic.
Known(content) == Those(content, {b \in ToSet(content) : b.type \in {"text", "tool_use"}})
AsBlock(b) == IF b.type = "tool_use" THEN ToolUse(b.id, Decoded(b.input)) ELSE b

LEMMA AnthropicIsRead ==
    ASSUME NEW raw \in RawAnthropic
    PROVE  /\ to_response(raw).blocks = [i \in DOMAIN Known(raw.content) |-> AsBlock(Known(raw.content)[i])]
           /\ to_response(raw).blocks \in Seq(TextBlock \cup UseBlock)
           /\ Known(raw.content) \in Seq(RawText \cup RawUse)
<1> DEFINE S == {b \in ToSet(raw.content) : b.type \in {"text", "tool_use"}}
           k == Known(raw.content)
           B == TextBlock \cup UseBlock
<1>1. raw.content \in Seq(RawBlock)
  BY DEF RawAnthropic
<1>2. k \in Seq(RawBlock \cap S)
  <2> HIDE DEF S
  <2>1. Those(raw.content, S) \in Seq(RawBlock \cap S)
    BY <1>1, ThoseAreSome
  <2> QED BY <2>1 DEF Known, S
<1>3. RawBlock \cap S \subseteq RawText \cup RawUse
  BY DEF RawBlock, RawThinking
<1> HIDE DEF S
<1>4. k \in Seq(RawText \cup RawUse)
  BY <1>2, <1>3, SeqMonotonic
<1>5. to_response(raw).blocks = [i \in DOMAIN k |-> AsBlock(k[i])]
  BY DEF to_response, Known, AsBlock, Mapped
<1>6. ASSUME NEW b \in RawText \cup RawUse PROVE AsBlock(b) \in B
  <2>1. CASE b \in RawText
    <3>1. b.type = "text" /\ b \in TextBlock
      BY <2>1 DEF RawText, TextBlock
    <3> QED BY <3>1 DEF AsBlock
  <2>2. CASE b \in RawUse
    <3>1. b.type = "tool_use" /\ b.id \in Ids /\ Decoded(b.input) \in Inputs
      BY <2>2 DEF RawUse, Inputs
    <3> QED BY <3>1 DEF AsBlock, ToolUse, UseBlock
  <2> QED BY <2>1, <2>2
<1> HIDE DEF k, B
<1>7. [i \in DOMAIN k |-> AsBlock(k[i])] \in Seq(B)
  <2>1. DOMAIN k = 1..Len(k) /\ Len(k) \in Nat /\ \A i \in 1..Len(k) : k[i] \in RawText \cup RawUse
    BY <1>4
  <2> QED BY <1>6, <2>1
<1> QED BY <1>4, <1>5, <1>7 DEF k, B

-----------------------------------------------------------------------------
(* The turn.                                                               *)

RawReply == IF provider = "groq" THEN RawGroq ELSE RawAnthropic

\* What a round of tools adds: the reply replayed, and a result for each call of it.
Replayed(raw) == to_assistant_message(Response(raw))
ResultsOf(raw) == [role |-> "user",
                   blocks |-> [i \in DOMAIN tool_uses(Response(raw)) |-> ToolResult(tool_uses(Response(raw))[i].id)]]

LEMMA ReplyIsReplayed ==
    ASSUME NEW raw \in RawReply
    PROVE  /\ Replayed(raw) \in ReplyMessage
           /\ ResultsOf(raw) \in ResultMessage
           /\ BlocksOf(Replayed(raw), "tool_use") = tool_uses(Response(raw))
           /\ Replayed(raw).blocks = Response(raw).blocks
<1> DEFINE blocks == Response(raw).blocks
           uses == tool_uses(Response(raw))
<1>1. blocks \in Seq(TextBlock \cup UseBlock)
  <2>1. CASE provider = "groq"
    BY <2>1, GroqIsRead DEF RawReply, Response
  <2>2. CASE provider # "groq"
    BY <2>2, AnthropicIsRead DEF RawReply, Response
  <2> QED BY <2>1, <2>2
<1>2. Replayed(raw) = [role |-> "assistant", blocks |-> blocks]
  BY DEF Replayed, to_assistant_message
<1>3. Replayed(raw) \in ReplyMessage /\ Replayed(raw).blocks = blocks
  <2> HIDE DEF blocks
  <2> QED BY <1>1, <1>2 DEF ReplyMessage
<1>4. uses = OfType(blocks, "tool_use")
  BY DEF tool_uses
<1>5. BlocksOf(Replayed(raw), "tool_use") = uses /\ uses \in Seq(UseBlock)
  <2> HIDE DEF blocks, uses
  <2>1. BlocksOf(Replayed(raw), "tool_use") = OfType(Replayed(raw).blocks, "tool_use")
        /\ BlocksOf(Replayed(raw), "tool_use") \in Seq(UseBlock)
    BY <1>3, ReplyHasNoResults
  <2> QED BY <1>3, <1>4, <2>1
<1> HIDE DEF uses
<1>6. ASSUME NEW i \in 1..Len(uses) PROVE ToolResult(uses[i].id) \in ResultBlock
  <2>1. uses[i] \in UseBlock
    BY <1>5
  <2>2. uses[i].id \in Ids
    BY <2>1 DEF UseBlock
  <2> QED BY <2>2 DEF ToolResult, ResultBlock
<1>7. [i \in DOMAIN uses |-> ToolResult(uses[i].id)] \in Seq(ResultBlock)
  <2>1. DOMAIN uses = 1..Len(uses) /\ Len(uses) \in Nat
    BY <1>5
  <2> QED BY <1>6, <2>1
<1>8. ResultsOf(raw) \in ResultMessage
  BY <1>7 DEF ResultsOf, ResultMessage, uses
<1> QED BY <1>3, <1>5, <1>8 DEF uses

\* The request a provider is sent is one it accepts.
Accepted == IF provider = "groq"
            THEN GroqAccepts(to_groq_messages(messages)) /\ Len(to_groq_messages(messages)) >= 2
            ELSE AnthropicAccepts(messages)

\* The user speaks first in what is remembered; a turn that is under way has heard
\* only what its provider can send, and asks only what its API accepts.
Asking == /\ provider \in {"anthropic", "groq"}
          /\ rows # <<>> => rows[1].role = "user"
          /\ said \in Seq(RawReply)
          /\ at # "model" => said = <<>>
          /\ at = "model" => messages \in Seq(RouterMessage) /\ messages # <<>> /\ Accepted

LEMMA AskingUnchanged ==
    ASSUME Asking, UNCHANGED <<provider, rows>>,
           \/ UNCHANGED <<said, messages, at>>
           \/ said' = <<>> /\ at' # "model"
           \/ at # "model" /\ at' # "model" /\ said' = said
    PROVE  Asking'
<1>1. CASE UNCHANGED <<said, messages, at>>
  BY <1>1 DEF Asking, Accepted, RawReply
<1>2. CASE said' = <<>> /\ at' # "model"
  BY <1>2 DEF Asking, RawReply
<1>3. CASE at # "model" /\ at' # "model" /\ said' = said
  BY <1>3 DEF Asking, RawReply
<1> QED BY <1>1, <1>2, <1>3

LEMMA BeginAsks ==
    ASSUME HistoryInv, Asking, Begin PROVE Asking'
<1>1. /\ at = "idle" /\ at' = "model" /\ UNCHANGED <<rows, provider, said>> /\ said = <<>>
  BY DEF Begin, Asking
<1>2. PICK history \in {rows, <<>>} :
         messages' = Append([i \in DOMAIN history |-> [role |-> history[i].role, content |-> Prose]],
                            [role |-> "user", content |-> Prose])
  BY DEF Begin
<1> DEFINE said_before == [i \in DOMAIN history |-> [role |-> history[i].role, content |-> Prose]]
           question == [role |-> "user", content |-> Prose]
<1>3. history \in Seq(Message) /\ Len(history) \in Nat /\ DOMAIN history = 1..Len(history)
  <2>1. rows \in Seq(Message) /\ <<>> \in Seq(Message)
    BY DEF HistoryInv, InOrder
  <2>2. history \in Seq(Message)
    BY <2>1
  <2> QED BY <2>2
<1>4. said_before \in Seq(PlainMessage) /\ Len(said_before) = Len(history)
  <2>1. ASSUME NEW i \in 1..Len(history) PROVE [role |-> history[i].role, content |-> Prose] \in PlainMessage
    <3>1. history[i] \in Message
      BY <1>3
    <3> QED BY <3>1 DEF Message, PlainMessage
  <2> QED BY <1>3, <2>1
<1>5. question \in PlainMessage /\ question.role = "user"
  BY DEF PlainMessage
<1>6. history # <<>> => said_before[1].role = "user"
  <2>1. ASSUME history # <<>> PROVE said_before[1].role = "user"
    <3>1. history = rows /\ 1 \in 1..Len(history)
      BY <1>3, <2>1
    <3>2. said_before[1] = [role |-> history[1].role, content |-> Prose]
      BY <1>3, <3>1
    <3>3. history[1].role = "user"
      BY <2>1, <3>1 DEF Asking
    <3> QED BY <3>2, <3>3
  <2> QED BY <2>1
<1> HIDE DEF said_before, question
<1>7. /\ messages' = Append(said_before, question)
      /\ messages' \in Seq(PlainMessage) /\ messages' # <<>>
  <2>1. messages' = Append(said_before, question)
    BY <1>2 DEF said_before, question
  <2> QED BY <1>4, <1>5, <2>1
<1>8. messages'[1].role = "user"
  <2>1. CASE history = <<>>
    <3>1. Len(said_before) = 0
      BY <1>3, <1>4, <2>1
    <3>2. messages'[1] = question
      BY <1>4, <1>5, <1>7, <3>1
    <3> QED BY <1>5, <3>2
  <2>2. CASE history # <<>>
    <3>1. 1 \in 1..Len(said_before)
      BY <1>3, <1>4, <2>2
    <3>2. messages'[1] = said_before[1]
      BY <1>4, <1>5, <1>7, <3>1
    <3> QED BY <1>6, <2>2, <3>2
  <2> QED BY <2>1, <2>2
<1>9. messages' \in Seq(RouterMessage)
  <2>1. PlainMessage \subseteq RouterMessage
    BY DEF RouterMessage
  <2> QED BY <1>7, <2>1, SeqMonotonic
<1>10. Accepted'
  BY <1>1, <1>7, <1>8, GroqAcceptsProse, AnthropicAcceptsProse DEF Accepted
<1> QED BY <1>1, <1>7, <1>9, <1>10 DEF Asking, RawReply
LEMMA RoundAsks ==
    ASSUME Asking, NEW raw \in Replies, RunTools(raw) PROVE Asking'
<1> DEFINE a == Replayed(raw)
           u == ResultsOf(raw)
           uses == tool_uses(Response(raw))
<1>1. /\ at = "model" /\ WantsTools(Response(raw))
      /\ said' = Append(said, raw) /\ UNCHANGED <<rows, at, provider>>
  BY DEF RunTools
<1>2. messages' = messages \o <<a, u>>
  BY DEF RunTools, Replayed, ResultsOf, Mapped
<1>3. raw \in RawReply
  <2>1. Len(said) \in Nat
    BY DEF Asking
  <2> QED BY <2>1, GroqSends, AnthropicSends DEF Replies, RawReply
<1>4. a \in ReplyMessage /\ u \in ResultMessage /\ BlocksOf(a, "tool_use") = uses /\ uses # <<>>
  BY <1>1, <1>3, ReplyIsReplayed DEF WantsTools
<1>5. u.blocks = [i \in DOMAIN uses |-> ToolResult(uses[i].id)]
  BY DEF ResultsOf
<1>6. messages \in Seq(RouterMessage) /\ messages # <<>> /\ Accepted
  BY <1>1 DEF Asking
<1> HIDE DEF a, u, uses
<1>7. messages' \in Seq(RouterMessage) /\ messages' # <<>>
  <2>1. a \in RouterMessage /\ u \in RouterMessage
    BY <1>4 DEF RouterMessage
  <2> QED BY <1>2, <1>6, <2>1
<1>8. ASSUME provider = "groq" PROVE Accepted'
  <2> DEFINE p == to_groq_messages(messages)
             w == WireReply(a)
             t == AsResults(u.blocks)
             s == Plain("system", Prose)
             f == Flat(messages)
  <2>1. GroqAccepts(p) /\ Len(p) >= 2
    BY <1>6, <1>8 DEF Accepted
  <2>2. w \in SpokenWire /\ w.role = "assistant" /\ t \in Seq(ResultWire)
    BY <1>4, WireOfReply, WireOfResults DEF WireReply
  <2>3. uses \in Seq(UseBlock) /\ OfType(a.blocks, "tool_use") = uses
    BY <1>4, ReplyHasNoResults
  <2>4. w.tool_calls = AsCalls(uses)
    BY <2>3 DEF WireReply
  <2>5. DOMAIN t = DOMAIN w.tool_calls /\ \A k \in DOMAIN t : t[k].tool_call_id = w.tool_calls[k].id
    BY <1>5, <2>4 DEF AsResults, AsCalls, ToolResult
  <2>6. f \in Seq(WireMessage) /\ <<s>> \in Seq(WireMessage) /\ <<w>> \in Seq(WireMessage) /\ t \in Seq(WireMessage)
    <3>1. ResultWire \subseteq WireMessage /\ SpokenWire \subseteq WireMessage
      BY DEF WireMessage
    <3>2. <<>> \in Seq(WireCall)
      OBVIOUS
    <3>3. s \in SpokenWire
      BY <3>2 DEF Plain, SpokenWire
    <3>4. t \in Seq(WireMessage)
      <4> HIDE DEF t
      <4> QED BY <2>2, <3>1, SeqMonotonic
    <3>5. <<s>> \in Seq(WireMessage) /\ <<w>> \in Seq(WireMessage)
      <4> HIDE DEF s, w
      <4> QED BY <2>2, <3>1, <3>3
    <3> QED BY <1>6, <3>4, <3>5, WireOfEach
  <2>7. p = <<s>> \o f
    BY ToGroqIs
  <2>8. to_groq_messages(messages') = <<s>> \o ((f \o <<w>>) \o t)
    BY <1>2, <1>4, <1>6, ToGroqIs, FlatRound
  <2> HIDE DEF s, f, w, t
  <2>9. <<s>> \o ((f \o <<w>>) \o t) = ((<<s>> \o f) \o <<w>>) \o t
    <3>1. f \o <<w>> \in Seq(WireMessage)
      BY <2>6, ConcatProperties
    <3>2. <<s>> \o ((f \o <<w>>) \o t) = (<<s>> \o (f \o <<w>>)) \o t
      BY <2>6, <3>1, ConcatAssociative
    <3>3. <<s>> \o (f \o <<w>>) = (<<s>> \o f) \o <<w>>
      BY <2>6, ConcatAssociative
    <3> QED BY <3>2, <3>3
  <2>10. p \in Seq(WireMessage)
    BY <2>6, <2>7, ConcatProperties
  <2> HIDE DEF p
  <2>11. to_groq_messages(messages') = (p \o <<w>>) \o t
    BY <2>7, <2>8, <2>9
  <2>12. GroqAccepts((p \o <<w>>) \o t)
    BY <2>1, <2>2, <2>5, <2>10, GroqAcceptsARound
  <2>13. Len((p \o <<w>>) \o t) >= 2
    <3>1. p \o <<w>> \in Seq(WireMessage) /\ Len(p \o <<w>>) >= 2
      BY <2>1, <2>6, <2>10
    <3>2. Len((p \o <<w>>) \o t) = Len(p \o <<w>>) + Len(t) /\ Len(t) \in Nat
      BY <2>6, <3>1, ConcatProperties
    <3> QED BY <3>1, <3>2
  <2> QED BY <1>1, <1>8, <2>11, <2>12, <2>13 DEF Accepted
<1>9. ASSUME provider # "groq" PROVE Accepted'
  <2>1. AnthropicAccepts(messages \o <<a, u>>)
    BY <1>4, <1>5, <1>6, <1>9, AnthropicAcceptsARound DEF Accepted
  <2> QED BY <1>1, <1>2, <1>9, <2>1 DEF Accepted
<1>10. said' \in Seq(RawReply)
  BY <1>1, <1>3 DEF Asking
<1>11. Asking'
  BY <1>1, <1>7, <1>8, <1>9, <1>10 DEF Asking, RawReply
<1> QED BY <1>11

\* What is pruned begins with the user.
LEMMA PruneAsks ==
    ASSUME HistoryInv, Asking, Prune PROVE Asking'
<1>1. /\ rows' = PruneRows(rows) /\ at = "prune" /\ at' \in {"insert", "idle"}
      /\ UNCHANGED <<provider, said>>
  BY DEF Prune, loop
<1>2. rows \in Seq(Message)
  BY DEF HistoryInv, InOrder
<1>3. PICK k : FirstKept(rows, k) /\ PruneRows(rows) = SubSeq(rows, k, Len(rows))
  BY <1>2, TablePrunes
<1>4. k \in 1..(Len(rows) + 1) /\ Window!Kept(rows, k)
  BY <1>3 DEF FirstKept
<1>5. rows' # <<>> => rows'[1].role = "user"
  <2>1. /\ rows' \in Seq(Message) /\ Len(rows') = Len(rows) - k + 1
        /\ \A i \in 1..Len(rows') : rows'[i] = rows[i + k - 1]
    BY <1>1, <1>2, <1>3, <1>4, KeptFrom
  <2>2. ASSUME rows' # <<>> PROVE rows'[1].role = "user"
    <3>1. 1 \in 1..Len(rows') /\ k <= Len(rows) /\ 1 + k - 1 = k
      BY <1>2, <1>4, <2>1, <2>2
    <3>2. rows'[1] = rows[k] /\ rows[k].role = "user"
      BY <1>4, <2>1, <3>1 DEF Window!Kept
    <3> QED BY <3>2
  <2> QED BY <2>2
<1> QED BY <1>1, <1>5 DEF Asking, RawReply

\* What is inserted first is a question.
LEMMA InsertAsks ==
    ASSUME HistoryInv, Asking, Insert PROVE Asking'
<1> DEFINE m == [role |-> role, turn |-> turn]
<1>1. /\ rows' = Append(rows, m) /\ at = "insert" /\ at' = "prune" /\ UNCHANGED <<provider, loop>>
  BY DEF Insert
<1>2. rows \in Seq(Message) /\ m \in Message /\ m.role = role /\ role \in {"user", "assistant"}
  BY <1>1 DEF HistoryInv, InOrder, Filing, Message
<1>3. rows = <<>> => role = "user"
  BY <1>1, <1>2 DEF HistoryInv, Filing
<1> HIDE DEF m
<1>4. rows'[1].role = "user"
  <2>1. CASE rows = <<>>
    <3>1. rows'[1] = m
      BY <1>1, <1>2, <2>1
    <3> QED BY <1>2, <1>3, <2>1, <3>1
  <2>2. CASE rows # <<>>
    <3>1. rows'[1] = rows[1]
      BY <1>1, <1>2, <2>2
    <3> QED BY <2>2, <3>1 DEF Asking
  <2> QED BY <2>1, <2>2
<1> QED BY <1>1, <1>4 DEF Asking, RawReply, loop

\* Every reachable state satisfies it.
THEOREM AskingHolds == Spec => []Asking
<1>1. Init => Asking
  BY DEF Init, Asking, RawReply
<1>2. HistoryInv /\ Asking /\ [Next]_vars => Asking'
  <2> SUFFICES ASSUME HistoryInv, Asking, [Next]_vars PROVE Asking'
    OBVIOUS
  <2>1. CASE Begin
    BY <2>1, BeginAsks
  <2>2. CASE Degrade
    BY <2>2, AskingUnchanged DEF Degrade
  <2>3. ASSUME NEW raw \in Replies, RunTools(raw) PROVE Asking'
    BY <2>3, RoundAsks
  <2>4. ASSUME NEW raw \in Replies, Answer(raw) PROVE Asking'
    BY <2>4, AskingUnchanged DEF Answer
  <2>5. CASE Insert
    BY <2>5, InsertAsks
  <2>6. CASE Prune
    BY <2>6, PruneAsks
  <2>7. CASE StoreFails
    BY <2>7, AskingUnchanged DEF StoreFails, loop
  <2>8. CASE Overtaken
    BY <2>8, AskingUnchanged DEF Overtaken, loop
  <2>9. CASE Crash
    BY <2>9, AskingUnchanged DEF Crash
  <2>10. CASE UNCHANGED vars
    BY <2>10, AskingUnchanged DEF vars, loop
  <2> QED BY <2>1, <2>2, <2>3, <2>4, <2>5, <2>6, <2>7, <2>8, <2>9, <2>10 DEF Next
<1> QED BY <1>1, <1>2, HistoryInvHolds, PTL DEF Spec

\* Every request is one the API accepts, whatever was remembered, whatever the model
\* replied before and whichever rows a fault or a kill left: as many results as calls,
\* each right after its call, and the user first.
THEOREM ApisAcceptEveryRequest == Spec => []RequestsAreWellFormed
<1>1. Asking => RequestsAreWellFormed
  BY DEF Asking, Accepted, RequestsAreWellFormed
<1> QED BY <1>1, AskingHolds, PTL
-----------------------------------------------------------------------------
(* What the model finds of its own replies.                                *)

\* What was called.
CallsIn(uses) == [k \in DOMAIN uses |-> [id |-> uses[k].id, arguments |-> uses[k].input]]

\* Groq's reply is echoed by its replay ...
LEMMA GroqReplayEchoes ==
    ASSUME NEW raw \in RawGroq, NEW finish_reason,
           NEW m, m.blocks = from_groq_message(raw, finish_reason).blocks,
           tool_uses(from_groq_message(raw, finish_reason)) # <<>>
    PROVE  Echoes(GroqContents(WireReply(m)), GroqContents(raw))
<1> DEFINE response == from_groq_message(raw, finish_reason)
           calls == raw.tool_calls
           uses == OfType(m.blocks, "tool_use")
<1>1. /\ uses = [k \in DOMAIN calls |-> ToolUse(calls[k].id, Decoded(calls[k].arguments))]
      /\ text_of(m.blocks) = IF raw.content = Prose THEN Prose ELSE Null
  BY GroqIsRead DEF tool_uses
<1> HIDE DEF uses, calls
<1>2. ASSUME NEW k \in DOMAIN calls
      PROVE  /\ uses[k].id = calls[k].id
             /\ uses[k].input = Decoded(calls[k].arguments)
  BY <1>1 DEF ToolUse
<1>3. DOMAIN uses = DOMAIN calls
  BY <1>1
<1>4. WireReply(m).tool_calls = AsCalls(uses)
  BY DEF WireReply, uses
<1>5. /\ DOMAIN AsCalls(uses) = DOMAIN calls
      /\ \A k \in DOMAIN calls : /\ AsCalls(uses)[k].id = calls[k].id
                                /\ AsCalls(uses)[k].arguments = Decoded(calls[k].arguments)
  <2>1. DOMAIN AsCalls(uses) = DOMAIN calls
    BY <1>3 DEF AsCalls
  <2>2. ASSUME NEW k \in DOMAIN calls
        PROVE  /\ AsCalls(uses)[k].id = calls[k].id
               /\ AsCalls(uses)[k].arguments = Decoded(calls[k].arguments)
    <3>1. AsCalls(uses)[k].id = uses[k].id /\ AsCalls(uses)[k].arguments = uses[k].input
      BY <1>3 DEF AsCalls
    <3> QED BY <1>2, <3>1
  <2> QED BY <2>1, <2>2
<1>6. WireReply(m).content = text_of(m.blocks)
  BY DEF WireReply
<1>7. (IF WireReply(m).content = Prose THEN Prose ELSE Null) = IF raw.content = Prose THEN Prose ELSE Null
  BY <1>1, <1>6 DEF Null, Prose
<1> DEFINE heard == GroqContents(WireReply(m))
           sent == GroqContents(raw)
<1>8. heard.prose = sent.prose
  BY <1>7 DEF GroqContents
<1>9. /\ DOMAIN heard.calls = DOMAIN calls /\ DOMAIN sent.calls = DOMAIN calls
      /\ \A k \in DOMAIN calls : /\ heard.calls[k].id = calls[k].id
                                /\ heard.calls[k].arguments = Decoded(calls[k].arguments)
                                /\ sent.calls[k].id = calls[k].id
                                /\ sent.calls[k].arguments = calls[k].arguments
  BY <1>4, <1>5 DEF GroqContents, Mapped, calls
<1> HIDE DEF heard, sent
<1>10. Echoes(heard, sent)
  BY <1>8, <1>9 DEF Echoes, Decoded
<1> QED BY <1>10 DEF heard, sent

\* ... and so does Anthropic's: what is left out is neither prose nor a call.
LEMMA KnownOfType ==
    ASSUME NEW content \in Seq(RawBlock), NEW type \in {"text", "tool_use"},
           NEW R, R \subseteq RawBlock, \A b \in RawBlock : b \in R <=> b.type = type
    PROVE  /\ OfType(content, type) = Those(content, R)
           /\ Those(Known(content), R) = Those(content, R)
<1> DEFINE S == {b \in ToSet(content) : b.type \in {"text", "tool_use"}}
           Q == {b \in ToSet(content) : b.type = type}
<1>1. \A i \in 1..Len(content) : content[i] \in ToSet(content) /\ content[i] \in RawBlock
  BY DEF ToSet
<1>2. \A i \in 1..Len(content) : content[i] \in Q <=> content[i] \in R
  BY <1>1
<1>3. \A i \in 1..Len(content) : content[i] \in S \cap R <=> content[i] \in R
  BY <1>1
<1> HIDE DEF S, Q
<1>4. Those(content, Q) = Those(content, R)
  BY <1>2, ThoseOfSame
<1>5. Those(Those(content, S), R) = Those(content, S \cap R)
  BY ThoseOfThose
<1>6. Those(content, S \cap R) = Those(content, R)
  BY <1>3, ThoseOfSame
<1> QED BY <1>4, <1>5, <1>6 DEF OfType, Known, S, Q

LEMMA AnthropicReplayEchoes ==
    ASSUME NEW raw \in RawAnthropic
    PROVE  Echoes(AnthropicContents(to_response(raw).blocks), AnthropicContents(raw.content))
<1> DEFINE content == raw.content
           K == Known(content)
           T == RawText \cup RawUse
           F == [b \in T |-> AsBlock(b)]
           blocks == to_response(raw).blocks
<1>1. content \in Seq(RawBlock) /\ K \in Seq(T)
  BY AnthropicIsRead DEF RawAnthropic
<1>2. blocks = [i \in DOMAIN K |-> F[K[i]]]
  <2>1. blocks = [i \in DOMAIN K |-> AsBlock(K[i])]
    BY AnthropicIsRead
  <2>2. \A i \in DOMAIN K : K[i] \in T
    BY <1>1
  <2> HIDE DEF K, T, blocks
  <2> QED BY <2>1, <2>2
<1>3. /\ \A b \in RawText : b \in T /\ AsBlock(b) = b /\ AsBlock(b).type = "text"
      /\ \A b \in RawUse : /\ b \in T /\ AsBlock(b).type = "tool_use"
                           /\ AsBlock(b).id = b.id /\ AsBlock(b).input = Decoded(b.input)
  <2>1. ASSUME NEW b \in RawText PROVE b \in T /\ AsBlock(b) = b /\ AsBlock(b).type = "text"
    <3>1. b.type = "text"
      BY DEF RawText
    <3> QED BY <3>1 DEF AsBlock
  <2>2. ASSUME NEW b \in RawUse
        PROVE  /\ b \in T /\ AsBlock(b).type = "tool_use"
               /\ AsBlock(b).id = b.id /\ AsBlock(b).input = Decoded(b.input)
    <3>1. b.type = "tool_use"
      BY DEF RawUse
    <3> QED BY <3>1 DEF AsBlock, ToolUse
  <2> QED BY <2>1, <2>2
<1>6. ASSUME NEW type \in {"text", "tool_use"}, NEW R, R \subseteq RawBlock,
             \A b \in RawBlock : b \in R <=> b.type = type
      PROVE  OfType(blocks, type) = [i \in DOMAIN OfType(content, type) |-> F[OfType(content, type)[i]]]
  <2> DEFINE Q == {b \in ToSet(blocks) : b.type = type}
  <2>1. \A b \in T : AsBlock(b).type = type <=> b \in R
    <3>1. \A b \in T : b \in RawBlock /\ (b.type = "text" \/ b.type = "tool_use") /\ AsBlock(b).type = b.type
      BY <1>3 DEF RawBlock, RawText, RawUse
    <3> HIDE DEF T
    <3> QED BY <1>6, <3>1
  <2>2. \A i \in 1..Len(K) : F[K[i]] \in Q <=> K[i] \in R
    <3> SUFFICES ASSUME NEW i \in 1..Len(K) PROVE F[K[i]] \in Q <=> K[i] \in R
      OBVIOUS
    <3>1. K[i] \in T /\ DOMAIN K = 1..Len(K)
      <4> HIDE DEF K, T
      <4> QED BY <1>1
    <3>2. F[K[i]] = AsBlock(K[i])
      <4> HIDE DEF K, T
      <4> QED BY <3>1
    <3>3. F[K[i]] = blocks[i] /\ i \in DOMAIN blocks
      <4> HIDE DEF K, F, blocks
      <4> QED BY <1>2, <3>1
    <3>4. F[K[i]] \in ToSet(blocks)
      <4> HIDE DEF K, F, blocks
      <4> QED BY <3>3 DEF ToSet
    <3> HIDE DEF K, F, T, blocks
    <3> QED BY <2>1, <3>1, <3>2, <3>4
  <2> HIDE DEF Q, K, F, T, blocks, content
  <2>3. Those(Changed(K, F), Q) = Changed(Those(K, R), F)
    <3>1. K \in Seq(T)
      BY <1>1
    <3>2. CorrespondsTo(K, F, Q, R)
      BY <2>2 DEF CorrespondsTo
    <3> QED BY <3>1, <3>2, ThoseOfMapped
  <2>4. OfType(content, type) = Those(content, R) /\ Those(K, R) = Those(content, R)
    BY <1>1, <1>6, KnownOfType DEF K
  <2> QED BY <1>2, <2>3, <2>4 DEF OfType, Q, Changed
<1>7. OfType(blocks, "text") = OfType(content, "text")
  <2> DEFINE t == OfType(content, "text")
  <2>1. RawText \subseteq RawBlock /\ \A b \in RawBlock : b \in RawText <=> b.type = "text"
    BY DEF RawBlock, RawText, RawThinking, RawUse
  <2>2. OfType(blocks, "text") = [i \in DOMAIN t |-> F[t[i]]]
    <3> HIDE DEF F, blocks, content
    <3> QED BY <1>6, <2>1
  <2>3. t \in Seq(RawBlock \cap RawText)
    <3>1. t = Those(content, RawText)
      BY <1>1, <2>1, KnownOfType
    <3> HIDE DEF t, content
    <3> QED BY <1>1, <3>1, ThoseAreSome
  <2> HIDE DEF t
  <2>4. ASSUME NEW i \in DOMAIN t PROVE F[t[i]] = t[i]
    <3>1. t[i] \in RawText
      BY <2>3
    <3> QED BY <1>3, <3>1
  <2>5. t = [i \in DOMAIN t |-> t[i]]
    BY <2>3
  <2> HIDE DEF F, blocks, content
  <2>6. [i \in DOMAIN t |-> F[t[i]]] = [i \in DOMAIN t |-> t[i]]
    BY <2>4
  <2> QED BY <2>2, <2>5, <2>6 DEF t
<1> DEFINE uses == OfType(blocks, "tool_use")
           t == OfType(content, "tool_use")
<1>8. /\ DOMAIN uses = DOMAIN t
      /\ \A i \in DOMAIN t : uses[i].id = t[i].id /\ uses[i].input = Decoded(t[i].input)
  <2>1. RawUse \subseteq RawBlock /\ \A b \in RawBlock : b \in RawUse <=> b.type = "tool_use"
    BY DEF RawBlock, RawText, RawThinking, RawUse
  <2>2. uses = [i \in DOMAIN t |-> F[t[i]]]
    <3> HIDE DEF F, blocks, content
    <3> QED BY <1>6, <2>1
  <2>3. t \in Seq(RawBlock \cap RawUse)
    <3>1. t = Those(content, RawUse)
      BY <1>1, <2>1, KnownOfType
    <3> HIDE DEF t, content
    <3> QED BY <1>1, <3>1, ThoseAreSome
  <2> HIDE DEF t, uses
  <2>4. ASSUME NEW i \in DOMAIN t PROVE F[t[i]].id = t[i].id /\ F[t[i]].input = Decoded(t[i].input)
    <3>1. t[i] \in RawUse
      BY <2>3
    <3>2. F[t[i]] = AsBlock(t[i])
      BY <1>3, <3>1
    <3> HIDE DEF F
    <3> QED BY <1>3, <3>1, <3>2
  <2> HIDE DEF F
  <2> QED BY <2>2, <2>4
<1> HIDE DEF blocks, content
<1>9. \A s : AnthropicContents(s) = [prose |-> OfType(s, "text"), calls |-> CallsIn(OfType(s, "tool_use"))]
  BY DEF AnthropicContents, CallsIn, Mapped
<1>10. Echoes(AnthropicContents(blocks), AnthropicContents(content))
  <2>1. /\ DOMAIN CallsIn(uses) = DOMAIN t /\ DOMAIN CallsIn(t) = DOMAIN t
        /\ \A i \in DOMAIN t : /\ CallsIn(uses)[i].id = t[i].id
                              /\ CallsIn(uses)[i].arguments = Decoded(t[i].input)
                              /\ CallsIn(t)[i].id = t[i].id
                              /\ CallsIn(t)[i].arguments = t[i].input
    <3> HIDE DEF uses, t
    <3> QED BY <1>8 DEF CallsIn
  <2> HIDE DEF uses, t
  <2>2. /\ AnthropicContents(blocks).calls = CallsIn(uses)
        /\ AnthropicContents(content).calls = CallsIn(t)
        /\ AnthropicContents(blocks).prose = AnthropicContents(content).prose
    BY <1>7, <1>9 DEF uses, t
  <2> QED BY <2>1, <2>2 DEF Echoes, Decoded
<1> QED BY <1>10 DEF blocks, content
\* The assistant's messages among those of the loop, in either dialect.
OfAssistant(M) == {m \in M : m.role = "assistant"}
Heard(dialect, L) == IF dialect = "groq" THEN Those(Flat(L), OfAssistant(WireMessage))
                                         ELSE Those(L, OfAssistant(RouterMessage))

\* One of them more.
LEMMA OneMore ==
    ASSUME NEW T, NEW s \in Seq(T), NEW x \in T, NEW t \in Seq(T), NEW S,
           x \in S, \A i \in 1..Len(t) : t[i] \notin S
    PROVE  Those((s \o <<x>>) \o t, S) = Append(Those(s, S), x)
<1> DEFINE e == <<x>>
           v == s \o e
<1>1. e \in Seq(T) /\ Len(e) = 1 /\ e[1] = x
  OBVIOUS
<1>2. \A i \in 1..Len(e) : e[i] \in S
  BY <1>1
<1> HIDE DEF e
<1>3. v \in Seq(T)
  BY <1>1, ConcatProperties
<1>4. Those(v, S) = Those(s, S) \o Those(e, S)
  BY <1>1, ThoseOfBoth
<1>5. Those(e, S) = e
  BY <1>1, <1>2, ThoseOfAll
<1>6. Those(t, S) = <<>>
  BY ThoseOfNone
<1> HIDE DEF v
<1>7. Those(v \o t, S) = Those(v, S) \o Those(t, S)
  BY <1>3, ThoseOfBoth
<1>8. Those(v, S) \in Seq(T) /\ Those(s, S) \in Seq(T)
  BY <1>3, ThoseAreSome
<1>9. Those(v, S) \o <<>> = Those(v, S)
  BY <1>8, ConcatEmptySeq
<1>10. Those(s, S) \o <<x>> = Append(Those(s, S), x)
  BY <1>8, AppendIsConcat
<1> QED BY <1>4, <1>5, <1>6, <1>7, <1>9, <1>10 DEF v, e

\* A round more is one reply more.
LEMMA HeardGrows ==
    ASSUME NEW dialect, NEW L \in Seq(RouterMessage), NEW a \in ReplyMessage, NEW u \in ResultMessage
    PROVE  Heard(dialect, L \o <<a, u>>) = Append(Heard(dialect, L), IF dialect = "groq" THEN WireReply(a) ELSE a)
<1>1. CASE dialect = "groq"
  <2> DEFINE w == WireReply(a)
             t == AsResults(u.blocks)
             S == OfAssistant(WireMessage)
             f == Flat(L)
  <2>1. w \in WireMessage /\ w \in S /\ t \in Seq(ResultWire)
    <3>1. w \in SpokenWire /\ w.role = "assistant"
      BY WireOfReply DEF WireReply
    <3> HIDE DEF w
    <3> QED BY <3>1, WireOfResults DEF WireMessage, OfAssistant
  <2>2. t \in Seq(WireMessage)
    <3>1. ResultWire \subseteq WireMessage
      BY DEF WireMessage
    <3> HIDE DEF t
    <3> QED BY <2>1, <3>1, SeqMonotonic
  <2>3. ASSUME NEW i \in 1..Len(t) PROVE t[i] \notin S
    <3>1. t[i] \in ResultWire
      BY <2>1
    <3> QED BY <3>1 DEF ResultWire, OfAssistant
  <2>4. f \in Seq(WireMessage)
    BY WireOfEach
  <2>5. Flat(L \o <<a, u>>) = (f \o <<w>>) \o t
    BY FlatRound
  <2> HIDE DEF w, t, S, f
  <2>6. Those((f \o <<w>>) \o t, S) = Append(Those(f, S), w)
    BY <2>1, <2>2, <2>3, <2>4, OneMore
  <2> QED BY <1>1, <2>5, <2>6 DEF Heard, w, S, f
<1>2. CASE dialect # "groq"
  <2> DEFINE S == OfAssistant(RouterMessage)
             t == <<u>>
  <2>1. a \in RouterMessage /\ u \in RouterMessage /\ a \in S /\ u \notin S
    BY DEF RouterMessage, ReplyMessage, ResultMessage, OfAssistant
  <2>2. t \in Seq(RouterMessage) /\ \A i \in 1..Len(t) : t[i] = u
    BY <2>1
  <2>3. L \o <<a, u>> = (L \o <<a>>) \o t
    <3>1. L \o <<a, u>> = Append(Append(L, a), u) /\ Append(L, a) \in Seq(RouterMessage)
      BY <2>1
    <3>2. Append(L, a) = L \o <<a>> /\ Append(Append(L, a), u) = Append(L, a) \o <<u>>
      BY <2>1, <3>1, AppendIsConcat
    <3> QED BY <3>1, <3>2
  <2> HIDE DEF S, t
  <2>4. Those((L \o <<a>>) \o t, S) = Append(Those(L, S), a)
    BY <2>1, <2>2, OneMore
  <2> QED BY <1>2, <2>3, <2>4 DEF Heard, S
<1> QED BY <1>1, <1>2

\* The messages of the loop: two for each reply.
InTheLoop(p, k) == SubSeq(p, Len(p) - 2 * k + 1, Len(p))

LEMMA LoopIsSeq ==
    ASSUME NEW T, NEW p \in Seq(T), NEW k \in Nat, 2 * k <= Len(p)
    PROVE  InTheLoop(p, k) \in Seq(T) /\ Len(InTheLoop(p, k)) = 2 * k
<1> DEFINE j == Len(p) - 2 * k + 1
<1>1. j \in 1..(Len(p) + 1) /\ Len(p) - j + 1 = 2 * k
  OBVIOUS
<1>2. InTheLoop(p, k) = SubSeq(p, j, Len(p))
  BY DEF InTheLoop
<1> HIDE DEF j
<1> QED BY <1>1, <1>2, KeptFrom

LEMMA LoopGrows ==
    ASSUME NEW T, NEW p \in Seq(T), NEW a \in T, NEW u \in T, NEW k \in Nat, 2 * k <= Len(p)
    PROVE  InTheLoop(p \o <<a, u>>, k + 1) = InTheLoop(p, k) \o <<a, u>>
<1> DEFINE n == Len(p)
           j == n - 2 * k + 1
           q == p \o <<a, u>>
           v == SubSeq(p, j, n)
           w == SubSeq(q, j, n + 2)
           x == v \o <<a, u>>
<1>1. /\ n \in Nat /\ q \in Seq(T) /\ Len(q) = n + 2 /\ q[n + 1] = a /\ q[n + 2] = u
      /\ \A i \in 1..n : q[i] = p[i]
  OBVIOUS
<1>2. j \in 1..(n + 1) /\ n - j + 1 = 2 * k /\ (n + 2) - 2 * (k + 1) + 1 = j
  OBVIOUS
<1>3. InTheLoop(q, k + 1) = w /\ InTheLoop(p, k) = v
  <2> HIDE DEF q, j
  <2>1. InTheLoop(q, k + 1) = SubSeq(q, (n + 2) - 2 * (k + 1) + 1, n + 2)
    BY <1>1 DEF InTheLoop
  <2> QED BY <1>2, <2>1 DEF InTheLoop, j
<1> HIDE DEF q, j
<1>4. /\ v \in Seq(T) /\ Len(v) = 2 * k /\ \A i \in 1..(2 * k) : v[i] = p[i + j - 1]
  BY <1>2, KeptFrom
<1>5. /\ w \in Seq(T) /\ Len(w) = 2 * k + 2 /\ \A i \in 1..(2 * k + 2) : w[i] = q[i + j - 1]
  <2>1. j \in 1..(Len(q) + 1) /\ Len(q) - j + 1 = 2 * k + 2 /\ Len(q) = n + 2
    BY <1>1, <1>2
  <2> HIDE DEF n
  <2> QED BY <1>1, <2>1, KeptFrom
<1> HIDE DEF v, w
<1>6. /\ x \in Seq(T) /\ Len(x) = 2 * k + 2 /\ x[2 * k + 1] = a /\ x[2 * k + 2] = u
      /\ \A i \in 1..(2 * k) : x[i] = v[i]
  <2>1. /\ x \in Seq(T) /\ Len(x) = Len(v) + 2 /\ x[Len(v) + 1] = a /\ x[Len(v) + 2] = u
        /\ \A i \in 1..Len(v) : x[i] = v[i]
    <3>1. v \in Seq(T)
      BY <1>4
    <3> QED BY <3>1
  <2> HIDE DEF x
  <2> QED BY <1>4, <2>1
<1> HIDE DEF x
<1>7. ASSUME NEW i \in 1..(2 * k + 2) PROVE w[i] = x[i]
  <2>1. CASE i \in 1..(2 * k)
    <3>1. i + j - 1 \in 1..n
      BY <1>1, <1>2, <2>1
    <3> HIDE DEF n
    <3> QED BY <1>1, <1>4, <1>5, <1>6, <2>1, <3>1
  <2>2. CASE i = 2 * k + 1
    <3>1. i + j - 1 = n + 1
      BY <1>1, <1>2, <2>2
    <3> HIDE DEF n
    <3> QED BY <1>1, <1>5, <1>6, <2>2, <3>1
  <2>3. CASE i = 2 * k + 2
    <3>1. i + j - 1 = n + 2
      BY <1>1, <1>2, <2>3
    <3> HIDE DEF n
    <3> QED BY <1>1, <1>5, <1>6, <2>3, <3>1
  <2> QED BY <2>1, <2>2, <2>3
<1>8. w = x
  BY <1>5, <1>6, <1>7, SeqEqual
<1> QED BY <1>3, <1>8 DEF q, x
\* A reply as it is heard echoes it as it was sent.
HeardAs(dialect, m, raw) ==
    IF dialect = "groq" THEN Echoes(GroqContents(m), GroqContents(raw))
                        ELSE Echoes(AnthropicContents(m.blocks), AnthropicContents(raw.content))

\* The replies heard in the loop are those that were sent, one by one.
Faithful(dialect, heard, sent) ==
    /\ Len(heard) = Len(sent)
    /\ \A i \in 1..Len(sent) : HeardAs(dialect, heard[i], sent[i])

Replaying == at = "model" => /\ 2 * Len(said) <= Len(messages)
                             /\ Faithful(provider, Heard(provider, InTheLoop(messages, Len(said))), said)

LEMMA HeardIsSeq ==
    ASSUME NEW dialect, NEW L \in Seq(RouterMessage)
    PROVE  Heard(dialect, L) \in Seq(WireMessage \cup RouterMessage)
<1>1. Those(L, OfAssistant(RouterMessage)) \in Seq(RouterMessage)
  BY ThoseAreSome
<1>2. Those(Flat(L), OfAssistant(WireMessage)) \in Seq(WireMessage)
  BY WireOfEach, ThoseAreSome
<1>3. WireMessage \subseteq WireMessage \cup RouterMessage /\ RouterMessage \subseteq WireMessage \cup RouterMessage
  OBVIOUS
<1>4. Heard(dialect, L) \in Seq(WireMessage) \/ Heard(dialect, L) \in Seq(RouterMessage)
  BY <1>1, <1>2 DEF Heard
<1> QED BY <1>3, <1>4, SeqMonotonic

LEMMA NothingHeard == \A dialect : Heard(dialect, <<>>) = <<>>
<1>1. Flat(<<>>) = <<>>
  <2> DEFINE p == [i \in DOMAIN <<>> |-> GroqMessages(<<>>[i])]
  <2>1. p = <<>>
    OBVIOUS
  <2>2. <<>> \in Seq(Seq(WireMessage)) /\ Len(<<>>) = 0
    OBVIOUS
  <2>3. FlattenSeq(<<>>) = <<>>
    <3>1. PICK f \in [0..Len(<<>>) -> Seq(WireMessage)] : f[0] = <<>> /\ FlattenSeq(<<>>) = f[Len(<<>>)]
      BY <2>2, FlatMade
    <3> QED BY <2>2, <3>1
  <2> HIDE DEF p
  <2> QED BY <2>1, <2>3 DEF Flat, p
<1> QED BY <1>1, ThoseOfNothing DEF Heard

LEMMA BeginReplays == ASSUME Asking, Asking', Begin PROVE Replaying'
<1>1. said' = <<>> /\ at' = "model" /\ messages' \in Seq(RouterMessage)
  BY DEF Begin, Asking
<1>2. Len(said') = 0 /\ Len(messages') \in Nat
  BY <1>1
<1>3. InTheLoop(messages', 0) = <<>>
  <2>1. InTheLoop(messages', 0) \in Seq(RouterMessage) /\ Len(InTheLoop(messages', 0)) = 0
    <3>1. 0 \in Nat /\ 2 * 0 <= Len(messages') /\ 2 * 0 = 0
      BY <1>2
    <3> QED BY <1>1, <3>1, LoopIsSeq
  <2> QED BY <2>1, EmptySeq
<1>4. Heard(provider', InTheLoop(messages', 0)) = <<>>
  BY <1>3, NothingHeard
<1> QED BY <1>1, <1>2, <1>4 DEF Replaying, Faithful
\* A round's reply is heard as it was sent.
LEMMA ReplayEchoes ==
    ASSUME NEW raw \in RawReply, WantsTools(Response(raw))
    PROVE  HeardAs(provider, IF provider = "groq" THEN WireReply(Replayed(raw)) ELSE Replayed(raw), raw)
<1>1. Replayed(raw).blocks = Response(raw).blocks
  BY ReplyIsReplayed
<1>2. CASE provider = "groq"
  <2>1. raw \in RawGroq /\ Response(raw) = from_groq_message(raw, raw.finish_reason)
    BY <1>2 DEF RawReply, Response
  <2>2. tool_uses(Response(raw)) # <<>>
    BY DEF WantsTools
  <2>3. Echoes(GroqContents(WireReply(Replayed(raw))), GroqContents(raw))
    BY <1>1, <2>1, <2>2, GroqReplayEchoes
  <2> QED BY <1>2, <2>3 DEF HeardAs
<1>3. CASE provider # "groq"
  <2>1. raw \in RawAnthropic /\ Response(raw) = to_response(raw)
    BY <1>3 DEF RawReply, Response
  <2>2. Echoes(AnthropicContents(Replayed(raw).blocks), AnthropicContents(raw.content))
    BY <1>1, <2>1, AnthropicReplayEchoes
  <2> QED BY <1>3, <2>2 DEF HeardAs
<1> QED BY <1>2, <1>3

LEMMA RoundReplays ==
    ASSUME Asking, Replaying, NEW raw \in Replies, RunTools(raw) PROVE Replaying'
<1> DEFINE a == Replayed(raw)
           u == ResultsOf(raw)
           k == Len(said)
           L == InTheLoop(messages, k)
           heard == Heard(provider, L)
           x == IF provider = "groq" THEN WireReply(a) ELSE a
<1>1. /\ at = "model" /\ WantsTools(Response(raw))
      /\ said' = Append(said, raw) /\ UNCHANGED <<at, provider>>
  BY DEF RunTools
<1>2. messages' = messages \o <<a, u>>
  BY DEF RunTools, Replayed, ResultsOf, Mapped
<1>3. raw \in RawReply
  <2>1. Len(said) \in Nat
    BY DEF Asking
  <2> QED BY <2>1, GroqSends, AnthropicSends DEF Replies, RawReply
<1>4. a \in ReplyMessage /\ u \in ResultMessage /\ a \in RouterMessage /\ u \in RouterMessage
  BY <1>3, ReplyIsReplayed DEF RouterMessage
<1>5. messages \in Seq(RouterMessage) /\ said \in Seq(RawReply) /\ k \in Nat
  BY <1>1 DEF Asking
<1>6. 2 * k <= Len(messages) /\ Faithful(provider, heard, said)
  BY <1>1 DEF Replaying
<1>7. HeardAs(provider, x, raw)
  BY <1>1, <1>3, ReplayEchoes
<1>8. L \in Seq(RouterMessage)
  BY <1>5, <1>6, LoopIsSeq
<1>9. x \in WireMessage \cup RouterMessage
  <2>1. WireReply(a) \in WireMessage
    BY <1>4, WireOfReply DEF WireMessage
  <2> QED BY <1>4, <2>1
<1>10. Len(said') = k + 1 /\ said'[k + 1] = raw /\ \A i \in 1..k : said'[i] = said[i]
  <2> HIDE DEF k
  <2>1. k = Len(said)
    BY DEF k
  <2> QED BY <1>1, <1>3, <1>5, <2>1
<1> HIDE DEF a, u, L, x, heard
<1>11. InTheLoop(messages', k + 1) = L \o <<a, u>>
  <2> HIDE DEF k
  <2>1. messages \in Seq(RouterMessage) /\ a \in RouterMessage /\ u \in RouterMessage
        /\ k \in Nat /\ 2 * k <= Len(messages)
    BY <1>4, <1>5, <1>6
  <2>2. InTheLoop(messages \o <<a, u>>, k + 1) = InTheLoop(messages, k) \o <<a, u>>
    BY <2>1, LoopGrows
  <2> QED BY <1>2, <2>2 DEF L
<1>12. Heard(provider, L \o <<a, u>>) = Append(heard, x)
  BY <1>4, <1>8, HeardGrows DEF heard, x
<1>13. heard \in Seq(WireMessage \cup RouterMessage)
  BY <1>8, HeardIsSeq DEF heard
<1> HIDE DEF k
<1>14. Len(heard) = k /\ \A i \in 1..k : HeardAs(provider, heard[i], said[i])
  BY <1>6 DEF Faithful, k
<1>15. /\ Len(Append(heard, x)) = k + 1 /\ Append(heard, x)[k + 1] = x
       /\ \A i \in 1..k : Append(heard, x)[i] = heard[i]
  BY <1>9, <1>13, <1>14, AppendProperties
<1>16. \A i \in 1..(k + 1) : i \in 1..k \/ i = k + 1
  BY <1>5
<1>17. Faithful(provider, Append(heard, x), said')
  BY <1>7, <1>10, <1>14, <1>15, <1>16 DEF Faithful
<1>18. 2 * (k + 1) <= Len(messages')
  <2>1. Len(messages') = Len(messages) + 2 /\ Len(messages) \in Nat
    BY <1>2, <1>4, <1>5
  <2> QED BY <1>5, <1>6, <2>1
<1> QED BY <1>1, <1>10, <1>11, <1>12, <1>17, <1>18 DEF Replaying

\* Every reachable state satisfies it.
THEOREM ReplayingHolds == Spec => []Replaying
<1>1. Init => Replaying
  BY DEF Init, Replaying
<1>2. Asking /\ Asking' /\ Replaying /\ [Next]_vars => Replaying'
  <2> SUFFICES ASSUME Asking, Asking', Replaying, [Next]_vars PROVE Replaying'
    OBVIOUS
  <2>1. CASE Begin
    BY <2>1, BeginReplays
  <2>2. ASSUME NEW raw \in Replies, RunTools(raw) PROVE Replaying'
    BY <2>2, RoundReplays
  <2>3. ASSUME at' # "model" PROVE Replaying'
    BY <2>3 DEF Replaying
  <2>4. ASSUME UNCHANGED <<at, messages, said, provider>> PROVE Replaying'
    BY <2>4 DEF Replaying
  <2>5. ASSUME NEW raw \in Replies, Answer(raw) PROVE Replaying'
    BY <2>3, <2>5 DEF Answer
  <2>6. CASE Degrade
    BY <2>3, <2>6 DEF Degrade
  <2>7. CASE Insert
    BY <2>3, <2>7 DEF Insert
  <2>8. CASE Prune
    BY <2>3, <2>8 DEF Prune
  <2>9. CASE StoreFails
    BY <2>3, <2>9 DEF StoreFails
  <2>10. CASE Overtaken
    BY <2>4, <2>10 DEF Overtaken, loop
  <2>11. CASE Crash
    BY <2>3, <2>11 DEF Crash
  <2>12. CASE UNCHANGED vars
    BY <2>4, <2>12 DEF vars, loop
  <2> QED BY <2>1, <2>2, <2>5, <2>6, <2>7, <2>8, <2>9, <2>10, <2>11, <2>12 DEF Next
<1> QED BY <1>1, <1>2, AskingHolds, PTL DEF Spec

\* What comes after the first is what it was put before.
LEMMA TailOfJoined ==
    ASSUME NEW T, NEW f \in Seq(T), NEW s \in T PROVE Tail(<<s>> \o f) = f
<1> DEFINE q == <<s>> \o f
<1>1. /\ q \in Seq(T) /\ Len(q) = 1 + Len(f) /\ Len(f) \in Nat /\ \A i \in 1..Len(f) : q[i + 1] = f[i]
  OBVIOUS
<1> HIDE DEF q
<1>2. Tail(q) \in Seq(T) /\ Len(Tail(q)) = Len(f) /\ \A i \in 1..Len(f) : Tail(q)[i] = q[i + 1]
  BY <1>1
<1>3. Tail(q) = f
  BY <1>1, <1>2, SeqEqual
<1> QED BY <1>3 DEF q

\* What the model finds of its own replies in this turn is what it said, however many
\* rounds there have been, in either dialect: the same prose and the same calls in the
\* same order, each with the very arguments it was made with if they were an object,
\* and with an empty object if they were not.
THEOREM RepliesAreHeardAsSaid == Spec => []RepliesAreReplayed
<1>1. Asking /\ Replaying => RepliesAreReplayed
  <2> SUFFICES ASSUME Asking, Replaying, at = "model" PROVE RepliesAreReplayed
    BY DEF RepliesAreReplayed
  <2> DEFINE L == InTheLoop(messages, Len(said))
             heard == Heard(provider, L)
             Only(M) == {m \in M : m.role = "assistant"}
  <2>1. messages \in Seq(RouterMessage) /\ said \in Seq(RawReply) /\ Len(said) \in Nat
        /\ 2 * Len(said) <= Len(messages) /\ Faithful(provider, heard, said)
    BY DEF Asking, Replaying
  <2>2. L \in Seq(RouterMessage)
    BY <2>1, LoopIsSeq
  <2>3. heard \in Seq(WireMessage \cup RouterMessage)
    BY <2>2, HeardIsSeq
  <2>4. \A M : \A s \in Seq(M) : Those(s, Only(ToSet(s))) = Those(s, OfAssistant(M))
    <3> SUFFICES ASSUME NEW M, NEW s \in Seq(M)
                 PROVE  Those(s, Only(ToSet(s))) = Those(s, OfAssistant(M))
      OBVIOUS
    <3>1. \A i \in 1..Len(s) : s[i] \in M /\ s[i] \in ToSet(s)
      BY DEF ToSet
    <3>2. \A i \in 1..Len(s) : s[i] \in Only(ToSet(s)) <=> s[i] \in OfAssistant(M)
      BY <3>1 DEF OfAssistant
    <3> HIDE DEF Only
    <3> QED BY <3>2, ThoseOfSame
  <2>5. Tail(to_groq_messages(L)) = Flat(L)
    <3>1. Flat(L) \in Seq(WireMessage)
      BY <2>2, WireOfEach
    <3>2. Plain("system", Prose) \in WireMessage
      <4>1. <<>> \in Seq(WireCall)
        OBVIOUS
      <4> QED BY <4>1 DEF Plain, SpokenWire, WireMessage
    <3> HIDE DEF L
    <3> QED BY <3>1, <3>2, ToGroqIs, TailOfJoined
  <2> DEFINE sent == IF provider = "groq" THEN Tail(to_groq_messages(L)) ELSE L
  <2>6. Those(sent, Only(ToSet(sent))) = heard
    <3>1. Flat(L) \in Seq(WireMessage)
      BY <2>2, WireOfEach
    <3> HIDE DEF L, Only
    <3> QED BY <2>2, <2>4, <2>5, <3>1 DEF Heard
  <2>7. /\ DOMAIN heard = DOMAIN said
        /\ \A i \in DOMAIN said : HeardAs(provider, heard[i], said[i])
    <3> HIDE DEF heard
    <3> QED BY <2>1, <2>3 DEF Faithful
  <2> HIDE DEF heard, Only
  <2>8. Len(heard) = Len(said)
    BY <2>1 DEF Faithful
  <2> QED BY <2>6, <2>7, <2>8 DEF RepliesAreReplayed, InTheLoop, HeardAs, Only
<1> QED BY <1>1, AskingHolds, ReplayingHolds, PTL

-----------------------------------------------------------------------------
(***************************************************************************)
(* The file: SnapshotStore.                                                *)
(***************************************************************************)

USE SnapshotStoreAssumption

\* A copy under way has a sound source, and its target holds nothing of worth.
Copying == /\ phase = "copy_snapshot" => Healthy(snapshot) /\ db \in {0, Partial}
           /\ phase = "copy_prev" => Healthy(prev) /\ db \in {0, Partial}

\* What is about to be rotated in is the database itself.
Rotating == /\ phase = "check_tmp" /\ Healthy(tmp) => tmp = db
            /\ phase \in {"rotate_prev", "rotate_tmp"} => tmp = db /\ Healthy(db)

\* While the recovery is under way nothing sound is in its way ...
Recovering == /\ phase = "rename" => ~Healthy(db)
              /\ phase \in {"sidecars", "try_snapshot", "try_prev"} => db = Absent
              /\ phase \in {"try_prev", "copy_prev"} => ~Healthy(snapshot)

\* ... and otherwise the database is at least as long as either generation, and
\* absent only when there is none.
Ordered == /\ Healthy(snapshot) => snapshot >= prev
           /\ phase \notin Recovery /\ Healthy(db) => db >= snapshot /\ db >= prev
           /\ phase \notin Recovery /\ db = Absent => ~Healthy(snapshot) /\ ~Healthy(prev)

SnapshotInv == /\ StoreTypeOK
               /\ Copying
               /\ Rotating
               /\ ~misread /\ ~cut => Recovering /\ Ordered

\* The longest of three histories is one of them and no shorter than any.
LEMMA MaxOfThree ==
    ASSUME NEW a \in Int, NEW b \in Int, NEW c \in Int
    PROVE  /\ Max({a, b, c}) \in {a, b, c}
           /\ \A x \in {a, b, c} : Max({a, b, c}) >= x
<1>1. \E m \in {a, b, c} : \A x \in {a, b, c} : m >= x
  <2>1. CASE a >= b /\ a >= c BY <2>1
  <2>2. CASE b >= a /\ b >= c BY <2>2
  <2>3. CASE c >= a /\ c >= b BY <2>3
  <2> QED BY <2>1, <2>2, <2>3
<1> QED BY <1>1 DEF Max

\* Every step of the store keeps the variables in their ranges.
LEMMA TypeKept == StoreTypeOK /\ [StoreNext]_storeVars => StoreTypeOK'
<1> SUFFICES ASSUME StoreTypeOK, [StoreNext]_storeVars PROVE StoreTypeOK'
  OBVIOUS
<1>a. /\ db \in Contents /\ snapshot \in Contents /\ prev \in Contents /\ tmp \in Contents
      /\ kept \in Contents
      /\ phase \in Phases /\ closing \in BOOLEAN /\ faults \in 0..MaxFaults
      /\ misread \in BOOLEAN /\ cut \in BOOLEAN
  BY DEF StoreTypeOK
<1>b. Absent \in Contents /\ Damaged \in Contents /\ Partial \in Contents /\ 0 \in Contents
  BY DEF Contents, Absent, Damaged, Partial
<1> SUFFICES /\ db' \in Contents /\ snapshot' \in Contents
             /\ prev' \in Contents /\ tmp' \in Contents /\ kept' \in Contents
             /\ phase' \in Phases /\ closing' \in BOOLEAN /\ faults' \in 0..MaxFaults
             /\ misread' \in BOOLEAN /\ cut' \in BOOLEAN
  BY DEF StoreTypeOK, Contents
<1> USE <1>a, <1>b DEF Phases, Recovery, Rotation, Goto, Calm, Rest, Mishap, files, observed, storeVars
<1>1. CASE Start BY <1>1 DEF Start
<1>2. CASE Check BY <1>2 DEF Check, IsHealthy
<1>3. CASE Rename BY <1>3 DEF Rename
<1>4. CASE Sidecars BY <1>4 DEF Sidecars
<1>5. CASE TrySnapshot BY <1>5 DEF TrySnapshot, Try, IsHealthy
<1>6. CASE CopySnapshot BY <1>6 DEF CopySnapshot, Copy
<1>7. CASE TryPrev BY <1>7 DEF TryPrev, Try, IsHealthy
<1>8. CASE CopyPrev BY <1>8 DEF CopyPrev, Copy
<1>9. CASE Connect BY <1>9 DEF Connect
<1>10. CASE Vacuum BY <1>10 DEF Vacuum, SnapshotOver
<1>11. CASE CheckTmp BY <1>11 DEF CheckTmp, IsHealthy, SnapshotOver
<1>12. CASE RotatePrev BY <1>12 DEF RotatePrev, SnapshotOver
<1>13. CASE RotateTmp BY <1>13 DEF RotateTmp, SnapshotOver
<1>14. CASE Write BY <1>14 DEF Write, Healthy, Contents, Partial
<1>15. CASE Close BY <1>15 DEF Close
<1>16. CASE Kill BY <1>16 DEF Kill
<1>17. CASE Fault BY <1>17 DEF Fault
<1>18. CASE UNCHANGED storeVars BY <1>18
<1> QED
  BY <1>1, <1>2, <1>3, <1>4, <1>5, <1>6, <1>7, <1>8, <1>9, <1>10, <1>11, <1>12, <1>13,
     <1>14, <1>15, <1>16, <1>17, <1>18 DEF StoreNext

\* And keeps the rest of the invariant.
LEMMA RestKept ==
    SnapshotInv /\ [StoreNext]_storeVars =>
        Copying' /\ Rotating' /\ (~misread' /\ ~cut' => Recovering' /\ Ordered')
<1> SUFFICES ASSUME SnapshotInv, [StoreNext]_storeVars
             PROVE  Copying' /\ Rotating' /\ (~misread' /\ ~cut' => Recovering' /\ Ordered')
  OBVIOUS
<1>0. /\ db \in Int /\ snapshot \in Int /\ prev \in Int /\ tmp \in Int
      /\ closing \in BOOLEAN /\ misread \in BOOLEAN /\ cut \in BOOLEAN
  BY DEF SnapshotInv, StoreTypeOK, Contents, Partial
<1>a. Copying /\ Rotating /\ (~misread /\ ~cut => Recovering /\ Ordered)
  BY DEF SnapshotInv
<1> USE <1>0, <1>a DEF Copying, Rotating, Recovering, Ordered, Healthy, Absent, Damaged, Partial,
            Recovery, Goto, Calm, Rest, Mishap, files, observed
<1>1. CASE Start BY <1>1 DEF Start
<1>2. CASE Check BY <1>2 DEF Check, IsHealthy
<1>3. CASE Rename BY <1>3 DEF Rename
<1>4. CASE Sidecars BY <1>4 DEF Sidecars
<1>5. CASE TrySnapshot BY <1>5 DEF TrySnapshot, Try, IsHealthy
<1>6. CASE CopySnapshot BY <1>6 DEF CopySnapshot, Copy
<1>7. CASE TryPrev
  <2>1. /\ phase = "try_prev" /\ phase' \in {"copy_prev", "connect"}
        /\ phase' = "copy_prev" => Healthy(prev) /\ db' \in {0, Partial}
        /\ phase' = "connect" => db' = db /\ (~misread' => ~Healthy(prev))
        /\ snapshot' = snapshot /\ prev' = prev /\ tmp' = tmp /\ cut' = cut
        /\ ~misread' => ~misread
    BY <1>7 DEF TryPrev, Try, IsHealthy
  <2>2. Copying' /\ Rotating'
    BY <2>1
  <2>3. ~misread' /\ ~cut' => Recovering'
    BY <2>1
  <2>4. ~misread' /\ ~cut' => Ordered'
    BY <2>1
  <2> QED BY <2>2, <2>3, <2>4
<1>8. CASE CopyPrev BY <1>8 DEF CopyPrev, Copy
<1>9. CASE Connect BY <1>9 DEF Connect
<1>10. CASE Vacuum BY <1>10 DEF Vacuum, SnapshotOver
<1>11. CASE CheckTmp BY <1>11 DEF CheckTmp, IsHealthy, SnapshotOver
<1>12. CASE RotatePrev BY <1>12 DEF RotatePrev, SnapshotOver
<1>13. CASE RotateTmp BY <1>13 DEF RotateTmp, SnapshotOver
<1>14. CASE Write BY <1>14 DEF Write
<1>15. CASE Close BY <1>15 DEF Close
<1>16. CASE Kill BY <1>16 DEF Kill
<1>17. CASE Fault BY <1>17 DEF Fault
<1>18. CASE UNCHANGED storeVars BY <1>18 DEF storeVars
<1> QED
  BY <1>1, <1>2, <1>3, <1>4, <1>5, <1>6, <1>7, <1>8, <1>9, <1>10, <1>11, <1>12, <1>13,
     <1>14, <1>15, <1>16, <1>17, <1>18 DEF StoreNext

\* The store never leaves its invariant, whatever is killed, misread or fails.
THEOREM SnapshotInvHolds == StoreSpec => []SnapshotInv
<1>1. StoreInit => SnapshotInv
  <2>1. StoreInit => StoreTypeOK
    <3>1. Absent \in Contents /\ 0 \in 0..MaxFaults
      BY DEF Contents, Absent, Partial
    <3> QED BY <3>1 DEF StoreInit, StoreTypeOK, Phases
  <2>2. StoreInit => Copying /\ Rotating /\ Recovering /\ Ordered
    BY DEF StoreInit, Copying, Rotating, Recovering, Ordered, Healthy, Absent, Recovery
  <2> QED BY <2>1, <2>2 DEF SnapshotInv
<1>2. SnapshotInv /\ [StoreNext]_storeVars => SnapshotInv'
  BY TypeKept, RestKept DEF SnapshotInv
<1> QED BY <1>1, <1>2, PTL DEF StoreSpec

\* No step but a disk fault leaves less history than there was.
LEMMA BestIsKept ==
    ASSUME SnapshotInv, [StoreNext]_storeVars, faults' = faults, ~misread, ~cut
    PROVE  Best' >= Best
<1>1. /\ db \in Int /\ snapshot \in Int /\ prev \in Int
      /\ db' \in Int /\ snapshot' \in Int /\ prev' \in Int
  BY TypeKept DEF SnapshotInv, StoreTypeOK, Contents, Partial
<1>2. \A x \in {db, snapshot, prev} : \E y \in {db', snapshot', prev'} : y >= x
  <2>a. Copying /\ Rotating /\ Recovering /\ Ordered /\ faults \in Nat
    BY DEF SnapshotInv, StoreTypeOK
  <2> USE <1>1, <2>a DEF Copying, Rotating, Recovering, Ordered, Healthy, Absent, Damaged,
          Partial, Recovery, Goto, Calm, Rest, Mishap, files, observed
  <2>1. CASE UNCHANGED <<db, snapshot, prev>> BY <2>1
  <2>2. CASE Rename BY <2>2 DEF Rename
  <2>3. CASE TrySnapshot BY <2>3 DEF TrySnapshot, Try, IsHealthy
  <2>4. CASE CopySnapshot BY <2>4 DEF CopySnapshot, Copy
  <2>5. CASE TryPrev BY <2>5 DEF TryPrev, Try, IsHealthy
  <2>6. CASE CopyPrev BY <2>6 DEF CopyPrev, Copy
  <2>7. CASE Connect BY <2>7 DEF Connect
  <2>8. CASE RotatePrev BY <2>8 DEF RotatePrev
  <2>9. CASE RotateTmp BY <2>9 DEF RotateTmp
  <2>10. CASE Write BY <2>10 DEF Write
  <2>11. ~Fault BY DEF Fault
  <2> QED
    BY <2>1, <2>2, <2>3, <2>4, <2>5, <2>6, <2>7, <2>8, <2>9, <2>10, <2>11
    DEF StoreNext, Start, Check, Sidecars, Vacuum, CheckTmp, Close, Kill, storeVars
<1>3. Best \in {db, snapshot, prev}
  BY <1>1, MaxOfThree DEF Best
<1>4. Best' \in {db', snapshot', prev'}
  BY <1>1, MaxOfThree DEF Best
<1>5. \A y \in {db', snapshot', prev'} : Best' >= y
  BY <1>1, MaxOfThree DEF Best
<1>6. PICK y \in {db', snapshot', prev'} : y >= Best
  BY <1>2, <1>3
<1>7. Best' >= y
  BY <1>5
<1>8. y \in Int /\ Best \in Int /\ Best' \in Int
  BY <1>1, <1>3, <1>4
<1> QED BY <1>6, <1>7, <1>8

\* No restart, kill, failed snapshot or interrupted rotation of _write_snapshot()
\* and _recover() leaves less history than there was.
THEOREM FaultsAloneLoseHistory == StoreSpec => OnlyFaultsLoseHistory
<1>1. SnapshotInv /\ [StoreNext]_storeVars => (faults' = faults /\ ~misread /\ ~cut => Best' >= Best)
  BY BestIsKept
<1> QED BY <1>1, SnapshotInvHolds, PTL DEF StoreSpec, OnlyFaultsLoseHistory

\* _recover() run to its end restores a generation whenever one is sound.
THEOREM EmptyOnlyAsALastResort == StoreSpec => EmptyOnlyWithoutSnapshot
<1>1. SnapshotInv /\ [StoreNext]_storeVars =>
         (phase = "connect" /\ db = Absent /\ db' = 0 /\ ~misread /\ ~cut
             => ~Healthy(snapshot) /\ ~Healthy(prev))
  BY DEF SnapshotInv, Ordered, Recovery
<1> QED BY <1>1, SnapshotInvHolds, PTL DEF StoreSpec, EmptyOnlyWithoutSnapshot

\* Until a disk fault the database holds what the last snapshot held, and so does a
\* generation: the current one, or the older one while there is none.
TwiceKept == /\ phase \notin Recovery
             /\ db = Absent \/ Healthy(db)
             /\ db >= kept
             /\ IF snapshot = Absent THEN prev >= kept ELSE snapshot >= kept

\* After one, a file still does.
Kept == ~misread /\ ~cut =>
            /\ faults = 0 => TwiceKept
            /\ faults = 1 => Best >= kept

\* What is put in place is the database as it is.
LEMMA KeptGrows ==
    ASSUME SnapshotInv, [StoreNext]_storeVars, kept' # kept
    PROVE  kept' = db /\ db' = db /\ snapshot' = db /\ faults' = faults
<1>1. RotateTmp
  BY DEF StoreNext, Start, Check, Rename, Sidecars, TrySnapshot, CopySnapshot, TryPrev, CopyPrev,
         Connect, Vacuum, CheckTmp, RotatePrev, Write, Close, Kill, Fault, Try, Copy, IsHealthy,
         Rest, Mishap, Calm, observed, storeVars
<1> QED BY <1>1 DEF RotateTmp, SnapshotInv, Rotating, Calm

\* Nothing but a fault makes a recovery needed, and rotation moves a generation down
\* before it puts the next in its place.
LEMMA TwiceKeptKept ==
    ASSUME SnapshotInv, [StoreNext]_storeVars, TwiceKept, faults' = faults,
           ~misread', ~cut', ~misread, ~cut
    PROVE  TwiceKept'
<1>0. /\ db \in Int /\ snapshot \in Int /\ prev \in Int /\ tmp \in Int /\ kept \in Int
      /\ Rotating /\ faults \in Nat
  BY DEF SnapshotInv, StoreTypeOK, Contents, Partial
<1> USE <1>0 DEF TwiceKept, Rotating, Healthy, Absent, Damaged, Partial, Recovery, Goto, Calm, Rest,
            Mishap, files, observed
<1>1. CASE Start BY <1>1 DEF Start
<1>2. CASE Check BY <1>2 DEF Check, IsHealthy
<1>3. CASE Rename \/ Sidecars \/ TrySnapshot \/ CopySnapshot \/ TryPrev \/ CopyPrev
  BY <1>3 DEF Rename, Sidecars, TrySnapshot, CopySnapshot, TryPrev, CopyPrev, Try, Copy
<1>4. CASE Connect BY <1>4 DEF Connect
<1>5. CASE Vacuum BY <1>5 DEF Vacuum, SnapshotOver
<1>6. CASE CheckTmp BY <1>6 DEF CheckTmp, IsHealthy, SnapshotOver
<1>7. CASE RotatePrev BY <1>7 DEF RotatePrev, SnapshotOver
<1>8. CASE RotateTmp BY <1>8 DEF RotateTmp, SnapshotOver
<1>9. CASE Write BY <1>9 DEF Write
<1>10. CASE Close BY <1>10 DEF Close
<1>11. CASE Kill BY <1>11 DEF Kill
<1>12. CASE UNCHANGED storeVars BY <1>12 DEF storeVars
<1>13. ~Fault BY DEF Fault
<1> QED
  BY <1>1, <1>2, <1>3, <1>4, <1>5, <1>6, <1>7, <1>8, <1>9, <1>10, <1>11, <1>12, <1>13
     DEF StoreNext

\* One disk fault, on whichever file and between whichever kills and failed
\* rotations, costs nothing that was in the last snapshot.
THEOREM OneFaultIsSurvived == StoreSpec => []OneFaultLosesOnlyTheUnsaved
<1>1. SnapshotInv => Best \in Int /\ Best >= db /\ Best >= snapshot /\ Best >= prev
  <2> SUFFICES ASSUME SnapshotInv
               PROVE  Best \in Int /\ Best >= db /\ Best >= snapshot /\ Best >= prev
    OBVIOUS
  <2>1. db \in Int /\ snapshot \in Int /\ prev \in Int
    BY DEF SnapshotInv, StoreTypeOK, Contents, Partial
  <2>2. Best \in {db, snapshot, prev} /\ \A x \in {db, snapshot, prev} : Best >= x
    BY <2>1, MaxOfThree DEF Best
  <2> QED BY <2>1, <2>2
<1>2. StoreInit => Kept
  BY DEF StoreInit, Kept, TwiceKept, Recovery, Absent, Healthy
<1>3. SnapshotInv /\ SnapshotInv' /\ Kept /\ [StoreNext]_storeVars => Kept'
  <2> SUFFICES ASSUME SnapshotInv, SnapshotInv', Kept, [StoreNext]_storeVars, ~misread', ~cut'
               PROVE  /\ faults' = 0 => TwiceKept'
                      /\ faults' = 1 => Best' >= kept'
    BY DEF Kept
  <2>0. /\ db \in Int /\ snapshot \in Int /\ prev \in Int /\ kept \in Int /\ faults \in Nat
        /\ db' \in Int /\ snapshot' \in Int /\ prev' \in Int /\ kept' \in Int
    BY DEF SnapshotInv, StoreTypeOK, Contents, Partial
  <2>a. Best' \in Int /\ Best' >= db' /\ Best' >= snapshot' /\ Best' >= prev'
    <3>1. /\ Best' \in {db', snapshot', prev'}
          /\ \A x \in {db', snapshot', prev'} : Best' >= x
      BY <2>0, MaxOfThree DEF Best
    <3> QED BY <2>0, <3>1
  <2>1. ~misread /\ ~cut
    BY DEF StoreNext, Start, Check, Rename, Sidecars, TrySnapshot, CopySnapshot, TryPrev,
           CopyPrev, Connect, Vacuum, CheckTmp, RotatePrev, RotateTmp, Write, Close, Kill, Fault,
           Try, Copy, IsHealthy, Rest, Mishap, Calm, observed, storeVars, SnapshotInv, StoreTypeOK
  <2>2. CASE faults' = faults
    <3>1. ASSUME faults' = 0 PROVE TwiceKept'
      <4>1. TwiceKept
        BY <2>1, <2>2, <3>1 DEF Kept
      <4> QED BY <2>1, <2>2, <4>1, TwiceKeptKept
    <3>2. ASSUME faults' = 1 PROVE Best' >= kept'
      <4>1. Best' >= Best /\ Best >= kept
        BY <2>1, <2>2, <3>2, BestIsKept DEF Kept
      <4>2. CASE kept' = kept BY <1>1, <2>0, <2>a, <4>1, <4>2
      <4>3. CASE kept' # kept BY <2>0, <2>a, <4>3, KeptGrows
      <4> QED BY <4>2, <4>3
    <3> QED BY <3>1, <3>2
  <2>3. CASE faults' # faults
    <3>1. Fault /\ faults \in Nat /\ faults' = faults + 1
      BY <2>3 DEF StoreNext, Start, Check, Rename, Sidecars, TrySnapshot, CopySnapshot, TryPrev,
             CopyPrev, Connect, Vacuum, CheckTmp, RotatePrev, RotateTmp, Write, Close, Kill, Fault,
             Try, Copy, IsHealthy, Rest, Mishap, Calm, observed, storeVars, SnapshotInv, StoreTypeOK
    <3>2. ASSUME faults' = 1 PROVE Best' >= kept'
      <4>1. TwiceKept /\ kept' = kept
        <5>1. faults = 0
          BY <2>0, <3>1, <3>2
        <5> QED BY <2>1, <3>1, <5>1 DEF Kept, Fault, observed
      <4>2. db' >= kept \/ snapshot' >= kept \/ prev' >= kept
        BY <2>0, <3>1, <4>1 DEF Fault, TwiceKept, Healthy, Absent
      <4> QED BY <2>0, <2>a, <4>1, <4>2
    <3> QED BY <3>1, <3>2
  <2> QED BY <2>2, <2>3
<1>4. SnapshotInv /\ Kept => OneFaultLosesOnlyTheUnsaved
  <2> SUFFICES ASSUME SnapshotInv, Kept, faults <= 1, ~misread, ~cut PROVE Best >= kept
    BY DEF OneFaultLosesOnlyTheUnsaved
  <2>1. faults = 0 \/ faults = 1
    BY DEF SnapshotInv, StoreTypeOK
  <2>2. db \in Int /\ kept \in Int
    BY DEF SnapshotInv, StoreTypeOK, Contents, Partial
  <2> QED BY <1>1, <2>1, <2>2 DEF Kept, TwiceKept
<1> QED BY <1>2, <1>3, <1>4, SnapshotInvHolds, PTL DEF StoreSpec
=============================================================================
