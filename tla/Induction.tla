------------------------------ MODULE Induction ------------------------------
(***************************************************************************)
(* What the proofs need to speak of recursive functions: induction on the  *)
(* natural numbers and the existence of functions defined by recursion.    *)
(*                                                                         *)
(* With them go the lemmas of what the models build that way: the elements *)
(* of a sequence that are in a set, and sequences joined to one another.   *)
(*                                                                         *)
(* They are stated of sets and functions rather than of operators, so that *)
(* a proof uses them by naming the set of the numbers of which a fact      *)
(* holds, or the function that makes one value from the one before.        *)
(***************************************************************************)
EXTENDS Integers, SequencesExt, Subsequence, SequenceTheorems, WellFoundedInduction, TLAPS

\* A set of numbers that is not empty has a least one.
LEMMA LeastElement ==
    ASSUME NEW T, T \subseteq Nat, T # {}
    PROVE  \E x \in T : \A y \in T : x <= y
<1> DEFINE R == OpToRel(<, Nat)
<1>1. IsWellFoundedOn(R, Nat)
  BY NatLessThanWellFounded
<1>2. \A x, y \in Nat : y < x => <<y, x>> \in R
  BY DEF OpToRel
<1> HIDE DEF R
<1>3. PICK x \in T : \A y \in T : ~(<<y, x>> \in R)
  BY <1>1, WFMin
<1>4. \A y \in T : x <= y
  <2> SUFFICES ASSUME NEW y \in T, y < x PROVE FALSE
    OBVIOUS
  <2>1. <<y, x>> \in R
    BY <1>2
  <2> QED BY <1>3, <2>1
<1> QED BY <1>4

\* A set of numbers that has zero, and the next of each it has, has them all.
LEMMA SetInduction ==
    ASSUME NEW S, 0 \in S, \A n \in Nat : n \in S => n + 1 \in S
    PROVE  \A n \in Nat : n \in S
<1> DEFINE T == Nat \ S
<1> SUFFICES ASSUME T # {} PROVE FALSE
  OBVIOUS
<1>1. PICK x \in T : \A y \in T : x <= y
  <2>1. T \subseteq Nat OBVIOUS
  <2> HIDE DEF T
  <2> QED BY <2>1, LeastElement
<1>2. x \in Nat /\ x # 0 /\ x \notin S
  OBVIOUS
<1>3. x - 1 \in Nat /\ ~(x <= x - 1)
  BY <1>2
<1>4. x - 1 \in S
  BY <1>1, <1>3
<1>5. (x - 1) + 1 \in S
  BY <1>3, <1>4
<1> QED BY <1>2, <1>5

\* A set of numbers none of which exceeds a bound has a greatest one.
LEMMA GreatestElement ==
    ASSUME NEW T, T \subseteq Nat, T # {}, NEW b \in Nat, \A y \in T : y <= b
    PROVE  \E x \in T : \A y \in T : y <= x
<1> DEFINE Over == {u \in Nat : \A y \in T : y <= u}
<1>1. PICK x \in Over : \A u \in Over : x <= u
  <2>1. Over \subseteq Nat /\ b \in Over
    OBVIOUS
  <2> HIDE DEF Over
  <2> QED BY <2>1, LeastElement
<1>2. x \in T
  <2> SUFFICES ASSUME x \notin T PROVE FALSE
    OBVIOUS
  <2>1. PICK z \in T : TRUE
    OBVIOUS
  <2>2. z < x /\ x \in Nat /\ z \in Nat
    BY <2>1
  <2>3. x - 1 \in Over
    BY <2>2
  <2> QED BY <1>1, <2>2, <2>3
<1> QED BY <1>2

\* Two functions that begin alike, and never differ for the first time...
NeverPart(f, g, k) ==
    f[0] = g[0] /\ \A n \in 1..k : f[n - 1] = g[n - 1] => f[n] = g[n]

\* ... agree.
LEMMA StepwiseAgree ==
    ASSUME NEW k \in Nat, NEW f, NEW g, NeverPart(f, g, k)
    PROVE  \A n \in 0..k : f[n] = g[n]
<1> USE DEF NeverPart
<1> DEFINE S == {n \in Nat : n \in 0..k => f[n] = g[n]}
<1>1. 0 \in S
  OBVIOUS
<1>2. ASSUME NEW n \in Nat, n \in S PROVE n + 1 \in S
  <2> SUFFICES ASSUME n + 1 \in 0..k PROVE f[n + 1] = g[n + 1]
    OBVIOUS
  <2>1. n \in 0..k /\ n + 1 \in 1..k /\ (n + 1) - 1 = n
    OBVIOUS
  <2>2. f[n] = g[n]
    BY <1>2, <2>1
  <2> QED BY <2>1, <2>2
<1> HIDE DEF S
<1>3. \A n \in Nat : n \in S
  BY <1>1, <1>2, SetInduction
<1> QED BY <1>3 DEF S

\* A function on 0..k that makes each of its values from the one before...
MadeStepwise(f, V, base, k, step) ==
    /\ f \in [0..k -> V]
    /\ f[0] = base
    /\ \A n \in 1..k : f[n] = step[<<n, f[n - 1]>>]

\* ... exists.
LEMMA PrimitiveRecursion ==
    ASSUME NEW V, NEW base \in V, NEW k \in Nat, NEW step \in [(1..k) \X V -> V]
    PROVE  \E f : MadeStepwise(f, V, base, k, step)
<1> DEFINE Defines(f, n) ==
              \A i \in 0..n : f[i] = IF i = 0 THEN base ELSE step[<<i, f[i - 1]>>]
           S == {n \in Nat : n <= k => \E f \in [0..n -> V] : Defines(f, n)}
<1>1. 0 \in S
  <2> DEFINE f == [i \in 0..0 |-> base]
  <2>1. f \in [0..0 -> V] /\ Defines(f, 0)
    OBVIOUS
  <2> QED BY <2>1
<1>2. \A n \in Nat : n \in S => n + 1 \in S
  <2> SUFFICES ASSUME NEW n \in Nat, n \in S, n + 1 <= k
               PROVE  \E f \in [0..(n + 1) -> V] : Defines(f, n + 1)
    OBVIOUS
  <2>1. PICK f \in [0..n -> V] : Defines(f, n)
    BY SMT
  <2> DEFINE g == [i \in 0..(n + 1) |-> IF i = n + 1 THEN step[<<n + 1, f[n]>>] ELSE f[i]]
  <2>2. f[n] \in V /\ n + 1 \in 1..k
    OBVIOUS
  <2>3. step[<<n + 1, f[n]>>] \in V
    BY <2>2
  <2>4. g \in [0..(n + 1) -> V]
    BY <2>3
  <2>5. ASSUME NEW i \in 0..(n + 1)
        PROVE  g[i] = IF i = 0 THEN base ELSE step[<<i, g[i - 1]>>]
    <3>1. CASE i = n + 1
      <4>1. i # 0 /\ i - 1 = n /\ n \in 0..(n + 1) /\ n # n + 1
        BY <3>1
      <4>2. g[i] = step[<<n + 1, f[n]>>] /\ g[n] = f[n]
        BY <3>1, <4>1
      <4> QED BY <3>1, <4>1, <4>2
    <3>2. CASE i # n + 1
      <4>1. i \in 0..n /\ g[i] = f[i]
        BY <3>2
      <4>2. CASE i = 0
        BY <2>1, <4>1, <4>2
      <4>3. CASE i # 0
        <5>1. i - 1 \in 0..(n + 1) /\ i - 1 # n + 1
          BY <4>1, <4>3
        <5>2. g[i - 1] = f[i - 1]
          BY <5>1
        <5> QED BY <2>1, <4>1, <4>3, <5>2
      <4> QED BY <4>2, <4>3
    <3> QED BY <3>1, <3>2
  <2> HIDE DEF g
  <2>6. Defines(g, n + 1)
    BY <2>5
  <2> QED BY <2>4, <2>6
<1> HIDE DEF S
<1>3. k \in S
  BY <1>1, <1>2, SetInduction
<1>4. PICK f \in [0..k -> V] : Defines(f, k)
  BY <1>3 DEF S
<1>5. f[0] = base
  <2>1. 0 \in 0..k
    OBVIOUS
  <2> QED BY <1>4, <2>1
<1>6. \A n \in 1..k : f[n] = step[<<n, f[n - 1]>>]
  BY <1>4
<1> QED BY <1>5, <1>6 DEF MadeStepwise

-----------------------------------------------------------------------------
(* Subsequences: the loops with a condition, as Those() has them.          *)

\* One more element.
Taken(s, S, kept, n) == IF s[n] \in S THEN Append(kept, s[n]) ELSE kept

\* They are made element by element.
LEMMA ThoseMade ==
    ASSUME NEW T, NEW s \in Seq(T), NEW S
    PROVE  \E f \in [0..Len(s) -> Seq(T \cap S)] :
              /\ f[0] = <<>> /\ \A n \in 1..Len(s) : f[n] = Taken(s, S, f[n - 1], n)
              /\ Those(s, S) = f[Len(s)]
<1> DEFINE k == Len(s)
           V == Seq(T \cap S)
           step == [p \in (1..k) \X V |-> Taken(s, S, p[2], p[1])]
           f == CHOOSE g : g = [n \in 0..k |-> IF n = 0 THEN <<>> ELSE Taken(s, S, g[n - 1], n)]
<1>1. <<>> \in V /\ k \in Nat
  OBVIOUS
<1>2. step \in [(1..k) \X V -> V]
  <2> SUFFICES ASSUME NEW n \in 1..k, NEW v \in V PROVE Taken(s, S, v, n) \in V
    OBVIOUS
  <2> QED BY DEF Taken
<1>3. PICK g : MadeStepwise(g, V, <<>>, k, step)
  <2> HIDE DEF V, step, k
  <2> QED BY <1>1, <1>2, PrimitiveRecursion
<1>4. g \in [0..k -> V] /\ g[0] = <<>> /\ \A n \in 1..k : g[n] = Taken(s, S, g[n - 1], n)
  <2>1. g \in [0..k -> V] /\ g[0] = <<>> /\ \A n \in 1..k : g[n] = step[<<n, g[n - 1]>>]
    BY <1>3 DEF MadeStepwise
  <2>2. \A n \in 1..k : g[n - 1] \in V
    <3> HIDE DEF V, step
    <3> QED BY <1>1, <2>1
  <2>3. \A n \in 1..k : step[<<n, g[n - 1]>>] = Taken(s, S, g[n - 1], n)
    <3> HIDE DEF V, k
    <3> QED BY <2>2
  <2> QED BY <2>1, <2>3
<1>5. g = [n \in 0..k |-> IF n = 0 THEN <<>> ELSE Taken(s, S, g[n - 1], n)]
  <2> HIDE DEF V, k
  <2> QED BY <1>4
<1>6. f = [n \in 0..k |-> IF n = 0 THEN <<>> ELSE Taken(s, S, f[n - 1], n)]
  BY <1>5
<1>7. Those(s, S) = f[k]
  BY DEF Those, Taken
<1> HIDE DEF f
<1>8. f[0] = <<>> /\ \A n \in 1..k : f[n] = Taken(s, S, f[n - 1], n)
  <2> HIDE DEF k
  <2> QED BY <1>1, <1>6
<1>9. \A n \in 0..k : f[n] = g[n]
  <2> HIDE DEF k
  <2>1. NeverPart(f, g, k)
    BY <1>4, <1>8 DEF NeverPart
  <2> QED BY <1>1, <2>1, StepwiseAgree
<1>10. k \in 0..k
  BY <1>1
<1> QED BY <1>4, <1>7, <1>9, <1>10

LEMMA ThoseAreSome ==
    ASSUME NEW T, NEW s \in Seq(T), NEW S
    PROVE  Those(s, S) \in Seq(T \cap S) /\ Those(s, S) \in Seq(T)
<1>1. PICK f \in [0..Len(s) -> Seq(T \cap S)] : Those(s, S) = f[Len(s)]
  BY ThoseMade
<1> QED BY <1>1

\* None of those that are not in the set are taken, and all of those that are.
LEMMA ThoseOfNone ==
    ASSUME NEW T, NEW s \in Seq(T), NEW S, \A i \in 1..Len(s) : s[i] \notin S
    PROVE  Those(s, S) = <<>>
<1>1. PICK f \in [0..Len(s) -> Seq(T \cap S)] :
              /\ f[0] = <<>> /\ \A n \in 1..Len(s) : f[n] = Taken(s, S, f[n - 1], n)
              /\ Those(s, S) = f[Len(s)]
  BY ThoseMade
<1> DEFINE g == [n \in 0..Len(s) |-> <<>>]
<1>3. Len(s) \in Nat
  OBVIOUS
<1>2. NeverPart(f, g, Len(s))
  <2>1. f[0] = g[0]
    BY <1>1, <1>3
  <2>2. ASSUME NEW n \in 1..Len(s), f[n - 1] = g[n - 1] PROVE f[n] = g[n]
    <3>1. n \in 0..Len(s) /\ n - 1 \in 0..Len(s) /\ s[n] \notin S
      BY <1>3
    <3>2. f[n] = f[n - 1]
      BY <1>1, <3>1 DEF Taken
    <3> QED BY <2>2, <3>1, <3>2
  <2> HIDE DEF g
  <2> QED BY <2>1, <2>2 DEF NeverPart
<1> HIDE DEF g
<1>4. \A n \in 0..Len(s) : f[n] = g[n]
  BY <1>2, <1>3, StepwiseAgree
<1> QED BY <1>1, <1>3, <1>4 DEF g

LEMMA ThoseOfAll ==
    ASSUME NEW T, NEW s \in Seq(T), NEW S, \A i \in 1..Len(s) : s[i] \in S
    PROVE  Those(s, S) = s
<1>1. PICK f \in [0..Len(s) -> Seq(T \cap S)] :
              /\ f[0] = <<>> /\ \A n \in 1..Len(s) : f[n] = Taken(s, S, f[n - 1], n)
              /\ Those(s, S) = f[Len(s)]
  BY ThoseMade
<1>2. Len(s) \in Nat /\ \A i \in 1..Len(s) : s[i] \in T
  OBVIOUS
<1> DEFINE g == [n \in 0..Len(s) |-> SubSeq(s, 1, n)]
<1>3. NeverPart(f, g, Len(s))
  <2>1. f[0] = g[0]
    BY <1>1, <1>2, SubSeqEmpty
  <2>2. ASSUME NEW n \in 1..Len(s), f[n - 1] = g[n - 1] PROVE f[n] = g[n]
    <3>0. n - 1 \in 0..Len(s) /\ 1 \in 1..Len(s) /\ n \in 1..Len(s) /\ s[n] \in S
      BY <1>2
    <3>1. f[n] = Append(SubSeq(s, 1, n - 1), s[n])
      BY <1>1, <2>2, <3>0 DEF Taken
    <3>2. SubSeq(s, 1, n) = SubSeq(s, 1, n - 1) \o <<s[n]>>
      BY <3>0, SubSeqRecursiveSecond
    <3>3. SubSeq(s, 1, n - 1) \in Seq(T)
      BY <1>2
    <3>4. Append(SubSeq(s, 1, n - 1), s[n]) = SubSeq(s, 1, n - 1) \o <<s[n]>>
      BY <1>2, <3>3, AppendIsConcat
    <3>5. g[n] = SubSeq(s, 1, n)
      BY <3>0
    <3> QED BY <3>1, <3>2, <3>4, <3>5
  <2> HIDE DEF g
  <2> QED BY <2>1, <2>2 DEF NeverPart
<1> HIDE DEF g
<1>4. \A n \in 0..Len(s) : f[n] = g[n]
  BY <1>2, <1>3, StepwiseAgree
<1>5. SubSeq(s, 1, Len(s)) = s
  BY SubSeqFull
<1> QED BY <1>1, <1>2, <1>4, <1>5 DEF g

LEMMA ThoseOfNothing == ASSUME NEW S PROVE Those(<<>>, S) = <<>>
<1> DEFINE T == {}
<1>1. PICK s : s = <<>>
  OBVIOUS
<1>2. s \in Seq(T) /\ Len(s) = 0
  BY <1>1
<1>3. \A i \in 1..Len(s) : s[i] \notin S
  BY <1>2
<1> QED BY <1>1, <1>2, <1>3, ThoseOfNone

\* Those of two sequences, one after the other, are those of the first and then those
\* of the second.
LEMMA ThoseOfBoth ==
    ASSUME NEW T, NEW s \in Seq(T), NEW t \in Seq(T), NEW S
    PROVE  Those(s \o t, S) = Those(s, S) \o Those(t, S)
<1>0. ASSUME NEW v \in Seq(T), NEW w \in Seq(T), NEW c \in T
       PROVE  Append(v \o w, c) = v \o Append(w, c)
  <2>1. <<c>> \in Seq(T) /\ v \o w \in Seq(T)
    BY ConcatProperties
  <2>2. Append(v \o w, c) = (v \o w) \o <<c>> /\ Append(w, c) = w \o <<c>>
    BY <2>1, AppendIsConcat
  <2>3. (v \o w) \o <<c>> = v \o (w \o <<c>>)
    BY <2>1, ConcatAssociative
  <2> QED BY <2>2, <2>3
<1> DEFINE u == s \o t
<1>1. /\ u \in Seq(T) /\ Len(u) = Len(s) + Len(t) /\ Len(s) \in Nat /\ Len(t) \in Nat
      /\ \A i \in 1..Len(s) : u[i] = s[i]
      /\ \A i \in 1..Len(t) : u[Len(s) + i] = t[i]
  OBVIOUS
<1> HIDE DEF u
<1>2. PICK f \in [0..Len(s) -> Seq(T \cap S)] :
              /\ f[0] = <<>> /\ \A n \in 1..Len(s) : f[n] = Taken(s, S, f[n - 1], n)
              /\ Those(s, S) = f[Len(s)]
  BY ThoseMade
<1>3. PICK g \in [0..Len(t) -> Seq(T \cap S)] :
              /\ g[0] = <<>> /\ \A n \in 1..Len(t) : g[n] = Taken(t, S, g[n - 1], n)
              /\ Those(t, S) = g[Len(t)]
  BY ThoseMade
<1>4. PICK h \in [0..Len(u) -> Seq(T \cap S)] :
              /\ h[0] = <<>> /\ \A n \in 1..Len(u) : h[n] = Taken(u, S, h[n - 1], n)
              /\ Those(u, S) = h[Len(u)]
  BY <1>1, ThoseMade
<1>5. \A n \in 0..Len(s) : h[n] = f[n]
  <2>1. ASSUME NEW n \in 1..Len(s), h[n - 1] = f[n - 1] PROVE h[n] = f[n]
    <3>1. n \in 1..Len(u)
      BY <1>1
    <3>2. h[n] = Taken(u, S, h[n - 1], n) /\ f[n] = Taken(s, S, f[n - 1], n)
      BY <1>2, <1>4, <3>1
    <3> QED BY <1>1, <2>1, <3>2 DEF Taken
  <2>2. NeverPart(h, f, Len(s))
    BY <1>2, <1>4, <2>1 DEF NeverPart
  <2> QED BY <1>1, <2>2, StepwiseAgree
<1> DEFINE a == [n \in 0..Len(t) |-> h[Len(s) + n]]
           b == [n \in 0..Len(t) |-> Those(s, S) \o g[n]]
<1>6. ASSUME NEW n \in 1..Len(t), a[n - 1] = b[n - 1] PROVE a[n] = b[n]
  <2>1. /\ n \in 0..Len(t) /\ n - 1 \in 0..Len(t) /\ Len(s) + n \in 1..Len(u)
        /\ (Len(s) + n) - 1 = Len(s) + (n - 1)
    BY <1>1
  <2>2. h[Len(s) + n] = Taken(u, S, h[Len(s) + (n - 1)], Len(s) + n)
    BY <1>4, <2>1
  <2>3. h[Len(s) + (n - 1)] = Those(s, S) \o g[n - 1]
    BY <1>6, <2>1
  <2>4. g[n] = Taken(t, S, g[n - 1], n) /\ u[Len(s) + n] = t[n]
    BY <1>1, <1>3
  <2>5. Those(s, S) \in Seq(T) /\ g[n - 1] \in Seq(T)
    <3>1. Those(s, S) \in Seq(T) /\ g[n - 1] \in Seq(T \cap S)
      BY <2>1, ThoseAreSome
    <3> QED BY <3>1
  <2>6. ASSUME NEW c \in T
        PROVE  Append(Those(s, S) \o g[n - 1], c) = Those(s, S) \o Append(g[n - 1], c)
    BY <1>0, <2>5, <2>6
  <2>7. t[n] \in T
    OBVIOUS
  <2>8. Taken(u, S, Those(s, S) \o g[n - 1], Len(s) + n) = Those(s, S) \o Taken(t, S, g[n - 1], n)
    BY <2>4, <2>6, <2>7 DEF Taken
  <2> QED BY <2>1, <2>2, <2>3, <2>4, <2>8
<1>7. a[0] = b[0]
  <2>1. h[Len(s)] = Those(s, S) /\ Len(s) + 0 = Len(s) /\ 0 \in 0..Len(t)
    BY <1>1, <1>2, <1>5
  <2>2. Those(s, S) \o <<>> = Those(s, S)
    BY ThoseAreSome, ConcatEmptySeq
  <2> QED BY <1>3, <2>1, <2>2
<1> HIDE DEF a, b
<1>8. \A n \in 0..Len(t) : a[n] = b[n]
  <2>1. NeverPart(a, b, Len(t))
    BY <1>6, <1>7 DEF NeverPart
  <2> QED BY <1>1, <2>1, StepwiseAgree
<1>9. Len(t) \in 0..Len(t)
  BY <1>1
<1> QED BY <1>1, <1>3, <1>4, <1>8, <1>9 DEF a, b, u

\* It is the same to be in either of two sets that have the same ones of the sequence.
LEMMA ThoseOfSame ==
    ASSUME NEW T, NEW s \in Seq(T), NEW S, NEW R, \A i \in 1..Len(s) : s[i] \in S <=> s[i] \in R
    PROVE  Those(s, S) = Those(s, R)
<1>1. PICK f \in [0..Len(s) -> Seq(T \cap S)] :
              /\ f[0] = <<>> /\ \A n \in 1..Len(s) : f[n] = Taken(s, S, f[n - 1], n)
              /\ Those(s, S) = f[Len(s)]
  BY ThoseMade
<1>2. PICK g \in [0..Len(s) -> Seq(T \cap R)] :
              /\ g[0] = <<>> /\ \A n \in 1..Len(s) : g[n] = Taken(s, R, g[n - 1], n)
              /\ Those(s, R) = g[Len(s)]
  BY ThoseMade
<1>3. Len(s) \in Nat
  OBVIOUS
<1>4. NeverPart(f, g, Len(s))
  BY <1>1, <1>2 DEF NeverPart, Taken
<1>5. \A n \in 0..Len(s) : f[n] = g[n]
  BY <1>3, <1>4, StepwiseAgree
<1> QED BY <1>1, <1>2, <1>3, <1>5

\* Those in the first set that are in the second are those in both.
LEMMA ThoseOfThose ==
    ASSUME NEW T, NEW s \in Seq(T), NEW S, NEW R
    PROVE  Those(Those(s, S), R) = Those(s, S \cap R)
<1>1. PICK f \in [0..Len(s) -> Seq(T \cap S)] :
              /\ f[0] = <<>> /\ \A n \in 1..Len(s) : f[n] = Taken(s, S, f[n - 1], n)
              /\ Those(s, S) = f[Len(s)]
  BY ThoseMade
<1>2. PICK g \in [0..Len(s) -> Seq(T \cap (S \cap R))] :
              /\ g[0] = <<>> /\ \A n \in 1..Len(s) : g[n] = Taken(s, S \cap R, g[n - 1], n)
              /\ Those(s, S \cap R) = g[Len(s)]
  BY ThoseMade
<1>3. Len(s) \in Nat /\ \A n \in 1..Len(s) : s[n] \in T
  OBVIOUS
<1> DEFINE h == [n \in 0..Len(s) |-> Those(f[n], R)]
<1>4. ASSUME NEW n \in 1..Len(s), g[n - 1] = h[n - 1] PROVE g[n] = h[n]
  <2>1. n \in 0..Len(s) /\ n - 1 \in 0..Len(s)
    BY <1>3
  <2>2. h[n] = Those(f[n], R) /\ h[n - 1] = Those(f[n - 1], R)
    BY <2>1
  <2>3. f[n - 1] \in Seq(T)
    <3>1. f[n - 1] \in Seq(T \cap S)
      BY <2>1
    <3> QED BY <3>1
  <2> HIDE DEF h
  <2>4. CASE s[n] \notin S
    BY <1>1, <1>2, <1>4, <2>2, <2>4 DEF Taken
  <2>5. CASE s[n] \in S
    <3> DEFINE c == s[n]
               v == f[n - 1]
    <3>1. c \in T /\ v \in Seq(T) /\ <<c>> \in Seq(T) /\ Len(<<c>>) = 1 /\ <<c>>[1] = c
      BY <1>3, <2>3
    <3>2. f[n] = Append(v, c)
      BY <1>1, <2>5 DEF Taken
    <3> HIDE DEF c, v
    <3>3. Append(v, c) = v \o <<c>>
      BY <3>1, AppendIsConcat
    <3>4. Those(v \o <<c>>, R) = Those(v, R) \o Those(<<c>>, R)
      <4> DEFINE e == <<c>>
      <4>1. v \in Seq(T) /\ e \in Seq(T)
        BY <3>1
      <4> HIDE DEF e
      <4>2. Those(v \o e, R) = Those(v, R) \o Those(e, R)
        BY <4>1, ThoseOfBoth
      <4> QED BY <4>2 DEF e
    <3>5. Those(v, R) \in Seq(T)
      BY <3>1, ThoseAreSome
    <3>6. CASE c \in R
      <4>1. \A i \in 1..Len(<<c>>) : <<c>>[i] \in R
        BY <3>1, <3>6
      <4>2. Those(<<c>>, R) = <<c>>
        BY <3>1, <4>1, ThoseOfAll
      <4>3. Those(v, R) \o <<c>> = Append(Those(v, R), c)
        BY <3>1, <3>5, AppendIsConcat
      <4>4. g[n] = Append(g[n - 1], c)
        BY <1>2, <2>5, <3>6 DEF Taken, c
      <4> QED BY <1>4, <2>2, <3>2, <3>3, <3>4, <4>2, <4>3, <4>4 DEF v
    <3>7. CASE c \notin R
      <4>1. \A i \in 1..Len(<<c>>) : <<c>>[i] \notin R
        BY <3>1, <3>7
      <4>2. Those(<<c>>, R) = <<>>
        BY <3>1, <4>1, ThoseOfNone
      <4>3. Those(v, R) \o <<>> = Those(v, R)
        BY <3>5, ConcatEmptySeq
      <4>4. g[n] = g[n - 1]
        BY <1>2, <3>7 DEF Taken, c
      <4> QED BY <1>4, <2>2, <3>2, <3>3, <3>4, <4>2, <4>3, <4>4 DEF v
    <3> QED BY <3>6, <3>7
  <2> QED BY <2>4, <2>5
<1>5. g[0] = h[0]
  BY <1>1, <1>2, <1>3, ThoseOfNothing
<1> HIDE DEF h
<1>6. NeverPart(g, h, Len(s))
  BY <1>4, <1>5 DEF NeverPart
<1>7. \A n \in 0..Len(s) : g[n] = h[n]
  BY <1>3, <1>6, StepwiseAgree
<1>8. Len(s) \in 0..Len(s)
  BY <1>3
<1> QED BY <1>1, <1>2, <1>7, <1>8 DEF h

\* Each of a sequence, changed.
Changed(s, F) == [i \in DOMAIN s |-> F[s[i]]]

\* What is changed is in one set when what it was is in the other.
CorrespondsTo(s, F, S, R) == \A i \in 1..Len(s) : F[s[i]] \in S <=> s[i] \in R

\* Taking some and then changing each is changing each and then taking them.
LEMMA ThoseOfMapped ==
    ASSUME NEW T, NEW s \in Seq(T), NEW F, NEW S, NEW R, CorrespondsTo(s, F, S, R)
    PROVE  Those(Changed(s, F), S) = Changed(Those(s, R), F)
<1> DEFINE m == [i \in DOMAIN s |-> F[s[i]]]
           U == {F[x] : x \in T}
<1>0. \A x \in T : F[x] \in U
  OBVIOUS
<1> HIDE DEF U
<1>1. Len(s) \in Nat /\ DOMAIN s = 1..Len(s) /\ \A n \in 1..Len(s) : s[n] \in T
  OBVIOUS
<1>2. m \in Seq(U) /\ Len(m) = Len(s) /\ \A n \in 1..Len(s) : m[n] = F[s[n]]
  BY <1>0, <1>1
<1> HIDE DEF m
<1>3. PICK f \in [0..Len(m) -> Seq(U \cap S)] :
              /\ f[0] = <<>> /\ \A n \in 1..Len(m) : f[n] = Taken(m, S, f[n - 1], n)
              /\ Those(m, S) = f[Len(m)]
  BY <1>2, ThoseMade
<1>4. PICK g \in [0..Len(s) -> Seq(T \cap R)] :
              /\ g[0] = <<>> /\ \A n \in 1..Len(s) : g[n] = Taken(s, R, g[n - 1], n)
              /\ Those(s, R) = g[Len(s)]
  BY ThoseMade
<1> DEFINE h == [n \in 0..Len(s) |-> [i \in DOMAIN g[n] |-> F[g[n][i]]]]
<1>5. ASSUME NEW n \in 1..Len(s), f[n - 1] = h[n - 1] PROVE f[n] = h[n]
  <2>1. n \in 0..Len(s) /\ n - 1 \in 0..Len(s)
    BY <1>1
  <2>2. /\ h[n] = [i \in DOMAIN g[n] |-> F[g[n][i]]]
        /\ h[n - 1] = [i \in DOMAIN g[n - 1] |-> F[g[n - 1][i]]]
    BY <2>1
  <2> HIDE DEF h
  <2>3. f[n] = Taken(m, S, f[n - 1], n) /\ g[n] = Taken(s, R, g[n - 1], n) /\ m[n] = F[s[n]]
    BY <1>2, <1>3, <1>4
  <2>4. CASE s[n] \notin R
    BY <1>5, <2>2, <2>3, <2>4, <1>2 DEF Taken, CorrespondsTo
  <2>5. CASE s[n] \in R
    <3> DEFINE v == g[n - 1]
               w == [i \in DOMAIN v |-> F[v[i]]]
               c == s[n]
    <3>1. v \in Seq(T) /\ c \in T
      <4>1. g[n - 1] \in Seq(T \cap R)
        BY <2>1
      <4> QED BY <1>1, <4>1
    <3>2. g[n] = Append(v, c) /\ f[n] = Append(w, F[c])
      <4>1. F[s[n]] \in S
        BY <2>5 DEF CorrespondsTo
      <4> QED BY <1>5, <2>2, <2>3, <2>5, <4>1 DEF Taken
    <3> HIDE DEF v, c
    <3>3. DOMAIN v = 1..Len(v) /\ Len(v) \in Nat /\ \A i \in 1..Len(v) : v[i] \in T
      BY <3>1
    <3>4. w \in Seq(U) /\ Len(w) = Len(v) /\ F[c] \in U /\ \A i \in 1..Len(v) : w[i] = F[v[i]]
      BY <1>0, <3>1, <3>3
    <3> HIDE DEF w
    <3> DEFINE x == [i \in DOMAIN Append(v, c) |-> F[Append(v, c)[i]]]
               y == Append(w, F[c])
    <3>5. /\ Append(v, c) \in Seq(T) /\ DOMAIN Append(v, c) = 1..(Len(v) + 1)
          /\ (\A i \in 1..Len(v) : Append(v, c)[i] = v[i]) /\ Append(v, c)[Len(v) + 1] = c
      BY <3>1
    <3>6. /\ y \in Seq(U) /\ DOMAIN y = 1..(Len(v) + 1)
          /\ (\A i \in 1..Len(v) : y[i] = w[i]) /\ y[Len(v) + 1] = F[c]
      BY <3>4
    <3>7. \A i \in 1..(Len(v) + 1) : x[i] = y[i]
      <4>1. \A i \in 1..(Len(v) + 1) : i \in 1..Len(v) \/ i = Len(v) + 1
        BY <3>3
      <4> HIDE DEF y
      <4> QED BY <3>4, <3>5, <3>6, <4>1
    <3>8. x = [i \in 1..(Len(v) + 1) |-> x[i]] /\ y = [i \in 1..(Len(v) + 1) |-> y[i]]
      <4>1. y = [i \in DOMAIN y |-> y[i]]
        BY <3>6
      <4> HIDE DEF y
      <4> QED BY <3>5, <3>6, <4>1
    <3>9. x = y
      <4> HIDE DEF x, y
      <4> QED BY <3>7, <3>8
    <3> QED BY <2>2, <3>2, <3>9
  <2> QED BY <2>4, <2>5
<1>6. f[0] = h[0]
  <2>1. g[0] = <<>> /\ f[0] = <<>> /\ 0 \in 0..Len(s)
    BY <1>1, <1>3, <1>4
  <2> QED BY <2>1
<1> HIDE DEF h
<1>7. NeverPart(f, h, Len(s))
  BY <1>5, <1>6 DEF NeverPart
<1>8. \A n \in 0..Len(s) : f[n] = h[n]
  BY <1>1, <1>7, StepwiseAgree
<1>9. Len(s) \in 0..Len(s)
  BY <1>1
<1> QED BY <1>2, <1>3, <1>4, <1>8, <1>9 DEF h, m, Changed

-----------------------------------------------------------------------------
(* Sequences joined to one another.                                        *)

\* FlattenSeq(), one sequence at a time.
LEMMA FlatMade ==
    ASSUME NEW T, NEW p \in Seq(Seq(T))
    PROVE  \E f \in [0..Len(p) -> Seq(T)] :
              /\ f[0] = <<>> /\ \A n \in 1..Len(p) : f[n] = f[n - 1] \o p[n]
              /\ FlattenSeq(p) = f[Len(p)]
<1> DEFINE k == Len(p)
           V == Seq(T)
           step == [q \in (1..k) \X V |-> q[2] \o p[q[1]]]
           f == CHOOSE g : g = [n \in 1..k |-> IF n = 1 THEN p[n] ELSE g[n - 1] \o p[n]]
<1>1. <<>> \in V /\ k \in Nat /\ \A n \in 1..k : p[n] \in V
  OBVIOUS
<1>2. step \in [(1..k) \X V -> V]
  <2> SUFFICES ASSUME NEW n \in 1..k, NEW v \in V PROVE v \o p[n] \in V
    OBVIOUS
  <2> QED BY <1>1
<1>3. PICK g : MadeStepwise(g, V, <<>>, k, step)
  <2> HIDE DEF V, step, k
  <2> QED BY <1>1, <1>2, PrimitiveRecursion
<1>4. g \in [0..k -> V] /\ g[0] = <<>> /\ \A n \in 1..k : g[n] = g[n - 1] \o p[n]
  <2>1. g \in [0..k -> V] /\ g[0] = <<>> /\ \A n \in 1..k : g[n] = step[<<n, g[n - 1]>>]
    BY <1>3 DEF MadeStepwise
  <2>2. \A n \in 1..k : g[n - 1] \in V
    <3>1. g \in [0..k -> V] /\ \A n \in 1..k : n - 1 \in 0..k
      BY <1>1, <2>1
    <3> HIDE DEF V, step, k
    <3> QED BY <3>1
  <2>3. \A n \in 1..k : step[<<n, g[n - 1]>>] = g[n - 1] \o p[n]
    <3> HIDE DEF V, k
    <3> QED BY <2>2
  <2> QED BY <2>1, <2>3
<1>5. CASE k = 0
  BY <1>1, <1>4, <1>5 DEF FlattenSeq
<1>6. CASE k # 0
  <2> DEFINE h == [n \in 1..k |-> g[n]]
  <2>1. \A n \in 1..k : h[n] = IF n = 1 THEN p[n] ELSE h[n - 1] \o p[n]
    <3> SUFFICES ASSUME NEW n \in 1..k PROVE h[n] = IF n = 1 THEN p[n] ELSE h[n - 1] \o p[n]
      OBVIOUS
    <3> HIDE DEF V, k
    <3>1. CASE n = 1
      <4>1. n - 1 = 0 /\ <<>> \o p[n] = p[n]
        BY <1>1, <3>1, ConcatEmptySeq DEF V
      <4> QED BY <1>4, <3>1, <4>1
    <3>2. CASE n # 1
      <4>1. n - 1 \in 1..k
        BY <1>1, <3>2
      <4>2. h[n] = g[n] /\ h[n - 1] = g[n - 1]
        BY <4>1
      <4> QED BY <1>4, <3>2, <4>2
    <3> QED BY <3>1, <3>2
  <2>2. h = [n \in 1..k |-> IF n = 1 THEN p[n] ELSE h[n - 1] \o p[n]]
    <3> HIDE DEF k
    <3> QED BY <2>1
  <2>3. f = [n \in 1..k |-> IF n = 1 THEN p[n] ELSE f[n - 1] \o p[n]]
    BY <2>2
  <2>4. FlattenSeq(p) = f[k]
    BY <1>6 DEF FlattenSeq
  <2> HIDE DEF f
  <2>8. \A n \in 1..k : f[n] = IF n = 1 THEN p[n] ELSE f[n - 1] \o p[n]
    <3> HIDE DEF k
    <3> QED BY <2>3
  <2> DEFINE e == [n \in 0..k |-> IF n = 0 THEN <<>> ELSE f[n]]
  <2>5. NeverPart(e, g, k)
    <3> HIDE DEF V, k
    <3>1. e[0] = g[0]
      BY <1>1, <1>4
    <3>2. ASSUME NEW n \in 1..k, e[n - 1] = g[n - 1] PROVE e[n] = g[n]
      <4>0. n # 0 /\ n \in 0..k
        BY <1>1
      <4>1. e[n] = f[n] /\ f[n] = IF n = 1 THEN p[n] ELSE f[n - 1] \o p[n]
        BY <2>8, <4>0
      <4>2. CASE n = 1
        <5>1. n - 1 = 0 /\ <<>> \o p[n] = p[n]
          BY <1>1, <4>2, ConcatEmptySeq DEF V
        <5> QED BY <1>4, <4>1, <4>2, <5>1
      <4>3. CASE n # 1
        <5>1. e[n - 1] = f[n - 1]
          BY <1>1, <4>3
        <5> QED BY <1>4, <3>2, <4>1, <4>3, <5>1
      <4> QED BY <4>2, <4>3
    <3> HIDE DEF e
    <3> QED BY <3>1, <3>2 DEF NeverPart
  <2>6. \A n \in 0..k : e[n] = g[n]
    <3> HIDE DEF V, k, e
    <3> QED BY <1>1, <2>5, StepwiseAgree
  <2>7. k \in 0..k /\ e[k] = f[k]
    BY <1>1, <1>6
  <2> QED BY <1>4, <2>4, <2>6, <2>7
<1> QED BY <1>5, <1>6

LEMMA FlatIsSeq ==
    ASSUME NEW T, NEW p \in Seq(Seq(T)) PROVE FlattenSeq(p) \in Seq(T)
<1>1. PICK f \in [0..Len(p) -> Seq(T)] : FlattenSeq(p) = f[Len(p)]
  BY FlatMade
<1> QED BY <1>1

\* One sequence more.
LEMMA FlatOfMore ==
    ASSUME NEW T, NEW p \in Seq(Seq(T)), NEW s \in Seq(T)
    PROVE  FlattenSeq(Append(p, s)) = FlattenSeq(p) \o s
<1> DEFINE q == Append(p, s)
<1>1. /\ q \in Seq(Seq(T)) /\ Len(q) = Len(p) + 1 /\ Len(p) \in Nat /\ q[Len(p) + 1] = s
      /\ \A i \in 1..Len(p) : q[i] = p[i]
  OBVIOUS
<1> HIDE DEF q
<1>2. PICK f \in [0..Len(p) -> Seq(T)] :
              /\ f[0] = <<>> /\ \A n \in 1..Len(p) : f[n] = f[n - 1] \o p[n]
              /\ FlattenSeq(p) = f[Len(p)]
  BY FlatMade
<1>3. PICK g \in [0..Len(q) -> Seq(T)] :
              /\ g[0] = <<>> /\ \A n \in 1..Len(q) : g[n] = g[n - 1] \o q[n]
              /\ FlattenSeq(q) = g[Len(q)]
  BY <1>1, FlatMade
<1>4. NeverPart(g, f, Len(p))
  <2>1. \A n \in 1..Len(p) : n \in 1..Len(q)
    BY <1>1
  <2> QED BY <1>1, <1>2, <1>3, <2>1 DEF NeverPart
<1>5. g[Len(p)] = f[Len(p)]
  <2>1. Len(p) \in 0..Len(p)
    BY <1>1
  <2> QED BY <1>1, <1>4, <2>1, StepwiseAgree
<1>6. g[Len(q)] = g[Len(p)] \o s
  <2>1. Len(q) \in 1..Len(q) /\ Len(q) - 1 = Len(p)
    BY <1>1
  <2> QED BY <1>1, <1>3, <2>1
<1> QED BY <1>2, <1>3, <1>5, <1>6 DEF q
=============================================================================
