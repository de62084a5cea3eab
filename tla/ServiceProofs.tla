---------------------------- MODULE ServiceProofs ----------------------------
(***************************************************************************)
(* Proofs about the running service: that the way down strands nobody and  *)
(* takes nothing from under a turn, and that the retry ladder refuses and  *)
(* pauses for a rate limit exactly as the schedule of pauses allows.       *)
(***************************************************************************)
EXTENDS Service, Induction

-----------------------------------------------------------------------------
(* The process.                                                            *)

\* The lifespan's list is what was opened, in the order of opening; what is
\* left to stop is the beginning of it, and the rest has been asked to stop.
ListInv ==
    /\ at \in {"starting", "serving", "stopping", "gone"}
    /\ opening \in 2..(Len(Components) + 1) /\ call \in Nat
    /\ started \in Seq(ToSet(Components)) /\ Len(started) = opening - 1
    /\ \A i \in 1..(opening - 1) : started[i] = Components[i]
    /\ at = "starting" => opening <= Len(Components) /\ call < Len(Parts(Opening))
    /\ at \in {"starting", "serving"} => stopped = <<>> /\ releasing = <<>> /\ toStop = <<>>
    /\ at = "gone" => toStop = <<>> /\ releasing = <<>>
    /\ toStop \in Seq(ToSet(Components)) /\ stopped \in Seq(ToSet(Components))
    /\ Len(toStop) < opening
    /\ \A i \in 1..Len(toStop) : toStop[i] = Components[i]
    /\ at \in {"stopping", "gone"} =>
          ToSet(stopped) = {Components[i] : i \in (Len(toStop) + 1)..(opening - 1)}

\* What is held is held for a component, all of it while the component has not
\* been asked to stop; afterwards what is left of it is about to be released,
\* or its release raised.
HoldInv ==
    /\ held \subseteq Held
    /\ releasing \in Seq(Held)
    /\ \A r \in ToSet(releasing) : r[1] \in ToSet(stopped)
    /\ at = "starting" =>
          \A k \in 1..call : Parts(Opening)[k] \in Holds(Opening)
                                => <<Opening, Parts(Opening)[k]>> \in held
    /\ \A c \in ToSet(started) \ ToSet(stopped) :
          \A part \in Holds(c) \ {"polling"} : <<c, part>> \in held
    /\ \A h \in held \ stuck : h[1] \in ToSet(stopped) => h \in ToSet(releasing)

\* Until the application is released, or its release raises, nothing but the
\* adapter has been asked to stop.
OrderInv ==
    "telegram_adapter" \in ToSet(started) /\ Application \in held \ stuck
        => ToSet(stopped) \subseteq {"telegram_adapter"}

\* A turn is run by an application that is held.
TurnInv ==
    turn # "idle" /\ Application \notin stuck
        => Application \in held /\ "telegram_adapter" \in ToSet(started)

\* The model client comes first, the adapter last, the stores between them.
LEMMA ComponentsBetween ==
    /\ \E S : Components \in Seq(S)
    /\ Len(Stores) \in Nat /\ Len(Components) = Len(Stores) + 2
    /\ Components[1] = "model_client"
    /\ Components[Len(Stores) + 2] = "telegram_adapter"
    /\ \A i \in 2..(Len(Stores) + 1) : Components[i] = Stores[i - 1]
<1> DEFINE first == "model_client"
           last == "telegram_adapter"
           but == <<first>> \o Stores
           S == {first, last} \cup ToSet(Stores)
<1>1. first \in S /\ last \in S
  OBVIOUS
<1>2. Stores \in Seq(ToSet(Stores)) /\ ToSet(Stores) \subseteq S
  BY LifespanAssumption
<1>3. Components = but \o <<last>>
  BY DEF Components
<1> HIDE DEF first, last, S
<1>4. Stores \in Seq(S)
  BY <1>2
<1>5. <<first>> \in Seq(S) /\ <<last>> \in Seq(S) /\ Len(Stores) \in Nat
  BY <1>1, <1>4
<1>6. /\ but \in Seq(S) /\ Len(but) = Len(<<first>>) + Len(Stores)
      /\ \A i \in 1..(Len(<<first>>) + Len(Stores)) :
             but[i] = IF i <= Len(<<first>>) THEN <<first>>[i] ELSE Stores[i - Len(<<first>>)]
  BY <1>4, <1>5, ConcatProperties
<1>7. /\ Len(<<first>>) = 1 /\ <<first>>[1] = first
      /\ Len(<<last>>) = 1 /\ <<last>>[1] = last
  OBVIOUS
<1> HIDE DEF but
<1>8. /\ Components \in Seq(S) /\ Len(Components) = Len(but) + Len(<<last>>)
      /\ \A i \in 1..(Len(but) + Len(<<last>>)) :
            Components[i] = IF i <= Len(but) THEN but[i] ELSE <<last>>[i - Len(but)]
  BY <1>5, <1>6, <1>3, ConcatProperties
<1>9. Len(but) = Len(Stores) + 1 /\ Len(Components) = Len(Stores) + 2
  BY <1>5, <1>6, <1>7, <1>8
<1>10. Components[1] = first /\ Components[Len(Stores) + 2] = last
  <2>1. 1 \in 1..(Len(but) + 1) /\ 1 <= Len(but) /\ 1 \in 1..(1 + Len(Stores)) /\ 1 <= 1
    BY <1>5, <1>9
  <2>2. Components[1] = but[1] /\ but[1] = first
    BY <1>6, <1>7, <1>8, <2>1
  <2>3. /\ Len(Stores) + 2 \in 1..(Len(but) + 1) /\ ~(Len(Stores) + 2 <= Len(but))
        /\ Len(Stores) + 2 - Len(but) = 1
    BY <1>5, <1>9
  <2>4. Components[Len(Stores) + 2] = <<last>>[Len(Stores) + 2 - Len(but)]
    BY <1>7, <1>8, <2>3
  <2> QED BY <1>7, <2>2, <2>3, <2>4
<1>11. ASSUME NEW i \in 2..(Len(Stores) + 1) PROVE Components[i] = Stores[i - 1]
  <2>1. i \in 1..(1 + Len(Stores)) /\ i \in 1..(Len(but) + 1) /\ i <= Len(but) /\ ~(i <= 1)
    BY <1>5, <1>9
  <2> QED BY <1>6, <1>7, <1>8, <2>1
<1>12. first = "model_client" /\ last = "telegram_adapter"
  BY DEF first, last
<1> QED BY <1>5, <1>8, <1>9, <1>10, <1>11, <1>12

LEMMA ComponentCount ==
    /\ Len(Stores) \in Nat /\ Len(Components) = Len(Stores) + 2
    /\ Len(Components) \in Nat /\ Len(Components) >= 2
<1>1. Len(Stores) \in Nat /\ Len(Components) = Len(Stores) + 2
  BY ComponentsBetween
<1> QED BY <1>1

LEMMA ComponentNames ==
    /\ Components \in Seq(ToSet(Components))
    /\ DOMAIN Components = 1..Len(Components)
    /\ \A i \in 1..Len(Components) : Components[i] \in ToSet(Components)
<1>1. PICK S : Components \in Seq(S)
  BY ComponentsBetween
<1>2. DOMAIN Components = 1..Len(Components) /\ Len(Components) \in Nat
  BY <1>1
<1>3. \A i \in 1..Len(Components) : Components[i] \in ToSet(Components)
  BY <1>2 DEF ToSet
<1>4. Components \in Seq(ToSet(Components))
  <2> DEFINE T == ToSet(Components)
  <2> HIDE DEF T
  <2>1. \A i \in 1..Len(Components) : Components[i] \in T
    BY <1>3 DEF T
  <2>2. Components \in Seq(T)
    BY <1>1, <2>1
  <2> QED BY <2>2 DEF T
<1> QED BY <1>2, <1>3, <1>4

LEMMA StoreNames ==
    /\ \A s : s \in ToSet(Stores) <=> \E i \in 1..Len(Stores) : Stores[i] = s
    /\ \A i, j \in 1..Len(Stores) : Stores[i] = Stores[j] => i = j
    /\ "model_client" \notin ToSet(Stores) /\ "telegram_adapter" \notin ToSet(Stores)
<1>1. Stores \in Seq(ToSet(Stores)) /\ IsInjective(Stores)
  BY LifespanAssumption
<1>2. DOMAIN Stores = 1..Len(Stores)
  BY <1>1
<1>3. \A s : s \in ToSet(Stores) <=> \E i \in 1..Len(Stores) : Stores[i] = s
  BY <1>2 DEF ToSet
<1>4. \A i, j \in 1..Len(Stores) : Stores[i] = Stores[j] => i = j
  BY <1>1, <1>2 DEF IsInjective
<1>5. "model_client" \notin ToSet(Stores) /\ "telegram_adapter" \notin ToSet(Stores)
  BY LifespanAssumption
<1> QED BY <1>3, <1>4, <1>5

\* Which component is where.
LEMMA ComponentPlaces ==
    /\ \A i \in 1..Len(Components) :
          \/ i = 1 /\ Components[i] = "model_client"
          \/ i = Len(Components) /\ Components[i] = "telegram_adapter"
          \/ i - 1 \in 1..Len(Stores) /\ Components[i] = Stores[i - 1]
    /\ \A s \in ToSet(Stores) : \E i \in 2..(Len(Components) - 1) : Components[i] = s
<1>1. /\ Len(Stores) \in Nat /\ Len(Components) = Len(Stores) + 2
      /\ Components[1] = "model_client"
      /\ Components[Len(Stores) + 2] = "telegram_adapter"
      /\ \A i \in 2..(Len(Stores) + 1) : Components[i] = Stores[i - 1]
  BY ComponentsBetween
<1>2. ASSUME NEW i \in 1..Len(Components)
      PROVE  \/ i = 1 \/ i = Len(Stores) + 2
             \/ i \in 2..(Len(Stores) + 1) /\ i - 1 \in 1..Len(Stores)
  BY ComponentCount
<1>3. ASSUME NEW i \in 1..Len(Components)
      PROVE  \/ i = 1 /\ Components[i] = "model_client"
             \/ i = Len(Components) /\ Components[i] = "telegram_adapter"
             \/ i - 1 \in 1..Len(Stores) /\ Components[i] = Stores[i - 1]
  BY <1>1, <1>2
<1>4. ASSUME NEW s \in ToSet(Stores)
      PROVE  \E i \in 2..(Len(Components) - 1) : Components[i] = s
  <2>1. PICK i \in 1..Len(Stores) : Stores[i] = s
    BY StoreNames
  <2>2. i + 1 \in 2..(Len(Stores) + 1) /\ Len(Components) - 1 = Len(Stores) + 1 /\ (i + 1) - 1 = i
    BY ComponentCount
  <2>3. Components[i + 1] = s
    BY <1>1, <2>1, <2>2
  <2> QED BY <2>2, <2>3
<1> QED BY <1>3, <1>4

LEMMA ComponentsDiffer ==
    \A i, j \in 1..Len(Components) : Components[i] = Components[j] => i = j
<1> SUFFICES ASSUME NEW i \in 1..Len(Components), NEW j \in 1..Len(Components),
                    Components[i] = Components[j]
             PROVE  i = j
  OBVIOUS
<1>1. "model_client" # "telegram_adapter"
  OBVIOUS
<1>2. ASSUME NEW k \in 1..Len(Components), k - 1 \in 1..Len(Stores), Components[k] = Stores[k - 1]
      PROVE  Components[k] # "model_client" /\ Components[k] # "telegram_adapter"
  BY <1>2, StoreNames
<1>3. CASE i - 1 \in 1..Len(Stores) /\ Components[i] = Stores[i - 1]
  <2>1. j - 1 \in 1..Len(Stores) /\ Components[j] = Stores[j - 1]
    BY <1>2, <1>3, ComponentPlaces
  <2>2. i - 1 = j - 1
    BY <1>3, <2>1, StoreNames
  <2> QED BY <2>2
<1>4. CASE ~(i - 1 \in 1..Len(Stores) /\ Components[i] = Stores[i - 1])
  BY <1>1, <1>2, <1>4, ComponentPlaces
<1> QED BY <1>3, <1>4

\* What each component's open() goes through, and what it takes hold of.
LEMMA PartsOfComponents ==
    ASSUME NEW c \in ToSet(Components)
    PROVE  \/ c = "model_client" /\ Parts(c) = <<"pool">> /\ Holds(c) = {"pool"}
           \/ /\ c = "telegram_adapter"
              /\ Parts(c) = <<"resources", "application", "polling">>
              /\ Holds(c) = {"resources", "application", "polling"}
           \/ /\ c \in ToSet(Stores) /\ c # "model_client" /\ c # "telegram_adapter"
              /\ Parts(c) = <<"connection", "schema">>
              /\ Holds(c) = {"connection"}
<1>1. PICK i \in 1..Len(Components) : c = Components[i]
  BY ComponentNames DEF ToSet
<1>2. c = "model_client" \/ c = "telegram_adapter" \/ c \in ToSet(Stores)
  BY <1>1, ComponentPlaces, StoreNames
<1>3. CASE c = "model_client"
  <2>1. Parts(c) = <<"pool">>
    BY <1>3 DEF Parts
  <2>2. c \notin ToSet(Stores)
    BY <1>3, StoreNames
  <2>3. ToSet(<<"pool">>) = {"pool"}
    BY DEF ToSet
  <2>4. Holds(c) = {"pool"}
    BY <2>1, <2>2, <2>3 DEF Holds
  <2> QED BY <1>3, <2>1, <2>4
<1>4. CASE c = "telegram_adapter"
  <2>1. Parts(c) = <<"resources", "application", "polling">>
    BY <1>4 DEF Parts
  <2>2. c \notin ToSet(Stores)
    BY <1>4, StoreNames
  <2>3. DOMAIN <<"resources", "application", "polling">> = {1, 2, 3}
    OBVIOUS
  <2>4. ToSet(<<"resources", "application", "polling">>) = {"resources", "application", "polling"}
    BY <2>3 DEF ToSet
  <2>5. Holds(c) = {"resources", "application", "polling"}
    BY <2>1, <2>2, <2>4 DEF Holds
  <2> QED BY <1>4, <2>1, <2>5
<1>5. CASE c \in ToSet(Stores)
  <2>1. c # "model_client" /\ c # "telegram_adapter"
    BY <1>5, StoreNames
  <2>2. Parts(c) = <<"connection", "schema">>
    BY <2>1 DEF Parts
  <2>3. Holds(c) = {"connection"}
    BY <1>5 DEF Holds
  <2> QED BY <1>5, <2>1, <2>2, <2>3
<1> QED BY <1>2, <1>3, <1>4, <1>5

LEMMA PartsCounted ==
    ASSUME NEW c \in ToSet(Components)
    PROVE  Len(Parts(c)) \in Nat \ {0}
<1>1. \/ Parts(c) = <<"pool">>
      \/ Parts(c) = <<"resources", "application", "polling">>
      \/ Parts(c) = <<"connection", "schema">>
  BY PartsOfComponents
<1>2. /\ Len(<<"pool">>) = 1
      /\ Len(<<"resources", "application", "polling">>) = 3
      /\ Len(<<"connection", "schema">>) = 2
  OBVIOUS
<1>3. Len(Parts(c)) = 1 \/ Len(Parts(c)) = 3 \/ Len(Parts(c)) = 2
  BY <1>1, <1>2
<1> QED BY <1>3

LEMMA FrontFacts ==
    ASSUME NEW S, NEW s \in Seq(S), s # <<>>
    PROVE  /\ Len(s) \in Nat /\ Len(s) >= 1
           /\ Front(s) \in Seq(S) /\ Len(Front(s)) = Len(s) - 1
           /\ \A i \in 1..(Len(s) - 1) : Front(s)[i] = s[i]
           /\ Last(s) = s[Len(s)]
<1>1. Len(s) \in Nat /\ Len(s) >= 1
  OBVIOUS
<1>2. \A i \in 1..(Len(s) - 1) : s[i] \in S
  OBVIOUS
<1>3. 1 \in Int /\ Len(s) - 1 \in Int
  BY <1>1
<1>4. /\ SubSeq(s, 1, Len(s) - 1) \in Seq(S)
      /\ Len(SubSeq(s, 1, Len(s) - 1)) = IF 1 <= Len(s) - 1 THEN Len(s) - 1 - 1 + 1 ELSE 0
      /\ \A i \in 1..(Len(s) - 1 - 1 + 1) : SubSeq(s, 1, Len(s) - 1)[i] = s[1 + i - 1]
  BY <1>2, <1>3, SubSeqProperties
<1>5. /\ Len(SubSeq(s, 1, Len(s) - 1)) = Len(s) - 1
      /\ \A i \in 1..(Len(s) - 1) : SubSeq(s, 1, Len(s) - 1)[i] = s[i]
  <2>1. \A n \in Nat : n >= 1 => n - 1 - 1 + 1 = n - 1 /\ (1 <= n - 1 \/ n - 1 = 0)
    OBVIOUS
  <2>2. \A i \in 1..(Len(s) - 1) : 1 + i - 1 = i
    BY <1>1
  <2> QED BY <1>1, <1>4, <2>1, <2>2
<1> QED BY <1>1, <1>4, <1>5 DEF Front, Last

LEMMA ListInit == ProcessInit => ListInv
<1> SUFFICES ASSUME ProcessInit PROVE ListInv
  OBVIOUS
<1>1. /\ at = "starting" /\ opening = 2 /\ call = 0
      /\ toStop = <<>> /\ releasing = <<>> /\ stopped = <<>>
  BY DEF ProcessInit
<1>2. 2 \in 1..Len(Components) /\ 1 \in 1..Len(Components) /\ 2 \in 2..(Len(Components) + 1)
  BY ComponentCount
<1>3. Len(Parts(Components[2])) > 0
  <2>1. Len(Parts(Components[2])) \in Nat \ {0}
    BY <1>2, ComponentNames, PartsCounted
  <2> QED BY <2>1
<1>4. at = "starting" => opening <= Len(Components) /\ call < Len(Parts(Opening))
  BY <1>1, <1>2, <1>3 DEF Opening
<1>5. started = <<Components[1]>>
  BY ComponentsBetween DEF ProcessInit
<1>6. /\ started \in Seq(ToSet(Components)) /\ Len(started) = opening - 1
      /\ \A i \in 1..(opening - 1) : started[i] = Components[i]
  <2>1. Components[1] \in ToSet(Components)
    BY <1>2, ComponentNames
  <2> QED BY <1>1, <1>5, <2>1
<1> QED BY <1>1, <1>2, <1>4, <1>6 DEF ListInv

\* The list, step by step.
LEMMA ListStep == ListInv /\ [ProcessNext]_process => ListInv'
<1> SUFFICES ASSUME ListInv, [ProcessNext]_process PROVE ListInv'
  OBVIOUS
<1> DEFINE N == Len(Components)
<1>0. N \in Nat /\ N >= 2
  BY ComponentCount
<1>1. CASE CallReturns
  <2>1. opening \in 2..N /\ call \in Nat /\ call < Len(Parts(Opening)) /\ at = "starting"
    BY <1>1 DEF CallReturns, ListInv
  <2>2. toStop = <<>> /\ stopped = <<>> /\ releasing = <<>>
    BY <2>1 DEF ListInv
  <2>3. toStop' = <<>> /\ stopped' = <<>> /\ releasing' = <<>>
    BY <1>1, <2>2 DEF CallReturns
  <2>4. Opening \in ToSet(Components)
    BY <1>0, <2>1, ComponentNames DEF Opening
  <2>5. Len(Parts(Opening)) \in Nat \ {0}
    BY <2>4, PartsCounted
  <2>6. CASE call + 1 = Len(Parts(Opening))
    <3>1. started' = Append(started, Opening) /\ call' = 0 /\ opening' = opening + 1
      BY <1>1, <2>6 DEF CallReturns
    <3>2. at' = IF opening = N THEN "serving" ELSE at
      BY <1>1, <2>6 DEF CallReturns
    <3>3. /\ started' \in Seq(ToSet(Components)) /\ Len(started') = opening' - 1
          /\ \A i \in 1..(opening' - 1) : started'[i] = Components[i]
      BY <1>0, <2>1, <3>1, ComponentNames DEF ListInv, Opening
    <3>4. opening' # N + 1 => opening' \in 2..N
      BY <2>1, <3>1
    <3>5. opening' \in 2..N => Components[opening'] \in ToSet(Components)
      BY <1>0, ComponentNames
    <3>6. at' = "starting" => opening' <= N /\ call' < Len(Parts(Opening'))
      BY <2>1, <3>1, <3>2, <3>4, <3>5, PartsCounted DEF Opening
    <3> QED BY <1>0, <2>1, <2>3, <3>1, <3>2, <3>3, <3>6 DEF ListInv
  <2>7. CASE call + 1 # Len(Parts(Opening))
    <3>1. started' = started /\ call' = call + 1 /\ opening' = opening /\ at' = at
      BY <1>1, <2>7 DEF CallReturns
    <3>2. call' \in Nat /\ call' < Len(Parts(Opening))
      BY <2>1, <2>5, <2>7, <3>1
    <3> QED BY <1>0, <2>1, <2>3, <3>1, <3>2 DEF ListInv, Opening
  <2> QED BY <2>6, <2>7
<1>2. CASE CallRaises \/ Terminate
  <2>1. /\ at \in {"starting", "serving"} /\ at' = "stopping" /\ toStop' = started
        /\ UNCHANGED <<opening, call, held, started, releasing, stuck, stopped>>
    BY <1>2 DEF CallRaises, Terminate
  <2>2. /\ Len(toStop') = opening - 1 /\ stopped' = <<>> /\ toStop' \in Seq(ToSet(Components))
        /\ opening \in 2..(N + 1)
    BY <2>1 DEF ListInv
  <2>3. ToSet(stopped') = {}
    BY <2>2 DEF ToSet
  <2>4. (Len(toStop') + 1)..(opening' - 1) = {}
    BY <1>0, <2>1, <2>2
  <2> QED BY <1>0, <2>1, <2>2, <2>3, <2>4 DEF ListInv
<1>3. CASE GoesDeaf \/ Release \/ UNCHANGED process
  <2>1. /\ UNCHANGED <<at, opening, call, started, toStop, stopped>>
        /\ releasing' = releasing \/ (releasing # <<>> /\ Release)
    BY <1>3 DEF GoesDeaf, Release, process
  <2>2. releasing # <<>> => at = "stopping"
    BY DEF ListInv
  <2> QED BY <2>1, <2>2 DEF ListInv, Opening
<1>4. CASE Stop
  <2> DEFINE k == Len(toStop)
  <2>1. /\ at = "stopping" /\ toStop \in Seq(ToSet(Components)) /\ toStop # <<>>
        /\ k < opening /\ \A i \in 1..k : toStop[i] = Components[i]
        /\ opening \in 2..(N + 1) /\ stopped \in Seq(ToSet(Components))
    BY <1>4 DEF Stop, ListInv
  <2>2. k \in Nat /\ k >= 1 /\ Last(toStop) = Components[k]
    BY <2>1 DEF Last
  <2>3. /\ toStop' = Front(toStop) /\ stopped' = Append(stopped, Components[k])
        /\ UNCHANGED <<at, opening, call, started>>
    BY <1>4, <2>2 DEF Stop
  <2>4. /\ toStop' \in Seq(ToSet(Components)) /\ Len(toStop') = k - 1
        /\ \A i \in 1..(k - 1) : toStop'[i] = Components[i]
    <3>1. /\ Front(toStop) \in Seq(ToSet(Components)) /\ Len(Front(toStop)) = k - 1
          /\ \A i \in 1..(k - 1) : Front(toStop)[i] = toStop[i]
      BY <2>1, FrontFacts
    <3>2. 1..(k - 1) \subseteq 1..k
      BY <2>2
    <3> QED BY <2>1, <2>3, <3>1, <3>2
  <2>5. Components[k] \in ToSet(Components)
    BY <1>0, <2>1, <2>2, ComponentNames
  <2>6. stopped' \in Seq(ToSet(Components)) /\ ToSet(stopped') = ToSet(stopped) \cup {Components[k]}
    <3>1. stopped' \in Seq(ToSet(Components)) /\ Len(stopped') = Len(stopped) + 1
      BY <2>1, <2>3, <2>5
    <3>2. /\ \A i \in 1..Len(stopped) : stopped'[i] = stopped[i]
          /\ stopped'[Len(stopped) + 1] = Components[k]
      BY <2>1, <2>3, <2>5
    <3>3. DOMAIN stopped' = 1..(Len(stopped) + 1) /\ DOMAIN stopped = 1..Len(stopped)
      BY <2>1, <3>1
    <3>4. Len(stopped) \in Nat
      BY <2>1
    <3>5. \A i \in 1..(Len(stopped) + 1) : i \in 1..Len(stopped) \/ i = Len(stopped) + 1
      BY <3>4
    <3>6. 1..Len(stopped) \subseteq 1..(Len(stopped) + 1) /\ Len(stopped) + 1 \in 1..(Len(stopped) + 1)
      BY <3>4
    <3> QED BY <3>1, <3>2, <3>3, <3>5, <3>6 DEF ToSet
  <2>7. ToSet(stopped) = {Components[i] : i \in (k + 1)..(opening - 1)}
    BY <2>1 DEF ListInv
  <2>8. k..(opening - 1) = {k} \cup (k + 1)..(opening - 1)
    BY <2>1, <2>2
  <2>9. ToSet(stopped') = {Components[i] : i \in k..(opening - 1)}
    BY <2>6, <2>7, <2>8
  <2>10. Len(toStop') + 1 = k
    BY <2>2, <2>4
  <2>11. k - 1 < opening' /\ opening' - 1 = opening - 1 /\ opening' \in 2..(N + 1)
    BY <1>0, <2>1, <2>2, <2>3
  <2>12. /\ call' \in Nat /\ started' \in Seq(ToSet(Components)) /\ Len(started') = opening' - 1
         /\ \A i \in 1..(opening' - 1) : started'[i] = Components[i]
    BY <2>3 DEF ListInv
  <2> QED BY <2>1, <2>3, <2>4, <2>6, <2>9, <2>10, <2>11, <2>12 DEF ListInv
<1>5. CASE Gone
  BY <1>5 DEF Gone, ListInv, Opening
<1> QED BY <1>1, <1>2, <1>3, <1>4, <1>5 DEF ProcessNext

-----------------------------------------------------------------------------
\* The sets a sequence's steps make.
LEMMA ToSetEmpty == ToSet(<<>>) = {}
BY DEF ToSet

LEMMA ToSetAppend ==
    ASSUME NEW S, NEW s \in Seq(S), NEW e \in S
    PROVE  ToSet(Append(s, e)) = ToSet(s) \cup {e}
<1>1. /\ Append(s, e) \in Seq(S) /\ Len(Append(s, e)) = Len(s) + 1 /\ Len(s) \in Nat
      /\ \A i \in 1..Len(s) : Append(s, e)[i] = s[i]
      /\ Append(s, e)[Len(s) + 1] = e
  OBVIOUS
<1>2. DOMAIN Append(s, e) = 1..(Len(s) + 1) /\ DOMAIN s = 1..Len(s)
  BY <1>1
<1>3. /\ \A i \in 1..(Len(s) + 1) : i \in 1..Len(s) \/ i = Len(s) + 1
      /\ 1..Len(s) \subseteq 1..(Len(s) + 1) /\ Len(s) + 1 \in 1..(Len(s) + 1)
  BY <1>1
<1> QED BY <1>1, <1>2, <1>3 DEF ToSet

LEMMA ToSetTail ==
    ASSUME NEW S, NEW s \in Seq(S), s # <<>>
    PROVE  /\ Head(s) \in ToSet(s) /\ Tail(s) \in Seq(S)
           /\ \A x \in ToSet(s) : x = Head(s) \/ x \in ToSet(Tail(s))
           /\ ToSet(Tail(s)) \subseteq ToSet(s)
<1>1. /\ Len(s) \in Nat /\ Len(s) >= 1 /\ Head(s) = s[1]
      /\ Tail(s) \in Seq(S) /\ Len(Tail(s)) = Len(s) - 1
      /\ \A i \in 1..(Len(s) - 1) : Tail(s)[i] = s[i + 1]
  OBVIOUS
<1>2. DOMAIN Tail(s) = 1..(Len(s) - 1) /\ DOMAIN s = 1..Len(s)
  BY <1>1
<1>3. 1 \in 1..Len(s) /\ \A i \in 1..(Len(s) - 1) : i + 1 \in 1..Len(s)
  BY <1>1
<1>4. \A i \in 1..Len(s) : i = 1 \/ (i - 1 \in 1..(Len(s) - 1) /\ (i - 1) + 1 = i)
  BY <1>1
<1>5. \A x \in ToSet(s) : x = Head(s) \/ x \in ToSet(Tail(s))
  <2> SUFFICES ASSUME NEW i \in 1..Len(s), i # 1 PROVE s[i] \in ToSet(Tail(s))
    BY <1>1, <1>2 DEF ToSet
  <2>1. i - 1 \in 1..(Len(s) - 1) /\ Tail(s)[i - 1] = s[i]
    BY <1>1, <1>4
  <2> QED BY <1>2, <2>1 DEF ToSet
<1>6. ToSet(Tail(s)) \subseteq ToSet(s)
  <2> SUFFICES ASSUME NEW i \in 1..(Len(s) - 1) PROVE Tail(s)[i] \in ToSet(s)
    BY <1>2 DEF ToSet
  <2> QED BY <1>1, <1>2, <1>3 DEF ToSet
<1>7. Head(s) \in ToSet(s)
  BY <1>1, <1>2, <1>3 DEF ToSet
<1> QED BY <1>1, <1>5, <1>6, <1>7

\* The components on the list, and those that were asked to stop.
LEMMA StartedSet == ListInv => ToSet(started) = {Components[i] : i \in 1..(opening - 1)}
<1> SUFFICES ASSUME ListInv PROVE ToSet(started) = {Components[i] : i \in 1..(opening - 1)}
  OBVIOUS
<1>1. /\ started \in Seq(ToSet(Components)) /\ Len(started) = opening - 1
      /\ \A i \in 1..(opening - 1) : started[i] = Components[i]
  BY DEF ListInv
<1>2. DOMAIN started = 1..(opening - 1)
  BY <1>1
<1> QED BY <1>1, <1>2 DEF ToSet

LEMMA StoppedSet ==
    ListInv => /\ at \notin {"stopping", "gone"} => ToSet(stopped) = {}
               /\ at \in {"stopping", "gone"} =>
                     ToSet(stopped) = {Components[i] : i \in (Len(toStop) + 1)..(opening - 1)}
BY ToSetEmpty DEF ListInv

-----------------------------------------------------------------------------
LEMMA ToSetConcat ==
    ASSUME NEW S, NEW s \in Seq(S), NEW t \in Seq(S)
    PROVE  ToSet(s \o t) = ToSet(s) \cup ToSet(t)
<1>1. /\ s \o t \in Seq(S) /\ Len(s \o t) = Len(s) + Len(t)
      /\ \A i \in 1..(Len(s) + Len(t)) : (s \o t)[i] = IF i <= Len(s) THEN s[i] ELSE t[i - Len(s)]
  BY ConcatProperties
<1>2. Len(s) \in Nat /\ Len(t) \in Nat
  OBVIOUS
<1>3. /\ DOMAIN (s \o t) = 1..(Len(s) + Len(t))
      /\ DOMAIN s = 1..Len(s) /\ DOMAIN t = 1..Len(t)
  BY <1>1
<1>4. ASSUME NEW i \in 1..(Len(s) + Len(t))
      PROVE  (s \o t)[i] \in ToSet(s) \cup ToSet(t)
  <2>1. CASE i <= Len(s)
    BY <1>1, <1>2, <1>3, <2>1 DEF ToSet
  <2>2. CASE ~(i <= Len(s))
    <3>1. i - Len(s) \in 1..Len(t)
      BY <1>2, <2>2
    <3> QED BY <1>1, <1>3, <2>2, <3>1 DEF ToSet
  <2> QED BY <2>1, <2>2
<1>5. ASSUME NEW i \in 1..Len(s) PROVE s[i] \in ToSet(s \o t)
  <2>1. i \in 1..(Len(s) + Len(t)) /\ i <= Len(s)
    BY <1>2
  <2> QED BY <1>1, <1>3, <2>1 DEF ToSet
<1>6. ASSUME NEW i \in 1..Len(t) PROVE t[i] \in ToSet(s \o t)
  <2>1. i + Len(s) \in 1..(Len(s) + Len(t)) /\ ~(i + Len(s) <= Len(s)) /\ (i + Len(s)) - Len(s) = i
    BY <1>2
  <2>2. (s \o t)[i + Len(s)] = t[i]
    BY <1>1, <2>1
  <2> QED BY <1>3, <2>1, <2>2 DEF ToSet
<1>7. /\ ToSet(s) = {s[i] : i \in 1..Len(s)} /\ ToSet(t) = {t[i] : i \in 1..Len(t)}
      /\ ToSet(s \o t) = {(s \o t)[i] : i \in 1..(Len(s) + Len(t))}
  BY <1>3 DEF ToSet
<1> QED BY <1>4, <1>5, <1>6, <1>7

\* A part on its own, if it is held.
LEMMA IfHeldFacts ==
    ASSUME NEW c, NEW S, NEW part \in S
    PROVE  /\ IfHeld(c, part) \in Seq(S)
           /\ <<c, part>> \in held => part \in ToSet(IfHeld(c, part))
<1>1. CASE <<c, part>> \in held
  <2>1. IfHeld(c, part) = <<part>>
    BY <1>1 DEF IfHeld
  <2>2. <<part>> \in Seq(S) /\ DOMAIN <<part>> = {1} /\ <<part>>[1] = part
    OBVIOUS
  <2> QED BY <2>1, <2>2 DEF ToSet
<1>2. CASE <<c, part>> \notin held
  BY <1>2 DEF IfHeld
<1> QED BY <1>1, <1>2

\* What stop() of a component is about to release: all of it that is held.
LEMMA StopCallsCover ==
    ASSUME NEW c \in ToSet(Components)
    PROVE  /\ StopCalls(c) \in Seq(Holds(c))
           /\ \A part \in Holds(c) : <<c, part>> \in held => part \in ToSet(StopCalls(c))
<1>1. CASE c = "model_client" /\ Holds(c) = {"pool"}
  <2>1. StopCalls(c) = IfHeld(c, "pool")
    BY <1>1 DEF StopCalls
  <2>2. \A part \in Holds(c) : part = "pool"
    BY <1>1
  <2>3. \A part \in Holds(c) :
           /\ IfHeld(c, part) \in Seq(Holds(c))
           /\ <<c, part>> \in held => part \in ToSet(IfHeld(c, part))
    BY IfHeldFacts
  <2>4. "pool" \in Holds(c)
    BY <1>1
  <2> QED BY <2>1, <2>2, <2>3, <2>4
<1>2. CASE c \in ToSet(Stores) /\ c # "model_client" /\ c # "telegram_adapter" /\ Holds(c) = {"connection"}
  <2>1. StopCalls(c) = IfHeld(c, "connection")
    BY <1>2 DEF StopCalls
  <2>2. \A part \in Holds(c) : part = "connection"
    BY <1>2
  <2>3. \A part \in Holds(c) :
           /\ IfHeld(c, part) \in Seq(Holds(c))
           /\ <<c, part>> \in held => part \in ToSet(IfHeld(c, part))
    BY IfHeldFacts
  <2>4. "connection" \in Holds(c)
    BY <1>2
  <2> QED BY <2>1, <2>2, <2>3, <2>4
<1>3. CASE c = "telegram_adapter" /\ Holds(c) = {"resources", "application", "polling"}
  <2> DEFINE S == Holds(c)
             polling == IfHeld(c, "polling")
             application == IfHeld(c, "application")
             resources == <<"resources">>
  <2>1. StopCalls(c) = polling \o application \o resources
    BY <1>3 DEF StopCalls
  <2>2. /\ polling \in Seq(S) /\ application \in Seq(S)
        /\ <<c, "polling">> \in held => "polling" \in ToSet(polling)
        /\ <<c, "application">> \in held => "application" \in ToSet(application)
    BY <1>3, IfHeldFacts
  <2>3. resources \in Seq(S) /\ "resources" \in ToSet(resources)
    <3>1. ASSUME NEW T, NEW r \in T PROVE <<r>> \in Seq(T) /\ r \in ToSet(<<r>>)
      <4>1. <<r>> \in Seq(T) /\ DOMAIN <<r>> = {1} /\ <<r>>[1] = r
        OBVIOUS
      <4> QED BY <4>1 DEF ToSet
    <3>2. "resources" \in S
      BY <1>3
    <3> QED BY <3>1, <3>2
  <2> HIDE DEF S, polling, application, resources
  <2> DEFINE both == polling \o application
  <2>4. both \in Seq(S) /\ ToSet(both) = ToSet(polling) \cup ToSet(application)
    BY <2>2, ToSetConcat, ConcatProperties
  <2>8. StopCalls(c) = both \o resources
    BY <2>1
  <2> HIDE DEF both
  <2>5. /\ both \o resources \in Seq(S)
        /\ ToSet(both \o resources) = ToSet(both) \cup ToSet(resources)
    BY <2>3, <2>4, ToSetConcat, ConcatProperties
  <2>6. StopCalls(c) \in Seq(S)
    BY <2>8, <2>5
  <2>7. ASSUME NEW part \in S, <<c, part>> \in held PROVE part \in ToSet(StopCalls(c))
    <3>1. part = "resources" \/ part = "application" \/ part = "polling"
      BY <1>3 DEF S
    <3> QED BY <2>8, <2>2, <2>3, <2>4, <2>5, <2>7, <3>1
  <2> QED BY <2>6, <2>7 DEF S
<1> QED BY <1>1, <1>2, <1>3, PartsOfComponents

\* The parts that are held, component by component.
LEMMA HeldParts ==
    /\ \A h \in Held : h[1] \in ToSet(Components) /\ h[2] \in Holds(h[1]) /\ h = <<h[1], h[2]>>
    /\ \A c \in ToSet(Components) : \A part \in Holds(c) : <<c, part>> \in Held
BY DEF Held

\* What is then to be released.
LEMMA ReleasingOf ==
    ASSUME NEW c \in ToSet(Components),
           NEW parts, parts = [i \in DOMAIN StopCalls(c) |-> <<c, StopCalls(c)[i]>>]
    PROVE  /\ parts \in Seq(Held)
           /\ \A r \in ToSet(parts) : r[1] = c
           /\ \A part \in Holds(c) : <<c, part>> \in held => <<c, part>> \in ToSet(parts)
<1> DEFINE calls == StopCalls(c)
<1>1. calls \in Seq(Holds(c)) /\ \A part \in Holds(c) : <<c, part>> \in held => part \in ToSet(calls)
  BY StopCallsCover
<1> HIDE DEF calls
<1>2. DOMAIN calls = 1..Len(calls) /\ Len(calls) \in Nat /\ \A i \in 1..Len(calls) : calls[i] \in Holds(c)
  BY <1>1
<1>3. DOMAIN parts = 1..Len(calls) /\ \A i \in 1..Len(calls) : parts[i] = <<c, calls[i]>>
  BY <1>2 DEF calls
<1>4. \A i \in 1..Len(calls) : parts[i] \in Held /\ parts[i][1] = c
  BY <1>2, <1>3, HeldParts
<1>5. parts = [i \in 1..Len(calls) |-> parts[i]]
  BY <1>2, <1>3 DEF calls
<1>6. parts \in Seq(Held)
  <2> DEFINE n == Len(calls)
             H == Held
  <2>1. n \in Nat /\ parts \in [1..n -> H]
    BY <1>2, <1>4, <1>5
  <2> HIDE DEF n, H
  <2>2. parts \in Seq(H)
    BY <2>1
  <2> QED BY <2>2 DEF H
<1>7. \A r \in ToSet(parts) : r[1] = c
  BY <1>3, <1>4 DEF ToSet
<1>8. ASSUME NEW part \in Holds(c), <<c, part>> \in held
      PROVE  <<c, part>> \in ToSet(parts)
  <2>1. PICK i \in 1..Len(calls) : calls[i] = part
    BY <1>1, <1>2, <1>8 DEF ToSet
  <2> QED BY <1>3, <2>1 DEF ToSet
<1> QED BY <1>6, <1>7, <1>8

LEMMA HoldInit == ProcessInit => HoldInv
<1> SUFFICES ASSUME ProcessInit PROVE HoldInv
  OBVIOUS
<1>1. /\ held = {<<"model_client", "pool">>} /\ releasing = <<>> /\ stopped = <<>>
      /\ call = 0 /\ started = <<"model_client">>
  BY DEF ProcessInit
<1>2. ToSet(releasing) = {} /\ ToSet(stopped) = {}
  BY <1>1, ToSetEmpty
<1>3. "model_client" \in ToSet(Components)
  <2>1. 1 \in 1..Len(Components)
    BY ComponentCount
  <2> QED BY <2>1, ComponentsBetween, ComponentNames
<1>4. Holds("model_client") = {"pool"}
  BY <1>3, StoreNames, PartsOfComponents
<1>5. held \subseteq Held
  BY <1>1, <1>3, <1>4, HeldParts
<1>6. ToSet(started) = {"model_client"}
  <2>1. \A name : DOMAIN <<name>> = {1} /\ <<name>>[1] = name
    OBVIOUS
  <2>2. \A name : ToSet(<<name>>) = {name}
    BY <2>1 DEF ToSet
  <2> QED BY <1>1, <2>2
<1>7. \A c \in ToSet(started) : \A part \in Holds(c) : <<c, part>> \in held
  BY <1>1, <1>4, <1>6
<1>8. \A k \in 1..call : FALSE
  <2>1. call = 0
    BY <1>1
  <2> QED BY <2>1
<1>9. releasing \in Seq(Held)
  <2>1. \A S : <<>> \in Seq(S)
    OBVIOUS
  <2> QED BY <1>1, <2>1
<1> QED BY <1>2, <1>5, <1>7, <1>8, <1>9 DEF HoldInv

\* What is held, step by step.
LEMMA HoldStep == ListInv /\ ListInv' /\ HoldInv /\ [ProcessNext]_process => HoldInv'
<1> SUFFICES ASSUME ListInv, ListInv', HoldInv, [ProcessNext]_process PROVE HoldInv'
  OBVIOUS
<1>0. /\ held \subseteq Held /\ releasing \in Seq(Held)
      /\ \A r \in ToSet(releasing) : r[1] \in ToSet(stopped)
      /\ \A c \in ToSet(started) \ ToSet(stopped) :
            \A part \in Holds(c) \ {"polling"} : <<c, part>> \in held
      /\ \A h \in held \ stuck : h[1] \in ToSet(stopped) => h \in ToSet(releasing)
  BY DEF HoldInv
<1>1. CASE CallReturns
  <2> DEFINE part == Parts(Opening)[call + 1]
  <2>1. /\ at = "starting" /\ UNCHANGED <<toStop, releasing, stuck, stopped>>
        /\ held' = IF part \in Holds(Opening) THEN held \cup {<<Opening, part>>} ELSE held
    BY <1>1 DEF CallReturns
  <2>2. /\ opening \in 1..Len(Components) /\ call \in Nat /\ call < Len(Parts(Opening))
        /\ stopped = <<>> /\ releasing = <<>>
    BY <2>1 DEF ListInv
  <2>3. Opening \in ToSet(Components)
    BY <2>2, ComponentNames DEF Opening
  <2>4. ToSet(stopped') = {} /\ ToSet(releasing') = {} /\ releasing' \in Seq(Held)
    BY <2>1, <2>2, ToSetEmpty
  <2>5. held' \subseteq Held /\ held \subseteq held'
    BY <1>0, <2>1, <2>3, HeldParts
  <2>6. \A k \in 1..(call + 1) :
           Parts(Opening)[k] \in Holds(Opening) => <<Opening, Parts(Opening)[k]>> \in held'
    <3> SUFFICES ASSUME NEW k \in 1..(call + 1), Parts(Opening)[k] \in Holds(Opening)
                 PROVE  <<Opening, Parts(Opening)[k]>> \in held'
      OBVIOUS
    <3>1. k \in 1..call \/ k = call + 1
      BY <2>2
    <3>2. CASE k \in 1..call
      BY <2>1, <2>5, <3>2 DEF HoldInv
    <3>3. CASE k = call + 1
      BY <2>1, <3>3
    <3> QED BY <3>1, <3>2, <3>3
  <2>7. CASE call + 1 = Len(Parts(Opening))
    <3>1. started' = Append(started, Opening) /\ call' = 0
      BY <1>1, <2>7 DEF CallReturns
    <3>2. ToSet(started') = ToSet(started) \cup {Opening}
      <4> DEFINE S == ToSet(Components)
      <4>1. started \in Seq(S) /\ Opening \in S
        BY <2>3 DEF ListInv
      <4> HIDE DEF S
      <4> QED BY <3>1, <4>1, ToSetAppend
    <3>3. ASSUME NEW p \in Holds(Opening) PROVE <<Opening, p>> \in held'
      <4>1. \E k \in 1..Len(Parts(Opening)) : Parts(Opening)[k] = p
        <5>1. /\ Len(<<"pool">>) = 1 /\ <<"pool">>[1] = "pool"
              /\ Len(<<"connection", "schema">>) = 2 /\ <<"connection", "schema">>[1] = "connection"
          OBVIOUS
        <5>2. /\ Len(<<"resources", "application", "polling">>) = 3
              /\ <<"resources", "application", "polling">>[1] = "resources"
              /\ <<"resources", "application", "polling">>[2] = "application"
              /\ <<"resources", "application", "polling">>[3] = "polling"
          OBVIOUS
        <5>3. 1 \in 1..1 /\ 1 \in 1..2 /\ 1 \in 1..3 /\ 2 \in 1..3 /\ 3 \in 1..3
          OBVIOUS
        <5> QED BY <2>3, <3>3, <5>1, <5>2, <5>3, PartsOfComponents
      <4> QED BY <2>6, <2>7, <3>3, <4>1
    <3>4. \A k \in 1..call' : FALSE
      BY <3>1
    <3>5. \A c \in ToSet(started') \ ToSet(stopped') :
             \A p \in Holds(c) \ {"polling"} : <<c, p>> \in held'
      BY <1>0, <2>2, <2>4, <2>5, <3>2, <3>3, ToSetEmpty
    <3> QED BY <2>4, <2>5, <3>4, <3>5 DEF HoldInv
  <2>8. CASE call + 1 # Len(Parts(Opening))
    <3>1. started' = started /\ call' = call + 1 /\ Opening' = Opening
      BY <1>1, <2>8 DEF CallReturns, Opening
    <3>2. \A c \in ToSet(started') \ ToSet(stopped') :
             \A p \in Holds(c) \ {"polling"} : <<c, p>> \in held'
      BY <1>0, <2>2, <2>4, <2>5, <3>1, ToSetEmpty
    <3> QED BY <2>4, <2>5, <2>6, <3>1, <3>2 DEF HoldInv
  <2> QED BY <2>7, <2>8
<1>2. CASE CallRaises \/ Terminate \/ Gone
  <2>1. UNCHANGED <<opening, call, held, started, releasing, stuck, stopped>> /\ at' # "starting"
    BY <1>2 DEF CallRaises, Terminate, Gone
  <2> QED BY <1>0, <2>1 DEF HoldInv
<1>3. CASE GoesDeaf
  <2>1. /\ held' = held \ {<<"telegram_adapter", "polling">>} /\ at = "serving"
        /\ UNCHANGED <<at, opening, call, started, toStop, releasing, stuck, stopped>>
    BY <1>3 DEF GoesDeaf
  <2>2. \A c, p : p # "polling" => <<c, p>> # <<"telegram_adapter", "polling">>
    OBVIOUS
  <2>3. \A c \in ToSet(started') \ ToSet(stopped') :
           \A p \in Holds(c) \ {"polling"} : <<c, p>> \in held'
    BY <1>0, <2>1, <2>2
  <2> QED BY <1>0, <2>1, <2>3 DEF HoldInv
<1>4. CASE Stop
  <2> DEFINE c == Last(toStop)
  <2>1. /\ at = "stopping" /\ releasing = <<>>
        /\ releasing' = [i \in DOMAIN StopCalls(c) |-> <<c, StopCalls(c)[i]>>]
        /\ stopped' = Append(stopped, c)
        /\ UNCHANGED <<at, opening, call, held, started, stuck>>
    BY <1>4 DEF Stop
  <2>2. c \in ToSet(Components) /\ stopped \in Seq(ToSet(Components))
    <3> DEFINE S == ToSet(Components)
    <3>1. toStop \in Seq(S) /\ toStop # <<>> /\ stopped \in Seq(S)
      BY <1>4 DEF Stop, ListInv
    <3> HIDE DEF S
    <3>2. c = toStop[Len(toStop)] /\ Len(toStop) \in Nat /\ Len(toStop) >= 1
      BY <3>1, FrontFacts
    <3>3. toStop[Len(toStop)] \in S
      BY <3>1, <3>2
    <3> QED BY <3>1, <3>2, <3>3 DEF S
  <2> HIDE DEF c
  <2>3. ToSet(stopped') = ToSet(stopped) \cup {c}
    BY <2>1, <2>2, ToSetAppend
  <2>4. /\ releasing' \in Seq(Held)
        /\ \A r \in ToSet(releasing') : r[1] = c
        /\ \A part \in Holds(c) : <<c, part>> \in held => <<c, part>> \in ToSet(releasing')
    BY <2>1, <2>2, ReleasingOf
  <2>5. ASSUME NEW h \in held' \ stuck', h[1] \in ToSet(stopped')
        PROVE  h \in ToSet(releasing')
    <3>1. h \in held \ stuck /\ h \in Held
      BY <1>0, <2>1
    <3>2. h[1] \notin ToSet(stopped)
      BY <1>0, <2>1, <3>1, ToSetEmpty
    <3>3. h[1] = c
      BY <2>3, <2>5, <3>2
    <3> QED BY <2>4, <3>1, <3>3, HeldParts
  <2> QED BY <1>0, <2>1, <2>3, <2>4, <2>5 DEF HoldInv
<1>5. CASE Release
  <2>1. /\ releasing # <<>> /\ releasing' = Tail(releasing)
        /\ \/ held' = held \ {Head(releasing)} /\ UNCHANGED stuck
           \/ stuck' = stuck \cup {Head(releasing)} /\ UNCHANGED held
        /\ UNCHANGED <<at, opening, call, started, toStop, stopped>>
    BY <1>5 DEF Release
  <2>2. /\ Head(releasing) \in ToSet(releasing) /\ Tail(releasing) \in Seq(Held)
        /\ \A x \in ToSet(releasing) : x = Head(releasing) \/ x \in ToSet(Tail(releasing))
        /\ ToSet(Tail(releasing)) \subseteq ToSet(releasing)
    <3> DEFINE S == Held
    <3>1. releasing \in Seq(S)
      BY <1>0
    <3> HIDE DEF S
    <3>2. /\ Head(releasing) \in ToSet(releasing) /\ Tail(releasing) \in Seq(S)
          /\ \A x \in ToSet(releasing) : x = Head(releasing) \/ x \in ToSet(Tail(releasing))
          /\ ToSet(Tail(releasing)) \subseteq ToSet(releasing)
      BY <2>1, <3>1, ToSetTail
    <3> QED BY <3>2 DEF S
  <2>3. Head(releasing)[1] \in ToSet(stopped)
    BY <1>0, <2>2
  <2>4. \A c \in ToSet(started) \ ToSet(stopped) :
           \A p \in Holds(c) \ {"polling"} : <<c, p>> \in held'
    <3>1. \A c \in ToSet(started) \ ToSet(stopped) : \A p : <<c, p>> # Head(releasing)
      BY <2>3
    <3> QED BY <1>0, <2>1, <3>1
  <2>5. at' # "starting"
    BY <2>1 DEF ListInv
  <2>6. \A h \in held' \ stuck' : h[1] \in ToSet(stopped') => h \in ToSet(releasing')
    BY <1>0, <2>1, <2>2
  <2>7. held' \subseteq Held /\ \A r \in ToSet(releasing') : r[1] \in ToSet(stopped')
    BY <1>0, <2>1, <2>2
  <2> QED BY <2>1, <2>2, <2>4, <2>5, <2>6, <2>7 DEF HoldInv
<1>6. CASE UNCHANGED process
  BY <1>6 DEF process, HoldInv, Opening
<1> QED BY <1>1, <1>2, <1>3, <1>4, <1>5, <1>6 DEF ProcessNext

\* The adapter is the last of the components: once it is on the list, they all are.
LEMMA AdapterLast ==
    ASSUME ListInv, "telegram_adapter" \in ToSet(started)
    PROVE  opening = Len(Components) + 1 /\ ToSet(started) = ToSet(Components)
<1> DEFINE N == Len(Components)
<1>1. PICK j \in 1..(opening - 1) : Components[j] = "telegram_adapter"
  BY StartedSet
<1>2. opening \in 2..(N + 1)
  BY DEF ListInv
<1>3. N \in Nat /\ N >= 2
  BY ComponentCount
<1>4. j = N
  <2>1. j \in 1..N /\ N \in 1..N
    <3> HIDE DEF N
    <3> QED BY <1>2, <1>3
  <2>2. Components[N] = "telegram_adapter"
    BY ComponentCount, ComponentsBetween
  <2> QED BY <1>1, <2>1, <2>2, ComponentsDiffer
<1>5. opening = N + 1 /\ opening - 1 = N
  <2> HIDE DEF N
  <2> QED BY <1>2, <1>3, <1>4
<1> QED BY <1>5, StartedSet, ComponentNames DEF ToSet

\* The order of the way down, step by step.
LEMMA OrderStep ==
    ListInv /\ ListInv' /\ HoldInv /\ OrderInv /\ [ProcessNext]_process => OrderInv'
<1> SUFFICES ASSUME ListInv, ListInv', HoldInv, OrderInv, [ProcessNext]_process,
                    "telegram_adapter" \in ToSet(started)', Application \in held' \ stuck'
             PROVE  ToSet(stopped)' \subseteq {"telegram_adapter"}
  BY DEF OrderInv, Application
<1>1. CASE CallReturns
  <2>1. stopped' = <<>>
    BY <1>1 DEF CallReturns, ListInv
  <2> QED BY <2>1, ToSetEmpty
<1>2. CASE CallRaises \/ Terminate \/ Gone \/ GoesDeaf \/ Release \/ UNCHANGED process
  <2>1. /\ UNCHANGED <<started, stopped>>
        /\ \A h \in held' \ stuck' : h \in held \ stuck
    BY <1>2 DEF CallRaises, Terminate, Gone, GoesDeaf, Release, process
  <2> QED BY <2>1 DEF OrderInv
<1>3. CASE Stop
  <2> DEFINE c == Last(toStop)
             k == Len(toStop)
             N == Len(Components)
  <2>1. /\ at = "stopping" /\ toStop # <<>> /\ releasing = <<>>
        /\ stopped' = Append(stopped, c)
        /\ UNCHANGED <<opening, held, started, stuck>>
    BY <1>3 DEF Stop
  <2>2. /\ toStop \in Seq(ToSet(Components)) /\ stopped \in Seq(ToSet(Components))
        /\ k < opening /\ \A i \in 1..k : toStop[i] = Components[i]
    BY DEF ListInv
  <2>3. opening = N + 1 /\ Application \in held \ stuck /\ "telegram_adapter" \in ToSet(started)
    BY <2>1, AdapterLast
  <2>4. k \in 1..N /\ c = Components[k]
    <3>1. k \in Nat /\ k >= 1
      BY <2>1, <2>2, FrontFacts
    <3>2. k \in 1..N /\ k \in 1..k
      <4>1. N \in Nat /\ k < N + 1
        BY <2>2, <2>3, ComponentCount
      <4> HIDE DEF N, k
      <4> QED BY <3>1, <4>1
    <3>3. c = toStop[k]
      BY <2>1, <2>2, FrontFacts
    <3> QED BY <2>2, <3>2, <3>3
  <2>5. ToSet(stopped') = ToSet(stopped) \cup {c}
    <3>1. c \in ToSet(Components)
      BY <2>4, ComponentNames
    <3> QED BY <2>1, <2>2, <3>1, ToSetAppend
  <2>6. ToSet(stopped) \subseteq {"telegram_adapter"}
    BY <2>3 DEF OrderInv
  <2>7. "telegram_adapter" \notin ToSet(stopped)
    <3>1. Application \notin ToSet(releasing) /\ Application[1] = "telegram_adapter"
      BY <2>1, ToSetEmpty DEF Application
    <3> QED BY <2>3, <3>1 DEF HoldInv
  <2>8. Components[N] = "telegram_adapter"
    BY ComponentCount, ComponentsBetween
  <2>9. ~(N \in (k + 1)..(opening - 1))
    BY <2>1, <2>7, <2>8, StoppedSet
  <2>10. k = N
    <3>1. opening = N + 1 /\ N \in Nat /\ k \in 1..N
      BY <2>3, <2>4, ComponentCount
    <3> HIDE DEF N, k
    <3> QED BY <2>9, <3>1
  <2> QED BY <2>4, <2>5, <2>6, <2>8, <2>10
<1> QED BY <1>1, <1>2, <1>3 DEF ProcessNext

-----------------------------------------------------------------------------
(* The specification.                                                      *)

ServiceInv == ListInv /\ HoldInv /\ OrderInv /\ TurnInv

LEMMA ServiceInit == Init => ServiceInv
<1> SUFFICES ASSUME Init PROVE ServiceInv
  OBVIOUS
<1>1. ListInv /\ HoldInv
  BY ListInit, HoldInit DEF Init
<1>2. OrderInv
  <2>1. ToSet(stopped) = {}
    BY ToSetEmpty DEF Init, ProcessInit
  <2> QED BY <2>1 DEF OrderInv
<1>3. TurnInv
  BY DEF Init, TurnInv
<1> QED BY <1>1, <1>2, <1>3 DEF ServiceInv

LEMMA ServiceStep == ServiceInv /\ [Next]_vars => ServiceInv'
<1> SUFFICES ASSUME ServiceInv, [Next]_vars PROVE ServiceInv'
  OBVIOUS
<1>1. ListInv /\ HoldInv /\ OrderInv /\ TurnInv
  BY DEF ServiceInv
<1>2. [ProcessNext]_process
  BY DEF Next, Begin, Consult, File, Filed, Proceed, vars
<1>3. ListInv'
  BY <1>1, <1>2, ListStep
<1>4. HoldInv' /\ OrderInv'
  BY <1>1, <1>2, <1>3, HoldStep, OrderStep
<1>5. TurnInv'
  <2>1. CASE Proceed
    <3>1. /\ UNCHANGED turn
          /\ Application \in held \ held' => turn = "idle"
      BY <2>1 DEF Proceed, Application
    <3>2. stuck \subseteq stuck' /\ ToSet(started) \subseteq ToSet(started')
      <4>1. CASE CallReturns
        <5>1. stuck' = stuck
          BY <4>1 DEF CallReturns
        <5>2. started' = started \/ started' = Append(started, Opening)
          BY <4>1 DEF CallReturns
        <5>3. Opening \in ToSet(Components) /\ started \in Seq(ToSet(Components))
          <6>1. opening \in 1..Len(Components)
            BY <1>1, <4>1 DEF CallReturns, ListInv
          <6> QED BY <1>1, <6>1, ComponentNames DEF Opening, ListInv
        <5>4. ToSet(Append(started, Opening)) = ToSet(started) \cup {Opening}
          BY <5>3, ToSetAppend
        <5> QED BY <5>1, <5>2, <5>4
      <4>2. CASE ~CallReturns
        BY <2>1, <4>2 DEF Proceed, ProcessNext, CallRaises, Terminate, GoesDeaf, Stop, Release, Gone
      <4> QED BY <4>1, <4>2
    <3> QED BY <1>1, <3>1, <3>2 DEF TurnInv, Application
  <2>2. CASE Begin
    BY <1>1, <2>2 DEF Begin, process, TurnInv, Application
  <2>3. CASE Consult \/ File \/ Filed
    BY <1>1, <2>3 DEF Consult, File, Filed, process, TurnInv, Application
  <2>4. CASE UNCHANGED vars
    BY <1>1, <2>4 DEF vars, process, TurnInv, Application
  <2> QED BY <2>1, <2>2, <2>3, <2>4 DEF Next
<1> QED BY <1>3, <1>4, <1>5 DEF ServiceInv

\* The list, what is held and the order of the way down, in every reachable
\* state of the service.
THEOREM ServiceInvariant == Spec => []ServiceInv
<1> QED BY ServiceInit, ServiceStep, PTL DEF Spec

\* However many stores there are: once the process is gone, everything it had
\* started was asked to stop, and what is left of it in hand is what would not
\* be released (shut_down() of main.py).
THEOREM StrandsNobody == Spec => []NobodyIsStranded
<1>1. ServiceInv => NobodyIsStranded
  <2> SUFFICES ASSUME ServiceInv, at = "gone"
               PROVE  /\ ToSet(stopped) = ToSet(started)
                      /\ \A h \in held \ stuck : h[1] \notin ToSet(started)
    BY DEF NobodyIsStranded
  <2>1. ListInv /\ HoldInv
    BY DEF ServiceInv
  <2>2. toStop = <<>> /\ releasing = <<>>
    BY <2>1 DEF ListInv
  <2>3. Len(toStop) + 1 = 1
    BY <2>2
  <2>4. ToSet(stopped) = ToSet(started)
    BY <2>1, <2>3, StartedSet, StoppedSet
  <2> QED BY <2>1, <2>2, <2>4, ToSetEmpty DEF HoldInv
<1> QED BY <1>1, ServiceInvariant, PTL

\* Whoever uses a component is asked to stop before it is: the way down goes
\* through the list from its end (the reversed() of shut_down()).
THEOREM StopsUsersFirst == Spec => []UsersStopFirst
<1>1. ServiceInv => UsersStopFirst
  <2> SUFFICES ASSUME ServiceInv, NEW i \in DOMAIN started, NEW j \in DOMAIN started,
                      i < j, started[i] \in ToSet(stopped)
               PROVE  started[j] \in ToSet(stopped)
    BY DEF UsersStopFirst
  <2>1. ListInv
    BY DEF ServiceInv
  <2>2. /\ DOMAIN started = 1..(opening - 1)
        /\ \A n \in 1..(opening - 1) : started[n] = Components[n]
        /\ opening \in 2..(Len(Components) + 1) /\ Len(toStop) \in Nat
    BY <2>1 DEF ListInv
  <2>3. ToSet(stopped) = {Components[n] : n \in (Len(toStop) + 1)..(opening - 1)}
    BY <2>1, StoppedSet
  <2>4. PICK n \in (Len(toStop) + 1)..(opening - 1) : Components[i] = Components[n]
    BY <2>2, <2>3
  <2>5. i \in 1..Len(Components) /\ n \in 1..Len(Components)
    BY <2>2, ComponentCount
  <2>6. i = n
    BY <2>4, <2>5, ComponentsDiffer
  <2>7. j \in (Len(toStop) + 1)..(opening - 1)
    BY <2>2, <2>6
  <2> QED BY <2>2, <2>3, <2>7
<1> QED BY <1>1, ServiceInvariant, PTL

\* While a turn is under way, the client and every store it uses are there for
\* it, unless the application itself would not stop: however many stores there
\* are and whatever raises (lifespan of main.py, stop() of the adapter).
THEOREM TurnsAreNotOutlived == Spec => []NoTurnOutlivesWhatItUses
<1>1. ServiceInv => NoTurnOutlivesWhatItUses
  <2> SUFFICES ASSUME ServiceInv, turn # "idle", Application \notin stuck
               PROVE  {Pool} \cup Connections \subseteq held
    BY DEF NoTurnOutlivesWhatItUses
  <2>1. ListInv /\ HoldInv /\ OrderInv /\ TurnInv
    BY DEF ServiceInv
  <2>2. Application \in held \ stuck /\ "telegram_adapter" \in ToSet(started)
    BY <2>1 DEF TurnInv
  <2>3. ToSet(stopped) \subseteq {"telegram_adapter"} /\ ToSet(started) = ToSet(Components)
    BY <2>1, <2>2, AdapterLast DEF OrderInv
  <2>4. \A c \in ToSet(Components) : c # "telegram_adapter" =>
           \A part \in Holds(c) \ {"polling"} : <<c, part>> \in held
    BY <2>1, <2>3 DEF HoldInv
  <2>5. Pool \in held
    <3>1. "model_client" \in ToSet(Components)
      <4>1. 1 \in 1..Len(Components)
        BY ComponentCount
      <4> QED BY <4>1, ComponentsBetween, ComponentNames
    <3>2. Holds("model_client") = {"pool"}
      BY <3>1, StoreNames, PartsOfComponents
    <3> QED BY <2>4, <3>1, <3>2 DEF Pool
  <2>6. ASSUME NEW s \in ToSet(Stores) PROVE <<s, "connection">> \in held
    <3>1. PICK i \in 2..(Len(Components) - 1) : Components[i] = s
      BY ComponentPlaces
    <3>2. i \in 1..Len(Components)
      BY ComponentCount
    <3>3. s \in ToSet(Components) /\ s # "telegram_adapter" /\ s # "model_client"
      BY <3>1, <3>2, ComponentNames, StoreNames
    <3>4. Holds(s) = {"connection"}
      BY DEF Holds
    <3> QED BY <2>4, <3>3, <3>4
  <2> QED BY <2>5, <2>6 DEF Connections
<1> QED BY <1>1, ServiceInvariant, PTL

-----------------------------------------------------------------------------
(* The schedule of pauses.                                                 *)

\* Each pause is twice the one before it.
LEMMA BackoffDoubles ==
    /\ \A n \in 1..MaxAttempts : backoff_delay(n) \in Nat
    /\ \A n \in 1..MaxAttempts : n + 1 <= MaxAttempts => backoff_delay(n + 1) = 2 * backoff_delay(n)
<1> DEFINE f == CHOOSE g : g = [i \in 0..MaxAttempts |-> IF i = 0 THEN Backoff ELSE 2 * g[i - 1]]
<1>0. MaxAttempts \in Nat /\ MaxAttempts >= 1 /\ Backoff \in Nat
  BY ModelCallAssumption
<1>1. \E g : g = [i \in 0..MaxAttempts |-> IF i = 0 THEN Backoff ELSE 2 * g[i - 1]]
  <2> DEFINE step == [p \in (1..MaxAttempts) \X Nat |-> 2 * p[2]]
  <2>1. step \in [(1..MaxAttempts) \X Nat -> Nat]
    OBVIOUS
  <2> HIDE DEF step
  <2>2. PICK g : MadeStepwise(g, Nat, Backoff, MaxAttempts, step)
    BY <1>0, <2>1, PrimitiveRecursion
  <2> USE <2>2 DEF MadeStepwise
  <2>3. ASSUME NEW n \in 0..MaxAttempts
        PROVE  g[n] = IF n = 0 THEN Backoff ELSE 2 * g[n - 1]
    <3>1. CASE n = 0
      BY <3>1
    <3>2. CASE n # 0
      <4>1. n \in 1..MaxAttempts /\ n - 1 \in 0..MaxAttempts
        BY <1>0, <3>2
      <4>2. g[n - 1] \in Nat
        BY <4>1
      <4>3. step[<<n, g[n - 1]>>] = 2 * g[n - 1]
        BY <4>1, <4>2 DEF step
      <4> QED BY <3>2, <4>1, <4>3
    <3> QED BY <3>1, <3>2
  <2>4. g = [n \in 0..MaxAttempts |-> IF n = 0 THEN Backoff ELSE 2 * g[n - 1]]
    BY <2>3
  <2> QED BY <2>4
<1>2. f = [i \in 0..MaxAttempts |-> IF i = 0 THEN Backoff ELSE 2 * f[i - 1]]
  BY <1>1
<1>3. \A n : backoff_delay(n) = f[n - 1]
  BY DEF backoff_delay
<1> HIDE DEF f
<1>4. \A i \in Nat : i <= MaxAttempts => f[i] \in Nat
  <2> DEFINE S == {i \in Nat : i <= MaxAttempts => f[i] \in Nat}
  <2>1. 0 \in S
    BY <1>0, <1>2
  <2>2. \A n \in Nat : n \in S => n + 1 \in S
    <3> SUFFICES ASSUME NEW n \in Nat, n \in S, n + 1 <= MaxAttempts PROVE f[n + 1] \in Nat
      OBVIOUS
    <3>1. n + 1 \in 0..MaxAttempts /\ n + 1 # 0 /\ (n + 1) - 1 = n /\ n <= MaxAttempts
      BY <1>0
    <3>2. f[n + 1] = 2 * f[n]
      BY <1>2, <3>1
    <3> QED BY <3>1, <3>2
  <2> HIDE DEF S
  <2>3. \A n \in Nat : n \in S
    BY <2>1, <2>2, SetInduction
  <2> QED BY <2>3 DEF S
<1>5. ASSUME NEW n \in 1..MaxAttempts PROVE backoff_delay(n) \in Nat
  <2>1. n - 1 \in Nat /\ n - 1 <= MaxAttempts
    BY <1>0
  <2> QED BY <1>3, <1>4, <2>1
<1>6. ASSUME NEW n \in 1..MaxAttempts, n + 1 <= MaxAttempts
      PROVE  backoff_delay(n + 1) = 2 * backoff_delay(n)
  <2>1. (n + 1) - 1 = n /\ n \in 0..MaxAttempts /\ n # 0
    BY <1>0
  <2>2. f[n] = 2 * f[n - 1]
    BY <1>2, <2>1
  <2> QED BY <1>3, <2>1, <2>2
<1> QED BY <1>5, <1>6

\* The pauses still to come after attempt n add up to what the last delay
\* exceeds that of attempt n by.
LEMMA BackoffTelescopes == \A n \in 1..MaxAttempts : remaining_backoff(n) = Left(n)
<1> DEFINE f == CHOOSE g : g = [k \in 0..(MaxAttempts - 1) |->
                                   IF k = 0 THEN 0 ELSE g[k - 1] + backoff_delay(MaxAttempts - k)]
<1>0. MaxAttempts \in Nat /\ MaxAttempts >= 1 /\ MaxAttempts - 1 \in Nat
  BY ModelCallAssumption
<1>1. \E g : g = [k \in 0..(MaxAttempts - 1) |->
                     IF k = 0 THEN 0 ELSE g[k - 1] + backoff_delay(MaxAttempts - k)]
  <2> DEFINE step == [p \in (1..(MaxAttempts - 1)) \X Nat |-> p[2] + backoff_delay(MaxAttempts - p[1])]
  <2>1. step \in [(1..(MaxAttempts - 1)) \X Nat -> Nat]
    <3>1. ASSUME NEW k \in 1..(MaxAttempts - 1), NEW v \in Nat
          PROVE  v + backoff_delay(MaxAttempts - k) \in Nat
      <4>1. MaxAttempts - k \in 1..MaxAttempts
        BY <1>0
      <4>2. backoff_delay(MaxAttempts - k) \in Nat
        BY <4>1, BackoffDoubles
      <4> QED BY <4>2
    <3> QED BY <3>1
  <2> HIDE DEF step
  <2>2. PICK g : MadeStepwise(g, Nat, 0, MaxAttempts - 1, step)
    BY <1>0, <2>1, PrimitiveRecursion
  <2> USE <2>2 DEF MadeStepwise
  <2>3. ASSUME NEW n \in 0..(MaxAttempts - 1)
        PROVE  g[n] = IF n = 0 THEN 0 ELSE g[n - 1] + backoff_delay(MaxAttempts - n)
    <3>1. CASE n = 0
      BY <3>1
    <3>2. CASE n # 0
      <4>1. n \in 1..(MaxAttempts - 1) /\ n - 1 \in 0..(MaxAttempts - 1)
        BY <1>0, <3>2
      <4>2. g[n - 1] \in Nat
        BY <4>1
      <4>3. step[<<n, g[n - 1]>>] = g[n - 1] + backoff_delay(MaxAttempts - n)
        BY <4>1, <4>2 DEF step
      <4> QED BY <3>2, <4>1, <4>3
    <3> QED BY <3>1, <3>2
  <2>4. g = [n \in 0..(MaxAttempts - 1) |->
                IF n = 0 THEN 0 ELSE g[n - 1] + backoff_delay(MaxAttempts - n)]
    BY <2>3
  <2> QED BY <2>4
<1>2. f = [k \in 0..(MaxAttempts - 1) |->
              IF k = 0 THEN 0 ELSE f[k - 1] + backoff_delay(MaxAttempts - k)]
  BY <1>1
<1>3. \A n : remaining_backoff(n) = f[MaxAttempts - n]
  BY DEF remaining_backoff
<1> HIDE DEF f
<1>4. \A k \in Nat : k <= MaxAttempts - 1 =>
         f[k] = backoff_delay(MaxAttempts) - backoff_delay(MaxAttempts - k)
  <2> DEFINE S == {k \in Nat : k <= MaxAttempts - 1 =>
                       f[k] = backoff_delay(MaxAttempts) - backoff_delay(MaxAttempts - k)}
  <2>1. 0 \in S
    <3>1. f[0] = 0 /\ MaxAttempts - 0 = MaxAttempts /\ MaxAttempts \in 1..MaxAttempts
      BY <1>0, <1>2
    <3>2. backoff_delay(MaxAttempts) \in Nat
      BY <3>1, BackoffDoubles
    <3> QED BY <3>1, <3>2
  <2>2. \A k \in Nat : k \in S => k + 1 \in S
    <3> SUFFICES ASSUME NEW k \in Nat, k \in S, k + 1 <= MaxAttempts - 1
                 PROVE  f[k + 1] = backoff_delay(MaxAttempts) - backoff_delay(MaxAttempts - (k + 1))
      OBVIOUS
    <3> DEFINE n == MaxAttempts - (k + 1)
    <3>1. /\ k + 1 \in 0..(MaxAttempts - 1) /\ k + 1 # 0 /\ (k + 1) - 1 = k
          /\ n \in 1..MaxAttempts /\ n + 1 <= MaxAttempts /\ n + 1 = MaxAttempts - k
          /\ k <= MaxAttempts - 1 /\ MaxAttempts \in 1..MaxAttempts
      BY <1>0
    <3>2. f[k + 1] = f[k] + backoff_delay(n)
      BY <1>2, <3>1
    <3>3. f[k] = backoff_delay(MaxAttempts) - backoff_delay(MaxAttempts - k)
      BY <3>1
    <3>4. /\ backoff_delay(MaxAttempts - k) = 2 * backoff_delay(n)
          /\ backoff_delay(n) \in Nat /\ backoff_delay(MaxAttempts) \in Nat
      BY <3>1, BackoffDoubles
    <3> QED BY <3>2, <3>3, <3>4
  <2> HIDE DEF S
  <2>3. \A n \in Nat : n \in S
    BY <2>1, <2>2, SetInduction
  <2> QED BY <2>3 DEF S
<1>5. ASSUME NEW n \in 1..MaxAttempts
      PROVE  remaining_backoff(n) = backoff_delay(MaxAttempts) - backoff_delay(n)
  <2>1. MaxAttempts - n \in Nat /\ MaxAttempts - n <= MaxAttempts - 1 /\ MaxAttempts - (MaxAttempts - n) = n
    BY <1>0
  <2> QED BY <1>3, <1>4, <2>1
<1> QED BY <1>5 DEF Left

-----------------------------------------------------------------------------
(* The ladder.                                                             *)

\* While it pauses, the ladder remembers what the last call met; it pauses for
\* a rate limit that has not cleared, whose wait, when it was told one, is no
\* longer than the pauses to come; and it is left with a quota only by a limit
\* that outlasts them.
LadderInv ==
    /\ attempt \in 1..MaxAttempts
    /\ now \in Nat /\ clears \in Nat /\ callEnded \in Nat
    /\ ladder # "done" => outcome = "none"
    /\ ladder = "pause" => last_error = said
    /\ ladder = "pause" /\ said = "rate_limit" =>
          /\ clears > callEnded
          /\ advice = None \/ (advice = clears - callEnded /\ advice <= remaining_backoff(attempt))
    /\ outcome = "quota" => clears > callEnded + Left(attempt)

LEMMA LeftAtLast == \A n \in 1..MaxAttempts : Left(n) \in Int /\ (n = MaxAttempts => Left(n) = 0)
<1>1. MaxAttempts \in 1..MaxAttempts
  BY ModelCallAssumption
<1>2. \A n \in 1..MaxAttempts : backoff_delay(n) \in Nat
  BY BackoffDoubles
<1>3. backoff_delay(MaxAttempts) \in Nat
  BY <1>1, <1>2
<1> QED BY <1>2, <1>3 DEF Left

LEMMA LadderInit == CallInit => LadderInv
BY ModelCallAssumption DEF CallInit, LadderInv

LEMMA LadderAfresh == Afresh => LadderInv'
BY ModelCallAssumption DEF Afresh, LadderInv

LEMMA LadderStep == LadderInv /\ CallNext => LadderInv'
<1> SUFFICES ASSUME LadderInv, CallNext PROVE LadderInv'
  OBVIOUS
<1>0. /\ MaxAttempts \in Nat /\ Backoff \in Nat /\ CallTime \in Nat /\ LongestLimit \in Nat
      /\ attempt \in 1..MaxAttempts /\ now \in Nat /\ clears \in Nat /\ callEnded \in Nat
      /\ ladder # "done" => outcome = "none"
  BY ModelCallAssumption DEF LadderInv
<1>1. CASE Replies
  <2>1. PICK result \in {"response", "raised"} : Over(result)
    BY <1>1 DEF Replies
  <2>2. /\ ladder' = "done" /\ outcome' # "quota"
        /\ now' \in Nat /\ callEnded' = now' /\ UNCHANGED <<attempt, clears>>
    BY <1>0, <1>1, <2>1 DEF Replies, CallEnds, Over
  <2> QED BY <1>0, <2>2 DEF LadderInv
<1>2. ASSUME NEW what \in {"connection", "server"}, FailsTransiently(what) PROVE LadderInv'
  <2>1. /\ ladder' = "pause" /\ ladder = "call" /\ outcome' = outcome
        /\ last_error' = what /\ said' = what /\ what # "rate_limit"
        /\ now' \in Nat /\ callEnded' = now' /\ UNCHANGED <<attempt, clears>>
    BY <1>0, <1>2 DEF FailsTransiently, Fails, CallEnds
  <2> QED BY <1>0, <2>1 DEF LadderInv
<1>3. CASE RateLimited
  <2>1. /\ ladder = "call" /\ now' \in Nat /\ callEnded' = now' /\ said' = "rate_limit"
        /\ attempt' = attempt /\ outcome = "none"
    BY <1>0, <1>3 DEF RateLimited, CallEnds
  <2>2. clears' \in Nat /\ clears' > now'
    <3>1. clears' \in IF clears > now' THEN {clears} ELSE (now' + 1)..(now' + LongestLimit)
      BY <1>3 DEF RateLimited
    <3>2. CASE clears > now'
      BY <1>0, <3>1, <3>2
    <3>3. CASE ~(clears > now')
      <4>1. clears' \in (now' + 1)..(now' + LongestLimit)
        BY <3>1, <3>3
      <4>2. now' \in Nat /\ LongestLimit \in Nat
        BY <1>0, <2>1
      <4>3. \A n, l \in Nat : \A c \in (n + 1)..(n + l) : c \in Nat /\ c > n
        OBVIOUS
      <4> QED BY <4>1, <4>2, <4>3
    <3> QED BY <3>2, <3>3
  <2>3. advice' = None \/ advice' = clears' - callEnded'
    BY <1>3, <2>1 DEF RateLimited
  <2>4. CASE WorthWaiting(advice')
    <3>1. ladder' = "pause" /\ last_error' = "rate_limit" /\ outcome' = outcome
      BY <1>3, <2>4 DEF RateLimited
    <3>2. advice' = None \/ advice' <= remaining_backoff(attempt)
      BY <2>4 DEF WorthWaiting
    <3> QED BY <1>0, <2>1, <2>2, <2>3, <3>1, <3>2 DEF LadderInv
  <2>5. CASE ~WorthWaiting(advice')
    <3>1. ladder' = "done" /\ outcome' = "quota"
      BY <1>3, <2>5 DEF RateLimited, Over
    <3>2. advice' = clears' - callEnded' /\ ~(advice' <= remaining_backoff(attempt))
      BY <2>3, <2>5 DEF WorthWaiting
    <3>3. remaining_backoff(attempt) = Left(attempt) /\ Left(attempt) \in Int
      BY <1>0, BackoffTelescopes, LeftAtLast
    <3>4. clears' > callEnded' + Left(attempt)
      BY <2>1, <2>2, <3>2, <3>3
    <3>5. Left(attempt)' = Left(attempt)
      BY <2>1 DEF Left, backoff_delay
    <3> QED BY <1>0, <2>1, <2>2, <3>1, <3>4, <3>5 DEF LadderInv
  <2> QED BY <2>4, <2>5
<1>4. ASSUME NEW what, FailsPermanently(what) \/ Escapes PROVE LadderInv'
  <2>1. /\ ladder' = "done" /\ outcome' # "quota"
        /\ now' \in Nat /\ callEnded' = now' /\ UNCHANGED <<attempt, clears>>
    BY <1>0, <1>4 DEF FailsPermanently, Escapes, Fails, CallEnds, Over
  <2> QED BY <1>0, <2>1 DEF LadderInv
<1>5. CASE Pause
  <2>1. /\ ladder = "pause" /\ now' = now + pause_before_retry(attempt)
        /\ UNCHANGED <<last_error, clears, said, advice, callEnded>>
    BY <1>5 DEF Pause
  <2>2. now' \in Nat
    <3>1. backoff_delay(attempt) \in Nat
      BY <1>0, BackoffDoubles
    <3> QED BY <1>0, <2>1, <3>1 DEF pause_before_retry
  <2>3. CASE attempt < MaxAttempts
    <3>1. ladder' = "call" /\ attempt' = attempt + 1 /\ outcome' = outcome
      BY <1>5, <2>3 DEF Pause
    <3>2. attempt' \in 1..MaxAttempts
      BY <1>0, <2>3, <3>1
    <3> QED BY <1>0, <2>1, <2>2, <3>1, <3>2 DEF LadderInv
  <2>4. CASE ~(attempt < MaxAttempts)
    <3>1. ladder' = "done" /\ outcome' = Exhausted /\ attempt' = attempt
      BY <1>5, <2>4 DEF Pause, Over
    <3>2. attempt = MaxAttempts /\ Left(attempt) = 0
      BY <1>0, <2>4, LeftAtLast
    <3>3. ASSUME outcome' = "quota" PROVE clears' > callEnded' + Left(attempt)
      <4>1. said = "rate_limit"
        BY <2>1, <3>1, <3>3 DEF Exhausted, LadderInv
      <4>2. clears > callEnded
        BY <2>1, <4>1 DEF LadderInv
      <4> QED BY <1>0, <2>1, <3>2, <4>2
    <3>4. Left(attempt)' = Left(attempt)
      BY <3>1 DEF Left, backoff_delay
    <3> QED BY <1>0, <2>1, <2>2, <3>1, <3>3, <3>4 DEF LadderInv
  <2> QED BY <2>3, <2>4
<1> QED BY <1>1, <1>2, <1>3, <1>4, <1>5 DEF CallNext

LEMMA LadderSteps == LadderInv /\ [Next]_vars => LadderInv'
<1> SUFFICES ASSUME LadderInv, [Next]_vars PROVE LadderInv'
  OBVIOUS
<1>1. CallNext \/ Afresh \/ UNCHANGED callVars
  BY DEF Next, Begin, Consult, File, Filed, Proceed, vars
<1>2. CASE UNCHANGED callVars
  <2>1. UNCHANGED <<ladder, attempt, last_error, outcome, now, clears, said, advice, callEnded>>
    BY <1>2 DEF callVars
  <2> QED BY <2>1 DEF LadderInv, Left, remaining_backoff, backoff_delay
<1> QED BY <1>1, <1>2, LadderStep, LadderAfresh

THEOREM LadderInvariant == Spec => []LadderInv
<1>1. Init => LadderInv
  BY LadderInit DEF Init
<1> QED BY <1>1, LadderSteps, PTL DEF Spec

\* However many attempts and however long the first pause: a rate limit that the
\* schedule could have waited out is never refused (_check_rate_limit() of
\* core/llm.py, remaining_backoff() of core/retry.py).
THEOREM RefusesOnlyTheHopeless == Spec => []RefusedOnlyWhenHopeless
<1>1. LadderInv => RefusedOnlyWhenHopeless
  BY DEF LadderInv, RefusedOnlyWhenHopeless
<1> QED BY <1>1, LadderInvariant, PTL

\* And no attempt is spent on a limit the provider said would outlast them all.
THEOREM AttemptsAreNotFutile == Spec => NoFutileAttempt
<1>1. LadderInv /\ [Next]_vars =>
         [attempt' > attempt /\ said = "rate_limit" =>
             advice = None \/ clears <= callEnded + Left(attempt)]_callVars
  <2> SUFFICES ASSUME LadderInv, [Next]_vars, attempt' > attempt, said = "rate_limit", advice # None
               PROVE  clears <= callEnded + Left(attempt)
    OBVIOUS
  <2>0. MaxAttempts \in Nat /\ attempt \in 1..MaxAttempts /\ clears \in Nat /\ callEnded \in Nat
    BY ModelCallAssumption DEF LadderInv
  <2>1. CallNext \/ Afresh \/ UNCHANGED callVars
    BY DEF Next, Begin, Consult, File, Filed, Proceed, vars
  <2>2. attempt' # 1 /\ attempt' # attempt
    BY <2>0
  <2>3. Pause
    BY <2>1, <2>2 DEF Afresh, callVars, CallNext, Replies, FailsTransiently, RateLimited,
                      FailsPermanently, Escapes, Fails
  <2>4. advice = clears - callEnded /\ advice <= remaining_backoff(attempt)
    BY <2>3 DEF Pause, LadderInv
  <2>5. remaining_backoff(attempt) = Left(attempt) /\ Left(attempt) \in Int
    BY <2>0, BackoffTelescopes, LeftAtLast
  <2> QED BY <2>0, <2>4, <2>5
<1> QED BY <1>1, LadderInvariant, PTL DEF Spec, NoFutileAttempt
=============================================================================
