---------------------------- MODULE ProducerProofs ----------------------------
(***************************************************************************)
(* Turns are kept and none is slept through, for every drawing of numbers, *)
(* every interval and every interleaving of the producing thread with the  *)
(* chain; the votes that decide who has a turn agree, whoever looks, and   *)
(* take effect; and what is packed in a turn stands the checks of other    *)
(* nodes.                                                                  *)
(*                                                                         *)
(* First comes ShuffleDelegates: a list stays a list of the same           *)
(* delegates, none twice.  The fold it is made of is the choice of a       *)
(* function that satisfies a recursive equation; that there is one is      *)
(* shown set by set, by a least counterexample.                            *)
(***************************************************************************)
EXTENDS Producer, Delegates, Packing, SumTheorems

-----------------------------------------------------------------------------
(* The later of two times. *)
LEMMA MaxOfTwo ==
  ASSUME NEW a \in Int, NEW b \in Int
  PROVE  Max({a, b}) = IF a >= b THEN a ELSE b
  BY DEF Max

(* Times an interval apart are in different intervals. *)
LEMMA Apart ==
  ASSUME NEW I \in Nat \ {0}, NEW a \in Nat, NEW b \in Nat, b - a >= I
  PROVE  a \div I # b \div I
  OBVIOUS

-----------------------------------------------------------------------------
(* One round of the loop of ShuffleDelegates. *)
ShuffleStep(drawn, n, s, i) ==
  IF i % 5 = 0 THEN s ELSE Swapped(s, i, (drawn[i] % n) + 1)

(* g is the fold over the places seq, on every set of them. *)
Shuffles(list, drawn, n, seq, g) ==
  g = [S \in SUBSET DOMAIN seq |->
         IF S = {} THEN list
         ELSE ShuffleStep(drawn, n, g[S \ {Max(S)}], seq[Max(S)])]

Places(n) == [i \in 1 .. n |-> i]

(* The list after the drawn swaps. *)
Shuffled(list, drawn) ==
  (CHOOSE g : Shuffles(list, drawn, Len(list), Places(Len(list)), g))[DOMAIN Places(Len(list))]

(* ShuffleDelegates depends on the height and the time by its draws only. *)
LEMMA ShuffleByDraws ==
  ASSUME NEW list, NEW h, NEW t
  PROVE  ShuffleDelegates(list, h, t)
           = Shuffled(list, Draw[Round(GetShuffleOriginSeed(h, t), Len(list))])
  BY DEF Shuffled, Places, Shuffles, ShuffleStep, ShuffleDelegates, FoldLeft, MapThenFoldSet

(* The fold is defined on the sets of the first k places. *)
ShufflesTo(list, drawn, n, k, g) ==
  g = [S \in SUBSET (1 .. k) |->
         IF S = {} THEN list ELSE ShuffleStep(drawn, n, g[S \ {Max(S)}], Max(S))]

(* From k places to one more. *)
LEMMA OnePlaceMore ==
  ASSUME NEW list, NEW drawn, NEW n, NEW k \in Nat,
         NEW g, ShufflesTo(list, drawn, n, k, g)
  PROVE  \E f : ShufflesTo(list, drawn, n, k + 1, f)
  <1> DEFINE f == [S \in SUBSET (1 .. k + 1) |->
                     IF k + 1 \in S THEN ShuffleStep(drawn, n, g[S \ {k + 1}], k + 1) ELSE g[S]]
             r == [S \in SUBSET (1 .. k + 1) |->
                     IF S = {} THEN list ELSE ShuffleStep(drawn, n, f[S \ {Max(S)}], Max(S))]
  <1>1. ASSUME NEW S \in SUBSET (1 .. k + 1) PROVE f[S] = r[S]
    <2>1. CASE k + 1 \in S
      <3>1. Max(S) = k + 1
        BY <2>1, MaxOfInterval
      <3>2. S \ {k + 1} \in SUBSET (1 .. k + 1) /\ k + 1 \notin S \ {k + 1}
        OBVIOUS
      <3>3. f[S \ {k + 1}] = g[S \ {k + 1}]
        BY <3>2
      <3>4. S # {}
        BY <2>1
      <3> QED BY <2>1, <3>1, <3>3, <3>4
    <2>2. CASE k + 1 \notin S
      <3>1. S \in SUBSET (1 .. k)
        BY <2>2
      <3>2. g[S] = IF S = {} THEN list ELSE ShuffleStep(drawn, n, g[S \ {Max(S)}], Max(S))
        BY <3>1 DEF ShufflesTo
      <3>3. f[S \ {Max(S)}] = g[S \ {Max(S)}]
        BY <2>2
      <3>4. f[S] = g[S]
        BY <2>2
      <3> QED BY <3>2, <3>3, <3>4
    <2> QED BY <2>1, <2>2
  <1>2. f = r
    BY <1>1
  <1>3. ShufflesTo(list, drawn, n, k + 1, f)
    BY <1>2 DEF ShufflesTo
  <1> QED BY <1>3

(* So there is one for any number of places. *)
LEMMA ShuffleExists ==
  ASSUME NEW list, NEW drawn, NEW n, NEW k \in Nat
  PROVE  \E g : ShufflesTo(list, drawn, n, k, g)
  <1> DEFINE Failing == {j \in Nat : ~\E g : ShufflesTo(list, drawn, n, j, g)}
  <1> SUFFICES ASSUME Failing # {} PROVE FALSE
    OBVIOUS
  <1>1. PICK j \in Failing : \A m \in Failing : j <= m
    BY LeastNatural
  <1>2. CASE j = 0
    <2> DEFINE g == [S \in SUBSET (1 .. 0) |-> list]
    <2>1. \A S \in SUBSET (1 .. 0) : S = {}
      OBVIOUS
    <2>2. g = [S \in SUBSET (1 .. 0) |->
                 IF S = {} THEN list ELSE ShuffleStep(drawn, n, g[S \ {Max(S)}], Max(S))]
      BY <2>1
    <2>3. ShufflesTo(list, drawn, n, 0, g)
      BY <2>2 DEF ShufflesTo
    <2> QED BY <1>2, <2>3
  <1>3. CASE j # 0
    <2>1. j - 1 \in Nat /\ j - 1 \notin Failing
      BY <1>1, <1>3
    <2>2. PICK g : ShufflesTo(list, drawn, n, j - 1, g)
      BY <2>1
    <2>3. \E f : ShufflesTo(list, drawn, n, (j - 1) + 1, f)
      BY <2>1, <2>2, OnePlaceMore
    <2> QED BY <2>3
  <1> QED BY <1>2, <1>3

-----------------------------------------------------------------------------
(* A list of the same delegates, none twice. *)
Permutes(list, s) ==
  /\ s \in [1 .. Len(list) -> Range(list)]
  /\ \A i, j \in 1 .. Len(list) : s[i] = s[j] => i = j

(* A swap of two places keeps it. *)
LEMMA SwapPermutes ==
  ASSUME NEW list, NEW s, Permutes(list, s),
         NEW i \in 1 .. Len(list), NEW j \in 1 .. Len(list)
  PROVE  Permutes(list, Swapped(s, i, j))
  <1> DEFINE n == Len(list)
             u == Swapped(s, i, j)
  <1>1. s \in [1 .. n -> Range(list)]
    BY DEF Permutes
  <1>2. /\ u \in [1 .. n -> Range(list)]
        /\ u[j] = s[i]
        /\ i # j => u[i] = s[j]
        /\ \A k \in 1 .. n : k # i /\ k # j => u[k] = s[k]
    BY <1>1 DEF Swapped
  <1>3. \A k, l \in 1 .. n : u[k] = u[l] => k = l
    BY <1>2 DEF Permutes
  <1> QED BY <1>2, <1>3 DEF Permutes

(* A shuffled list has the same delegates, none twice. *)
LEMMA ShufflePermutes ==
  ASSUME NEW list, list \in Seq(Range(list)), list # <<>>, IsInjective(list),
         NEW drawn, \A i \in 1 .. Len(list) : drawn[i] \in Nat
  PROVE  Permutes(list, Shuffled(list, drawn))
  <1> DEFINE n == Len(list)
             g == CHOOSE g : Shuffles(list, drawn, n, Places(n), g)
  <1>1. n \in Nat /\ n # 0 /\ DOMAIN list = 1 .. n
    OBVIOUS
  <1>2. DOMAIN Places(n) = 1 .. n /\ \A i \in 1 .. n : Places(n)[i] = i
    BY DEF Places
  <1>3. ASSUME NEW f, ShufflesTo(list, drawn, n, n, f) PROVE Shuffles(list, drawn, n, Places(n), f)
    <2>1. ASSUME NEW S \in SUBSET (1 .. n), S # {} PROVE Places(n)[Max(S)] = Max(S)
      <3> DEFINE T == {n - i : i \in S}
      <3>1. T \in SUBSET Nat /\ T # {}
        <4>1. \A i \in S : i \in 1 .. n
          BY <2>1
        <4>2. \A i \in S : n - i \in Nat
          BY <1>1, <4>1
        <4> QED BY <2>1, <4>2
      <3>2. PICK d \in T : \A e \in T : d <= e
        <4> HIDE DEF T
        <4> QED BY <3>1, LeastNatural
      <3>3. PICK m \in S : d = n - m
        BY <3>2
      <3>4. \A y \in S : m >= y
        <4> SUFFICES ASSUME NEW y \in S PROVE m >= y
          OBVIOUS
        <4>1. d <= n - y
          BY <3>2
        <4> QED BY <1>1, <3>3, <4>1
      <3>5. Max(S) \in S
        BY <3>4 DEF Max
      <3> QED BY <1>2, <3>5
    <2>2. \A S \in SUBSET (1 .. n) :
            f[S] = IF S = {} THEN list
                   ELSE ShuffleStep(drawn, n, f[S \ {Max(S)}], Places(n)[Max(S)])
      BY <1>3, <2>1 DEF ShufflesTo
    <2>3. f = [S \in SUBSET (1 .. n) |-> f[S]]
      BY <1>3 DEF ShufflesTo
    <2>4. f = [S \in SUBSET (1 .. n) |->
                 IF S = {} THEN list
                 ELSE ShuffleStep(drawn, n, f[S \ {Max(S)}], Places(n)[Max(S)])]
      BY <2>2, <2>3
    <2> QED BY <1>2, <2>4 DEF Shuffles
  <1>4. Shuffles(list, drawn, n, Places(n), g)
    BY <1>1, <1>3, ShuffleExists
  <1> HIDE DEF g
  <1>5. \A S \in SUBSET (1 .. n) :
          g[S] = IF S = {} THEN list
                 ELSE ShuffleStep(drawn, n, g[S \ {Max(S)}], Places(n)[Max(S)])
    BY <1>2, <1>4 DEF Shuffles
  <1>6. ASSUME NEW l \in 0 .. n, ~Permutes(list, g[1 .. l]) PROVE FALSE
    <2> DEFINE Failing == {k \in 0 .. n : ~Permutes(list, g[1 .. k])}
    <2>1. PICK k \in Failing : \A m \in Failing : k <= m
      <3>1. Failing \in SUBSET Nat /\ l \in Failing
        BY <1>1, <1>6
      <3> HIDE DEF Failing
      <3> QED BY <3>1, LeastNatural
    <2>2. CASE k = 0
      <3>1. 1 .. 0 = {} /\ 1 .. 0 \in SUBSET (1 .. n)
        BY <1>1
      <3>2. g[1 .. 0] = list
        BY <1>5, <3>1
      <3>3. Permutes(list, list)
        BY <1>1 DEF Permutes, IsInjective
      <3>4. ~Permutes(list, g[1 .. k])
        BY <2>1
      <3> QED BY <2>2, <3>2, <3>3, <3>4
    <2>3. CASE k # 0
      <3>1. k - 1 \in 0 .. n /\ k \in 1 .. n /\ k \in Nat \ {0}
        BY <1>1, <2>1, <2>3
      <3>2. k - 1 \notin Failing
        BY <2>1, <3>1
      <3>3. Permutes(list, g[1 .. (k - 1)])
        BY <3>1, <3>2
      <3>4. 1 .. k \in SUBSET (1 .. k) /\ k \in 1 .. k
        BY <3>1
      <3>5. Max(1 .. k) = k
        BY <3>1, <3>4, MaxOfInterval
      <3>6. (1 .. k) \ {k} = 1 .. (k - 1)
        BY <3>1
      <3>7. 1 .. k \in SUBSET (1 .. n) /\ 1 .. k # {}
        <4>1. \A i \in 1 .. k : i \in 1 .. n
          BY <1>1, <3>1
        <4> QED BY <3>4, <4>1
      <3>8. g[1 .. k] = ShuffleStep(drawn, n, g[1 .. (k - 1)], k)
        BY <1>2, <1>5, <3>1, <3>5, <3>6, <3>7
      <3>9. (drawn[k] % n) + 1 \in 1 .. n
        <4>1. drawn[k] \in Nat /\ n \in Nat \ {0}
          BY <1>1, <3>1
        <4>2. PICK d \in Nat : d = drawn[k]
          BY <4>1
        <4> HIDE DEF n
        <4>3. d % n \in 0 .. (n - 1)
          BY <4>1, Division
        <4>4. (d % n) + 1 \in 1 .. n
          BY <4>1, <4>3
        <4> QED BY <4>2, <4>4
      <3>10. Permutes(list, g[1 .. k])
        BY <3>1, <3>3, <3>8, <3>9, SwapPermutes DEF ShuffleStep
      <3>11. ~Permutes(list, g[1 .. k])
        BY <2>1
      <3> QED BY <3>10, <3>11
    <2> QED BY <2>2, <2>3
  <1>7. Permutes(list, g[1 .. n])
    BY <1>1, <1>6
  <1> QED BY <1>2, <1>7 DEF Shuffled, g

-----------------------------------------------------------------------------
(* The draws for a list of a time the model knows. *)
DrawsAt(h, t) == Draw[Round(GetShuffleOriginSeed(h, t), Len(ListAt[h]))]

(* The turns before a time. *)
Turn(t) == (t \div Interval) \div Continuous

(* The delegate of a turn is on the list, and the shuffled list of a round  *)
(* has nobody twice.                                                        *)
LEMMA TurnIsOnList ==
  ASSUME ProducerAssumption, NEW h \in DOMAIN ListAt, NEW k, NEW t \in 0 .. MaxTime
  PROVE  /\ Permutes(ListAt[h], Shuffled(ListAt[h], DrawsAt(h, t)))
         /\ Turn(t) \in Nat /\ Len(ListAt[h]) \in Nat \ {0}
         /\ GetCurrentDelegate(ListAt[h], k, t)
              = Shuffled(ListAt[h], DrawsAt(h, t))[(Turn(t) % Len(ListAt[h])) + 1]
         /\ GetCurrentDelegate(ListAt[h], k, t) \in Range(ListAt[h])
  <1> DEFINE list == ListAt[h]
             n == Len(list)
             drawn == DrawsAt(h, t)
  <1>1. /\ list \in Seq(Range(list)) /\ list # <<>> /\ IsInjective(list)
        /\ \A i \in 1 .. n : drawn[i] \in Nat
        /\ Interval \in Nat \ {0} /\ Continuous \in Nat \ {0} /\ MaxTime \in Nat
    BY DEF ProducerAssumption, DrawsAt
  <1>2. n \in Nat \ {0}
    BY <1>1
  <1>3. Permutes(list, Shuffled(list, drawn))
    <2> HIDE DEF list, drawn
    <2> QED BY <1>1, ShufflePermutes DEF n
  <1>4. Turn(t) \in Nat
    <2>1. t \in Nat
      BY <1>1
    <2>2. t \div Interval \in Nat
      BY <1>1, <2>1, Division
    <2> QED BY <1>1, <2>2, Division DEF Turn
  <1>5. Turn(t) % n \in 0 .. n - 1
    BY <1>2, <1>4, Division
  <1>6. (Turn(t) % n) + 1 \in 1 .. n
    BY <1>2, <1>5
  <1>7. ShuffleDelegates(list, k, t) = Shuffled(list, drawn)
    BY ShuffleByDraws DEF DrawsAt, GetShuffleOriginSeed
  <1>8. GetCurrentDelegate(list, k, t) = Shuffled(list, drawn)[(Turn(t) % n) + 1]
    BY <1>7 DEF GetCurrentDelegate, Turn
  <1>9. GetCurrentDelegate(list, k, t) \in Range(list)
    BY <1>3, <1>6, <1>8 DEF Permutes
  <1> QED BY <1>2, <1>3, <1>4, <1>8, <1>9

-----------------------------------------------------------------------------
(* A chain the node can have: each block an interval or more after every    *)
(* block before it, and made in its turn.                                   *)
Lawful(ch) ==
  /\ \A i \in 1 .. Len(ch) :
       /\ i \in DOMAIN ListAt
       /\ ch[i].by = GetCurrentDelegate(ListAt[i], i, ch[i].time)
  /\ \A i, j \in 1 .. Len(ch) : i < j => ch[j].time - ch[i].time >= Interval

(* The same for any prefix. *)
LEMMA PrefixLawful ==
  ASSUME NEW ch \in Seq(Blocks), Lawful(ch), NEW m \in 0 .. Len(ch)
  PROVE  SubSeq(ch, 1, m) \in Seq(Blocks) /\ Lawful(SubSeq(ch, 1, m))
         /\ Len(SubSeq(ch, 1, m)) = m
  <1>1. /\ Len(ch) \in Nat
        /\ Len(SubSeq(ch, 1, m)) = m
        /\ SubSeq(ch, 1, m) \in Seq(Blocks)
        /\ \A i \in 1 .. m : SubSeq(ch, 1, m)[i] = ch[i]
    OBVIOUS
  <1>2. \A i \in 1 .. m : i \in 1 .. Len(ch)
    BY <1>1
  <1> QED BY <1>1, <1>2 DEF Lawful

(* The time of the tip is the time of the last block. *)
LEMMA TipIsLatest ==
  ASSUME ProducerAssumption, NEW ch \in Seq(Blocks), Lawful(ch)
  PROVE  /\ TipTime(ch) \in 0 .. MaxTime
         /\ \A i \in 1 .. Len(ch) : ch[i].time <= TipTime(ch) /\ ch[i].time \in 0 .. MaxTime
  <1> USE DEF ProducerAssumption
  <1>1. \A i \in 1 .. Len(ch) : ch[i] \in Blocks
    OBVIOUS
  <1>2. \A i \in 1 .. Len(ch) : ch[i].time \in 0 .. MaxTime
    BY <1>1 DEF Blocks
  <1>3. CASE ch = <<>>
    BY <1>3 DEF TipTime
  <1>4. CASE ch # <<>>
    <2>1. Len(ch) \in Nat \ {0} /\ Len(ch) \in 1 .. Len(ch)
      BY <1>4
    <2>2. TipTime(ch) = ch[Len(ch)].time
      BY <1>4 DEF TipTime, Last
    <2>3. ASSUME NEW i \in 1 .. Len(ch) PROVE ch[i].time <= TipTime(ch)
      <3>1. CASE i = Len(ch)
        BY <1>2, <2>1, <2>2, <3>1
      <3>2. CASE i < Len(ch)
        <4>1. ch[Len(ch)].time - ch[i].time >= Interval
          BY <2>1, <3>2 DEF Lawful
        <4> QED BY <1>2, <2>1, <2>2, <4>1
      <3> QED BY <2>1, <3>1, <3>2
    <2> QED BY <1>2, <2>1, <2>2, <2>3
  <1> QED BY <1>3, <1>4

(* An accepted block keeps the chain lawful. *)
LEMMA AppendLawful ==
  ASSUME ProducerAssumption, NEW ch \in Seq(Blocks), Lawful(ch),
         NEW b \in Blocks, Accepted(ch, b)
  PROVE  Append(ch, b) \in Seq(Blocks) /\ Lawful(Append(ch, b))
         /\ Len(Append(ch, b)) = Len(ch) + 1
  <1> DEFINE c == Append(ch, b)
  <1>1. /\ Len(ch) \in Nat /\ c \in Seq(Blocks) /\ Len(c) = Len(ch) + 1
        /\ c[Len(ch) + 1] = b
        /\ \A i \in 1 .. Len(ch) : c[i] = ch[i]
    OBVIOUS
  <1>2. /\ Len(ch) + 1 \in DOMAIN ListAt
        /\ b.time - TipTime(ch) >= Interval
        /\ b.by = GetCurrentDelegate(ListAt[Len(ch) + 1], Len(ch) + 1, b.time)
    <2>1. TipTime(ch) \in Int /\ b.time \in Int /\ Interval \in Nat
      <3>1. TipTime(ch) \in 0 .. MaxTime
        BY TipIsLatest
      <3>2. b.time \in 0 .. MaxTime
        BY DEF Blocks
      <3> QED BY <3>1, <3>2 DEF ProducerAssumption
    <2>2. Len(ch) + 1 \in DOMAIN ListAt /\ ~TooEarly(ch, b) /\ VerifyRewardTx(ch, b)
      BY DEF Accepted
    <2>3. ~(b.time - TipTime(ch) < Interval)
      BY <2>2 DEF TooEarly
    <2>4. b.by = GetCurrentDelegate(ListAt[Len(ch) + 1], Len(ch) + 1, b.time)
      BY <2>2 DEF VerifyRewardTx
    <2> QED BY <2>1, <2>2, <2>3, <2>4
  <1>3. ASSUME NEW i \in 1 .. Len(c)
        PROVE  i \in DOMAIN ListAt /\ c[i].by = GetCurrentDelegate(ListAt[i], i, c[i].time)
    <2>1. CASE i = Len(ch) + 1
      BY <1>1, <1>2, <2>1
    <2>2. CASE i \in 1 .. Len(ch)
      BY <1>1, <2>2 DEF Lawful
    <2> QED BY <1>1, <2>1, <2>2
  <1>4. ASSUME NEW i \in 1 .. Len(c), NEW j \in 1 .. Len(c), i < j
        PROVE  c[j].time - c[i].time >= Interval
    <2>1. i \in 1 .. Len(ch)
      BY <1>1, <1>4
    <2>2. CASE j = Len(ch) + 1
      <3>1. ch[i].time <= TipTime(ch) /\ ch[i].time \in Int /\ TipTime(ch) \in Int
        BY <2>1, TipIsLatest DEF ProducerAssumption
      <3>2. b.time \in Int /\ Interval \in Nat
        BY DEF Blocks, ProducerAssumption
      <3> QED BY <1>1, <1>2, <2>1, <2>2, <3>1, <3>2
    <2>3. CASE j \in 1 .. Len(ch)
      BY <1>1, <1>4, <2>1, <2>3 DEF Lawful
    <2> QED BY <1>1, <2>2, <2>3
  <1> QED BY <1>1, <1>3, <1>4 DEF Lawful

(* A lawful chain has one block of an interval, and of a delegate no more   *)
(* than his turn in a round.                                                *)
LEMMA LawfulKeepsTurns ==
  ASSUME ProducerAssumption, chain \in Seq(Blocks), Lawful(chain)
  PROVE  OneBlockPerInterval /\ RoundsAreFair
  <1> USE DEF ProducerAssumption
  <1> DEFINE slot(i) == chain[i].time \div Interval
  <1>0. DOMAIN chain = 1 .. Len(chain)
    OBVIOUS
  <1>1. \A i \in DOMAIN chain : chain[i].time \in Nat /\ chain[i].time \in 0 .. MaxTime
    BY <1>0, TipIsLatest
  <1>2. \A i \in DOMAIN chain : slot(i) \in Nat
    BY <1>1, Division
  <1>3. OneBlockPerInterval
    <2> SUFFICES ASSUME NEW i \in DOMAIN chain, NEW j \in DOMAIN chain, i # j
                 PROVE  slot(i) # slot(j)
      BY DEF OneBlockPerInterval
    <2>1. CASE i < j
      BY <1>0, <1>1, <2>1, Apart DEF Lawful
    <2>2. CASE j < i
      BY <1>0, <1>1, <2>2, Apart DEF Lawful
    <2> QED BY <1>0, <2>1, <2>2
  <1>4. ASSUME NEW i \in DOMAIN chain
        PROVE  LET n == Len(ListAt[i])
                   Of(j) == Round((chain[j].time \div Interval) \div Continuous, n)
               IN  Cardinality({j \in DOMAIN chain : /\ ListAt[j] = ListAt[i]
                                                     /\ Of(j) = Of(i)
                                                     /\ chain[j].by = chain[i].by}) <= Continuous
    <2> DEFINE n == Len(ListAt[i])
               Of(j) == Round((chain[j].time \div Interval) \div Continuous, n)
               J == {j \in DOMAIN chain : /\ ListAt[j] = ListAt[i]
                                          /\ Of(j) = Of(i)
                                          /\ chain[j].by = chain[i].by}
               T == slot(i) \div Continuous
               room == T * Continuous .. T * Continuous + (Continuous - 1)
    <2>1. i \in DOMAIN ListAt /\ n \in Nat \ {0} /\ T \in Nat
      <3>1. i \in DOMAIN ListAt
        BY <1>0 DEF Lawful
      <3> QED BY <1>1, <1>2, <3>1, TurnIsOnList, Division
    <2>2. ASSUME NEW j \in J PROVE slot(j) \div Continuous = T
      <3>1. j \in DOMAIN chain /\ ListAt[j] = ListAt[i] /\ Of(j) = Of(i) /\ chain[j].by = chain[i].by
        OBVIOUS
      <3> DEFINE U == slot(j) \div Continuous
                 list == ListAt[i]
                 turns == Shuffled(list, DrawsAt(i, chain[i].time))
      <3>2. /\ Permutes(list, turns)
            /\ chain[i].by = turns[(T % n) + 1]
        <4>1. chain[i].by = GetCurrentDelegate(ListAt[i], i, chain[i].time)
          BY <1>0 DEF Lawful
        <4>2. Turn(chain[i].time) = T
          BY DEF Turn
        <4> QED BY <1>1, <2>1, <4>1, <4>2, TurnIsOnList
      <3>3. chain[j].by = turns[(U % n) + 1] /\ U \in Nat
        <4>1. j \in DOMAIN ListAt /\ chain[j].by = GetCurrentDelegate(ListAt[j], j, chain[j].time)
          BY <1>0, <3>1 DEF Lawful
        <4>2. Turn(chain[j].time) = U /\ chain[j].time \in 0 .. MaxTime
          BY <1>1, <3>1 DEF Turn
        <4>3. DrawsAt(j, chain[j].time) = DrawsAt(i, chain[i].time)
          BY <3>1 DEF DrawsAt, GetShuffleOriginSeed
        <4>4. /\ GetCurrentDelegate(ListAt[j], j, chain[j].time)
                   = Shuffled(ListAt[j], DrawsAt(j, chain[j].time))
                       [(Turn(chain[j].time) % Len(ListAt[j])) + 1]
              /\ Turn(chain[j].time) \in Nat
          BY <4>1, <4>2, TurnIsOnList
        <4>5. U \in Nat
          BY <4>2, <4>4
        <4>6. chain[j].by = Shuffled(ListAt[i], DrawsAt(i, chain[i].time))[(U % Len(ListAt[i])) + 1]
          BY <3>1, <4>1, <4>2, <4>3, <4>4
        <4> QED BY <4>5, <4>6
      <3>4. T % n \in 0 .. n - 1 /\ U % n \in 0 .. n - 1
        BY <2>1, <3>3, Division
      <3>5. (T % n) + 1 \in 1 .. n /\ (U % n) + 1 \in 1 .. n
        <4> DEFINE p == T % n
                   q == U % n
        <4>1. p \in 0 .. n - 1 /\ q \in 0 .. n - 1 /\ n \in Nat
          BY <2>1, <3>4
        <4> HIDE DEF p, q, n
        <4>2. p + 1 \in 1 .. n /\ q + 1 \in 1 .. n
          BY <4>1
        <4> QED BY <4>2 DEF p, q
      <3>6. (T % n) + 1 = (U % n) + 1
        <4> HIDE DEF T, U, turns, n
        <4> QED BY <3>1, <3>2, <3>3, <3>5 DEF Permutes, n
      <3>7. T % n = U % n
        BY <3>4, <3>6
      <3>8. Round(T, n) = Round(U, n)
        BY <3>1
      <3> HIDE DEF T, U, n, J, turns
      <3>9. T \div n \in Nat /\ U \div n \in Nat /\ T = n * (T \div n) + (T % n)
            /\ U = n * (U \div n) + (U % n)
        BY <2>1, <3>3, Division
      <3>10. T \div n = U \div n
        BY <3>4, <3>7, <3>8, <3>9 DEF Round
      <3>11. T = U
        BY <3>7, <3>9, <3>10
      <3> QED BY <3>11 DEF U
    <2>3. ASSUME NEW j \in J PROVE slot(j) \in room
      <3>1. slot(j) \in Nat
        BY <1>2
      <3>2. slot(j) \div Continuous = T
        BY <2>2
      <3> HIDE DEF T, J, slot
      <3>3. slot(j) = Continuous * T + (slot(j) % Continuous)
            /\ slot(j) % Continuous \in 0 .. (Continuous - 1)
        BY <3>1, <3>2, Division
      <3>4. Continuous * T = T * Continuous /\ T * Continuous \in Nat
        BY <2>1
      <3> DEFINE a == T * Continuous
                 r == slot(j) % Continuous
      <3>5. slot(j) = a + r /\ a \in Nat /\ r \in 0 .. (Continuous - 1)
        BY <3>3, <3>4
      <3> HIDE DEF a, r
      <3>6. slot(j) \in a .. a + (Continuous - 1)
        BY <3>5
      <3> QED BY <3>6 DEF a
    <2>4. IsFiniteSet(room) /\ Cardinality(room) = Continuous
      <3>1. T * Continuous \in Nat
        BY <2>1
      <3> DEFINE a == T * Continuous
                 z == T * Continuous + (Continuous - 1)
      <3>2. a \in Int /\ z \in Int /\ ~(a > z) /\ z - a + 1 = Continuous
        BY <3>1
      <3> HIDE DEF a, z
      <3>3. IsFiniteSet(a .. z) /\ Cardinality(a .. z) = Continuous
        BY <3>2, FS_Interval
      <3> QED BY <3>3 DEF a, z
    <2>5. [j \in J |-> slot(j)] \in Injection(J, room)
      <3>1. [j \in J |-> slot(j)] \in [J -> room]
        BY <2>3
      <3>2. \A j, k \in J : slot(j) = slot(k) => j = k
        BY <1>3 DEF OneBlockPerInterval
      <3> HIDE DEF J, room, slot
      <3> QED BY <3>1, <3>2 DEF Injection, IsInjective
    <2>6. Cardinality(J) <= Continuous
      <3> HIDE DEF J, room, slot
      <3> QED BY <2>4, <2>5, FS_Injection
    <2> QED BY <2>6
  <1>5. RoundsAreFair
    BY <1>4 DEF RoundsAreFair
  <1> QED BY <1>3, <1>5

-----------------------------------------------------------------------------
(* A slot is never before the tip, nor before the one to be waited for.     *)
LEMMA SlotBounds ==
  ASSUME ProducerAssumption, nextSlot \in Nat, NEW ch \in Seq(Blocks), Lawful(ch)
  PROVE  /\ SlotTime(ch) \in Nat
         /\ SlotTime(ch) >= TipTime(ch) + Interval
  <1>1. TipTime(ch) \in Nat /\ Interval \in Nat
    BY TipIsLatest DEF ProducerAssumption
  <1>2. SlotTime(ch) = IF nextSlot >= TipTime(ch) + Interval THEN nextSlot
                       ELSE TipTime(ch) + Interval
    BY <1>1, MaxOfTwo DEF SlotTime
  <1> QED BY <1>1, <1>2

(***************************************************************************)
(* The thread, between its steps: the chain has not become shorter than    *)
(* the one it has looked at, and has moved if it has the same length and   *)
(* is another; the time it read is one a block on that chain may have; the *)
(* delegate it got is the one of that turn unless the chain has moved.     *)
(***************************************************************************)
Working ==
  /\ prev \in Seq(Blocks) /\ Lawful(prev)
  /\ pc \in {"ask", "produce"} =>
       /\ SlotTime(prev) <= start
       /\ Len(prev) + 1 \in DOMAIN ListAt
       /\ Len(prev) <= Len(chain)
       /\ Len(prev) = Len(chain) => prev = chain
  /\ pc = "produce" /\ prev = chain =>
       miner = GetCurrentDelegate(ListAt[Len(chain) + 1], Len(chain) + 1, start)

IInv == TypeOK /\ Lawful(chain) /\ Working /\ OwnBlocksStand

(* The length of a chain is bounded by the heights there are lists for. *)
LEMMA LengthBounded ==
  ASSUME ProducerAssumption, NEW ch \in Seq(Blocks), Lawful(ch)
  PROVE  Len(ch) <= Cardinality(DOMAIN ListAt)
  <1>1. /\ Len(ListAt) \in Nat /\ DOMAIN ListAt = 1 .. Len(ListAt)
    BY DEF ProducerAssumption
  <1>2. Cardinality(DOMAIN ListAt) = Len(ListAt)
    <2> DEFINE z == Len(ListAt)
    <2>1. 1 \in Int /\ z \in Int
      BY <1>1
    <2> HIDE DEF z
    <2>2. Cardinality(1 .. z) = IF 1 > z THEN 0 ELSE z - 1 + 1
      BY <2>1, FS_Interval
    <2> QED BY <1>1, <2>2 DEF z
  <1>3. CASE Len(ch) = 0
    BY <1>1, <1>2, <1>3
  <1>4. CASE Len(ch) # 0
    <2>1. Len(ch) \in 1 .. Len(ch)
      BY <1>4
    <2>2. Len(ch) \in DOMAIN ListAt
      BY <2>1 DEF Lawful
    <2> QED BY <1>1, <1>2, <2>2
  <1> QED BY <1>3, <1>4

(* The chain moves, and the thread does not: it will find that it has. *)
LEMMA ChainMoves ==
  ASSUME ProducerAssumption, IInv,
         chain' \in Seq(Blocks), Lawful(chain'), Len(chain') > Len(chain),
         asleep' = FALSE, UNCHANGED <<clock, thread>>
  PROVE  IInv'
  <1> USE DEF IInv, thread
  <1>1. TypeOK'
    <2>1. Len(chain') <= Cardinality(DOMAIN ListAt)
      BY LengthBounded
    <2> QED BY <2>1 DEF TypeOK
  <1>2. Working'
    <2>1. chain' # chain /\ Len(chain') \in Nat /\ Len(chain) \in Nat /\ Len(prev) \in Nat
      BY DEF TypeOK, Working
    <2>2. pc \in {"ask", "produce"} => Len(prev) < Len(chain')
      BY <2>1 DEF Working
    <2>3. SlotTime(prev)' = SlotTime(prev)
      BY DEF SlotTime, TipTime
    <2> QED BY <2>1, <2>2, <2>3 DEF Working, Lawful
  <1>3. Lawful(chain)'
    BY DEF Lawful
  <1>4. OwnBlocksStand'
    BY DEF OwnBlocksStand
  <1> QED BY <1>1, <1>2, <1>3, <1>4

-----------------------------------------------------------------------------
(* Look: the time read is one of a slot that has begun. *)
LEMMA LookKeeps == ASSUME ProducerAssumption, IInv, Look PROVE IInv'
  <1> USE DEF IInv, Look
  <1>1. UNCHANGED <<chain, clock, miner, nextSlot, tried, refused>>
    OBVIOUS
  <1>2. CASE asleep' = TRUE /\ UNCHANGED <<pc, prev, start>>
    BY <1>1, <1>2 DEF TypeOK, Working, Lawful, OwnBlocksStand, SlotTime, TipTime
  <1>3. CASE /\ pc' = "ask" /\ prev' = chain /\ start' = clock /\ UNCHANGED asleep
             /\ ~(Obsolete(chain) \/ clock < SlotTime(chain))
    <2>1. SlotTime(chain) \in Nat /\ clock \in Nat
      BY SlotBounds DEF TypeOK, ProducerAssumption
    <2>2. SlotTime(chain) <= clock
      BY <1>3, <2>1
    <2>3. SlotTime(prev)' = SlotTime(chain)
      BY <1>1, <1>3 DEF SlotTime, TipTime
    <2>4. TypeOK'
      BY <1>1, <1>3, <2>1 DEF TypeOK
    <2>5. Working'
      BY <1>1, <1>3, <2>2, <2>3 DEF Working, TypeOK, Lawful
    <2> QED BY <1>1, <2>4, <2>5 DEF Lawful, OwnBlocksStand
  <1> QED BY <1>2, <1>3

(* What LoopAgain leaves keeps the thread's part. *)
LEMMA LoopAgainKeeps ==
  ASSUME ProducerAssumption, LoopAgain PROVE Working' /\ pc' = "look" /\ start' = 0
  BY DEF LoopAgain, Working, Lawful

(* GetMiner: the delegate is the one of the turn if the chain has not moved. *)
LEMMA GetMinerKeeps == ASSUME ProducerAssumption, IInv, GetMiner PROVE IInv'
  <1> USE DEF IInv
  <1> DEFINE d == GetCurrentDelegate(ListAt[Len(chain) + 1], Len(prev) + 1, start)
  <1>1. pc = "ask" /\ UNCHANGED <<chain, clock, tried, refused>>
    BY DEF GetMiner
  <1>2. Lawful(chain)' /\ OwnBlocksStand'
    BY <1>1 DEF Lawful, OwnBlocksStand
  <1>3. CASE d \in Mine /\ pc' = "produce" /\ miner' = d /\ UNCHANGED <<prev, start, nextSlot, asleep>>
    <2>1. TypeOK'
      BY <1>1, <1>3 DEF TypeOK
    <2>2. SlotTime(prev)' = SlotTime(prev)
      BY <1>3 DEF SlotTime, TipTime
    <2>3. Working'
      BY <1>1, <1>3, <2>2 DEF Working, Lawful
    <2> QED BY <1>2, <2>1, <2>3
  <1>4. CASE /\ d \notin Mine
             /\ nextSlot' = SkipSlot(SlotTime(prev))
             /\ asleep' = (start = clock)
             /\ LoopAgain
    <2>1. /\ SlotTime(prev) \in Nat /\ SlotTime(prev) <= start
          /\ start \in Nat /\ clock \in Nat /\ start <= clock
          /\ Interval \in Nat \ {0}
      BY <1>1, SlotBounds DEF Working, TypeOK, ProducerAssumption
    <2>2. /\ start % Interval \in 0 .. (Interval - 1)
          /\ start = Interval * (start \div Interval) + (start % Interval)
          /\ start \div Interval \in Nat
      BY <2>1, Division
    <2>3. start - (start % Interval) \in Nat
      <3>1. Interval * (start \div Interval) \in Nat
        BY <2>1, <2>2
      <3> QED BY <2>1, <2>2, <3>1
    <2>4. SkipSlot(SlotTime(prev)) \in 0 .. (clock + Interval)
      <3> DEFINE a == SlotTime(prev) + Interval
                 b == start - (start % Interval)
      <3>1. a \in 0 .. (clock + Interval) /\ b \in 0 .. (clock + Interval)
        BY <2>1, <2>2, <2>3
      <3>2. a \in Int /\ b \in Int
        BY <2>1, <3>1
      <3> HIDE DEF a, b
      <3>3. Max({a, b}) = IF a >= b THEN a ELSE b
        BY <3>2, MaxOfTwo
      <3> QED BY <3>1, <3>3 DEF SkipSlot, a, b
    <2>5. asleep' \in BOOLEAN
      BY <1>4
    <2>6. Working' /\ pc' = "look" /\ start' = 0
      BY <1>4, LoopAgainKeeps
    <2>7. TypeOK'
      BY <1>1, <1>4, <2>1, <2>4, <2>5, <2>6 DEF TypeOK
    <2> QED BY <1>2, <2>6, <2>7
  <1> QED BY <1>3, <1>4 DEF GetMiner

(* The block the thread makes on the tip it has looked at is accepted. *)
LEMMA OwnBlockAccepted ==
  ASSUME ProducerAssumption, IInv, pc = "produce", prev = chain
  PROVE  NewBlock \in Blocks /\ Accepted(chain, NewBlock)
  <1> USE DEF IInv
  <1>1. /\ Len(chain) + 1 \in DOMAIN ListAt
        /\ SlotTime(chain) <= start
        /\ miner = GetCurrentDelegate(ListAt[Len(chain) + 1], Len(chain) + 1, start)
    BY DEF Working
  <1>2. /\ start \in 0 .. MaxTime /\ start \in Nat /\ clock \in Nat /\ start <= clock
        /\ Interval \in Nat \ {0}
    BY DEF TypeOK, ProducerAssumption
  <1>3. miner \in Range(ListAt[Len(chain) + 1])
    BY <1>1, <1>2, TurnIsOnList
  <1>4. NewBlock \in Blocks /\ NewBlock.time = start /\ NewBlock.by = miner
    BY <1>1, <1>2, <1>3 DEF NewBlock, Blocks
  <1>5. /\ SlotTime(chain) \in Nat /\ SlotTime(chain) >= TipTime(chain) + Interval
        /\ TipTime(chain) \in Nat
    <2>1. chain \in Seq(Blocks) /\ nextSlot \in Nat
      BY DEF TypeOK, ProducerAssumption
    <2>2. TipTime(chain) \in 0 .. MaxTime /\ MaxTime \in Nat
      BY <2>1, TipIsLatest DEF ProducerAssumption
    <2>3. SlotTime(chain) \in Nat /\ SlotTime(chain) >= TipTime(chain) + Interval
      BY <2>1, SlotBounds
    <2> QED BY <2>2, <2>3
  <1>6. start > TipTime(chain) /\ ~(start - TipTime(chain) < Interval)
    BY <1>1, <1>2, <1>5
  <1>7. ~TooEarly(chain, NewBlock)
    BY <1>2, <1>4, <1>5, <1>6 DEF TooEarly
  <1>8. VerifyRewardTx(chain, NewBlock)
    BY <1>1, <1>4, <1>6 DEF VerifyRewardTx
  <1>9. NewBlock.time <= clock + Interval + 2
    BY <1>2, <1>4
  <1> QED BY <1>1, <1>4, <1>7, <1>8, <1>9 DEF Accepted

(* Produce: the block goes on the chain, or the chain has moved, or the     *)
(* time is up.                                                              *)
LEMMA ProduceKeeps == ASSUME ProducerAssumption, IInv, Produce PROVE IInv'
  <1> USE DEF IInv
  <1>1. pc = "produce" /\ LoopAgain /\ UNCHANGED <<clock, nextSlot>>
    BY DEF Produce
  <1>2. Working' /\ pc' = "look" /\ start' = 0
    BY <1>1, LoopAgainKeeps
  <1>3. start \in Nat /\ start <= MaxTime /\ Interval \in Nat \ {0} /\ MaxTime \in Nat /\ clock \in Nat
    BY DEF TypeOK, ProducerAssumption
  <1>4. start \div Interval \in -1 .. (MaxTime \div Interval)
    BY <1>3, Division
  <1>5. CASE TipHasMoved /\ UNCHANGED <<chain, asleep, tried, refused>>
    <2>1. TypeOK'
      BY <1>1, <1>2, <1>3, <1>5 DEF TypeOK
    <2> QED BY <1>2, <1>5, <2>1 DEF Lawful, OwnBlocksStand
  <1>6. CASE ~TipHasMoved /\ tried' = start \div Interval
    <2>1. NewBlock \in Blocks /\ Accepted(chain, NewBlock)
      BY <1>1, <1>6, OwnBlockAccepted DEF TipHasMoved
    <2>2. CASE chain' = Append(chain, NewBlock) /\ UNCHANGED <<asleep, refused>>
      <3>1. chain' \in Seq(Blocks) /\ Lawful(chain')
        BY <2>1, <2>2, AppendLawful DEF TypeOK
      <3>2. Len(chain') <= Cardinality(DOMAIN ListAt)
        BY <3>1, LengthBounded
      <3>3. TypeOK'
        BY <1>1, <1>2, <1>3, <1>4, <1>6, <2>2, <3>1, <3>2 DEF TypeOK
      <3> QED BY <1>2, <2>2, <3>1, <3>3 DEF Lawful, OwnBlocksStand
    <2>3. CASE /\ TimeIsUp \/ ~Accepted(chain, NewBlock)
               /\ refused' = (refused \/ ~TimeIsUp)
               /\ asleep' = (start = clock)
               /\ UNCHANGED chain
      <3>1. refused' = FALSE /\ asleep' \in BOOLEAN
        BY <2>1, <2>3 DEF OwnBlocksStand
      <3>2. TypeOK'
        BY <1>1, <1>2, <1>3, <1>4, <1>6, <2>3, <3>1 DEF TypeOK
      <3> QED BY <1>2, <2>3, <3>1, <3>2 DEF Lawful, OwnBlocksStand
    <2> QED BY <1>1, <1>6, <2>2, <2>3 DEF Produce
  <1> QED BY <1>5, <1>6 DEF Produce

-----------------------------------------------------------------------------
(* Receive. *)
LEMMA ReceiveKeeps == ASSUME ProducerAssumption, IInv, Receive PROVE IInv'
  <1>1. PICK b \in Blocks : Accepted(chain, b) /\ chain' = Append(chain, b)
    BY DEF Receive, Extensions
  <1>2. /\ chain' \in Seq(Blocks) /\ Lawful(chain') /\ Len(chain') = Len(chain) + 1
        /\ Len(chain) \in Nat
    BY <1>1, AppendLawful DEF IInv, TypeOK
  <1>3. Len(chain') > Len(chain) /\ asleep' = FALSE /\ UNCHANGED <<clock, thread>>
    BY <1>2 DEF Receive
  <1> QED BY <1>2, <1>3, ChainMoves

(* Reorganise: the chain becomes longer. *)
LEMMA ReorganiseKeeps == ASSUME ProducerAssumption, IInv, Reorganise PROVE IInv'
  <1>1. chain # <<>> /\ asleep' = FALSE /\ UNCHANGED <<clock, thread>>
    BY DEF Reorganise
  <1> DEFINE f == Front(chain)
  <1>2. PICK b \in Blocks : /\ Accepted(f, b)
                            /\ \E d \in Extensions(Append(f, b)) : chain' = f \o <<b, d>>
    BY DEF Reorganise, Extensions
  <1>3. PICK d \in Blocks : Accepted(Append(f, b), d) /\ chain' = f \o <<b, d>>
    BY <1>2 DEF Extensions
  <1>4. chain \in Seq(Blocks) /\ Lawful(chain) /\ Len(chain) \in Nat /\ Len(chain) - 1 \in 0 .. Len(chain)
    BY <1>1 DEF IInv, TypeOK
  <1>5. f \in Seq(Blocks) /\ Lawful(f) /\ Len(f) = Len(chain) - 1
    BY <1>4, PrefixLawful DEF Front
  <1> HIDE DEF f
  <1> DEFINE g == Append(f, b)
  <1>6. g \in Seq(Blocks) /\ Lawful(g) /\ Len(g) = Len(f) + 1
    BY <1>2, <1>5, AppendLawful
  <1>7. chain' = Append(g, d)
    BY <1>3, <1>5
  <1> HIDE DEF g
  <1>8. chain' \in Seq(Blocks) /\ Lawful(chain') /\ Len(chain') = Len(g) + 1
    <2>1. Accepted(g, d)
      BY <1>3 DEF g
    <2> QED BY <1>6, <1>7, <2>1, AppendLawful
  <1>9. Len(chain') > Len(chain)
    BY <1>4, <1>5, <1>6, <1>8
  <1> QED BY <1>1, <1>8, <1>9, ChainMoves

(* Tick. *)
LEMMA TickKeeps == ASSUME ProducerAssumption, IInv, Tick PROVE IInv'
  <1> USE DEF IInv, Tick, thread
  <1>1. clock \in Nat /\ Interval \in Nat \ {0} /\ MaxTime \in Nat
    BY DEF TypeOK, ProducerAssumption
  <1>2. TypeOK'
    <2>1. clock' \in 0 .. MaxTime
      BY <1>1 DEF TypeOK
    <2>2. start' \in 0 .. clock' /\ nextSlot' \in 0 .. (clock' + Interval)
      BY <1>1 DEF TypeOK
    <2>3. asleep' = FALSE /\ UNCHANGED <<chain, pc, miner, tried, refused>>
      OBVIOUS
    <2> QED BY <2>1, <2>2, <2>3 DEF TypeOK
  <1>3. SlotTime(prev)' = SlotTime(prev)
    BY DEF SlotTime, TipTime
  <1>4. Working'
    BY <1>3 DEF Working, Lawful
  <1> QED BY <1>2, <1>4 DEF Lawful, OwnBlocksStand

(* Restart: the blocks on disk are the first of the chain. *)
LEMMA RestartKeeps ==
  ASSUME ProducerAssumption, IInv, NEW n \in 0 .. Len(chain), Restart(n) PROVE IInv'
  <1> USE DEF IInv, Restart
  <1>1. chain' \in Seq(Blocks) /\ Lawful(chain')
    BY PrefixLawful DEF TypeOK
  <1>2. Len(chain') <= Cardinality(DOMAIN ListAt)
    BY <1>1, LengthBounded
  <1>3. Working' /\ pc' = "look" /\ start' = 0
    BY LoopAgainKeeps
  <1>4. clock \in Nat /\ Interval \in Nat \ {0} /\ MaxTime \in Nat
    BY DEF TypeOK, ProducerAssumption
  <1>5. TypeOK'
    <2>1. 0 \in 0 .. clock /\ 0 \in 0 .. (clock + Interval)
      BY <1>4
    <2>2. clock' = clock /\ tried' = tried /\ refused' = refused /\ nextSlot' = 0 /\ asleep' = FALSE
      OBVIOUS
    <2> QED BY <1>1, <1>2, <1>3, <2>1, <2>2 DEF TypeOK
  <1> QED BY <1>1, <1>3, <1>5 DEF Lawful, OwnBlocksStand

-----------------------------------------------------------------------------
(* Init. *)
LEMMA InitKeeps == ASSUME ProducerAssumption, Init PROVE IInv
  <1> USE DEF Init
  <1>1. Interval \in Nat \ {0} /\ MaxTime \in Nat /\ Len(ListAt) \in Nat
    BY DEF ProducerAssumption
  <1>2. <<>> \in Seq(Blocks) /\ Len(<<>>) = 0 /\ Lawful(<<>>)
    BY DEF Lawful
  <1>3. Len(chain) <= Cardinality(DOMAIN ListAt)
    BY <1>2, LengthBounded
  <1>4. MaxTime \div Interval \in Nat
    BY <1>1, Division
  <1>5. TypeOK
    <2>1. 0 \in 0 .. MaxTime /\ 0 \in 0 .. 0 /\ 0 \in 0 .. (0 + Interval)
      BY <1>1
    <2>2. -1 \in -1 .. (MaxTime \div Interval)
      BY <1>4
    <2> QED BY <1>2, <1>3, <2>1, <2>2 DEF TypeOK
  <1>6. Working
    BY <1>2 DEF Working
  <1> QED BY <1>2, <1>5, <1>6 DEF IInv, OwnBlocksStand

(* Every step keeps the invariant. *)
LEMMA Step == ASSUME ProducerAssumption PROVE IInv /\ [Next]_vars => IInv'
  <1> SUFFICES ASSUME IInv, [Next]_vars PROVE IInv'
    OBVIOUS
  <1>1. CASE UNCHANGED vars
    <2>1. TypeOK'
      BY <1>1 DEF IInv, TypeOK, vars
    <2>2. Working' /\ Lawful(chain)' /\ OwnBlocksStand'
      BY <1>1 DEF IInv, Working, Lawful, OwnBlocksStand, SlotTime, TipTime, vars
    <2> QED BY <2>1, <2>2 DEF IInv
  <1>2. CASE Next
    BY <1>2, LookKeeps, GetMinerKeeps, ProduceKeeps, ReceiveKeeps, ReorganiseKeeps,
       TickKeeps, RestartKeeps DEF Next
  <1> QED BY <1>1, <1>2

(* Whatever votes do to the list, a chain has one block in an interval and  *)
(* no delegate has more than his turn in a round (VerifyRewardTx,           *)
(* ShuffleDelegates); and a block that the thread makes with a delegate it  *)
(* asked for without the lock, on a tip it looked at before, is not refused *)
(* by its own node (ThreadBlockProducing).                                  *)
THEOREM ProducersKeepTurns ==
  ASSUME ProducerAssumption
  PROVE  Spec => [](TypeOK /\ TurnsAreKept)
  <1>1. Init => IInv
    BY InitKeeps
  <1>2. IInv /\ [Next]_vars => IInv'
    BY Step
  <1>3. IInv => TypeOK /\ TurnsAreKept
    BY LawfulKeepsTurns DEF IInv, TurnsAreKept, TypeOK
  <1> QED BY <1>1, <1>2, <1>3, PTL DEF Spec

-----------------------------------------------------------------------------
(* No turn is missed.  The delegate of a time depends on its interval only. *)
LEMMA TurnOfInterval ==
  ASSUME NEW list, NEW h, NEW k, NEW t, NEW u, t \div Interval = u \div Interval
  PROVE  GetCurrentDelegate(list, h, t) = GetCurrentDelegate(list, k, u)
  <1>1. GetShuffleOriginSeed(h, t) = GetShuffleOriginSeed(k, u)
    BY DEF GetShuffleOriginSeed
  <1>2. ShuffleDelegates(list, h, t) = ShuffleDelegates(list, k, u)
    BY <1>1, ShuffleByDraws
  <1> QED BY <1>2 DEF GetCurrentDelegate

(* The end of an interval that begins no later than a time and ends no      *)
(* earlier is in the same interval.                                         *)
LEMMA EndOfInterval ==
  ASSUME NEW I \in Nat \ {0}, NEW s \in Nat, NEW t \in Nat,
         s <= t, t < s + I, (t + 1) % I = 0
  PROVE  t \div I = s \div I
  <1> DEFINE q == (t + 1) \div I
             p == s \div I
  <1>1. t + 1 = I * q /\ q \in Nat
    BY Division
  <1>2. s = I * p + (s % I) /\ s % I \in 0 .. (I - 1) /\ p \in Nat
    BY Division
  <1>3. q # 0
    <2>1. I * 0 = 0
      OBVIOUS
    <2> QED BY <1>1, <2>1
  <1> HIDE DEF q, p
  <1>4. I * (q - 1) = I * q - I /\ I * (p + 1) = I * p + I
    BY <1>1, <1>2
  <1>5. q - 1 <= p
    <2> SUFFICES ASSUME q - 1 >= p + 1 PROVE FALSE
      BY <1>1, <1>2
    <2>1. I * (q - 1) >= I * (p + 1)
      BY <1>1, <1>2
    <2> QED BY <1>1, <1>2, <1>4, <2>1
  <1>6. q - 1 >= p
    <2> SUFFICES ASSUME q <= p PROVE FALSE
      BY <1>1, <1>2
    <2>1. I * q <= I * p
      BY <1>1, <1>2
    <2> QED BY <1>1, <1>2, <2>1
  <1>7. q - 1 = p
    BY <1>1, <1>2, <1>5, <1>6
  <1>8. t = I * p + (I - 1)
    BY <1>1, <1>2, <1>4, <1>7
  <1>9. t \div I = p
    <2>1. t = I * (t \div I) + (t % I) /\ t % I \in 0 .. (I - 1) /\ t \div I \in Nat
      BY Division
    <2> DEFINE m == t \div I
    <2>2. m \in Nat /\ t = I * m + (t % I) /\ t % I \in 0 .. (I - 1)
      BY <2>1
    <2> HIDE DEF m
    <2>3. m <= p
      <3> SUFFICES ASSUME m >= p + 1 PROVE FALSE
        BY <1>2, <2>2
      <3>1. I * m >= I * (p + 1)
        BY <1>2, <2>2
      <3> QED BY <1>2, <1>4, <1>8, <2>2, <3>1
    <2>4. m >= p
      <3> SUFFICES ASSUME p >= m + 1 PROVE FALSE
        BY <1>2, <2>2
      <3>1. I * p >= I * (m + 1) /\ I * (m + 1) = I * m + I
        BY <1>2, <2>2
      <3> QED BY <1>2, <1>8, <2>2, <3>1
    <2> QED BY <1>2, <2>2, <2>3, <2>4 DEF m
  <1> QED BY <1>9 DEF p

(* All heights have the same delegates. *)
OneList == \A h, k \in DOMAIN ListAt : ListAt[h] = ListAt[k]

(* A thread that sleeps in a turn of its own has tried it or waits for a    *)
(* slot further on; and the slots it passes over end in turns of others.    *)
Rested ==
  /\ pc # "look" => ~asleep
  /\ pc = "look" /\ asleep /\ MyTurn => tried = clock \div Interval \/ nextSlot > clock

Skipped ==
  \A t \in Nat : clock <= t /\ (t + 1) % Interval = 0 /\ t < nextSlot =>
    GetCurrentDelegate(ListAt[1], 1, t) \notin Mine

TriedInv == IInv /\ Rested /\ Skipped

(* The thread asks and the turn is not its own. *)
LEMMA GetMinerTries ==
  ASSUME ProducerAssumption, OneList, TriedInv, GetMiner
  PROVE  Rested' /\ Skipped'
  <1> DEFINE d == GetCurrentDelegate(ListAt[Len(chain) + 1], Len(prev) + 1, start)
  <1>1. /\ pc = "ask" /\ UNCHANGED <<chain, clock, tried, refused>>
        /\ Len(chain) + 1 \in DOMAIN ListAt
    BY DEF GetMiner
  <1>2. ~asleep
    BY <1>1 DEF TriedInv, Rested
  <1>3. CASE d \in Mine /\ pc' = "produce" /\ UNCHANGED <<prev, start, nextSlot, asleep>>
    BY <1>1, <1>2, <1>3 DEF TriedInv, Rested, Skipped
  <1>4. CASE /\ d \notin Mine
             /\ nextSlot' = SkipSlot(SlotTime(prev))
             /\ asleep' = (start = clock)
             /\ LoopAgain
    <2>1. /\ SlotTime(prev) \in Nat /\ SlotTime(prev) <= start
          /\ start \in Nat /\ clock \in Nat /\ start <= clock
          /\ Interval \in Nat \ {0}
      BY <1>1, SlotBounds DEF TriedInv, IInv, Working, TypeOK, ProducerAssumption
    <2>2. pc' = "look"
      BY <1>4 DEF LoopAgain
    <2>3. Rested'
      <3> SUFFICES ASSUME asleep', MyTurn' PROVE FALSE
        BY <2>2 DEF Rested
      <3>1. start = clock
        BY <1>4
      <3>2. GetCurrentDelegate(ListAt[Len(chain) + 1], Len(chain) + 1, clock) \in Mine
        BY <1>1 DEF MyTurn
      <3>3. GetCurrentDelegate(ListAt[Len(chain) + 1], Len(chain) + 1, clock) = d
        BY <3>1, TurnOfInterval
      <3> QED BY <1>4, <3>2, <3>3
    <2>4. nextSlot' <= start + Interval /\ nextSlot' \in Int
      <3> DEFINE a == SlotTime(prev) + Interval
                 b == start - (start % Interval)
      <3>1. start % Interval \in 0 .. (Interval - 1)
        BY <2>1, Division
      <3>2. a \in Int /\ b \in Int /\ a <= start + Interval /\ b <= start + Interval
        BY <2>1, <3>1
      <3> HIDE DEF a, b
      <3>3. Max({a, b}) = IF a >= b THEN a ELSE b
        BY <3>2, MaxOfTwo
      <3> QED BY <1>4, <3>2, <3>3 DEF SkipSlot, a, b
    <2>5. Skipped'
      <3> SUFFICES ASSUME NEW t \in Nat, clock <= t, (t + 1) % Interval = 0, t < nextSlot'
                   PROVE  GetCurrentDelegate(ListAt[1], 1, t) \notin Mine
        BY <1>1 DEF Skipped
      <3>1. start <= t /\ t < start + Interval
        BY <2>1, <2>4
      <3>2. t \div Interval = start \div Interval
        BY <2>1, <3>1, EndOfInterval
      <3>3. ListAt[1] = ListAt[Len(chain) + 1]
        <4>1. DOMAIN ListAt = 1 .. Len(ListAt) /\ Len(ListAt) \in Nat
          BY DEF ProducerAssumption
        <4>2. 1 \in DOMAIN ListAt
          BY <1>1, <4>1
        <4> QED BY <1>1, <4>2 DEF OneList
      <3>4. GetCurrentDelegate(ListAt[1], 1, t) = d
        BY <3>2, <3>3, TurnOfInterval
      <3> QED BY <1>4, <3>4
    <2> QED BY <2>3, <2>5
  <1> QED BY <1>3, <1>4 DEF GetMiner

(* The thread looks, and tries. *)
LEMMA LookTries ==
  ASSUME ProducerAssumption, TriedInv, Look
  PROVE  Rested' /\ Skipped'
  <1>1. /\ pc = "look" /\ ~asleep
        /\ UNCHANGED <<chain, clock, miner, nextSlot, tried, refused>>
    BY DEF Look
  <1>2. Skipped'
    BY <1>1 DEF TriedInv, Skipped
  <1>3. CASE pc' = "ask" /\ UNCHANGED asleep
    BY <1>1, <1>2, <1>3 DEF Rested
  <1>4. CASE /\ Obsolete(chain) \/ clock < SlotTime(chain)
             /\ asleep' = TRUE /\ UNCHANGED <<pc, prev, start>>
    <2> SUFFICES ASSUME MyTurn PROVE nextSlot > clock
      BY <1>1, <1>2, <1>4 DEF Rested, MyTurn, Obsolete, TipTime
    <2>1. /\ TipTime(chain) \in Nat /\ nextSlot \in Nat /\ clock \in Nat /\ Interval \in Nat
      BY TipIsLatest DEF TriedInv, IInv, TypeOK, ProducerAssumption
    <2>2. ~Obsolete(chain) /\ TipTime(chain) + Interval <= clock
      BY DEF MyTurn
    <2>3. SlotTime(chain) = IF nextSlot >= TipTime(chain) + Interval THEN nextSlot
                            ELSE TipTime(chain) + Interval
      BY <2>1, MaxOfTwo DEF SlotTime
    <2> QED BY <1>4, <2>1, <2>2, <2>3
  <1> QED BY <1>1, <1>3, <1>4 DEF Look

LEMMA ProduceTries ==
  ASSUME ProducerAssumption, TriedInv, Produce
  PROVE  Rested' /\ Skipped'
  <1>1. pc = "produce" /\ pc' = "look" /\ UNCHANGED <<clock, nextSlot>> /\ ~asleep
    BY DEF Produce, LoopAgain, TriedInv, Rested
  <1>2. Skipped'
    BY <1>1 DEF TriedInv, Skipped
  <1>3. CASE UNCHANGED asleep
    BY <1>1, <1>2, <1>3 DEF Rested
  <1>4. CASE asleep' = (start = clock) /\ tried' = start \div Interval
    BY <1>1, <1>2, <1>4 DEF Rested
  <1> QED BY <1>3, <1>4 DEF Produce

LEMMA StepTries ==
  ASSUME ProducerAssumption, OneList, TriedInv, [Next]_vars
  PROVE  TriedInv'
  <1>1. IInv'
    BY Step DEF TriedInv
  <1>2. CASE Look
    BY <1>1, <1>2, LookTries DEF TriedInv
  <1>3. CASE GetMiner
    BY <1>1, <1>3, GetMinerTries DEF TriedInv
  <1>4. CASE Produce
    BY <1>1, <1>4, ProduceTries DEF TriedInv
  <1>5. ASSUME asleep' = FALSE, UNCHANGED <<clock, thread>> PROVE TriedInv'
    BY <1>1, <1>5 DEF TriedInv, Rested, Skipped, thread
  <1>6. CASE Receive \/ Reorganise
    BY <1>5, <1>6 DEF Receive, Reorganise
  <1>7. CASE Tick
    <2>1. /\ asleep' = FALSE /\ clock' = clock + 1 /\ UNCHANGED <<pc, nextSlot>>
          /\ clock \in Nat
      BY <1>7 DEF Tick, thread, TriedInv, IInv, TypeOK, ProducerAssumption
    <2>2. Rested'
      BY <2>1 DEF Rested
    <2>3. Skipped'
      BY <2>1 DEF TriedInv, Skipped
    <2> QED BY <1>1, <2>2, <2>3 DEF TriedInv
  <1>8. ASSUME NEW n \in 0 .. Len(chain), Restart(n) PROVE TriedInv'
    <2>1. asleep' = FALSE /\ nextSlot' = 0
      BY <1>8 DEF Restart
    <2> QED BY <1>1, <2>1 DEF TriedInv, Rested, Skipped
  <1>9. CASE UNCHANGED vars
    <2>1. MyTurn' <=> MyTurn
      BY <1>9 DEF vars, MyTurn, Obsolete, TipTime
    <2> QED BY <1>1, <1>9, <2>1 DEF vars, TriedInv, Rested, Skipped
  <1> QED BY <1>2, <1>3, <1>4, <1>6, <1>7, <1>8, <1>9 DEF Next

(* While the delegates stay, the thread waits out no interval of a turn of  *)
(* its own in which a block could be made: when the clock leaves one and    *)
(* the thread is not at work, it has tried (ThreadBlockProducing's wait for *)
(* the next slot, CheckPackBlockTime).                                      *)
THEOREM TurnsAreTried ==
  ASSUME ProducerAssumption, OneList
  PROVE  Spec => [][TurnTried]_vars
  <1>1. ASSUME Init PROVE TriedInv
    <2>1. IInv
      BY <1>1, InitKeeps
    <2>2. pc = "look" /\ asleep = FALSE /\ nextSlot = 0
      BY <1>1 DEF Init
    <2>3. Rested
      BY <2>2 DEF Rested
    <2>4. ASSUME NEW t \in Nat PROVE ~(t < 0)
      OBVIOUS
    <2>5. Skipped
      BY <2>2, <2>4 DEF Skipped
    <2> QED BY <2>1, <2>3, <2>5 DEF TriedInv
  <1>2. TriedInv /\ [Next]_vars => TriedInv'
    BY StepTries
  <1>3. ASSUME TriedInv, [Next]_vars PROVE TurnTried \/ UNCHANGED vars
    <2> SUFFICES ASSUME clock' # clock, clock' % Interval = 0, pc = "look", MyTurn
                 PROVE  tried = clock \div Interval
      BY DEF TurnTried
    <2>1. Tick
      BY <1>3 DEF Next, Look, GetMiner, Produce, Receive, Reorganise, Restart, vars
    <2>2. asleep /\ clock' = clock + 1 /\ clock \in Nat
      BY <1>3, <2>1 DEF Tick, TriedInv, IInv, TypeOK, ProducerAssumption
    <2>3. tried = clock \div Interval \/ nextSlot > clock
      BY <1>3, <2>2 DEF TriedInv, Rested
    <2>4. ~(nextSlot > clock)
      <3>1. GetCurrentDelegate(ListAt[1], 1, clock) \in Mine
        <4>1. Len(chain) + 1 \in DOMAIN ListAt
              /\ GetCurrentDelegate(ListAt[Len(chain) + 1], Len(chain) + 1, clock) \in Mine
          BY DEF MyTurn
        <4>2. DOMAIN ListAt = 1 .. Len(ListAt) /\ Len(ListAt) \in Nat
          BY DEF ProducerAssumption
        <4>3. 1 \in DOMAIN ListAt
          BY <4>1, <4>2
        <4>4. ListAt[1] = ListAt[Len(chain) + 1]
          BY <4>1, <4>3 DEF OneList
        <4> QED BY <4>1, <4>4, TurnOfInterval
      <3>2. nextSlot \in Nat
        BY <1>3 DEF TriedInv, IInv, TypeOK, ProducerAssumption
      <3> QED BY <1>3, <2>2, <3>1, <3>2 DEF TriedInv, Skipped
    <2> QED BY <2>3, <2>4
  <1> QED BY <1>1, <1>2, <1>3, PTL DEF Spec

-----------------------------------------------------------------------------
(* Votes.  What a transaction does to the votes of its sender and what it   *)
(* does to its candidates are two folds over the same list; each is         *)
(* unfolded into a sequence of states, one after each vote.                 *)

GivenStates == [ok : BOOLEAN, given : [Account -> Int]]

TakenStates == [rec : [Account -> Int], idx : SUBSET (Int \X Account)]

(* The folds stay in their states. *)
LEMMA VoteSteps ==
  ASSUME DelegatesAssumption, NEW op \in VoteOp
  PROVE  /\ \A s \in GivenStates : ApplyVote(s, op) \in GivenStates
         /\ \A s \in TakenStates : ReceiveVote(s, op) \in TakenStates
  <1>1. op.cand \in Account /\ op.n \in Int
    BY DEF VoteOp, DelegatesAssumption
  <1>2. ASSUME NEW s \in GivenStates PROVE ApplyVote(s, op) \in GivenStates
    <2>1. s.given \in [Account -> Int] /\ s.ok \in BOOLEAN
      BY DEF GivenStates
    <2>2. /\ [s.given EXCEPT ![op.cand] = @ + op.n] \in [Account -> Int]
          /\ [s.given EXCEPT ![op.cand] = @ - op.n] \in [Account -> Int]
      BY <1>1, <2>1
    <2> QED BY <2>1, <2>2 DEF ApplyVote, GivenStates
  <1>3. ASSUME NEW s \in TakenStates PROVE ReceiveVote(s, op) \in TakenStates
    <2>1. s.rec \in [Account -> Int] /\ s.idx \in SUBSET (Int \X Account)
      BY DEF TakenStates
    <2>2. Staked(s.rec, op) \in [Account -> Int]
      BY <1>1, <2>1 DEF Staked
    <2>3. Reindexed(s.idx, op.cand, s.rec[op.cand], Staked(s.rec, op)[op.cand])
            \in SUBSET (Int \X Account)
      <3>1. s.rec[op.cand] \in Int /\ Staked(s.rec, op)[op.cand] \in Int
        BY <1>1, <2>1, <2>2
      <3> QED BY <1>1, <2>1, <3>1 DEF Reindexed
    <2> QED BY <2>2, <2>3 DEF ReceiveVote, TakenStates
  <1> QED BY <1>2, <1>3

(* The votes given, vote by vote. *)
LEMMA AppliedInSteps ==
  ASSUME DelegatesAssumption, NEW k \in Nat, NEW ops \in [1 .. k -> VoteOp],
         NEW base \in GivenStates
  PROVE  \E g \in [0 .. k -> GivenStates] :
           /\ g[0] = base
           /\ \A j \in 1 .. k : g[j] = ApplyVote(g[j - 1], ops[j])
           /\ FoldLeft(ApplyVote, base, ops) = g[k]
  <1> DEFINE Applies(f) == f = [S \in SUBSET DOMAIN ops |->
                IF S = {} THEN base ELSE ApplyVote(f[S \ {Max(S)}], ops[Max(S)])]
             c == CHOOSE f : Applies(f)
             step == [p \in GivenStates \X (1 .. k) |-> ApplyVote(p[1], ops[p[2]])]
  <1>1. FoldLeft(ApplyVote, base, ops) = c[DOMAIN ops]
    BY DEF FoldLeft, MapThenFoldSet
  <1>2. DOMAIN ops = 1 .. k /\ \A i \in 1 .. k : ops[i] \in VoteOp
    OBVIOUS
  <1>3. \A s \in GivenStates, i \in 1 .. k :
          step[<<s, i>>] = ApplyVote(s, ops[i]) /\ step[<<s, i>>] \in GivenStates
    BY <1>2, VoteSteps
  <1>4. PICK f : FoldsTo(step, base, k, f)
    <2> HIDE DEF step
    <2> QED BY FoldExists
  <1>5. \A S \in SUBSET (1 .. k) : f[S] \in GivenStates
    <2> HIDE DEF step
    <2> QED BY <1>3, <1>4, FoldStays
  <1>6. Applies(f)
    <2> HIDE DEF step
    <2>1. ASSUME NEW S \in SUBSET (1 .. k)
          PROVE  f[S] = IF S = {} THEN base ELSE ApplyVote(f[S \ {Max(S)}], ops[Max(S)])
      <3>1. f[S] = IF S = {} THEN base ELSE step[<<f[S \ {Max(S)}], Max(S)>>]
        BY <1>4 DEF FoldsTo
      <3>2. CASE S # {}
        <4>1. Max(S) \in 1 .. k /\ S \ {Max(S)} \in SUBSET (1 .. k)
          BY <3>2, MaxIsThere
        <4> QED BY <1>3, <1>5, <3>1, <3>2, <4>1
      <3> QED BY <3>1, <3>2
    <2>2. f = [S \in SUBSET (1 .. k) |-> f[S]]
      BY <1>4 DEF FoldsTo
    <2> QED BY <1>2, <2>1, <2>2
  <1>7. Applies(c)
    <2> HIDE DEF Applies
    <2> QED BY <1>6
  <1>8. \A S \in SUBSET (1 .. k) :
          c[S] = IF S = {} THEN base ELSE ApplyVote(c[S \ {Max(S)}], ops[Max(S)])
    <2> HIDE DEF c
    <2> QED BY <1>2, <1>7
  <1> HIDE DEF c
  <1> DEFINE g == [j \in 0 .. k |-> c[1 .. j]]
  <1>9. g[0] = base
    <2>1. 1 .. 0 = {} /\ 1 .. 0 \in SUBSET (1 .. k)
      OBVIOUS
    <2>2. c[1 .. 0] = base
      BY <1>8, <2>1
    <2>3. g[0] = c[1 .. 0]
      OBVIOUS
    <2> QED BY <2>2, <2>3
  <1>10. ASSUME NEW j \in 1 .. k PROVE g[j] = ApplyVote(g[j - 1], ops[j])
    <2>1. 1 .. j \in SUBSET (1 .. k) /\ 1 .. j \in SUBSET (1 .. j) /\ j \in 1 .. j
          /\ j \in Nat \ {0} /\ (1 .. j) \ {j} = 1 .. (j - 1) /\ j - 1 \in 0 .. k
      OBVIOUS
    <2>2. Max(1 .. j) = j
      BY <2>1, MaxOfInterval
    <2>3. c[1 .. j] = ApplyVote(c[1 .. (j - 1)], ops[j])
      BY <1>8, <2>1, <2>2
    <2> QED BY <2>1, <2>3
  <1>11. g \in [0 .. k -> GivenStates]
    <2> DEFINE good == {j \in Nat : j <= k => g[j] \in GivenStates}
    <2>1. 0 \in good
      BY <1>9
    <2>2. ASSUME NEW j \in good PROVE j + 1 \in good
      <3> SUFFICES ASSUME j + 1 <= k PROVE g[j + 1] \in GivenStates
        OBVIOUS
      <3>1. j \in Nat /\ j <= k /\ j + 1 \in 1 .. k /\ (j + 1) - 1 = j
        OBVIOUS
      <3>2. g[j] \in GivenStates
        BY <3>1
      <3> HIDE DEF g, good
      <3>3. g[j + 1] = ApplyVote(g[j], ops[j + 1])
        BY <1>10, <3>1
      <3> QED BY <1>2, <3>1, <3>2, <3>3, VoteSteps
    <2>3. good \in SUBSET Nat
      OBVIOUS
    <2>4. \A j \in 0 .. k : j \in good
      <3> HIDE DEF good
      <3>1. good = Nat
        BY <2>1, <2>2, <2>3, NatClosed
      <3> QED BY <3>1
    <2>5. \A j \in 0 .. k : g[j] \in GivenStates
      <3> HIDE DEF g
      <3> QED BY <2>4
    <2> QED BY <2>5
  <1>12. g[k] = c[DOMAIN ops]
    BY <1>2
  <1> HIDE DEF g
  <1> QED BY <1>1, <1>9, <1>10, <1>11, <1>12

(* The votes received, vote by vote. *)
LEMMA ReceivedInSteps ==
  ASSUME DelegatesAssumption, NEW k \in Nat, NEW ops \in [1 .. k -> VoteOp],
         NEW base \in TakenStates
  PROVE  \E g \in [0 .. k -> TakenStates] :
           /\ g[0] = base
           /\ \A j \in 1 .. k : g[j] = ReceiveVote(g[j - 1], ops[j])
           /\ FoldLeft(ReceiveVote, base, ops) = g[k]
  <1> DEFINE Receives(f) == f = [S \in SUBSET DOMAIN ops |->
                IF S = {} THEN base ELSE ReceiveVote(f[S \ {Max(S)}], ops[Max(S)])]
             c == CHOOSE f : Receives(f)
             step == [p \in TakenStates \X (1 .. k) |-> ReceiveVote(p[1], ops[p[2]])]
  <1>1. FoldLeft(ReceiveVote, base, ops) = c[DOMAIN ops]
    BY DEF FoldLeft, MapThenFoldSet
  <1>2. DOMAIN ops = 1 .. k /\ \A i \in 1 .. k : ops[i] \in VoteOp
    OBVIOUS
  <1>3. \A s \in TakenStates, i \in 1 .. k :
          step[<<s, i>>] = ReceiveVote(s, ops[i]) /\ step[<<s, i>>] \in TakenStates
    BY <1>2, VoteSteps
  <1>4. PICK f : FoldsTo(step, base, k, f)
    <2> HIDE DEF step
    <2> QED BY FoldExists
  <1>5. \A S \in SUBSET (1 .. k) : f[S] \in TakenStates
    <2> HIDE DEF step
    <2> QED BY <1>3, <1>4, FoldStays
  <1>6. Receives(f)
    <2> HIDE DEF step
    <2>1. ASSUME NEW S \in SUBSET (1 .. k)
          PROVE  f[S] = IF S = {} THEN base ELSE ReceiveVote(f[S \ {Max(S)}], ops[Max(S)])
      <3>1. f[S] = IF S = {} THEN base ELSE step[<<f[S \ {Max(S)}], Max(S)>>]
        BY <1>4 DEF FoldsTo
      <3>2. CASE S # {}
        <4>1. Max(S) \in 1 .. k /\ S \ {Max(S)} \in SUBSET (1 .. k)
          BY <3>2, MaxIsThere
        <4> QED BY <1>3, <1>5, <3>1, <3>2, <4>1
      <3> QED BY <3>1, <3>2
    <2>2. f = [S \in SUBSET (1 .. k) |-> f[S]]
      BY <1>4 DEF FoldsTo
    <2> QED BY <1>2, <2>1, <2>2
  <1>7. Receives(c)
    <2> HIDE DEF Receives
    <2> QED BY <1>6
  <1>8. \A S \in SUBSET (1 .. k) :
          c[S] = IF S = {} THEN base ELSE ReceiveVote(c[S \ {Max(S)}], ops[Max(S)])
    <2> HIDE DEF c
    <2> QED BY <1>2, <1>7
  <1> HIDE DEF c
  <1> DEFINE g == [j \in 0 .. k |-> c[1 .. j]]
  <1>9. g[0] = base
    <2>1. 1 .. 0 = {} /\ 1 .. 0 \in SUBSET (1 .. k)
      OBVIOUS
    <2>2. c[1 .. 0] = base
      BY <1>8, <2>1
    <2>3. g[0] = c[1 .. 0]
      OBVIOUS
    <2> QED BY <2>2, <2>3
  <1>10. ASSUME NEW j \in 1 .. k PROVE g[j] = ReceiveVote(g[j - 1], ops[j])
    <2>1. 1 .. j \in SUBSET (1 .. k) /\ 1 .. j \in SUBSET (1 .. j) /\ j \in 1 .. j
          /\ j \in Nat \ {0} /\ (1 .. j) \ {j} = 1 .. (j - 1) /\ j - 1 \in 0 .. k
      OBVIOUS
    <2>2. Max(1 .. j) = j
      BY <2>1, MaxOfInterval
    <2>3. c[1 .. j] = ReceiveVote(c[1 .. (j - 1)], ops[j])
      BY <1>8, <2>1, <2>2
    <2> QED BY <2>1, <2>3
  <1>11. g \in [0 .. k -> TakenStates]
    <2> DEFINE good == {j \in Nat : j <= k => g[j] \in TakenStates}
    <2>1. 0 \in good
      BY <1>9
    <2>2. ASSUME NEW j \in good PROVE j + 1 \in good
      <3> SUFFICES ASSUME j + 1 <= k PROVE g[j + 1] \in TakenStates
        OBVIOUS
      <3>1. j \in Nat /\ j <= k /\ j + 1 \in 1 .. k /\ (j + 1) - 1 = j
        OBVIOUS
      <3>2. g[j] \in TakenStates
        BY <3>1
      <3> HIDE DEF g, good
      <3>3. g[j + 1] = ReceiveVote(g[j], ops[j + 1])
        BY <1>10, <3>1
      <3> QED BY <1>2, <3>1, <3>2, <3>3, VoteSteps
    <2>3. good \in SUBSET Nat
      OBVIOUS
    <2>4. \A j \in 0 .. k : j \in good
      <3> HIDE DEF good
      <3>1. good = Nat
        BY <2>1, <2>2, <2>3, NatClosed
      <3> QED BY <3>1
    <2>5. \A j \in 0 .. k : g[j] \in TakenStates
      <3> HIDE DEF g
      <3> QED BY <2>4
    <2> QED BY <2>5
  <1>12. g[k] = c[DOMAIN ops]
    BY <1>2
  <1> HIDE DEF g
  <1> QED BY <1>1, <1>9, <1>10, <1>11, <1>12

(* While the votes of v change, so do those of the candidates.              *)
Together(s, r, v) ==
  /\ s.ok => \A c \in Account : s.given[c] >= 0
  /\ \A c \in Account : r.rec[c] = received[c] + s.given[c] - votes[v][c]
  /\ \A e \in r.idx : e[2] \in registered /\ e[1] = r.rec[e[2]]
  /\ \A c \in registered :
       Listed(c) \/ r.rec[c] # received[c] => <<r.rec[c], c>> \in r.idx

(* One vote. *)
LEMMA OneVote ==
  ASSUME DelegatesAssumption, NEW op \in VoteOp, NEW v \in Account,
         votes[v] \in [Account -> Int], received \in [Account -> Int],
         registered \subseteq Account,
         NEW s \in GivenStates, NEW r \in TakenStates, Together(s, r, v)
  PROVE  Together(ApplyVote(s, op), ReceiveVote(r, op), v)
  <1> DEFINE c == op.cand
             s2 == ApplyVote(s, op)
             r2 == ReceiveVote(r, op)
             d == IF op.type = AddBcoin THEN op.n ELSE 0 - op.n
  <1>1. c \in Account /\ op.n \in Nat \ {0} /\ op.type \in {AddBcoin, MinusBcoin}
    BY DEF VoteOp, DelegatesAssumption
  <1>2. /\ s.ok \in BOOLEAN /\ s.given \in [Account -> Int]
        /\ r.rec \in [Account -> Int] /\ r.idx \in SUBSET (Int \X Account)
    BY DEF GivenStates, TakenStates
  <1>3. d \in Int /\ d # 0
    BY <1>1
  <1>4. /\ s2.given[c] = s.given[c] + d
        /\ \A a \in Account : a # c => s2.given[a] = s.given[a]
        /\ s2.ok => s.ok /\ s.given[c] + d >= 0
    <2>1. CASE op.type = AddBcoin
      <3>1. s2.given = [s.given EXCEPT ![c] = @ + op.n]
        BY <2>1 DEF ApplyVote
      <3>2. s2.ok => s.ok
        BY <2>1 DEF ApplyVote
      <3>3. s.ok => s.given[c] + op.n >= 0
        <4>1. s.ok => s.given[c] \in Int /\ s.given[c] >= 0
          BY <1>1, <1>2 DEF Together
        <4> QED BY <1>1, <4>1
      <3> QED BY <1>1, <1>2, <2>1, <3>1, <3>2, <3>3
    <2>2. CASE op.type # AddBcoin
      <3>1. s2.given = [s.given EXCEPT ![c] = @ - op.n]
        BY <2>2 DEF ApplyVote
      <3>2. s2.ok => s.ok /\ s.given[c] >= op.n
        BY <2>2 DEF ApplyVote
      <3>3. s.given[c] \in Int
        BY <1>1, <1>2
      <3>4. s.given[c] - op.n = s.given[c] + d
        BY <1>1, <2>2, <3>3
      <3> QED BY <1>1, <1>2, <2>2, <3>1, <3>2, <3>3, <3>4
    <2> QED BY <2>1, <2>2
  <1>5. /\ r2.rec \in [Account -> Int]
        /\ r2.rec[c] = r.rec[c] + d
        /\ \A a \in Account : a # c => r2.rec[a] = r.rec[a]
        /\ r2.idx = Reindexed(r.idx, c, r.rec[c], r2.rec[c])
    <2>1. r2.rec = Staked(r.rec, op) /\ r2.idx = Reindexed(r.idx, c, r.rec[c], r2.rec[c])
      BY DEF ReceiveVote
    <2>2. CASE op.type = AddBcoin
      <3>1. r2.rec = [r.rec EXCEPT ![c] = @ + op.n]
        BY <2>1, <2>2 DEF Staked
      <3> QED BY <1>1, <1>2, <2>1, <2>2, <3>1
    <2>3. CASE op.type # AddBcoin
      <3>1. r2.rec = [r.rec EXCEPT ![c] = @ - op.n]
        BY <2>1, <2>3 DEF Staked
      <3>2. r.rec[c] \in Int
        BY <1>1, <1>2
      <3>3. r.rec[c] - op.n = r.rec[c] + d
        BY <1>1, <2>3, <3>2
      <3> QED BY <1>1, <1>2, <2>1, <3>1, <3>2, <3>3
    <2> QED BY <2>2, <2>3
  <1> HIDE DEF s2, r2, d
  <1>6. s2.ok => \A a \in Account : s2.given[a] >= 0
    BY <1>4 DEF Together
  <1>7. ASSUME NEW a \in Account PROVE r2.rec[a] = received[a] + s2.given[a] - votes[v][a]
    <2>1. r.rec[a] = received[a] + s.given[a] - votes[v][a]
      BY DEF Together
    <2>2. received[a] \in Int /\ s.given[a] \in Int /\ votes[v][a] \in Int
      BY <1>2
    <2>3. CASE a = c
      BY <1>3, <1>4, <1>5, <2>1, <2>2, <2>3
    <2>4. CASE a # c
      BY <1>4, <1>5, <2>1, <2>4
    <2> QED BY <2>3, <2>4
  <1>8. ASSUME NEW e \in r2.idx PROVE e[2] \in registered /\ e[1] = r2.rec[e[2]]
    <2>1. \A x \in r.idx : x \in Int \X Account /\ x[2] \in registered /\ x[1] = r.rec[x[2]]
      BY <1>2 DEF Together
    <2>2. CASE c \notin registered
      <3>1. r2.idx = r.idx
        BY <1>5, <2>2 DEF Reindexed
      <3>2. e[2] \in registered /\ e[1] = r.rec[e[2]] /\ e[2] \in Account /\ e[2] # c
        BY <2>1, <2>2, <3>1
      <3> QED BY <1>5, <3>2
    <2>3. CASE c \in registered
      <3>1. e \in r.idx \cup {<<r2.rec[c], c>>} /\ e # <<r.rec[c], c>>
        BY <1>5, <2>3 DEF Reindexed
      <3>2. CASE e = <<r2.rec[c], c>>
        BY <2>3, <3>2
      <3>3. CASE e # <<r2.rec[c], c>>
        <4>1. e \in r.idx /\ e \in Int \X Account /\ e[2] \in registered /\ e[1] = r.rec[e[2]]
          BY <2>1, <3>1, <3>3
        <4>2. e = <<e[1], e[2]>> /\ e[2] \in Account
          BY <4>1
        <4>3. e[2] # c
          BY <3>1, <4>1, <4>2
        <4> QED BY <1>5, <4>1, <4>2, <4>3
      <3> QED BY <3>2, <3>3
    <2> QED BY <2>2, <2>3
  <1>9. ASSUME NEW a \in registered, Listed(a) \/ r2.rec[a] # received[a]
        PROVE  <<r2.rec[a], a>> \in r2.idx
    <2>1. CASE a = c
      <3>1. r2.rec[c] # r.rec[c]
        BY <1>1, <1>2, <1>3, <1>5
      <3>2. <<r2.rec[c], c>> # <<r.rec[c], c>>
        BY <3>1
      <3> QED BY <1>5, <2>1, <3>2 DEF Reindexed
    <2>2. CASE a # c
      <3>1. r2.rec[a] = r.rec[a]
        BY <1>5, <2>2
      <3>2. <<r.rec[a], a>> \in r.idx
        BY <1>9, <3>1 DEF Together
      <3>3. <<r.rec[a], a>> # <<r.rec[c], c>>
        BY <2>2
      <3> QED BY <1>5, <3>1, <3>2, <3>3 DEF Reindexed
    <2> QED BY <2>1, <2>2
  <1>10. Together(s2, r2, v)
    BY <1>6, <1>7, <1>8, <1>9 DEF Together
  <1> QED BY <1>10 DEF s2, r2

(* All votes of a transaction. *)
LEMMA AllVotes ==
  ASSUME DelegatesAssumption, NEW k \in Nat, NEW ops \in [1 .. k -> VoteOp],
         NEW v \in Account, votes[v] \in [Account -> Nat], received \in [Account -> Nat],
         registered \subseteq Account, index \subseteq Int \X Account, IndexIsReceived
  PROVE  LET s == FoldLeft(ApplyVote, [ok |-> TRUE, given |-> votes[v]], ops)
             r == FoldLeft(ReceiveVote, [rec |-> received, idx |-> index], ops)
         IN  s \in GivenStates /\ r \in TakenStates /\ Together(s, r, v)
  <1> DEFINE s0 == [ok |-> TRUE, given |-> votes[v]]
             r0 == [rec |-> received, idx |-> index]
  <1>1. votes[v] \in [Account -> Int] /\ received \in [Account -> Int]
    OBVIOUS
  <1>2. s0 \in GivenStates /\ r0 \in TakenStates
    BY <1>1 DEF GivenStates, TakenStates
  <1>3. Together(s0, r0, v)
    <2>1. \A c \in Account : votes[v][c] >= 0 /\ received[c] = received[c] + votes[v][c] - votes[v][c]
      OBVIOUS
    <2>2. ASSUME NEW c \in registered, Listed(c) PROVE <<received[c], c>> \in index
      <3>1. PICK e \in index : e[2] = c
        BY <2>2 DEF Listed
      <3>2. e = <<e[1], e[2]>> /\ e[1] = received[c]
        BY <3>1 DEF IndexIsReceived
      <3> QED BY <3>1, <3>2
    <2> QED BY <2>1, <2>2 DEF Together, IndexIsReceived
  <1> HIDE DEF s0, r0
  <1>4. PICK g \in [0 .. k -> GivenStates] :
           /\ g[0] = s0
           /\ \A j \in 1 .. k : g[j] = ApplyVote(g[j - 1], ops[j])
           /\ FoldLeft(ApplyVote, s0, ops) = g[k]
    <2>1. s0 \in GivenStates
      BY <1>2
    <2> QED BY <2>1, AppliedInSteps, ZenonT(30)
  <1>5. PICK t \in [0 .. k -> TakenStates] :
           /\ t[0] = r0
           /\ \A j \in 1 .. k : t[j] = ReceiveVote(t[j - 1], ops[j])
           /\ FoldLeft(ReceiveVote, r0, ops) = t[k]
    <2>1. r0 \in TakenStates
      BY <1>2
    <2> QED BY <2>1, ReceivedInSteps, ZenonT(30)
  <1> DEFINE good == {j \in Nat : j <= k => Together(g[j], t[j], v)}
  <1>6. 0 \in good
    BY <1>3, <1>4, <1>5
  <1>7. ASSUME NEW j \in good PROVE j + 1 \in good
    <2> SUFFICES ASSUME j + 1 <= k PROVE Together(g[j + 1], t[j + 1], v)
      OBVIOUS
    <2>1. j \in Nat /\ j <= k /\ j + 1 \in 1 .. k /\ (j + 1) - 1 = j /\ j \in 0 .. k
      OBVIOUS
    <2>2. Together(g[j], t[j], v) /\ g[j] \in GivenStates /\ t[j] \in TakenStates
      BY <2>1
    <2>3. g[j + 1] = ApplyVote(g[j], ops[j + 1]) /\ t[j + 1] = ReceiveVote(t[j], ops[j + 1])
          /\ ops[j + 1] \in VoteOp
      BY <1>4, <1>5, <2>1
    <2> HIDE DEF good
    <2>4. Together(ApplyVote(g[j], ops[j + 1]), ReceiveVote(t[j], ops[j + 1]), v)
      BY <1>1, <2>2, <2>3, OneVote
    <2> QED BY <2>3, <2>4
  <1>8. Together(g[k], t[k], v)
    <2>1. good \in SUBSET Nat
      OBVIOUS
    <2>2. \A j \in good : j + 1 \in good
      <3> HIDE DEF good
      <3> QED BY <1>7
    <2>3. good = Nat
      <3> HIDE DEF good
      <3> QED BY <1>6, <2>1, <2>2, NatClosed
    <2>4. k \in good
      <3> HIDE DEF good
      <3> QED BY <2>3
    <2> QED BY <2>4
  <1>9. g[k] \in GivenStates /\ t[k] \in TakenStates
    OBVIOUS
  <1> QED BY <1>4, <1>5, <1>8, <1>9 DEF s0, r0

(* The coins to lock are a number no vote exceeds. *)
LEMMA TotalIsEnough ==
  ASSUME DelegatesAssumption, NEW given \in [Account -> Nat], NEW h
  PROVE  TotalVotes(given, h) \in Nat /\ \A c \in Account : given[c] <= TotalVotes(given, h)
  <1>0. IsFiniteSet(Account)
    BY DEF DelegatesAssumption
  <1>1. CASE h >= V2
    BY <1>0, <1>1, SumOfNats, SumAtLeast DEF TotalVotes
  <1>2. CASE ~(h >= V2)
    <2> DEFINE S == {given[c] : c \in Account} \cup {0}
    <2>1. TotalVotes(given, h) = Max(S)
      BY <1>2 DEF TotalVotes
    <2>2. CASE Account = {}
      <3>1. S = {0}
        BY <2>2
      <3>2. Max({0}) = 0
        BY LargestIsMax
      <3>3. TotalVotes(given, h) = 0
        BY <2>1, <3>1, <3>2
      <3> QED BY <2>2, <3>3
    <2>3. CASE Account # {}
      <3>1. PICK x \in Account : \A y \in Account : given[y] <= given[x]
        BY <1>0, <2>3, LargestExists
      <3>2. given[x] \in S /\ S \in SUBSET Int /\ \A y \in S : y <= given[x]
        BY <3>1
      <3>3. Max(S) = given[x]
        <4> HIDE DEF S
        <4> QED BY <3>2, LargestIsMax
      <3> QED BY <2>1, <3>1, <3>3
    <2> QED BY <2>2, <2>3
  <1> QED BY <1>1, <1>2

(* Up to V2 they are the largest vote. *)
LEMMA TotalOfLargest ==
  ASSUME NEW given \in [Account -> Nat], NEW h, ~(h >= V2),
         NEW keep \in Account, \A d \in Account : given[d] <= given[keep]
  PROVE  TotalVotes(given, h) = given[keep]
  <1> DEFINE S == {given[c] : c \in Account} \cup {0}
  <1>1. TotalVotes(given, h) = Max(S)
    BY DEF TotalVotes
  <1>2. given[keep] \in S /\ S \in SUBSET Int /\ \A y \in S : y <= given[keep]
    OBVIOUS
  <1>3. Max(S) = given[keep]
    <2> HIDE DEF S
    <2> QED BY <1>2, LargestIsMax
  <1> QED BY <1>1, <1>3

(* Who votes for one candidate locks his votes by either rule. *)
LEMMA TotalOfOne ==
  ASSUME DelegatesAssumption, NEW given \in [Account -> Nat], NEW h,
         NEW keep \in Account, \A d \in Account : d # keep => given[d] = 0
  PROVE  TotalVotes(given, h) = given[keep]
  <1>1. CASE h >= V2
    <2>1. Summable(given, Account)
      BY DEF Summable, DelegatesAssumption
    <2>2. SumFunctionOnSet(given, Account) = given[keep]
      BY <2>1, SumOnlyOne
    <2> QED BY <1>1, <2>2 DEF TotalVotes
  <1>2. CASE ~(h >= V2)
    <2>1. \A d \in Account : given[d] <= given[keep]
      OBVIOUS
    <2> QED BY <1>2, <2>1, TotalOfLargest
  <1> QED BY <1>1, <1>2

(* And who votes for none locks nothing. *)
LEMMA TotalOfNone ==
  ASSUME DelegatesAssumption, NEW given \in [Account -> Nat], NEW h,
         \A d \in Account : given[d] = 0
  PROVE  TotalVotes(given, h) = 0
  <1>1. CASE Account = {}
    <2>1. CASE h >= V2
      <3>1. Summable(given, Account)
        BY <1>1 DEF Summable, DelegatesAssumption
      <3> QED BY <1>1, <2>1, <3>1, SumBasics DEF TotalVotes
    <2>2. CASE ~(h >= V2)
      <3>1. {given[c] : c \in Account} \cup {0} = {0}
        BY <1>1
      <3>2. Max({0}) = 0
        BY LargestIsMax
      <3> QED BY <2>2, <3>1, <3>2 DEF TotalVotes
    <2> QED BY <2>1, <2>2
  <1>2. CASE Account # {}
    <2>1. PICK keep \in Account : TRUE
      BY <1>2
    <2> QED BY <2>1, TotalOfOne
  <1> QED BY <1>1, <1>2

-----------------------------------------------------------------------------
VotesInv ==
  /\ height \in Nat /\ registered \subseteq Account /\ index \subseteq Nat \X Account
  /\ VotesAgree

(* The votes for one candidate, by voter. *)
For(given, c) == [v \in Account |-> given[v][c]]

(* A step that leaves votes and entries alone. *)
LEMMA StillListed ==
  ASSUME VotesInv, UNCHANGED <<received, index>>
  PROVE  CandidatesStayListed
  <1> SUFFICES ASSUME NEW c \in registered, Listed(c) PROVE <<received[c], c>> \in index
    BY DEF CandidatesStayListed
  <1>1. PICK e \in index : e[2] = c
    BY DEF Listed
  <1>2. e = <<e[1], e[2]>> /\ e[1] = received[c]
    BY <1>1 DEF VotesInv, VotesAgree, IndexIsReceived
  <1> QED BY <1>1, <1>2

(* A vote transaction. *)
LEMMA VoteTxKeeps ==
  ASSUME DelegatesAssumption, VotesInv, NEW v \in Voter,
         NEW k \in 1 .. MaxOps, NEW ops \in [1 .. k -> VoteOp], VoteTx(v, ops)
  PROVE  VotesInv' /\ CandidatesStayListed
  <1> DEFINE s == FoldLeft(ApplyVote, [ok |-> TRUE, given |-> votes[v]], ops)
             r == FoldLeft(ReceiveVote, [rec |-> received, idx |-> index], ops)
             h == height + 1
             total == TotalVotes(s.given, h)
  <1>1. v \in Account /\ k \in Nat /\ IsFiniteSet(Account) /\ Coins \in Nat
    BY DEF DelegatesAssumption
  <1>2. /\ votes \in [Account -> [Account -> 0 .. Coins]] /\ received \in [Account -> Nat]
        /\ free \in [Account -> Nat] /\ voted \in [Account -> Nat]
        /\ \A a \in Account : free[a] + voted[a] = IF a \in Voter THEN Coins ELSE 0
    BY DEF VotesInv, VotesAgree, AmountsOK
  <1>3. /\ s.ok /\ total - voted[v] <= free[v]
        /\ free' = [free EXCEPT ![v] = @ + voted[v] - total]
        /\ voted' = [voted EXCEPT ![v] = total]
        /\ votes' = [votes EXCEPT ![v] = s.given]
        /\ received' = r.rec /\ index' = r.idx
        /\ height' = height /\ registered' = registered
    BY DEF VoteTx, Lock
  <1>4. \A a, c \in Account : votes[a][c] \in Nat
    BY <1>1, <1>2
  <1>5. s \in GivenStates /\ r \in TakenStates /\ Together(s, r, v)
    <2>1. votes[v] \in [Account -> Nat]
      BY <1>1, <1>2
    <2>2. registered \subseteq Account /\ index \subseteq Int \X Account /\ IndexIsReceived
      BY DEF VotesInv, VotesAgree
    <2> HIDE DEF s, r
    <2> QED BY <1>1, <1>2, <2>1, <2>2, AllVotes DEF s, r
  <1> HIDE DEF s, r
  <1>6. s.given \in [Account -> Nat] /\ r.rec \in [Account -> Int] /\ r.idx \in SUBSET (Int \X Account)
    <2>1. s.given \in [Account -> Int] /\ \A c \in Account : s.given[c] >= 0
      BY <1>3, <1>5 DEF Together, GivenStates
    <2> QED BY <1>5, <2>1 DEF TakenStates
  <1>7. total \in Nat /\ \A c \in Account : s.given[c] <= total
    BY <1>6, TotalIsEnough
  <1> HIDE DEF total
  <1>8. \A c \in Account : received'[c] = SumFunctionOnSet(For(votes', c), Account)
                           /\ received'[c] \in Nat
    <2> SUFFICES ASSUME NEW c \in Account
                 PROVE  received'[c] = SumFunctionOnSet(For(votes', c), Account)
                        /\ received'[c] \in Nat
      OBVIOUS
    <2> DEFINE f == For(votes, c)
               g == For(votes', c)
    <2>1. \A a \in Account : f[a] \in Nat /\ f[a] = votes[a][c]
      BY <1>4 DEF For
    <2>2. /\ \A a \in Account : g[a] \in Nat
          /\ g[v] = s.given[c] /\ \A a \in Account : a # v => g[a] = f[a]
      <3>1. votes'[v] = s.given /\ \A a \in Account : a # v => votes'[a] = votes[a]
        BY <1>1, <1>2, <1>3
      <3>2. \A a \in Account : g[a] = votes'[a][c]
        BY DEF For
      <3> HIDE DEF f, g
      <3>3. g[v] = s.given[c] /\ s.given[c] \in Nat
        BY <1>1, <1>6, <3>1, <3>2
      <3>4. \A a \in Account : a # v => g[a] = f[a]
        BY <2>1, <3>1, <3>2
      <3> QED BY <2>1, <3>3, <3>4
    <2>3. received[c] = SumFunctionOnSet(f, Account)
      BY DEF VotesInv, VotesAgree, VotesConserved, For
    <2>4. r.rec[c] = received[c] + s.given[c] - votes[v][c]
      BY <1>5 DEF Together
    <2> HIDE DEF f, g
    <2>5. Summable(f, Account) /\ Summable(g, Account)
      BY <1>1, <2>1, <2>2 DEF Summable
    <2>6. SumFunctionOnSet(g, Account) = SumFunctionOnSet(f, Account) - f[v] + g[v]
      BY <1>1, <2>2, <2>5, SumChanges
    <2>7. SumFunctionOnSet(g, Account) \in Nat
      BY <1>1, <2>2, SumOfNats
    <2>8. received[c] \in Int /\ s.given[c] \in Int /\ votes[v][c] \in Int
      BY <1>1, <1>2, <1>4, <1>6
    <2>9. received'[c] = SumFunctionOnSet(g, Account)
      BY <1>1, <1>3, <2>1, <2>2, <2>3, <2>4, <2>6, <2>8
    <2> QED BY <2>7, <2>9 DEF g
  <1>9. received' \in [Account -> Nat]
    BY <1>3, <1>6, <1>8
  <1>10. VotesConserved'
    BY <1>8 DEF VotesConserved, For
  <1>11. AmountsOK'
    <2>1. free[v] \in Nat /\ voted[v] \in Nat /\ free[v] + voted[v] = Coins
      BY <1>1, <1>2
    <2>2. free[v] + voted[v] - total \in Nat /\ total <= Coins
      BY <1>3, <1>7, <2>1
    <2>3. free' \in [Account -> Nat] /\ voted' \in [Account -> Nat]
      BY <1>1, <1>2, <1>3, <1>7, <2>2
    <2>4. \A a \in Account : free'[a] + voted'[a] = IF a \in Voter THEN Coins ELSE 0
      BY <1>1, <1>2, <1>3, <1>7, <2>1
    <2>5. s.given \in [Account -> 0 .. Coins]
      BY <1>1, <1>6, <1>7, <2>2
    <2>6. votes' \in [Account -> [Account -> 0 .. Coins]]
      BY <1>1, <1>2, <1>3, <2>5
    <2> QED BY <1>9, <2>3, <2>4, <2>6 DEF AmountsOK
  <1>12. VotedIsTotal'
    <2>1. \A a \in Account : a # v => voted'[a] = TotalVotes(votes'[a], height' + 1)
      BY <1>1, <1>2, <1>3 DEF VotesInv, VotesAgree, VotedIsTotal
    <2>2. voted'[v] = TotalVotes(votes'[v], height' + 1)
      BY <1>1, <1>2, <1>3 DEF total
    <2> QED BY <2>1, <2>2 DEF VotedIsTotal
  <1>13. IndexIsReceived' /\ index' \subseteq Nat \X Account
    <2>1. \A e \in index' : e \in Int \X Account /\ e[2] \in registered' /\ e[1] = received'[e[2]]
      BY <1>3, <1>5, <1>6 DEF Together
    <2>2. \A e \in index' : e \in Nat \X Account
      BY <1>9, <2>1
    <2> QED BY <2>1, <2>2 DEF IndexIsReceived
  <1>14. CandidatesStayListed
    BY <1>3, <1>5 DEF Together, CandidatesStayListed
  <1> QED BY <1>3, <1>10, <1>11, <1>12, <1>13, <1>14 DEF VotesInv, VotesAgree

(* The revocation at V2: what is left are the largest votes, and as many    *)
(* coins stay locked as before.                                             *)
LEMMA RevocationKeeps ==
  ASSUME DelegatesAssumption, VotesInv, Revocation(height + 1),
         NEW keep \in [{v \in Account : Candidates(votes[v]) # {}} -> Account],
         \A v \in DOMAIN keep : Kept(v, keep[v]),
         RevokeVotes(keep, height + 1), height' = height + 1, registered' = registered
  PROVE  VotesInv' /\ CandidatesStayListed
  <1> DEFINE h == height + 1
             givers == DOMAIN keep
             gone == Revoked(keep)
             rest == [v \in Account |-> [c \in Account |-> votes[v][c] - gone[v][c]]]
             lock == [v \in Account |-> IF v \in givers THEN TotalVotes(rest[v], h) ELSE voted[v]]
  <1>1. /\ height \in Nat /\ registered \subseteq Account /\ index \subseteq Nat \X Account
        /\ IsFiniteSet(Account) /\ Coins \in Nat /\ V2 \in Nat /\ h \in Nat /\ h + 1 = V2
    BY DEF VotesInv, DelegatesAssumption, Revocation
  <1>2. /\ votes \in [Account -> [Account -> 0 .. Coins]] /\ received \in [Account -> Nat]
        /\ free \in [Account -> Nat] /\ voted \in [Account -> Nat]
        /\ \A a \in Account : free[a] + voted[a] = IF a \in Voter THEN Coins ELSE 0
    BY DEF VotesInv, VotesAgree, AmountsOK
  <1>3. \A v \in Account : votes[v] \in [Account -> Nat]
    BY <1>1, <1>2
  <1>4. givers \subseteq Account /\ \A v \in givers : keep[v] \in Account
    OBVIOUS
  <1>5. \A v \in Account, c \in Account :
          gone[v][c] = IF v \in givers /\ keep[v] # c THEN votes[v][c] ELSE 0
    BY DEF Revoked
  <1> HIDE DEF gone
  <1>6. \A v, c \in Account :
          /\ rest[v][c] = votes[v][c] - gone[v][c]
          /\ rest[v][c] \in 0 .. Coins /\ gone[v][c] \in Nat
          /\ votes[v][c] = rest[v][c] + gone[v][c]
    <2> SUFFICES ASSUME NEW v \in Account, NEW c \in Account
                 PROVE  /\ rest[v][c] = votes[v][c] - gone[v][c]
                        /\ rest[v][c] \in 0 .. Coins /\ gone[v][c] \in Nat
                        /\ votes[v][c] = rest[v][c] + gone[v][c]
      OBVIOUS
    <2>1. votes[v][c] \in 0 .. Coins
      BY <1>2
    <2>2. rest[v][c] = votes[v][c] - gone[v][c]
      OBVIOUS
    <2>3. gone[v][c] = votes[v][c] \/ gone[v][c] = 0
      BY <1>5
    <2> HIDE DEF rest
    <2> QED BY <1>1, <2>1, <2>2, <2>3
  <1>7. rest \in [Account -> [Account -> 0 .. Coins]]
    BY <1>6
  <1>8. ASSUME NEW v \in givers
        PROVE  /\ \A d \in Account : d # keep[v] => rest[v][d] = 0
               /\ rest[v][keep[v]] = votes[v][keep[v]]
               /\ voted[v] = votes[v][keep[v]]
    <2>1. v \in Account /\ keep[v] \in Account
      BY <1>4
    <2>2. \A d \in Account : votes[v][d] \in Int /\ rest[v][d] = votes[v][d] - gone[v][d]
      BY <1>3, <1>6, <2>1
    <2>3. \A d \in Account : d # keep[v] => gone[v][d] = votes[v][d]
      BY <1>5, <2>1
    <2>4. gone[v][keep[v]] = 0
      BY <1>5, <2>1
    <2>5. TotalVotes(votes[v], h) = votes[v][keep[v]]
      <3>1. \A d \in Account : votes[v][d] <= votes[v][keep[v]]
        BY DEF Kept
      <3>2. ~(h >= V2)
        BY <1>1
      <3> HIDE DEF h
      <3> QED BY <1>3, <2>1, <3>1, <3>2, TotalOfLargest
    <2>6. voted[v] = TotalVotes(votes[v], h)
      BY <2>1 DEF VotesInv, VotesAgree, VotedIsTotal
    <2> HIDE DEF rest
    <2> QED BY <2>1, <2>2, <2>3, <2>4, <2>5, <2>6
  <1>9. ASSUME NEW v \in Account, v \notin givers
        PROVE  \A d \in Account : votes[v][d] = 0 /\ rest[v][d] = 0
    <2>1. Candidates(votes[v]) = {}
      BY <1>9
    <2>2. \A d \in Account : votes[v][d] \in Nat /\ ~(votes[v][d] > 0)
      BY <1>3, <2>1 DEF Candidates
    <2>3. \A d \in Account : gone[v][d] = 0
      BY <1>5, <1>9
    <2>4. \A d \in Account : votes[v][d] = 0
      BY <2>2
    <2> QED BY <2>3, <2>4
  <1> HIDE DEF rest
  <1>10. \A v \in Account : rest[v] \in [Account -> Nat]
    BY <1>1, <1>7
  <1>11. ASSUME NEW v \in Account PROVE lock[v] = voted[v] /\ voted[v] = TotalVotes(rest[v], h + 1)
    <2>1. CASE v \in givers
      <3>1. \A i : TotalVotes(rest[v], i) = voted[v]
        <4> TAKE i
        <4>1. keep[v] \in Account /\ rest[v] \in [Account -> Nat]
          BY <1>4, <1>10, <2>1
        <4>2. TotalVotes(rest[v], i) = rest[v][keep[v]]
          BY <1>8, <2>1, <4>1, TotalOfOne
        <4> QED BY <1>8, <2>1, <4>2
      <3> QED BY <2>1, <3>1
    <2>2. CASE v \notin givers
      <3>1. TotalVotes(rest[v], h + 1) = 0
        BY <1>9, <1>10, <2>2, TotalOfNone
      <3>2. TotalVotes(votes[v], h) = 0
        BY <1>3, <1>9, <2>2, TotalOfNone
      <3>3. voted[v] = TotalVotes(votes[v], h)
        BY DEF VotesInv, VotesAgree, VotedIsTotal
      <3> QED BY <2>2, <3>1, <3>2, <3>3
    <2> QED BY <2>1, <2>2
  <1>12. votes' = rest
    BY DEF RevokeVotes, gone, rest
  <1>13. voted' = lock /\ free' = [v \in Account |-> free[v] + voted[v] - lock[v]]
    BY DEF RevokeVotes, gone, rest, lock
  <1>14. received' = [c \in Account |-> received[c] - SumFunctionOnSet(For(gone, c), Account)]
    BY DEF RevokeVotes, gone, For
  <1>15. index' = EntriesSet(received')
    BY DEF RevokeVotes
  <1> HIDE DEF lock
  <1>16. voted' = voted /\ free' = free
    <2>1. voted' = [v \in Account |-> voted[v]]
      BY <1>11, <1>13 DEF lock
    <2>2. \A v \in Account : free[v] + voted[v] - lock[v] = free[v]
      BY <1>2, <1>11
    <2>3. free' = [v \in Account |-> free[v]]
      BY <1>13, <2>2
    <2> QED BY <1>2, <2>1, <2>3
  <1>17. ASSUME NEW c \in Account
         PROVE  received'[c] = SumFunctionOnSet(For(rest, c), Account) /\ received'[c] \in Nat
    <2> DEFINE f == For(votes, c)
               g == For(gone, c)
               k == For(rest, c)
    <2>1. \A a \in Account : f[a] = k[a] + g[a] /\ k[a] \in Nat /\ g[a] \in Nat
      BY <1>1, <1>6 DEF For
    <2>2. received[c] = SumFunctionOnSet(f, Account)
      BY DEF VotesInv, VotesAgree, VotesConserved, For
    <2>3. received'[c] = received[c] - SumFunctionOnSet(g, Account)
      BY <1>14
    <2> HIDE DEF f, g, k
    <2>4. Summable(k, Account) /\ Summable(g, Account)
      BY <1>1, <2>1 DEF Summable
    <2>5. SumFunctionOnSet(f, Account) = SumFunctionOnSet(k, Account) + SumFunctionOnSet(g, Account)
      BY <2>1, <2>4, SumPlus
    <2>6. SumFunctionOnSet(k, Account) \in Nat /\ SumFunctionOnSet(g, Account) \in Nat
      BY <1>1, <2>1, SumOfNats
    <2>7. received'[c] = SumFunctionOnSet(k, Account)
      BY <2>2, <2>3, <2>5, <2>6
    <2> QED BY <2>6, <2>7 DEF k
  <1>18. received' \in [Account -> Nat]
    BY <1>14, <1>17
  <1>19. AmountsOK'
    BY <1>2, <1>7, <1>12, <1>16, <1>18 DEF AmountsOK
  <1>20. VotesConserved'
    BY <1>12, <1>17 DEF VotesConserved, For
  <1>21. VotedIsTotal'
    BY <1>11, <1>12, <1>16 DEF VotedIsTotal
  <1>22. IndexIsReceived' /\ index' \subseteq Nat \X Account
    <2> SUFFICES ASSUME NEW x \in index'
                 PROVE  x \in Nat \X Account /\ x[2] \in registered /\ x[1] = received'[x[2]]
      BY DEF IndexIsReceived
    <2>1. CASE \E c \in registered : received'[c] # received[c] /\ x = <<received'[c], c>>
      BY <1>1, <1>18, <2>1
    <2>2. CASE ~\E c \in registered : received'[c] # received[c] /\ x = <<received'[c], c>>
      <3>1. x \in index /\ ~\E c \in registered : received'[c] # received[c] /\ x = <<received[c], c>>
        BY <1>15, <2>2 DEF EntriesSet
      <3>2. x \in Nat \X Account /\ x[2] \in registered /\ x[1] = received[x[2]]
        BY <1>1, <3>1 DEF VotesInv, VotesAgree, IndexIsReceived
      <3>3. x = <<received[x[2]], x[2]>>
        BY <3>2
      <3>4. received'[x[2]] = received[x[2]]
        BY <3>1, <3>2, <3>3
      <3> QED BY <3>2, <3>4
    <2> QED BY <2>1, <2>2
  <1>23. CandidatesStayListed
    <2> SUFFICES ASSUME NEW c \in registered, Listed(c) \/ received'[c] # received[c]
                 PROVE  <<received'[c], c>> \in index'
      BY DEF CandidatesStayListed
    <2>1. CASE received'[c] # received[c]
      <3>1. ~\E d \in registered : received'[d] # received[d] /\ <<received'[c], c>> = <<received[d], d>>
        BY <2>1
      <3> QED BY <1>15, <2>1, <3>1 DEF EntriesSet
    <2>2. CASE received'[c] = received[c]
      <3>1. PICK e \in index : e[2] = c
        BY <2>2 DEF Listed
      <3>2. e = <<e[1], e[2]>> /\ e[1] = received[c]
        BY <1>1, <3>1 DEF VotesInv, VotesAgree, IndexIsReceived
      <3>3. ~\E d \in registered : received'[d] # received[d] /\ e = <<received[d], d>>
        BY <2>2, <3>1, <3>2
      <3> QED BY <1>15, <2>2, <3>1, <3>2, <3>3 DEF EntriesSet
    <2> QED BY <2>1, <2>2
  <1> QED BY <1>1, <1>19, <1>20, <1>21, <1>22, <1>23 DEF VotesInv, VotesAgree

(* At any other height the rule of the next block asks for the same coins.  *)
LEMMA EndBlockKeeps ==
  ASSUME DelegatesAssumption, VotesInv, EndBlock
  PROVE  VotesInv' /\ CandidatesStayListed
  <1> DEFINE h == height + 1
             givers == {v \in Account : Candidates(votes[v]) # {}}
  <1>1. height' = height + 1 /\ registered' = registered
    BY DEF EndBlock
  <1>2. CASE /\ Revocation(h)
             /\ \E keep \in [givers -> Account] :
                  /\ \A v \in givers : Kept(v, keep[v])
                  /\ RevokeVotes(keep, h)
    <2>1. PICK keep \in [givers -> Account] :
                  /\ \A v \in givers : Kept(v, keep[v])
                  /\ RevokeVotes(keep, h)
      BY <1>2
    <2>2. \A v \in DOMAIN keep : Kept(v, keep[v])
      BY <2>1
    <2> QED BY <1>1, <1>2, <2>1, <2>2, RevocationKeeps
  <1>3. CASE ~Revocation(h) /\ UNCHANGED <<free, voted, votes, received, index, lastVote>>
    <2>1. height \in Nat /\ V2 \in Nat /\ h + 1 # V2
      BY <1>3 DEF VotesInv, DelegatesAssumption, Revocation
    <2>2. (h >= V2) <=> (h + 1 >= V2)
      BY <2>1
    <2>3. \A v \in Account : TotalVotes(votes[v], h) = TotalVotes(votes[v], h + 1)
      BY <2>2 DEF TotalVotes
    <2>4. VotedIsTotal'
      BY <1>1, <1>3, <2>3 DEF VotesInv, VotesAgree, VotedIsTotal
    <2>5. AmountsOK' /\ VotesConserved' /\ IndexIsReceived'
      BY <1>1, <1>3 DEF VotesInv, VotesAgree, AmountsOK, VotesConserved, IndexIsReceived
    <2>6. CandidatesStayListed
      BY <1>3, StillListed
    <2> QED BY <1>1, <1>3, <2>1, <2>4, <2>5, <2>6 DEF VotesInv, VotesAgree
  <1> QED BY <1>2, <1>3 DEF EndBlock

(* The genesis block. *)
LEMMA VotesStart ==
  ASSUME DelegatesAssumption, DelegatesInit
  PROVE  VotesInv
  <1>1. IsFiniteSet(Account) /\ Voter \subseteq Registered /\ Registered \subseteq Account /\ Coins \in Nat
    BY DEF DelegatesAssumption
  <1>2. /\ height = 0 /\ registered = Registered
        /\ free = [a \in Account |-> 0]
        /\ voted = [a \in Account |-> IF a \in Voter THEN Coins ELSE 0]
        /\ votes = [a \in Account |-> IF a \in Voter
                       THEN [[b \in Account |-> 0] EXCEPT ![a] = Coins] ELSE [b \in Account |-> 0]]
        /\ received = [a \in Account |-> IF a \in Voter THEN Coins ELSE 0]
        /\ index = {<<IF a \in Voter THEN Coins ELSE 0, a>> : a \in Voter}
    BY DEF DelegatesInit
  <1>3. \A a, c \in Account : votes[a][c] = IF a \in Voter /\ c = a THEN Coins ELSE 0
    BY <1>2
  <1>4. \A a \in Account : votes[a] \in [Account -> 0 .. Coins] /\ votes[a] \in [Account -> Nat]
    BY <1>1, <1>2
  <1>5. AmountsOK
    BY <1>1, <1>2, <1>4 DEF AmountsOK
  <1>6. VotesConserved
    <2> SUFFICES ASSUME NEW c \in Account
                 PROVE  received[c] = SumFunctionOnSet(For(votes, c), Account)
      BY DEF VotesConserved, For
    <2> DEFINE f == For(votes, c)
    <2>1. \A a \in Account : f[a] = IF a \in Voter /\ c = a THEN Coins ELSE 0
      BY <1>3 DEF For
    <2> HIDE DEF f
    <2>2. Summable(f, Account)
      BY <1>1, <2>1 DEF Summable
    <2>3. \A a \in Account : a # c => f[a] = 0
      BY <2>1
    <2>4. SumFunctionOnSet(f, Account) = f[c]
      BY <2>2, <2>3, SumOnlyOne
    <2>5. received[c] = f[c]
      BY <1>2, <2>1
    <2> QED BY <2>4, <2>5 DEF f
  <1>7. VotedIsTotal
    <2> SUFFICES ASSUME NEW v \in Account PROVE voted[v] = TotalVotes(votes[v], height + 1)
      BY DEF VotedIsTotal
    <2>1. \A d \in Account : d # v => votes[v][d] = 0
      BY <1>3
    <2>2. TotalVotes(votes[v], height + 1) = votes[v][v]
      BY <1>4, <2>1, TotalOfOne
    <2> QED BY <1>2, <1>3, <2>2
  <1>8. IndexIsReceived /\ index \subseteq Nat \X Account
    BY <1>1, <1>2 DEF IndexIsReceived
  <1> QED BY <1>1, <1>2, <1>5, <1>6, <1>7, <1>8 DEF VotesInv, VotesAgree

(* Every step. *)
LEMMA VotesStep ==
  ASSUME DelegatesAssumption, VotesInv, [DelegatesNext]_delegateVars
  PROVE  VotesInv' /\ CandidatesStayListed
  <1>1. ASSUME NEW v \in Voter, NEW k \in 1 .. MaxOps, NEW ops \in [1 .. k -> VoteOp],
               VoteTx(v, ops)
        PROVE  VotesInv' /\ CandidatesStayListed
    BY <1>1, VoteTxKeeps
  <1>2. ASSUME NEW a \in Account, RegisterAccountPubKey(a)
        PROVE  VotesInv' /\ CandidatesStayListed
    <2>1. CandidatesStayListed
      BY <1>2, StillListed DEF RegisterAccountPubKey
    <2> QED BY <1>2, <2>1 DEF RegisterAccountPubKey, VotesInv, VotesAgree, AmountsOK,
                              VotesConserved, VotedIsTotal, IndexIsReceived
  <1>3. ASSUME UNCHANGED <<height, accounts>>
        PROVE  VotesInv' /\ CandidatesStayListed
    <2>1. CandidatesStayListed
      BY <1>3, StillListed DEF accounts
    <2> QED BY <1>3, <2>1 DEF accounts, VotesInv, VotesAgree, AmountsOK, VotesConserved,
                              VotedIsTotal, IndexIsReceived
  <1>4. ASSUME NEW n, NEW from, ExecuteBpSize(n, from) PROVE VotesInv' /\ CandidatesStayListed
    BY <1>3, <1>4 DEF ExecuteBpSize
  <1>5. ASSUME NEW m, ExecuteMinVote(m) PROVE VotesInv' /\ CandidatesStayListed
    BY <1>3, <1>5 DEF ExecuteMinVote
  <1>6. CASE EndBlock
    BY <1>6, EndBlockKeeps
  <1>7. CASE UNCHANGED delegateVars
    BY <1>3, <1>7 DEF delegateVars
  <1> QED BY <1>1, <1>2, <1>4, <1>5, <1>6, <1>7 DEF DelegatesNext

(* However accounts vote, revoke and register, and across the changes of    *)
(* the rules: what candidates have received is what voters have given, what *)
(* a voter has locked is what the next block's rule asks for, no coin is    *)
(* made or lost, and the order of candidates has the votes they received    *)
(* (CDelegateVoteTx::ExecuteTx, ComputeVoteStakingInterestAndRevokeVotes).  *)
THEOREM VotesAlwaysAgree ==
  ASSUME DelegatesAssumption
  PROVE  DelegatesSpec => []VotesAgree
  <1>1. DelegatesInit => VotesInv
    BY VotesStart
  <1>2. VotesInv /\ [DelegatesNext]_delegateVars => VotesInv'
    BY VotesStep
  <1>3. VotesInv => VotesAgree
    BY DEF VotesInv
  <1> QED BY <1>1, <1>2, <1>3, PTL DEF DelegatesSpec

(* However accounts vote, revoke and register, and across the changes of    *)
(* the rules: a registered candidate is in the order of candidates with its *)
(* new votes as soon as they change, and never leaves it, also if it was    *)
(* voted for before it registered (SetDelegateVotes,                        *)
(* ComputeVoteStakingInterestAndRevokeVotes).                               *)
THEOREM ElectionsAlwaysSeeVotes ==
  ASSUME DelegatesAssumption
  PROVE  DelegatesSpec => ElectionsSeeVotes
  <1>1. DelegatesInit => VotesInv
    BY VotesStart
  <1>2. VotesInv /\ [DelegatesNext]_delegateVars => VotesInv'
    BY VotesStep
  <1>3. VotesInv /\ [DelegatesNext]_delegateVars => [CandidatesStayListed]_delegateVars
    BY VotesStep
  <1> QED BY <1>1, <1>2, <1>3, PTL DEF DelegatesSpec, ElectionsSeeVotes

-----------------------------------------------------------------------------
(* A list that waits to become the active one is not empty. *)
SomePending ==
  /\ pending.state \in {"PENDING", "ACTIVATED"}
  /\ pending.state = "PENDING" => pending.top # {}

(* The end of a block, for the lists. *)
LEMMA BlockDelegatesKept ==
  ASSUME SomePending, NEW idx, NEW lv, NEW h, ProcessBlockDelegates(idx, lv, h)
  PROVE  SomePending' /\ SomeStayActive
  <1> DEFINE gen == IF CountingDue(lv, h) THEN GenPendingDelegates(idx, h) ELSE pending
             due == /\ gen.state # "ACTIVATED"
                    /\ h - gen.counted >= (IF h < V3 THEN 0 ELSE Delay)
  <1>1. /\ gen.state \in {"PENDING", "ACTIVATED"}
        /\ gen.state = "PENDING" => gen.top # {}
    BY DEF CountingDue, GenPendingDelegates, SomePending
  <1>2. active' = IF due THEN gen.top ELSE active
    BY DEF ProcessBlockDelegates
  <1>3. pending' = IF due THEN [gen EXCEPT !.state = "ACTIVATED"] ELSE gen
    BY DEF ProcessBlockDelegates
  <1> HIDE DEF gen
  <1>4. due => gen.top # {}
    BY <1>1
  <1>5. due => pending'.state = "ACTIVATED"
    BY <1>3
  <1>6. ~due => pending' = gen
    BY <1>3
  <1> HIDE DEF due
  <1> QED BY <1>1, <1>2, <1>4, <1>5, <1>6 DEF SomePending, SomeStayActive

(* A chain that has active delegates never loses them all, whatever counts  *)
(* find and whatever governance asks for (GenPendingDelegates).             *)
THEOREM DelegatesStayActive == DelegatesSpec => [][SomeStayActive]_delegateVars
  <1>1. DelegatesInit => SomePending
    BY DEF DelegatesInit, SomePending
  <1>2. ASSUME SomePending, [DelegatesNext]_delegateVars
        PROVE  SomePending' /\ (SomeStayActive \/ UNCHANGED delegateVars)
    <2>1. ASSUME UNCHANGED <<pending, active>> PROVE SomePending' /\ SomeStayActive
      BY <1>2, <2>1 DEF SomePending, SomeStayActive
    <2>2. ASSUME NEW v, NEW ops, VoteTx(v, ops) PROVE SomePending' /\ SomeStayActive
      BY <2>1, <2>2 DEF VoteTx
    <2>3. ASSUME NEW a, RegisterAccountPubKey(a) PROVE SomePending' /\ SomeStayActive
      BY <2>1, <2>3 DEF RegisterAccountPubKey
    <2>4. ASSUME NEW n, NEW from, ExecuteBpSize(n, from) PROVE SomePending' /\ SomeStayActive
      BY <2>1, <2>4 DEF ExecuteBpSize
    <2>5. ASSUME NEW m, ExecuteMinVote(m) PROVE SomePending' /\ SomeStayActive
      BY <2>1, <2>5 DEF ExecuteMinVote
    <2>6. ASSUME EndBlock PROVE SomePending' /\ SomeStayActive
      <3>1. PICK idx, lv, h : ProcessBlockDelegates(idx, lv, h)
        BY <2>6 DEF EndBlock, RevokeVotes
      <3> QED BY <1>2, <3>1, BlockDelegatesKept
    <2>7. ASSUME UNCHANGED delegateVars PROVE SomePending'
      BY <1>2, <2>7 DEF delegateVars, SomePending
    <2> QED BY <1>2, <2>2, <2>3, <2>4, <2>5, <2>6, <2>7 DEF DelegatesNext
  <1> QED BY <1>1, <1>2, PTL DEF DelegatesSpec

-----------------------------------------------------------------------------
(* The order of the index is total, and a list is its first delegates: who  *)
(* is on a list of a given length depends on nothing but the length.        *)
LEMMA MoreAhead ==
  ASSUME NEW idx, IsFiniteSet(idx), idx \subseteq Nat \X Nat, NEW e \in idx, NEW f \in idx
  PROVE  /\ IsFiniteSet(Ahead(idx, e)) /\ Cardinality(Ahead(idx, e)) \in Nat
         /\ e \notin Ahead(idx, e)
         /\ e # f => Before(e, f) \/ Before(f, e)
         /\ Before(e, f) => Cardinality(Ahead(idx, e)) < Cardinality(Ahead(idx, f))
  <1>1. \A x \in idx : x[1] \in Nat /\ x[2] \in Nat /\ x = <<x[1], x[2]>>
    OBVIOUS
  <1>2. \A x \in idx : IsFiniteSet(Ahead(idx, x)) /\ Cardinality(Ahead(idx, x)) \in Nat
    BY FS_Subset, FS_CardinalityType DEF Ahead
  <1>3. e \notin Ahead(idx, e)
    BY <1>1 DEF Ahead, Before
  <1>4. ASSUME e # f PROVE Before(e, f) \/ Before(f, e)
    <2>1. e[1] # f[1] \/ e[2] # f[2]
      BY <1>1, <1>4
    <2> QED BY <1>1, <2>1 DEF Before
  <1>5. ASSUME Before(e, f) PROVE Cardinality(Ahead(idx, e)) < Cardinality(Ahead(idx, f))
    <2>1. Ahead(idx, e) \subseteq Ahead(idx, f)
      BY <1>1, <1>5 DEF Ahead, Before
    <2>2. e \in Ahead(idx, f)
      BY <1>5 DEF Ahead
    <2>3. Ahead(idx, e) # Ahead(idx, f)
      BY <1>3, <2>2
    <2> QED BY <1>2, <2>1, <2>3, FS_Subset
  <1> QED BY <1>2, <1>3, <1>4, <1>5

LEMMA LeadersAreFew ==
  ASSUME NEW idx, IsFiniteSet(idx), idx \subseteq Nat \X Nat, NEW n \in Nat, NEW h
  PROVE  /\ IsFiniteSet(Leading(idx, n, h)) /\ Cardinality(Leading(idx, n, h)) \in Nat
         /\ Cardinality(Leading(idx, n, h)) <= n
  <1> DEFINE S == Leading(idx, n, h)
             rank == [e \in S |-> Cardinality(Ahead(idx, e))]
  <1>1. S \subseteq idx /\ \A e \in S : Cardinality(Ahead(idx, e)) < n
    BY DEF Leading, Eligible
  <1> HIDE DEF S
  <1>2. IsFiniteSet(S) /\ Cardinality(S) \in Nat
    BY <1>1, FS_Subset, FS_CardinalityType
  <1>3. \A e \in S : rank[e] \in 0 .. n - 1
    BY <1>1, MoreAhead
  <1>4. \A e, f \in S : rank[e] = rank[f] => e = f
    <2> SUFFICES ASSUME NEW e \in S, NEW f \in S, e # f PROVE rank[e] # rank[f]
      OBVIOUS
    <2>1. e \in idx /\ f \in idx
      BY <1>1
    <2>2. Before(e, f) \/ Before(f, e)
      BY <2>1, MoreAhead
    <2>3. /\ Cardinality(Ahead(idx, e)) \in Nat /\ Cardinality(Ahead(idx, f)) \in Nat
          /\ Before(e, f) => Cardinality(Ahead(idx, e)) < Cardinality(Ahead(idx, f))
          /\ Before(f, e) => Cardinality(Ahead(idx, f)) < Cardinality(Ahead(idx, e))
      BY <2>1, MoreAhead
    <2>4. Cardinality(Ahead(idx, e)) # Cardinality(Ahead(idx, f))
      BY <2>2, <2>3
    <2> QED BY <2>4
  <1>5. rank \in Injection(S, 0 .. n - 1)
    BY <1>3, <1>4 DEF Injection, IsInjective
  <1>6. IsFiniteSet(0 .. n - 1) /\ Cardinality(0 .. n - 1) = n
    BY FS_Interval
  <1>7. Cardinality(S) <= n
    BY <1>5, <1>6, FS_Injection
  <1> QED BY <1>2, <1>7 DEF S

LEMMA LeadersLead ==
  ASSUME NEW idx, IsFiniteSet(idx), idx \subseteq Nat \X Nat, minVote \in Nat,
         NEW n \in Nat, NEW h, NEW e \in Leading(idx, n, h)
  PROVE  Ahead(idx, e) \subseteq Leading(idx, n, h)
  <1> SUFFICES ASSUME NEW f \in Ahead(idx, e) PROVE f \in Leading(idx, n, h)
    OBVIOUS
  <1>1. e \in idx /\ f \in idx /\ Before(f, e)
    BY DEF Ahead, Leading, Eligible
  <1>2. Cardinality(Ahead(idx, e)) < n
    BY DEF Leading
  <1>3. Cardinality(Ahead(idx, f)) < Cardinality(Ahead(idx, e)) /\ Cardinality(Ahead(idx, f)) \in Nat
        /\ Cardinality(Ahead(idx, e)) \in Nat
    BY <1>1, MoreAhead
  <1>4. f[1] >= e[1] /\ f[1] \in Nat /\ e[1] \in Nat
    BY <1>1 DEF Before
  <1>5. e \in Eligible(idx, h)
    BY DEF Leading
  <1>6. f \in Eligible(idx, h)
    BY <1>1, <1>4, <1>5 DEF Eligible
  <1> QED BY <1>2, <1>3, <1>6 DEF Leading

LEMMA LeadersByNumber ==
  ASSUME NEW idx, IsFiniteSet(idx), idx \subseteq Nat \X Nat, minVote \in Nat,
         NEW n \in Nat, NEW m \in Nat, NEW h, Cardinality(Leading(idx, n, h)) = m
  PROVE  Leading(idx, n, h) = Leading(idx, m, h)
  <1> DEFINE A == Leading(idx, n, h)
             B == Leading(idx, m, h)
  <1>1. \A e \in idx : Cardinality(Ahead(idx, e)) \in Nat
    BY MoreAhead
  <1>2. /\ IsFiniteSet(A) /\ IsFiniteSet(B)
        /\ Cardinality(B) \in Nat /\ Cardinality(B) <= m
    BY LeadersAreFew
  <1>3. A \subseteq idx /\ B \subseteq idx
    BY DEF Leading, Eligible
  <1>4. CASE n <= m
    <2>1. A \subseteq B
      BY <1>1, <1>4, <1>3 DEF Leading
    <2> HIDE DEF A, B
    <2> QED BY <1>2, <2>1, FS_Subset DEF A, B
  <1>5. CASE m < n
    <2>1. B \subseteq A
      BY <1>1, <1>5, <1>3 DEF Leading
    <2>2. A \subseteq B
      <3> SUFFICES ASSUME NEW e \in A, e \notin B PROVE FALSE
        OBVIOUS
      <3>1. e \in idx /\ e \in Eligible(idx, h)
        BY <1>3 DEF Leading
      <3>2. Cardinality(Ahead(idx, e)) >= m
        BY <1>1, <3>1 DEF Leading
      <3>3. Ahead(idx, e) \subseteq A
        BY LeadersLead
      <3>4. IsFiniteSet(Ahead(idx, e)) /\ e \notin Ahead(idx, e)
        BY <3>1, MoreAhead
      <3>5. Ahead(idx, e) # A
        BY <3>4
      <3>6. Cardinality(A) = m
        OBVIOUS
      <3>7. IsFiniteSet(A)
        BY <1>2
      <3> HIDE DEF A, B
      <3>8. Cardinality(Ahead(idx, e)) \in Nat /\ Cardinality(Ahead(idx, e)) < m
        BY <1>1, <3>1, <3>3, <3>5, <3>6, <3>7, FS_Subset
      <3> QED BY <3>2, <3>8
    <2> QED BY <2>1, <2>2
  <1> QED BY <1>4, <1>5

LEMMA NobodyLeads ==
  ASSUME NEW idx, IsFiniteSet(idx), idx \subseteq Nat \X Nat, minVote \in Nat,
         NEW n \in Nat \ {0}, NEW m \in Nat, NEW h, Leading(idx, n, h) = {}
  PROVE  Leading(idx, m, h) = {}
  <1> SUFFICES ASSUME NEW e \in Leading(idx, m, h) PROVE FALSE
    OBVIOUS
  <1> DEFINE places == {Cardinality(Ahead(idx, f)) : f \in Eligible(idx, h)}
  <1>1. Eligible(idx, h) \subseteq idx /\ e \in Eligible(idx, h)
    BY DEF Leading, Eligible
  <1>2. places \subseteq Nat /\ places # {}
    BY <1>1, MoreAhead
  <1> HIDE DEF places
  <1>3. PICK k \in places : \A l \in places : k <= l
    BY <1>2, LeastNatural
  <1>4. PICK f \in Eligible(idx, h) : k = Cardinality(Ahead(idx, f))
    BY DEF places
  <1>5. f \in idx /\ k \in Nat /\ k >= n
    BY <1>1, <1>2, <1>4 DEF Leading
  <1>6. Ahead(idx, f) # {}
    BY <1>4, <1>5, FS_EmptySet
  <1>7. PICK g \in Ahead(idx, f) : TRUE
    BY <1>6
  <1>8. g \in idx /\ Before(g, f)
    BY <1>7 DEF Ahead
  <1>9. g \in Eligible(idx, h)
    <2>1. g[1] >= f[1] /\ g[1] \in Nat /\ f[1] \in Nat
      BY <1>5, <1>8 DEF Before
    <2> QED BY <1>4, <1>8, <2>1 DEF Eligible
  <1>10. Cardinality(Ahead(idx, g)) < k /\ Cardinality(Ahead(idx, g)) \in Nat
    BY <1>4, <1>5, <1>8, MoreAhead
  <1> QED BY <1>3, <1>5, <1>9, <1>10 DEF places

(* The rules of V3 or those of V35 hold since the last vote. *)
RulesInForce == lastVote >= V3 /\ (height < V35 \/ lastVote >= V35)

(* How long neither the votes nor the list they give have changed. *)
Quiet == Min({settled.for, height - lastVote})

(* The pending list is what a count of the index as it is now finds. *)
Counted ==
  \E n \in Nat \ {0} : \/ Leading(index, n, height) = {}
                       \/ pending.top = Leading(index, n, height)

ListTypes ==
  /\ height \in 0 .. MaxHeight /\ txs \in Nat /\ lastVote \in 0 .. height + 1
  /\ pending \in [state : {"PENDING", "ACTIVATED"}, counted : 0 .. height,
                  top : SUBSET (Nat \X Account)]
  /\ active \subseteq Nat \X Account
  /\ settled.for \in Nat /\ settled.top \subseteq Nat \X Account
  /\ bps.current \in Nat \ {0} /\ bps.new \in Nat /\ bps.from \in Nat
  /\ minVote \in Nat

(* A list waits no longer than the delay, and is the active one then.       *)
WaitIsShort ==
  /\ pending.state = "PENDING" => height - pending.counted < Delay
  /\ pending.state = "ACTIVATED" => active = pending.top

(* What was counted last is what the votes gave then. *)
CountIsTop ==
  /\ RulesInForce /\ lastVote <= pending.counted => Counted
  /\ settled.top # {} /\ height - pending.counted <= settled.for
       => pending.top = settled.top

(* A list that the votes give and that is not active has not been on top    *)
(* for longer than since the slot before the last, while another waits: it  *)
(* is counted in the next slot.                                             *)
ChangesTakeEffect ==
  RulesInForce /\ settled.top # {} =>
    /\ pending.state = "ACTIVATED" /\ active # settled.top
         => Quiet <= CountInterval - 1 + (height % CountInterval)
    /\ pending.state = "PENDING"
         => Quiet <= 2 * CountInterval - 1 + height - pending.counted

ListsInv == ListTypes /\ WaitIsShort /\ CountIsTop /\ ChangesTakeEffect

LEMMA MinOfTwo ==
  ASSUME NEW a \in Int, NEW b \in Int
  PROVE  Min({a, b}) = IF a <= b THEN a ELSE b
  BY DEF Min

(* The size of the list a count asks for. *)
LEMMA TotalPositive ==
  ASSUME ListTypes, NEW h \in Nat
  PROVE  TotalBpsSize(h) \in Nat \ {0}
  BY DEF ListTypes, TotalBpsSize

(* The index is finite: a candidate has one entry. *)
LEMMA IndexFinite ==
  ASSUME DelegatesAssumption, NEW idx, idx \subseteq Nat \X Account,
         NEW rec, \A e \in idx : e[1] = rec[e[2]]
  PROVE  IsFiniteSet(idx) /\ idx \subseteq Nat \X Nat
  <1> DEFINE f == [e \in idx |-> e[2]]
  <1>1. IsFiniteSet(Account) /\ Account \subseteq Nat
    BY DEF DelegatesAssumption
  <1>2. \A e \in idx : e[2] \in Account /\ e = <<e[1], e[2]>>
    OBVIOUS
  <1>3. f \in Injection(idx, Account)
    BY <1>2 DEF Injection, IsInjective
  <1>4. IsFiniteSet(idx)
    BY <1>1, <1>3, FS_Injection
  <1> QED BY <1>1, <1>4

(* The genesis block. *)
LEMMA ListsStart ==
  ASSUME DelegatesAssumption, DelegatesInit
  PROVE  ListsInv
  <1>1. /\ {Coins, V2, V3, MaxHeight, BpsSize} \subseteq Nat /\ V2 < V3 /\ BpsSize > 0
        /\ Voter \subseteq Account /\ MinVotes \subseteq Nat
    BY DEF DelegatesAssumption
  <1>2. settled.top \subseteq Nat \X Account /\ active = settled.top /\ pending.top = settled.top
    BY <1>1 DEF DelegatesInit
  <1>3. /\ height = 0 /\ lastVote = 0 /\ txs = 0 /\ settled.for = 0
        /\ pending = [state |-> "ACTIVATED", counted |-> 0, top |-> pending.top] /\ minVote \in MinVotes
        /\ bps.current = BpsSize /\ bps.new = 0 /\ bps.from = 0
    BY DEF DelegatesInit
  <1>4. ~RulesInForce
    BY <1>1, <1>3 DEF RulesInForce
  <1> QED BY <1>1, <1>2, <1>3, <1>4 DEF ListsInv, ListTypes, WaitIsShort, CountIsTop, ChangesTakeEffect

(* Transactions: the lists wait for the end of the block. *)
LEMMA TransactionsKeepLists ==
  ASSUME DelegatesAssumption, VotesInv, ListsInv,
         UNCHANGED <<height, pending, active, settled>>,
         \/ lastVote' = height + 1
         \/ UNCHANGED <<lastVote, index, minVote>>,
         txs' \in Nat, minVote' \in Nat,
         bps'.current \in Nat \ {0}, bps'.new \in Nat, bps'.from \in Nat
  PROVE  ListsInv'
  <1>1. /\ height \in Nat /\ height' = height /\ pending' = pending /\ active' = active
        /\ settled' = settled /\ settled.for \in Nat /\ lastVote \in 0 .. height + 1
        /\ pending.counted \in 0 .. height /\ CountInterval \in Nat \ {0}
    BY DEF ListsInv, ListTypes, DelegatesAssumption
  <1>2. lastVote' \in 0 .. height + 1
    BY <1>1
  <1>3. ListTypes'
    BY <1>1, <1>2 DEF ListsInv, ListTypes
  <1>4. WaitIsShort'
    BY <1>1 DEF ListsInv, WaitIsShort
  <1>5. CASE lastVote' = height + 1
    <2>1. ~(lastVote' <= pending'.counted)
      BY <1>1, <1>5
    <2>2. CountIsTop'
      BY <1>1, <2>1 DEF ListsInv, CountIsTop
    <2>3. Quiet' < 0
      <3>1. Quiet' = Min({settled.for, -1})
        BY <1>1, <1>5 DEF Quiet
      <3> QED BY <1>1, <3>1, MinOfTwo
    <2>4. height % CountInterval \in Nat
      BY <1>1, Division
    <2>5. Quiet' \in Int
      <3>1. Quiet' = Min({settled.for, -1})
        BY <1>1, <1>5 DEF Quiet
      <3> QED BY <1>1, <3>1, MinOfTwo
    <2>6. ChangesTakeEffect'
      BY <1>1, <2>3, <2>4, <2>5 DEF ChangesTakeEffect
    <2> QED BY <1>3, <1>4, <2>2, <2>6 DEF ListsInv
  <1>6. CASE UNCHANGED <<lastVote, index, minVote>>
    <2>1. RulesInForce' = RulesInForce /\ Quiet' = Quiet
      BY <1>1, <1>6 DEF RulesInForce, Quiet
    <2>2. \A n : Leading(index, n, height)' = Leading(index, n, height)
      BY <1>1, <1>6 DEF Leading, Eligible, Ahead
    <2>3. Counted' <=> Counted
      BY <1>1, <1>6, <2>2 DEF Counted
    <2>4. CountIsTop'
      BY <1>1, <1>6, <2>1, <2>3 DEF ListsInv, CountIsTop
    <2>5. ChangesTakeEffect'
      BY <1>1, <1>6, <2>1 DEF ListsInv, ChangesTakeEffect
    <2> QED BY <1>3, <1>4, <2>4, <2>5 DEF ListsInv
  <1> QED BY <1>5, <1>6

(* Heights between two slots. *)
LEMMA NextRest ==
  ASSUME NEW n \in Nat \ {0}, NEW m \in Nat, (m + 1) % n # 0
  PROVE  (m + 1) % n = (m % n) + 1
  <1> DEFINE p == m \div n
             q == (m + 1) \div n
             r == m % n
             s == (m + 1) % n
  <1>1. p \in Int /\ r \in 0 .. n - 1 /\ m = n * p + r
    BY Division
  <1>2. q \in Int /\ s \in 0 .. n - 1 /\ m + 1 = n * q + s
    <2>1. m + 1 \in Nat
      OBVIOUS
    <2> QED BY <2>1, Division
  <1>3. s # 0
    OBVIOUS
  <1> HIDE DEF p, q, r, s
  <1>0. n * p \in Int /\ n * q \in Int
    BY <1>1, <1>2
  <1>4. CASE q = p
    <2>1. m + 1 = n * p + s
      BY <1>2, <1>4
    <2>2. s = r + 1
      BY <1>0, <1>1, <1>2, <2>1
    <2> QED BY <2>2 DEF r, s
  <1>5. CASE q >= p + 1
    <2>1. n * q >= n * (p + 1) /\ n * (p + 1) = n * p + n
      BY <1>1, <1>2, <1>5
    <2> QED BY <1>0, <1>1, <1>2, <1>3, <2>1
  <1>6. CASE q <= p - 1
    <2>1. n * q <= n * (p - 1) /\ n * (p - 1) = n * p - n
      BY <1>1, <1>2, <1>6
    <2> QED BY <1>0, <1>1, <1>2, <2>1
  <1> QED BY <1>1, <1>2, <1>4, <1>5, <1>6

(* The end of a block, by what it counts. *)
LEMMA BlockCounts ==
  ASSUME ListTypes, NEW idx, NEW lv, NEW h, ProcessBlockDelegates(idx, lv, h)
  PROVE  \E g, c, t :
           /\ ~CountingDue(lv, h)
                => g = pending.state /\ c = pending.counted /\ t = pending.top
           /\ CountingDue(lv, h) =>
                LET top == TopVoteDelegates(idx, h) IN
                /\ c = h
                /\ t = IF top = {} THEN pending.top ELSE top
                /\ g = IF top = {} \/ (active # {} /\ top = active) THEN pending.state
                       ELSE "PENDING"
           /\ LET due == g # "ACTIVATED" /\ h - c >= (IF h < V3 THEN 0 ELSE Delay) IN
              /\ active' = IF due THEN t ELSE active
              /\ pending' = [state |-> IF due THEN "ACTIVATED" ELSE g, counted |-> c, top |-> t]
  <1> DEFINE gen == IF CountingDue(lv, h) THEN GenPendingDelegates(idx, h) ELSE pending
             due == /\ gen.state # "ACTIVATED"
                    /\ h - gen.counted >= (IF h < V3 THEN 0 ELSE Delay)
  <1>1. /\ active' = IF due THEN gen.top ELSE active
        /\ pending' = IF due THEN [gen EXCEPT !.state = "ACTIVATED"] ELSE gen
    BY DEF ProcessBlockDelegates
  <1>2. gen = [state |-> gen.state, counted |-> gen.counted, top |-> gen.top]
    <2>1. pending = [state |-> pending.state, counted |-> pending.counted, top |-> pending.top]
      BY DEF ListTypes
    <2> QED BY <2>1 DEF GenPendingDelegates
  <1>3. ~CountingDue(lv, h) => gen = pending
    OBVIOUS
  <1>4. CountingDue(lv, h) => gen = GenPendingDelegates(idx, h)
    OBVIOUS
  <1> HIDE DEF gen
  <1>5. pending' = [state |-> IF due THEN "ACTIVATED" ELSE gen.state,
                    counted |-> gen.counted, top |-> gen.top]
    BY <1>1, <1>2
  <1>6. CountingDue(lv, h) =>
          LET top == TopVoteDelegates(idx, h) IN
          /\ gen.counted = h
          /\ gen.top = IF top = {} THEN pending.top ELSE top
          /\ gen.state = IF top = {} \/ (active # {} /\ top = active) THEN pending.state
                         ELSE "PENDING"
    BY <1>4 DEF GenPendingDelegates
  <1>7. PICK g, c, t : g = gen.state /\ c = gen.counted /\ t = gen.top
    OBVIOUS
  <1>8. ~CountingDue(lv, h) => g = pending.state /\ c = pending.counted /\ t = pending.top
    BY <1>3, <1>7
  <1>9. CountingDue(lv, h) =>
          LET top == TopVoteDelegates(idx, h) IN
          /\ c = h
          /\ t = IF top = {} THEN pending.top ELSE top
          /\ g = IF top = {} \/ (active # {} /\ top = active) THEN pending.state
                 ELSE "PENDING"
    BY <1>6, <1>7
  <1>10. due <=> g # "ACTIVATED" /\ h - c >= (IF h < V3 THEN 0 ELSE Delay)
    BY <1>7
  <1>11. /\ active' = IF due THEN t ELSE active
         /\ pending' = [state |-> IF due THEN "ACTIVATED" ELSE g, counted |-> c, top |-> t]
    BY <1>1, <1>5, <1>7
  <1> HIDE DEF due
  <1> QED BY <1>8, <1>9, <1>10, <1>11

(* The list the votes give at the end of a block. *)
LEMMA TopSettles ==
  ASSUME DelegatesAssumption, ListTypes, NEW idx, NEW h, SettleTop(idx, h)
  PROVE  /\ settled'.top = TopVoteDelegates(idx, h) /\ settled'.for \in Nat
         /\ settled'.top # settled.top => settled'.for = 0
         /\ settled'.for <= settled.for + 1
  <1>1. settled.for + 1 \in Nat /\ MaxHeight \in Nat /\ settled.for \in Nat
    BY DEF DelegatesAssumption, ListTypes
  <1>2. Min({settled.for + 1, MaxHeight}) \in Nat
        /\ Min({settled.for + 1, MaxHeight}) <= settled.for + 1
    BY <1>1, MinOfTwo
  <1> QED BY <1>1, <1>2 DEF SettleTop

(* The end of a block.  A revocation is one of the rules before V3.         *)
LEMMA BlockKeepsLists ==
  ASSUME DelegatesAssumption, VotesInv, VotesInv', ListsInv, NEW idx, NEW lv,
         height < MaxHeight, height' = height + 1, UNCHANGED <<bps, minVote, txs>>,
         idx = index', lv = lastVote',
         \/ UNCHANGED <<index, lastVote>>
         \/ lastVote' = height + 1 /\ height + 1 < V3,
         ProcessBlockDelegates(idx, lv, height + 1), SettleTop(idx, height + 1)
  PROVE  ListsInv'
  <1> DEFINE h == height + 1
             T == TopVoteDelegates(idx, h)
             tot == TotalBpsSize(h)
             wait == IF h < V3 THEN 0 ELSE Delay
  <1>1. /\ height \in Nat /\ MaxHeight \in Nat /\ V3 \in Nat /\ V35 \in Nat /\ V3 < V35
        /\ Delay \in Nat /\ CountInterval \in Nat \ {0} /\ Delay <= CountInterval
    BY DEF DelegatesAssumption, ListsInv, ListTypes
  <1>2. /\ pending \in [state : {"PENDING", "ACTIVATED"}, counted : 0 .. height,
                        top : SUBSET (Nat \X Account)]
        /\ active \subseteq Nat \X Account /\ settled.for \in Nat
        /\ lastVote \in 0 .. height + 1 /\ minVote \in Nat /\ txs \in Nat
        /\ bps.current \in Nat \ {0} /\ bps.new \in Nat /\ bps.from \in Nat
    BY DEF ListsInv, ListTypes
  <1>3. lv \in 0 .. h /\ lastVote' = lv /\ index' = idx /\ height' = h
    BY <1>1, <1>2
  <1>4. IsFiniteSet(idx) /\ idx \subseteq Nat \X Nat /\ idx \subseteq Nat \X Account
    <2>1. idx \subseteq Nat \X Account /\ \A e \in idx : e[1] = received'[e[2]]
      BY <1>3 DEF VotesInv, VotesAgree, IndexIsReceived
    <2>2. IsFiniteSet(idx) /\ idx \subseteq Nat \X Nat
      BY <2>1, IndexFinite
    <2> QED BY <2>1, <2>2
  <1>5. tot \in Nat \ {0} /\ T = Leading(idx, tot, h)
    BY <1>1, TotalPositive DEF TopVoteDelegates, ListsInv
  <1>6. T \subseteq Nat \X Account
    BY <1>4, <1>5 DEF Leading, Eligible
  <1>7. /\ settled'.top = T /\ settled'.for \in Nat
        /\ settled'.top # settled.top => settled'.for = 0
        /\ settled'.for <= settled.for + 1
    BY TopSettles DEF ListsInv
  <1>8. \A n : Leading(index, n, height)' = Leading(idx, n, h)
    BY <1>3 DEF Leading, Eligible, Ahead
  <1>9. PICK g, c, t :
           /\ ~CountingDue(lv, h)
                => g = pending.state /\ c = pending.counted /\ t = pending.top
           /\ CountingDue(lv, h) =>
                /\ c = h
                /\ t = IF T = {} THEN pending.top ELSE T
                /\ g = IF T = {} \/ (active # {} /\ T = active) THEN pending.state
                       ELSE "PENDING"
           /\ LET due == g # "ACTIVATED" /\ h - c >= wait IN
              /\ active' = IF due THEN t ELSE active
              /\ pending' = [state |-> IF due THEN "ACTIVATED" ELSE g, counted |-> c, top |-> t]
    BY BlockCounts DEF ListsInv
  <1> DEFINE due == g # "ACTIVATED" /\ h - c >= wait
  <1>10. /\ active' = IF due THEN t ELSE active
         /\ pending'.state = IF due THEN "ACTIVATED" ELSE g
         /\ pending'.counted = c /\ pending'.top = t
         /\ pending' = [state |-> pending'.state, counted |-> c, top |-> t]
    BY <1>9
  <1>11. CountingDue(lv, h) =>
           /\ pending.state = "ACTIVATED" /\ (h < V3 \/ h % CountInterval = 0)
           /\ active = pending.top
    BY <1>2 DEF CountingDue, ListsInv, WaitIsShort
  <1>12. ~CountingDue(lv, h) /\ pending.state # "PENDING" /\ (h < V3 \/ h % CountInterval = 0) =>
           /\ lv <= pending.counted
           /\ Cardinality(active) = tot
    <2>1. lv \in Int /\ pending.counted \in Int
      BY <1>2, <1>3
    <2> QED BY <2>1 DEF CountingDue
  <1> HIDE DEF T, tot, h
  <1>13. h \in Nat /\ h = height + 1 /\ h <= MaxHeight
    BY <1>1 DEF h
  <1>14. g \in {"PENDING", "ACTIVATED"} /\ c \in 0 .. h /\ t \subseteq Nat \X Account
    <2>1. /\ pending.state \in {"PENDING", "ACTIVATED"} /\ pending.counted \in 0 .. h
          /\ pending.top \subseteq Nat \X Account
      BY <1>1, <1>2, <1>13
    <2>2. CASE CountingDue(lv, h)
      BY <1>6, <1>9, <1>13, <2>1, <2>2
    <2>3. CASE ~CountingDue(lv, h)
      BY <1>9, <2>1, <2>3
    <2> QED BY <2>2, <2>3
  <1>15. ListTypes'
    <2>1. active' \subseteq Nat \X Account
      BY <1>2, <1>10, <1>14
    <2>2. pending' \in [state : {"PENDING", "ACTIVATED"}, counted : 0 .. h,
                        top : SUBSET (Nat \X Account)]
      BY <1>10, <1>14
    <2> QED BY <1>2, <1>3, <1>6, <1>7, <1>13, <2>1, <2>2 DEF ListTypes
  <1>16. WaitIsShort'
    <2>1. ASSUME pending'.state = "PENDING" PROVE height' - pending'.counted < Delay
      BY <1>1, <1>3, <1>10, <1>13, <1>14, <2>1
    <2>2. ASSUME pending'.state = "ACTIVATED" PROVE active' = pending'.top
      <3>1. CASE due
        BY <1>10, <3>1
      <3>2. CASE ~due
        <4>1. g = "ACTIVATED" /\ active' = active
          BY <1>10, <2>2, <3>2
        <4>2. CASE CountingDue(lv, h)
          BY <1>9, <1>10, <1>11, <4>1, <4>2
        <4>3. CASE ~CountingDue(lv, h)
          BY <1>9, <1>10, <4>1, <4>3 DEF ListsInv, WaitIsShort
        <4> QED BY <4>2, <4>3
      <3> QED BY <3>1, <3>2
    <2> QED BY <2>1, <2>2 DEF WaitIsShort
  <1>17. ASSUME RulesInForce'
         PROVE  /\ RulesInForce /\ UNCHANGED <<index, lastVote>> /\ lastVote >= V3 /\ h >= V3
                /\ idx = index /\ lv = lastVote
    <2>1. lv >= V3 /\ (h < V35 \/ lv >= V35)
      BY <1>3, <1>17 DEF RulesInForce
    <2>2. h >= V3
      BY <1>1, <1>3, <1>13, <2>1
    <2>3. UNCHANGED <<index, lastVote>>
      BY <1>1, <1>13, <2>2
    <2>4. height < V35 \/ lastVote >= V35
      BY <1>1, <1>3, <1>13, <2>1, <2>3
    <2> QED BY <1>3, <2>1, <2>2, <2>3, <2>4 DEF RulesInForce
  <1>18. ASSUME RulesInForce', lv <= c PROVE Counted'
    <2>1. CASE CountingDue(lv, h)
      <3>1. T = {} => Leading(idx, tot, h) = {}
        BY <1>5 DEF T, tot, h
      <3>2. T # {} => t = Leading(idx, tot, h)
        BY <1>5, <1>9, <2>1 DEF T, tot, h
      <3> QED BY <1>5, <1>8, <1>10, <3>1, <3>2 DEF Counted
    <2>2. CASE ~CountingDue(lv, h)
      <3>1. lastVote <= pending.counted /\ t = pending.top
        BY <1>9, <1>17, <1>18, <2>2
      <3>2. Counted
        BY <1>17, <1>18, <3>1 DEF ListsInv, CountIsTop
      <3>3. height >= V3 /\ (height >= V35 <=> h >= V35)
        <4>1. height >= lastVote /\ lastVote >= V3
          BY <1>1, <1>2, <1>17, <1>18, <3>1
        <4>2. h < V35 \/ lastVote >= V35
          BY <1>3, <1>17, <1>18 DEF RulesInForce
        <4> QED BY <1>1, <1>2, <1>13, <4>1, <4>2
      <3>4. Eligible(index, height) = Eligible(index, h)
        BY <1>1, <1>13, <3>3 DEF Eligible
      <3>5. \A n : Leading(index, n, height) = Leading(index, n, h)
        BY <3>4 DEF Leading
      <3>6. \A n : Leading(index, n, height)' = Leading(index, n, height)
        BY <1>8, <1>17, <1>18, <3>5
      <3> QED BY <1>10, <3>1, <3>2, <3>6 DEF Counted
    <2> QED BY <2>1, <2>2
  <1>19. ASSUME T # {}, h - c <= settled'.for PROVE t = T
    <2>1. CASE CountingDue(lv, h)
      BY <1>9, <1>19, <2>1
    <2>2. CASE ~CountingDue(lv, h)
      <3>1. c = pending.counted /\ t = pending.top /\ c \in 0 .. height
        BY <1>2, <1>9, <2>2
      <3>2. settled'.for # 0
        BY <1>1, <1>13, <1>19, <3>1
      <3>3. settled.top = T
        BY <1>7, <3>2
      <3>4. height - pending.counted <= settled.for
        BY <1>1, <1>2, <1>7, <1>13, <1>19, <3>1
      <3> QED BY <1>19, <3>1, <3>3, <3>4 DEF ListsInv, CountIsTop
    <2> QED BY <2>1, <2>2
  <1>20. CountIsTop'
    BY <1>3, <1>7, <1>10, <1>18, <1>19 DEF CountIsTop
  <1>21. ASSUME RulesInForce', T # {} PROVE
           /\ pending'.state = "ACTIVATED" /\ active' # T
                => Quiet' <= CountInterval - 1 + (h % CountInterval)
           /\ pending'.state = "PENDING"
                => Quiet' <= 2 * CountInterval - 1 + h - c
    <2>1. /\ Quiet' \in Int /\ Quiet' <= settled'.for
          /\ Quiet \in Int /\ (T = settled.top => Quiet' <= Quiet + 1)
      <3>1. Quiet' = Min({settled'.for, h - lastVote}) /\ Quiet = Min({settled.for, height - lastVote})
        BY <1>3, <1>17, <1>21 DEF Quiet
      <3> QED BY <1>1, <1>2, <1>7, <1>13, <3>1, MinOfTwo
    <2>2. T # settled.top => Quiet' <= 0
      BY <1>7, <2>1
    <2>3. h % CountInterval \in 0 .. CountInterval - 1
          /\ height % CountInterval \in 0 .. CountInterval - 1
      BY <1>1, <1>13, Division
    <2>4. T = settled.top =>
            /\ pending.state = "ACTIVATED" /\ active # T
                => Quiet <= CountInterval - 1 + (height % CountInterval)
            /\ pending.state = "PENDING"
                => Quiet <= 2 * CountInterval - 1 + height - pending.counted
      BY <1>17, <1>21 DEF ListsInv, ChangesTakeEffect
    <2>5. CASE pending.state = "PENDING"
      <3>1. ~CountingDue(lv, h) /\ g = "PENDING" /\ c = pending.counted /\ t = pending.top
        BY <1>9, <1>11, <2>5
      <3>2. h - c <= CountInterval /\ c \in Int /\ h - c >= 1
        <4>1. height - pending.counted < Delay
          BY <2>5 DEF ListsInv, WaitIsShort
        <4> QED BY <1>1, <1>2, <1>13, <3>1, <4>1
      <3>3. ASSUME due, active' # T PROVE Quiet' <= CountInterval - 1 + (h % CountInterval)
        <4>1. t # T
          BY <1>10, <3>3
        <4>2. settled'.for < h - c
          BY <1>7, <1>13, <1>19, <1>21, <3>2, <4>1
        <4> QED BY <1>1, <1>7, <1>13, <2>1, <2>3, <3>2, <4>2
      <3>4. Quiet' <= 2 * CountInterval - 1 + h - c
        <4>1. CASE T = settled.top
          BY <1>1, <1>13, <2>1, <2>4, <2>5, <3>1, <3>2, <4>1
        <4>2. CASE T # settled.top
          BY <1>1, <1>13, <2>1, <2>2, <3>2, <4>2
        <4> QED BY <4>1, <4>2
      <3>5. pending'.state = "ACTIVATED" => due
        BY <1>10, <3>1
      <3> QED BY <3>3, <3>4, <3>5
    <2>6. CASE pending.state = "ACTIVATED" /\ CountingDue(lv, h)
      <3>1. c = h /\ t = T /\ h % CountInterval = 0
        BY <1>1, <1>9, <1>11, <1>13, <1>17, <1>21, <2>6
      <3>2. CASE g = "ACTIVATED"
        <4>1. T = active
          BY <1>9, <1>21, <2>6, <3>2
        <4> QED BY <1>10, <3>2, <4>1
      <3>3. CASE g = "PENDING"
        <4>1. active # T
          BY <1>9, <1>21, <2>6, <3>3
        <4>2. Quiet' <= 2 * CountInterval - 1
          BY <1>1, <2>1, <2>2, <2>3, <2>4, <2>6, <4>1
        <4>3. pending'.state = "ACTIVATED" => active' = T
          BY <1>10, <3>1, <3>3
        <4>4. 2 * CountInterval - 1 + h - c = 2 * CountInterval - 1
          BY <1>1, <1>13, <3>1
        <4> QED BY <4>2, <4>3, <4>4
      <3> QED BY <1>14, <3>2, <3>3
    <2>7. CASE pending.state = "ACTIVATED" /\ ~CountingDue(lv, h)
      <3>1. g = "ACTIVATED" /\ c = pending.counted /\ t = pending.top
        BY <1>9, <2>7
      <3>2. active' = active /\ active = t /\ pending'.state = "ACTIVATED"
        BY <1>10, <2>7, <3>1 DEF ListsInv, WaitIsShort
      <3>3. ASSUME active # T PROVE Quiet' <= CountInterval - 1 + (h % CountInterval)
        <4>1. h % CountInterval # 0
          <5> SUFFICES ASSUME h % CountInterval = 0 PROVE FALSE
            OBVIOUS
          <5>1. lv <= c /\ Cardinality(t) = tot
            BY <1>12, <2>7, <3>1, <3>2
          <5>2. PICK n \in Nat \ {0} : Leading(idx, n, h) = {} \/ t = Leading(idx, n, h)
            BY <1>8, <1>10, <1>18, <1>21, <5>1 DEF Counted
          <5>3. tot \in Nat /\ T = Leading(idx, tot, h)
            BY <1>5 DEF T, tot, h
          <5>4. Leading(idx, n, h) # {}
            BY <1>2, <1>4, <1>21, <5>3, NobodyLeads
          <5>5. Leading(idx, n, h) = Leading(idx, tot, h)
            BY <1>2, <1>4, <5>1, <5>2, <5>3, <5>4, LeadersByNumber
          <5> QED BY <3>2, <3>3, <5>2, <5>3, <5>4, <5>5
        <4>2. h % CountInterval = (height % CountInterval) + 1
          BY <1>1, <1>13, <4>1, NextRest
        <4>3. CASE T = settled.top
          BY <1>1, <2>1, <2>3, <2>4, <2>7, <3>3, <4>2, <4>3
        <4>4. CASE T # settled.top
          BY <1>1, <2>1, <2>2, <2>3, <4>4
        <4> QED BY <4>3, <4>4
      <3> QED BY <3>2, <3>3
    <2> QED BY <1>2, <2>5, <2>6, <2>7
  <1>22. ChangesTakeEffect'
    BY <1>3, <1>7, <1>10, <1>21 DEF ChangesTakeEffect
  <1> QED BY <1>15, <1>16, <1>20, <1>22 DEF ListsInv

(* Every step. *)
LEMMA ListsStep ==
  ASSUME DelegatesAssumption, VotesInv, VotesInv', ListsInv, [DelegatesNext]_delegateVars
  PROVE  ListsInv'
  <1>1. /\ height \in Nat /\ txs \in Nat /\ minVote \in Nat
        /\ bps.current \in Nat \ {0} /\ bps.new \in Nat /\ bps.from \in Nat
        /\ NewBpsSize \subseteq Nat \ {0} /\ MinVotes \subseteq Nat /\ CountInterval \in Nat
    BY DEF ListsInv, ListTypes, DelegatesAssumption
  <1>2. ASSUME NEW v, NEW ops, VoteTx(v, ops) PROVE ListsInv'
    BY <1>1, <1>2, TransactionsKeepLists DEF VoteTx, params
  <1>3. ASSUME NEW a, RegisterAccountPubKey(a) PROVE ListsInv'
    BY <1>1, <1>3, TransactionsKeepLists DEF RegisterAccountPubKey, params
  <1>4. ASSUME NEW n \in NewBpsSize, NEW d \in 0 .. CountInterval,
               ExecuteBpSize(n, height + 1 + d)
        PROVE  ListsInv'
    <2>1. bps' = [current |-> TotalBpsSize(height + 1), new |-> n, from |-> height + 1 + d]
      BY <1>4 DEF ExecuteBpSize
    <2>2. TotalBpsSize(height + 1) \in Nat \ {0} /\ n \in Nat /\ height + 1 + d \in Nat
      BY <1>1, TotalPositive DEF ListsInv
    <2>3. bps'.current \in Nat \ {0} /\ bps'.new \in Nat /\ bps'.from \in Nat
      BY <2>1, <2>2
    <2> QED BY <1>1, <1>4, <2>3, TransactionsKeepLists DEF ExecuteBpSize, accounts
  <1>5. ASSUME NEW m \in MinVotes, ExecuteMinVote(m) PROVE ListsInv'
    BY <1>1, <1>5, TransactionsKeepLists DEF ExecuteMinVote, accounts
  <1>6. CASE EndBlock
    <2>1. /\ height < MaxHeight /\ height' = height + 1
          /\ UNCHANGED <<bps, minVote, txs>>
      BY <1>6 DEF EndBlock, params
    <2>2. CASE Revocation(height + 1)
      <3>1. PICK keep : RevokeVotes(keep, height + 1)
        BY <1>6, <2>2 DEF EndBlock
      <3>2. PICK idx : /\ index' = idx /\ lastVote' = height + 1
                       /\ ProcessBlockDelegates(idx, height + 1, height + 1)
                       /\ SettleTop(idx, height + 1)
        BY <3>1 DEF RevokeVotes
      <3>3. height + 1 < V3
        BY <1>1, <2>2 DEF Revocation, DelegatesAssumption
      <3> QED BY <2>1, <3>2, <3>3, BlockKeepsLists
    <2>3. CASE ~Revocation(height + 1)
      <3>1. /\ UNCHANGED <<index, lastVote>>
            /\ ProcessBlockDelegates(index, lastVote, height + 1)
            /\ SettleTop(index, height + 1)
        BY <1>6, <2>3 DEF EndBlock
      <3>2. PICK idx, lv : idx = index /\ lv = lastVote
        OBVIOUS
      <3> QED BY <2>1, <3>1, <3>2, BlockKeepsLists
    <2> QED BY <2>2, <2>3
  <1>7. CASE UNCHANGED delegateVars
    BY <1>1, <1>7, TransactionsKeepLists DEF delegateVars, accounts, params
  <1> QED BY <1>2, <1>3, <1>4, <1>5, <1>6, <1>7 DEF DelegatesNext

(* Votes, changes of the minimum and changes of the number of delegates     *)
(* always take effect: a list that the votes have given for two slots and   *)
(* the delay is the active one, for every length of slots and every delay   *)
(* that is no longer (ProcessBlockDelegates, CalcNextDelegates).            *)
THEOREM ListsAlwaysFresh ==
  ASSUME DelegatesAssumption
  PROVE  DelegatesSpec => []ListsAreFresh
  <1>1. DelegatesInit => VotesInv /\ ListsInv
    BY VotesStart, ListsStart
  <1>2. VotesInv /\ ListsInv /\ [DelegatesNext]_delegateVars => VotesInv' /\ ListsInv'
    BY VotesStep, ListsStep
  <1>3. VotesInv /\ ListsInv => ListsAreFresh
    <2> SUFFICES ASSUME VotesInv, ListsInv PROVE ListsAreFresh
      OBVIOUS
    <2>1. /\ height \in 0 .. MaxHeight /\ MaxHeight \in Nat /\ lastVote \in 0 .. height + 1
          /\ CountInterval \in Nat \ {0} /\ Delay \in Nat /\ settled.for \in Nat
          /\ pending \in [state : {"PENDING", "ACTIVATED"}, counted : 0 .. height,
                          top : SUBSET (Nat \X Account)]
      BY DEF DelegatesAssumption, ListsInv, ListTypes
    <2>2. ListsOK
      BY <2>1 DEF ListsOK, VotesInv, ListsInv, ListTypes
    <2>3. ASSUME RulesInForce, settled.top # {}, Quiet >= 2 * CountInterval + Delay
          PROVE  active = settled.top
      <3>1. Quiet \in Int
        BY <2>1, MinOfTwo DEF Quiet
      <3>2. height % CountInterval \in 0 .. CountInterval - 1
        BY <2>1, Division
      <3>3. pending.state # "PENDING"
        <4> SUFFICES ASSUME pending.state = "PENDING" PROVE FALSE
          OBVIOUS
        <4>1. height - pending.counted < Delay
          BY DEF ListsInv, WaitIsShort
        <4>2. Quiet <= 2 * CountInterval - 1 + height - pending.counted
          BY <2>3 DEF ListsInv, ChangesTakeEffect
        <4>3. height \in Int /\ pending.counted \in Int
          BY <2>1
        <4> QED BY <2>1, <2>3, <3>1, <4>1, <4>2, <4>3
      <3>4. pending.state = "ACTIVATED"
        BY <2>1, <3>3
      <3>5. ~(Quiet <= CountInterval - 1 + (height % CountInterval))
        BY <2>1, <2>3, <3>1, <3>2
      <3> QED BY <2>3, <3>4, <3>5 DEF ListsInv, ChangesTakeEffect
    <2> QED BY <2>2, <2>3 DEF ListsAreFresh, ActiveIsFresh, RulesInForce, Quiet
  <1> QED BY <1>1, <1>2, <1>3, PTL DEF DelegatesSpec

-----------------------------------------------------------------------------
(* Packing.  Priorities fall into three classes that are far from each      *)
(* other; the order the set is in is by class, then by fee, then by hash.   *)
Precedes(h, a, b) ==
  IF Near(a, b) THEN \/ FeePerKb[a] < FeePerKb[b]
                     \/ FeePerKb[a] = FeePerKb[b] /\ h[a] < h[b]
                ELSE Priority[a] < Priority[b]

InOrder(h, s) == \A i, j \in DOMAIN s : i < j => Precedes(h, s[i], s[j])

(* The transactions and their priorities, fees and hashes. *)
LEMMA Classes ==
  ASSUME PackingAssumption, NEW a \in All
  PROVE  /\ Priority[a] \in Nat /\ FeePerKb[a] \in Nat /\ Size[a] \in Nat /\ Fuel[a] \in Nat
         /\ Priority[a] \in 0 .. 1000 \/ Priority[a] = 10000 \/ Priority[a] = 20000
         /\ a \in Tx => Priority[a] # 10000
  BY DEF PackingAssumption, All

LEMMA Hashed ==
  ASSUME PackingAssumption, NEW h \in Hashes
  PROVE  /\ \A a \in All : h[a] \in Nat
         /\ \A a, b \in All : h[a] = h[b] => a = b
  BY DEF PackingAssumption, IsInjective

(* It is an order. *)
LEMMA PrecedesIsOrder ==
  ASSUME PackingAssumption, NEW h \in Hashes, NEW a \in All, NEW b \in All, NEW c \in All
  PROVE  /\ ~Precedes(h, a, a)
         /\ Precedes(h, a, b) /\ Precedes(h, b, c) => Precedes(h, a, c)
  <1> USE DEF Near, Window
  <1>1. /\ Priority[a] \in Nat /\ FeePerKb[a] \in Nat
        /\ Priority[b] \in Nat /\ FeePerKb[b] \in Nat
        /\ Priority[c] \in Nat /\ FeePerKb[c] \in Nat
        /\ Priority[a] \in 0 .. 1000 \/ Priority[a] = 10000 \/ Priority[a] = 20000
        /\ Priority[b] \in 0 .. 1000 \/ Priority[b] = 10000 \/ Priority[b] = 20000
        /\ Priority[c] \in 0 .. 1000 \/ Priority[c] = 10000 \/ Priority[c] = 20000
    BY Classes
  <1>2. h[a] \in Nat /\ h[b] \in Nat /\ h[c] \in Nat
    BY Hashed
  <1> DEFINE near(p, q) == p - q >= -1000 /\ p - q <= 1000
             before(p, e, m, q, f, n) ==
               (near(p, q) /\ (e < f \/ (e = f /\ m < n))) \/ (~near(p, q) /\ p < q)
  <1>4. /\ Precedes(h, a, a)
             <=> before(Priority[a], FeePerKb[a], h[a], Priority[a], FeePerKb[a], h[a])
        /\ Precedes(h, a, b)
             <=> before(Priority[a], FeePerKb[a], h[a], Priority[b], FeePerKb[b], h[b])
        /\ Precedes(h, b, c)
             <=> before(Priority[b], FeePerKb[b], h[b], Priority[c], FeePerKb[c], h[c])
        /\ Precedes(h, a, c)
             <=> before(Priority[a], FeePerKb[a], h[a], Priority[c], FeePerKb[c], h[c])
    <2>1. ASSUME NEW u \in All, NEW v \in All, Priority[u] \in Nat, Priority[v] \in Nat
          PROVE  Precedes(h, u, v)
                   <=> before(Priority[u], FeePerKb[u], h[u], Priority[v], FeePerKb[v], h[v])
      <3>1. Near(u, v) <=> near(Priority[u], Priority[v])
        <4>1. PICK p \in Nat : p = Priority[u]
          BY <2>1
        <4>2. PICK q \in Nat : q = Priority[v]
          BY <2>1
        <4>3. p - q \in -1000 .. 1000 <=> near(p, q)
          OBVIOUS
        <4> QED BY <4>1, <4>2, <4>3
      <3> HIDE DEF near, Near
      <3> QED BY <3>1 DEF Precedes
    <2> HIDE DEF before
    <2> QED BY <1>1, <2>1
  <1>5. \A p, e, m \in Nat : ~before(p, e, m, p, e, m)
    OBVIOUS
  <1> HIDE DEF before
  <1>7. ~Precedes(h, a, a)
    BY <1>1, <1>2, <1>4, <1>5
  <1>8. ASSUME Precedes(h, a, b), Precedes(h, b, c) PROVE Precedes(h, a, c)
    <2>1. PICK p \in Nat, q \in Nat, r \in Nat :
            p = Priority[a] /\ q = Priority[b] /\ r = Priority[c]
      BY <1>1
    <2>2. PICK e \in Nat, f \in Nat, g \in Nat :
            e = FeePerKb[a] /\ f = FeePerKb[b] /\ g = FeePerKb[c]
      BY <1>1
    <2>3. PICK m \in Nat, n \in Nat, l \in Nat : m = h[a] /\ n = h[b] /\ l = h[c]
      BY <1>2
    <2>4. before(p, e, m, q, f, n) /\ before(q, f, n, r, g, l)
      BY <1>4, <1>8, <2>1, <2>2, <2>3
    <2>5. before(p, e, m, r, g, l)
      <3>1. /\ p \in 0 .. 1000 \/ p = 10000 \/ p = 20000
            /\ q \in 0 .. 1000 \/ q = 10000 \/ q = 20000
            /\ r \in 0 .. 1000 \/ r = 10000 \/ r = 20000
        BY <1>1, <2>1
      <3> QED BY <2>4, <3>1 DEF before
    <2> QED BY <1>4, <2>1, <2>2, <2>3, <2>5
  <1> QED BY <1>7, <1>8

(* A transaction is new to another if it is far from it, has the higher     *)
(* hash, or is one that pays nothing.                                       *)
New(x, o) == x # o /\ (~Near(x, o) \/ hash[o] < hash[x] \/ FeePerKb[x] = 0)

(* Then the comparison, either way round, says which precedes. *)
LEMMA LessPrecedes ==
  ASSUME PackingAssumption, hash \in Hashes, NEW x \in All, NEW o \in All, New(x, o)
  PROVE  /\ Less(x, o) <=> Precedes(hash, x, o)
         /\ ~Less(x, o) <=> Precedes(hash, o, x)
         /\ Precedes(hash, o, x) => Less(o, x)
  <1>1. /\ Priority[x] \in Nat /\ FeePerKb[x] \in Nat
        /\ Priority[o] \in Nat /\ FeePerKb[o] \in Nat
    BY Classes
  <1>2. hash[x] \in Nat /\ hash[o] \in Nat /\ hash[x] # hash[o]
    BY Hashed DEF New
  <1>3. Near(x, o) <=> Near(o, x)
    <2>1. PICK p \in Nat : p = Priority[x]
      BY <1>1
    <2>2. PICK q \in Nat : q = Priority[o]
      BY <1>1
    <2>3. p - q \in -1000 .. 1000 <=> p - q >= -1000 /\ p - q <= 1000
      OBVIOUS
    <2>4. q - p \in -1000 .. 1000 <=> q - p >= -1000 /\ q - p <= 1000
      OBVIOUS
    <2>5. p - q >= -1000 /\ p - q <= 1000 <=> q - p >= -1000 /\ q - p <= 1000
      OBVIOUS
    <2>6. p - q \in -1000 .. 1000 <=> q - p \in -1000 .. 1000
      BY <2>3, <2>4, <2>5
    <2>7. (Near(x, o) <=> p - q \in -1000 .. 1000) /\ (Near(o, x) <=> q - p \in -1000 .. 1000)
      BY <2>1, <2>2 DEF Near, Window
    <2> QED BY <2>6, <2>7
  <1>4. CASE ~Near(x, o)
    <2>1. Priority[x] # Priority[o]
      <3>1. ASSUME NEW p \in Nat PROVE p - p \in -1000 .. 1000
        OBVIOUS
      <3> QED BY <1>1, <1>4, <3>1 DEF Near, Window
    <2>2. /\ Precedes(hash, x, o) <=> Priority[x] < Priority[o]
          /\ Precedes(hash, o, x) <=> Priority[o] < Priority[x]
          /\ Less(x, o) <=> Priority[x] < Priority[o]
          /\ Less(o, x) <=> Priority[o] < Priority[x]
      BY <1>3, <1>4 DEF Precedes, Less
    <2>3. ~(Priority[x] < Priority[o]) <=> Priority[o] < Priority[x]
      BY <1>1, <2>1
    <2> QED BY <2>2, <2>3
  <1>5. CASE Near(x, o)
    <2>1. hash[o] < hash[x] \/ FeePerKb[x] = 0
      BY <1>5 DEF New
    <2>2. PICK e \in Nat, f \in Nat : e = FeePerKb[x] /\ f = FeePerKb[o]
      BY <1>1
    <2>3. PICK k \in Nat, l \in Nat : k = hash[x] /\ l = hash[o]
      BY <1>2
    <2>4. k # l /\ (l < k \/ e = 0)
      BY <1>2, <2>1, <2>2, <2>3
    <2>5. Precedes(hash, x, o) <=> (e < f \/ (e = f /\ k < l))
      BY <1>5, <2>2, <2>3 DEF Precedes
    <2>6. Precedes(hash, o, x) <=> (f < e \/ (f = e /\ l < k))
      BY <1>3, <1>5, <2>2, <2>3 DEF Precedes
    <2>7. Less(x, o) <=> (e < f \/ k < l)
      BY <1>5, <2>2, <2>3 DEF Less
    <2>8. Less(o, x) <=> (f < e \/ l < k)
      BY <1>3, <1>5, <2>2, <2>3 DEF Less
    <2>9. /\ (e < f \/ k < l) <=> (e < f \/ (e = f /\ k < l))
          /\ ~(e < f \/ k < l) <=> (f < e \/ (f = e /\ l < k))
          /\ (f < e \/ (f = e /\ l < k)) => (f < e \/ l < k)
      BY <2>4
    <2> QED BY <2>5, <2>6, <2>7, <2>8, <2>9
  <1> QED BY <1>4, <1>5

(* A new transaction finds one place, and takes it. *)
LEMMA OneGap ==
  ASSUME PackingAssumption, hash \in Hashes, order \in Seq(All), InOrder(hash, order),
         NEW x \in All, \A i \in DOMAIN order : New(x, order[i])
  PROVE  \E g \in 0 .. Len(order) :
           /\ Gaps(x) = {g}
           /\ Emplaced(x) = {InsertAt(order, g + 1, x)}
           /\ \A i \in 1 .. g : Precedes(hash, order[i], x)
           /\ \A i \in g + 1 .. Len(order) : Precedes(hash, x, order[i])
  <1> DEFINE n == Len(order)
             D == DOMAIN order
             after == {i \in D : Less(x, order[i])}
  <1>1. n \in Nat /\ D = 1 .. n /\ \A i \in D : order[i] \in All
    OBVIOUS
  <1>2. ASSUME NEW i \in D
        PROVE  /\ Less(x, order[i]) <=> Precedes(hash, x, order[i])
               /\ ~Less(x, order[i]) <=> Precedes(hash, order[i], x)
               /\ Precedes(hash, order[i], x) => Less(order[i], x)
    BY <1>1, LessPrecedes
  <1>3. ASSUME NEW i \in D, NEW j \in D, i <= j, Less(x, order[i]) PROVE Less(x, order[j])
    <2>1. CASE i = j
      BY <1>3, <2>1
    <2>2. CASE i # j
      <3>1. Precedes(hash, order[i], order[j])
        <4>1. i < j
          BY <1>1, <1>3, <2>2
        <4> QED BY <4>1 DEF InOrder
      <3>2. Precedes(hash, x, order[i])
        BY <1>2, <1>3
      <3>3. Precedes(hash, x, order[j])
        BY <1>1, <3>1, <3>2, PrecedesIsOrder
      <3> QED BY <1>2, <3>3
    <2> QED BY <2>1, <2>2
  <1>4. PICK g \in 0 .. n : /\ \A i \in 1 .. g : ~Less(x, order[i])
                            /\ \A i \in g + 1 .. n : Less(x, order[i])
    <2>1. CASE after = {}
      <3>1. n \in 0 .. n /\ \A i \in 1 .. n : ~Less(x, order[i])
        BY <1>1, <2>1
      <3>2. \A i \in n + 1 .. n : Less(x, order[i])
        BY <1>1
      <3> QED BY <3>1, <3>2
    <2>2. CASE after # {}
      <3>1. PICK f \in after : \A i \in after : f <= i
        <4>1. after \in SUBSET Nat
          BY <1>1
        <4> HIDE DEF after
        <4> QED BY <2>2, <4>1, LeastNatural
      <3>2. f \in 1 .. n /\ f - 1 \in 0 .. n
        BY <1>1, <3>1
      <3>3. \A i \in 1 .. f - 1 : i \in D /\ ~(f <= i)
        BY <1>1, <3>2
      <3>4. \A i \in 1 .. f - 1 : ~Less(x, order[i])
        BY <3>1, <3>3
      <3>5. \A i \in (f - 1) + 1 .. n : i \in D /\ f <= i
        BY <1>1, <3>2
      <3>6. \A i \in (f - 1) + 1 .. n : Less(x, order[i])
        BY <1>3, <3>1, <3>5
      <3> QED BY <3>2, <3>4, <3>6
    <2> QED BY <2>1, <2>2
  <1>5. Gaps(x) = {g}
    <2>1. ASSUME NEW k \in 0 .. n, k > 0 => ~Less(x, order[k]), k < n => Less(x, order[k + 1])
          PROVE  k = g
      <3>1. CASE k < g
        <4>1. k + 1 \in 1 .. g /\ k < n
          BY <1>1, <1>4, <3>1
        <4> QED BY <1>4, <2>1, <4>1
      <3>2. CASE g < k
        <4>1. k \in g + 1 .. n /\ k > 0
          BY <1>1, <1>4, <3>2
        <4> QED BY <1>4, <2>1, <4>1
      <3> QED BY <1>1, <1>4, <3>1, <3>2
    <2>2. (g > 0 => ~Less(x, order[g])) /\ (g < n => Less(x, order[g + 1]))
      <3>1. g > 0 => g \in 1 .. g
        BY <1>1
      <3>2. g < n => g + 1 \in g + 1 .. n
        BY <1>1
      <3> QED BY <1>4, <3>1, <3>2
    <2> HIDE DEF n
    <2> QED BY <2>1, <2>2 DEF Gaps, n
  <1>6. \A i \in 1 .. g : i \in D /\ Precedes(hash, order[i], x)
    BY <1>1, <1>2, <1>4
  <1>7. \A i \in g + 1 .. n : i \in D /\ Precedes(hash, x, order[i])
    <2>1. \A i \in g + 1 .. n : i \in D
      BY <1>1
    <2> QED BY <1>2, <1>4, <2>1
  <1>8. g = 0 \/ Less(order[g], x)
    <2>1. g # 0 => g \in 1 .. g
      BY <1>1
    <2> QED BY <1>2, <1>6, <2>1
  <1>9. Emplaced(x) = {InsertAt(order, g + 1, x)}
    BY <1>5, <1>8 DEF Emplaced
  <1> QED BY <1>5, <1>6, <1>7, <1>9

(* A sequence with one more element, after the first g. *)
Inserts(o, D, s, g, x) ==
  /\ o \in Seq(D) /\ Len(o) = Len(s) + 1
  /\ o[g + 1] = x
  /\ \A i \in 1 .. g : o[i] = s[i]
  /\ \A i \in g + 2 .. Len(s) + 1 : o[i] = s[i - 1]
  /\ Range(o) = Range(s) \cup {x}

LEMMA Inserted ==
  ASSUME NEW D, NEW s \in Seq(D), NEW x \in D, NEW g \in 0 .. Len(s)
  PROVE  Inserts(InsertAt(s, g + 1, x), D, s, g, x)
  <1> DEFINE o == InsertAt(s, g + 1, x)
             n == Len(s)
             a == SubSeq(s, 1, g)
             b == SubSeq(s, g + 1, n)
  <1>1. n \in Nat /\ \A i \in 1 .. n : s[i] \in D
    OBVIOUS
  <1>2. a \in Seq(D) /\ Len(a) = g /\ \A i \in 1 .. g : a[i] = s[i]
    BY <1>1
  <1>3. b \in Seq(D) /\ Len(b) = n - g /\ \A i \in 1 .. n - g : b[i] = s[g + i]
    BY <1>1
  <1>4. o = (a \o <<x>>) \o b
    <2>1. (g + 1) - 1 = g
      OBVIOUS
    <2> QED BY <2>1 DEF InsertAt
  <1> HIDE DEF n, a, b, o
  <1> DEFINE c == a \o <<x>>
  <1>5. /\ c \in Seq(D) /\ Len(c) = g + 1 /\ c[g + 1] = x
        /\ \A i \in 1 .. g : c[i] = s[i]
    BY <1>1, <1>2
  <1> HIDE DEF c
  <1>6. o = c \o b
    BY <1>4 DEF c
  <1>7. /\ o \in Seq(D) /\ Len(o) = n + 1
        /\ \A i \in 1 .. g + 1 : o[i] = c[i]
        /\ \A i \in g + 2 .. n + 1 : o[i] = b[i - (g + 1)]
    <2>1. o \in Seq(D) /\ Len(o) = Len(c) + Len(b)
      BY <1>3, <1>5, <1>6, ConcatProperties
    <2>2. \A i \in 1 .. Len(c) + Len(b) : o[i] = IF i <= Len(c) THEN c[i] ELSE b[i - Len(c)]
      BY <1>3, <1>5, <1>6, ConcatProperties
    <2>3. Len(c) + Len(b) = n + 1 /\ Len(c) = g + 1 /\ n \in Nat /\ g \in 0 .. n
      BY <1>1, <1>3, <1>5 DEF n
    <2>4. \A i \in 1 .. g + 1 : o[i] = c[i]
      BY <2>2, <2>3
    <2>5. \A i \in g + 2 .. n + 1 : o[i] = b[i - (g + 1)]
      BY <2>2, <2>3
    <2> QED BY <2>1, <2>3, <2>4, <2>5
  <1>8. \A i \in g + 2 .. n + 1 : o[i] = s[i - 1]
    <2> SUFFICES ASSUME NEW i \in g + 2 .. n + 1 PROVE o[i] = s[i - 1]
      OBVIOUS
    <2>1. i - (g + 1) \in 1 .. n - g /\ g + (i - (g + 1)) = i - 1
      BY <1>1 DEF n
    <2> QED BY <1>3, <1>7, <2>1
  <1>9. o[g + 1] = x /\ \A i \in 1 .. g : o[i] = s[i]
    <2>1. g + 1 \in 1 .. g + 1 /\ \A i \in 1 .. g : i \in 1 .. g + 1
      BY <1>1 DEF n
    <2> QED BY <1>5, <1>7, <2>1
  <1>10. DOMAIN o = 1 .. n + 1 /\ DOMAIN s = 1 .. n /\ g \in 0 .. n
    BY <1>7 DEF n
  <1>11. Range(o) \subseteq Range(s) \cup {x}
    <2> SUFFICES ASSUME NEW i \in 1 .. n + 1 PROVE o[i] \in Range(s) \cup {x}
      BY <1>10 DEF Range
    <2>1. CASE i \in 1 .. g
      <3>1. i \in 1 .. n
        BY <1>1, <1>10, <2>1
      <3> QED BY <1>9, <1>10, <2>1, <3>1 DEF Range
    <2>2. CASE i = g + 1
      BY <1>9, <2>2
    <2>3. CASE i \in g + 2 .. n + 1
      <3>1. i - 1 \in 1 .. n
        BY <1>1, <1>10, <2>3
      <3> QED BY <1>8, <1>10, <2>3, <3>1 DEF Range
    <2> QED BY <1>1, <1>10, <2>1, <2>2, <2>3
  <1>12. Range(s) \cup {x} \subseteq Range(o)
    <2>1. x \in Range(o)
      <3>1. g + 1 \in 1 .. n + 1
        BY <1>1, <1>10
      <3> QED BY <1>9, <1>10, <3>1 DEF Range
    <2>2. ASSUME NEW i \in 1 .. n PROVE s[i] \in Range(o)
      <3>1. CASE i \in 1 .. g
        <4>1. i \in 1 .. n + 1
          BY <1>1, <2>2
        <4> QED BY <1>9, <1>10, <3>1, <4>1 DEF Range
      <3>2. CASE i \notin 1 .. g
        <4>1. i + 1 \in g + 2 .. n + 1 /\ i + 1 \in 1 .. n + 1 /\ (i + 1) - 1 = i
          BY <1>1, <1>10, <2>2, <3>2
        <4>2. o[i + 1] = s[i]
          BY <1>8, <4>1
        <4> QED BY <1>10, <4>1, <4>2 DEF Range
      <3> QED BY <3>1, <3>2
    <2> QED BY <1>10, <2>1, <2>2 DEF Range
  <1>13. Range(o) = Range(s) \cup {x}
    BY <1>11, <1>12
  <1>14. Inserts(o, D, s, g, x)
    BY <1>7, <1>8, <1>9, <1>13 DEF n, Inserts
  <1> QED BY <1>14 DEF o

(* In its place, it leaves the order an order. *)
LEMMA EmplacedInOrder ==
  ASSUME PackingAssumption, hash \in Hashes, order \in Seq(All), InOrder(hash, order),
         NEW x \in All, \A i \in DOMAIN order : New(x, order[i]), NEW o \in Emplaced(x)
  PROVE  /\ Certain(x)
         /\ o \in Seq(All) /\ InOrder(hash, o) /\ Range(o) = Range(order) \cup {x}
  <1> DEFINE n == Len(order)
  <1>0. n \in Nat /\ DOMAIN order = 1 .. n
    OBVIOUS
  <1>1. PICK g \in 0 .. n :
           /\ Gaps(x) = {g}
           /\ Emplaced(x) = {InsertAt(order, g + 1, x)}
           /\ \A i \in 1 .. g : Precedes(hash, order[i], x)
           /\ \A i \in g + 1 .. n : Precedes(hash, x, order[i])
    BY OneGap
  <1>2. o = InsertAt(order, g + 1, x)
    BY <1>1
  <1>3. /\ o \in Seq(All) /\ Len(o) = n + 1
        /\ o[g + 1] = x
        /\ \A i \in 1 .. g : o[i] = order[i]
        /\ \A i \in g + 2 .. n + 1 : o[i] = order[i - 1]
        /\ Range(o) = Range(order) \cup {x}
    <2>1. Inserts(InsertAt(order, g + 1, x), All, order, g, x)
      BY <1>1, Inserted
    <2> QED BY <1>2, <2>1 DEF Inserts
  <1>4. Certain(x)
    <2>1. Cardinality({g}) = 1
      BY FS_Singleton
    <2>2. \A u \in Emplaced(x) : x \in Range(u)
      BY <1>1, <1>2, <1>3
    <2> QED BY <1>1, <2>1, <2>2 DEF Certain
  <1>5. DOMAIN o = 1 .. n + 1
    BY <1>3
  <1> HIDE DEF n
  <1>6. InOrder(hash, o)
    <2> SUFFICES ASSUME NEW i \in 1 .. n + 1, NEW j \in 1 .. n + 1, i < j
                 PROVE  Precedes(hash, o[i], o[j])
      BY <1>5 DEF InOrder
    <2>1. CASE j \in 1 .. g
      <3>1. i \in 1 .. g /\ i \in 1 .. n /\ j \in 1 .. n
        BY <1>0, <1>1, <2>1
      <3>2. Precedes(hash, order[i], order[j])
        BY <1>0, <3>1 DEF InOrder
      <3> QED BY <1>3, <2>1, <3>1, <3>2
    <2>2. CASE j = g + 1
      <3>1. i \in 1 .. g
        BY <1>0, <1>1, <2>2
      <3> QED BY <1>1, <1>3, <2>2, <3>1
    <2>3. CASE j \in g + 2 .. n + 1
      <3>1. j - 1 \in g + 1 .. n /\ j - 1 \in 1 .. n
        BY <1>0, <1>1, <2>3
      <3>2. o[j] = order[j - 1]
        BY <1>3, <2>3
      <3>3. CASE i \in 1 .. g
        <4>1. i \in 1 .. n /\ i < j - 1
          BY <1>0, <1>1, <3>1, <3>3
        <4>2. Precedes(hash, order[i], order[j - 1])
          BY <1>0, <3>1, <4>1 DEF InOrder
        <4> QED BY <1>3, <3>2, <3>3, <4>2
      <3>4. CASE i = g + 1
        BY <1>1, <1>3, <3>1, <3>2, <3>4
      <3>5. CASE i \in g + 2 .. n + 1
        <4>1. i - 1 \in 1 .. n /\ i - 1 < j - 1
          BY <1>0, <1>1, <3>1, <3>5
        <4>2. Precedes(hash, order[i - 1], order[j - 1])
          BY <1>0, <3>1, <4>1 DEF InOrder
        <4> QED BY <1>3, <3>2, <3>5, <4>2
      <3> QED BY <1>0, <1>1, <3>3, <3>4, <3>5
    <2> QED BY <1>0, <1>1, <2>1, <2>2, <2>3
  <1> QED BY <1>3, <1>4, <1>6

(* Sums over a block. *)
LEMMA SumOfAppended ==
  ASSUME NEW f \in [All -> Nat], NEW s \in Seq(All), NEW t \in All
  PROVE  SumOver(f, Append(s, t)) = SumOver(f, s) + f[t]
  <1> DEFINE n == Len(s)
             b == Append(s, t)
             old == [i \in DOMAIN s |-> f[s[i]]]
             new == [i \in DOMAIN b |-> f[b[i]]]
  <1>1. n \in Nat /\ DOMAIN s = 1 .. n /\ \A i \in 1 .. n : s[i] \in All
    OBVIOUS
  <1>2. /\ DOMAIN b = 1 .. n + 1 /\ b[n + 1] = t
        /\ \A i \in 1 .. n : b[i] = s[i]
    BY <1>1
  <1>3. 1 .. n + 1 = (1 .. n) \cup {n + 1} /\ n + 1 \notin 1 .. n
    BY <1>1
  <1> HIDE DEF n, b
  <1>4. /\ \A i \in 1 .. n : new[i] = old[i] /\ old[i] \in Nat
        /\ new[n + 1] = f[t] /\ f[t] \in Nat
    BY <1>1, <1>2, <1>3
  <1>5. IsFiniteSet(1 .. n) /\ IsFiniteSet(1 .. n + 1)
    BY <1>1, FS_Interval
  <1> HIDE DEF old, new
  <1>6. Summable(new, (1 .. n) \cup {n + 1})
    <2>1. IsFiniteSet((1 .. n) \cup {n + 1})
      BY <1>3, <1>5
    <2>2. \A i \in (1 .. n) \cup {n + 1} : new[i] \in Int
      BY <1>4
    <2> QED BY <2>1, <2>2 DEF Summable
  <1>7. SumFunctionOnSet(new, 1 .. n + 1) = SumFunctionOnSet(new, 1 .. n) + f[t]
    <2>1. SumFunctionOnSet(new, (1 .. n) \cup {n + 1}) = SumFunctionOnSet(new, 1 .. n) + new[n + 1]
      <3>1. n + 1 \notin 1 .. n
        BY <1>3
      <3> QED BY <1>6, <3>1, SumMore, Zenon
    <2> QED BY <1>3, <1>4, <2>1
  <1>8. SumFunctionOnSet(new, 1 .. n) = SumFunctionOnSet(old, 1 .. n)
    BY <1>4, <1>5, SumSame
  <1> QED BY <1>1, <1>2, <1>7, <1>8 DEF SumOver, old, new, b

LEMMA SumOfNothing == ASSUME NEW f PROVE SumOver(f, <<>>) = 0
  <1> DEFINE g == [i \in DOMAIN <<>> |-> f[<<>>[i]]]
  <1>1. DOMAIN <<>> = {}
    OBVIOUS
  <1>2. Summable(g, {})
    BY FS_EmptySet DEF Summable
  <1> HIDE DEF g
  <1>3. SumFunctionOnSet(g, {}) = 0
    BY <1>2, SumBasics
  <1> QED BY <1>1, <1>3 DEF SumOver, g

(* What stays in the pool is of the pool: the rescan, from the lowest hash  *)
(* on, decides of every transaction.                                        *)
Stay(left, conf, kept) ==
  \A t \in left : t \in kept <=> Needs[t] \subseteq conf \cup {u \in kept : hash[u] < hash[t]}

LEMMA ReScanIsPart ==
  ASSUME PackingAssumption, hash \in Hashes, NEW left \in SUBSET Tx, NEW conf
  PROVE  ReScan(left, conf) \in SUBSET left
  <1> DEFINE good == {n \in Nat : \A T \in SUBSET left :
                        Cardinality(T) = n => \E kept \in SUBSET T : Stay(T, conf, kept)}
  <1>1. \A T \in SUBSET left : IsFiniteSet(T) /\ Cardinality(T) \in Nat
    BY FS_Subset, FS_CardinalityType DEF PackingAssumption
  <1>2. \A t \in left : hash[t] \in Nat
    BY Hashed DEF All
  <1>3. 0 \in good
    <2>1. \A T \in SUBSET left : Cardinality(T) = 0 => T = {}
      BY <1>1, FS_EmptySet
    <2>2. Stay({}, conf, {})
      BY DEF Stay
    <2> QED BY <2>1, <2>2
  <1>4. ASSUME NEW n \in good PROVE n + 1 \in good
    <2> SUFFICES ASSUME NEW T \in SUBSET left, Cardinality(T) = n + 1
                 PROVE  \E kept \in SUBSET T : Stay(T, conf, kept)
      OBVIOUS
    <2>1. n \in Nat
      OBVIOUS
    <2>2. T # {}
      BY <2>1, FS_EmptySet
    <2>3. PICK x \in T : \A y \in T : hash[y] <= hash[x]
      BY <1>1, <1>2, <2>2, LargestExists
    <2> DEFINE R == T \ {x}
    <2>4. R \in SUBSET left /\ Cardinality(R) = n
      <3>1. IsFiniteSet(T)
        BY <1>1
      <3>2. Cardinality(T \ {x}) = Cardinality(T) - 1
        BY <2>3, <3>1, FS_RemoveElement
      <3> QED BY <2>1, <3>2
    <2>5. PICK kept \in SUBSET R : Stay(R, conf, kept)
      BY <2>4
    <2>6. \A u \in R : hash[u] < hash[x]
      <3>1. \A u \in R : u # x /\ u \in All /\ x \in All
        BY DEF All
      <3>2. \A u \in R : hash[u] # hash[x]
        BY <3>1, Hashed
      <3> QED BY <1>2, <2>3, <3>2
    <2> DEFINE more == IF Needs[x] \subseteq conf \cup kept THEN kept \cup {x} ELSE kept
    <2>7. {u \in more : hash[u] < hash[x]} = kept
      <3>1. ~(hash[x] < hash[x])
        BY <1>2, <2>3
      <3> QED BY <2>6, <3>1
    <2>8. ASSUME NEW t \in R
          PROVE  {u \in more : hash[u] < hash[t]} = {u \in kept : hash[u] < hash[t]}
      <3>1. ~(hash[x] < hash[t])
        BY <1>2, <2>3, <2>6
      <3> QED BY <3>1
    <2>9. ASSUME NEW t \in T
          PROVE  t \in more <=> Needs[t] \subseteq conf \cup {u \in more : hash[u] < hash[t]}
      <3>1. CASE t = x
        <4>1. x \notin kept
          BY <2>5
        <4> QED BY <2>7, <3>1, <4>1
      <3>2. CASE t \in R
        <4>1. t \in more <=> t \in kept
          BY <3>2
        <4> HIDE DEF more
        <4> QED BY <2>5, <2>8, <3>2, <4>1 DEF Stay
      <3> QED BY <3>1, <3>2
    <2>10. Stay(T, conf, more) /\ more \in SUBSET T
      BY <2>9 DEF Stay
    <2> QED BY <2>10
  <1>5. \A n \in Nat : n \in good
    <2>1. good \in SUBSET Nat
      OBVIOUS
    <2> HIDE DEF good
    <2> QED BY <1>3, <1>4, <2>1, NatClosed
  <1>6. \E kept \in SUBSET left : Stay(left, conf, kept)
    BY <1>1, <1>5
  <1> QED BY <1>6 DEF ReScan, Stay

(***************************************************************************)
(* The set is in order; while the pool is walked, what comes has a higher  *)
(* hash than what is there.  The block is in the opposite order and above  *)
(* all of the set; it is within the limits, has what it needs, and has a   *)
(* median when it has been proposed.                                       *)
(***************************************************************************)
OrderInv ==
  /\ InOrder(hash, order)
  /\ phase # "collect" => todo = {}
  /\ phase = "idle" => order = <<>>
  /\ phase \in {"collect", "median"} => Range(order) \subseteq Tx
  /\ phase = "settle" => Range(order) \subseteq Tx \cup {Median}
  /\ phase = "collect" => \A t \in todo, o \in Range(order) : hash[o] < hash[t]

BlockInv ==
  /\ \A i, j \in DOMAIN block : i < j => Precedes(hash, block[j], block[i])
  /\ \A i \in DOMAIN order, j \in DOMAIN block : Precedes(hash, order[i], block[j])
  /\ phase \in {"collect", "median", "settle"} => block = <<>>
  /\ SumOver(Size, block) < MaxSize /\ SumOver(Fuel, block) < MaxFuel
  /\ \A i \in DOMAIN block : block[i] \in Tx => Needs[block[i]] \subseteq confirmed \cup Range(block)
  /\ phase = "idle" /\ block # <<>> /\ ~rejected =>
       Median \in Range(block) /\ Range(block) \ {Median, Settle} \subseteq confirmed

PackInv == PackingTypeOK /\ OrderInv /\ BlockInv

(* An empty block is a good one. *)
LEMMA NothingPacked ==
  ASSUME PackingAssumption, PackingTypeOK, block' = <<>>, hash' = hash
  PROVE  BlockInv'
  <1>1. SumOver(Size, <<>>) = 0 /\ SumOver(Fuel, <<>>) = 0
    BY SumOfNothing
  <1>2. 0 < MaxSize /\ 0 < MaxFuel
    BY DEF PackingAssumption
  <1>3. DOMAIN <<>> = {}
    OBVIOUS
  <1> QED BY <1>1, <1>2, <1>3 DEF BlockInv

LEMMA PackingStart == ASSUME PackingAssumption, PackingInit PROVE PackInv
  <1> USE DEF PackingInit
  <1>1. PackingTypeOK
    <2>1. <<>> \in Seq(All) /\ FALSE \in BOOLEAN
      OBVIOUS
    <2>2. {} \subseteq Tx /\ {} \subseteq {} /\ {} \cap {} = {}
      OBVIOUS
    <2> QED BY <2>1, <2>2 DEF PackingTypeOK
  <1>2. OrderInv
    BY DEF OrderInv, InOrder, Range
  <1>3. SumOver(Size, <<>>) = 0 /\ SumOver(Fuel, <<>>) = 0
    BY SumOfNothing
  <1>4. 0 < MaxSize /\ 0 < MaxFuel
    BY DEF PackingAssumption
  <1>5. DOMAIN <<>> = {}
    OBVIOUS
  <1>6. BlockInv
    BY <1>3, <1>4, <1>5 DEF BlockInv
  <1> QED BY <1>1, <1>2, <1>6 DEF PackInv

(* A block of the node's own begins. *)
LEMMA BeginKeeps == ASSUME PackingAssumption, PackInv, Begin PROVE PackInv'
  <1> USE DEF Begin, PackInv
  <1>1. PackingTypeOK'
    BY DEF PackingTypeOK
  <1>2. OrderInv'
    BY DEF OrderInv, InOrder, Range
  <1>3. BlockInv'
    BY NothingPacked
  <1> QED BY <1>1, <1>2, <1>3

(* What the pool gives is new to what it has given before. *)
LEMMA PoolIsNew ==
  ASSUME PackingAssumption, PackInv, phase = "collect", NEW t \in todo
  PROVE  t \in All /\ \A i \in DOMAIN order : New(t, order[i])
  <1> USE DEF PackInv
  <1>1. t \in All
    BY DEF PackingTypeOK, All
  <1>2. ASSUME NEW i \in DOMAIN order PROVE hash[order[i]] < hash[t] /\ order[i] \in All
    <2>1. order[i] \in Range(order)
      BY DEF Range
    <2>2. order \in Seq(All)
      BY DEF PackingTypeOK
    <2> QED BY <2>1, <2>2 DEF OrderInv
  <1>3. ASSUME NEW i \in DOMAIN order PROVE t # order[i]
    <2>1. hash[t] \in Nat
      BY <1>1, Hashed DEF PackingTypeOK
    <2> QED BY <1>2, <2>1
  <1> QED BY <1>1, <1>2, <1>3 DEF New

(* The median is far from all transactions of the pool, and the settlement  *)
(* pays nothing.                                                            *)
LEMMA OwnAreNew ==
  ASSUME PackingAssumption, PackInv
  PROVE  /\ Median \in All /\ Settle \in All
         /\ phase = "median" => \A i \in DOMAIN order : New(Median, order[i])
         /\ phase = "settle" => \A i \in DOMAIN order : New(Settle, order[i])
  <1> USE DEF PackInv
  <1>1. Median \in All /\ Settle \in All
    BY DEF All
  <1>2. ASSUME phase = "median", NEW i \in DOMAIN order PROVE New(Median, order[i])
    <2>1. order[i] \in Tx
      BY <1>2 DEF OrderInv, Range
    <2> QED BY <2>1 DEF New, PackingAssumption
  <1>3. ASSUME phase = "settle", NEW i \in DOMAIN order PROVE New(Settle, order[i])
    <2>1. order[i] \in Tx \cup {Median}
      BY <1>3 DEF OrderInv, Range
    <2> QED BY <2>1 DEF New, PackingAssumption
  <1> QED BY <1>1, <1>2, <1>3

(* A transaction of the pool is put into the set. *)
LEMMA CollectKeeps == ASSUME PackingAssumption, PackInv, Collect PROVE PackInv'
  <1> USE DEF PackInv
  <1>0. phase = "collect" /\ block = <<>> /\ block' = block /\ hash' = hash
    BY DEF Collect, BlockInv
  <1>1. BlockInv'
    BY <1>0, NothingPacked
  <1>2. CASE todo = {} /\ phase' = "median" /\ UNCHANGED <<todo, order>>
    <2>1. PackingTypeOK'
      BY <1>2 DEF PackingTypeOK, Collect
    <2>2. OrderInv'
      BY <1>0, <1>2 DEF OrderInv, InOrder
    <2> QED BY <1>1, <2>1, <2>2
  <1>3. CASE UNCHANGED phase
             /\ \E t \in FirstOf(todo) : todo' = todo \ {t} /\ order' \in Emplaced(t)
    <2>1. PICK t \in FirstOf(todo) : todo' = todo \ {t} /\ order' \in Emplaced(t)
      BY <1>3
    <2>2. t \in todo /\ \A u \in todo : hash[t] <= hash[u]
      BY DEF FirstOf
    <2>3. t \in All /\ \A i \in DOMAIN order : New(t, order[i])
      BY <1>0, <2>2, PoolIsNew
    <2>4. /\ order' \in Seq(All) /\ InOrder(hash, order')
          /\ Range(order') = Range(order) \cup {t}
      BY <2>1, <2>3, EmplacedInOrder DEF PackingTypeOK, OrderInv
    <2>5. PackingTypeOK'
      BY <1>3, <2>1, <2>4 DEF PackingTypeOK, Collect
    <2>6. \A u \in todo', o \in Range(order') : hash[o] < hash[u]
      <3> SUFFICES ASSUME NEW u \in todo \ {t}, NEW o \in Range(order) \cup {t}
                   PROVE  hash[o] < hash[u]
        BY <2>1, <2>4
      <3>1. CASE o \in Range(order)
        BY <1>0, <3>1 DEF OrderInv
      <3>2. CASE o = t
        <4>1. t \in All /\ u \in All /\ hash \in Hashes
          BY DEF PackingTypeOK, All, FirstOf
        <4>2. hash[t] # hash[u] /\ hash[t] \in Nat /\ hash[u] \in Nat
          BY <4>1, Hashed
        <4> QED BY <2>2, <3>2, <4>2
      <3> QED BY <3>1, <3>2
    <2>7. Range(order') \subseteq Tx
      BY <1>0, <2>2, <2>4 DEF OrderInv, PackingTypeOK
    <2>8. OrderInv'
      BY <1>0, <1>3, <2>4, <2>6, <2>7 DEF OrderInv
    <2> QED BY <1>1, <2>5, <2>8
  <1> QED BY <1>2, <1>3 DEF Collect

(* The transactions of the block itself are put into the set. *)
LEMMA PushMedianKeeps == ASSUME PackingAssumption, PackInv, PushMedian PROVE PackInv'
  <1> USE DEF PackInv
  <1>0. /\ phase = "median" /\ phase' = "settle" /\ block = <<>> /\ block' = block
        /\ hash' = hash /\ todo' = todo
    BY DEF PushMedian, BlockInv
  <1>1. BlockInv'
    BY <1>0, NothingPacked
  <1>2. /\ order' \in Seq(All) /\ InOrder(hash, order')
        /\ Range(order') = Range(order) \cup {Median}
    BY <1>0, OwnAreNew, EmplacedInOrder DEF PackingTypeOK, OrderInv, PushMedian
  <1>3. PackingTypeOK'
    BY <1>2 DEF PackingTypeOK, PushMedian
  <1>4. OrderInv'
    BY <1>0, <1>2 DEF OrderInv
  <1> QED BY <1>1, <1>3, <1>4

LEMMA PushSettleKeeps == ASSUME PackingAssumption, PackInv, PushSettle PROVE PackInv'
  <1> USE DEF PackInv
  <1>0. /\ phase = "settle" /\ phase' = "pack" /\ block = <<>> /\ block' = block
        /\ hash' = hash /\ todo' = todo
    BY DEF PushSettle, BlockInv
  <1>1. BlockInv'
    BY <1>0, NothingPacked
  <1>2. order' \in Seq(All) /\ InOrder(hash, order')
    <2>1. CASE order' = order
      BY <2>1 DEF PackingTypeOK, OrderInv
    <2>2. CASE order' \in Emplaced(Settle)
      BY <1>0, <2>2, OwnAreNew, EmplacedInOrder DEF PackingTypeOK, OrderInv
    <2> QED BY <2>1, <2>2 DEF PushSettle
  <1>3. PackingTypeOK'
    BY <1>2 DEF PackingTypeOK, PushSettle
  <1>4. OrderInv'
    BY <1>0, <1>2 DEF OrderInv
  <1> QED BY <1>1, <1>3, <1>4

(* A sequence without its last element, and one with another. *)
LEMMA LastOff ==
  ASSUME NEW D, NEW s \in Seq(D), s # <<>>
  PROVE  /\ Last(s) \in D /\ Front(s) \in Seq(D)
         /\ Len(s) \in Nat \ {0} /\ Last(s) = s[Len(s)]
         /\ DOMAIN s = 1 .. Len(s) /\ DOMAIN Front(s) = 1 .. Len(s) - 1
         /\ \A i \in 1 .. Len(s) - 1 : Front(s)[i] = s[i]
  <1>1. Len(s) \in Nat \ {0} /\ DOMAIN s = 1 .. Len(s)
    OBVIOUS
  <1>2. Len(s) \in 1 .. Len(s)
    BY <1>1
  <1>3. Last(s) = s[Len(s)] /\ Last(s) \in D
    BY <1>1, <1>2 DEF Last
  <1>4. /\ Front(s) \in Seq(D) /\ DOMAIN Front(s) = 1 .. Len(s) - 1
        /\ \A i \in 1 .. Len(s) - 1 : Front(s)[i] = s[i]
    BY <1>1 DEF Front
  <1> QED BY <1>1, <1>3, <1>4

LEMMA OneMore ==
  ASSUME NEW D, NEW s \in Seq(D), NEW x \in D
  PROVE  /\ Append(s, x) \in Seq(D) /\ Len(s) \in Nat
         /\ DOMAIN s = 1 .. Len(s) /\ DOMAIN Append(s, x) = 1 .. Len(s) + 1
         /\ \A i \in 1 .. Len(s) : Append(s, x)[i] = s[i]
         /\ Append(s, x)[Len(s) + 1] = x
  OBVIOUS

(* The last transaction of the set is packed or passed over. *)
LEMMA PackKeeps == ASSUME PackingAssumption, PackInv, Pack PROVE PackInv'
  <1> USE DEF PackInv
  <1> DEFINE n == Len(order)
             x == Last(order)
             l == Len(block)
  <1>1. /\ phase = "pack" /\ phase' = phase /\ order # <<>> /\ order' = Front(order)
        /\ hash' = hash /\ todo' = todo /\ confirmed' = confirmed /\ pool' = pool
        /\ rejected' = rejected
    BY DEF Pack, AfterMisfit
  <1>2. /\ order \in Seq(All) /\ block \in Seq(All) /\ hash \in Hashes
    BY DEF PackingTypeOK
  <1>3. /\ x \in All /\ order' \in Seq(All)
        /\ n \in Nat \ {0} /\ x = order[n]
        /\ DOMAIN order = 1 .. n /\ DOMAIN order' = 1 .. n - 1
        /\ \A i \in 1 .. n - 1 : order'[i] = order[i]
    BY <1>1, <1>2, LastOff
  <1>4. l \in Nat /\ DOMAIN block = 1 .. l
    BY <1>2
  <1> HIDE DEF n, x, l
  <1>5. \A i \in 1 .. n - 1 : i \in 1 .. n /\ i < n /\ n \in 1 .. n
    BY <1>3
  <1>6. \A i \in DOMAIN order' : Precedes(hash, order'[i], x)
    BY <1>3, <1>5 DEF OrderInv, InOrder
  <1>7. OrderInv'
    <2>1. InOrder(hash, order')
      BY <1>3, <1>5 DEF OrderInv, InOrder
    <2> QED BY <1>1, <2>1 DEF OrderInv
  <1>8. \A i \in DOMAIN order', j \in DOMAIN block : Precedes(hash, order'[i], block[j])
    BY <1>3, <1>5 DEF BlockInv
  <1>9. CASE ~Fits(x)
    <2>1. block' = block
      BY <1>9 DEF Pack, x
    <2>2. PackingTypeOK'
      BY <1>1, <1>3, <2>1 DEF PackingTypeOK
    <2>3. BlockInv'
      BY <1>1, <1>8, <2>1 DEF BlockInv
    <2> QED BY <1>7, <2>2, <2>3
  <1>10. CASE Fits(x)
    <2>1. block' = Append(block, x)
      BY <1>10 DEF Pack, x
    <2>2. /\ block' \in Seq(All) /\ DOMAIN block' = 1 .. l + 1
          /\ \A i \in 1 .. l : block'[i] = block[i]
          /\ block'[l + 1] = x
      BY <1>2, <1>3, <2>1, OneMore DEF l
    <2>3. \A j \in 1 .. l + 1 : j \in 1 .. l \/ j = l + 1
      BY <1>4
    <2>4. PackingTypeOK'
      BY <1>1, <1>3, <2>2 DEF PackingTypeOK
    <2>5. \A i, j \in DOMAIN block' : i < j => Precedes(hash, block'[j], block'[i])
      <3> SUFFICES ASSUME NEW i \in 1 .. l + 1, NEW j \in 1 .. l + 1, i < j
                   PROVE  Precedes(hash, block'[j], block'[i])
        BY <2>2
      <3>1. i \in 1 .. l
        BY <1>4
      <3>2. CASE j \in 1 .. l
        BY <1>4, <2>2, <3>1, <3>2 DEF BlockInv
      <3>3. CASE j = l + 1
        <4>1. n \in DOMAIN order
          BY <1>3
        <4> QED BY <1>3, <1>4, <2>2, <3>1, <3>3, <4>1 DEF BlockInv
      <3> QED BY <2>3, <3>2, <3>3
    <2>6. \A i \in DOMAIN order', j \in DOMAIN block' : Precedes(hash, order'[i], block'[j])
      BY <1>4, <1>6, <1>8, <2>2, <2>3
    <2>7. SumOver(Size, block') < MaxSize /\ SumOver(Fuel, block') < MaxFuel
      <3>1. Size \in [All -> Nat] /\ Fuel \in [All -> Nat]
        BY DEF PackingAssumption
      <3>2. /\ SumOver(Size, block') = SumOver(Size, block) + Size[x]
            /\ SumOver(Fuel, block') = SumOver(Fuel, block) + Fuel[x]
        BY <1>2, <1>3, <2>1, <3>1, SumOfAppended
      <3> QED BY <1>10, <3>2 DEF Fits
    <2>8. Range(block) \subseteq Range(block')
      <3>1. \A i \in 1 .. l : i \in 1 .. l + 1
        BY <1>4
      <3> QED BY <1>4, <2>2, <3>1 DEF Range
    <2>9. ASSUME NEW i \in DOMAIN block', block'[i] \in Tx
          PROVE  Needs[block'[i]] \subseteq confirmed \cup Range(block')
      <3>1. CASE i \in 1 .. l
        BY <1>4, <2>2, <2>8, <2>9, <3>1 DEF BlockInv
      <3>2. CASE i = l + 1
        BY <1>10, <2>2, <2>8, <2>9, <3>2 DEF Fits, Executes
      <3> QED BY <2>2, <2>3, <3>1, <3>2
    <2>10. BlockInv'
      BY <1>1, <2>5, <2>6, <2>7, <2>9 DEF BlockInv
    <2> QED BY <1>7, <2>4, <2>10
  <1> QED BY <1>9, <1>10

(* The time is up. *)
LEMMA TimeUpKeeps == ASSUME PackingAssumption, PackInv, TimeUp PROVE PackInv'
  <1> USE DEF PackInv
  <1>1. /\ phase = "pack" /\ order' = <<>>
        /\ UNCHANGED <<hash, pool, confirmed, phase, todo, block, rejected>>
    BY DEF TimeUp
  <1>2. DOMAIN order' = {} /\ order' \in Seq(All)
    BY <1>1
  <1>3. PackingTypeOK'
    BY <1>1, <1>2 DEF PackingTypeOK
  <1>4. OrderInv'
    BY <1>1, <1>2 DEF OrderInv, InOrder
  <1>5. BlockInv'
    BY <1>1, <1>2 DEF BlockInv
  <1> QED BY <1>3, <1>4, <1>5

(* The block is proposed, or it is not. *)
LEMMA FinishKeeps == ASSUME PackingAssumption, PackInv, Finish PROVE PackInv'
  <1> USE DEF PackInv
  <1>1. /\ phase = "pack" /\ phase' = "idle" /\ order = <<>>
        /\ UNCHANGED <<hash, todo, order, block>>
    BY DEF Finish
  <1>2. todo = {}
    BY <1>1 DEF OrderInv
  <1>3. OrderInv'
    BY <1>1, <1>2 DEF OrderInv, InOrder
  <1>4. CASE ~CheckWork(block)
    <2>1. rejected' = TRUE /\ UNCHANGED <<confirmed, pool>>
      BY <1>4 DEF Finish
    <2>2. PackingTypeOK'
      BY <1>1, <2>1 DEF PackingTypeOK
    <2>3. BlockInv'
      BY <1>1, <2>1 DEF BlockInv
    <2> QED BY <1>3, <2>2, <2>3
  <1>5. CASE CheckWork(block)
    <2>1. /\ confirmed' = confirmed \cup (Range(block) \ {Median, Settle})
          /\ pool' = ReScan(pool \ Range(block), confirmed')
          /\ rejected' = FALSE
      BY <1>5 DEF Finish, LeftInPool
    <2>2. Range(block) \subseteq Tx \cup {Median, Settle}
      BY DEF PackingTypeOK, Range, All
    <2>3. pool' \subseteq pool \ Range(block)
      <3>1. (pool \ Range(block)) \in SUBSET Tx /\ hash \in Hashes
        BY DEF PackingTypeOK
      <3> HIDE DEF PackInv
      <3> QED BY <2>1, <3>1, ReScanIsPart
    <2>4. PackingTypeOK'
      BY <1>1, <1>2, <2>1, <2>2, <2>3 DEF PackingTypeOK
    <2>5. Median \in Range(block')
      BY <1>1, <1>5 DEF CheckWork
    <2>6. confirmed \subseteq confirmed' /\ Range(block') \ {Median, Settle} \subseteq confirmed'
      BY <1>1, <2>1
    <2>7. BlockInv'
      BY <1>1, <2>5, <2>6 DEF BlockInv
    <2> QED BY <1>3, <2>4, <2>7
  <1> QED BY <1>4, <1>5

(* Another delegate's block; a transaction that arrives. *)
LEMMA ForeignKeeps == ASSUME PackingAssumption, PackInv, Foreign PROVE PackInv'
  <1> USE DEF PackInv
  <1>1. /\ phase = "idle" /\ block' = <<>> /\ rejected' = FALSE
        /\ UNCHANGED <<hash, phase, todo, order>>
    BY DEF Foreign
  <1>2. todo = {}
    BY <1>1 DEF OrderInv
  <1>3. OrderInv'
    BY <1>1 DEF OrderInv, InOrder
  <1>4. BlockInv'
    BY <1>1, NothingPacked
  <1>5. PICK s \in SUBSET pool : /\ confirmed' = confirmed \cup s
                                 /\ pool' = ReScan(pool \ s, confirmed')
    BY DEF Foreign
  <1>6. pool' \subseteq pool \ s
    <2>1. (pool \ s) \in SUBSET Tx /\ hash \in Hashes
      BY DEF PackingTypeOK
    <2> HIDE DEF PackInv
    <2> QED BY <1>5, <2>1, ReScanIsPart
  <1>7. block' \in Seq(All) /\ rejected' \in BOOLEAN
    <2>1. <<>> \in Seq(All) /\ FALSE \in BOOLEAN
      OBVIOUS
    <2> HIDE DEF PackInv
    <2> QED BY <1>1, <2>1
  <1>8. PackingTypeOK'
    BY <1>1, <1>2, <1>5, <1>6, <1>7 DEF PackingTypeOK
  <1> QED BY <1>3, <1>4, <1>8

LEMMA SubmitKeeps == ASSUME PackingAssumption, PackInv, NEW t \in Tx, Submit(t) PROVE PackInv'
  <1> USE DEF PackInv, Submit
  <1>1. PackingTypeOK'
    BY DEF PackingTypeOK
  <1>2. OrderInv'
    BY DEF OrderInv, InOrder
  <1>3. BlockInv'
    BY DEF BlockInv
  <1> QED BY <1>1, <1>2, <1>3

LEMMA PackingStutters == ASSUME PackInv, UNCHANGED packingVars PROVE PackInv'
  <1> USE DEF packingVars
  <1>1. PackingTypeOK'
    BY DEF PackInv, PackingTypeOK
  <1>2. OrderInv'
    BY DEF PackInv, OrderInv, InOrder
  <1>3. BlockInv'
    BY DEF PackInv, BlockInv
  <1> QED BY <1>1, <1>2, <1>3 DEF PackInv

(* What the invariant says of the places in the set. *)
LEMMA PlacesFound == ASSUME PackingAssumption, PackInv PROVE PlacesAreCertain
  <1>1. hash \in Hashes /\ order \in Seq(All) /\ InOrder(hash, order)
    BY DEF PackInv, PackingTypeOK, OrderInv
  <1>2. ASSUME NEW x \in All, \A i \in DOMAIN order : New(x, order[i]) PROVE Certain(x)
    <2>1. PICK o : o \in Emplaced(x)
      BY <1>1, <1>2, OneGap
    <2> QED BY <1>1, <1>2, <2>1, EmplacedInOrder
  <1>3. phase = "collect" => \A t \in FirstOf(todo) : Certain(t)
    <2> SUFFICES ASSUME phase = "collect", NEW t \in FirstOf(todo) PROVE Certain(t)
      OBVIOUS
    <2>1. t \in todo
      BY DEF FirstOf
    <2> QED BY <1>2, <2>1, PoolIsNew
  <1>4. phase = "median" => Certain(Median)
    BY <1>2, OwnAreNew
  <1>5. phase = "settle" => Certain(Settle)
    BY <1>2, OwnAreNew
  <1> QED BY <1>3, <1>4, <1>5 DEF PlacesAreCertain

(* What it says of the order they are tried in. *)
LEMMA DearerAreFirst == ASSUME PackingAssumption, PackInv PROVE DearerFirst
  <1> SUFFICES ASSUME NEW i \in DOMAIN order, NEW j \in DOMAIN order, i < j,
                      Near(order[i], order[j])
               PROVE  FeePerKb[order[i]] <= FeePerKb[order[j]]
    BY DEF DearerFirst
  <1>1. order[i] \in All /\ order[j] \in All
    BY DEF PackInv, PackingTypeOK
  <1>2. FeePerKb[order[i]] \in Nat /\ FeePerKb[order[j]] \in Nat
    BY <1>1, Classes
  <1>3. Precedes(hash, order[i], order[j])
    BY DEF PackInv, OrderInv, InOrder
  <1> QED BY <1>2, <1>3 DEF Precedes

(* What it says of a proposed block. *)
LEMMA ProposedIsValid == ASSUME PackingAssumption, PackInv PROVE ProposedBlockIsValid
  <1> SUFFICES ASSUME phase = "idle", block # <<>>, ~rejected
               PROVE  /\ IsInjective(block)
                      /\ \E m \in DOMAIN block :
                           /\ block[m] = Median
                           /\ \A i \in DOMAIN block :
                                Priority[block[i]] > Priority[Median] => i < m
                      /\ \A i \in DOMAIN block :
                           block[i] \in Tx => Needs[block[i]] \subseteq confirmed
    BY DEF ProposedBlockIsValid, PackInv, BlockInv
  <1>1. /\ hash \in Hashes /\ block \in Seq(All) /\ confirmed \subseteq Tx
        /\ \A i \in DOMAIN block : i \in Nat /\ block[i] \in All
    BY DEF PackInv, PackingTypeOK
  <1>2. /\ \A i, j \in DOMAIN block : i < j => Precedes(hash, block[j], block[i])
        /\ Median \in Range(block) /\ Range(block) \ {Median, Settle} \subseteq confirmed
        /\ \A i \in DOMAIN block :
             block[i] \in Tx => Needs[block[i]] \subseteq confirmed \cup Range(block)
    BY DEF PackInv, BlockInv
  <1>3. \A i, j \in DOMAIN block : i = j \/ i < j \/ j < i
    BY <1>1
  <1>4. IsInjective(block)
    <2> SUFFICES ASSUME NEW i \in DOMAIN block, NEW j \in DOMAIN block, block[i] = block[j]
                 PROVE  i = j
      BY DEF IsInjective
    <2>1. ~Precedes(hash, block[i], block[j]) /\ ~Precedes(hash, block[j], block[i])
      BY <1>1, PrecedesIsOrder
    <2> QED BY <1>2, <1>3, <2>1
  <1>5. PICK m \in DOMAIN block : block[m] = Median
    BY <1>2 DEF Range
  <1>6. ASSUME NEW i \in DOMAIN block, Priority[block[i]] > Priority[Median] PROVE i < m
    <2>1. Priority[Median] = 10000 /\ Median \in All
      BY DEF PackingAssumption, All
    <2>2. Priority[block[i]] = 20000
      <3>1. /\ Priority[block[i]] \in Nat
            /\ Priority[block[i]] \in 0 .. 1000 \/ Priority[block[i]] = 10000
               \/ Priority[block[i]] = 20000
        BY <1>1, Classes
      <3>2. PICK p \in Nat : p = Priority[block[i]]
        BY <3>1
      <3>3. p > 10000
        <4>1. Priority[block[i]] > Priority[Median]
          BY <1>6
        <4>2. Priority[Median] = 10000
          BY <2>1
        <4> QED BY <3>2, <4>1, <4>2
      <3>4. p \in 0 .. 1000 \/ p = 10000 \/ p = 20000
        BY <3>1, <3>2
      <3>5. p = 20000
        BY <3>3, <3>4
      <3> QED BY <3>2, <3>5
    <2>3. i # m
      BY <1>5, <2>1, <2>2
    <2>4. ~Precedes(hash, block[i], Median)
      BY <2>1, <2>2 DEF Precedes, Near, Window
    <2> QED BY <1>2, <1>3, <1>5, <2>3, <2>4
  <1>7. ASSUME NEW i \in DOMAIN block, block[i] \in Tx PROVE Needs[block[i]] \subseteq confirmed
    <2>1. /\ Needs[block[i]] \subseteq Tx /\ Median \notin Tx /\ Settle \notin Tx
      BY <1>7 DEF PackingAssumption
    <2> QED BY <1>2, <1>7, <2>1
  <1> QED BY <1>4, <1>5, <1>6, <1>7

(* Where a transaction goes in the set is certain, dearer ones are tried    *)
(* first, and what is proposed stands the checks of other nodes.            *)
THEOREM PackedBlocksAlwaysStand ==
  ASSUME PackingAssumption
  PROVE  PackingSpec => []PackedBlocksStand
  <1>1. PackingInit => PackInv
    BY PackingStart
  <1>2. PackInv /\ [PackingNext]_packingVars => PackInv'
    <2> SUFFICES ASSUME PackInv, [PackingNext]_packingVars PROVE PackInv'
      OBVIOUS
    <2>1. CASE Begin      BY <2>1, BeginKeeps
    <2>2. CASE Collect    BY <2>2, CollectKeeps
    <2>3. CASE PushMedian BY <2>3, PushMedianKeeps
    <2>4. CASE PushSettle BY <2>4, PushSettleKeeps
    <2>5. CASE Pack       BY <2>5, PackKeeps
    <2>6. CASE Finish     BY <2>6, FinishKeeps
    <2>7. CASE TimeUp     BY <2>7, TimeUpKeeps
    <2>8. CASE Foreign    BY <2>8, ForeignKeeps
    <2>9. ASSUME NEW t \in Tx, Submit(t) PROVE PackInv'
      BY <2>9, SubmitKeeps
    <2>10. CASE UNCHANGED packingVars BY <2>10, PackingStutters
    <2> QED BY <2>1, <2>2, <2>3, <2>4, <2>5, <2>6, <2>7, <2>8, <2>9, <2>10
            DEF PackingNext, PackBlock
  <1>3. PackInv => PackedBlocksStand
    <2> SUFFICES ASSUME PackInv PROVE PackedBlocksStand
      OBVIOUS
    <2> QED BY PlacesFound, DearerAreFirst, ProposedIsValid DEF PackedBlocksStand, PackInv
  <1> QED BY <1>1, <1>2, <1>3, PTL DEF PackingSpec
=============================================================================
