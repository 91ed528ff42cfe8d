----------------------------- MODULE MoneyProofs -----------------------------
(***************************************************************************)
(* No order, deal or fee of the exchange makes money or loses any, for any *)
(* number of accounts, orders and operators; no proposal mints twice,      *)
(* loses a fee, or signs for coins that are not burnt; and every debt      *)
(* position is backed by a pledge, the riskiest being closed first.        *)
(***************************************************************************)
EXTENDS DexOrders, Governance, Cdp, SumTheorems

-----------------------------------------------------------------------------
(* Money that moves. *)

(* The amount the i-th movement adds to token t of account a, and to token  *)
(* t of anyone.                                                             *)
Part(moves, a, t) ==
  [i \in DOMAIN moves |->
     IF moves[i].account = a /\ moves[i].token = t THEN moves[i].amount ELSE 0]
All(moves, t) == [i \in DOMAIN moves |-> IF moves[i].token = t THEN moves[i].amount ELSE 0]

Movement == [account : Account, token : Token, amount : Int]

(* What all accounts have of token t. *)
Total(h, t) == SumFunctionOnSet([a \in Account |-> h[a][t]], Account)

(* Money that moves between accounts stays the same, but for what the       *)
(* movements add in all.                                                    *)
LEMMA MovedTotal ==
  ASSUME IsFiniteSet(Account), NEW h, NEW moves \in Seq(Movement), NEW t \in Token,
         \A a \in Account : h[a][t] \in Int
  PROVE  /\ \A a \in Account : Moved(h, moves)[a][t] \in Int
         /\ Total(Moved(h, moves), t) = Total(h, t) + SumFunctionOnSet(All(moves, t), DOMAIN moves)
         /\ Total(h, t) \in Int /\ SumFunctionOnSet(All(moves, t), DOMAIN moves) \in Int
  <1> DEFINE D == DOMAIN moves
             gain(T) == [a \in Account |-> SumFunctionOnSet(Part(moves, a, t), T)]
             total(T) == SumFunctionOnSet(All(moves, t), T)
             good == {T \in SUBSET D : SumFunctionOnSet(gain(T), Account) = total(T)}
  <1>1. IsFiniteSet(D) /\ D = 1..Len(moves) /\ Len(moves) \in Nat
    <2>1. D = 1..Len(moves) /\ Len(moves) \in Nat
      OBVIOUS
    <2> QED BY <2>1, FS_Interval
  <1>2. \A i \in D : moves[i] \in Movement
    OBVIOUS
  <1> HIDE DEF D
  <1>3. \A T \in SUBSET D : Summable(All(moves, t), T)
    <2>1. \A i \in D : All(moves, t)[i] \in Int
      BY <1>2 DEF All, Movement, D
    <2> QED BY <1>1, <2>1, FS_Subset DEF Summable
  <1>4. \A T \in SUBSET D, a \in Account : Summable(Part(moves, a, t), T)
    <2>1. \A i \in D, a \in Account : Part(moves, a, t)[i] \in Int
      BY <1>2 DEF Part, Movement, D
    <2> QED BY <1>1, <2>1, FS_Subset DEF Summable
  <1>5. \A T \in SUBSET D : Summable(gain(T), Account)
    <2> SUFFICES ASSUME NEW T \in SUBSET D, NEW a \in Account
                 PROVE SumFunctionOnSet(Part(moves, a, t), T) \in Int
      BY DEF Summable
    <2>1. Summable(Part(moves, a, t), T)
      BY <1>4
    <2> QED BY <2>1, SumBasics
  <1>6. {} \in good
    <2>1. {} \in SUBSET D
      OBVIOUS
    <2>2. total({}) = 0
      BY <1>3, <2>1, SumBasics
    <2>3. \A a \in Account : gain({})[a] = 0
      <3> SUFFICES ASSUME NEW a \in Account PROVE SumFunctionOnSet(Part(moves, a, t), {}) = 0
        OBVIOUS
      <3>1. Summable(Part(moves, a, t), {})
        BY <1>4, <2>1
      <3> QED BY <3>1, SumBasics
    <2>4. SumFunctionOnSet(gain({}), Account) = Cardinality(Account) * 0
      <3> HIDE DEF gain
      <3> QED BY <2>3, SumConstant
    <2>5. Cardinality(Account) \in Nat
      BY FS_CardinalityType
    <2>6. Cardinality(Account) * 0 = 0
      BY <2>5
    <2> QED BY <2>1, <2>2, <2>4, <2>6
  <1>7. ASSUME NEW T \in good, NEW i \in D \ T PROVE T \cup {i} \in good
    <2> DEFINE U == T \cup {i}
               b == moves[i].account
               more == All(moves, t)[i]
    <2>1. U \in SUBSET D /\ i \notin T /\ T \in SUBSET D
      OBVIOUS
    <2>2. total(U) = total(T) + more
      <3>1. Summable(All(moves, t), U)
        BY <1>3, <2>1
      <3> QED BY <2>1, <3>1, SumMore
    <2>3. ASSUME NEW a \in Account
          PROVE /\ gain(U)[a] = gain(T)[a] + (IF a = b THEN more ELSE 0)
                /\ gain(T)[a] \in Int
      <3>1. Summable(Part(moves, a, t), U)
        BY <1>4, <2>1
      <3>2. /\ SumFunctionOnSet(Part(moves, a, t), U)
                 = SumFunctionOnSet(Part(moves, a, t), T) + Part(moves, a, t)[i]
            /\ SumFunctionOnSet(Part(moves, a, t), T) \in Int
        BY <2>1, <3>1, SumMore
      <3>3. Part(moves, a, t)[i] = IF a = b THEN more ELSE 0
        BY DEF Part, All, D
      <3> QED BY <3>2, <3>3
    <2>4. b \in Account /\ more \in Int
      BY <1>2 DEF Movement, All, D
    <2>5. Summable(gain(T), Account) /\ Summable(gain(U), Account)
      BY <1>5, <2>1
    <2>6. SumFunctionOnSet(gain(T), Account) = total(T) /\ total(T) \in Int
      <3>1. Summable(All(moves, t), T)
        BY <1>3, <2>1
      <3> QED BY <3>1, SumBasics
    <2> DEFINE gT == gain(T) gU == gain(U)
    <2>7. /\ Summable(gT, Account) /\ Summable(gU, Account) /\ b \in Account
          /\ gU[b] = gT[b] + more /\ gT[b] \in Int
          /\ \A a \in Account : a # b => gU[a] = gT[a]
      <3>1. \A a \in Account : gU[a] = gT[a] + (IF a = b THEN more ELSE 0) /\ gT[a] \in Int
        BY <2>3
      <3>2. Summable(gT, Account) /\ Summable(gU, Account)
        BY <2>5
      <3> HIDE DEF gU, gT, b, more, gain
      <3>3. \A a \in Account : a # b => gU[a] = gT[a]
        BY <3>1
      <3>4. gU[b] = gT[b] + more /\ gT[b] \in Int
        BY <2>4, <3>1
      <3> QED BY <2>4, <3>2, <3>3, <3>4
    <2> HIDE DEF gT, gU, b, more, total, gain
    <2>8. SumFunctionOnSet(gU, Account) = SumFunctionOnSet(gT, Account) - gT[b] + gU[b]
      BY <2>7, SumChanges
    <2>9. SumFunctionOnSet(gT, Account) = total(T)
      BY <2>6 DEF gT
    <2>10. SumFunctionOnSet(gU, Account) = total(U)
      BY <2>2, <2>4, <2>6, <2>7, <2>8, <2>9
    <2> QED BY <2>1, <2>10 DEF gU
  <1>8. D \in good
    <2>1. good \in SUBSET (SUBSET D)
      OBVIOUS
    <2> HIDE DEF good
    <2> QED BY <1>1, <1>6, <1>7, <2>1, SubsetsClosed
  <1>9. \A a \in Account : Moved(h, moves)[a][t] = h[a][t] + gain(D)[a]
    BY DEF Moved, Sum, SumFunction, Part, D
  <1> DEFINE before == [a \in Account |-> h[a][t]]
             after  == [a \in Account |-> Moved(h, moves)[a][t]]
             g == gain(D)
  <1>10. Summable(before, Account) /\ Summable(g, Account)
    BY <1>5 DEF Summable
  <1>11. \A a \in Account : before[a] \in Int /\ g[a] \in Int /\ after[a] = before[a] + g[a]
    <2>1. \A a \in Account : before[a] \in Int
      OBVIOUS
    <2>2. \A a \in Account : g[a] \in Int
      BY <1>10 DEF Summable
    <2>3. \A a \in Account : after[a] = before[a] + g[a]
      BY <1>9
    <2> QED BY <2>1, <2>2, <2>3
  <1>12. SumFunctionOnSet(g, Account) = total(D)
    BY <1>8
  <1>13. SumFunctionOnSet(after, Account)
           = SumFunctionOnSet(before, Account) + SumFunctionOnSet(g, Account)
    <2> HIDE DEF before, after, g
    <2> QED BY <1>10, <1>11, SumPlus
  <1>14. \A a \in Account : after[a] \in Int
    <2> HIDE DEF before, after, g
    <2> QED BY <1>11
  <1>15. SumFunctionOnSet(before, Account) \in Int
    <2> HIDE DEF before
    <2> QED BY <1>10, SumBasics
  <1>16. total(D) \in Int
    <2>1. Summable(All(moves, t), D)
      BY <1>3
    <2> QED BY <2>1, SumBasics
  <1> QED BY <1>12, <1>13, <1>14, <1>15, <1>16 DEF D, Total

-----------------------------------------------------------------------------
(* What one movement adds. *)
Gain(m, a, t)  == IF m.account = a /\ m.token = t THEN m.amount ELSE 0
Worth(m, t) == IF m.token = t THEN m.amount ELSE 0

PartsOf(moves, a, t) ==
  /\ Sum(moves, a, t) = SumFunctionOnSet(Part(moves, a, t), 1..Len(moves))
  /\ Numbered(Part(moves, a, t), Len(moves))
  /\ \A i \in 1..Len(moves) : Part(moves, a, t)[i] = Gain(moves[i], a, t)

WorthsOf(moves, t) ==
  /\ DOMAIN moves = 1..Len(moves)
  /\ Numbered(All(moves, t), Len(moves))
  /\ \A i \in 1..Len(moves) : All(moves, t)[i] = Worth(moves[i], t)

(* What a list of movements adds. *)
LEMMA MovesAdd ==
  ASSUME NEW a, NEW t, NEW moves \in Seq(Movement)
  PROVE  PartsOf(moves, a, t)
  <1>1. DOMAIN moves = 1..Len(moves)
    OBVIOUS
  <1>2. \A i \in 1..Len(moves) : Part(moves, a, t)[i] = Gain(moves[i], a, t)
    BY <1>1 DEF Part, Gain
  <1>3. \A i \in 1..Len(moves) : moves[i] \in Movement
    OBVIOUS
  <1>4. \A i \in 1..Len(moves) : Gain(moves[i], a, t) \in Int
    BY <1>3 DEF Gain, Movement
  <1>5. Numbered(Part(moves, a, t), Len(moves))
    BY <1>2, <1>4 DEF Numbered
  <1>6. Sum(moves, a, t) = SumFunctionOnSet(Part(moves, a, t), 1..Len(moves))
    BY <1>1 DEF Sum, SumFunction, Part
  <1> QED BY <1>2, <1>5, <1>6 DEF PartsOf

(* One movement. *)
LEMMA OneMove ==
  ASSUME NEW a, NEW t, NEW l \in Movement
  PROVE  Sum(<<l>>, a, t) = Gain(l, a, t)
  <1> DEFINE s == <<l>> f == Part(s, a, t)
  <1>1. s \in Seq(Movement) /\ Len(s) = 1 /\ s[1] = l
    OBVIOUS
  <1> HIDE DEF s
  <1>2. PartsOf(s, a, t)
    BY MovesAdd, <1>1
  <1>3. Sum(s, a, t) = SumFunctionOnSet(f, 1..1) /\ Numbered(f, 1) /\ f[1] = Gain(l, a, t)
    BY <1>1, <1>2 DEF PartsOf
  <1> HIDE DEF f
  <1> QED BY <1>3, SumFew DEF s

(* Two movements. *)
LEMMA TwoMoves ==
  ASSUME NEW a, NEW t, NEW l \in Movement, NEW m \in Movement
  PROVE  Sum(<<l, m>>, a, t) = Gain(l, a, t) + Gain(m, a, t)
  <1> DEFINE s == <<l, m>> f == Part(s, a, t)
  <1>1. s \in Seq(Movement) /\ Len(s) = 2 /\ s[1] = l /\ s[2] = m
    OBVIOUS
  <1> HIDE DEF s
  <1>2. PartsOf(s, a, t)
    BY MovesAdd, <1>1
  <1>3. /\ Sum(s, a, t) = SumFunctionOnSet(f, 1..2) /\ Numbered(f, 2)
        /\ f[1] = Gain(l, a, t) /\ f[2] = Gain(m, a, t)
    BY <1>1, <1>2 DEF PartsOf
  <1> HIDE DEF f
  <1> QED BY <1>3, SumFew DEF s

(* Three movements. *)
LEMMA ThreeMoves ==
  ASSUME NEW a, NEW t, NEW l \in Movement, NEW m \in Movement, NEW n \in Movement
  PROVE  Sum(<<l, m, n>>, a, t) = Gain(l, a, t) + Gain(m, a, t) + Gain(n, a, t)
  <1> DEFINE s == <<l, m, n>> f == Part(s, a, t)
  <1>1. s \in Seq(Movement) /\ Len(s) = 3 /\ s[1] = l /\ s[2] = m /\ s[3] = n
    OBVIOUS
  <1> HIDE DEF s
  <1>2. PartsOf(s, a, t)
    BY MovesAdd, <1>1
  <1>3. /\ Sum(s, a, t) = SumFunctionOnSet(f, 1..3) /\ Numbered(f, 3)
        /\ f[1] = Gain(l, a, t) /\ f[2] = Gain(m, a, t) /\ f[3] = Gain(n, a, t)
    BY <1>1, <1>2 DEF PartsOf
  <1> HIDE DEF f
  <1> QED BY <1>3, SumFew DEF s

(* Six movements. *)
LEMMA SixMoves ==
  ASSUME NEW a, NEW t, NEW s \in Seq(Movement), Len(s) = 6
  PROVE  Sum(s, a, t) = Gain(s[1], a, t) + Gain(s[2], a, t) + Gain(s[3], a, t)
                          + Gain(s[4], a, t) + Gain(s[5], a, t) + Gain(s[6], a, t)
  <1> DEFINE f == Part(s, a, t)
  <1>1. PartsOf(s, a, t)
    BY MovesAdd
  <1>2. /\ Sum(s, a, t) = SumFunctionOnSet(f, 1..6) /\ Numbered(f, 6)
        /\ f[1] = Gain(s[1], a, t) /\ f[2] = Gain(s[2], a, t) /\ f[3] = Gain(s[3], a, t)
        /\ f[4] = Gain(s[4], a, t) /\ f[5] = Gain(s[5], a, t) /\ f[6] = Gain(s[6], a, t)
    BY <1>1 DEF PartsOf
  <1> HIDE DEF f
  <1> QED BY <1>2, SumFew

(* What a list of movements adds, whoever gains. *)
LEMMA MovesAreWorth ==
  ASSUME NEW t, NEW moves \in Seq(Movement)
  PROVE  WorthsOf(moves, t)
  <1>1. DOMAIN moves = 1..Len(moves)
    OBVIOUS
  <1>2. \A i \in 1..Len(moves) : All(moves, t)[i] = Worth(moves[i], t)
    BY <1>1 DEF All, Worth
  <1>3. \A i \in 1..Len(moves) : moves[i] \in Movement
    OBVIOUS
  <1>4. \A i \in 1..Len(moves) : Worth(moves[i], t) \in Int
    BY <1>3 DEF Worth, Movement
  <1>5. Numbered(All(moves, t), Len(moves))
    BY <1>2, <1>4 DEF Numbered
  <1> QED BY <1>1, <1>2, <1>5 DEF WorthsOf

(* One movement. *)
LEMMA OneWorth ==
  ASSUME NEW t, NEW l \in Movement
  PROVE  SumFunctionOnSet(All(<<l>>, t), DOMAIN <<l>>) = Worth(l, t)
  <1> DEFINE s == <<l>> f == All(s, t)
  <1>1. s \in Seq(Movement) /\ Len(s) = 1 /\ s[1] = l
    OBVIOUS
  <1> HIDE DEF s
  <1>2. WorthsOf(s, t)
    BY MovesAreWorth, <1>1
  <1>3. DOMAIN s = 1..1 /\ Numbered(f, 1) /\ f[1] = Worth(l, t)
    BY <1>1, <1>2 DEF WorthsOf
  <1> HIDE DEF f
  <1>4. SumFunctionOnSet(f, DOMAIN s) = Worth(l, t)
    BY <1>3, SumFew
  <1> QED BY <1>4 DEF s, f

(* Two movements. *)
LEMMA TwoWorths ==
  ASSUME NEW t, NEW l \in Movement, NEW m \in Movement
  PROVE  SumFunctionOnSet(All(<<l, m>>, t), DOMAIN <<l, m>>) = Worth(l, t) + Worth(m, t)
  <1> DEFINE s == <<l, m>> f == All(s, t)
  <1>1. s \in Seq(Movement) /\ Len(s) = 2 /\ s[1] = l /\ s[2] = m
    OBVIOUS
  <1> HIDE DEF s
  <1>2. WorthsOf(s, t)
    BY MovesAreWorth, <1>1
  <1>3. DOMAIN s = 1..2 /\ Numbered(f, 2) /\ f[1] = Worth(l, t) /\ f[2] = Worth(m, t)
    BY <1>1, <1>2 DEF WorthsOf
  <1> HIDE DEF f
  <1>4. SumFunctionOnSet(f, DOMAIN s) = Worth(l, t) + Worth(m, t)
    BY <1>3, SumFew
  <1> QED BY <1>4 DEF s, f

(* Three movements. *)
LEMMA ThreeWorths ==
  ASSUME NEW t, NEW l \in Movement, NEW m \in Movement, NEW n \in Movement
  PROVE  SumFunctionOnSet(All(<<l, m, n>>, t), DOMAIN <<l, m, n>>)
            = Worth(l, t) + Worth(m, t) + Worth(n, t)
  <1> DEFINE s == <<l, m, n>> f == All(s, t)
  <1>1. s \in Seq(Movement) /\ Len(s) = 3 /\ s[1] = l /\ s[2] = m /\ s[3] = n
    OBVIOUS
  <1> HIDE DEF s
  <1>2. WorthsOf(s, t)
    BY MovesAreWorth, <1>1
  <1>3. /\ DOMAIN s = 1..3 /\ Numbered(f, 3)
        /\ f[1] = Worth(l, t) /\ f[2] = Worth(m, t) /\ f[3] = Worth(n, t)
    BY <1>1, <1>2 DEF WorthsOf
  <1> HIDE DEF f
  <1>4. SumFunctionOnSet(f, DOMAIN s) = Worth(l, t) + Worth(m, t) + Worth(n, t)
    BY <1>3, SumFew
  <1> QED BY <1>4 DEF s, f

(* Six movements. *)
LEMMA SixWorths ==
  ASSUME NEW t, NEW s \in Seq(Movement), Len(s) = 6
  PROVE  SumFunctionOnSet(All(s, t), DOMAIN s)
            = Worth(s[1], t) + Worth(s[2], t) + Worth(s[3], t)
                + Worth(s[4], t) + Worth(s[5], t) + Worth(s[6], t)
  <1> DEFINE f == All(s, t)
  <1>1. WorthsOf(s, t)
    BY MovesAreWorth
  <1>2. /\ DOMAIN s = 1..6 /\ Numbered(f, 6)
        /\ f[1] = Worth(s[1], t) /\ f[2] = Worth(s[2], t) /\ f[3] = Worth(s[3], t)
        /\ f[4] = Worth(s[4], t) /\ f[5] = Worth(s[5], t) /\ f[6] = Worth(s[6], t)
    BY <1>1 DEF WorthsOf
  <1> HIDE DEF f
  <1>3. SumFunctionOnSet(f, DOMAIN s)
          = Worth(s[1], t) + Worth(s[2], t) + Worth(s[3], t)
              + Worth(s[4], t) + Worth(s[5], t) + Worth(s[6], t)
    BY <1>2, SumFew
  <1> QED BY <1>3 DEF f

-----------------------------------------------------------------------------
(* Operators. *)

(* A part of an amount that is at most all of it. *)
LEMMA RatioBound ==
  ASSUME NEW amount \in Nat, NEW ratio \in Nat, NEW boost \in Nat \ {0}, ratio <= boost
  PROVE  (amount * ratio) \div boost \in 0..amount
  <1> DEFINE x == amount * ratio
             q == x \div boost
  <1>1. x \in Nat
    OBVIOUS
  <1>2. x <= boost * amount
    <2>1. PICK k \in Nat : boost = ratio + k
      <3>1. boost - ratio \in Nat /\ boost = ratio + (boost - ratio)
        OBVIOUS
      <3> QED BY <3>1
    <2>2. boost * amount = x + k * amount /\ k * amount \in Nat
      BY <2>1
    <2> QED BY <1>1, <2>2
  <1>3. q \in Nat /\ boost * q <= x
    <2> HIDE DEF x
    <2>1. x = boost * q + (x % boost) /\ x % boost \in 0..(boost - 1) /\ q \in Nat
      BY <1>1, Division
    <2> HIDE DEF q
    <2> QED BY <2>1
  <1> HIDE DEF x, q
  <1>4. boost * q <= boost * amount
    <2>1. boost * q \in Int /\ boost * amount \in Int
      BY <1>3
    <2> QED BY <1>1, <1>2, <1>3, <2>1
  <1>5. q <= amount
    <2> SUFFICES ASSUME q >= amount + 1 PROVE FALSE
      BY <1>3
    <2>1. PICK k \in Nat : q = amount + 1 + k
      <3>1. q - (amount + 1) \in Nat /\ q = amount + 1 + (q - (amount + 1))
        BY <1>3
      <3> QED BY <3>1
    <2>2. boost * q = boost * amount + boost + boost * k
      BY <2>1
    <2>3. boost * k \in Nat /\ boost * amount \in Nat
      BY <2>1
    <2> QED BY <1>4, <2>2, <2>3
  <1> QED BY <1>3, <1>5 DEF x, q

(* The shares of the delegates are what is not for the reserve. *)
LEMMA SharesAreTheRest ==
  ASSUME DexOperatorsAssumption
  PROVE  /\ RiskFee \in 0..OperatorFee
         /\ \A i \in DOMAIN Delegates : MinerFee(i) \in Nat
         /\ SumFunctionOnSet([i \in DOMAIN Delegates |-> MinerFee(i)], DOMAIN Delegates)
              = OperatorFee - RiskFee
  <1> DEFINE n == Len(Delegates)
             total == OperatorFee - RiskFee
             fees == [i \in 1..n |-> MinerFee(i)]
             even == [i \in 1..n |-> total \div n]
  <1>1. DOMAIN Delegates = 1..n /\ n \in Nat \ {0} /\ 1 \in 1..n
    BY DEF DexOperatorsAssumption
  <1>2. RiskFee \in 0..OperatorFee
    BY RatioBound DEF RiskFee, DexOperatorsAssumption
  <1>3. total \in Nat /\ OperatorFee \in Nat
    BY <1>2 DEF DexOperatorsAssumption
  <1>4. /\ \A i \in 1..n : fees[i] = even[i] + (IF i = 1 THEN total % n ELSE 0)
        /\ \A i \in 1..n : even[i] = total \div n
    BY DEF MinerFee
  <1>40. \A i \in 1..n : MinerFee(i) = fees[i]
    OBVIOUS
  <1> HIDE DEF n, total, fees
  <1>5. total = n * (total \div n) + (total % n) /\ total % n \in Nat /\ total \div n \in Nat
    <2>1. n \in Nat \ {0} /\ total \in Nat
      BY <1>1, <1>3
    <2>2. /\ total = n * (total \div n) + (total % n) /\ total % n \in 0..(n - 1)
          /\ total \div n \in Nat
      BY <2>1, Division
    <2> QED BY <2>1, <2>2
  <1> DEFINE q == total \div n r == total % n
  <1>6. /\ \A i \in 1..n : even[i] = q /\ fees[i] = q + (IF i = 1 THEN r ELSE 0)
        /\ total = n * q + r /\ q \in Nat /\ r \in Nat
    BY <1>4, <1>5
  <1> HIDE DEF q, r, even
  <1>7. IsFiniteSet(1..n) /\ Cardinality(1..n) = n
    BY <1>1, FS_Interval
  <1>8. \A i \in 1..n : fees[i] \in Nat
    BY <1>6
  <1>9. Summable(even, 1..n) /\ Summable(fees, 1..n)
    BY <1>6, <1>7, <1>8 DEF Summable
  <1>10. SumFunctionOnSet(even, 1..n) = n * q
    <2>1. q \in Int /\ \A i \in 1..n : even[i] = q
      BY <1>6
    <2>2. SumFunctionOnSet(even, 1..n) = Cardinality(1..n) * q
      BY <1>7, <2>1, SumConstant
    <2> QED BY <1>7, <2>2
  <1>11. \A i \in 1..n : i # 1 => fees[i] = even[i]
    BY <1>6
  <1>12. SumFunctionOnSet(fees, 1..n) = SumFunctionOnSet(even, 1..n) - even[1] + fees[1]
    BY <1>1, <1>9, <1>11, SumChanges
  <1>13. even[1] = q /\ fees[1] = q + r
    BY <1>1, <1>6
  <1> DEFINE nq == n * q
  <1>14. nq \in Int
    BY <1>1, <1>6
  <1>15. SumFunctionOnSet(fees, 1..n) = total
    <2>1. SumFunctionOnSet(even, 1..n) = nq /\ total = nq + r
      BY <1>6, <1>10
    <2> HIDE DEF nq
    <2> QED BY <1>6, <1>12, <1>13, <1>14, <2>1
  <1>16. \A i \in DOMAIN Delegates : MinerFee(i) \in Nat
    BY <1>1, <1>40, <1>8
  <1> QED BY <1>1, <1>2, <1>15, <1>16 DEF total, fees

AllNatural(h) == \A a \in Account, t \in Token : h[a][t] \in Nat

(* The fee of an operator changes hands, and no one ends up below zero. *)
LEMMA FeeChangesHands ==
  ASSUME DexOperatorsAssumption, free \in [Account -> [Token -> Nat]],
         NEW payer \in Account, ProcessDexOperatorFee(payer)
  PROVE  /\ free' \in [Account -> [Token -> Nat]]
         /\ \A t \in Token : Total(free', t) = Total(free, t)
  <1> DEFINE n == Len(Delegates)
             l == Move(payer, "WICC", -OperatorFee)
             m == Move(Fcoin, "WICC", RiskFee)
             rest == [i \in DOMAIN Delegates |-> Move(Delegates[i], "WICC", MinerFee(i))]
             moves == <<l, m>> \o rest
  <1>1. DOMAIN Delegates = 1..n /\ n \in Nat /\ \A i \in 1..n : Delegates[i] \in Account
    BY DEF DexOperatorsAssumption
  <1>2. RiskFee \in 0..OperatorFee /\ OperatorFee \in Nat /\ \A i \in 1..n : MinerFee(i) \in Nat
    BY <1>1, SharesAreTheRest DEF DexOperatorsAssumption
  <1>3. l \in Movement /\ m \in Movement
    BY <1>2 DEF Move, Movement, Token, DexOperatorsAssumption
  <1>4. \A i \in 1..n : rest[i] = Move(Delegates[i], "WICC", MinerFee(i)) /\ rest[i] \in Movement
    BY <1>1, <1>2 DEF Move, Movement, Token
  <1>5. rest \in Seq(Movement) /\ Len(rest) = n
    <2>1. rest \in [1..n -> Movement]
      BY <1>1, <1>4
    <2> HIDE DEF rest
    <2> QED BY <1>1, <2>1
  <1>6. /\ moves \in Seq(Movement) /\ Len(moves) = n + 2 /\ moves[1] = l /\ moves[2] = m
        /\ \A i \in 1..n : moves[i + 2] = rest[i]
    <2> HIDE DEF rest, l, m
    <2>1. <<l, m>> \in Seq(Movement) /\ Len(<<l, m>>) = 2
      BY <1>3
    <2> DEFINE two == <<l, m>>
    <2>2. two[1] = l /\ two[2] = m /\ two \in Seq(Movement) /\ Len(two) = 2
      BY <2>1
    <2> HIDE DEF two
    <2>5. n \in Nat
      BY <1>1
    <2>3. /\ two \o rest \in Seq(Movement) /\ Len(two \o rest) = n + 2
          /\ \A i \in 1..(n + 2) : (two \o rest)[i] = IF i <= 2 THEN two[i] ELSE rest[i - 2]
      <3>0. two \in Seq(Movement) /\ rest \in Seq(Movement)
        BY <1>5, <2>2
      <3>1. two \o rest \in Seq(Movement) /\ Len(two \o rest) = Len(two) + Len(rest)
        BY <3>0, ConcatProperties
      <3>2. Len(two \o rest) = n + 2
        BY <1>5, <2>2, <2>5, <3>1
      <3>3. \A i \in 1..(Len(two) + Len(rest)) :
              (two \o rest)[i] = IF i <= Len(two) THEN two[i] ELSE rest[i - Len(two)]
        BY <3>0, ConcatProperties, Zenon
      <3>4. Len(two) + Len(rest) = n + 2
        BY <1>5, <2>2, <2>5
      <3> QED BY <2>2, <3>1, <3>2, <3>3, <3>4
    <2>6. (two \o rest)[1] = two[1] /\ (two \o rest)[2] = two[2]
      BY <2>3, <2>5
    <2>4. \A i \in 1..n : (two \o rest)[i + 2] = rest[i]
      <3> SUFFICES ASSUME NEW i \in 1..n PROVE (two \o rest)[i + 2] = rest[i]
        OBVIOUS
      <3>1. i + 2 \in 1..(n + 2) /\ ~(i + 2 <= 2) /\ (i + 2) - 2 = i
        BY <2>5
      <3> QED BY <2>3, <3>1
    <2> QED BY <2>2, <2>3, <2>4, <2>6 DEF two
  <1>7. free' = Moved(free, moves) /\ free[payer]["WICC"] >= OperatorFee
    BY DEF ProcessDexOperatorFee
  <1>8. DOMAIN moves = 1..(n + 2)
    BY <1>6
  <1> HIDE DEF moves
  <1>9. ASSUME NEW t \in Token PROVE SumFunctionOnSet(All(moves, t), DOMAIN moves) = 0
    <2> DEFINE f == All(moves, t)
               g == [i \in 1..n |-> Worth(rest[i], t)]
    <2>0. \A i \in 1..(n + 2) : moves[i] \in Movement
      BY <1>6, <1>8
    <2>1. \A i \in 1..(n + 2) : f[i] = Worth(moves[i], t)
      BY <1>8 DEF All, Worth
    <2>2. \A i \in 1..(n + 2) : f[i] \in Int
      <3>1. \A k \in Movement : Worth(k, t) \in Int
        BY DEF Worth, Movement
      <3> HIDE DEF f, g
      <3> QED BY <2>0, <2>1, <3>1
    <2>3. \A i \in 1..n : g[i] = f[i + 2]
      BY <1>1, <1>6, <2>1
    <2>4. f[1] = Worth(l, t) /\ f[2] = Worth(m, t)
      BY <1>1, <1>6, <2>1
    <2> HIDE DEF f, g
    <2>5. SumFunctionOnSet(f, 1..(n + 2)) = f[1] + f[2] + SumFunctionOnSet(g, 1..n)
      BY <1>1, <2>2, <2>3, SumTwoAndRest DEF Numbered
    <2>6. IsFiniteSet(1..n)
      BY <1>1, FS_Interval
    <2>7. CASE t = "WICC"
      <3> DEFINE fees == [i \in 1..n |-> MinerFee(i)]
      <3>1. \A i \in 1..n : g[i] = fees[i]
        BY <1>4, <2>7 DEF g, Worth, Move
      <3>2. SumFunctionOnSet(g, 1..n) = SumFunctionOnSet(fees, 1..n)
        <4> HIDE DEF fees
        <4> QED BY <2>6, <3>1, SumSame
      <3>3. SumFunctionOnSet(fees, 1..n) = OperatorFee - RiskFee
        BY <1>1, SharesAreTheRest
      <3>4. Worth(l, t) = -OperatorFee /\ Worth(m, t) = RiskFee
        BY <2>7 DEF Worth, Move
      <3>5. SumFunctionOnSet(f, 1..(n + 2)) = -OperatorFee + RiskFee + (OperatorFee - RiskFee)
        BY <2>4, <2>5, <3>2, <3>3, <3>4
      <3> QED BY <1>2, <1>8, <3>5 DEF f
    <2>8. CASE t # "WICC"
      <3>1. \A i \in 1..n : g[i] = 0
        BY <1>4, <2>8 DEF g, Worth, Move
      <3>2. SumFunctionOnSet(g, 1..n) = Cardinality(1..n) * 0 /\ Cardinality(1..n) \in Nat
        BY <2>6, <3>1, SumConstant, FS_CardinalityType
      <3>3. Worth(l, t) = 0 /\ Worth(m, t) = 0
        BY <2>8 DEF Worth, Move
      <3>4. SumFunctionOnSet(g, 1..n) = 0
        BY <3>2
      <3> QED BY <1>8, <2>4, <2>5, <3>3, <3>4 DEF f
    <2> QED BY <2>7, <2>8
  <1>10. ASSUME NEW a \in Account, NEW t \in Token PROVE free[a][t] + Sum(moves, a, t) \in Nat
    <2> DEFINE f == Part(moves, a, t)
               g == [i \in 1..n |-> Gain(rest[i], a, t)]
    <2>0. \A i \in 1..(n + 2) : moves[i] \in Movement
      BY <1>6, <1>8
    <2>1. \A i \in 1..(n + 2) : f[i] = Gain(moves[i], a, t)
      BY <1>8 DEF Part, Gain
    <2>2. \A i \in 1..(n + 2) : f[i] \in Int
      <3>1. \A i \in 1..(n + 2) : Gain(moves[i], a, t) \in Int
        BY <2>0 DEF Gain, Movement
      <3> HIDE DEF f
      <3> QED BY <2>1, <3>1
    <2>3. \A i \in 1..n : g[i] = f[i + 2]
      BY <1>1, <1>6, <2>1
    <2>4. f[1] = Gain(l, a, t) /\ f[2] = Gain(m, a, t)
      BY <1>1, <1>6, <2>1
    <2>5. Sum(moves, a, t) = SumFunctionOnSet(f, 1..(n + 2))
      BY <1>8 DEF Sum, SumFunction, Part
    <2>6. \A i \in 1..n : g[i] \in Nat
      BY <1>2, <1>4 DEF Gain, Move
    <2> HIDE DEF f, g
    <2>7. SumFunctionOnSet(f, 1..(n + 2)) = f[1] + f[2] + SumFunctionOnSet(g, 1..n)
      BY <1>1, <2>2, <2>3, SumTwoAndRest DEF Numbered
    <2>8. SumFunctionOnSet(g, 1..n) \in Nat
      <3>1. IsFiniteSet(1..n)
        BY <1>1, FS_Interval
      <3> QED BY <2>6, <3>1, SumOfNats
    <2>9. Gain(m, a, t) \in Nat
      BY <1>2 DEF Gain, Move
    <2>10. free[a][t] + Gain(l, a, t) \in Nat /\ Gain(l, a, t) \in Int /\ free[a][t] \in Nat
      <3>1. CASE a = payer /\ t = "WICC"
        BY <1>2, <1>7, <3>1 DEF Gain, Move
      <3>2. CASE ~(a = payer /\ t = "WICC")
        <4>1. Gain(l, a, t) = 0
          BY <3>2 DEF Gain, Move
        <4> QED BY <4>1
      <3> QED BY <3>1, <3>2
    <2> DEFINE x == Gain(l, a, t) y == Gain(m, a, t) z == SumFunctionOnSet(g, 1..n)
               w == free[a][t]
    <2>11. Sum(moves, a, t) = x + y + z
      BY <2>4, <2>5, <2>7
    <2>12. w + x \in Nat /\ x \in Int /\ w \in Nat /\ y \in Nat /\ z \in Nat
      BY <2>8, <2>9, <2>10
    <2> HIDE DEF w, x, y, z
    <2>13. w + (x + y + z) \in Nat
      BY <2>12
    <2> QED BY <2>11, <2>13 DEF w
  <1>11. free' \in [Account -> [Token -> Nat]]
    <2>1. \A a \in Account, t \in Token : Moved(free, moves)[a][t] \in Nat
      BY <1>10 DEF Moved
    <2> QED BY <1>7, <2>1 DEF Moved
  <1>12. ASSUME NEW t \in Token PROVE Total(free', t) = Total(free, t)
    <2>1. IsFiniteSet(Account) /\ \A a \in Account : free[a][t] \in Int
      BY DEF DexOperatorsAssumption
    <2>2. Total(Moved(free, moves), t) = Total(free, t) + SumFunctionOnSet(All(moves, t), DOMAIN moves)
          /\ Total(free, t) \in Int
      BY <1>6, <2>1, MovedTotal
    <2> QED BY <1>7, <1>9, <2>2
  <1> QED BY <1>11, <1>12

(* The operators an account owns. *)
Owned(a) == {id \in DexId : HaveDexOperator(id) /\ GetDexOperator(id).owner = a}

OperatorsTyped == \A id \in DOMAIN operators : operators[id] \in DexOperator

(* What the operators keep. *)
OperatorsInv == OperatorsTypeOK /\ OperatorsTyped /\ OwnersAreFound

(* Whatever operator is asked for, stored or not, is one. *)
LEMMA GottenIsOperator ==
  ASSUME DexOperatorsAssumption, OperatorsTyped, NEW id
  PROVE  GetDexOperator(id) \in DexOperator
  <1>1. Dex0 \in DexOperator
    BY DEF Dex0, DexOperator, DexOperatorsAssumption
  <1> QED BY <1>1 DEF GetDexOperator, OperatorsTyped

(* An account that is not found owns nothing. *)
LEMMA NotFoundOwnsNothing ==
  ASSUME OwnersAreFound, NEW a \in Account, ~HasDexOperatorByOwner(a)
  PROVE  Owned(a) = {} /\ a \notin DOMAIN owners
  <1>1. GetDexOperatorByOwner(a) = {} /\ a \notin DOMAIN owners
    BY DEF HasDexOperatorByOwner, GetDexOperatorByOwner
  <1> QED BY <1>1 DEF OwnersAreFound, Owned

(* An account owns one operator at most. *)
LEMMA OwnsOne ==
  ASSUME OwnersAreFound, NEW a \in Account, NEW id \in Owned(a)
  PROVE  Owned(a) = {id}
  <1>1. GetDexOperatorByOwner(a) = Owned(a)
    BY DEF OwnersAreFound, Owned
  <1>2. \A i \in GetDexOperatorByOwner(a), j \in GetDexOperatorByOwner(a) : i = j
    BY DEF GetDexOperatorByOwner
  <1> QED BY <1>1, <1>2

(* Registering keeps the map of owners true. *)
LEMMA RegisterKeeps ==
  ASSUME DexOperatorsAssumption, OperatorsInv, NEW payer \in Account, NEW reg \in Registrations,
         RegisterOperator(payer, reg)
  PROVE  OperatorsInv'
  <1>0. PICK k : k = lastId + 1
    OBVIOUS
  <1> DEFINE r == [reg EXCEPT !.activated = FALSE]
             y == reg.owner
  <1>1. reg \in DexOperator /\ r \in DexOperator /\ y \in Account /\ r.owner = y
    BY DEF DexOperatorsAssumption, DexOperator
  <1>2. /\ k \in DexId /\ k # 0 /\ k \notin DOMAIN operators /\ lastId' = k
        /\ operators' = Put(operators, k, r) /\ owners' = Put(owners, y, k)
        /\ ~HasDexOperatorByOwner(y)
    BY <1>0 DEF RegisterOperator, NextDexId, OperatorsInv, OperatorsTypeOK, DexId,
                DexOperatorsAssumption
  <1>3. free' \in [Account -> [Token -> Nat]]
    BY FeeChangesHands DEF RegisterOperator, OperatorsInv, OperatorsTypeOK
  <1>4. /\ DOMAIN operators' = DOMAIN operators \cup {k} /\ operators'[k] = r
        /\ \A j \in DOMAIN operators : operators'[j] = operators[j]
    <2> HIDE DEF r
    <2> QED BY <1>2 DEF Put
  <1>5. /\ DOMAIN owners' = DOMAIN owners \cup {y} /\ owners'[y] = k
        /\ \A a \in DOMAIN owners : a # y => owners'[a] = owners[a]
    <2> HIDE DEF y
    <2> QED BY <1>2 DEF Put
  <1>6. 1..k = (1..lastId) \cup {k} /\ lastId \in Nat
    BY <1>0, <1>2 DEF OperatorsInv, OperatorsTypeOK, DexId, DexOperatorsAssumption
  <1> HIDE DEF r, y
  <1>7. OperatorsTypeOK'
    <2>1. DOMAIN operators' \subseteq DexId /\ lastId' \in DexId
      BY <1>2, <1>4 DEF OperatorsInv, OperatorsTypeOK
    <2>2. 1..lastId' = DOMAIN operators' \ {0}
      BY <1>2, <1>4, <1>6 DEF OperatorsInv, OperatorsTypeOK
    <2>3. DOMAIN owners' \subseteq Account
      BY <1>1, <1>5 DEF OperatorsInv, OperatorsTypeOK
    <2>4. \A a \in DOMAIN owners' : owners'[a] \in DOMAIN operators'
      BY <1>4, <1>5 DEF OperatorsInv, OperatorsTypeOK, Range
    <2>5. Range(owners') \subseteq DOMAIN operators'
      BY <2>4 DEF Range
    <2> QED BY <1>3, <2>1, <2>2, <2>3, <2>5 DEF OperatorsTypeOK, DexId
  <1>8. OperatorsTyped'
    BY <1>1, <1>4 DEF OperatorsInv, OperatorsTyped, DexOperator, DexId
  <1>9. \A j \in DexId : /\ HaveDexOperator(j)' <=> HaveDexOperator(j) \/ j = k
                         /\ j # k => GetDexOperator(j)' = GetDexOperator(j)
                         /\ GetDexOperator(k)' = r
    BY <1>4 DEF HaveDexOperator, GetDexOperator, Dex0
  <1>10. 0 \in DexId
    BY DEF DexId, DexOperatorsAssumption
  <1>11. Owned(y) = {} /\ y \notin DOMAIN owners
    BY <1>1, <1>2, NotFoundOwnsNothing DEF OperatorsInv
  <1>12. ASSUME NEW a \in Account PROVE GetDexOperatorByOwner(a)' = Owned(a)'
    <2>1. CASE a = y
      <3>1. GetDexOperatorByOwner(a)' = {k}
        BY <1>5, <2>1 DEF GetDexOperatorByOwner
      <3>2. Owned(a)' = {k}
        BY <1>1, <1>2, <1>9, <1>11, <2>1 DEF Owned, DexId
      <3> QED BY <3>1, <3>2
    <2>2. CASE a # y
      <3>0. ~HaveDexOperator(k)
        BY <1>2 DEF HaveDexOperator
      <3>1. Owned(a)' = Owned(a)
        BY <1>1, <1>2, <1>9, <2>2, <3>0 DEF Owned, DexId
      <3>2. GetDexOperator(0)' = GetDexOperator(0)
        BY <1>2, <1>9, <1>10
      <3>3. GetDexOperatorByOwner(a)' = GetDexOperatorByOwner(a)
        BY <1>5, <2>2, <3>2 DEF GetDexOperatorByOwner
      <3>4. GetDexOperatorByOwner(a) = Owned(a)
        BY DEF OperatorsInv, OwnersAreFound, Owned
      <3> QED BY <3>1, <3>3, <3>4
    <2> QED BY <2>1, <2>2
  <1>13. OwnersAreFound'
    BY <1>12 DEF OwnersAreFound, Owned
  <1> QED BY <1>7, <1>8, <1>13 DEF OperatorsInv

(* Changing an operator, its owner too, keeps the map of owners true. *)
LEMMA StoreKeeps ==
  ASSUME DexOperatorsAssumption, OperatorsInv, NEW id \in DexId, NEW new \in DexOperator,
         HaveDexOperator(id), StoreOperator(id, new),
         new.owner # GetDexOperator(id).owner => ~HasDexOperatorByOwner(new.owner),
         free' \in [Account -> [Token -> Nat]]
  PROVE  OperatorsInv'
  <1> DEFINE old == GetDexOperator(id)
             x == old.owner
             y == new.owner
  <1>1. old \in DexOperator /\ x \in Account /\ y \in Account
    <2>1. old \in DexOperator
      BY GottenIsOperator DEF OperatorsInv
    <2> HIDE DEF old
    <2> QED BY <2>1 DEF DexOperator
  <1>2. /\ operators' = Put(operators, id, new) /\ lastId' = lastId
        /\ x = y => owners' = owners
        /\ x # y => owners' = Put(Restrict(owners, DOMAIN owners \ {x}), y, id)
    BY DEF StoreOperator, WithNewOwner
  <1>3. x # y => ~HasDexOperatorByOwner(y)
    OBVIOUS
  <1>4. id \in Owned(x)
    BY DEF Owned
  <1>5. /\ DOMAIN operators' = DOMAIN operators \cup {id} /\ operators'[id] = new
        /\ \A j \in DOMAIN operators : j # id => operators'[j] = operators[j]
    BY <1>2 DEF Put
  <1>6. \A j \in DexId : /\ HaveDexOperator(j)' <=> HaveDexOperator(j)
                         /\ j # id => GetDexOperator(j)' = GetDexOperator(j)
                         /\ GetDexOperator(id)' = new
    BY <1>5 DEF HaveDexOperator, GetDexOperator, Dex0
  <1>7. GetDexOperator(id).owner = x /\ new.owner = y
    OBVIOUS
  <1> HIDE DEF old, x, y
  <1>8. 0 \in DexId
    BY DEF DexId, DexOperatorsAssumption
  <1>9. OperatorsTyped'
    BY <1>5 DEF OperatorsInv, OperatorsTyped, DexOperator, DexId
  <1>10. DOMAIN operators' \subseteq DexId /\ 1..lastId' = DOMAIN operators' \ {0} /\ lastId' \in DexId
    BY <1>2, <1>5 DEF OperatorsInv, OperatorsTypeOK, HaveDexOperator
  <1>11. CASE x = y
    <2>1. owners' = owners
      BY <1>2, <1>11
    <2>2. OperatorsTypeOK'
      BY <1>5, <1>10, <2>1 DEF OperatorsInv, OperatorsTypeOK, DexId
    <2>3. \A j \in DexId : GetDexOperator(j)'.owner = GetDexOperator(j).owner
      BY <1>6, <1>7, <1>11
    <2>4. ASSUME NEW a \in Account PROVE GetDexOperatorByOwner(a)' = Owned(a)'
      <3>1. Owned(a)' = Owned(a)
        BY <1>6, <2>3 DEF Owned, DexId
      <3>2. GetDexOperatorByOwner(a)' = GetDexOperatorByOwner(a)
        BY <1>8, <2>1, <2>3 DEF GetDexOperatorByOwner
      <3> QED BY <3>1, <3>2 DEF OperatorsInv, OwnersAreFound, Owned
    <2>5. OwnersAreFound'
      BY <2>4 DEF OwnersAreFound, Owned
    <2> QED BY <1>9, <2>2, <2>5 DEF OperatorsInv
  <1>12. CASE x # y
    <2>1. /\ DOMAIN owners' = (DOMAIN owners \ {x}) \cup {y} /\ owners'[y] = id
          /\ \A a \in DOMAIN owners \ {x} : a # y => owners'[a] = owners[a]
      BY <1>2, <1>12 DEF Put, Restrict
    <2>2. OperatorsTypeOK'
      <3>1. \A a \in DOMAIN owners' : owners'[a] \in DOMAIN operators'
        BY <1>5, <2>1 DEF OperatorsInv, OperatorsTypeOK, Range
      <3>2. Range(owners') \subseteq DOMAIN operators'
        BY <3>1 DEF Range
      <3>3. DOMAIN owners' \subseteq Account
        BY <1>1, <2>1 DEF OperatorsInv, OperatorsTypeOK
      <3> QED BY <1>10, <3>2, <3>3 DEF OperatorsInv, OperatorsTypeOK, DexId
    <2>3. Owned(x) = {id}
      BY <1>1, <1>4, OwnsOne DEF OperatorsInv
    <2>4. Owned(y) = {} /\ y \notin DOMAIN owners
      BY <1>1, <1>3, <1>12, NotFoundOwnsNothing DEF OperatorsInv
    <2>5. ASSUME NEW a \in Account PROVE GetDexOperatorByOwner(a)' = Owned(a)'
      <3>1. CASE a = y
        <4>1. GetDexOperatorByOwner(a)' = {id}
          BY <2>1, <3>1 DEF GetDexOperatorByOwner
        <4>2. Owned(a)' = {id}
          BY <1>6, <1>7, <2>4, <3>1 DEF Owned, DexId
        <4> QED BY <4>1, <4>2
      <3>2. CASE a = x
        <4>1. a \notin DOMAIN owners'
          BY <1>12, <2>1, <3>2
        <4>2. ~(GetDexOperator(0)'.owner = a)
          BY <1>6, <1>7, <1>8, <1>12, <2>3, <3>2 DEF Owned, HaveDexOperator
        <4>3. GetDexOperatorByOwner(a)' = {}
          BY <4>1, <4>2 DEF GetDexOperatorByOwner
        <4>4. Owned(a)' = {}
          BY <1>6, <1>7, <1>12, <2>3, <3>2 DEF Owned, DexId
        <4> QED BY <4>3, <4>4
      <3>3. CASE a # x /\ a # y
        <4>1. GetDexOperator(0)'.owner = a <=> GetDexOperator(0).owner = a
          BY <1>6, <1>7, <1>8, <3>3
        <4>2. GetDexOperatorByOwner(a)' = GetDexOperatorByOwner(a)
          BY <2>1, <3>3, <4>1 DEF GetDexOperatorByOwner
        <4>3. Owned(a)' = Owned(a)
          BY <1>6, <1>7, <3>3 DEF Owned, DexId
        <4> QED BY <4>2, <4>3 DEF OperatorsInv, OwnersAreFound, Owned
      <3> QED BY <3>1, <3>2, <3>3
    <2>6. OwnersAreFound'
      BY <2>5 DEF OwnersAreFound, Owned
    <2> QED BY <1>9, <2>2, <2>6 DEF OperatorsInv
  <1> QED BY <1>11, <1>12

(* Every step on operators keeps what they keep, and the money. *)
LEMMA OperatorsStep ==
  ASSUME DexOperatorsAssumption, OperatorsInv, OperatorsNext
  PROVE  OperatorsInv' /\ \A t \in Token : Total(free', t) = Total(free, t)
  <1>1. ASSUME NEW payer \in Account, NEW reg \in Registrations, RegisterOperator(payer, reg)
        PROVE  OperatorsInv' /\ \A t \in Token : Total(free', t) = Total(free, t)
    <2>1. ProcessDexOperatorFee(payer) /\ free \in [Account -> [Token -> Nat]]
      BY <1>1 DEF RegisterOperator, OperatorsInv, OperatorsTypeOK
    <2> QED BY <1>1, <2>1, RegisterKeeps, FeeChangesHands
  <1>2. ASSUME NEW id \in DexId, NEW change \in Changes, UpdateOperator(id, change)
        PROVE  OperatorsInv' /\ \A t \in Token : Total(free', t) = Total(free, t)
    <2> DEFINE old == GetDexOperator(id)
               new == [old EXCEPT ![change.field] = change.value]
    <2>1. old \in DexOperator
      BY GottenIsOperator DEF OperatorsInv
    <2>2. /\ HaveDexOperator(id) /\ ChangeAllowed(id, change)
          /\ ProcessDexOperatorFee(old.owner) /\ StoreOperator(id, new)
      BY <1>2 DEF UpdateOperator
    <2>3. /\ change.value \in ChangeValues(change.field)
          /\ change.field \in {"owner", "receiver", "terms", "shared"}
      BY DEF DexOperatorsAssumption, ChangeValues
    <2> HIDE DEF old
    <2>4. new \in DexOperator /\ (new.owner # old.owner => ~HasDexOperatorByOwner(new.owner))
      <3>1. CASE change.field = "owner"
        <4>1. change.value \in Account /\ ~HasDexOperatorByOwner(change.value)
          BY <2>2, <2>3, <3>1 DEF ChangeValues, ChangeAllowed
        <4>2. new \in DexOperator /\ new.owner = change.value
          BY <2>1, <3>1, <4>1 DEF DexOperator
        <4> QED BY <4>1, <4>2
      <3>2. CASE change.field = "receiver"
        <4>1. change.value \in Account
          BY <2>3, <3>2 DEF ChangeValues
        <4> QED BY <2>1, <3>2, <4>1 DEF DexOperator
      <3>3. CASE change.field = "terms"
        <4>1. change.value \in Terms
          BY <2>3, <3>3 DEF ChangeValues
        <4> QED BY <2>1, <3>3, <4>1 DEF DexOperator
      <3>4. CASE change.field = "shared"
        <4>1. change.value \in SUBSET DexId
          BY <2>3, <3>4 DEF ChangeValues
        <4> QED BY <2>1, <3>4, <4>1 DEF DexOperator
      <3> QED BY <2>3, <3>1, <3>2, <3>3, <3>4
    <2>5. old.owner \in Account /\ free \in [Account -> [Token -> Nat]]
      BY <2>1 DEF DexOperator, OperatorsInv, OperatorsTypeOK
    <2>6. free' \in [Account -> [Token -> Nat]] /\ \A t \in Token : Total(free', t) = Total(free, t)
      BY <2>2, <2>5, FeeChangesHands
    <2> HIDE DEF new
    <2>7. OperatorsInv'
      BY <2>2, <2>4, <2>6, StoreKeeps DEF old
    <2> QED BY <2>6, <2>7
  <1>3. ASSUME NEW id \in DexId, TurnOperator(id)
        PROVE  OperatorsInv' /\ \A t \in Token : Total(free', t) = Total(free, t)
    <2> DEFINE old == GetDexOperator(id)
               new == [old EXCEPT !.activated = ~@]
    <2>1. old \in DexOperator
      BY GottenIsOperator DEF OperatorsInv
    <2>2. HaveDexOperator(id) /\ StoreOperator(id, new) /\ free' = free
      BY <1>3 DEF TurnOperator
    <2> HIDE DEF old
    <2>3. new \in DexOperator /\ new.owner = old.owner
      BY <2>1 DEF DexOperator
    <2> HIDE DEF new
    <2>4. free' \in [Account -> [Token -> Nat]]
      BY <2>2 DEF OperatorsInv, OperatorsTypeOK
    <2>5. OperatorsInv'
      BY <2>2, <2>3, <2>4, StoreKeeps DEF old
    <2> QED BY <2>2, <2>5
  <1> QED BY <1>1, <1>2, <1>3 DEF OperatorsNext

(* A step that changes no operator keeps them. *)
LEMMA OperatorsUnchanged ==
  ASSUME OperatorsInv, UNCHANGED operatorVars, free' \in [Account -> [Token -> Nat]]
  PROVE  OperatorsInv'
  <1>1. operators' = operators /\ owners' = owners /\ lastId' = lastId
    BY DEF operatorVars
  <1>2. OperatorsTypeOK' /\ OperatorsTyped'
    BY <1>1 DEF OperatorsInv, OperatorsTypeOK, OperatorsTyped, DexOperator, DexId
  <1>3. OwnersAreFound'
    BY <1>1 DEF OperatorsInv, OwnersAreFound, GetDexOperatorByOwner, HaveDexOperator,
                GetDexOperator, Dex0, DexId
  <1> QED BY <1>2, <1>3 DEF OperatorsInv

(* It holds at first. *)
LEMMA OperatorsStart ==
  ASSUME DexOperatorsAssumption, OperatorsInit
  PROVE  OperatorsInv
  <1>1. DOMAIN operators = {} /\ DOMAIN owners = {} /\ lastId = 0 /\ free = InitialFree
    BY DEF OperatorsInit
  <1>2. OperatorsTypeOK
    BY <1>1 DEF OperatorsTypeOK, DexId, DexOperatorsAssumption, Range
  <1>3. OperatorsTyped
    BY <1>1 DEF OperatorsTyped
  <1>4. 0 \in DexId
    BY DEF DexId, DexOperatorsAssumption
  <1>5. OwnersAreFound
    BY <1>1, <1>4 DEF OwnersAreFound, GetDexOperatorByOwner, HaveDexOperator, GetDexOperator, Dex0
  <1> QED BY <1>2, <1>3, <1>5 DEF OperatorsInv

(* Operators are owned as the map of owners says, and their fees change     *)
(* hands (dexdb.cpp GetDexOperatorByOwner, UpdateDexOperator;               *)
(* dexoperatortx.cpp ProcessDexOperatorFee).                                *)
THEOREM OperatorsAreFound ==
  ASSUME DexOperatorsAssumption
  PROVE  OperatorsSpec => [](OperatorsTypeOK /\ OwnersAreFound /\ FeesArePaidOut)
  <1> DEFINE Inv == OperatorsInv /\ Total(free, "WICC") = Total(InitialFree, "WICC")
  <1>1. OperatorsInit => Inv
    BY OperatorsStart DEF OperatorsInit
  <1>2. Inv /\ [OperatorsNext]_<<operatorVars, free>> => Inv'
    <2>1. CASE OperatorsNext
      <3>1. "WICC" \in Token
        BY DEF Token
      <3>2. Inv => OperatorsInv' /\ Total(free', "WICC") = Total(free, "WICC")
        BY <2>1, <3>1, OperatorsStep
      <3> QED BY <3>2 DEF Total
    <2>2. CASE UNCHANGED <<operatorVars, free>>
      <3>1. operators' = operators /\ owners' = owners /\ lastId' = lastId /\ free' = free
        BY <2>2 DEF operatorVars
      <3> QED BY <3>1 DEF OperatorsInv, OperatorsTypeOK, OperatorsTyped, OwnersAreFound, Total,
                          GetDexOperatorByOwner, HaveDexOperator, GetDexOperator, Dex0,
                          DexOperator, DexId
    <2> QED BY <2>1, <2>2
  <1>3. Inv => OperatorsTypeOK /\ OwnersAreFound /\ FeesArePaidOut
    <2>1. FeesArePaidOut <=> Total(free, "WICC") = Total(InitialFree, "WICC")
      BY DEF FeesArePaidOut, Total, SumFunction
    <2> QED BY <2>1 DEF OperatorsInv
  <1> HIDE DEF Inv
  <1> QED BY <1>1, <1>2, <1>3, PTL DEF OperatorsSpec

-----------------------------------------------------------------------------
(* What orders hold frozen. *)

Claims(book, a, t) == [id \in DOMAIN book |-> Claim(book[id], a, t)]
Claimed(book, a, t) == SumFunctionOnSet(Claims(book, a, t), DOMAIN book)

(* A finite book of orders. *)
IsBook(book) == IsFiniteSet(DOMAIN book) /\ \A id \in DOMAIN book : book[id] \in DexOrder

(* What an order holds is a number. *)
LEMMA ClaimIsInt ==
  ASSUME NEW o \in DexOrder, NEW a, NEW t
  PROVE  Claim(o, a, t) \in Int /\ Remaining(o) \in Int /\ Residual(o) \in Int
  <1>1. o.coin \in Int /\ o.asset \in Int /\ o.dealtCoin \in Int /\ o.dealtAsset \in Int
    BY DEF DexOrder
  <1>2. Remaining(o) \in Int /\ Residual(o) \in Int
    BY <1>1 DEF Remaining, Residual
  <1> QED BY <1>2 DEF Claim

(* What orders hold adds up to a number. *)
LEMMA ClaimsSum ==
  ASSUME NEW book, IsBook(book), NEW a, NEW t
  PROVE  Summable(Claims(book, a, t), DOMAIN book) /\ Claimed(book, a, t) \in Int
  <1>1. Summable(Claims(book, a, t), DOMAIN book)
    BY ClaimIsInt DEF Summable, IsBook, Claims
  <1> QED BY <1>1, SumBasics DEF Claimed

(* One more order. *)
LEMMA ClaimAdded ==
  ASSUME NEW book, IsBook(book), NEW a, NEW t, NEW n, n \notin DOMAIN book, NEW o \in DexOrder
  PROVE  /\ IsBook(Put(book, n, o))
         /\ Claimed(Put(book, n, o), a, t) = Claimed(book, a, t) + Claim(o, a, t)
  <1> DEFINE more == Put(book, n, o)
             f == Claims(book, a, t)
             h == Claims(more, a, t)
             D == DOMAIN book
  <1>1. /\ DOMAIN more = D \cup {n} /\ more[n] = o
        /\ \A id \in D : more[id] = book[id]
    BY DEF Put
  <1>2. IsFiniteSet(D \cup {n})
    BY FS_AddElement DEF IsBook
  <1> HIDE DEF more
  <1>3. IsBook(more)
    BY <1>1, <1>2 DEF IsBook
  <1>4. h[n] = Claim(o, a, t) /\ \A id \in D : h[id] = f[id]
    BY <1>1 DEF Claims
  <1>5. Summable(h, D \cup {n})
    BY <1>1, <1>3, ClaimsSum
  <1>6. IsFiniteSet(D) /\ n \notin D
    BY DEF IsBook
  <1> HIDE DEF f, h, D
  <1>7. SumFunctionOnSet(h, D \cup {n}) = SumFunctionOnSet(h, D) + h[n]
    BY <1>5, <1>6, SumMore
  <1>8. SumFunctionOnSet(h, D) = SumFunctionOnSet(f, D)
    BY <1>4, <1>6, SumSame
  <1>9. Claimed(more, a, t) = Claimed(book, a, t) + Claim(o, a, t)
    BY <1>1, <1>4, <1>7, <1>8 DEF Claimed, f, h, D
  <1> QED BY <1>3, <1>9 DEF more

(* An order changes. *)
LEMMA ClaimChanged ==
  ASSUME NEW book, IsBook(book), NEW a, NEW t, NEW id \in DOMAIN book, NEW o \in DexOrder
  PROVE  /\ IsBook([book EXCEPT ![id] = o])
         /\ Claimed([book EXCEPT ![id] = o], a, t)
              = Claimed(book, a, t) - Claim(book[id], a, t) + Claim(o, a, t)
  <1> DEFINE new == [book EXCEPT ![id] = o]
             f == Claims(book, a, t)
             h == Claims(new, a, t)
             D == DOMAIN book
  <1>1. DOMAIN new = D /\ new[id] = o /\ \A j \in D : j # id => new[j] = book[j]
    OBVIOUS
  <1> HIDE DEF new
  <1>2. IsBook(new)
    BY <1>1 DEF IsBook
  <1>3. h[id] = Claim(o, a, t) /\ f[id] = Claim(book[id], a, t) /\ \A j \in D : j # id => h[j] = f[j]
    BY <1>1 DEF Claims
  <1>4. Summable(f, D) /\ Summable(h, D)
    BY <1>1, <1>2, ClaimsSum
  <1>5. id \in D
    OBVIOUS
  <1> HIDE DEF f, h, D
  <1>6. SumFunctionOnSet(h, D) = SumFunctionOnSet(f, D) - f[id] + h[id]
    BY <1>3, <1>4, <1>5, SumChanges
  <1>7. Claimed(new, a, t) = Claimed(book, a, t) - Claim(book[id], a, t) + Claim(o, a, t)
    BY <1>1, <1>3, <1>6 DEF Claimed, f, h, D
  <1> QED BY <1>2, <1>7 DEF new

(* An order leaves. *)
LEMMA ClaimRemoved ==
  ASSUME NEW book, IsBook(book), NEW a, NEW t, NEW id \in DOMAIN book
  PROVE  /\ IsBook(Restrict(book, DOMAIN book \ {id}))
         /\ Claimed(Restrict(book, DOMAIN book \ {id}), a, t)
              = Claimed(book, a, t) - Claim(book[id], a, t)
  <1> DEFINE D == DOMAIN book
             R == D \ {id}
             less == Restrict(book, R)
             f == Claims(book, a, t)
             h == Claims(less, a, t)
  <1>1. DOMAIN less = R /\ \A j \in R : less[j] = book[j]
    BY DEF Restrict
  <1>2. IsFiniteSet(R)
    BY FS_Subset DEF IsBook
  <1> HIDE DEF less
  <1>3. IsBook(less)
    BY <1>1, <1>2 DEF IsBook
  <1>4. f[id] = Claim(book[id], a, t) /\ \A j \in R : h[j] = f[j]
    BY <1>1 DEF Claims
  <1>5. Summable(f, D) /\ id \in D
    BY ClaimsSum
  <1>6. f[id] \in Int
    BY <1>5 DEF Summable
  <1> HIDE DEF f, h, D
  <1>7. SumFunctionOnSet(f, D) = f[id] + SumFunctionOnSet(f, R)
    BY <1>5, SumBasics
  <1> HIDE DEF R
  <1>8. SumFunctionOnSet(h, R) = SumFunctionOnSet(f, R)
    BY <1>2, <1>4, SumSame
  <1>9. Claimed(less, a, t) = SumFunctionOnSet(f, R)
    BY <1>1, <1>8 DEF Claimed, h
  <1>10. Claimed(book, a, t) = SumFunctionOnSet(f, D)
    BY DEF Claimed, f, D
  <1>11. Claimed(less, a, t) \in Int
    BY <1>3, ClaimsSum
  <1>12. Claimed(less, a, t) = Claimed(book, a, t) - Claim(book[id], a, t)
    BY <1>4, <1>6, <1>7, <1>9, <1>10, <1>11
  <1> QED BY <1>3, <1>12 DEF less, R, D

(* Of two orders those that are done leave. *)
LEMMA DoneRemoved ==
  ASSUME NEW book, IsBook(book), NEW a, NEW t, NEW b \in DOMAIN book, NEW s \in DOMAIN book,
         b # s, NEW done \in SUBSET {b, s}
  PROVE  /\ IsBook(Restrict(book, DOMAIN book \ done))
         /\ Claimed(Restrict(book, DOMAIN book \ done), a, t)
              = Claimed(book, a, t) - (IF b \in done THEN Claim(book[b], a, t) ELSE 0)
                                    - (IF s \in done THEN Claim(book[s], a, t) ELSE 0)
  <1>0. Claimed(book, a, t) \in Int /\ Claim(book[b], a, t) \in Int /\ Claim(book[s], a, t) \in Int
    BY ClaimsSum, ClaimIsInt DEF IsBook
  <1>1. CASE done = {}
    <2>1. \A x \in DOMAIN book : Restrict(book, DOMAIN book \ done)[x] = book[x]
      BY <1>1 DEF Restrict
    <2>2. DOMAIN Restrict(book, DOMAIN book \ done) = DOMAIN book
      BY <1>1 DEF Restrict
    <2> DEFINE same == Restrict(book, DOMAIN book \ done)
    <2>3. DOMAIN same = DOMAIN book /\ \A x \in DOMAIN book : same[x] = book[x]
      BY <2>1, <2>2
    <2> HIDE DEF same
    <2>4. IsBook(same)
      BY <2>3 DEF IsBook
    <2>5. Claims(same, a, t) = Claims(book, a, t)
      BY <2>3 DEF Claims
    <2>6. Claimed(same, a, t) = Claimed(book, a, t)
      BY <2>3, <2>5 DEF Claimed
    <2> QED BY <1>0, <1>1, <2>4, <2>6 DEF same
  <1>2. CASE done = {b}
    <2>1. Claimed(Restrict(book, DOMAIN book \ {b}), a, t)
            = Claimed(book, a, t) - Claim(book[b], a, t)
          /\ IsBook(Restrict(book, DOMAIN book \ {b}))
      BY ClaimRemoved
    <2>2. b \in done /\ s \notin done
      BY <1>2
    <2> QED BY <1>0, <1>2, <2>1, <2>2
  <1>3. CASE done = {s}
    <2>1. Claimed(Restrict(book, DOMAIN book \ {s}), a, t)
            = Claimed(book, a, t) - Claim(book[s], a, t)
          /\ IsBook(Restrict(book, DOMAIN book \ {s}))
      BY ClaimRemoved
    <2>2. s \in done /\ b \notin done
      BY <1>3
    <2> QED BY <1>0, <1>3, <2>1, <2>2
  <1>4. CASE done = {b, s}
    <2> DEFINE less == Restrict(book, DOMAIN book \ {b})
    <2>1. Claimed(less, a, t) = Claimed(book, a, t) - Claim(book[b], a, t) /\ IsBook(less)
      BY ClaimRemoved
    <2>2. s \in DOMAIN less /\ less[s] = book[s] /\ DOMAIN less = DOMAIN book \ {b}
      BY DEF Restrict
    <2>3. Restrict(less, DOMAIN less \ {s}) = Restrict(book, DOMAIN book \ done)
      BY <1>4, <2>2 DEF Restrict
    <2> HIDE DEF less
    <2>4. IsBook(Restrict(less, DOMAIN less \ {s}))
          /\ Claimed(Restrict(less, DOMAIN less \ {s}), a, t)
               = Claimed(less, a, t) - Claim(less[s], a, t)
      BY <2>1, <2>2, ClaimRemoved
    <2>5. b \in done /\ s \in done
      BY <1>4
    <2> QED BY <1>0, <2>1, <2>2, <2>3, <2>4, <2>5
  <1> QED BY <1>1, <1>2, <1>3, <1>4

-----------------------------------------------------------------------------
(* Amounts. *)

(* Rounding down twice never gives more than rounding down once. *)
LEMMA FloorAdds ==
  ASSUME NEW x \in Nat, NEW y \in Nat, NEW n \in Nat \ {0}
  PROVE  (x \div n) + (y \div n) <= (x + y) \div n
  <1> DEFINE p == x \div n q == y \div n r == (x + y) \div n z == x + y
  <1>1. /\ x = n * p + (x % n) /\ x % n \in 0..(n - 1) /\ p \in Nat
        /\ y = n * q + (y % n) /\ y % n \in 0..(n - 1) /\ q \in Nat
    BY Division
  <1>2. z = n * r + (z % n) /\ z % n \in 0..(n - 1) /\ r \in Nat
    <2>1. z \in Nat
      OBVIOUS
    <2> HIDE DEF z
    <2>2. z = n * (z \div n) + (z % n) /\ z % n \in 0..(n - 1) /\ z \div n \in Nat
      BY <2>1, Division
    <2> QED BY <2>2 DEF z
  <1>3. PICK u \in 0..(n - 1), v \in 0..(n - 1), w \in 0..(n - 1) :
          x = n * p + u /\ y = n * q + v /\ z = n * r + w
    BY <1>1, <1>2
  <1>4. z = x + y
    OBVIOUS
  <1> HIDE DEF p, q, r, z
  <1> SUFFICES ASSUME r + 1 <= p + q PROVE FALSE
    BY <1>1, <1>2 DEF p, q, r
  <1>5. PICK k \in Nat : p + q = r + 1 + k
    <2>1. (p + q) - (r + 1) \in Nat /\ p + q = r + 1 + ((p + q) - (r + 1))
      BY <1>1, <1>2
    <2> QED BY <2>1
  <1>6. n * (p + q) = n * r + n + n * k /\ n * k \in Nat
    BY <1>1, <1>2, <1>5
  <1>7. n * (p + q) = n * p + n * q
    BY <1>1
  <1>8. n * r + w = n * r + n + n * k + u + v
    <2>1. n * p + u + (n * q + v) = n * r + w
      BY <1>3, <1>4
    <2>2. n * p \in Int /\ n * q \in Int /\ n * r \in Int
      BY <1>1, <1>2
    <2> QED BY <1>6, <1>7, <2>1, <2>2
  <1>9. n * r \in Int
    BY <1>2
  <1> QED BY <1>6, <1>8, <1>9

(* More, or a higher price, costs no less. *)
LEMMA FloorGrows ==
  ASSUME NEW x \in Nat, NEW y \in Nat, NEW n \in Nat \ {0}, x <= y
  PROVE  x \div n <= y \div n
  <1>1. y - x \in Nat /\ x + (y - x) = y
    OBVIOUS
  <1>2. (x \div n) + ((y - x) \div n) <= (x + (y - x)) \div n
    BY <1>1, FloorAdds
  <1>3. x \div n \in Nat /\ (y - x) \div n \in Nat /\ y \div n \in Nat
    BY <1>1, Division
  <1> DEFINE p == x \div n q == (y - x) \div n r == y \div n
  <1>4. p + q <= r
    BY <1>1, <1>2
  <1>5. p \in Nat /\ q \in Nat /\ r \in Nat
    BY <1>3
  <1> HIDE DEF p, q, r
  <1>6. p <= r
    BY <1>4, <1>5
  <1> QED BY <1>6 DEF p, r

(* A natural times more is no less. *)
LEMMA ProductGrows ==
  ASSUME NEW n \in Nat, NEW p \in Nat, NEW q \in Nat, p <= q
  PROVE  n * p <= n * q
  <1>1. PICK k \in Nat : q = p + k
    <2>1. q - p \in Nat /\ q = p + (q - p)
      OBVIOUS
    <2> QED BY <2>1
  <1>2. n * q = n * p + n * k /\ n * k \in Nat /\ n * p \in Nat
    BY <1>1
  <1> QED BY <1>2

Covered(o) ==
  o.side = "buy" /\ o.type = "limit" =>
    /\ o.dealtCoin * PriceBoost <= o.dealtAsset * o.price
    /\ o.dealtCoin + CalcCoinAmount(o.asset - o.dealtAsset, o.price) <= o.coin

-----------------------------------------------------------------------------
(* What every step on orders keeps. *)

Assumptions == DexOperatorsAssumption /\ DexOrdersAssumption

(* A book of the orders numbered up to last, each with something to deal    *)
(* and paid for.                                                            *)
GoodBook(book, last) ==
  /\ DOMAIN book \subseteq 1..last /\ last \in 0..MaxOrders
  /\ \A id \in DOMAIN book :
       book[id] \in DexOrder /\ Residual(book[id]) > 0 /\ Covered(book[id])

(* Money of an account and a token for each. *)
IsMoney(h) == h \in [Account -> [Token -> Nat]]

Backs(h, book) == \A a \in Account, t \in Token : h[a][t] = Claimed(book, a, t)

Balanced(h, k) == \A t \in Token : Total(h, t) + Total(k, t) = Total(InitialFree, t)

OrdersInv ==
  /\ OperatorsInv /\ IsMoney(free) /\ IsMoney(frozen)
  /\ GoodBook(orders, lastOrder) /\ Backs(frozen, orders) /\ Balanced(free, frozen)

(* A good book is finite. *)
LEMMA GoodIsBook ==
  ASSUME Assumptions, NEW book, NEW last, GoodBook(book, last)
  PROVE  IsBook(book) /\ last \in Nat /\ last + 1 \notin DOMAIN book
  <1>1. last \in Nat
    BY DEF GoodBook, Assumptions, DexOrdersAssumption
  <1>2. IsFiniteSet(1..last)
    BY <1>1, FS_Interval
  <1>3. IsFiniteSet(DOMAIN book)
    BY <1>2, FS_Subset DEF GoodBook
  <1> QED BY <1>1, <1>3 DEF GoodBook, IsBook

(* What an order that is paid for and has something left may still spend is *)
(* no less than zero.                                                       *)
LEMMA CoveredRemains ==
  ASSUME Assumptions, NEW o \in DexOrder, Residual(o) >= 0, Covered(o)
  PROVE  Remaining(o) \in Nat
  <1>1. /\ o.coin \in Nat /\ o.asset \in Nat /\ o.dealtCoin \in Nat /\ o.dealtAsset \in Nat
        /\ o.price \in Nat /\ o.side \in {"buy", "sell"} /\ o.type \in {"limit", "market"}
    BY DEF DexOrder
  <1>2. CASE o.side = "sell"
    BY <1>1, <1>2 DEF Remaining, Residual
  <1>3. CASE o.side = "buy" /\ o.type = "market"
    BY <1>1, <1>3 DEF Remaining, Residual
  <1>4. CASE o.side = "buy" /\ o.type = "limit"
    <2> DEFINE rest == o.asset - o.dealtAsset
    <2>1. rest \in Nat
      BY <1>1, <1>4 DEF Residual
    <2>2. rest * o.price \in Nat
      BY <1>1, <2>1
    <2>3. PriceBoost \in Nat \ {0}
      BY DEF Assumptions, DexOrdersAssumption
    <2> DEFINE x == rest * o.price
    <2>4. x \in Nat
      BY <2>2
    <2>5. o.dealtCoin + (x \div PriceBoost) <= o.coin
      BY <1>4 DEF Covered, CalcCoinAmount
    <2> HIDE DEF x
    <2>6. x \div PriceBoost \in Nat
      BY <2>3, <2>4, Division
    <2>7. o.coin - o.dealtCoin \in Nat
      BY <1>1, <2>5, <2>6
    <2> QED BY <1>4, <2>7 DEF Remaining
  <1> QED BY <1>1, <1>2, <1>3, <1>4

(* Put adds one to the domain. *)
LEMMA PutGood ==
  ASSUME Assumptions, NEW book, NEW last, GoodBook(book, last), last < MaxOrders,
         NEW o \in DexOrder, Residual(o) > 0, Covered(o)
  PROVE  GoodBook(Put(book, last + 1, o), last + 1)
  <1> DEFINE more == Put(book, last + 1, o)
  <1>1. last \in Nat /\ MaxOrders \in Nat
    BY DEF GoodBook, Assumptions, DexOrdersAssumption
  <1>2. /\ DOMAIN more = DOMAIN book \cup {last + 1} /\ more[last + 1] = o
        /\ \A id \in DOMAIN book : id # last + 1 => more[id] = book[id]
    BY DEF Put
  <1> HIDE DEF more
  <1>3. DOMAIN book \subseteq 1..last
    BY DEF GoodBook
  <1>4. DOMAIN more \subseteq 1..(last + 1) /\ last + 1 \in 0..MaxOrders
    BY <1>1, <1>2, <1>3
  <1>5. \A id \in DOMAIN more : more[id] \in DexOrder /\ Residual(more[id]) > 0 /\ Covered(more[id])
    BY <1>2 DEF GoodBook
  <1> QED BY <1>4, <1>5 DEF GoodBook, more

(* A part of a good book is one. *)
LEMMA RestrictGood ==
  ASSUME NEW book, NEW last, GoodBook(book, last), NEW R \in SUBSET DOMAIN book
  PROVE  GoodBook(Restrict(book, R), last)
  <1>1. DOMAIN Restrict(book, R) = R /\ \A id \in R : Restrict(book, R)[id] = book[id]
    BY DEF Restrict
  <1> QED BY <1>1 DEF GoodBook

(* Movements that add up to nothing keep the totals. *)
LEMMA StaysBalanced ==
  ASSUME Assumptions, IsMoney(free), IsMoney(frozen), Balanced(free, frozen),
         NEW m1 \in Seq(Movement), NEW m2 \in Seq(Movement),
         free' = Moved(free, m1), frozen' = Moved(frozen, m2),
         \A t \in Token : SumFunctionOnSet(All(m1, t), DOMAIN m1)
                            + SumFunctionOnSet(All(m2, t), DOMAIN m2) = 0
  PROVE  Balanced(free', frozen')
  <1> SUFFICES ASSUME NEW t \in Token
               PROVE Total(free', t) + Total(frozen', t) = Total(InitialFree, t)
    BY DEF Balanced
  <1> DEFINE w1 == SumFunctionOnSet(All(m1, t), DOMAIN m1)
             w2 == SumFunctionOnSet(All(m2, t), DOMAIN m2)
  <1>1. /\ IsFiniteSet(Account)
        /\ \A a \in Account : free[a][t] \in Int /\ frozen[a][t] \in Int
    BY DEF Assumptions, DexOperatorsAssumption, IsMoney
  <1>2. Total(Moved(free, m1), t) = Total(free, t) + w1 /\ Total(free, t) \in Int /\ w1 \in Int
    BY <1>1, MovedTotal
  <1>3. Total(Moved(frozen, m2), t) = Total(frozen, t) + w2 /\ Total(frozen, t) \in Int /\ w2 \in Int
    BY <1>1, MovedTotal
  <1>4. w1 + w2 = 0
    OBVIOUS
  <1>5. Total(free, t) + Total(frozen, t) = Total(InitialFree, t)
    BY DEF Balanced
  <1>6. Total(free', t) = Total(Moved(free, m1), t)
        /\ Total(frozen', t) = Total(Moved(frozen, m2), t)
    OBVIOUS
  <1>7. \A a, b, x, y \in Int : x + y = 0 => (a + x) + (b + y) = a + b
    OBVIOUS
  <1> HIDE DEF w1, w2
  <1>8. (Total(free, t) + w1) + (Total(frozen, t) + w2) = Total(free, t) + Total(frozen, t)
    BY <1>2, <1>3, <1>4, <1>7
  <1> QED BY <1>2, <1>3, <1>5, <1>6, <1>8

(* What is moved is added. *)
LEMMA MovedAdds ==
  ASSUME NEW h, NEW moves, NEW a \in Account, NEW t \in Token
  PROVE  Moved(h, moves)[a][t] = h[a][t] + Sum(moves, a, t)
  BY DEF Moved

(* Movements that leave no one below zero leave money. *)
LEMMA MovedIsMoney ==
  ASSUME NEW h, NEW moves, \A a \in Account, t \in Token : h[a][t] + Sum(moves, a, t) \in Nat
  PROVE  IsMoney(Moved(h, moves))
  BY DEF IsMoney, Moved

(* Placing an order. *)
LEMMA PlaceKeeps ==
  ASSUME Assumptions, OrdersInv, NEW offer \in Offers, PlaceOrder(offer)
  PROVE  OrdersInv'
  <1> DEFINE coins == IF offer.side = "buy" /\ offer.type = "limit"
                        THEN CalcCoinAmount(offer.asset, offer.price) ELSE offer.coin
             o == [offer EXCEPT !.coin = coins]
             r == Remaining(o)
             u == offer.user
             k == TokenOf(offer.side)
             what == Move(u, k, r)
             back == [what EXCEPT !.amount = -@]
             n == lastOrder + 1
  <1>1. /\ offer \in DexOrder /\ offer.gen = "user" /\ offer.dealtCoin = 0 /\ offer.dealtAsset = 0
        /\ IF offer.side = "buy" /\ offer.type = "market" THEN offer.coin > 0 ELSE offer.asset > 0
        /\ PriceBoost \in Nat \ {0}
    BY DEF Assumptions, DexOrdersAssumption
  <1>2. /\ offer.coin \in Nat /\ offer.asset \in Nat /\ offer.price \in Nat
        /\ offer.side \in {"buy", "sell"} /\ offer.type \in {"limit", "market"} /\ u \in Account
    BY <1>1 DEF DexOrder
  <1>3. coins \in Nat
    <2>1. offer.asset * offer.price \in Nat
      BY <1>2
    <2>2. (offer.asset * offer.price) \div PriceBoost \in Nat
      <3> DEFINE x == offer.asset * offer.price
      <3>1. x \in Nat
        BY <2>1
      <3> HIDE DEF x
      <3>2. x \div PriceBoost \in Nat
        BY <1>1, <3>1, Division
      <3> QED BY <3>2 DEF x
    <2> QED BY <1>2, <2>2 DEF CalcCoinAmount
  <1>4. /\ o \in DexOrder /\ o.dealtCoin = 0 /\ o.dealtAsset = 0 /\ o.coin = coins
        /\ o.asset = offer.asset /\ o.price = offer.price /\ o.side = offer.side
        /\ o.type = offer.type /\ o.user = u
    <2> HIDE DEF coins
    <2> QED BY <1>1, <1>3 DEF DexOrder
  <1>5. /\ lastOrder < MaxOrders /\ free[u][k] >= r
        /\ free' = Moved(free, <<back>>) /\ frozen' = Moved(frozen, <<what>>)
        /\ orders' = Put(orders, n, o) /\ lastOrder' = n
        /\ UNCHANGED operatorVars
    BY DEF PlaceOrder
  <1>6. o.side = "buy" /\ o.type = "limit" => o.coin = CalcCoinAmount(o.asset, o.price)
    BY <1>4
  <1>7. o.type = "market" /\ o.side = "buy" => o.coin = offer.coin
    BY <1>4
  <1> HIDE DEF o, coins
  <1>8. Residual(o) > 0
    BY <1>1, <1>2, <1>4, <1>7 DEF Residual
  <1>9. Covered(o)
    <2> SUFFICES ASSUME o.side = "buy", o.type = "limit"
                 PROVE  /\ 0 * PriceBoost <= 0 * o.price
                        /\ 0 + CalcCoinAmount(o.asset - 0, o.price) <= o.coin
      BY <1>4 DEF Covered
    <2>1. o.asset - 0 = o.asset /\ o.coin \in Nat /\ o.price \in Nat
      BY <1>2, <1>3, <1>4
    <2>2. CalcCoinAmount(o.asset - 0, o.price) = o.coin
      BY <1>6, <2>1
    <2>3. 0 * PriceBoost = 0 /\ 0 * o.price = 0
      BY <1>1, <2>1
    <2>4. 0 + CalcCoinAmount(o.asset - 0, o.price) <= o.coin
      BY <2>1, <2>2
    <2>5. 0 * PriceBoost <= 0 * o.price
      BY <2>3
    <2> QED BY <2>4, <2>5
  <1>10. r \in Nat
    <2>1. Residual(o) >= 0
      BY <1>4, <1>8, ClaimIsInt
    <2> QED BY <1>4, <1>9, <2>1, CoveredRemains
  <1>11. k \in Token /\ what \in Movement /\ back \in Movement
    BY <1>2, <1>10 DEF TokenOf, Token, Movement, Move
  <1>12. what = [account |-> u, token |-> k, amount |-> r]
         /\ back = [account |-> u, token |-> k, amount |-> -r]
    BY DEF Move
  <1>13. k = TokenOf(o.side) /\ r = Remaining(o)
    BY <1>4
  <1> HIDE DEF r, k, u, what, back
  <1>14. ASSUME NEW a, NEW t
         PROVE  /\ Sum(<<what>>, a, t) = Claim(o, a, t)
                /\ Sum(<<back>>, a, t) = IF a = u /\ t = k THEN -r ELSE 0
    <2>1. Sum(<<what>>, a, t) = Gain(what, a, t) /\ Sum(<<back>>, a, t) = Gain(back, a, t)
      BY <1>11, OneMove
    <2>2. Gain(what, a, t) = Claim(o, a, t)
      BY <1>4, <1>12, <1>13 DEF Gain, Claim
    <2>3. Gain(back, a, t) = IF a = u /\ t = k THEN -r ELSE 0
      BY <1>12 DEF Gain
    <2> QED BY <2>1, <2>2, <2>3
  <1>15. IsMoney(free')
    <2>1. ASSUME NEW a \in Account, NEW t \in Token PROVE free[a][t] + Sum(<<back>>, a, t) \in Nat
      <3>1. free[a][t] \in Nat
        BY DEF OrdersInv, IsMoney
      <3>2. CASE a = u /\ t = k
        BY <1>5, <1>10, <1>14, <3>1, <3>2
      <3>3. CASE ~(a = u /\ t = k)
        <4>1. Sum(<<back>>, a, t) = 0
          BY <1>14, <3>3
        <4> QED BY <3>1, <4>1
      <3> QED BY <3>2, <3>3
    <2> QED BY <1>5, <2>1, MovedIsMoney
  <1>16. IsBook(orders) /\ n \notin DOMAIN orders
    BY GoodIsBook DEF OrdersInv
  <1>17. Backs(frozen', orders')
    <2> SUFFICES ASSUME NEW a \in Account, NEW t \in Token
                 PROVE frozen'[a][t] = Claimed(orders', a, t)
      BY DEF Backs
    <2>1. frozen'[a][t] = frozen[a][t] + Claim(o, a, t)
      BY <1>5, <1>14, MovedAdds
    <2>2. Claimed(orders', a, t) = Claimed(orders, a, t) + Claim(o, a, t)
      <3> HIDE DEF n
      <3> QED BY <1>4, <1>5, <1>16, ClaimAdded
    <2>3. frozen[a][t] = Claimed(orders, a, t)
      BY DEF OrdersInv, Backs
    <2> QED BY <2>1, <2>2, <2>3
  <1>18. IsMoney(frozen')
    <2>1. ASSUME NEW a \in Account, NEW t \in Token PROVE frozen[a][t] + Sum(<<what>>, a, t) \in Nat
      <3>1. frozen[a][t] \in Nat
        BY DEF OrdersInv, IsMoney
      <3>2. Claim(o, a, t) \in Nat
        BY <1>10, <1>13 DEF Claim
      <3> QED BY <1>14, <3>1, <3>2
    <2> QED BY <1>5, <2>1, MovedIsMoney
  <1>19. GoodBook(orders', lastOrder')
    BY <1>4, <1>5, <1>8, <1>9, PutGood DEF OrdersInv
  <1>20. Balanced(free', frozen')
    <2>1. <<back>> \in Seq(Movement) /\ <<what>> \in Seq(Movement)
      BY <1>11
    <2>2. ASSUME NEW t \in Token
          PROVE SumFunctionOnSet(All(<<back>>, t), DOMAIN <<back>>)
                  + SumFunctionOnSet(All(<<what>>, t), DOMAIN <<what>>) = 0
      <3>1. /\ SumFunctionOnSet(All(<<back>>, t), DOMAIN <<back>>) = Worth(back, t)
            /\ SumFunctionOnSet(All(<<what>>, t), DOMAIN <<what>>) = Worth(what, t)
        BY <1>11, OneWorth
      <3>2. Worth(back, t) + Worth(what, t) = 0
        BY <1>10, <1>12 DEF Worth
      <3> QED BY <3>1, <3>2
    <2> QED BY <1>5, <2>1, <2>2, StaysBalanced DEF OrdersInv
  <1>21. OperatorsInv'
    BY <1>5, <1>15, OperatorsUnchanged DEF OrdersInv, IsMoney
  <1> QED BY <1>15, <1>17, <1>18, <1>19, <1>20, <1>21 DEF OrdersInv

(* Taking an order back. *)
LEMMA CancelKeeps ==
  ASSUME Assumptions, OrdersInv, NEW id \in DOMAIN orders, CancelOrder(id)
  PROVE  OrdersInv'
  <1> DEFINE o == orders[id]
             r == CancelAmount(o)
             u == o.user
             k == TokenOf(o.side)
             what == Move(u, k, r)
             back == [what EXCEPT !.amount = -@]
  <1>1. /\ frozen[u][k] >= r
        /\ free' = Moved(free, <<what>>) /\ frozen' = Moved(frozen, <<back>>)
        /\ orders' = Restrict(orders, DOMAIN orders \ {id}) /\ lastOrder' = lastOrder
        /\ UNCHANGED operatorVars
    BY DEF CancelOrder, Active
  <1>2. o \in DexOrder /\ Residual(o) > 0 /\ Covered(o)
    BY DEF OrdersInv, GoodBook
  <1>3. r = Remaining(o) /\ k = TokenOf(o.side) /\ u = o.user
    BY DEF CancelAmount, Remaining
  <1>4. r \in Nat
    <2> HIDE DEF o, r
    <2>1. Residual(o) >= 0
      BY <1>2, ClaimIsInt
    <2> QED BY <1>2, <1>3, <2>1, CoveredRemains
  <1>5. u \in Account /\ k \in Token
    <2> HIDE DEF o
    <2> QED BY <1>2 DEF DexOrder, TokenOf, Token
  <1>6. what = [account |-> u, token |-> k, amount |-> r]
        /\ back = [account |-> u, token |-> k, amount |-> -r]
    BY DEF Move
  <1> HIDE DEF o, r, k, u, what, back
  <1>7. what \in Movement /\ back \in Movement
    BY <1>4, <1>5, <1>6 DEF Movement
  <1>8. ASSUME NEW a, NEW t
        PROVE  /\ Sum(<<what>>, a, t) = IF a = u /\ t = k THEN r ELSE 0
               /\ Sum(<<back>>, a, t) = IF a = u /\ t = k THEN -r ELSE 0
               /\ Claim(o, a, t) = IF a = u /\ t = k THEN r ELSE 0
    <2>1. Sum(<<what>>, a, t) = Gain(what, a, t) /\ Sum(<<back>>, a, t) = Gain(back, a, t)
      BY <1>7, OneMove
    <2>2. Gain(what, a, t) = IF a = u /\ t = k THEN r ELSE 0
      BY <1>6 DEF Gain
    <2>3. Gain(back, a, t) = IF a = u /\ t = k THEN -r ELSE 0
      BY <1>6 DEF Gain
    <2>4. Claim(o, a, t) = IF a = u /\ t = k THEN r ELSE 0
      BY <1>3 DEF Claim
    <2> QED BY <2>1, <2>2, <2>3, <2>4
  <1>9. IsMoney(free')
    <2>1. ASSUME NEW a \in Account, NEW t \in Token PROVE free[a][t] + Sum(<<what>>, a, t) \in Nat
      <3>1. free[a][t] \in Nat
        BY DEF OrdersInv, IsMoney
      <3>2. Sum(<<what>>, a, t) \in Nat
        BY <1>4, <1>8
      <3> QED BY <3>1, <3>2
    <2> QED BY <1>1, <2>1, MovedIsMoney
  <1>10. IsMoney(frozen')
    <2>1. ASSUME NEW a \in Account, NEW t \in Token PROVE frozen[a][t] + Sum(<<back>>, a, t) \in Nat
      <3>1. frozen[a][t] \in Nat
        BY DEF OrdersInv, IsMoney
      <3>2. CASE a = u /\ t = k
        BY <1>1, <1>4, <1>8, <3>1, <3>2
      <3>3. CASE ~(a = u /\ t = k)
        <4>1. Sum(<<back>>, a, t) = 0
          BY <1>8, <3>3
        <4> QED BY <3>1, <4>1
      <3> QED BY <3>2, <3>3
    <2> QED BY <1>1, <2>1, MovedIsMoney
  <1>11. IsBook(orders)
    BY GoodIsBook DEF OrdersInv
  <1>12. Backs(frozen', orders')
    <2> SUFFICES ASSUME NEW a \in Account, NEW t \in Token
                 PROVE frozen'[a][t] = Claimed(orders', a, t)
      BY DEF Backs
    <2> DEFINE c == Claim(o, a, t)
    <2>1. c \in Int /\ Sum(<<back>>, a, t) = -c
      BY <1>4, <1>8
    <2>2. frozen'[a][t] = frozen[a][t] + Sum(<<back>>, a, t)
      BY <1>1, MovedAdds
    <2>3. Claimed(orders', a, t) = Claimed(orders, a, t) - c
      BY <1>1, <1>11, ClaimRemoved DEF o
    <2>4. frozen[a][t] = Claimed(orders, a, t) /\ frozen[a][t] \in Int
      BY DEF OrdersInv, Backs, IsMoney
    <2> HIDE DEF c
    <2> QED BY <2>1, <2>2, <2>3, <2>4
  <1>13. GoodBook(orders', lastOrder')
    <2>1. DOMAIN orders \ {id} \in SUBSET DOMAIN orders
      OBVIOUS
    <2> QED BY <1>1, <2>1, RestrictGood DEF OrdersInv
  <1>14. Balanced(free', frozen')
    <2>1. <<back>> \in Seq(Movement) /\ <<what>> \in Seq(Movement)
      BY <1>7
    <2>2. ASSUME NEW t \in Token
          PROVE SumFunctionOnSet(All(<<what>>, t), DOMAIN <<what>>)
                  + SumFunctionOnSet(All(<<back>>, t), DOMAIN <<back>>) = 0
      <3>1. /\ SumFunctionOnSet(All(<<back>>, t), DOMAIN <<back>>) = Worth(back, t)
            /\ SumFunctionOnSet(All(<<what>>, t), DOMAIN <<what>>) = Worth(what, t)
        BY <1>7, OneWorth
      <3>2. Worth(what, t) + Worth(back, t) = 0
        BY <1>4, <1>6 DEF Worth
      <3> QED BY <3>1, <3>2
    <2> QED BY <1>1, <2>1, <2>2, StaysBalanced DEF OrdersInv
  <1>15. OperatorsInv'
    BY <1>1, <1>9, OperatorsUnchanged DEF OrdersInv, IsMoney
  <1> QED BY <1>9, <1>10, <1>12, <1>13, <1>14, <1>15 DEF OrdersInv

(* The order that buys the reserve's asset. *)
LEMMA SystemOrderIsGood ==
  ASSUME Assumptions, NEW coins \in Nat \ {0}
  PROVE  /\ SystemOrder(coins) \in DexOrder /\ Residual(SystemOrder(coins)) > 0
         /\ Covered(SystemOrder(coins))
         /\ \A a, t : Claim(SystemOrder(coins), a, t) = IF a = Fcoin /\ t = "coin" THEN coins ELSE 0
  <1> DEFINE o == SystemOrder(coins)
             free0 == [open |-> "public", maker |-> 0, taker |-> 0]
  <1>1. free0 \in Terms
    BY DEF Terms
  <1>2. <<free0>> \in Seq(Terms)
    BY <1>1
  <1>3. 0 \in DexId /\ Fcoin \in Account
    BY DEF DexId, Assumptions, DexOperatorsAssumption
  <1>4. /\ o.user = Fcoin /\ o.side = "buy" /\ o.type = "market" /\ o.coin = coins
        /\ o.dealtCoin = 0 /\ o.gen = "system" /\ o.price = 0 /\ o.asset = 0 /\ o.dex = 0
        /\ o.dealtAsset = 0
    BY DEF SystemOrder
  <1>5. o \in DexOrder
    BY <1>2, <1>3 DEF SystemOrder, DexOrder
  <1> HIDE DEF o
  <1>6. Residual(o) > 0 /\ Remaining(o) = coins
    BY <1>4 DEF Residual, Remaining
  <1>7. Covered(o)
    BY <1>4 DEF Covered
  <1>8. TokenOf(o.side) = "coin"
    BY <1>4 DEF TokenOf
  <1>9. ASSUME NEW a, NEW t PROVE Claim(o, a, t) = IF a = Fcoin /\ t = "coin" THEN coins ELSE 0
    BY <1>4, <1>6, <1>8 DEF Claim
  <1> QED BY <1>5, <1>6, <1>7, <1>9 DEF o

(* The book with that order, if one is due. *)
AddsFriction(more, book, coins) ==
  /\ IsBook(more)
  /\ DOMAIN more = DOMAIN book \cup (IF coins > 0 THEN {lastOrder + 1} ELSE {})
  /\ \A id \in DOMAIN book : more[id] = book[id]
  /\ coins > 0 => more[lastOrder + 1] = SystemOrder(coins)
  /\ \A a, t : Claimed(more, a, t)
       = Claimed(book, a, t) + (IF a = Fcoin /\ t = "coin" THEN coins ELSE 0)

(* WithFrictionOrder adds it. *)
LEMMA FrictionOrderAdds ==
  ASSUME Assumptions, NEW book, IsBook(book), lastOrder + 1 \notin DOMAIN book, NEW coins \in Nat
  PROVE  AddsFriction(WithFrictionOrder(book, coins), book, coins)
  <1> DEFINE more == WithFrictionOrder(book, coins)
  <1>1. CASE coins = 0
    <2>1. more = book
      BY <1>1 DEF WithFrictionOrder
    <2>2. ASSUME NEW a, NEW t
          PROVE Claimed(book, a, t)
                  = Claimed(book, a, t) + (IF a = Fcoin /\ t = "coin" THEN coins ELSE 0)
      <3>1. Claimed(book, a, t) \in Int
        BY ClaimsSum
      <3> QED BY <1>1, <3>1
    <2>3. ~(coins > 0)
      BY <1>1
    <2> HIDE DEF more
    <2>4. DOMAIN more = DOMAIN book \cup (IF coins > 0 THEN {lastOrder + 1} ELSE {})
      BY <2>1, <2>3
    <2>5. \A a, t : Claimed(more, a, t)
            = Claimed(book, a, t) + (IF a = Fcoin /\ t = "coin" THEN coins ELSE 0)
      BY <2>1, <2>2
    <2> QED BY <2>1, <2>3, <2>4, <2>5 DEF more, AddsFriction
  <1>2. CASE coins # 0
    <2> DEFINE n == lastOrder + 1 o == SystemOrder(coins)
    <2>1. more = Put(book, n, o)
      BY <1>2 DEF WithFrictionOrder
    <2>2. o \in DexOrder /\ \A a, t : Claim(o, a, t) = IF a = Fcoin /\ t = "coin" THEN coins ELSE 0
      BY <1>2, SystemOrderIsGood
    <2>3. n \notin DOMAIN book /\ coins > 0
      BY <1>2
    <2> HIDE DEF n, o, more
    <2>4. /\ DOMAIN more = DOMAIN book \cup {n} /\ more[n] = o
          /\ \A id \in DOMAIN book : more[id] = book[id]
      BY <2>1, <2>3 DEF Put
    <2>5. IsBook(more) /\ \A a, t : Claimed(more, a, t) = Claimed(book, a, t) + Claim(o, a, t)
      BY <2>1, <2>2, <2>3, ClaimAdded
    <2>6. \A a, t : Claimed(more, a, t)
            = Claimed(book, a, t) + (IF a = Fcoin /\ t = "coin" THEN coins ELSE 0)
      BY <2>2, <2>5
    <2> QED BY <2>3, <2>4, <2>5, <2>6 DEF n, o, more, AddsFriction
  <1> QED BY <1>1, <1>2

(* A transfer of coins. *)
LEMMA TransferKeeps ==
  ASSUME Assumptions, OrdersInv, NEW x \in Transfers, Transfer(x)
  PROVE  OrdersInv'
  <1> DEFINE fee == CalcAmountByRatio(x.amount, TransferRatio, RatioBoost)
             m1 == Move(x.from, "coin", -x.amount)
             m2 == Move(x.to, "coin", x.amount - fee)
             m3 == Move(Fcoin, "coin", fee)
             n == lastOrder + 1
  <1>1. x.from \in Account /\ x.to \in Account /\ x.amount \in Nat /\ Fcoin \in Account
    BY DEF Assumptions, DexOrdersAssumption, DexOperatorsAssumption
  <1>2. fee \in 0..x.amount
    <2>1. TransferRatio \in Nat /\ RatioBoost \in Nat \ {0} /\ TransferRatio <= RatioBoost
      BY DEF Assumptions, DexOrdersAssumption, DexOperatorsAssumption
    <2>2. (x.amount * TransferRatio) \div RatioBoost \in 0..x.amount
      BY <1>1, <2>1, RatioBound
    <2> QED BY <2>2 DEF CalcAmountByRatio
  <1>3. /\ free[x.from]["coin"] >= x.amount /\ FrictionFits(fee)
        /\ free' = Moved(free, <<m1, m2>>) /\ frozen' = Moved(frozen, <<m3>>)
        /\ orders' = WithFrictionOrder(orders, fee)
        /\ lastOrder' = lastOrder + (IF fee > 0 THEN 1 ELSE 0) /\ UNCHANGED operatorVars
    BY DEF Transfer
  <1> HIDE DEF fee
  <1>4. m1 \in Movement /\ m2 \in Movement /\ m3 \in Movement
    BY <1>1, <1>2 DEF Movement, Move, Token
  <1>5. /\ m1 = [account |-> x.from, token |-> "coin", amount |-> -x.amount]
        /\ m2 = [account |-> x.to, token |-> "coin", amount |-> x.amount - fee]
        /\ m3 = [account |-> Fcoin, token |-> "coin", amount |-> fee]
    BY DEF Move
  <1> HIDE DEF m1, m2, m3
  <1>6. IsMoney(free')
    <2>1. ASSUME NEW a \in Account, NEW t \in Token PROVE free[a][t] + Sum(<<m1, m2>>, a, t) \in Nat
      <3>1. Sum(<<m1, m2>>, a, t) = Gain(m1, a, t) + Gain(m2, a, t)
        BY <1>4, TwoMoves
      <3>2. Gain(m2, a, t) \in Nat
        BY <1>1, <1>2, <1>5 DEF Gain
      <3>3. free[a][t] \in Nat
        BY DEF OrdersInv, IsMoney
      <3>4. free[a][t] + Gain(m1, a, t) \in Nat /\ Gain(m1, a, t) \in Int
        <4>1. CASE a = x.from /\ t = "coin"
          <5>1. Gain(m1, a, t) = -x.amount
            BY <1>5, <4>1 DEF Gain
          <5> QED BY <1>1, <1>3, <3>3, <4>1, <5>1
        <4>2. CASE ~(a = x.from /\ t = "coin")
          <5>1. Gain(m1, a, t) = 0
            BY <1>5, <4>2 DEF Gain
          <5> QED BY <3>3, <5>1
        <4> QED BY <4>1, <4>2
      <3> QED BY <3>1, <3>2, <3>3, <3>4
    <2> QED BY <1>3, <2>1, MovedIsMoney
  <1>7. ASSUME NEW a, NEW t
        PROVE Sum(<<m3>>, a, t) = IF a = Fcoin /\ t = "coin" THEN fee ELSE 0
    <2>1. Sum(<<m3>>, a, t) = Gain(m3, a, t)
      BY <1>4, OneMove
    <2> QED BY <1>5, <2>1 DEF Gain
  <1>8. IsMoney(frozen')
    <2>1. ASSUME NEW a \in Account, NEW t \in Token PROVE frozen[a][t] + Sum(<<m3>>, a, t) \in Nat
      <3>1. frozen[a][t] \in Nat
        BY DEF OrdersInv, IsMoney
      <3>2. Sum(<<m3>>, a, t) \in Nat
        BY <1>2, <1>7
      <3> QED BY <3>1, <3>2
    <2> QED BY <1>3, <2>1, MovedIsMoney
  <1>9. /\ IsBook(orders) /\ n \notin DOMAIN orders /\ lastOrder \in Nat /\ MaxOrders \in Nat
        /\ fee \in Nat
    BY <1>1, <1>2, GoodIsBook DEF OrdersInv, Assumptions, DexOrdersAssumption
  <1>10. /\ DOMAIN orders' = DOMAIN orders \cup (IF fee > 0 THEN {n} ELSE {})
         /\ \A id \in DOMAIN orders : orders'[id] = orders[id]
         /\ fee > 0 => orders'[n] = SystemOrder(fee)
         /\ \A a, t : Claimed(orders', a, t)
              = Claimed(orders, a, t) + (IF a = Fcoin /\ t = "coin" THEN fee ELSE 0)
    <2>1. AddsFriction(WithFrictionOrder(orders, fee), orders, fee)
      BY <1>9, FrictionOrderAdds
    <2>2. orders' = WithFrictionOrder(orders, fee)
      BY <1>3
    <2> QED BY <2>1, <2>2 DEF AddsFriction
  <1>11. GoodBook(orders', lastOrder')
    <2>1. fee > 0 => /\ SystemOrder(fee) \in DexOrder /\ Residual(SystemOrder(fee)) > 0
                     /\ Covered(SystemOrder(fee)) /\ lastOrder < MaxOrders
      BY <1>3, <1>9, SystemOrderIsGood DEF FrictionFits
    <2>2. DOMAIN orders \subseteq 1..lastOrder /\ lastOrder \in 0..MaxOrders
      BY DEF OrdersInv, GoodBook
    <2>3. DOMAIN orders' \subseteq 1..lastOrder' /\ lastOrder' \in 0..MaxOrders
      BY <1>3, <1>9, <1>10, <2>1, <2>2
    <2>4. \A id \in DOMAIN orders' :
            orders'[id] \in DexOrder /\ Residual(orders'[id]) > 0 /\ Covered(orders'[id])
      BY <1>10, <2>1 DEF OrdersInv, GoodBook
    <2> QED BY <2>3, <2>4 DEF GoodBook
  <1>12. Backs(frozen', orders')
    <2> SUFFICES ASSUME NEW a \in Account, NEW t \in Token
                 PROVE frozen'[a][t] = Claimed(orders', a, t)
      BY DEF Backs
    <2>1. frozen'[a][t] = frozen[a][t] + Sum(<<m3>>, a, t)
      BY <1>3, MovedAdds
    <2>2. frozen[a][t] = Claimed(orders, a, t)
      BY DEF OrdersInv, Backs
    <2> QED BY <1>7, <1>10, <2>1, <2>2
  <1>13. Balanced(free', frozen')
    <2>1. <<m1, m2>> \in Seq(Movement) /\ <<m3>> \in Seq(Movement)
      BY <1>4
    <2>2. ASSUME NEW t \in Token
          PROVE SumFunctionOnSet(All(<<m1, m2>>, t), DOMAIN <<m1, m2>>)
                  + SumFunctionOnSet(All(<<m3>>, t), DOMAIN <<m3>>) = 0
      <3>1. SumFunctionOnSet(All(<<m1, m2>>, t), DOMAIN <<m1, m2>>) = Worth(m1, t) + Worth(m2, t)
        BY <1>4, TwoWorths
      <3>2. SumFunctionOnSet(All(<<m3>>, t), DOMAIN <<m3>>) = Worth(m3, t)
        BY <1>4, OneWorth
      <3>3. Worth(m1, t) + Worth(m2, t) + Worth(m3, t) = 0
        BY <1>1, <1>2, <1>5 DEF Worth
      <3> QED BY <3>1, <3>2, <3>3
    <2> QED BY <1>3, <2>1, <2>2, StaysBalanced DEF OrdersInv
  <1>14. OperatorsInv'
    BY <1>3, <1>6, OperatorsUnchanged DEF OrdersInv, IsMoney
  <1> QED BY <1>6, <1>8, <1>11, <1>12, <1>13, <1>14 DEF OrdersInv

-----------------------------------------------------------------------------
(* A deal. *)

(* What an order that is dealt at its limit or below has left stays paid    *)
(* for.                                                                     *)
LEMMA DealtStaysCovered ==
  ASSUME Assumptions, NEW o \in DexOrder, Covered(o), NEW d,
         d.coin \in Nat, d.asset \in Nat, d.price \in Nat,
         o.side = "buy" /\ o.type = "limit" =>
           d.price <= o.price /\ d.coin = CalcCoinAmount(d.asset, d.price),
         Residual(Dealt(o, d)) >= 0
  PROVE  Covered(Dealt(o, d))
  <1> SUFFICES ASSUME o.side = "buy", o.type = "limit"
               PROVE  /\ (o.dealtCoin + d.coin) * PriceBoost <= (o.dealtAsset + d.asset) * o.price
                      /\ o.dealtCoin + d.coin
                           + CalcCoinAmount(o.asset - (o.dealtAsset + d.asset), o.price) <= o.coin
    BY DEF Covered, Dealt, DexOrder
  <1> DEFINE PB == PriceBoost
             dc == o.dealtCoin
             da == o.dealtAsset
             c == d.coin
             n == d.asset
             p == d.price
             limit == o.price
             rest == o.asset - (da + n)
  <1>1. /\ o.coin \in Nat /\ o.asset \in Nat /\ dc \in Nat /\ da \in Nat /\ limit \in Nat
        /\ c \in Nat /\ n \in Nat /\ p \in Nat /\ p <= limit /\ PB \in Nat \ {0}
    BY DEF DexOrder, Assumptions, DexOrdersAssumption
  <1>2. rest \in Nat
    <2>1. Residual(Dealt(o, d)) = o.asset - (da + n)
      BY DEF Residual, Dealt, DexOrder
    <2> QED BY <1>1, <2>1
  <1>3. c = (n * p) \div PB
    BY DEF CalcCoinAmount
  <1>4. /\ dc * PB <= da * limit
        /\ dc + (((o.asset - da) * limit) \div PB) <= o.coin
    BY DEF Covered, CalcCoinAmount
  <1>5. o.asset - da = rest + n
    BY <1>1
  <1>6. o.coin \in Nat
    BY <1>1
  <1> DEFINE coin == o.coin
  <1> HIDE DEF PB, dc, da, c, n, p, limit, rest, coin
  <1>7. n * p \in Nat /\ n * limit \in Nat /\ n * p <= n * limit
    <2>1. n * p <= n * limit
      BY <1>1, ProductGrows
    <2> QED BY <1>1, <2>1
  <1>8. c * PB <= n * limit
    <2> DEFINE x == n * p
    <2>1. x \in Nat /\ x <= n * limit /\ c = x \div PB
      BY <1>3, <1>7
    <2> HIDE DEF x
    <2>2. x = PB * (x \div PB) + (x % PB) /\ x % PB \in 0..(PB - 1)
      BY <1>1, <2>1, Division
    <2>3. x = PB * c + (x % PB) /\ x % PB \in Nat
      BY <2>1, <2>2
    <2>4. PB * c = c * PB /\ PB * c \in Nat
      BY <1>1
    <2> QED BY <1>7, <2>1, <2>3, <2>4
  <1>9. (dc + c) * PB <= (da + n) * limit
    <2>1. (dc + c) * PB = dc * PB + c * PB /\ (da + n) * limit = da * limit + n * limit
      BY <1>1
    <2>2. dc * PB \in Int /\ c * PB \in Int /\ da * limit \in Int /\ n * limit \in Int
      BY <1>1
    <2> QED BY <1>4, <1>8, <2>1, <2>2
  <1> DEFINE x == rest * limit
             y == n * limit
             z == n * p
             w == (rest + n) * limit
  <1>10. x \in Nat /\ y \in Nat /\ z \in Nat /\ z <= y /\ w = x + y /\ w \in Nat
    BY <1>1, <1>2, <1>7
  <1>11. c = z \div PB /\ dc + (w \div PB) <= coin
    BY <1>3, <1>4, <1>5 DEF coin
  <1>12. dc + c + (x \div PB) <= coin
    <2> HIDE DEF x, y, z, w
    <2>1. z \div PB <= y \div PB
      BY <1>1, <1>10, FloorGrows
    <2>2. (x \div PB) + (y \div PB) <= (x + y) \div PB
      BY <1>1, <1>10, FloorAdds
    <2>3. x \div PB \in Nat /\ y \div PB \in Nat /\ z \div PB \in Nat /\ w \div PB \in Nat
      BY <1>1, <1>10, Division
    <2> DEFINE qx == x \div PB qy == y \div PB qz == z \div PB qw == w \div PB
    <2>4. qz <= qy /\ qx + qy <= qw /\ c = qz /\ dc + qw <= coin
      BY <1>10, <1>11, <2>1, <2>2
    <2>5. qx \in Nat /\ qy \in Nat /\ qz \in Nat /\ qw \in Nat /\ coin \in Nat /\ dc \in Nat
      BY <1>1, <1>6, <2>3 DEF coin
    <2> HIDE DEF qx, qy, qz, qw
    <2>6. dc + c + qx <= coin
      BY <2>4, <2>5
    <2> QED BY <2>6 DEF qx
  <1> QED BY <1>9, <1>12 DEF PB, dc, da, c, n, limit, rest, coin, CalcCoinAmount

(* The fees of a deal are parts of it. *)
LEMMA FeesOfDeal ==
  ASSUME Assumptions, OperatorsTyped, NEW d, NEW amount \in Nat
  PROVE  /\ Friction(d, amount) \in 0..amount
         /\ \A o \in DexOrder : MatchFee(o, d, amount) \in Nat
  <1>1. /\ FrictionRatio \in Nat /\ RatioBoost \in Nat \ {0} /\ FrictionRatio <= RatioBoost
        /\ PriceBoost \in Nat \ {0}
    BY DEF Assumptions, DexOrdersAssumption, DexOperatorsAssumption
  <1>2. (amount * FrictionRatio) \div RatioBoost \in 0..amount
    BY <1>1, RatioBound
  <1>3. Friction(d, amount) \in 0..amount
    BY <1>2 DEF Friction, CalcAmountByRatio
  <1>4. ASSUME NEW o \in DexOrder PROVE MatchFee(o, d, amount) \in Nat
    <2>1. TermsOf(o) \in Terms
      <3>1. CASE o.terms # << >>
        <4>1. o.terms \in Seq(Terms)
          BY DEF DexOrder
        <4>2. Head(o.terms) \in Terms
          BY <3>1, <4>1
        <4> QED BY <3>1, <4>2 DEF TermsOf
      <3>2. CASE o.terms = << >>
        <4>1. GetDexOperator(o.dex) \in DexOperator
          BY GottenIsOperator DEF Assumptions
        <4>2. GetDexOperator(o.dex).terms \in Terms
          <5> DEFINE g == GetDexOperator(o.dex)
          <5>1. g \in DexOperator
            BY <4>1
          <5> HIDE DEF g
          <5>2. g.terms \in Terms
            BY <5>1 DEF DexOperator
          <5> QED BY <5>2 DEF g
        <4> QED BY <3>2, <4>2 DEF TermsOf
      <3> QED BY <3>1, <3>2
    <2>2. TermsOf(o).maker \in Nat /\ TermsOf(o).taker \in Nat
      <3> DEFINE g == TermsOf(o)
      <3>1. g \in Terms
        BY <2>1
      <3> HIDE DEF g
      <3>2. g.maker \in Nat /\ g.taker \in Nat
        BY <3>1 DEF Terms
      <3> QED BY <3>2 DEF g
    <2> DEFINE ratio == IF o.side = TakerSide(d) THEN TermsOf(o).taker ELSE TermsOf(o).maker
               m == amount * ratio
    <2>3. ratio \in Nat
      BY <2>2
    <2> HIDE DEF ratio
    <2>4. m \in Nat
      BY <2>3
    <2> HIDE DEF m
    <2>5. m \div PriceBoost \in Nat
      BY <1>1, <2>4, Division
    <2> QED BY <2>5 DEF m, ratio, MatchFee, CalcAmountByRatio
  <1> QED BY <1>3, <1>4

(* A deal of an order with something left. *)
LEMMA DealtOrder ==
  ASSUME NEW o \in DexOrder, NEW d, d.coin \in Nat, d.asset \in Nat
  PROVE  /\ Dealt(o, d) \in DexOrder
         /\ Dealt(o, d).user = o.user /\ Dealt(o, d).side = o.side /\ Dealt(o, d).type = o.type
         /\ Dealt(o, d).price = o.price /\ Dealt(o, d).dex = o.dex
         /\ o.side = "buy" => Remaining(o) = Remaining(Dealt(o, d)) + d.coin
         /\ o.side = "sell" => Remaining(o) = Remaining(Dealt(o, d)) + d.asset
  <1>1. /\ o.coin \in Nat /\ o.asset \in Nat /\ o.dealtCoin \in Nat /\ o.dealtAsset \in Nat
    BY DEF DexOrder
  <1> DEFINE new == Dealt(o, d)
  <1>2. /\ new \in DexOrder /\ new.user = o.user /\ new.side = o.side /\ new.type = o.type
        /\ new.price = o.price /\ new.dex = o.dex /\ new.coin = o.coin /\ new.asset = o.asset
        /\ new.dealtCoin = o.dealtCoin + d.coin /\ new.dealtAsset = o.dealtAsset + d.asset
    <2> DEFINE dc == o.dealtCoin + d.coin
               da == o.dealtAsset + d.asset
    <2>1. dc \in Nat /\ da \in Nat
      BY <1>1
    <2>2. new = [o EXCEPT !.dealtCoin = dc, !.dealtAsset = da]
      BY DEF Dealt, DexOrder
    <2> HIDE DEF dc, da, new
    <2>3. new \in DexOrder
      BY <2>1, <2>2 DEF DexOrder
    <2>4. /\ new.user = o.user /\ new.side = o.side /\ new.type = o.type
          /\ new.price = o.price /\ new.dex = o.dex /\ new.coin = o.coin /\ new.asset = o.asset
          /\ new.dealtCoin = dc /\ new.dealtAsset = da
      BY <2>2 DEF DexOrder
    <2> QED BY <2>3, <2>4 DEF dc, da, new
  <1> HIDE DEF new
  <1>3. /\ o.side = "buy" => Remaining(o) = Remaining(new) + d.coin
        /\ o.side = "sell" => Remaining(o) = Remaining(new) + d.asset
    BY <1>1, <1>2 DEF Remaining
  <1> QED BY <1>2, <1>3 DEF new

(* The price and the coins of a deal suit a limit buy. *)
LEMMA DealSuits ==
  ASSUME Assumptions, NEW buy \in DexOrder, NEW sell \in DexOrder, NEW d,
         d.coin \in Nat, d.asset \in Nat, d.price \in Nat,
         PriceMatches(buy, sell, d.price), CoinsMatch(buy, d), buy.type = "limit"
  PROVE  d.price <= buy.price /\ d.coin = CalcCoinAmount(d.asset, d.price)
  <1>1. buy.price \in Nat /\ sell.type \in {"limit", "market"}
    BY DEF DexOrder
  <1>2. d.price <= buy.price
    BY <1>1 DEF PriceMatches
  <1> DEFINE x == d.asset * d.price
             full == x \div PriceBoost
  <1>3. x \in Nat /\ PriceBoost \in Nat \ {0}
    BY DEF Assumptions, DexOrdersAssumption
  <1> HIDE DEF x
  <1>4. full \in Nat
    BY <1>3, Division
  <1>5. Distance(full, d.coin) = 0
    BY DEF CoinsMatch, CalcCoinAmount, x
  <1> HIDE DEF full
  <1>6. full = d.coin
    BY <1>4, <1>5 DEF Distance
  <1> QED BY <1>2, <1>6 DEF full, x, CalcCoinAmount

(* What a dealt buy saved is what it has left when it is done. *)
LEMMA SavedIsRest ==
  ASSUME Assumptions, NEW o \in DexOrder, o.side = "buy", Residual(o) >= 0, Covered(o)
  PROVE  /\ Remaining(o) \in Nat /\ Saved(o) \in Nat
         /\ Saved(o) = IF Residual(o) = 0 THEN Remaining(o) ELSE 0
  <1>1. Remaining(o) \in Nat
    BY CoveredRemains
  <1>2. o.type \in {"limit", "market"}
    BY DEF DexOrder
  <1>3. Saved(o) = IF Residual(o) = 0 THEN Remaining(o) ELSE 0
    BY <1>1, <1>2 DEF Saved, Residual, Remaining
  <1> QED BY <1>1, <1>3

(* A deal. *)
LEMMA SettleKeeps ==
  ASSUME Assumptions, OrdersInv, NEW d, d.buy \in DOMAIN orders, d.sell \in DOMAIN orders,
         d.price \in Nat, d.coin \in Nat, d.asset \in Nat, Settle(d)
  PROVE  OrdersInv'
  <1> DEFINE b == d.buy
             s == d.sell
             c == d.coin
             n == d.asset
             ob == orders[b]
             os == orders[s]
             buy == Dealt(ob, d)
             sell == Dealt(os, d)
             cf == Friction(d, c)
             af == Friction(d, n)
             cm == MatchFee(sell, d, c - cf)
             am == MatchFee(buy, d, n - af)
             sv == Saved(buy)
             mid == [orders EXCEPT ![b] = buy, ![s] = sell]
             book == WithFrictionOrder(mid, cf)
             done == {id \in {b, s} : Residual(IF id = b THEN buy ELSE sell) = 0}
             bu == buy.user
             su == sell.user
             rs == GetDexOperator(sell.dex).receiver
             rb == GetDexOperator(buy.dex).receiver
             l1 == Move(su, "coin", c - cf - cm)
             l2 == Move(rs, "coin", cm)
             l3 == Move(bu, "asset", n - af - am)
             l4 == Move(Bp, "asset", af)
             l5 == Move(rb, "asset", am)
             l6 == Move(bu, "coin", sv)
             k1 == Move(bu, "coin", -(c + sv))
             k2 == Move(su, "asset", -n)
             k3 == Move(Fcoin, "coin", cf)
  <1>1. /\ ob.side = "buy" /\ os.side = "sell"
        /\ PriceMatches(buy, sell, d.price) /\ CoinsMatch(buy, d)
        /\ Residual(buy) >= 0 /\ Residual(sell) >= 0
        /\ c > cf + cm /\ n > af + am
        /\ frozen[bu]["coin"] >= c + sv /\ frozen[su]["asset"] >= n
        /\ FrictionFits(cf)
        /\ free' = Moved(free, <<l1, l2, l3, l4, l5, l6>>)
        /\ frozen' = Moved(frozen, <<k1, k2, k3>>)
        /\ orders' = Restrict(book, DOMAIN book \ done)
        /\ lastOrder' = lastOrder + (IF cf > 0 THEN 1 ELSE 0)
        /\ UNCHANGED operatorVars
    BY DEF Settle
  <1>2. /\ ob \in DexOrder /\ Residual(ob) > 0 /\ Covered(ob)
        /\ os \in DexOrder /\ Residual(os) > 0 /\ Covered(os)
    BY DEF OrdersInv, GoodBook
  <1>3. b # s /\ b \in DOMAIN orders /\ s \in DOMAIN orders /\ c \in Nat /\ n \in Nat
    BY <1>1
  <1>4. OperatorsTyped /\ IsMoney(free) /\ IsMoney(frozen) /\ GoodBook(orders, lastOrder)
    BY DEF OrdersInv, OperatorsInv
  <1>5. /\ buy \in DexOrder /\ bu = ob.user /\ buy.side = "buy" /\ buy.type = ob.type
        /\ buy.price = ob.price /\ Remaining(ob) = Remaining(buy) + c
        /\ sell \in DexOrder /\ su = os.user /\ sell.side = "sell"
        /\ Remaining(os) = Remaining(sell) + n
    <2> HIDE DEF ob, os
    <2> QED BY <1>1, <1>2, <1>3, DealtOrder
  <1>6. Covered(buy) /\ Covered(sell)
    <2>1. Covered(sell)
      BY <1>5 DEF Covered
    <2>2. buy.type = "limit" => d.price <= buy.price /\ c = CalcCoinAmount(n, d.price)
      <3> HIDE DEF buy, sell
      <3> QED BY <1>1, <1>5, DealSuits
    <2>3. ob.side = "buy" /\ ob.type = "limit"
            => d.price <= ob.price /\ d.coin = CalcCoinAmount(d.asset, d.price)
      BY <1>5, <2>2
    <2>4. Residual(Dealt(ob, d)) >= 0
      BY <1>1
    <2>5. Covered(Dealt(ob, d))
      <3> HIDE DEF ob
      <3> QED BY <1>2, <2>3, <2>4, DealtStaysCovered
    <2> QED BY <2>1, <2>5
  <1>7. /\ Remaining(buy) \in Nat /\ sv \in Nat
        /\ sv = IF Residual(buy) = 0 THEN Remaining(buy) ELSE 0
    <2> HIDE DEF buy
    <2> QED BY <1>1, <1>5, <1>6, SavedIsRest
  <1>8. Remaining(sell) \in Nat /\ Remaining(sell) = Residual(sell)
    <2> HIDE DEF sell
    <2>1. Remaining(sell) = Residual(sell)
      BY <1>5 DEF Remaining, Residual
    <2> QED BY <1>1, <1>5, <1>6, <2>1, CoveredRemains
  <1>9. /\ cf \in Nat /\ cf <= c /\ cm \in Nat /\ af \in Nat /\ af <= n /\ am \in Nat
    <2>1. cf \in 0..c /\ af \in 0..n
      BY <1>3, <1>4, FeesOfDeal
    <2> HIDE DEF cf, af, c, n, buy, sell
    <2>2. c - cf \in Nat /\ n - af \in Nat
      BY <1>3, <2>1
    <2>3. cm \in Nat /\ am \in Nat
      BY <1>4, <1>5, <2>2, FeesOfDeal
    <2> QED BY <1>3, <2>1, <2>3
  <1>10. /\ bu \in Account /\ su \in Account /\ rb \in Account /\ rs \in Account
         /\ Bp \in Account /\ Fcoin \in Account
    <2>1. bu \in Account /\ su \in Account
      <3> HIDE DEF buy, sell
      <3> QED BY <1>5 DEF DexOrder
    <2>2. rb \in Account /\ rs \in Account
      <3>1. GetDexOperator(buy.dex) \in DexOperator /\ GetDexOperator(sell.dex) \in DexOperator
        BY <1>4, GottenIsOperator DEF Assumptions
      <3> HIDE DEF buy, sell
      <3> QED BY <3>1 DEF DexOperator
    <2> QED BY <2>1, <2>2 DEF Assumptions, DexOrdersAssumption, DexOperatorsAssumption
  <1>11. (c - cf - cm) \in Nat /\ (n - af - am) \in Nat /\ -(c + sv) \in Int /\ -n \in Int
    <2> HIDE DEF c, n, cf, cm, af, am, sv
    <2> QED BY <1>1, <1>3, <1>7, <1>9
  <1>12. /\ l1 = [account |-> su, token |-> "coin", amount |-> c - cf - cm]
         /\ l2 = [account |-> rs, token |-> "coin", amount |-> cm]
         /\ l3 = [account |-> bu, token |-> "asset", amount |-> n - af - am]
         /\ l4 = [account |-> Bp, token |-> "asset", amount |-> af]
         /\ l5 = [account |-> rb, token |-> "asset", amount |-> am]
         /\ l6 = [account |-> bu, token |-> "coin", amount |-> sv]
         /\ k1 = [account |-> bu, token |-> "coin", amount |-> -(c + sv)]
         /\ k2 = [account |-> su, token |-> "asset", amount |-> -n]
         /\ k3 = [account |-> Fcoin, token |-> "coin", amount |-> cf]
    BY DEF Move
  <1> HIDE DEF l1, l2, l3, l4, l5, l6, k1, k2, k3, cf, cm, af, am, sv, bu, su, rb, rs, c, n
  <1>13. /\ l1 \in Movement /\ l2 \in Movement /\ l3 \in Movement /\ l4 \in Movement
         /\ l5 \in Movement /\ l6 \in Movement
         /\ k1 \in Movement /\ k2 \in Movement /\ k3 \in Movement
    BY <1>7, <1>9, <1>10, <1>11, <1>12 DEF Movement, Token
  <1> HIDE DEF buy, sell, ob, os, mid, book, done, b, s
  <1>14. /\ IsMoney(free) /\ IsMoney(frozen)
         /\ \A a \in Account, t \in Token : free[a][t] \in Nat /\ frozen[a][t] \in Nat
    BY <1>4 DEF IsMoney
  <1>15. IsMoney(free')
    <2> DEFINE moves == <<l1, l2, l3, l4, l5, l6>>
    <2>1. ASSUME NEW a \in Account, NEW t \in Token PROVE free[a][t] + Sum(moves, a, t) \in Nat
      <3>1. Sum(moves, a, t) = Gain(l1, a, t) + Gain(l2, a, t) + Gain(l3, a, t)
                                 + Gain(l4, a, t) + Gain(l5, a, t) + Gain(l6, a, t)
        <4>1. /\ moves \in Seq(Movement) /\ Len(moves) = 6
              /\ moves[1] = l1 /\ moves[2] = l2 /\ moves[3] = l3
              /\ moves[4] = l4 /\ moves[5] = l5 /\ moves[6] = l6
          BY <1>13
        <4> HIDE DEF moves
        <4>2. Sum(moves, a, t) = Gain(moves[1], a, t) + Gain(moves[2], a, t) + Gain(moves[3], a, t)
                + Gain(moves[4], a, t) + Gain(moves[5], a, t) + Gain(moves[6], a, t)
          BY <4>1, SixMoves
        <4> QED BY <4>1, <4>2
      <3>2. /\ Gain(l1, a, t) \in Nat /\ Gain(l2, a, t) \in Nat /\ Gain(l3, a, t) \in Nat
            /\ Gain(l4, a, t) \in Nat /\ Gain(l5, a, t) \in Nat /\ Gain(l6, a, t) \in Nat
        BY <1>7, <1>9, <1>11, <1>12 DEF Gain
      <3>3. free[a][t] \in Nat
        BY <1>14
      <3> QED BY <3>1, <3>2, <3>3
    <2> HIDE DEF moves
    <2>2. free' = Moved(free, moves)
      BY <1>1 DEF moves
    <2> QED BY <2>1, <2>2, MovedIsMoney
  <1>16. ASSUME NEW a, NEW t
         PROVE  Sum(<<k1, k2, k3>>, a, t)
                  = (IF a = Fcoin /\ t = "coin" THEN cf ELSE 0)
                      - (IF a = bu /\ t = "coin" THEN c + sv ELSE 0)
                      - (IF a = su /\ t = "asset" THEN n ELSE 0)
    <2>1. Sum(<<k1, k2, k3>>, a, t) = Gain(k1, a, t) + Gain(k2, a, t) + Gain(k3, a, t)
      BY <1>13, ThreeMoves
    <2>2. /\ Gain(k1, a, t) = IF a = bu /\ t = "coin" THEN -(c + sv) ELSE 0
          /\ Gain(k2, a, t) = IF a = su /\ t = "asset" THEN -n ELSE 0
          /\ Gain(k3, a, t) = IF a = Fcoin /\ t = "coin" THEN cf ELSE 0
      BY <1>12 DEF Gain
    <2> QED BY <1>3, <1>7, <1>9, <2>1, <2>2
  <1>17. ASSUME NEW a \in Account, NEW t \in Token
         PROVE  frozen'[a][t] = frozen[a][t] + Sum(<<k1, k2, k3>>, a, t)
    <2> DEFINE moves == <<k1, k2, k3>>
    <2>1. frozen' = Moved(frozen, moves)
      BY <1>1
    <2> HIDE DEF moves
    <2>2. frozen'[a][t] = frozen[a][t] + Sum(moves, a, t)
      BY <2>1, MovedAdds
    <2> QED BY <2>2 DEF moves
  <1>18. IsMoney(frozen')
    <2> DEFINE moves == <<k1, k2, k3>>
    <2>1. ASSUME NEW a \in Account, NEW t \in Token PROVE frozen[a][t] + Sum(moves, a, t) \in Nat
      <3>1. frozen[a][t] \in Nat
        BY <1>14
      <3>2. a = bu /\ t = "coin" => frozen[a][t] >= c + sv
        BY <1>1
      <3>3. a = su /\ t = "asset" => frozen[a][t] >= n
        BY <1>1
      <3> QED BY <1>3, <1>7, <1>9, <1>16, <3>1, <3>2, <3>3
    <2> HIDE DEF moves
    <2>2. frozen' = Moved(frozen, moves)
      BY <1>1 DEF moves
    <2> QED BY <2>1, <2>2, MovedIsMoney
  <1>19. Balanced(free', frozen')
    <2> DEFINE m1 == <<l1, l2, l3, l4, l5, l6>>
               m2 == <<k1, k2, k3>>
    <2>1. m1 \in Seq(Movement) /\ m2 \in Seq(Movement)
      BY <1>13
    <2>2. ASSUME NEW t \in Token
          PROVE  SumFunctionOnSet(All(m1, t), DOMAIN m1) + SumFunctionOnSet(All(m2, t), DOMAIN m2) = 0
      <3>1. SumFunctionOnSet(All(m1, t), DOMAIN m1)
              = Worth(l1, t) + Worth(l2, t) + Worth(l3, t)
                  + Worth(l4, t) + Worth(l5, t) + Worth(l6, t)
        <4>1. /\ m1 \in Seq(Movement) /\ Len(m1) = 6
              /\ m1[1] = l1 /\ m1[2] = l2 /\ m1[3] = l3 /\ m1[4] = l4 /\ m1[5] = l5 /\ m1[6] = l6
          BY <1>13
        <4> HIDE DEF m1
        <4>2. SumFunctionOnSet(All(m1, t), DOMAIN m1)
                = Worth(m1[1], t) + Worth(m1[2], t) + Worth(m1[3], t)
                    + Worth(m1[4], t) + Worth(m1[5], t) + Worth(m1[6], t)
          BY <4>1, SixWorths
        <4> QED BY <4>1, <4>2
      <3>2. SumFunctionOnSet(All(m2, t), DOMAIN m2) = Worth(k1, t) + Worth(k2, t) + Worth(k3, t)
        BY <1>13, ThreeWorths
      <3>3. CASE t = "coin"
        <4>1. /\ Worth(l1, t) = c - cf - cm /\ Worth(l2, t) = cm /\ Worth(l3, t) = 0
              /\ Worth(l4, t) = 0 /\ Worth(l5, t) = 0 /\ Worth(l6, t) = sv
              /\ Worth(k1, t) = -(c + sv) /\ Worth(k2, t) = 0 /\ Worth(k3, t) = cf
          BY <1>12, <3>3 DEF Worth
        <4> QED BY <1>3, <1>7, <1>9, <3>1, <3>2, <4>1
      <3>4. CASE t = "asset"
        <4>1. /\ Worth(l1, t) = 0 /\ Worth(l2, t) = 0 /\ Worth(l3, t) = n - af - am
              /\ Worth(l4, t) = af /\ Worth(l5, t) = am /\ Worth(l6, t) = 0
              /\ Worth(k1, t) = 0 /\ Worth(k2, t) = -n /\ Worth(k3, t) = 0
          BY <1>12, <3>4 DEF Worth
        <4> QED BY <1>3, <1>7, <1>9, <3>1, <3>2, <4>1
      <3>5. CASE t \notin {"coin", "asset"}
        <4>1. /\ Worth(l1, t) = 0 /\ Worth(l2, t) = 0 /\ Worth(l3, t) = 0
              /\ Worth(l4, t) = 0 /\ Worth(l5, t) = 0 /\ Worth(l6, t) = 0
              /\ Worth(k1, t) = 0 /\ Worth(k2, t) = 0 /\ Worth(k3, t) = 0
          BY <1>12, <3>5 DEF Worth
        <4> QED BY <3>1, <3>2, <4>1
      <3> QED BY <3>3, <3>4, <3>5
    <2>3. free' = Moved(free, m1) /\ frozen' = Moved(frozen, m2)
      BY <1>1
    <2>4. Balanced(free, frozen)
      BY DEF OrdersInv
    <2> HIDE DEF m1, m2
    <2> QED BY <1>14, <2>1, <2>2, <2>3, <2>4, StaysBalanced
  <1>20. OperatorsInv'
    BY <1>1, <1>15, OperatorsUnchanged DEF OrdersInv, IsMoney
  <1>21. /\ IsBook(orders) /\ lastOrder \in Nat /\ lastOrder + 1 \notin DOMAIN orders
         /\ MaxOrders \in Nat
    BY <1>4, GoodIsBook DEF Assumptions, DexOrdersAssumption
  <1>22. /\ IsBook(mid) /\ DOMAIN mid = DOMAIN orders /\ mid[b] = buy /\ mid[s] = sell
         /\ \A id \in DOMAIN orders : id # b /\ id # s => mid[id] = orders[id]
         /\ \A a, t : Claimed(mid, a, t)
              = Claimed(orders, a, t) - Claim(ob, a, t) + Claim(buy, a, t)
                  - Claim(os, a, t) + Claim(sell, a, t)
    <2> DEFINE one == [orders EXCEPT ![b] = buy]
    <2>1. mid = [one EXCEPT ![s] = sell]
      BY <1>3 DEF mid
    <2>2. /\ DOMAIN one = DOMAIN orders /\ one[b] = buy
          /\ \A id \in DOMAIN orders : id # b => one[id] = orders[id]
      BY <1>3
    <2>3. ob = orders[b] /\ os = orders[s] /\ one[s] = os
      BY <1>3, <2>2 DEF ob, os, b, s
    <2>4. ASSUME NEW a, NEW t
          PROVE  Claimed(one, a, t) = Claimed(orders, a, t) - Claim(ob, a, t) + Claim(buy, a, t)
      BY <1>3, <1>5, <1>21, <2>3, ClaimChanged
    <2>5. IsBook(one)
      BY <1>5, <1>21, <2>2 DEF IsBook
    <2> HIDE DEF one
    <2>6. ASSUME NEW a, NEW t
          PROVE  Claimed(mid, a, t) = Claimed(one, a, t) - Claim(os, a, t) + Claim(sell, a, t)
      <3>1. s \in DOMAIN one
        BY <1>3, <2>2
      <3>2. Claimed([one EXCEPT ![s] = sell], a, t)
              = Claimed(one, a, t) - Claim(one[s], a, t) + Claim(sell, a, t)
        BY <1>5, <2>5, <3>1, ClaimChanged
      <3> QED BY <2>1, <2>3, <3>2
    <2>7. DOMAIN mid = DOMAIN orders /\ mid[b] = buy /\ mid[s] = sell
          /\ \A id \in DOMAIN orders : id # b /\ id # s => mid[id] = orders[id]
      BY <1>3, <2>1, <2>2
    <2>8. IsBook(mid)
      BY <1>5, <1>21, <2>7 DEF IsBook
    <2>9. ASSUME NEW a, NEW t
          PROVE  Claimed(mid, a, t) = Claimed(orders, a, t) - Claim(ob, a, t) + Claim(buy, a, t)
                                        - Claim(os, a, t) + Claim(sell, a, t)
      <3>1. Claimed(one, a, t) = Claimed(orders, a, t) - Claim(ob, a, t) + Claim(buy, a, t)
        BY <2>4
      <3>2. Claimed(mid, a, t) = Claimed(one, a, t) - Claim(os, a, t) + Claim(sell, a, t)
        BY <2>6
      <3>3. /\ Claimed(orders, a, t) \in Int /\ Claim(ob, a, t) \in Int /\ Claim(buy, a, t) \in Int
            /\ Claim(os, a, t) \in Int /\ Claim(sell, a, t) \in Int
        BY <1>2, <1>5, <1>21, ClaimsSum, ClaimIsInt
      <3> QED BY <3>1, <3>2, <3>3
    <2> QED BY <2>7, <2>8, <2>9
  <1>23. AddsFriction(book, mid, cf)
    <2>1. book = WithFrictionOrder(mid, cf)
      BY DEF book
    <2> QED BY <1>9, <1>21, <1>22, <2>1, FrictionOrderAdds
  <1>24. /\ b \in DOMAIN book /\ s \in DOMAIN book /\ book[b] = buy /\ book[s] = sell
         /\ IsBook(book)
    BY <1>3, <1>22, <1>23 DEF AddsFriction
  <1>25. /\ done \in SUBSET {b, s}
         /\ b \in done <=> Residual(buy) = 0
         /\ s \in done <=> Residual(sell) = 0
    BY <1>3 DEF done
  <1>26. Backs(frozen', orders')
    <2> SUFFICES ASSUME NEW a \in Account, NEW t \in Token
                 PROVE  frozen'[a][t] = Claimed(orders', a, t)
      BY DEF Backs
    <2> DEFINE cb == a = bu /\ t = "coin"
               cs == a = su /\ t = "asset"
               cn == a = Fcoin /\ t = "coin"
    <2>1. /\ Claim(ob, a, t) = IF cb THEN Remaining(buy) + c ELSE 0
          /\ Claim(buy, a, t) = IF cb THEN Remaining(buy) ELSE 0
      BY <1>1, <1>5 DEF Claim, TokenOf, bu
    <2>2. /\ Claim(os, a, t) = IF cs THEN Remaining(sell) + n ELSE 0
          /\ Claim(sell, a, t) = IF cs THEN Remaining(sell) ELSE 0
      BY <1>1, <1>5 DEF Claim, TokenOf, su
    <2>3. frozen'[a][t] = frozen[a][t] + (IF cn THEN cf ELSE 0) - (IF cb THEN c + sv ELSE 0)
                            - (IF cs THEN n ELSE 0)
      <3>1. frozen[a][t] \in Int
        BY <1>14
      <3> QED BY <1>3, <1>7, <1>9, <1>16, <1>17, <3>1
    <2>4. frozen[a][t] = Claimed(orders, a, t) /\ frozen[a][t] \in Int
      BY <1>14 DEF OrdersInv, Backs
    <2>5. Claimed(book, a, t) = Claimed(mid, a, t) + (IF cn THEN cf ELSE 0)
      BY <1>23 DEF AddsFriction
    <2>6. Claimed(orders', a, t)
            = Claimed(book, a, t) - (IF b \in done THEN Claim(buy, a, t) ELSE 0)
                                  - (IF s \in done THEN Claim(sell, a, t) ELSE 0)
      <3>1. Claimed(Restrict(book, DOMAIN book \ done), a, t)
              = Claimed(book, a, t) - (IF b \in done THEN Claim(book[b], a, t) ELSE 0)
                                    - (IF s \in done THEN Claim(book[s], a, t) ELSE 0)
        <4>1. b # s /\ done \in SUBSET {b, s}
          BY <1>3, <1>25
        <4> HIDE DEF done, book
        <4> QED BY <1>24, <4>1, DoneRemoved
      <3> QED BY <1>1, <1>24, <3>1
    <2>7. (IF b \in done THEN Claim(buy, a, t) ELSE 0) = IF cb THEN sv ELSE 0
      BY <1>7, <1>25, <2>1
    <2>8. (IF s \in done THEN Claim(sell, a, t) ELSE 0) = 0
      BY <1>8, <1>25, <2>2
    <2>9. Claimed(mid, a, t) = Claimed(orders, a, t) - (IF cb THEN c ELSE 0) - (IF cs THEN n ELSE 0)
      BY <1>3, <1>7, <1>8, <1>22, <2>1, <2>2, <2>4
    <2>10. Claimed(orders', a, t)
             = Claimed(orders, a, t) - (IF cb THEN c ELSE 0) - (IF cs THEN n ELSE 0)
                 + (IF cn THEN cf ELSE 0) - (IF cb THEN sv ELSE 0)
      <3>1. Claimed(orders, a, t) \in Int
        BY <2>4
      <3> QED BY <1>3, <1>7, <1>9, <2>5, <2>6, <2>7, <2>8, <2>9, <3>1
    <2> HIDE DEF cb, cs, cn
    <2> QED BY <1>3, <1>7, <1>9, <2>3, <2>4, <2>10
  <1>27. GoodBook(orders', lastOrder')
    <2>1. cf > 0 => /\ SystemOrder(cf) \in DexOrder /\ Residual(SystemOrder(cf)) > 0
                    /\ Covered(SystemOrder(cf)) /\ lastOrder < MaxOrders
      BY <1>1, <1>9, SystemOrderIsGood DEF FrictionFits
    <2>2. DOMAIN orders \subseteq 1..lastOrder /\ lastOrder \in 0..MaxOrders
          /\ \A id \in DOMAIN orders :
               orders[id] \in DexOrder /\ Residual(orders[id]) > 0 /\ Covered(orders[id])
      BY <1>4 DEF GoodBook
    <2>3. /\ DOMAIN book = DOMAIN orders \cup (IF cf > 0 THEN {lastOrder + 1} ELSE {})
          /\ \A id \in DOMAIN orders : book[id] = mid[id]
          /\ cf > 0 => book[lastOrder + 1] = SystemOrder(cf)
      BY <1>22, <1>23 DEF AddsFriction
    <2>4. lastOrder' = lastOrder + (IF cf > 0 THEN 1 ELSE 0)
          /\ DOMAIN orders' = DOMAIN book \ done /\ \A id \in DOMAIN orders' : orders'[id] = book[id]
      BY <1>1 DEF Restrict
    <2>5. DOMAIN orders' \subseteq 1..lastOrder' /\ lastOrder' \in 0..MaxOrders
      BY <1>9, <1>21, <2>1, <2>2, <2>3, <2>4
    <2>6. Residual(buy) \in Int /\ Residual(sell) \in Int
      BY <1>5, ClaimIsInt
    <2>7. ASSUME NEW id \in DOMAIN orders'
          PROVE  orders'[id] \in DexOrder /\ Residual(orders'[id]) > 0 /\ Covered(orders'[id])
      <3>1. id \in DOMAIN book /\ id \notin done /\ orders'[id] = book[id]
        BY <2>4
      <3>2. CASE id = b
        BY <1>1, <1>5, <1>6, <1>24, <1>25, <2>6, <3>1, <3>2
      <3>3. CASE id = s
        BY <1>1, <1>5, <1>6, <1>24, <1>25, <2>6, <3>1, <3>3
      <3>4. CASE id \in DOMAIN orders /\ id # b /\ id # s
        <4>1. orders'[id] = orders[id]
          <5>1. book[id] = mid[id]
            BY <2>3, <3>4
          <5>2. mid[id] = orders[id]
            BY <1>22, <3>4
          <5> QED BY <3>1, <5>1, <5>2
        <4> QED BY <2>2, <3>4, <4>1
      <3>5. CASE id \notin DOMAIN orders
        <4>1. cf > 0 /\ id = lastOrder + 1
          BY <2>3, <3>1, <3>5
        <4>2. orders'[id] = SystemOrder(cf)
          <5>1. book[id] = SystemOrder(cf)
            BY <2>3, <4>1
          <5> QED BY <3>1, <5>1
        <4> QED BY <2>1, <4>1, <4>2
      <3> QED BY <3>2, <3>3, <3>4, <3>5
    <2> QED BY <2>5, <2>7 DEF GoodBook
  <1> QED BY <1>15, <1>18, <1>19, <1>20, <1>26, <1>27 DEF OrdersInv

(* Steps on operators leave orders alone. *)
LEMMA OperatorsKeepOrders ==
  ASSUME Assumptions, OrdersInv, OperatorsNext, UNCHANGED <<orders, frozen, lastOrder>>
  PROVE  OrdersInv'
  <1>1. orders' = orders /\ frozen' = frozen /\ lastOrder' = lastOrder
    OBVIOUS
  <1>2. OperatorsInv' /\ \A t \in Token : Total(free', t) = Total(free, t)
    BY OperatorsStep DEF OrdersInv, Assumptions
  <1>3. IsMoney(free') /\ IsMoney(frozen')
    BY <1>1, <1>2 DEF OrdersInv, IsMoney, OperatorsInv, OperatorsTypeOK
  <1>4. Balanced(free', frozen')
    BY <1>1, <1>2 DEF OrdersInv, Balanced
  <1>5. GoodBook(orders', lastOrder') /\ Backs(frozen', orders')
    BY <1>1 DEF OrdersInv
  <1> QED BY <1>2, <1>3, <1>4, <1>5 DEF OrdersInv

(* It holds at first. *)
LEMMA OrdersStart ==
  ASSUME Assumptions, Init
  PROVE  OrdersInv
  <1>1. OperatorsInv
    BY OperatorsStart DEF Init, Assumptions
  <1>2. /\ DOMAIN orders = {} /\ lastOrder = 0 /\ free = InitialFree
        /\ frozen = [a \in Account |-> [t \in Token |-> 0]]
    BY DEF Init, OrdersInit, OperatorsInit
  <1>3. IsMoney(free) /\ IsMoney(frozen)
    BY <1>2 DEF IsMoney, Assumptions, DexOperatorsAssumption
  <1>4. GoodBook(orders, lastOrder)
    BY <1>2 DEF GoodBook, Assumptions, DexOrdersAssumption
  <1>5. Backs(frozen, orders)
    <2> SUFFICES ASSUME NEW a \in Account, NEW t \in Token
                 PROVE  frozen[a][t] = Claimed(orders, a, t)
      BY DEF Backs
    <2> DEFINE f == Claims(orders, a, t)
    <2>1. IsBook(orders)
      BY <1>4, GoodIsBook
    <2>2. Summable(f, {})
      BY <1>2, <2>1, ClaimsSum
    <2> HIDE DEF f
    <2>3. SumFunctionOnSet(f, {}) = 0
      BY <2>2, SumBasics
    <2> QED BY <1>2, <2>3 DEF Claimed, f
  <1>6. Balanced(free, frozen)
    <2> SUFFICES ASSUME NEW t \in Token
                 PROVE  Total(free, t) + Total(frozen, t) = Total(InitialFree, t)
      BY DEF Balanced
    <2> DEFINE f == [a \in Account |-> frozen[a][t]]
               g == [a \in Account |-> free[a][t]]
    <2>1. IsFiniteSet(Account)
      BY DEF Assumptions, DexOperatorsAssumption
    <2>2. \A a \in Account : f[a] = 0 /\ g[a] \in Int
      BY <1>2, <1>3 DEF IsMoney
    <2> HIDE DEF f, g
    <2>3. SumFunctionOnSet(f, Account) = 0
      <3>1. Summable(f, Account) /\ Summable(f, {}) /\ {} \in SUBSET Account
        BY <2>1, <2>2, FS_EmptySet DEF Summable
      <3>2. SumFunctionOnSet(f, Account) = SumFunctionOnSet(f, {})
        BY <2>2, <3>1, SumZeros
      <3> QED BY <3>1, <3>2, SumBasics
    <2>4. Summable(g, Account)
      BY <2>1, <2>2 DEF Summable
    <2>5. SumFunctionOnSet(g, Account) \in Int
      BY <2>4, SumBasics
    <2>6. Total(frozen, t) = 0 /\ Total(free, t) \in Int
      BY <2>3, <2>5 DEF Total, f, g
    <2> QED BY <1>2, <2>6
  <1> QED BY <1>1, <1>3, <1>4, <1>5, <1>6 DEF OrdersInv

(* Every step keeps it. *)
LEMMA OrdersStep ==
  ASSUME Assumptions, OrdersInv, [Next]_vars
  PROVE  OrdersInv'
  <1>1. CASE OperatorsNext /\ UNCHANGED <<orders, frozen, lastOrder>>
    BY <1>1, OperatorsKeepOrders
  <1>2. ASSUME NEW offer \in Offers, PlaceOrder(offer) PROVE OrdersInv'
    BY <1>2, PlaceKeeps
  <1>3. ASSUME NEW id \in Active, CancelOrder(id) PROVE OrdersInv'
    BY <1>3, CancelKeeps DEF Active
  <1>4. ASSUME NEW buy \in Active, NEW sell \in Active, NEW p \in DealPrices,
               NEW c \in DealCoins, NEW n \in DealAssets,
               Settle([buy |-> buy, sell |-> sell, price |-> p, coin |-> c, asset |-> n])
        PROVE  OrdersInv'
    <2> DEFINE d == [buy |-> buy, sell |-> sell, price |-> p, coin |-> c, asset |-> n]
    <2>1. p \in Nat /\ c \in Nat /\ n \in Nat
      BY DEF Assumptions, DexOrdersAssumption
    <2>2. /\ d.buy \in DOMAIN orders /\ d.sell \in DOMAIN orders
          /\ d.price \in Nat /\ d.coin \in Nat /\ d.asset \in Nat
      BY <2>1 DEF Active
    <2>3. Settle(d)
      BY <1>4
    <2> HIDE DEF d
    <2> QED BY <2>2, <2>3, SettleKeeps
  <1>5. ASSUME NEW x \in Transfers, Transfer(x) PROVE OrdersInv'
    BY <1>5, TransferKeeps
  <1>6. CASE UNCHANGED vars
    <2>1. orders' = orders /\ frozen' = frozen /\ lastOrder' = lastOrder /\ free' = free
          /\ UNCHANGED operatorVars
      BY <1>6 DEF vars
    <2>2. OperatorsInv'
      BY <2>1, OperatorsUnchanged DEF OrdersInv, IsMoney
    <2> QED BY <2>1, <2>2 DEF OrdersInv, IsMoney
  <1> QED BY <1>1, <1>2, <1>3, <1>4, <1>5, <1>6 DEF Next

(* What it says of the properties. *)
LEMMA OrdersInvSays ==
  ASSUME Assumptions, OrdersInv
  PROVE  TypeOK /\ FrozenBacksOrders /\ ExchangeBalances
  <1>1. TypeOK
    BY DEF OrdersInv, OperatorsInv, IsMoney, GoodBook, TypeOK, Active
  <1>2. FrozenBacksOrders
    BY DEF OrdersInv, Backs, FrozenBacksOrders, Claimed, Claims, SumFunction, Active
  <1>3. LimitBuysCovered
    BY DEF OrdersInv, GoodBook, Covered, LimitBuysCovered, Active
  <1>4. MoneyConserved
    <2> SUFFICES ASSUME NEW t \in Token
                 PROVE  SumFunction([a \in Account |-> free[a][t] + frozen[a][t]])
                          = SumFunction([a \in Account |-> InitialFree[a][t]])
      BY DEF MoneyConserved, InWorld
    <2> DEFINE f == [a \in Account |-> free[a][t]]
               g == [a \in Account |-> frozen[a][t]]
               k == [a \in Account |-> free[a][t] + frozen[a][t]]
    <2>1. \A a \in Account : f[a] \in Int /\ g[a] \in Int /\ k[a] = f[a] + g[a]
      BY DEF OrdersInv, IsMoney
    <2>2. Summable(f, Account) /\ Summable(g, Account)
      BY <2>1 DEF Summable, Assumptions, DexOperatorsAssumption
    <2>3. /\ Total(free, t) = SumFunctionOnSet(f, Account)
          /\ Total(frozen, t) = SumFunctionOnSet(g, Account)
          /\ SumFunction(k) = SumFunctionOnSet(k, Account)
          /\ SumFunction([a \in Account |-> InitialFree[a][t]]) = Total(InitialFree, t)
      BY DEF Total, SumFunction
    <2> HIDE DEF f, g, k
    <2>4. SumFunctionOnSet(k, Account) = SumFunctionOnSet(f, Account) + SumFunctionOnSet(g, Account)
      BY <2>1, <2>2, SumPlus
    <2>5. Total(free, t) + Total(frozen, t) = Total(InitialFree, t)
      BY DEF OrdersInv, Balanced
    <2>6. SumFunction(k) = SumFunction([a \in Account |-> InitialFree[a][t]])
      BY <2>3, <2>4, <2>5
    <2> QED BY <2>6 DEF k
  <1> QED BY <1>1, <1>2, <1>3, <1>4 DEF ExchangeBalances, OrdersInv, OperatorsInv

(* What is frozen of an account is exactly what its active orders may still *)
(* spend, through placing, cancelling, deals in parts with their fees and   *)
(* system orders, and transfers (dextx.cpp, dexordertx.cpp, dexoperator).   *)
THEOREM OrdersAreBacked ==
  ASSUME Assumptions
  PROVE  Spec => []FrozenBacksOrders
  <1>1. Init => OrdersInv
    BY OrdersStart
  <1>2. OrdersInv /\ [Next]_vars => OrdersInv'
    BY OrdersStep
  <1>3. OrdersInv => FrozenBacksOrders
    BY OrdersInvSays
  <1> QED BY <1>1, <1>2, <1>3, PTL DEF Spec

(* No step of the exchange makes or loses money, an active order has        *)
(* something to deal, a limit buy dealt in rounded parts never pays more    *)
(* than its limit and can pay for all it has to get, and operators are      *)
(* found by their owners.                                                   *)
THEOREM ExchangeKeepsBalances ==
  ASSUME Assumptions
  PROVE  Spec => [](TypeOK /\ ExchangeBalances)
  <1>1. Init => OrdersInv
    BY OrdersStart
  <1>2. OrdersInv /\ [Next]_vars => OrdersInv'
    BY OrdersStep
  <1>3. OrdersInv => TypeOK /\ ExchangeBalances
    BY OrdersInvSays
  <1> QED BY <1>1, <1>2, <1>3, PTL DEF Spec

-----------------------------------------------------------------------------
(* Proposals of the government: the operators they are built from. *)

(* Setting the parameters in S of s, the last one last. *)
Setting(r, s, g) ==
  g = [S \in SUBSET DOMAIN s |-> IF S = {} THEN r ELSE Updated(g[S \ {Max(S)}], s[Max(S)])]

LEMMA SettingIsFold ==
  ASSUME NEW r, NEW s
  PROVE  FoldLeft(Updated, r, s) = (CHOOSE g : Setting(r, s, g))[DOMAIN s]
  BY DEF FoldLeft, MapThenFoldSet, Setting

(* A proposal of one parameter sets that one. *)
LEMMA OneIsSet ==
  ASSUME NEW r, NEW T, NEW s \in Seq(T), Len(s) = 1
  PROVE  FoldLeft(Updated, r, s) = Updated(r, s[1])
  <1> DEFINE D == SUBSET DOMAIN s
             h == [S \in D |-> IF S = {} THEN r ELSE Updated(r, s[1])]
             k(g) == [S \in D |-> IF S = {} THEN r ELSE Updated(g[S \ {Max(S)}], s[Max(S)])]
  <1>1. DOMAIN s = {1}
    OBVIOUS
  <1>2. Max({1}) = 1
    BY DEF Max
  <1>3. \A g : \A S \in D : k(g)[S] = IF S = {} THEN r ELSE Updated(g[{}], s[1])
    <2> SUFFICES ASSUME NEW g, NEW S \in D, S # {} PROVE Updated(g[S \ {Max(S)}], s[Max(S)]) = Updated(g[{}], s[1])
      OBVIOUS
    <2>1. S = {1}
      BY <1>1
    <2>2. S \ {Max(S)} = {}
      BY <1>2, <2>1
    <2>3. Max(S) = 1
      BY <1>2, <2>1
    <2> QED BY <2>2, <2>3
  <1>4. h[{}] = r
    OBVIOUS
  <1>5. h = k(h)
    <2>1. \A S \in D : h[S] = k(h)[S]
      BY <1>3, <1>4
    <2> QED BY <2>1
  <1>6. Setting(r, s, h)
    BY <1>5 DEF Setting
  <1> DEFINE g == CHOOSE g : Setting(r, s, g)
  <1>7. Setting(r, s, g)
    BY <1>6
  <1> HIDE DEF g
  <1>8. g = k(g)
    BY <1>7 DEF Setting
  <1>9. {} \in D /\ DOMAIN s \in D /\ DOMAIN s # {}
    BY <1>1
  <1>10. g[{}] = r
    BY <1>3, <1>8, <1>9
  <1>11. g[DOMAIN s] = Updated(r, s[1])
    BY <1>3, <1>8, <1>9, <1>10
  <1> QED BY <1>11, SettingIsFold DEF g

-----------------------------------------------------------------------------
(* Proposals of the government: what carrying one out keeps. *)

RatioNames == {"start", "liquidate", "force", "discount"}

EffectsInv ==
  /\ governors \subseteq RegId
  /\ ratios \in [RatioNames -> Nat] /\ Ordered(ratios)
  /\ on \in [Switch -> BOOLEAN]
  /\ supply \in Nat /\ balance \in [RegId -> Nat] /\ SupplyIsHeld

(* What the fields of a proposal are. *)
LEMMA FieldsOf ==
  ASSUME GovernanceAssumption, NEW p \in Proposal
  PROVE  /\ p.kind = "bpmc" => p.regid \in RegId
         /\ p.kind = "cdp" => p.params \in Seq([type : RatioNames, value : Nat])
         /\ p.kind = "switch" => p.name \in Switch
         /\ p.kind \in {"axcin", "axcout", "transfer"} => p.amount \in Nat
         /\ p.kind \in {"axcout", "transfer"} => p.from \in RegId
         /\ p.kind \in {"axcin", "transfer"} => p.to \in RegId
  <1>1. DOMAIN InitialRatios = RatioNames
    BY DEF GovernanceAssumption, RatioNames
  <1> QED BY <1>1 DEF Proposal

(* Ratios of the right names stay so, and are ordered if that was checked. *)
LEMMA RatiosKept ==
  ASSUME GovernanceAssumption, EffectsInv, NEW p \in Proposal, p.kind = "cdp",
         Len(p.params) = 1, Acceptable(p), ChangeRatios(p)
  PROVE  EffectsInv' /\ supply' = supply /\ minted' = minted
  <1>1. p.params \in Seq([type : RatioNames, value : Nat])
    BY FieldsOf
  <1> DEFINE param == p.params[1]
  <1>2. param \in [type : RatioNames, value : Nat] /\ 1 \in DOMAIN p.params
    <2>1. ASSUME NEW T, NEW s \in Seq(T), Len(s) = 1 PROVE s[1] \in T /\ 1 \in DOMAIN s
      <3>1. 1 \in 1..Len(s)
        BY <2>1
      <3> QED BY <3>1, ElementOfSeq
    <2> DEFINE T == [type : RatioNames, value : Nat]
    <2>2. p.params \in Seq(T)
      BY <1>1
    <2> HIDE DEF T
    <2>3. p.params[1] \in T /\ 1 \in DOMAIN p.params
      BY <2>1, <2>2
    <2> QED BY <2>3 DEF T
  <1>3. ratios' = Updated(ratios, param)
    <2>1. ratios' = FoldLeft(Updated, ratios, p.params)
      BY DEF ChangeRatios
    <2> QED BY <1>1, <2>1, OneIsSet
  <1>4. Ordered(Updated(ratios, param))
    <2>1. RatiosMayChange(p)
      BY DEF Acceptable
    <2>2. param \in Range(p.params)
      BY <1>2 DEF Range
    <2> QED BY <2>1, <2>2 DEF RatiosMayChange
  <1>5. Updated(ratios, param) \in [RatioNames -> Nat]
    BY <1>2 DEF Updated, EffectsInv
  <1>6. UNCHANGED <<governors, on, minted, supply, balance>>
    BY DEF ChangeRatios
  <1> QED BY <1>3, <1>4, <1>5, <1>6 DEF EffectsInv, SupplyIsHeld

(* Governors and switches. *)
LEMMA SettingsKept ==
  ASSUME GovernanceAssumption, EffectsInv, NEW p \in Proposal,
         \/ p.kind = "bpmc" /\ ChangeGovernors(p)
         \/ p.kind = "switch" /\ TurnOnOrOff(p)
  PROVE  EffectsInv' /\ supply' = supply /\ minted' = minted
  <1>1. CASE p.kind = "bpmc" /\ ChangeGovernors(p)
    <2>1. p.regid \in RegId
      BY <1>1, FieldsOf
    <2>2. governors' \subseteq RegId
      BY <1>1, <2>1 DEF ChangeGovernors, EffectsInv
    <2> QED BY <1>1, <2>2 DEF ChangeGovernors, EffectsInv, SupplyIsHeld
  <1>2. CASE p.kind = "switch" /\ TurnOnOrOff(p)
    <2>1. p.name \in Switch
      BY <1>2, FieldsOf
    <2>2. on' \in [Switch -> BOOLEAN]
      BY <1>2, <2>1 DEF TurnOnOrOff, EffectsInv
    <2> QED BY <1>2, <2>2 DEF TurnOnOrOff, EffectsInv, SupplyIsHeld
  <1> QED BY <1>1, <1>2

(* What is held is natural, so it has a sum. *)
LEMMA HeldIsSummable ==
  ASSUME GovernanceAssumption, NEW h \in [RegId -> Nat]
  PROVE  Summable(h, RegId)
  BY DEF GovernanceAssumption, Summable

(* A transfer leaves the sum alone, one to oneself too. *)
LEMMA TransferOfCoinsKept ==
  ASSUME GovernanceAssumption, EffectsInv, NEW p \in Proposal, p.kind = "transfer", CoinTransfer(p)
  PROVE  EffectsInv' /\ supply' = supply /\ minted' = minted
  <1>1. p.from \in RegId /\ p.to \in RegId /\ p.amount \in Nat
    BY FieldsOf
  <1> DEFINE paid == [balance EXCEPT ![p.from] = @ - p.amount]
             all == SumFunctionOnSet(balance, RegId)
  <1>2. balance \in [RegId -> Nat] /\ balance[p.from] >= p.amount
        /\ balance' = [paid EXCEPT ![p.to] = @ + p.amount]
    BY DEF EffectsInv, CoinTransfer
  <1>3. /\ paid \in [RegId -> Nat] /\ paid[p.from] = balance[p.from] - p.amount
        /\ \A a \in RegId : a # p.from => paid[a] = balance[a]
    BY <1>1, <1>2
  <1> HIDE DEF paid
  <1>4. /\ balance' \in [RegId -> Nat] /\ balance'[p.to] = paid[p.to] + p.amount
        /\ \A a \in RegId : a # p.to => balance'[a] = paid[a]
    BY <1>1, <1>2, <1>3
  <1>5. Summable(balance, RegId) /\ Summable(paid, RegId) /\ Summable(balance', RegId)
    BY <1>2, <1>3, <1>4, HeldIsSummable
  <1>6. SumFunctionOnSet(paid, RegId) = all - balance[p.from] + paid[p.from]
    BY <1>1, <1>3, <1>5, SumChanges
  <1>7. SumFunctionOnSet(balance', RegId)
          = SumFunctionOnSet(paid, RegId) - paid[p.to] + balance'[p.to]
    BY <1>1, <1>4, <1>5, SumChanges
  <1>8. all \in Int /\ balance[p.from] \in Int /\ paid[p.to] \in Int
    BY <1>1, <1>2, <1>3, <1>5, SumBasics
  <1> HIDE DEF all
  <1>9. SumFunctionOnSet(balance', RegId) = all
    BY <1>1, <1>3, <1>4, <1>6, <1>7, <1>8
  <1>10. UNCHANGED <<governors, ratios, on, minted, supply>>
    BY DEF CoinTransfer
  <1>11. SupplyIsHeld'
    BY <1>9, <1>10 DEF SupplyIsHeld, EffectsInv, all
  <1> QED BY <1>4, <1>10, <1>11 DEF EffectsInv

(* What is swapped out is burnt. *)
LEMMA SwapOutKept ==
  ASSUME GovernanceAssumption, EffectsInv, NEW p \in Proposal, p.kind = "axcout", SwapOut(p)
  PROVE  EffectsInv' /\ supply' = supply - p.amount /\ minted' = minted
  <1>1. p.from \in RegId /\ p.amount \in Nat
    BY FieldsOf
  <1>2. balance \in [RegId -> Nat] /\ balance[p.from] >= p.amount
        /\ balance' = [balance EXCEPT ![p.from] = @ - p.amount]
    BY DEF EffectsInv, SwapOut
  <1>3. /\ balance' \in [RegId -> Nat] /\ balance'[p.from] = balance[p.from] - p.amount
        /\ \A a \in RegId : a # p.from => balance'[a] = balance[a]
    BY <1>1, <1>2
  <1>4. Summable(balance, RegId) /\ Summable(balance', RegId)
    BY <1>2, <1>3, HeldIsSummable
  <1>5. SumFunctionOnSet(balance', RegId)
          = SumFunctionOnSet(balance, RegId) - balance[p.from] + balance'[p.from]
    BY <1>1, <1>3, <1>4, SumChanges
  <1>6. supply \in Nat /\ supply = SumFunctionOnSet(balance, RegId) /\ balance[p.from] \in Nat
    BY <1>1, <1>2 DEF EffectsInv, SupplyIsHeld
  <1>7. SumFunctionOnSet(balance', RegId) = supply - p.amount
    BY <1>1, <1>3, <1>5, <1>6
  <1>8. supply' = supply - p.amount /\ supply >= p.amount
        /\ UNCHANGED <<governors, ratios, on, minted>>
    BY DEF SwapOut
  <1>9. supply' \in Nat
    BY <1>1, <1>6, <1>8
  <1>10. SupplyIsHeld'
    BY <1>7, <1>8 DEF SupplyIsHeld
  <1> QED BY <1>3, <1>8, <1>9, <1>10 DEF EffectsInv

(* What is divided into n shares and three more leaves something over. *)
LEMMA SharesFit ==
  ASSUME NEW x \in Nat, NEW n \in Nat, NEW k \in Nat, k = n + 3
  PROVE  x \div k \in Nat /\ n * (x \div k) \in Nat /\ n * (x \div k) <= x
  <1> DEFINE q == x \div k r == x % k
  <1>1. x = k * q + r /\ r \in 0..(k - 1) /\ q \in Nat
    <2>1. k \in Nat \ {0}
      OBVIOUS
    <2> QED BY <2>1, Division
  <1> HIDE DEF q, r
  <1>2. k * q = n * q + 3 * q
    BY <1>1
  <1>3. n * q \in Nat
    BY <1>1
  <1> DEFINE z == n * q
  <1>4. x = z + 3 * q + r /\ z \in Nat /\ r \in Nat
    BY <1>1, <1>2, <1>3
  <1> HIDE DEF z
  <1>5. z <= x
    BY <1>1, <1>4
  <1> QED BY <1>1, <1>3, <1>5 DEF q, z

FeesOf(amount) == (FeeRatio * amount) \div 1000

ShareOf(amount, n) == FeesOf(amount) \div (n + 3)

SharedOut(amount, n, fees, share) ==
  /\ fees \in 0..amount /\ share \in Nat /\ n * share \in Nat
  /\ GatewayFee(fees, share, n) \in Nat
  /\ n * share + GatewayFee(fees, share, n) + (amount - fees) = amount

(* The fees of a swap in are shared out, and the rest is for the receiver. *)
LEMMA FeesAreShared ==
  ASSUME GovernanceAssumption, NEW amount \in Nat, NEW n \in Nat
  PROVE  SharedOut(amount, n, FeesOf(amount), ShareOf(amount, n))
  <1> DEFINE fees == FeesOf(amount) share == ShareOf(amount, n) k == n + 3
  <1>1. FeeRatio \in Nat /\ FeeRatio <= 1000
    BY DEF GovernanceAssumption
  <1>2. FeeRatio * amount = amount * FeeRatio
    BY <1>1
  <1>3. (amount * FeeRatio) \div 1000 \in 0..amount
    BY <1>1, RatioBound
  <1>4. fees \in 0..amount /\ fees \in Nat
    BY <1>2, <1>3 DEF FeesOf
  <1>5. k \in Nat /\ k = n + 3 /\ share = fees \div k
    BY DEF ShareOf
  <1> HIDE DEF fees, share, k
  <1>6. fees \div k \in Nat /\ n * (fees \div k) \in Nat /\ n * (fees \div k) <= fees
    BY <1>4, <1>5, SharesFit
  <1>7. share \in Nat /\ n * share \in Nat /\ n * share <= fees
    BY <1>5, <1>6
  <1>8. share * n = n * share
    BY <1>7
  <1> DEFINE z == n * share
  <1>9. z \in Nat /\ z <= fees /\ GatewayFee(fees, share, n) = fees - z
    BY <1>7, <1>8 DEF GatewayFee
  <1> HIDE DEF z
  <1>10. fees - z \in Nat /\ z + (fees - z) + (amount - fees) = amount
    BY <1>4, <1>9
  <1>11. SharedOut(amount, n, fees, share)
    BY <1>4, <1>7, <1>9, <1>10 DEF z, SharedOut
  <1> QED BY <1>11 DEF fees, share

(* What approvers, gateway and receiver get is what is minted. *)
LEMMA SwapInKept ==
  ASSUME GovernanceAssumption, EffectsInv, NEW p \in Proposal, p.kind = "axcin",
         NEW given \in Seq(RegId), IsInjective(given), SwapIn(p, given)
  PROVE  EffectsInv' /\ supply' = supply + p.amount /\ minted' = minted \cup {p.tx}
  <1> DEFINE fees  == (FeeRatio * p.amount) \div 1000
             n     == Len(given)
             share == fees \div (n + 3)
             rest  == p.amount - fees
             gate  == GatewayFee(fees, share, n)
             R     == Range(given)
             f     == [a \in RegId |-> IF a \in R THEN share ELSE 0]
             g     == [a \in RegId |-> IF a = Gateway THEN gate ELSE 0]
             h     == [a \in RegId |-> IF a = p.to THEN rest ELSE 0]
             fg    == [a \in RegId |-> f[a] + g[a]]
             fgh   == [a \in RegId |-> fg[a] + h[a]]
             Sm(x) == SumFunctionOnSet(x, RegId)
  <1>1. p.to \in RegId /\ p.amount \in Nat
    BY FieldsOf
  <1>2. n \in Nat /\ R \in SUBSET RegId /\ IsFiniteSet(R) /\ Cardinality(R) = n
    <2>1. R \in SUBSET RegId
      BY DEF Range
    <2> QED BY <2>1, ElementsAreCounted
  <1>3. /\ fees \in 0..p.amount /\ share \in Nat /\ n * share \in Nat
        /\ gate \in Nat /\ n * share + gate + rest = p.amount
    <2>1. fees = FeesOf(p.amount) /\ share = ShareOf(p.amount, n)
          /\ rest = p.amount - fees /\ gate = GatewayFee(fees, share, n)
      BY DEF FeesOf, ShareOf
    <2> HIDE DEF fees, share, rest, gate, n
    <2>2. SharedOut(p.amount, n, fees, share)
      BY <1>1, <1>2, <2>1, FeesAreShared
    <2> QED BY <2>1, <2>2 DEF SharedOut
  <1>4. /\ balance' = [a \in RegId |-> balance[a] + ((IF a \in R THEN share ELSE 0)
                                          + (IF a = Gateway THEN gate ELSE 0)
                                          + (IF a = p.to THEN rest ELSE 0))]
        /\ minted' = minted \cup {p.tx} /\ supply' = supply + p.amount
        /\ UNCHANGED <<governors, ratios, on>>
    BY DEF SwapIn
  <1>5. rest \in Nat
    <2> HIDE DEF fees
    <2> QED BY <1>1, <1>3
  <1> HIDE DEF fees, n, share, rest, gate, R
  <1>6. /\ f \in [RegId -> Nat] /\ g \in [RegId -> Nat] /\ h \in [RegId -> Nat]
        /\ \A a \in RegId : f[a] \in Nat /\ g[a] \in Nat /\ h[a] \in Nat
    BY <1>3, <1>5
  <1>7. fg \in [RegId -> Nat] /\ \A a \in RegId : fg[a] = f[a] + g[a] /\ fg[a] \in Nat
    <2> HIDE DEF f, g
    <2> QED BY <1>6
  <1>8. fgh \in [RegId -> Nat] /\ \A a \in RegId : fgh[a] = fg[a] + h[a] /\ fgh[a] \in Nat
    <2> HIDE DEF fg, h
    <2> QED BY <1>6, <1>7
  <1>9. balance \in [RegId -> Nat] /\ supply \in Nat /\ supply = Sm(balance)
    BY DEF EffectsInv, SupplyIsHeld
  <1>10. balance' \in [RegId -> Nat] /\ \A a \in RegId : balance'[a] = balance[a] + fgh[a]
    <2>1. ASSUME NEW a \in RegId
          PROVE  balance'[a] = balance[a] + fgh[a]
      BY <1>4
    <2>2. ASSUME NEW a \in RegId PROVE balance'[a] \in Nat
      <3> HIDE DEF fgh
      <3> QED BY <1>8, <1>9, <2>1
    <2>3. balance' = [a \in RegId |-> balance'[a]]
      BY <1>4
    <2> HIDE DEF fgh
    <2> QED BY <2>1, <2>2, <2>3
  <1>11. /\ Summable(f, RegId) /\ Summable(g, RegId) /\ Summable(h, RegId)
         /\ Summable(fg, RegId) /\ Summable(fgh, RegId)
         /\ Summable(balance, RegId) /\ Summable(balance', RegId)
    <2> HIDE DEF f, g, h, fg, fgh
    <2> QED BY <1>6, <1>7, <1>8, <1>9, <1>10, HeldIsSummable
  <1>12. Sm(f) = n * share
    <2>1. \A a \in RegId \ R : f[a] = 0
      OBVIOUS
    <2>2. \A a \in R : f[a] = share
      BY <1>2
    <2> HIDE DEF f
    <2>3. Sm(f) = SumFunctionOnSet(f, R)
      BY <1>2, <1>11, <2>1, SumZeros
    <2>4. SumFunctionOnSet(f, R) = Cardinality(R) * share
      BY <1>2, <1>3, <2>2, SumConstant
    <2> QED BY <1>2, <2>3, <2>4
  <1>13. Sm(g) = gate
    <2>1. Gateway \in RegId
      BY DEF GovernanceAssumption
    <2>2. g[Gateway] = gate /\ \A a \in RegId : a # Gateway => g[a] = 0
      BY <2>1
    <2> HIDE DEF g
    <2> QED BY <1>11, <2>1, <2>2, SumOnlyOne
  <1>14. Sm(h) = rest
    <2>1. h[p.to] = rest /\ \A a \in RegId : a # p.to => h[a] = 0
      BY <1>1
    <2> HIDE DEF h
    <2> QED BY <1>1, <1>11, <2>1, SumOnlyOne
  <1> HIDE DEF f, g, h, fg, fgh
  <1>15. Sm(fg) = Sm(f) + Sm(g)
    BY <1>7, <1>11, SumPlus
  <1>16. Sm(fgh) = Sm(fg) + Sm(h)
    BY <1>8, <1>11, SumPlus
  <1>17. Sm(balance') = Sm(balance) + Sm(fgh)
    BY <1>10, <1>11, SumPlus
  <1>18. Sm(balance') = supply + p.amount
    BY <1>3, <1>9, <1>12, <1>13, <1>14, <1>15, <1>16, <1>17
  <1>19. SupplyIsHeld'
    BY <1>4, <1>18 DEF SupplyIsHeld
  <1>20. supply' \in Nat
    BY <1>1, <1>4, <1>9
  <1> QED BY <1>4, <1>10, <1>19, <1>20 DEF EffectsInv

(* What an executed proposal adds to the supply. *)
Effect(p) ==
  IF p.kind = "axcin" THEN p.amount ELSE IF p.kind = "axcout" THEN -p.amount ELSE 0

Adds(p) ==
  /\ supply' = supply + Effect(p)
  /\ p.kind # "axcin" => minted' = minted
  /\ p.kind = "axcin" => p.tx \notin minted /\ minted' = minted \cup {p.tx}

(* Carrying out any proposal that is still acceptable. *)
LEMMA ExecutionKeeps ==
  ASSUME GovernanceAssumption, EffectsInv, NEW p \in Proposal, p.kind = "cdp" => Len(p.params) = 1,
         NEW given \in Seq(RegId), IsInjective(given),
         StillAcceptable(p), ExecuteProposal(p, given)
  PROVE  EffectsInv' /\ Adds(p)
  <1>1. Acceptable(p)
    BY DEF StillAcceptable
  <1>2. supply \in Nat
    BY DEF EffectsInv
  <1>3. CASE \/ p.kind = "bpmc" /\ ChangeGovernors(p)
             \/ p.kind = "switch" /\ TurnOnOrOff(p)
    BY <1>2, <1>3, SettingsKept DEF Effect, Adds
  <1>4. CASE p.kind = "cdp" /\ ChangeRatios(p)
    BY <1>1, <1>2, <1>4, RatiosKept DEF Effect, Adds
  <1>5. CASE p.kind = "transfer" /\ CoinTransfer(p)
    BY <1>2, <1>5, TransferOfCoinsKept DEF Effect, Adds
  <1>6. CASE p.kind = "axcin" /\ SwapIn(p, given)
    <2>1. p.tx \notin minted
      BY <1>1, <1>6 DEF Acceptable, MaySwapIn, IsMinted
    <2> QED BY <1>6, <2>1, SwapInKept DEF Effect, Adds
  <1>7. CASE p.kind = "axcout" /\ SwapOut(p)
    <2>1. supply' = supply - p.amount /\ p.amount \in Nat
      BY <1>7, SwapOutKept, FieldsOf
    <2>2. supply - p.amount = supply + (-p.amount)
      BY <1>2, <2>1
    <2> QED BY <1>7, <2>1, <2>2, SwapOutKept DEF Effect, Adds
  <1>8. \/ p.kind = "bpmc" /\ ChangeGovernors(p)
        \/ p.kind = "cdp" /\ ChangeRatios(p)
        \/ p.kind = "transfer" /\ CoinTransfer(p)
        \/ p.kind = "switch" /\ TurnOnOrOff(p)
        \/ p.kind = "axcin" /\ SwapIn(p, given)
        \/ p.kind = "axcout" /\ SwapOut(p)
    BY DEF ExecuteProposal
  <1> QED BY <1>3, <1>4, <1>5, <1>6, <1>7, <1>8

-----------------------------------------------------------------------------
(* Proposals of the government: the invariant of all that are stored. *)

Entry == [what : Proposal, expiry : Nat, needed : Nat, signatures : Nat]

(* A stored proposal and its approvals: each is given once, none is given   *)
(* after the last that is needed, and each has its signature.               *)
EntryKept(e, given) ==
  /\ e \in Entry /\ (e.what.kind = "cdp" => Len(e.what.params) = 1)
  /\ e.needed \in 1 .. Cardinality(RegId)
  /\ given \in Seq(RegId) /\ IsInjective(given) /\ Len(given) <= e.needed
  /\ e.what.kind = "axcout" => e.signatures = Len(given)

(* What a proposal has added to the supply: nothing until it is executed. *)
Flow(e, given) == IF Len(given) >= e.needed THEN Effect(e.what) ELSE 0

Flows(ps, as) == [id \in DOMAIN ps |-> Flow(ps[id], as[id])]

Stored(ps, as) ==
  /\ DOMAIN ps \subseteq ProposalId /\ IsFiniteSet(DOMAIN ps) /\ DOMAIN as = DOMAIN ps
  /\ \A id \in DOMAIN ps : EntryKept(ps[id], as[id])

(* Who has been minted for is on record, and there once. *)
MintsOnRecord == \A id \in Executed \cap SwapIns : proposals[id].what.tx \in minted

GovernanceInv ==
  /\ EffectsInv
  /\ delegates \in Range(Elections) /\ height \in 0 .. MaxHeight
  /\ Stored(proposals, approvals)
  /\ supply = SumFunctionOnSet(Flows(proposals, approvals), DOMAIN proposals)
  /\ MintsOnRecord /\ MintedOnce

(* The number of approvals needed. *)
LEMMA SomeAreNeeded ==
  ASSUME GovernanceAssumption, governors \subseteq RegId, delegates \in Range(Elections), NEW kind
  PROVE  ApprovalMinCount(kind) \in 1 .. Cardinality(RegId) /\ Cardinality(RegId) \in Nat
  <1> DEFINE V == Voters(kind) n == Cardinality(V)
  <1>1. delegates \in SUBSET RegId /\ delegates # {}
    <2> DEFINE T == (SUBSET RegId) \ {{}}
    <2>1. PICK i \in DOMAIN Elections : delegates = Elections[i]
      BY DEF Range
    <2>2. Elections \in Seq(T)
      BY DEF GovernanceAssumption
    <2> HIDE DEF T
    <2>3. Elections[i] \in T
      <3>1. i \in 1 .. Len(Elections)
        BY <2>2
      <3> QED BY <2>2, <3>1, ElementOfSeq
    <2>4. delegates \in T
      BY <2>1, <2>3
    <2>5. \A x \in T : x \in SUBSET RegId /\ x # {}
      BY Zenon DEF T
    <2> QED BY <2>4, <2>5
  <1>2. Governors \in SUBSET RegId /\ Governors # {}
    BY DEF GovernanceAssumption, Governors
  <1>3. V \in SUBSET RegId /\ V # {}
    BY <1>1, <1>2 DEF Voters
  <1> HIDE DEF V
  <1>4. IsFiniteSet(RegId)
    BY DEF GovernanceAssumption
  <1>5. /\ IsFiniteSet(V) /\ n <= Cardinality(RegId)
        /\ n \in Nat /\ Cardinality(RegId) \in Nat
    BY <1>3, <1>4, FS_Subset, FS_CardinalityType
  <1>6. n # 0
    BY <1>3, <1>5, FS_EmptySet
  <1>7. ApprovalMinCount(kind) = n - n \div 3
    BY DEF ApprovalMinCount, V
  <1> HIDE DEF n
  <1>8. n - n \div 3 \in 1 .. n
    BY <1>5, <1>6
  <1> QED BY <1>5, <1>7, <1>8

(* What a proposal adds is an integer. *)
LEMMA FlowIsInt ==
  ASSUME GovernanceAssumption, NEW e, NEW given, EntryKept(e, given)
  PROVE  Effect(e.what) \in Int /\ Flow(e, given) \in Int /\ e.what \in Proposal
  <1>1. e.what \in Proposal
    BY DEF EntryKept, Entry
  <1>2. e.what.kind \in {"axcin", "axcout"} => e.what.amount \in Nat
    BY <1>1, FieldsOf
  <1>3. Effect(e.what) \in Int
    BY <1>2 DEF Effect
  <1> QED BY <1>1, <1>3 DEF Flow

LEMMA FlowsAreSummable ==
  ASSUME GovernanceAssumption, NEW ps, NEW as, Stored(ps, as)
  PROVE  Summable(Flows(ps, as), DOMAIN ps)
  BY FlowIsInt DEF Stored, Flows, Summable

(* A request adds an entry nobody has approved; it adds nothing. *)
LEMMA RequestKeeps ==
  ASSUME GovernanceAssumption, SingleRatios, GovernanceInv,
         NEW author \in RegId, NEW id \in ProposalId, NEW input \in Inputs,
         Request(author, id, input)
  PROVE  GovernanceInv'
  <1> DEFINE p == IF input.kind = "axcout" THEN [input EXCEPT !.from = author] ELSE input
             e == [what |-> p, expiry |-> height + ExpireBlocks,
                   needed |-> ApprovalMinCount(p.kind), signatures |-> 0]
             D == DOMAIN proposals
  <1>1. p \in Proposal /\ (p.kind = "cdp" => Len(p.params) = 1)
    <2>1. input \in Proposal
      BY DEF GovernanceAssumption
    <2>2. CASE input.kind = "axcout"
      <3>1. input \in [kind : {"axcout"}, from : RegId, amount : Nat]
        BY <2>1, <2>2 DEF Proposal
      <3>2. p \in [kind : {"axcout"}, from : RegId, amount : Nat]
        BY <2>2, <3>1
      <3>3. p.kind = "axcout"
        BY <3>2
      <3> HIDE DEF p
      <3> QED BY <3>2, <3>3 DEF Proposal
    <2>3. CASE input.kind # "axcout"
      BY <2>1, <2>3 DEF SingleRatios
    <2> QED BY <2>2, <2>3
  <1>2. /\ id \notin D /\ UNCHANGED <<effects, delegates, height>>
        /\ proposals' = [i \in D \cup {id} |-> IF i # id THEN proposals[i] ELSE e]
        /\ approvals' = [i \in DOMAIN proposals' |-> IF i = id THEN <<>> ELSE approvals[i]]
    BY DEF Request
  <1>3. /\ Stored(proposals, approvals) /\ EffectsInv /\ height \in 0 .. MaxHeight
        /\ delegates \in Range(Elections) /\ governors \subseteq RegId
    BY DEF GovernanceInv, EffectsInv
  <1>4. e.needed \in 1 .. Cardinality(RegId) /\ Cardinality(RegId) \in Nat
    <2> HIDE DEF p
    <2> QED BY <1>3, SomeAreNeeded
  <1>5. e \in Entry /\ e.what = p
    <2>1. height + ExpireBlocks \in Nat
      BY <1>3 DEF GovernanceAssumption
    <2> HIDE DEF p
    <2> QED BY <1>1, <1>4, <2>1 DEF Entry
  <1>6. EntryKept(e, <<>>) /\ Flow(e, <<>>) = 0
    <2>1. <<>> \in Seq(RegId) /\ IsInjective(<<>>) /\ Len(<<>>) = 0
      BY DEF IsInjective
    <2>2. e.signatures = 0
      OBVIOUS
    <2> HIDE DEF e, p
    <2>3. Len(<<>>) <= e.needed /\ ~(Len(<<>>) >= e.needed)
      BY <1>4, <2>1
    <2> QED BY <1>1, <1>4, <1>5, <2>1, <2>2, <2>3 DEF EntryKept, Flow
  <1> HIDE DEF e, p
  <1>7. /\ DOMAIN proposals' = D \cup {id} /\ DOMAIN approvals' = D \cup {id}
        /\ proposals'[id] = e /\ approvals'[id] = <<>>
        /\ \A i \in D : proposals'[i] = proposals[i] /\ approvals'[i] = approvals[i]
    BY <1>2
  <1>8. Stored(proposals', approvals')
    <2>1. IsFiniteSet(D \cup {id}) /\ D \cup {id} \subseteq ProposalId
      BY <1>3, FS_AddElement DEF Stored
    <2>2. \A i \in D \cup {id} : EntryKept(proposals'[i], approvals'[i])
      BY <1>3, <1>6, <1>7 DEF Stored
    <2> QED BY <1>7, <2>1, <2>2 DEF Stored
  <1>9. supply' = SumFunctionOnSet(Flows(proposals', approvals'), DOMAIN proposals')
    <2> DEFINE F == Flows(proposals, approvals) G == Flows(proposals', approvals')
    <2>1. \A i \in D : G[i] = F[i]
      BY <1>7 DEF Flows
    <2>2. G[id] = 0
      BY <1>6, <1>7 DEF Flows
    <2>3. Summable(G, D \cup {id}) /\ IsFiniteSet(D)
      BY <1>3, <1>7, <1>8, FlowsAreSummable DEF Stored
    <2>4. supply = SumFunctionOnSet(F, D) /\ supply' = supply
      BY <1>2 DEF GovernanceInv, effects
    <2> HIDE DEF F, G, D
    <2>5. SumFunctionOnSet(G, D \cup {id}) = SumFunctionOnSet(G, D) + G[id]
          /\ SumFunctionOnSet(G, D) \in Int
      BY <1>2, <2>3, SumMore
    <2>6. SumFunctionOnSet(F, D) = SumFunctionOnSet(G, D)
      BY <2>1, <2>3, SumSame
    <2> QED BY <1>7, <2>2, <2>4, <2>5, <2>6 DEF G
  <1>10. Executed' \cap SwapIns' = Executed \cap SwapIns /\ Executed \cap SwapIns \subseteq D
    <2>1. id \notin Executed'
      BY <1>4, <1>7 DEF Executed
    <2>2. \A i \in D : (i \in Executed' <=> i \in Executed) /\ (i \in SwapIns' <=> i \in SwapIns)
      BY <1>7 DEF Executed, SwapIns
    <2>3. Executed' \subseteq D \cup {id} /\ Executed \subseteq D
      BY <1>7 DEF Executed
    <2> QED BY <2>1, <2>2, <2>3
  <1>11. MintsOnRecord' /\ MintedOnce'
    <2>1. MintsOnRecord /\ MintedOnce /\ minted' = minted
      BY <1>2 DEF GovernanceInv, effects
    <2> QED BY <1>7, <1>10, <2>1 DEF MintsOnRecord, MintedOnce
  <1>12. EffectsInv'
    BY <1>2, <1>3 DEF EffectsInv, SupplyIsHeld, effects
  <1> QED BY <1>2, <1>3, <1>8, <1>9, <1>11, <1>12 DEF GovernanceInv

(* Without the last element nothing was repeated, and with a new one        *)
(* nothing is.                                                              *)
LEMMA OneMoreGiven ==
  ASSUME NEW S, NEW s \in Seq(S), IsInjective(s), NEW x \in S, x \notin Range(s)
  PROVE  /\ Append(s, x) \in Seq(S) /\ IsInjective(Append(s, x))
         /\ Len(Append(s, x)) = Len(s) + 1 /\ Len(s) \in Nat
  <1> DEFINE t == Append(s, x)
  <1>1. t \in Seq(S) /\ Len(t) = Len(s) + 1 /\ Len(s) \in Nat
    OBVIOUS
  <1>2. DOMAIN t = 1 .. (Len(s) + 1) /\ DOMAIN s = 1 .. Len(s)
    OBVIOUS
  <1>3. t[Len(s) + 1] = x /\ \A i \in DOMAIN s : t[i] = s[i]
    OBVIOUS
  <1> HIDE DEF t
  <1>4. \A i \in DOMAIN s : s[i] # x
    BY DEF Range
  <1>5. IsInjective(t)
    <2> SUFFICES ASSUME NEW i \in DOMAIN t, NEW j \in DOMAIN t, t[i] = t[j] PROVE i = j
      BY DEF IsInjective
    <2>1. i \in DOMAIN s \/ i = Len(s) + 1
      BY <1>1, <1>2
    <2>2. j \in DOMAIN s \/ j = Len(s) + 1
      BY <1>1, <1>2
    <2> QED BY <1>3, <1>4, <2>1, <2>2 DEF IsInjective
  <1> QED BY <1>1, <1>5 DEF t

(* What an approval leaves of the entries: one is approved once more, and   *)
(* its signatures are counted.                                              *)
ApprovedOnce(id, e, given) ==
  /\ DOMAIN proposals' = DOMAIN proposals /\ DOMAIN approvals' = DOMAIN approvals
  /\ proposals'[id] = e /\ approvals'[id] = given
  /\ \A i \in DOMAIN proposals : i # id => /\ proposals'[i] = proposals[i]
                                           /\ approvals'[i] = approvals[i]
  /\ e.what = proposals[id].what /\ e.needed = proposals[id].needed

LEMMA ApprovalKeepsEntries ==
  ASSUME GovernanceAssumption, Stored(proposals, approvals),
         NEW voter \in RegId, NEW id \in DOMAIN proposals, Approve(voter, id)
  PROVE  \E e : /\ ApprovedOnce(id, e, Append(approvals[id], voter))
                /\ EntryKept(e, Append(approvals[id], voter))
                /\ Len(Append(approvals[id], voter)) = Len(approvals[id]) + 1
                /\ Len(approvals[id]) \in Nat /\ Len(approvals[id]) < e.needed /\ e.needed \in Nat
  <1> DEFINE old == proposals[id] n == Len(approvals[id])
             e == IF old.what.kind = "axcout" THEN [old EXCEPT !.signatures = @ + 1] ELSE old
             given == Append(approvals[id], voter)
  <1>1. EntryKept(old, approvals[id])
    BY DEF Stored
  <1>2. given \in Seq(RegId) /\ IsInjective(given) /\ Len(given) = n + 1 /\ n \in Nat
    <2>1. voter \notin Range(approvals[id])
      BY DEF Approve, HasApproved
    <2>2. approvals[id] \in Seq(RegId) /\ IsInjective(approvals[id])
      BY <1>1 DEF EntryKept
    <2> QED BY <2>1, <2>2, OneMoreGiven
  <1>3. /\ n < old.needed /\ approvals' = [approvals EXCEPT ![id] = given]
        /\ proposals' = IF old.what.kind = "axcout"
                        THEN [proposals EXCEPT ![id].signatures = @ + 1] ELSE proposals
    BY DEF Approve
  <1>4. old \in Entry
    BY <1>1 DEF EntryKept
  <1>5. /\ e \in Entry /\ e.what = old.what /\ e.needed = old.needed
        /\ old.what.kind = "axcout" => e.signatures = old.signatures + 1
    <2>1. CASE old.what.kind = "axcout"
      BY <1>4, <2>1 DEF Entry
    <2>2. CASE old.what.kind # "axcout"
      BY <1>4, <2>2
    <2> QED BY <2>1, <2>2
  <1>6. DOMAIN proposals' = DOMAIN proposals /\ proposals'[id] = e
        /\ \A i \in DOMAIN proposals : i # id => proposals'[i] = proposals[i]
    BY <1>3
  <1>7. id \in DOMAIN approvals /\ DOMAIN approvals = DOMAIN proposals
    BY DEF Stored
  <1> HIDE DEF e, old
  <1>8. DOMAIN approvals' = DOMAIN approvals /\ approvals'[id] = given
        /\ \A i \in DOMAIN proposals : i # id => approvals'[i] = approvals[i]
    BY <1>3, <1>7
  <1>9. ApprovedOnce(id, e, given)
    BY <1>5, <1>6, <1>8 DEF ApprovedOnce, old
  <1>10. EntryKept(e, given)
    <2>1. /\ old.needed \in 1 .. Cardinality(RegId)
          /\ old.what.kind = "axcout" => old.signatures = n
          /\ old.what.kind = "cdp" => Len(old.what.params) = 1
      BY <1>1 DEF EntryKept
    <2> HIDE DEF given, n
    <2>2. Len(given) <= e.needed
      BY <1>2, <1>3, <1>5, <2>1
    <2> QED BY <1>2, <1>5, <2>1, <2>2 DEF EntryKept
  <1>11. n < e.needed /\ e.needed \in Nat
    BY <1>3, <1>5 DEF Entry
  <1> QED BY <1>2, <1>9, <1>10, <1>11

(* The approval that completes the number carries the proposal out, and     *)
(* only then something is added.                                            *)
LEMMA ApproveKeeps ==
  ASSUME GovernanceAssumption, GovernanceInv,
         NEW voter \in RegId, NEW id \in DOMAIN proposals, Approve(voter, id)
  PROVE  GovernanceInv'
  <1> DEFINE given == Append(approvals[id], voter) p == proposals[id].what
             D == DOMAIN proposals
  <1>1. Stored(proposals, approvals) /\ EffectsInv /\ MintsOnRecord /\ MintedOnce
        /\ supply = SumFunctionOnSet(Flows(proposals, approvals), D)
    BY DEF GovernanceInv
  <1>2. PICK e : /\ ApprovedOnce(id, e, given) /\ EntryKept(e, given)
                 /\ Len(given) = Len(approvals[id]) + 1
                 /\ Len(approvals[id]) \in Nat /\ Len(approvals[id]) < e.needed /\ e.needed \in Nat
    BY <1>1, ApprovalKeepsEntries
  <1>3. e.what = p /\ e.needed = proposals[id].needed
    BY <1>2 DEF ApprovedOnce
  <1>4. p \in Proposal /\ (p.kind = "cdp" => Len(p.params) = 1)
        /\ given \in Seq(RegId) /\ IsInjective(given)
    BY <1>2, <1>3 DEF EntryKept, Entry
  <1>5. Stored(proposals', approvals')
    <2>1. \A i \in D : EntryKept(proposals'[i], approvals'[i])
      BY <1>1, <1>2 DEF Stored, ApprovedOnce
    <2> QED BY <1>1, <1>2, <2>1 DEF Stored, ApprovedOnce
  <1>6. UNCHANGED <<delegates, height>>
    BY DEF Approve
  <1> DEFINE F == Flows(proposals, approvals) G == Flows(proposals', approvals')
             done == Len(given) = e.needed
  <1>7. F[id] = 0 /\ G[id] = (IF done THEN Effect(p) ELSE 0)
    <2>1. F[id] = 0
      BY <1>2, <1>3 DEF Flows, Flow
    <2>2. G[id] = Flow(e, given)
      BY <1>2 DEF Flows, ApprovedOnce
    <2>3. Len(given) >= e.needed <=> done
      <3> HIDE DEF given
      <3> QED BY <1>2
    <2> QED BY <1>3, <2>1, <2>2, <2>3 DEF Flow
  <1>8. SumFunctionOnSet(G, D) = SumFunctionOnSet(F, D) + G[id]
    <2>1. Summable(F, D) /\ Summable(G, D)
      <3>1. DOMAIN proposals' = D
        BY <1>2 DEF ApprovedOnce
      <3> QED BY <1>1, <1>5, <3>1, FlowsAreSummable
    <2>2. \A i \in D : i # id => G[i] = F[i]
      BY <1>2 DEF ApprovedOnce, Flows
    <2>3. id \in D
      OBVIOUS
    <2> HIDE DEF F, G, D
    <2>4. SumFunctionOnSet(G, D) = SumFunctionOnSet(F, D) - F[id] + G[id]
      BY <2>1, <2>2, <2>3, SumChanges
    <2>5. SumFunctionOnSet(F, D) \in Int
      BY <2>1, SumBasics
    <2> QED BY <1>7, <2>4, <2>5
  <1>9. /\ Executed' = IF done THEN Executed \cup {id} ELSE Executed
        /\ SwapIns' = SwapIns /\ Executed \subseteq D /\ id \notin Executed
        /\ \A i \in D : proposals'[i].what = proposals[i].what
    <2>1. id \notin Executed
      BY <1>2, <1>3 DEF Executed
    <2>2. \A i \in D : i # id => (i \in Executed' <=> i \in Executed)
      BY <1>2 DEF Executed, ApprovedOnce
    <2>3. id \in Executed' <=> done
      <3>1. id \in Executed' <=> Len(given) >= e.needed
        BY <1>2 DEF Executed, ApprovedOnce
      <3> HIDE DEF given
      <3> QED BY <1>2, <3>1
    <2>4. \A i \in D : proposals'[i].what = proposals[i].what
      BY <1>2 DEF ApprovedOnce
    <2>5. Executed' \subseteq D /\ Executed \subseteq D
      BY <1>2 DEF Executed, ApprovedOnce
    <2>6. SwapIns' = SwapIns
      BY <1>2, <2>4 DEF SwapIns, ApprovedOnce
    <2> HIDE DEF done
    <2> QED BY <2>1, <2>2, <2>3, <2>4, <2>5, <2>6
  <1>10. DOMAIN proposals' = D
    BY <1>2 DEF ApprovedOnce
  <1>11. supply \in Nat
    BY <1>1 DEF EffectsInv
  <1>12. CASE done
    <2>1. StillAcceptable(p) /\ ExecuteProposal(p, given)
      BY <1>3, <1>12 DEF Approve, Completes
    <2>2. EffectsInv' /\ Adds(p)
      BY <1>1, <1>4, <2>1, ExecutionKeeps
    <2>3. supply' = SumFunctionOnSet(G, D)
      <3>1. supply' = supply + Effect(p)
        BY <2>2 DEF Adds
      <3> QED BY <1>1, <1>7, <1>8, <1>12, <3>1
    <2>4. MintsOnRecord' /\ MintedOnce'
      <3>1. Executed' = Executed \cup {id}
        BY <1>9, <1>12
      <3>2. CASE p.kind = "axcin"
        <4>1. p.tx \notin minted /\ minted' = minted \cup {p.tx}
          BY <2>2, <3>2 DEF Adds
        <4>2. id \in SwapIns /\ SwapIns \subseteq D
          BY <3>2 DEF SwapIns
        <4>3. \A i \in Executed' \cap SwapIns' : i = id \/ i \in Executed \cap SwapIns
          BY <1>9, <3>1
        <4>4. \A i \in Executed \cap SwapIns :
                proposals[i].what.tx \in minted /\ proposals[i].what.tx # p.tx
          BY <1>1, <4>1 DEF MintsOnRecord
        <4>5. \A i \in Executed' \cap SwapIns' : proposals'[i].what.tx = proposals[i].what.tx
          BY <1>9, <4>2
        <4>6. MintsOnRecord'
          BY <4>1, <4>3, <4>4, <4>5 DEF MintsOnRecord
        <4>7. MintedOnce'
          BY <1>1, <4>3, <4>4, <4>5 DEF MintedOnce
        <4> QED BY <4>6, <4>7
      <3>3. CASE p.kind # "axcin"
        <4>1. minted' = minted
          BY <2>2, <3>3 DEF Adds
        <4>2. id \notin SwapIns
          BY <3>3 DEF SwapIns
        <4>3. Executed' \cap SwapIns' = Executed \cap SwapIns
          BY <1>9, <3>1, <4>2
        <4> QED BY <1>1, <1>9, <4>1, <4>3 DEF MintsOnRecord, MintedOnce
      <3> QED BY <3>2, <3>3
    <2> QED BY <1>5, <1>6, <1>10, <2>2, <2>3, <2>4 DEF GovernanceInv
  <1>13. CASE ~done
    <2>1. UNCHANGED effects
      BY <1>3, <1>13 DEF Approve, Completes
    <2>2. EffectsInv' /\ supply' = supply /\ minted' = minted
      BY <1>1, <2>1 DEF EffectsInv, SupplyIsHeld, effects
    <2>3. supply' = SumFunctionOnSet(G, D)
      BY <1>1, <1>7, <1>8, <1>11, <1>13, <2>2
    <2>4. Executed' = Executed
      BY <1>9, <1>13
    <2>5. MintsOnRecord' /\ MintedOnce'
      BY <1>1, <1>9, <2>2, <2>4 DEF MintsOnRecord, MintedOnce
    <2> QED BY <1>5, <1>6, <1>10, <2>2, <2>3, <2>5 DEF GovernanceInv
  <1> QED BY <1>12, <1>13

(* Every step on proposals keeps the invariant. *)
LEMMA GovernanceStep ==
  ASSUME GovernanceAssumption, SingleRatios, GovernanceInv, [GovernanceNext]_governanceVars
  PROVE  GovernanceInv'
  <1>1. ASSUME NEW author \in RegId, NEW id \in ProposalId, NEW input \in Inputs,
               Request(author, id, input)
        PROVE  GovernanceInv'
    BY <1>1, RequestKeeps
  <1>2. ASSUME NEW voter \in RegId, NEW id \in DOMAIN proposals, Approve(voter, id)
        PROVE  GovernanceInv'
    BY <1>2, ApproveKeeps
  <1>3. ASSUME UNCHANGED <<effects, proposals, approvals>>,
               delegates' \in Range(Elections), height' \in 0 .. MaxHeight
        PROVE  GovernanceInv'
    <2>1. UNCHANGED <<governors, ratios, on, minted, supply, balance>>
      BY <1>3 DEF effects
    <2>2. EffectsInv'
      BY <2>1 DEF GovernanceInv, EffectsInv, SupplyIsHeld
    <2>3. proposals' = proposals /\ approvals' = approvals /\ minted' = minted /\ supply' = supply
      BY <1>3, <2>1
    <2>4. Executed' = Executed /\ SwapIns' = SwapIns
      BY <2>3 DEF Executed, SwapIns
    <2>5. MintsOnRecord' /\ MintedOnce'
      BY <2>3, <2>4 DEF GovernanceInv, MintsOnRecord, MintedOnce
    <2> QED BY <1>3, <2>2, <2>3, <2>5 DEF GovernanceInv
  <1>4. CASE NextBlock /\ (Elect \/ UNCHANGED <<effects, delegates, proposals, approvals>>)
    <2>1. height' \in 0 .. MaxHeight
      BY <1>4 DEF NextBlock, GovernanceInv, GovernanceAssumption
    <2>2. delegates' \in Range(Elections) /\ UNCHANGED <<effects, proposals, approvals>>
      BY <1>4 DEF Elect, GovernanceInv
    <2> QED BY <1>3, <2>1, <2>2
  <1>5. CASE UNCHANGED governanceVars
    <2>1. UNCHANGED <<effects, proposals, approvals>> /\ delegates' = delegates /\ height' = height
      BY <1>5 DEF governanceVars
    <2> QED BY <1>3, <2>1 DEF GovernanceInv
  <1> QED BY <1>1, <1>2, <1>4, <1>5 DEF GovernanceNext

(* Nothing is stored at first, and nobody holds anything. *)
LEMMA GovernanceStart ==
  ASSUME GovernanceAssumption, GovernanceInit
  PROVE  GovernanceInv
  <1>1. DOMAIN proposals = {} /\ DOMAIN approvals = {} /\ proposals = <<>> /\ approvals = <<>>
    BY DEF GovernanceInit
  <1>2. Stored(proposals, approvals)
    BY <1>1, FS_EmptySet DEF Stored
  <1>3. SumFunctionOnSet(Flows(proposals, approvals), DOMAIN proposals) = 0
    BY <1>1, <1>2, FlowsAreSummable, SumBasics
  <1>4. balance \in [RegId -> Nat] /\ supply = 0 /\ \A a \in RegId : balance[a] = 0
    BY DEF GovernanceInit
  <1>5. SumFunctionOnSet(balance, RegId) = 0
    <2>1. Summable(balance, RegId) /\ Summable(balance, {})
      BY <1>4, HeldIsSummable, FS_EmptySet DEF Summable
    <2>2. SumFunctionOnSet(balance, RegId) = SumFunctionOnSet(balance, {})
      BY <1>4, <2>1, SumZeros
    <2> QED BY <2>1, <2>2, SumBasics
  <1>6. EffectsInv
    <2>1. governors \subseteq RegId /\ ratios \in [RatioNames -> Nat] /\ Ordered(ratios)
      BY DEF GovernanceInit, GovernanceAssumption, RatioNames
    <2>2. on \in [Switch -> BOOLEAN]
      BY DEF GovernanceInit
    <2> QED BY <1>4, <1>5, <2>1, <2>2 DEF EffectsInv, SupplyIsHeld
  <1>7. Executed = {}
    BY <1>1 DEF Executed
  <1>8. MintsOnRecord /\ MintedOnce
    BY <1>7 DEF MintsOnRecord, MintedOnce
  <1>9. delegates \in Range(Elections) /\ height \in 0 .. MaxHeight
    <2>1. 1 \in DOMAIN Elections
      BY DEF GovernanceAssumption
    <2> QED BY <2>1 DEF GovernanceInit, GovernanceAssumption, Range
  <1> QED BY <1>2, <1>3, <1>4, <1>6, <1>8, <1>9 DEF GovernanceInv

(* Every approval of a swap out has its signature, so that what enough have *)
(* signed for is what was executed, and the flows are the two amounts.      *)
LEMMA FlowsAreAmounts ==
  ASSUME GovernanceAssumption, GovernanceInv
  PROVE  SignedIsBurnt
  <1> DEFINE D == DOMAIN proposals
             In == Executed \cap SwapIns
             Out == {id \in D : /\ proposals[id].what.kind = "axcout"
                                /\ proposals[id].signatures >= proposals[id].needed}
             w(id) == proposals[id].what
             F == Flows(proposals, approvals)
             g == [id \in D |-> IF id \in In THEN w(id).amount ELSE 0]
             h == [id \in D |-> IF id \in Out THEN w(id).amount ELSE 0]
             amountIn == [id \in In |-> w(id).amount]
             amountOut == [id \in Out |-> w(id).amount]
  <1>1. Stored(proposals, approvals) /\ supply = SumFunctionOnSet(F, D) /\ IsFiniteSet(D)
    BY DEF GovernanceInv, Stored
  <1>2. In \in SUBSET D /\ Out \in SUBSET D
    BY DEF Executed
  <1>3. \A id \in In : w(id).kind = "axcin" /\ w(id).amount \in Nat
    BY <1>1, FlowIsInt, FieldsOf DEF Stored, SwapIns, Executed
  <1>4. \A id \in Out : w(id).kind = "axcout" /\ w(id).amount \in Nat
    BY <1>1, FlowIsInt, FieldsOf DEF Stored
  <1>5. \A id \in D : g[id] \in Int /\ h[id] \in Int
    BY <1>3, <1>4
  <1>6. \A id \in D : g[id] = F[id] + h[id]
    <2> SUFFICES ASSUME NEW id \in D PROVE g[id] = F[id] + h[id]
      OBVIOUS
    <2>1. EntryKept(proposals[id], approvals[id])
      BY <1>1 DEF Stored
    <2>2. /\ w(id).kind = "axcout" => proposals[id].signatures = Len(approvals[id])
          /\ w(id) \in Proposal
      BY <2>1 DEF EntryKept, Entry
    <2> DEFINE done == Len(approvals[id]) >= proposals[id].needed
    <2>3. F[id] = IF done THEN Effect(w(id)) ELSE 0
      BY DEF Flows, Flow
    <2>4. id \in In <=> done /\ w(id).kind = "axcin"
      BY DEF Executed, SwapIns
    <2>5. id \in Out <=> done /\ w(id).kind = "axcout"
      BY <2>2
    <2>6. w(id).kind \in {"axcin", "axcout"} => w(id).amount \in Nat
      BY <2>2, FieldsOf
    <2>7. g[id] = IF id \in In THEN w(id).amount ELSE 0
      OBVIOUS
    <2>8. h[id] = IF id \in Out THEN w(id).amount ELSE 0
      OBVIOUS
    <2> HIDE DEF g, h, F, In, Out, done
    <2>9. CASE done /\ w(id).kind = "axcin"
      BY <2>3, <2>4, <2>5, <2>6, <2>7, <2>8, <2>9 DEF Effect
    <2>10. CASE done /\ w(id).kind = "axcout"
      BY <2>3, <2>4, <2>5, <2>6, <2>7, <2>8, <2>10 DEF Effect
    <2>11. CASE ~(done /\ w(id).kind \in {"axcin", "axcout"})
      BY <2>3, <2>4, <2>5, <2>7, <2>8, <2>11 DEF Effect
    <2> QED BY <2>9, <2>10, <2>11
  <1>7. \A id \in D : id \notin In => g[id] = 0
    OBVIOUS
  <1>8. \A id \in D : id \notin Out => h[id] = 0
    OBVIOUS
  <1>9. \A id \in In : g[id] = amountIn[id]
    BY <1>2
  <1>10. \A id \in Out : h[id] = amountOut[id]
    BY <1>2
  <1>11. Amount(In) = SumFunctionOnSet(amountIn, In) /\ Amount(Out) = SumFunctionOnSet(amountOut, Out)
    BY DEF Amount
  <1>12. Summable(F, D)
    BY <1>1, FlowsAreSummable
  <1>13. SignedIsBurnt <=> supply = Amount(In) - Amount(Out)
    BY DEF SignedIsBurnt
  <1> HIDE DEF F, g, h, amountIn, amountOut, In, Out, D
  <1>14. Summable(g, D) /\ Summable(h, D) /\ IsFiniteSet(In) /\ IsFiniteSet(Out)
    BY <1>1, <1>2, <1>5, FS_Subset DEF Summable
  <1>15. SumFunctionOnSet(g, D) = SumFunctionOnSet(F, D) + SumFunctionOnSet(h, D)
    BY <1>6, <1>12, <1>14, SumPlus
  <1>16. SumFunctionOnSet(g, D) = Amount(In)
    <2>1. SumFunctionOnSet(g, D) = SumFunctionOnSet(g, In)
      BY <1>2, <1>7, <1>14, SumZeros
    <2>2. SumFunctionOnSet(g, In) = SumFunctionOnSet(amountIn, In)
      BY <1>9, <1>14, SumSame
    <2> QED BY <1>11, <2>1, <2>2
  <1>17. SumFunctionOnSet(h, D) = Amount(Out)
    <2>1. SumFunctionOnSet(h, D) = SumFunctionOnSet(h, Out)
      BY <1>2, <1>8, <1>14, SumZeros
    <2>2. SumFunctionOnSet(h, Out) = SumFunctionOnSet(amountOut, Out)
      BY <1>10, <1>14, SumSame
    <2> QED BY <1>11, <2>1, <2>2
  <1>18. SumFunctionOnSet(F, D) \in Int /\ SumFunctionOnSet(h, D) \in Int
    BY <1>12, <1>14, SumBasics
  <1>19. supply = Amount(In) - Amount(Out)
    BY <1>1, <1>15, <1>16, <1>17, <1>18
  <1> QED BY <1>13, <1>19

(* What the invariant says of the types. *)
LEMMA GovernanceTyped ==
  ASSUME GovernanceAssumption, GovernanceInv
  PROVE  GovernanceTypeOK /\ RatiosOrdered
  <1>1. EffectsInv /\ Stored(proposals, approvals)
    BY DEF GovernanceInv
  <1>2. \A id \in DOMAIN proposals :
          /\ proposals[id].needed \in 1 .. Cardinality(RegId)
          /\ IsInjective(approvals[id]) /\ Range(approvals[id]) \subseteq RegId
          /\ Len(approvals[id]) <= proposals[id].needed
    <2> SUFFICES ASSUME NEW id \in DOMAIN proposals
                 PROVE  /\ proposals[id].needed \in 1 .. Cardinality(RegId)
                        /\ IsInjective(approvals[id]) /\ Range(approvals[id]) \subseteq RegId
                        /\ Len(approvals[id]) <= proposals[id].needed
      OBVIOUS
    <2>1. EntryKept(proposals[id], approvals[id])
      BY <1>1 DEF Stored
    <2>2. approvals[id] \in Seq(RegId)
      BY <2>1 DEF EntryKept
    <2>3. Range(approvals[id]) \subseteq RegId
      BY <2>2 DEF Range
    <2> QED BY <2>1, <2>3 DEF EntryKept
  <1>3. DOMAIN ratios = DOMAIN InitialRatios /\ Range(ratios) \subseteq Nat
    BY <1>1 DEF EffectsInv, RatioNames, GovernanceAssumption, Range
  <1>4. RatiosOrdered
    BY <1>1 DEF EffectsInv, RatiosOrdered
  <1> QED BY <1>1, <1>2, <1>3, <1>4 DEF GovernanceTypeOK, EffectsInv, Stored, GovernanceInv

(* Whatever proposals are stored side by side and in whatever order they    *)
(* are approved, while governors, delegates, switch and balances change:    *)
(* single ratios stay ordered, no peer transaction is minted for twice,     *)
(* what is minted is shared out without a remainder, and coins signed for   *)
(* on the other chain are burnt, and no others (proposaltx.cpp,             *)
(* CProposalApprovalTx::ExecuteTx, and ExecuteProposal of proposal.cpp).    *)
THEOREM ProposalsAlwaysActRight ==
  ASSUME GovernanceAssumption, SingleRatios
  PROVE  GovernanceSpec => []ProposalsActRight
  <1>1. GovernanceInit => GovernanceInv
    BY GovernanceStart
  <1>2. GovernanceInv /\ [GovernanceNext]_governanceVars => GovernanceInv'
    BY GovernanceStep
  <1>3. GovernanceInv => ProposalsActRight
    BY GovernanceTyped, FlowsAreAmounts
       DEF ProposalsActRight, GovernanceInv, EffectsInv
  <1> QED BY <1>1, <1>2, <1>3, PTL DEF GovernanceSpec

-----------------------------------------------------------------------------
(* Positions: what a set of them holds and owes.                           *)

HeldBy(set) == [c \in set |-> c.staked]
OwedBy(set) == [c \in set |-> c.owed]

(* What a finite set of positions holds and owes are amounts. *)
LEMMA PositionsAdd ==
  ASSUME NEW M, M \subseteq Position, IsFiniteSet(M)
  PROVE  /\ Summable(HeldBy(M), M) /\ Summable(OwedBy(M), M)
         /\ Staked(M) \in Nat /\ Owed(M) \in Nat
         /\ \A S \in SUBSET M : /\ Staked(S) = SumFunctionOnSet(HeldBy(M), S)
                                /\ Owed(S) = SumFunctionOnSet(OwedBy(M), S)
  <1>1. \A c \in M : c.staked \in Nat /\ c.owed \in Nat
    BY DEF Position
  <1>2. Summable(HeldBy(M), M) /\ Summable(OwedBy(M), M)
    BY <1>1 DEF HeldBy, OwedBy, Summable
  <1>3. ASSUME NEW S \in SUBSET M
        PROVE  /\ Staked(S) = SumFunctionOnSet(HeldBy(M), S)
               /\ Owed(S) = SumFunctionOnSet(OwedBy(M), S)
    <2>1. IsFiniteSet(S)
      BY FS_Subset
    <2>2. \A c \in S : HeldBy(S)[c] = HeldBy(M)[c] /\ OwedBy(S)[c] = OwedBy(M)[c]
      BY DEF HeldBy, OwedBy
    <2>3. Staked(S) = SumFunctionOnSet(HeldBy(S), S) /\ Owed(S) = SumFunctionOnSet(OwedBy(S), S)
      BY DEF HeldBy, OwedBy, Staked, Owed
    <2>4. SumFunctionOnSet(HeldBy(S), S) = SumFunctionOnSet(HeldBy(M), S)
      BY <2>1, <2>2, SumSame
    <2>5. SumFunctionOnSet(OwedBy(S), S) = SumFunctionOnSet(OwedBy(M), S)
      BY <2>1, <2>2, SumSame
    <2> QED BY <2>3, <2>4, <2>5
  <1>4. \A c \in M : HeldBy(M)[c] \in Nat /\ OwedBy(M)[c] \in Nat
    BY <1>1 DEF HeldBy, OwedBy
  <1>5. SumFunctionOnSet(HeldBy(M), M) \in Nat
    BY <1>4, SumOfNats
  <1>6. SumFunctionOnSet(OwedBy(M), M) \in Nat
    BY <1>4, SumOfNats
  <1> QED BY <1>2, <1>3, <1>5, <1>6

(* A part of a set and the rest of it. *)
LEMMA PartAndRest ==
  ASSUME NEW M, M \subseteq Position, IsFiniteSet(M), NEW S \in SUBSET M
  PROVE  /\ Staked(M) = Staked(S) + Staked(M \ S) /\ Owed(M) = Owed(S) + Owed(M \ S)
         /\ Staked(S) \in Nat /\ Staked(M \ S) \in Nat /\ Owed(S) \in Nat /\ Owed(M \ S) \in Nat
  <1> DEFINE O == M \ S
  <1>1. O \in SUBSET M /\ IsFiniteSet(O) /\ IsFiniteSet(S) /\ S \subseteq Position
        /\ O \subseteq Position
    BY FS_Subset
  <1> HIDE DEF O
  <1>2. /\ Summable(HeldBy(M), M) /\ Summable(OwedBy(M), M)
        /\ \A T \in SUBSET M : /\ Staked(T) = SumFunctionOnSet(HeldBy(M), T)
                               /\ Owed(T) = SumFunctionOnSet(OwedBy(M), T)
    BY PositionsAdd
  <1>3. Staked(S) \in Nat /\ Owed(S) \in Nat
    BY <1>1, PositionsAdd
  <1>4. Staked(O) \in Nat /\ Owed(O) \in Nat
    BY <1>1, PositionsAdd
  <1>5. SumFunctionOnSet(HeldBy(M), M) = SumFunctionOnSet(HeldBy(M), S) + SumFunctionOnSet(HeldBy(M), O)
    BY <1>2, SumSplit DEF O
  <1>6. SumFunctionOnSet(OwedBy(M), M) = SumFunctionOnSet(OwedBy(M), S) + SumFunctionOnSet(OwedBy(M), O)
    BY <1>2, SumSplit DEF O
  <1>7. Staked(M) = SumFunctionOnSet(HeldBy(M), M) /\ Owed(M) = SumFunctionOnSet(OwedBy(M), M)
    BY <1>2
  <1> QED BY <1>1, <1>2, <1>3, <1>4, <1>5, <1>6, <1>7 DEF O

(* One position, and no position. *)
LEMMA OnePosition ==
  ASSUME NEW c \in Position
  PROVE  /\ Staked({c}) = c.staked /\ Owed({c}) = c.owed
         /\ Staked({}) = 0 /\ Owed({}) = 0
  <1> DEFINE s == HeldBy({c}) o == OwedBy({c})
  <1>1. IsFiniteSet({c}) /\ IsFiniteSet({}) /\ {c} \subseteq Position
    BY FS_Singleton, FS_EmptySet
  <1>2. Summable(s, {c}) /\ Summable(o, {c})
    BY <1>1, PositionsAdd
  <1>3. s[c] = c.staked /\ o[c] = c.owed
    BY DEF HeldBy, OwedBy
  <1>4. Staked({c}) = SumFunctionOnSet(s, {c}) /\ Owed({c}) = SumFunctionOnSet(o, {c})
    BY DEF HeldBy, OwedBy, Staked, Owed
  <1> HIDE DEF s, o
  <1>5. SumFunctionOnSet(s, {c}) = s[c]
    BY <1>2, SumOnlyOne
  <1>6. SumFunctionOnSet(o, {c}) = o[c]
    BY <1>2, SumOnlyOne
  <1>7. Staked({}) = SumFunctionOnSet(HeldBy({}), {}) /\ Owed({}) = SumFunctionOnSet(OwedBy({}), {})
    BY DEF HeldBy, OwedBy, Staked, Owed
  <1>8. Summable(HeldBy({}), {}) /\ Summable(OwedBy({}), {})
    BY <1>1 DEF Summable
  <1>9. SumFunctionOnSet(HeldBy({}), {}) = 0 /\ SumFunctionOnSet(OwedBy({}), {}) = 0
    BY <1>8, SumBasics
  <1> QED BY <1>3, <1>4, <1>5, <1>6, <1>7, <1>9

(* One position more. *)
LEMMA OneMorePosition ==
  ASSUME NEW M, M \subseteq Position, IsFiniteSet(M), NEW c \in Position, c \notin M
  PROVE  /\ Staked(M \cup {c}) = Staked(M) + c.staked
         /\ Owed(M \cup {c}) = Owed(M) + c.owed
         /\ IsFiniteSet(M \cup {c})
         /\ Staked(M) \in Nat /\ Owed(M) \in Nat /\ c.staked \in Nat /\ c.owed \in Nat
  <1> DEFINE N == M \cup {c}
  <1>1. N \subseteq Position /\ {c} \in SUBSET N /\ N \ {c} = M
    OBVIOUS
  <1>2. IsFiniteSet(N)
    BY FS_AddElement
  <1> HIDE DEF N
  <1>3. /\ Staked(N) = Staked({c}) + Staked(N \ {c}) /\ Owed(N) = Owed({c}) + Owed(N \ {c})
        /\ Staked({c}) \in Nat /\ Staked(N \ {c}) \in Nat /\ Owed({c}) \in Nat
        /\ Owed(N \ {c}) \in Nat
    BY <1>1, <1>2, PartAndRest
  <1>4. Staked({c}) = c.staked /\ Owed({c}) = c.owed
    BY OnePosition
  <1>5. \A a, b \in Nat : a + b = b + a
    OBVIOUS
  <1> QED BY <1>1, <1>2, <1>3, <1>4, <1>5 DEF N

-----------------------------------------------------------------------------
(* The store is determined by its positions.                               *)

TotalsOf(M) ==
  [b \in Bcoin |-> [staked |-> Staked(OfPair(M, b)), owed |-> Owed(OfPair(M, b))]]

EntryOf(c)   == [owner |-> c.owner, bcoin |-> c.bcoin, id |-> c.id]
EntriesOf(M) == {EntryOf(c) : c \in M}

StoreOf(M) ==
  [main |-> M, user |-> EntriesOf(M), ratio |-> M, heights |-> M, totals |-> TotalsOf(M)]

(* Each has an id of its own, and a user has one of a pair. *)
PositionSet(M) ==
  /\ M \subseteq Position /\ IsFiniteSet(M)
  /\ \A c, d \in M : c.id = d.id \/ (c.owner = d.owner /\ c.bcoin = d.bcoin) => c = d

(* The totals with one position more. *)
LEMMA TotalsMore ==
  ASSUME NEW M, M \subseteq Position, IsFiniteSet(M), NEW c \in Position, c \notin M
  PROVE  TotalsOf(M \cup {c})
           = [TotalsOf(M) EXCEPT ![c.bcoin] = [staked |-> @.staked + c.staked,
                                               owed   |-> @.owed + c.owed]]
  <1> DEFINE N == M \cup {c}
             t == TotalsOf(M)
             more == [t EXCEPT ![c.bcoin] = [staked |-> @.staked + c.staked,
                                             owed   |-> @.owed + c.owed]]
  <1>1. t = [b \in Bcoin |-> t[b]] /\ c.bcoin \in Bcoin
    BY DEF TotalsOf, Position
  <1>2. ASSUME NEW b \in Bcoin PROVE TotalsOf(N)[b] = more[b]
    <2> DEFINE P == OfPair(M, b)
    <2>1. P \subseteq Position /\ P \in SUBSET M /\ IsFiniteSet(P) /\ c \notin P
      BY FS_Subset DEF OfPair
    <2>2. t[b] = [staked |-> Staked(P), owed |-> Owed(P)]
      BY DEF TotalsOf
    <2>3. CASE b = c.bcoin
      <3>1. OfPair(N, b) = P \cup {c}
        BY <2>3 DEF OfPair
      <3>2. TotalsOf(N)[b] = [staked |-> Staked(P \cup {c}), owed |-> Owed(P \cup {c})]
        BY <3>1 DEF TotalsOf
      <3>3. more[b] = [staked |-> t[b].staked + c.staked, owed |-> t[b].owed + c.owed]
        <4> HIDE DEF t
        <4> QED BY <1>1, <2>3
      <3> HIDE DEF P, t, more
      <3>4. Staked(P \cup {c}) = Staked(P) + c.staked /\ Owed(P \cup {c}) = Owed(P) + c.owed
        BY <2>1, OneMorePosition
      <3>5. t[b].staked = Staked(P) /\ t[b].owed = Owed(P)
        BY <2>2
      <3> QED BY <3>2, <3>3, <3>4, <3>5
    <2>4. CASE b # c.bcoin
      <3>1. OfPair(N, b) = P
        BY <2>4 DEF OfPair
      <3>2. TotalsOf(N)[b] = t[b]
        BY <3>1 DEF TotalsOf
      <3>3. more[b] = t[b]
        <4> HIDE DEF t
        <4> QED BY <1>1, <2>4
      <3> QED BY <3>2, <3>3
    <2> QED BY <2>3, <2>4
  <1>3. TotalsOf(N) = [b \in Bcoin |-> TotalsOf(N)[b]] /\ more = [b \in Bcoin |-> more[b]]
    BY <1>1 DEF TotalsOf
  <1> HIDE DEF N, more
  <1>4. TotalsOf(N) = more
    BY <1>2, <1>3
  <1> QED BY <1>4 DEF N, more, t

(* The totals with one position less. *)
LEMMA TotalsLess ==
  ASSUME NEW M, M \subseteq Position, IsFiniteSet(M), NEW c \in M
  PROVE  TotalsOf(M \ {c})
           = [TotalsOf(M) EXCEPT ![c.bcoin] = [staked |-> @.staked - c.staked,
                                               owed   |-> @.owed - c.owed]]
  <1> DEFINE N == M \ {c}
             t == TotalsOf(M)
             less == [t EXCEPT ![c.bcoin] = [staked |-> @.staked - c.staked,
                                             owed   |-> @.owed - c.owed]]
  <1>1. t = [b \in Bcoin |-> t[b]] /\ c \in Position /\ c.bcoin \in Bcoin
    BY DEF TotalsOf, Position
  <1>2. ASSUME NEW b \in Bcoin PROVE TotalsOf(N)[b] = less[b]
    <2> DEFINE P == OfPair(N, b)
    <2>1. P \subseteq Position /\ P \in SUBSET M /\ IsFiniteSet(P) /\ c \notin P
      BY FS_Subset DEF OfPair
    <2>2. TotalsOf(N)[b] = [staked |-> Staked(P), owed |-> Owed(P)]
      BY DEF TotalsOf
    <2>3. CASE b = c.bcoin
      <3>1. OfPair(M, b) = P \cup {c}
        BY <2>3 DEF OfPair
      <3>2. t[b] = [staked |-> Staked(P \cup {c}), owed |-> Owed(P \cup {c})]
        BY <3>1 DEF TotalsOf
      <3>3. less[b] = [staked |-> t[b].staked - c.staked, owed |-> t[b].owed - c.owed]
        <4> HIDE DEF t
        <4> QED BY <1>1, <2>3
      <3> HIDE DEF P, t, less
      <3>4. /\ Staked(P \cup {c}) = Staked(P) + c.staked /\ Owed(P \cup {c}) = Owed(P) + c.owed
            /\ Staked(P) \in Nat /\ Owed(P) \in Nat /\ c.staked \in Nat /\ c.owed \in Nat
        BY <1>1, <2>1, OneMorePosition
      <3>5. t[b].staked = Staked(P) + c.staked /\ t[b].owed = Owed(P) + c.owed
        BY <3>2, <3>4
      <3>6. \A x, y \in Nat : (x + y) - y = x
        OBVIOUS
      <3>7. t[b].staked - c.staked = Staked(P) /\ t[b].owed - c.owed = Owed(P)
        BY <3>4, <3>5, <3>6
      <3> QED BY <2>2, <3>3, <3>7
    <2>4. CASE b # c.bcoin
      <3>1. OfPair(M, b) = P
        BY <2>4 DEF OfPair
      <3>2. TotalsOf(N)[b] = t[b]
        BY <2>2, <3>1 DEF TotalsOf
      <3>3. less[b] = t[b]
        <4> HIDE DEF t
        <4> QED BY <1>1, <2>4
      <3> QED BY <3>2, <3>3
    <2> QED BY <2>3, <2>4
  <1>3. TotalsOf(N) = [b \in Bcoin |-> TotalsOf(N)[b]] /\ less = [b \in Bcoin |-> less[b]]
    BY <1>1 DEF TotalsOf
  <1> HIDE DEF N, less
  <1>4. TotalsOf(N) = less
    BY <1>2, <1>3
  <1> QED BY <1>4 DEF N, less, t

PlusIn(t, c) ==
  [t EXCEPT ![c.bcoin] = [staked |-> @.staked + c.staked, owed |-> @.owed + c.owed]]

MinusIn(t, c) ==
  [t EXCEPT ![c.bcoin] = [staked |-> @.staked - c.staked, owed |-> @.owed - c.owed]]

(* The indexes and totals after a position is saved, and erased. *)
LEMMA IndexesAfter ==
  ASSUME NEW m, NEW u, NEW r, NEW h, NEW t, NEW c, NEW s,
         s = [main |-> m, user |-> u, ratio |-> r, heights |-> h, totals |-> t]
  PROVE  /\ SaveCdpIndexData(s, c)
              = [main |-> m, user |-> u, ratio |-> With(r, RatioKey, c),
                 heights |-> With(h, HeightKey, c), totals |-> PlusIn(t, c)]
         /\ EraseCdpIndexData(s, c)
              = [main |-> m, user |-> u, ratio |-> Without(r, RatioKey, c),
                 heights |-> Without(h, HeightKey, c), totals |-> MinusIn(t, c)]
  <1>1. s.ratio = r /\ s.heights = h /\ s.totals = t
    OBVIOUS
  <1> DEFINE r1 == With(s.ratio, RatioKey, c)
             h1 == With(s.heights, HeightKey, c)
             t1 == PlusIn(s.totals, c)
             r2 == Without(s.ratio, RatioKey, c)
             h2 == Without(s.heights, HeightKey, c)
             t2 == MinusIn(s.totals, c)
  <1>2. SaveCdpIndexData(s, c) = [s EXCEPT !.totals = t1, !.ratio = r1, !.heights = h1]
    BY DEF SaveCdpIndexData, PlusIn
  <1>3. EraseCdpIndexData(s, c) = [s EXCEPT !.totals = t2, !.ratio = r2, !.heights = h2]
    BY DEF EraseCdpIndexData, MinusIn
  <1>4. ASSUME NEW x, NEW y, NEW z
        PROVE  [s EXCEPT !.totals = x, !.ratio = y, !.heights = z]
                 = [main |-> m, user |-> u, ratio |-> y, heights |-> z, totals |-> x]
    <2> DEFINE e1 == [s EXCEPT !.totals = x]
               e2 == [e1 EXCEPT !.ratio = y]
    <2>1. e1 = [main |-> m, user |-> u, ratio |-> r, heights |-> h, totals |-> x]
      OBVIOUS
    <2> HIDE DEF e1
    <2>2. e2 = [main |-> m, user |-> u, ratio |-> y, heights |-> h, totals |-> x]
      BY <2>1
    <2> HIDE DEF e2
    <2>3. [e2 EXCEPT !.heights = z]
            = [main |-> m, user |-> u, ratio |-> y, heights |-> z, totals |-> x]
      BY <2>2
    <2> QED BY <2>3 DEF e1, e2
  <1>5. /\ r1 = With(r, RatioKey, c) /\ h1 = With(h, HeightKey, c) /\ t1 = PlusIn(t, c)
        /\ r2 = Without(r, RatioKey, c) /\ h2 = Without(h, HeightKey, c) /\ t2 = MinusIn(t, c)
    BY <1>1
  <1> HIDE DEF r1, h1, t1, r2, h2, t2
  <1>6. /\ SaveCdpIndexData(s, c)
             = [main |-> m, user |-> u, ratio |-> r1, heights |-> h1, totals |-> t1]
        /\ EraseCdpIndexData(s, c)
             = [main |-> m, user |-> u, ratio |-> r2, heights |-> h2, totals |-> t2]
    BY <1>2, <1>3, <1>4
  <1> QED BY <1>5, <1>6

(* The same for the places by id and by owner. *)
LEMMA PlacesAfter ==
  ASSUME NEW M, NEW m, NEW u
  PROVE  [StoreOf(M) EXCEPT !.main = m, !.user = u]
           = [main |-> m, user |-> u, ratio |-> M, heights |-> M, totals |-> TotalsOf(M)]
  <1> DEFINE s == StoreOf(M)
             e == [s EXCEPT !.main = m]
  <1>1. s = [main |-> M, user |-> EntriesOf(M), ratio |-> M, heights |-> M,
             totals |-> TotalsOf(M)]
    BY DEF StoreOf
  <1> HIDE DEF s
  <1>2. e = [main |-> m, user |-> EntriesOf(M), ratio |-> M, heights |-> M,
             totals |-> TotalsOf(M)]
    BY <1>1
  <1> HIDE DEF e
  <1>3. [e EXCEPT !.user = u]
          = [main |-> m, user |-> u, ratio |-> M, heights |-> M, totals |-> TotalsOf(M)]
    BY <1>2
  <1> QED BY <1>3 DEF e, s

(* NewCDP: a position with an id, and an owner and pair, of its own. *)
LEMMA NewKeeps ==
  ASSUME NEW M, PositionSet(M), NEW c \in Position,
         \A e \in M : e.id # c.id /\ ~(e.owner = c.owner /\ e.bcoin = c.bcoin)
  PROVE  NewCDP(StoreOf(M), c) = StoreOf(M \cup {c}) /\ PositionSet(M \cup {c})
  <1>1. c \notin M
    OBVIOUS
  <1>2. PositionSet(M \cup {c})
    <2>1. IsFiniteSet(M \cup {c})
      BY FS_AddElement DEF PositionSet
    <2> QED BY <2>1 DEF PositionSet
  <1>3. With(M, IdOf, c) = M \cup {c}
    BY DEF With, Without, IdOf
  <1>4. With(EntriesOf(M), OwnerOf, EntryOf(c)) = EntriesOf(M \cup {c})
    <2>1. \A e \in EntriesOf(M) : OwnerOf(e) # OwnerOf(EntryOf(c))
      BY DEF EntriesOf, EntryOf, OwnerOf
    <2>2. Without(EntriesOf(M), OwnerOf, EntryOf(c)) = EntriesOf(M)
      BY <2>1 DEF Without
    <2> QED BY <2>2 DEF With, EntriesOf
  <1>5. With(M, RatioKey, c) = M \cup {c} /\ With(M, HeightKey, c) = M \cup {c}
    BY DEF With, Without, RatioKey, HeightKey
  <1> DEFINE m == With(StoreOf(M).main, IdOf, c)
             u == With(StoreOf(M).user, OwnerOf, EntryOf(c))
             s == [StoreOf(M) EXCEPT !.main = m, !.user = u]
  <1>6. m = M \cup {c} /\ u = EntriesOf(M \cup {c})
    <2>1. StoreOf(M).main = M /\ StoreOf(M).user = EntriesOf(M)
      BY DEF StoreOf
    <2> QED BY <1>3, <1>4, <2>1
  <1>7. NewCDP(StoreOf(M), c) = SaveCdpIndexData(s, c)
    BY DEF NewCDP, EntryOf
  <1> HIDE DEF m, u
  <1>8. s = [main |-> m, user |-> u, ratio |-> M, heights |-> M, totals |-> TotalsOf(M)]
    BY PlacesAfter
  <1> HIDE DEF s
  <1>9. SaveCdpIndexData(s, c)
          = [main |-> m, user |-> u, ratio |-> With(M, RatioKey, c),
             heights |-> With(M, HeightKey, c), totals |-> PlusIn(TotalsOf(M), c)]
    BY <1>8, IndexesAfter
  <1>10. TotalsOf(M \cup {c}) = PlusIn(TotalsOf(M), c)
    BY <1>1, TotalsMore DEF PositionSet, PlusIn
  <1> QED BY <1>2, <1>5, <1>6, <1>7, <1>9, <1>10 DEF StoreOf

(* EraseCDP of one that is there. *)
LEMMA EraseKeeps ==
  ASSUME NEW M, PositionSet(M), NEW c \in M
  PROVE  EraseCDP(StoreOf(M), c) = StoreOf(M \ {c}) /\ PositionSet(M \ {c})
  <1>1. PositionSet(M \ {c})
    BY FS_RemoveElement DEF PositionSet
  <1>2. \A e \in M : e.id = c.id => e = c
    BY DEF PositionSet
  <1>3. Without(M, IdOf, c) = M \ {c}
    BY <1>2 DEF Without, IdOf
  <1>4. Without(EntriesOf(M), OwnerOf, c) = EntriesOf(M \ {c})
    BY DEF Without, EntriesOf, EntryOf, OwnerOf, PositionSet
  <1>5. Without(M, RatioKey, c) = M \ {c} /\ Without(M, HeightKey, c) = M \ {c}
    BY <1>2 DEF Without, RatioKey, HeightKey
  <1> DEFINE m == Without(StoreOf(M).main, IdOf, c)
             u == Without(StoreOf(M).user, OwnerOf, c)
             s == [StoreOf(M) EXCEPT !.main = m, !.user = u]
  <1>6. m = M \ {c} /\ u = EntriesOf(M \ {c})
    <2>1. StoreOf(M).main = M /\ StoreOf(M).user = EntriesOf(M)
      BY DEF StoreOf
    <2> QED BY <1>3, <1>4, <2>1
  <1>7. EraseCDP(StoreOf(M), c) = EraseCdpIndexData(s, c)
    BY DEF EraseCDP
  <1> HIDE DEF m, u
  <1>8. s = [main |-> m, user |-> u, ratio |-> M, heights |-> M, totals |-> TotalsOf(M)]
    BY PlacesAfter
  <1> HIDE DEF s
  <1>9. EraseCdpIndexData(s, c)
          = [main |-> m, user |-> u, ratio |-> Without(M, RatioKey, c),
             heights |-> Without(M, HeightKey, c), totals |-> MinusIn(TotalsOf(M), c)]
    BY <1>8, IndexesAfter
  <1>10. TotalsOf(M \ {c}) = MinusIn(TotalsOf(M), c)
    BY TotalsLess DEF PositionSet, MinusIn
  <1> QED BY <1>1, <1>5, <1>6, <1>7, <1>9, <1>10 DEF StoreOf

(* One position in place of another of the same owner and pair. *)
SameButFor(c, d) == d.id = c.id /\ d.owner = c.owner /\ d.bcoin = c.bcoin

Replaced(M, c, d) == (M \ {c}) \cup {d}

(* UpdateCDP of one that is there. *)
LEMMA UpdateKeeps ==
  ASSUME NEW M, PositionSet(M), NEW c \in M, NEW d \in Position, SameButFor(c, d)
  PROVE  /\ UpdateCDP(StoreOf(M), c, d) = StoreOf(Replaced(M, c, d))
         /\ PositionSet(Replaced(M, c, d))
         /\ PositionSet(M \ {c}) /\ d \notin M \ {c}
  <1> DEFINE R == M \ {c}
             N == R \cup {d}
  <1>1. PositionSet(R)
    BY FS_RemoveElement DEF PositionSet
  <1>2. \A e \in R : e.id # d.id /\ ~(e.owner = d.owner /\ e.bcoin = d.bcoin)
    BY DEF PositionSet, SameButFor
  <1>3. d \notin R
    BY <1>2
  <1>4. PositionSet(N)
    <2>1. IsFiniteSet(N)
      BY <1>1, FS_AddElement DEF PositionSet
    <2> QED BY <1>1, <1>2, <2>1 DEF PositionSet
  <1>5. With(M, IdOf, d) = N
    BY <1>2 DEF With, Without, IdOf, SameButFor
  <1>6. EntriesOf(N) = EntriesOf(M)
    <2>1. EntryOf(c) = EntryOf(d)
      BY DEF EntryOf, SameButFor
    <2>2. M = R \cup {c}
      OBVIOUS
    <2> QED BY <2>1, <2>2 DEF EntriesOf
  <1>7. Without(M, RatioKey, c) = R /\ Without(M, HeightKey, c) = R
    BY DEF Without, RatioKey, HeightKey, PositionSet
  <1>8. With(R, RatioKey, d) = N /\ With(R, HeightKey, d) = N
    BY <1>2 DEF With, Without, RatioKey, HeightKey
  <1> DEFINE m  == With(StoreOf(M).main, IdOf, d)
             s1 == [StoreOf(M) EXCEPT !.main = m]
             s2 == EraseCdpIndexData(s1, c)
  <1>9. m = N
    <2>1. StoreOf(M).main = M
      BY DEF StoreOf
    <2> QED BY <1>5, <2>1
  <1>10. UpdateCDP(StoreOf(M), c, d) = SaveCdpIndexData(s2, d)
    BY DEF UpdateCDP
  <1> HIDE DEF m, N, R
  <1>11. s1 = [main |-> N, user |-> EntriesOf(N), ratio |-> M, heights |-> M,
               totals |-> TotalsOf(M)]
    BY <1>6, <1>9 DEF StoreOf
  <1> HIDE DEF s1
  <1>12. s2 = [main |-> N, user |-> EntriesOf(N), ratio |-> Without(M, RatioKey, c),
               heights |-> Without(M, HeightKey, c), totals |-> MinusIn(TotalsOf(M), c)]
    BY <1>11, IndexesAfter
  <1>13. TotalsOf(R) = MinusIn(TotalsOf(M), c)
    BY TotalsLess DEF PositionSet, R, MinusIn
  <1>14. s2 = [main |-> N, user |-> EntriesOf(N), ratio |-> R, heights |-> R,
               totals |-> TotalsOf(R)]
    BY <1>7, <1>12, <1>13
  <1> HIDE DEF s2
  <1>15. SaveCdpIndexData(s2, d)
           = [main |-> N, user |-> EntriesOf(N), ratio |-> With(R, RatioKey, d),
              heights |-> With(R, HeightKey, d), totals |-> PlusIn(TotalsOf(R), d)]
    BY <1>14, IndexesAfter
  <1>16. TotalsOf(N) = PlusIn(TotalsOf(R), d)
    BY <1>1, <1>3, TotalsMore DEF PositionSet, N, PlusIn
  <1>17. UpdateCDP(StoreOf(M), c, d) = StoreOf(N)
    BY <1>8, <1>10, <1>15, <1>16 DEF StoreOf
  <1> QED BY <1>1, <1>3, <1>4, <1>17 DEF Replaced, N, R

(* Positions closed one after another, in whatever order. *)
LEMMA ClosedKeeps ==
  ASSUME NEW M, PositionSet(M), NEW closed \in SUBSET M
  PROVE  /\ FoldSet(LAMBDA c, s : EraseCDP(s, c), StoreOf(M), closed) = StoreOf(M \ closed)
         /\ PositionSet(M \ closed)
  <1> DEFINE Erases(f) == f = [T \in SUBSET closed |->
               IF T = {} THEN StoreOf(M)
               ELSE EraseCDP(f[T \ {CHOOSE x \in T : TRUE}], CHOOSE x \in T : TRUE)]
             g == CHOOSE f : Erases(f)
             h == [T \in SUBSET closed |-> StoreOf(M \ T)]
             r == [T \in SUBSET closed |->
                     IF T = {} THEN StoreOf(M)
                     ELSE EraseCDP(h[T \ {CHOOSE x \in T : TRUE}], CHOOSE x \in T : TRUE)]
  <1>1. FoldSet(LAMBDA c, s : EraseCDP(s, c), StoreOf(M), closed) = g[closed]
    BY DEF FoldSet, MapThenFoldSet
  <1>2. \A T \in SUBSET closed : PositionSet(M \ T)
    <2> SUFFICES ASSUME NEW T \in SUBSET closed PROVE PositionSet(M \ T)
      OBVIOUS
    <2>1. IsFiniteSet(M \ T)
      BY FS_Difference DEF PositionSet
    <2> QED BY <2>1 DEF PositionSet
  <1>3. ASSUME NEW T \in SUBSET closed, T # {}
        PROVE  LET x == CHOOSE y \in T : TRUE
               IN  /\ x \in T /\ T \ {x} \in SUBSET closed
                   /\ EraseCDP(StoreOf(M \ (T \ {x})), x) = StoreOf(M \ T)
    <2> DEFINE x == CHOOSE y \in T : TRUE
    <2>1. x \in T
      BY <1>3
    <2> HIDE DEF x
    <2> DEFINE N == M \ (T \ {x})
    <2>2. PositionSet(N) /\ x \in N /\ N \ {x} = M \ T
      BY <1>2, <2>1
    <2> HIDE DEF N
    <2>3. EraseCDP(StoreOf(N), x) = StoreOf(N \ {x})
      BY <2>2, EraseKeeps
    <2>4. EraseCDP(StoreOf(M \ (T \ {x})), x) = StoreOf(M \ T)
      BY <2>2, <2>3 DEF N
    <2> QED BY <2>1, <2>4 DEF x
  <1>4. Erases(h)
    <2>1. ASSUME NEW T \in SUBSET closed PROVE h[T] = r[T]
      <3>1. CASE T = {}
        <4>1. M \ T = M
          BY <3>1
        <4> QED BY <3>1, <4>1
      <3>2. CASE T # {}
        <4> DEFINE x == CHOOSE y \in T : TRUE
        <4>1. T \ {x} \in SUBSET closed /\ EraseCDP(StoreOf(M \ (T \ {x})), x) = StoreOf(M \ T)
          BY <1>3, <3>2
        <4>2. h[T \ {x}] = StoreOf(M \ (T \ {x}))
          BY <4>1
        <4>3. r[T] = EraseCDP(h[T \ {x}], x)
          BY <3>2
        <4> QED BY <4>1, <4>2, <4>3
      <3> QED BY <3>1, <3>2
    <2>2. h = r
      BY <2>1
    <2> QED BY <2>2
  <1>5. Erases(g)
    <2> HIDE DEF Erases
    <2> QED BY <1>4
  <1> HIDE DEF g, h
  <1>6. \A T \in SUBSET closed :
          g[T] = IF T = {} THEN StoreOf(M)
                 ELSE EraseCDP(g[T \ {CHOOSE x \in T : TRUE}], CHOOSE x \in T : TRUE)
    BY <1>5
  <1> DEFINE good == {T \in SUBSET closed : g[T] = StoreOf(M \ T)}
  <1>7. ASSUME NEW T \in SUBSET closed, \A x \in T : T \ {x} \in good PROVE T \in good
    <2>1. CASE T = {}
      <3>1. M \ T = M
        BY <2>1
      <3> QED BY <1>6, <2>1, <3>1
    <2>2. CASE T # {}
      <3> DEFINE x == CHOOSE y \in T : TRUE
      <3>1. x \in T /\ EraseCDP(StoreOf(M \ (T \ {x})), x) = StoreOf(M \ T)
        BY <1>3, <2>2
      <3>2. g[T] = EraseCDP(g[T \ {x}], x)
        BY <1>6, <2>2
      <3>3. g[T \ {x}] = StoreOf(M \ (T \ {x}))
        BY <1>7, <3>1
      <3> QED BY <3>1, <3>2, <3>3
    <2> QED BY <2>1, <2>2
  <1>8. good = SUBSET closed
    <2>1. good \in SUBSET (SUBSET closed)
      OBVIOUS
    <2>2. IsFiniteSet(closed)
      BY FS_Subset DEF PositionSet
    <2> HIDE DEF good
    <2> QED BY <1>7, <2>1, <2>2, SmallerFirst
  <1>9. g[closed] = StoreOf(M \ closed)
    BY <1>8
  <1> QED BY <1>1, <1>2, <1>9

-----------------------------------------------------------------------------
(* What the accounts have.                                                 *)

(* The part of position c in what user u has staked of bcoin b. *)
Share(c, u, b) == IF c.owner = u /\ c.bcoin = b THEN c.staked ELSE 0

(* What a user has staked with one position more. *)
LEMMA UserMore ==
  ASSUME NEW M, M \subseteq Position, IsFiniteSet(M), NEW c \in Position, c \notin M,
         NEW u, NEW b
  PROVE  /\ Staked(OfUser(M \cup {c}, u, b)) = Staked(OfUser(M, u, b)) + Share(c, u, b)
         /\ Staked(OfUser(M, u, b)) \in Nat /\ Share(c, u, b) \in Nat
  <1> DEFINE P == OfUser(M, u, b)
  <1>1. P \subseteq Position /\ IsFiniteSet(P) /\ c \notin P
    BY FS_Subset DEF OfUser
  <1>2. Share(c, u, b) \in Nat
    BY DEF Share, Position
  <1>3. Staked(P) \in Nat
    <2> HIDE DEF P
    <2> QED BY <1>1, PositionsAdd
  <1>4. CASE c.owner = u /\ c.bcoin = b
    <2>1. OfUser(M \cup {c}, u, b) = P \cup {c}
      BY <1>4 DEF OfUser
    <2> HIDE DEF P
    <2>2. Staked(P \cup {c}) = Staked(P) + c.staked
      BY <1>1, OneMorePosition
    <2> QED BY <1>2, <1>3, <1>4, <2>1, <2>2 DEF Share, P
  <1>5. CASE ~(c.owner = u /\ c.bcoin = b)
    <2>1. OfUser(M \cup {c}, u, b) = P
      BY <1>5 DEF OfUser
    <2>2. Share(c, u, b) = 0
      BY <1>5 DEF Share
    <2> QED BY <1>2, <1>3, <2>1, <2>2
  <1> QED BY <1>4, <1>5

(* The pledges back the positions. *)
Backed(M, p) == \A u \in User, b \in Bcoin : p[u][b] = Staked(OfUser(M, u, b))

(* They do with one more, if its stake is pledged with it. *)
LEMMA BackedMore ==
  ASSUME NEW M, M \subseteq Position, IsFiniteSet(M), NEW c \in Position, c \notin M,
         NEW p, NEW q, \A u \in User, b \in Bcoin : q[u][b] = p[u][b] + Share(c, u, b)
  PROVE  Backed(M, p) => Backed(M \cup {c}, q)
  BY UserMore DEF Backed

(* They do with one less, if its stake is released. *)
LEMMA BackedLess ==
  ASSUME NEW M, M \subseteq Position, IsFiniteSet(M), NEW c \in M,
         NEW p, NEW q, \A u \in User, b \in Bcoin : q[u][b] = p[u][b] - Share(c, u, b),
         Backed(M, p)
  PROVE  Backed(M \ {c}, q)
  <1> DEFINE R == M \ {c}
  <1>1. R \subseteq Position /\ IsFiniteSet(R) /\ c \notin R /\ M = R \cup {c} /\ c \in Position
    BY FS_RemoveElement
  <1> HIDE DEF R
  <1>2. ASSUME NEW u \in User, NEW b \in Bcoin PROVE q[u][b] = Staked(OfUser(R, u, b))
    <2>1. /\ Staked(OfUser(R \cup {c}, u, b)) = Staked(OfUser(R, u, b)) + Share(c, u, b)
          /\ Staked(OfUser(R, u, b)) \in Nat /\ Share(c, u, b) \in Nat
      BY <1>1, UserMore
    <2>2. p[u][b] = Staked(OfUser(R, u, b)) + Share(c, u, b)
      BY <1>1, <2>1 DEF Backed
    <2>3. q[u][b] = p[u][b] - Share(c, u, b)
      OBVIOUS
    <2> QED BY <2>1, <2>2, <2>3
  <1> QED BY <1>2 DEF Backed, R

-----------------------------------------------------------------------------
(* The invariant.                                                          *)

AccountsTyped ==
  /\ scoins \in [User -> Nat]
  /\ bcoins \in [User -> [Bcoin -> Nat]] /\ pledged \in [User -> [Bcoin -> Nat]]
  /\ reserve \in Nat /\ scoinsFrozen \in Nat /\ fcoins \in Nat /\ onSale \in [Bcoin -> Nat]
  /\ price \in [Bcoin -> Nat] /\ cdpHeight \in 0 .. LastHeight

CdpInv ==
  /\ PositionSet(store.main) /\ store = StoreOf(store.main)
  /\ AccountsTyped
  /\ Backed(store.main, pledged) /\ BcoinsConserved /\ DebtIsCollateralised
  /\ R3 \/ ScoinsAreOwed

(* It says all of PositionsAreBacked. *)
LEMMA CdpInvSays ==
  ASSUME CdpInv
  PROVE  PositionsAreBacked
  <1>1. store.main \subseteq Position /\ IsFiniteSet(store.main)
    BY DEF CdpInv, PositionSet
  <1>2. /\ store.ratio = store.main /\ store.heights = store.main
        /\ store.user = EntriesOf(store.main) /\ store.totals = TotalsOf(store.main)
    <2> DEFINE M == store.main
    <2>1. store = StoreOf(M)
      BY DEF CdpInv
    <2> HIDE DEF M
    <2>2. /\ store.ratio = M /\ store.heights = M
          /\ store.user = EntriesOf(M) /\ store.totals = TotalsOf(M)
      BY <2>1 DEF StoreOf
    <2> QED BY <2>2 DEF M
  <1>3. StoreAgrees
    <2>1. \A b \in Bcoin : TotalsOf(store.main)[b] = [staked |-> Staked(OfPair(store.main, b)),
                                                      owed   |-> Owed(OfPair(store.main, b))]
      BY DEF TotalsOf
    <2> QED BY <1>2, <2>1 DEF StoreAgrees, EntriesOf, EntryOf
  <1>4. TotalsOf(store.main) \in [Bcoin -> [staked : Nat, owed : Nat]]
    <2> SUFFICES ASSUME NEW b \in Bcoin
                 PROVE  Staked(OfPair(store.main, b)) \in Nat /\ Owed(OfPair(store.main, b)) \in Nat
      BY DEF TotalsOf
    <2>1. OfPair(store.main, b) \subseteq Position /\ IsFiniteSet(OfPair(store.main, b))
      BY <1>1, FS_Subset DEF OfPair
    <2> QED BY <2>1, PositionsAdd
  <1>5. EntriesOf(store.main) \subseteq [owner : User, bcoin : Bcoin, id : CdpId]
    BY <1>1 DEF EntriesOf, EntryOf, Position
  <1>6. CdpTypeOK
    BY <1>1, <1>2, <1>4, <1>5 DEF CdpTypeOK, CdpInv, AccountsTyped
  <1>7. PledgesBackPositions
    BY DEF CdpInv, Backed, PledgesBackPositions
  <1> QED BY <1>3, <1>6, <1>7 DEF PositionsAreBacked, CdpInv

(* What there was at the start are amounts. *)
LEMMA WorldIsNat ==
  ASSUME CdpAssumption
  PROVE  ScoinsInWorld \in Nat /\ IsFiniteSet(User)
  <1>1. IsFiniteSet(User) /\ InitialReserve \in Nat /\ \A u \in User : Purse[u] \in Nat
    BY DEF CdpAssumption
  <1>2. SumFunctionOnSet(Purse, User) \in Nat
    BY <1>1, SumOfNats
  <1> QED BY <1>1, <1>2 DEF ScoinsInWorld

(* One user's amount changes. *)
LEMMA OneAccount ==
  ASSUME IsFiniteSet(User), NEW f, \A u \in User : f[u] \in Int, NEW w \in User, NEW d \in Int,
         NEW g, g[w] = f[w] + d, \A u \in User : u # w => g[u] = f[u]
  PROVE  /\ SumFunctionOnSet(g, User) = SumFunctionOnSet(f, User) + d
         /\ SumFunctionOnSet(f, User) \in Int
  <1>1. Summable(f, User) /\ Summable(g, User)
    BY DEF Summable
  <1>2. SumFunctionOnSet(g, User) = SumFunctionOnSet(f, User) - f[w] + g[w]
    BY <1>1, SumChanges
  <1>3. SumFunctionOnSet(f, User) \in Int
    BY <1>1, SumBasics
  <1> QED BY <1>2, <1>3

(* The scoins of one user change. *)
LEMMA PurseChanges ==
  ASSUME CdpAssumption, scoins \in [User -> Nat], NEW u \in User, NEW d \in Int,
         scoins' = [scoins EXCEPT ![u] = @ + d], scoins[u] + d \in Nat
  PROVE  /\ scoins' \in [User -> Nat]
         /\ SumFunctionOnSet(scoins', User) = SumFunctionOnSet(scoins, User) + d
         /\ SumFunctionOnSet(scoins, User) \in Int
  <1> DEFINE g == scoins'
  <1>1. g[u] = scoins[u] + d /\ \A v \in User : v # u => g[v] = scoins[v]
    OBVIOUS
  <1>2. g \in [User -> Nat]
    OBVIOUS
  <1>3. \A v \in User : scoins[v] \in Int
    OBVIOUS
  <1> HIDE DEF g
  <1>4. /\ SumFunctionOnSet(g, User) = SumFunctionOnSet(scoins, User) + d
        /\ SumFunctionOnSet(scoins, User) \in Int
    <2>1. IsFiniteSet(User)
      BY WorldIsNat
    <2> QED BY <1>1, <1>3, <2>1, OneAccount
  <1> QED BY <1>2, <1>4 DEF g

(* Nobody's bcoins change, free and pledged together. *)
LEMMA AccountsKept ==
  ASSUME CdpAssumption, AccountsTyped, BcoinsConserved, onSale' = onSale,
         \A u \in User, b \in Bcoin :
           bcoins'[u][b] + pledged'[u][b] = bcoins[u][b] + pledged[u][b]
  PROVE  BcoinsConserved'
  <1> SUFFICES ASSUME NEW b \in Bcoin
               PROVE  SumFunctionOnSet([u \in User |-> bcoins'[u][b] + pledged'[u][b]], User)
                        = SumFunctionOnSet([u \in User |-> bcoins[u][b] + pledged[u][b]], User)
    BY DEF BcoinsConserved, InAccounts
  <1>1. [u \in User |-> bcoins'[u][b] + pledged'[u][b]]
          = [u \in User |-> bcoins[u][b] + pledged[u][b]]
    OBVIOUS
  <1> QED BY <1>1

(* What Pledge does. *)
LEMMA PledgeMoves ==
  ASSUME AccountsTyped, NEW u \in User, NEW b \in Bcoin, NEW amount \in Nat,
         Pledge(u, b, amount)
  PROVE  /\ bcoins' \in [User -> [Bcoin -> Nat]] /\ pledged' \in [User -> [Bcoin -> Nat]]
         /\ \A v \in User, x \in Bcoin :
              /\ pledged'[v][x] = pledged[v][x] + (IF v = u /\ x = b THEN amount ELSE 0)
              /\ bcoins'[v][x] + pledged'[v][x] = bcoins[v][x] + pledged[v][x]
  <1>1. /\ bcoins \in [User -> [Bcoin -> Nat]] /\ pledged \in [User -> [Bcoin -> Nat]]
        /\ bcoins[u][b] >= amount
        /\ bcoins' = [bcoins EXCEPT ![u][b] = @ - amount]
        /\ pledged' = [pledged EXCEPT ![u][b] = @ + amount]
    BY DEF AccountsTyped, Pledge
  <1>2. \A v \in User, x \in Bcoin : bcoins[v][x] \in Nat /\ pledged[v][x] \in Nat
    BY <1>1
  <1>3. \A v \in User, x \in Bcoin :
          /\ pledged'[v][x] = pledged[v][x] + (IF v = u /\ x = b THEN amount ELSE 0)
          /\ bcoins'[v][x] = bcoins[v][x] - (IF v = u /\ x = b THEN amount ELSE 0)
    BY <1>1, <1>2
  <1>4. bcoins' \in [User -> [Bcoin -> Nat]] /\ pledged' \in [User -> [Bcoin -> Nat]]
    BY <1>1, <1>2
  <1> QED BY <1>2, <1>3, <1>4

(* The products and quotients of amounts are amounts. *)
LEMMA Amounts ==
  ASSUME NEW a \in Nat, NEW b \in Nat, NEW n \in Nat \ {0}
  PROVE  a * b \in Nat /\ a \div n \in Nat /\ n * (a \div n) <= a
  <1>1. a \div n \in Nat /\ a = n * (a \div n) + (a % n) /\ a % n \in 0 .. (n - 1)
    BY Division
  <1>2. n * (a \div n) \in Nat
    BY <1>1
  <1>3. a * b \in Nat
    OBVIOUS
  <1> QED BY <1>1, <1>2, <1>3

LEMMA InterestIsNat ==
  ASSUME CdpAssumption, AccountsTyped, NEW c \in Position
  PROVE  Interest(c) \in Nat
  <1> DEFINE days == IF cdpHeight > c.height THEN cdpHeight - c.height ELSE 1
  <1>1. c.owed \in Nat /\ c.height \in Nat /\ cdpHeight \in Nat /\ Rate \in Nat
    BY DEF Position, AccountsTyped, CdpAssumption
  <1>2. days \in Nat
    BY <1>1
  <1> HIDE DEF days
  <1>3. c.owed * days \in Nat
    BY <1>1, <1>2, Amounts
  <1>4. (c.owed * days) * Rate \in Nat
    BY <1>1, <1>3, Amounts
  <1>5. ((c.owed * days) * Rate) \div 100 \in Nat
    BY <1>4, Amounts
  <1> QED BY <1>5 DEF Interest, days

(* What is owed with one position more. *)
LEMMA OwedMore ==
  ASSUME NEW M, PositionSet(M), NEW c \in Position, c \notin M
  PROVE  Owed(M \cup {c}) = Owed(M) + c.owed /\ Owed(M) \in Nat /\ c.owed \in Nat
  BY OneMorePosition DEF PositionSet

(* What is owed with another position in place of one. *)
LEMMA OwedReplaced ==
  ASSUME NEW M, PositionSet(M), NEW c \in M, NEW d \in Position, d \notin M \ {c}
  PROVE  /\ Owed(Replaced(M, c, d)) = Owed(M) - c.owed + d.owed
         /\ Owed(M) \in Nat /\ c.owed \in Nat /\ d.owed \in Nat
  <1> DEFINE R == M \ {c}
  <1>1. PositionSet(R) /\ c \notin R /\ c \in Position /\ M = R \cup {c}
        /\ Replaced(M, c, d) = R \cup {d} /\ d \notin R
    BY FS_RemoveElement DEF PositionSet, Replaced
  <1> HIDE DEF R
  <1>2. Owed(R \cup {c}) = Owed(R) + c.owed /\ Owed(R) \in Nat /\ c.owed \in Nat
    BY <1>1, OwedMore
  <1>3. Owed(R \cup {d}) = Owed(R) + d.owed /\ d.owed \in Nat
    BY <1>1, OwedMore
  <1>4. \A x, y, z \in Nat : ((x + y) - y) + z = x + z /\ x + y \in Nat
    OBVIOUS
  <1>5. Owed(M) = Owed(R) + c.owed /\ Owed(Replaced(M, c, d)) = Owed(R) + d.owed
    BY <1>1, <1>2, <1>3
  <1> QED BY <1>2, <1>3, <1>4, <1>5

(* The pledges back the positions after one changes, if the owner's pledge *)
(* changes as much.                                                        *)
LEMMA BackedReplaced ==
  ASSUME NEW M, PositionSet(M), NEW c \in M, NEW d \in Position, SameButFor(c, d),
         d \notin M \ {c}, NEW p, NEW q, p \in [User -> [Bcoin -> Nat]], Backed(M, p),
         q[c.owner][c.bcoin] = p[c.owner][c.bcoin] - c.staked + d.staked,
         \A u \in User, b \in Bcoin : ~(u = c.owner /\ b = c.bcoin) => q[u][b] = p[u][b]
  PROVE  Backed(Replaced(M, c, d), q)
  <1> DEFINE R == M \ {c}
  <1>1. PositionSet(R) /\ c \notin R /\ c \in Position /\ M = R \cup {c}
        /\ Replaced(M, c, d) = R \cup {d} /\ d \notin R
    BY FS_RemoveElement DEF PositionSet, Replaced
  <1> HIDE DEF R
  <1>2. ASSUME NEW u \in User, NEW b \in Bcoin
        PROVE  q[u][b] = Staked(OfUser(R \cup {d}, u, b))
    <2>0. R \subseteq Position /\ IsFiniteSet(R) /\ c \in Position /\ c \notin R /\ d \notin R
      BY <1>1 DEF PositionSet
    <2>1. /\ Staked(OfUser(R \cup {c}, u, b)) = Staked(OfUser(R, u, b)) + Share(c, u, b)
          /\ Staked(OfUser(R, u, b)) \in Nat
      <3>1. Staked(OfUser(R \cup {c}, u, b)) = Staked(OfUser(R, u, b)) + Share(c, u, b)
        BY <2>0, UserMore
      <3>2. Staked(OfUser(R, u, b)) \in Nat
        BY <2>0, UserMore
      <3> QED BY <3>1, <3>2
    <2>2. Staked(OfUser(R \cup {d}, u, b)) = Staked(OfUser(R, u, b)) + Share(d, u, b)
      BY <2>0, UserMore
    <2>3. p[u][b] = Staked(OfUser(R, u, b)) + Share(c, u, b)
      BY <1>1, <2>1 DEF Backed
    <2>4. c.staked \in Nat /\ d.staked \in Nat
      BY <1>1 DEF Position
    <2>5. CASE u = c.owner /\ b = c.bcoin
      <3>1. Share(c, u, b) = c.staked /\ Share(d, u, b) = d.staked
        BY <2>5 DEF Share, SameButFor
      <3>2. q[u][b] = p[u][b] - c.staked + d.staked
        BY <2>5
      <3> QED BY <2>1, <2>2, <2>3, <2>4, <3>1, <3>2
    <2>6. CASE ~(u = c.owner /\ b = c.bcoin)
      <3>1. Share(c, u, b) = 0 /\ Share(d, u, b) = 0
        BY <2>6 DEF Share, SameButFor
      <3> QED BY <2>1, <2>2, <2>3, <2>6, <3>1
    <2> QED BY <2>5, <2>6
  <1> QED BY <1>1, <1>2 DEF Backed

-----------------------------------------------------------------------------
(* Staking and redeeming.                                                  *)

(* A step that leaves every pair as it is, but for one above its floor. *)
LEMMA OthersLocked ==
  ASSUME NEW x, price' = price, ~FloorReached(store, x, price[x]),
         \A b \in Bcoin : b # x => OfPair(store'.main, b) = OfPair(store.main, b)
  PROVE  LockedPairKept
  BY DEF LockedPairKept, OfPair

(* The main index of a store that is given by its positions. *)
LEMMA MainOf == ASSUME NEW M PROVE StoreOf(M).main = M
  BY DEF StoreOf

LEMMA StakeNewKeeps ==
  ASSUME CdpAssumption, CdpInv, NEW u \in User, NEW id \in CdpId, NEW b \in Bcoin,
         NEW amount \in Nat, NEW mint \in Nat, StakeNew(u, id, b, amount, mint)
  PROVE  CdpInv' /\ LockedPairKept
  <1> DEFINE M == store.main
             c == [id |-> id, owner |-> u, bcoin |-> b, height |-> cdpHeight,
                   staked |-> amount, owed |-> mint]
  <1>1. PositionSet(M) /\ store = StoreOf(M) /\ AccountsTyped /\ Backed(M, pledged)
        /\ BcoinsConserved /\ DebtIsCollateralised /\ (R3 \/ ScoinsAreOwed)
    BY DEF CdpInv
  <1>2. /\ ~FloorReached(store, b, price[b]) /\ amount > 0
        /\ \A e \in M : e.id # id /\ ~HasCdp(u, b)
        /\ store' = NewCDP(store, c) /\ Pledge(u, b, amount)
        /\ scoins' = [scoins EXCEPT ![u] = @ + mint]
        /\ UNCHANGED <<reserve, scoinsFrozen, onSale, fcoins, price, cdpHeight>>
    BY DEF StakeNew, CanStake
  <1>3. c \in Position
    BY <1>1 DEF Position, AccountsTyped
  <1>4. c.id = id /\ c.owner = u /\ c.bcoin = b /\ c.staked = amount /\ c.owed = mint
    OBVIOUS
  <1>5. \A e \in M : e.id # c.id /\ ~(e.owner = c.owner /\ e.bcoin = c.bcoin)
    <2>1. \A e \in M : EntryOf(e) \in store.user
      <3>1. store.user = EntriesOf(M)
        <4> HIDE DEF M
        <4> QED BY <1>1 DEF StoreOf
      <3> QED BY <3>1 DEF EntriesOf
    <2>2. \A e \in M : ~(e.owner = u /\ e.bcoin = b)
      BY <1>2, <2>1 DEF HasCdp, EntryOf
    <2> QED BY <1>2, <1>4, <2>2
  <1> HIDE DEF M, c
  <1>6. NewCDP(StoreOf(M), c) = StoreOf(M \cup {c}) /\ PositionSet(M \cup {c})
    BY <1>1, <1>3, <1>5, NewKeeps
  <1>7. store' = StoreOf(M \cup {c}) /\ store'.main = M \cup {c} /\ c \notin M
    BY <1>1, <1>2, <1>5, <1>6, MainOf
  <1>8. /\ bcoins' \in [User -> [Bcoin -> Nat]] /\ pledged' \in [User -> [Bcoin -> Nat]]
        /\ \A v \in User, x \in Bcoin :
             /\ pledged'[v][x] = pledged[v][x] + (IF v = u /\ x = b THEN amount ELSE 0)
             /\ bcoins'[v][x] + pledged'[v][x] = bcoins[v][x] + pledged[v][x]
    BY <1>1, <1>2, PledgeMoves
  <1>9. scoins \in [User -> Nat] /\ scoins[u] + mint \in Nat /\ mint \in Int
    BY <1>1 DEF AccountsTyped
  <1>10. /\ scoins' \in [User -> Nat]
         /\ SumFunctionOnSet(scoins', User) = SumFunctionOnSet(scoins, User) + mint
         /\ SumFunctionOnSet(scoins, User) \in Int
    BY <1>2, <1>9, PurseChanges
  <1>11. AccountsTyped'
    BY <1>1, <1>2, <1>8, <1>10 DEF AccountsTyped
  <1>12. Backed(M \cup {c}, pledged')
    <2>1. \A v \in User, x \in Bcoin : pledged'[v][x] = pledged[v][x] + Share(c, v, x)
      BY <1>4, <1>8 DEF Share
    <2>2. M \subseteq Position /\ IsFiniteSet(M)
      BY <1>1 DEF PositionSet
    <2> QED BY <1>1, <1>3, <1>7, <2>1, <2>2, BackedMore
  <1>13. BcoinsConserved'
    BY <1>1, <1>2, <1>8, AccountsKept
  <1>14. DebtIsCollateralised'
    BY <1>1, <1>2, <1>4, <1>7 DEF DebtIsCollateralised, M
  <1>15. R3 \/ ScoinsAreOwed'
    <2> SUFFICES ASSUME ScoinsAreOwed PROVE ScoinsAreOwed'
      BY <1>1
    <2>1. Owed(M \cup {c}) = Owed(M) + mint /\ Owed(M) \in Nat
      BY <1>1, <1>3, <1>4, <1>7, OwedMore
    <2>2. SumFunctionOnSet(scoins, User) + reserve + scoinsFrozen = Owed(M) + ScoinsInWorld
      BY DEF ScoinsAreOwed, M
    <2>3. SumFunctionOnSet(scoins', User) + reserve' + scoinsFrozen'
            = Owed(M \cup {c}) + ScoinsInWorld
      <3>1. reserve' = reserve /\ scoinsFrozen' = scoinsFrozen /\ reserve \in Nat
            /\ scoinsFrozen \in Nat /\ ScoinsInWorld \in Nat
        BY <1>1, <1>2, WorldIsNat DEF AccountsTyped
      <3> QED BY <1>10, <2>1, <2>2, <3>1
    <2> QED BY <1>7, <2>3 DEF ScoinsAreOwed
  <1>16. LockedPairKept
    <2>1. \A x \in Bcoin : x # b => OfPair(M \cup {c}, x) = OfPair(M, x)
      BY <1>4 DEF OfPair
    <2>2. \A x \in Bcoin : x # b => OfPair(store'.main, x) = OfPair(store.main, x)
      BY <1>7, <2>1 DEF M
    <2> QED BY <1>2, <2>2, OthersLocked
  <1> QED BY <1>6, <1>7, <1>11, <1>12, <1>13, <1>14, <1>15, <1>16 DEF CdpInv

(* The other pairs are not touched. *)
LEMMA OtherPairs ==
  ASSUME NEW M, NEW c \in M, NEW d, SameButFor(c, d)
  PROVE  \A x \in Bcoin : x # c.bcoin => /\ OfPair(Replaced(M, c, d), x) = OfPair(M, x)
                                         /\ OfPair(M \ {c}, x) = OfPair(M, x)
  BY DEF OfPair, Replaced, SameButFor

(* One position is replaced, and everything else goes with it. *)
LEMMA ReplacedKeeps ==
  ASSUME CdpAssumption, CdpInv, AccountsTyped', BcoinsConserved',
         NEW c \in store.main, NEW d \in Position, SameButFor(c, d), d.staked > 0,
         store' = UpdateCDP(store, c, d),
         pledged'[c.owner][c.bcoin] = pledged[c.owner][c.bcoin] - c.staked + d.staked,
         \A u \in User, b \in Bcoin :
           ~(u = c.owner /\ b = c.bcoin) => pledged'[u][b] = pledged[u][b],
         \/ R3
         \/ SumFunctionOnSet(scoins', User) + reserve' + scoinsFrozen'
              = (SumFunctionOnSet(scoins, User) + reserve + scoinsFrozen) - c.owed + d.owed,
         price' = price, ~FloorReached(store, c.bcoin, price[c.bcoin])
  PROVE  CdpInv' /\ LockedPairKept
  <1> DEFINE M == store.main
             N == Replaced(M, c, d)
  <1>1. PositionSet(M) /\ store = StoreOf(M) /\ AccountsTyped /\ Backed(M, pledged)
        /\ DebtIsCollateralised /\ (R3 \/ ScoinsAreOwed) /\ c \in M
    BY DEF CdpInv
  <1>2. \A x \in Bcoin : x # c.bcoin => OfPair(N, x) = OfPair(M, x)
    BY OtherPairs
  <1> HIDE DEF M, N
  <1>3. UpdateCDP(StoreOf(M), c, d) = StoreOf(N) /\ PositionSet(N) /\ d \notin M \ {c}
    BY <1>1, UpdateKeeps DEF N
  <1>4. store' = StoreOf(N)
    BY <1>1, <1>3
  <1>5. store'.main = N
    BY <1>4, MainOf
  <1>6. Backed(N, pledged')
    <2>1. pledged \in [User -> [Bcoin -> Nat]]
      BY <1>1 DEF AccountsTyped
    <2> DEFINE q == pledged'
    <2>2. /\ q[c.owner][c.bcoin] = pledged[c.owner][c.bcoin] - c.staked + d.staked
          /\ \A u \in User, b \in Bcoin : ~(u = c.owner /\ b = c.bcoin) => q[u][b] = pledged[u][b]
      OBVIOUS
    <2> HIDE DEF q
    <2>3. Backed(N, q)
      BY <1>1, <1>3, <2>1, <2>2, BackedReplaced DEF N
    <2> QED BY <2>3 DEF q
  <1>7. DebtIsCollateralised'
    <2>1. \A e \in N : e.staked > 0
      BY <1>1 DEF DebtIsCollateralised, N, M, Replaced
    <2> QED BY <1>5, <2>1 DEF DebtIsCollateralised
  <1>8. R3 \/ ScoinsAreOwed'
    <2> SUFFICES ASSUME SumFunctionOnSet(scoins', User) + reserve' + scoinsFrozen'
                          = (SumFunctionOnSet(scoins, User) + reserve + scoinsFrozen) - c.owed + d.owed,
                        ScoinsAreOwed
                 PROVE  ScoinsAreOwed'
      BY <1>1
    <2>1. Owed(N) = Owed(M) - c.owed + d.owed /\ Owed(M) \in Nat /\ c.owed \in Nat /\ d.owed \in Nat
      BY <1>1, <1>3, OwedReplaced DEF N
    <2>2. SumFunctionOnSet(scoins, User) + reserve + scoinsFrozen = Owed(M) + ScoinsInWorld
      BY DEF ScoinsAreOwed, M
    <2>3. ScoinsInWorld \in Nat
      BY WorldIsNat
    <2>4. SumFunctionOnSet(scoins', User) + reserve' + scoinsFrozen'
            = (Owed(M) + ScoinsInWorld) - c.owed + d.owed
      BY <2>2
    <2>5. SumFunctionOnSet(scoins', User) + reserve' + scoinsFrozen' = Owed(N) + ScoinsInWorld
      BY <2>1, <2>3, <2>4
    <2> QED BY <1>5, <2>5 DEF ScoinsAreOwed
  <1>9. LockedPairKept
    <2>1. \A x \in Bcoin : x # c.bcoin => OfPair(store'.main, x) = OfPair(store.main, x)
      BY <1>2, <1>5 DEF M
    <2> QED BY <2>1, OthersLocked
  <1> QED BY <1>3, <1>4, <1>5, <1>6, <1>7, <1>8, <1>9 DEF CdpInv

LEMMA StakeMoreKeeps ==
  ASSUME CdpAssumption, CdpInv, NEW c \in store.main, NEW amount \in Nat, NEW mint \in Nat,
         StakeMore(c, amount, mint)
  PROVE  CdpInv' /\ LockedPairKept
  <1> DEFINE u == c.owner
             interest == Interest(c)
             forgiven == MintedForInterest(u, interest)
             d == AddStake(c, amount, mint)
             w == (forgiven - interest) + mint
  <1>1. /\ ~FloorReached(store, c.bcoin, price[c.bcoin])
        /\ scoins[u] + forgiven >= interest
        /\ store' = UpdateCDP(store, c, d)
        /\ Pledge(u, c.bcoin, amount)
        /\ scoins' = [scoins EXCEPT ![u] = @ + forgiven - interest + mint]
        /\ scoinsFrozen' = scoinsFrozen + interest
        /\ UNCHANGED <<reserve, onSale, fcoins, price, cdpHeight>>
    BY DEF StakeMore, CanStake
  <1>2. AccountsTyped /\ BcoinsConserved /\ DebtIsCollateralised /\ c \in Position
    BY DEF CdpInv, PositionSet
  <1>3. u \in User /\ c.bcoin \in Bcoin /\ c.staked \in Nat /\ c.owed \in Nat /\ c.staked > 0
    BY <1>2 DEF Position, DebtIsCollateralised
  <1>4. interest \in Nat
    BY <1>2, InterestIsNat
  <1>5. scoins \in [User -> Nat] /\ scoins[u] \in Nat /\ reserve \in Nat /\ scoinsFrozen \in Nat
        /\ cdpHeight \in 0 .. LastHeight
    BY <1>2, <1>3 DEF AccountsTyped
  <1> HIDE DEF interest
  <1>6. forgiven \in Nat /\ (~R3 => forgiven = 0)
    BY <1>4, <1>5 DEF MintedForInterest
  <1>7. d \in Position /\ SameButFor(c, d) /\ d.staked = c.staked + amount
        /\ d.owed = c.owed + mint
    <2> DEFINE a == c.staked + amount
               m == c.owed + mint
    <2>1. a \in Nat /\ m \in Nat
      BY <1>3
    <2>2. d = [c EXCEPT !.height = cdpHeight, !.staked = a, !.owed = m]
      BY DEF AddStake
    <2> HIDE DEF d, u, a, m
    <2>3. d \in Position /\ SameButFor(c, d) /\ d.staked = a /\ d.owed = m
      BY <1>2, <1>5, <2>1, <2>2 DEF Position, SameButFor
    <2> QED BY <2>3 DEF a, m
  <1> HIDE DEF d, forgiven, u
  <1>8. w \in Int /\ scoins[u] + w \in Nat
        /\ scoins[u] + forgiven - interest + mint = scoins[u] + w
    BY <1>1, <1>4, <1>5, <1>6
  <1>9. scoins' = [scoins EXCEPT ![u] = @ + w]
    BY <1>1, <1>8
  <1> HIDE DEF w
  <1>10. /\ scoins' \in [User -> Nat]
         /\ SumFunctionOnSet(scoins', User) = SumFunctionOnSet(scoins, User) + w
         /\ SumFunctionOnSet(scoins, User) \in Int
    BY <1>3, <1>5, <1>8, <1>9, PurseChanges
  <1>11. /\ bcoins' \in [User -> [Bcoin -> Nat]] /\ pledged' \in [User -> [Bcoin -> Nat]]
         /\ \A v \in User, x \in Bcoin :
              /\ pledged'[v][x] = pledged[v][x] + (IF v = u /\ x = c.bcoin THEN amount ELSE 0)
              /\ bcoins'[v][x] + pledged'[v][x] = bcoins[v][x] + pledged[v][x]
    BY <1>1, <1>2, <1>3, PledgeMoves
  <1>12. AccountsTyped'
    BY <1>1, <1>2, <1>4, <1>10, <1>11 DEF AccountsTyped
  <1>13. BcoinsConserved'
    BY <1>1, <1>2, <1>11, AccountsKept
  <1>14. /\ pledged'[u][c.bcoin] = pledged[u][c.bcoin] - c.staked + d.staked
         /\ \A v \in User, x \in Bcoin :
              ~(v = u /\ x = c.bcoin) => pledged'[v][x] = pledged[v][x]
    <2>1. \A v \in User, x \in Bcoin : pledged[v][x] \in Nat
      BY <1>2 DEF AccountsTyped
    <2>2. pledged'[u][c.bcoin] = pledged[u][c.bcoin] + amount
      BY <1>3, <1>11
    <2>3. \A v \in User, x \in Bcoin :
            ~(v = u /\ x = c.bcoin) => pledged'[v][x] = pledged[v][x] + 0
      BY <1>11
    <2> QED BY <1>3, <1>7, <2>1, <2>2, <2>3
  <1>15. \/ R3
         \/ SumFunctionOnSet(scoins', User) + reserve' + scoinsFrozen'
              = (SumFunctionOnSet(scoins, User) + reserve + scoinsFrozen) - c.owed + d.owed
    <2> SUFFICES ASSUME ~R3
                 PROVE  SumFunctionOnSet(scoins', User) + reserve' + scoinsFrozen'
                  = (SumFunctionOnSet(scoins, User) + reserve + scoinsFrozen) - c.owed + d.owed
      OBVIOUS
    <2>1. w = mint - interest
      BY <1>4, <1>6 DEF w
    <2>2. reserve' = reserve /\ scoinsFrozen' = scoinsFrozen + interest
      BY <1>1
    <2> QED BY <1>3, <1>4, <1>5, <1>7, <1>10, <2>1, <2>2
  <1>16. d.staked > 0
    BY <1>3, <1>7
  <1> QED BY <1>1, <1>7, <1>12, <1>13, <1>14, <1>15, <1>16, ReplacedKeeps DEF u

(* One position is closed, and everything else goes with it. *)
LEMMA ClosedOneKeeps ==
  ASSUME CdpAssumption, CdpInv, AccountsTyped', BcoinsConserved',
         NEW c \in store.main, store' = EraseCDP(store, c),
         pledged'[c.owner][c.bcoin] = pledged[c.owner][c.bcoin] - c.staked,
         \A u \in User, b \in Bcoin :
           ~(u = c.owner /\ b = c.bcoin) => pledged'[u][b] = pledged[u][b],
         \/ R3
         \/ SumFunctionOnSet(scoins', User) + reserve' + scoinsFrozen'
              = (SumFunctionOnSet(scoins, User) + reserve + scoinsFrozen) - c.owed,
         price' = price, ~FloorReached(store, c.bcoin, price[c.bcoin])
  PROVE  CdpInv' /\ LockedPairKept
  <1> DEFINE M == store.main
             N == M \ {c}
  <1>1. PositionSet(M) /\ store = StoreOf(M) /\ AccountsTyped /\ Backed(M, pledged)
        /\ DebtIsCollateralised /\ (R3 \/ ScoinsAreOwed) /\ c \in M
    BY DEF CdpInv
  <1>2. \A x \in Bcoin : x # c.bcoin => OfPair(N, x) = OfPair(M, x)
    BY DEF OfPair
  <1>0. c \in Position /\ c \notin N /\ M = N \cup {c}
    BY <1>1 DEF PositionSet
  <1> HIDE DEF M, N
  <1>3. EraseCDP(StoreOf(M), c) = StoreOf(N) /\ PositionSet(N)
    BY <1>1, EraseKeeps DEF N
  <1>4. store' = StoreOf(N)
    BY <1>1, <1>3
  <1>5. store'.main = N
    BY <1>4, MainOf
  <1>6. Backed(N, pledged')
    <2>1. \A u \in User, b \in Bcoin : pledged[u][b] \in Nat
      BY <1>1 DEF AccountsTyped
    <2> DEFINE q == pledged'
    <2>2. \A u \in User, b \in Bcoin : q[u][b] = pledged[u][b] - Share(c, u, b)
      BY <2>1 DEF Share
    <2> HIDE DEF q
    <2>3. M \subseteq Position /\ IsFiniteSet(M)
      BY <1>1 DEF PositionSet
    <2>4. Backed(N, q)
      BY <1>1, <2>2, <2>3, BackedLess DEF N
    <2> QED BY <2>4 DEF q
  <1>7. DebtIsCollateralised'
    <2>1. \A e \in N : e.staked > 0
      BY <1>1 DEF DebtIsCollateralised, N, M
    <2> QED BY <1>5, <2>1 DEF DebtIsCollateralised
  <1>8. R3 \/ ScoinsAreOwed'
    <2> SUFFICES ASSUME SumFunctionOnSet(scoins', User) + reserve' + scoinsFrozen'
                          = (SumFunctionOnSet(scoins, User) + reserve + scoinsFrozen) - c.owed,
                        ScoinsAreOwed
                 PROVE  ScoinsAreOwed'
      BY <1>1
    <2>1. Owed(M) = Owed(N) + c.owed /\ Owed(N) \in Nat /\ c.owed \in Nat
      BY <1>0, <1>3, OwedMore
    <2>2. SumFunctionOnSet(scoins, User) + reserve + scoinsFrozen = Owed(M) + ScoinsInWorld
      BY DEF ScoinsAreOwed, M
    <2>3. ScoinsInWorld \in Nat
      BY WorldIsNat
    <2>4. SumFunctionOnSet(scoins', User) + reserve' + scoinsFrozen'
            = (Owed(M) + ScoinsInWorld) - c.owed
      BY <2>2
    <2>5. SumFunctionOnSet(scoins', User) + reserve' + scoinsFrozen' = Owed(N) + ScoinsInWorld
      BY <2>1, <2>3, <2>4
    <2> QED BY <1>5, <2>5 DEF ScoinsAreOwed
  <1>9. LockedPairKept
    <2>1. \A x \in Bcoin : x # c.bcoin => OfPair(store'.main, x) = OfPair(store.main, x)
      BY <1>2, <1>5 DEF M
    <2> QED BY <2>1, OthersLocked
  <1> QED BY <1>3, <1>4, <1>5, <1>6, <1>7, <1>8, <1>9 DEF CdpInv

LEMMA RedeemKeeps ==
  ASSUME CdpAssumption, CdpInv, NEW c \in store.main, NEW repay \in Nat, NEW amount \in Nat,
         Redeem(c, repay, amount)
  PROVE  CdpInv' /\ LockedPairKept
  <1> DEFINE u == c.owner
             b == c.bcoin
             interest == Interest(c)
             taken    == IF amount > c.staked THEN c.staked ELSE amount
             repaid   == IF repay > c.owed THEN c.owed ELSE repay
             rest     == [c EXCEPT !.height = cdpHeight, !.staked = @ - taken, !.owed = @ - repaid]
             w == 0 - interest - repaid
  <1>1. /\ ~FloorReached(store, b, price[b])
        /\ scoins[u] >= interest + repay
        /\ pledged[u][b] >= taken
        /\ \/ Finished(rest) /\ store' = EraseCDP(store, c)
           \/ /\ ~Finished(rest)
              /\ MayTake(rest, taken)
              /\ store' = UpdateCDP(store, c, rest)
        /\ scoins' = [scoins EXCEPT ![u] = @ - interest - repaid]
        /\ scoinsFrozen' = scoinsFrozen + interest
        /\ bcoins' = [bcoins EXCEPT ![u][b] = @ + taken]
        /\ pledged' = [pledged EXCEPT ![u][b] = @ - taken]
        /\ UNCHANGED <<reserve, onSale, fcoins, price, cdpHeight>>
    BY DEF Redeem
  <1>2. AccountsTyped /\ BcoinsConserved /\ DebtIsCollateralised /\ c \in Position
    BY DEF CdpInv, PositionSet
  <1>3. u \in User /\ b \in Bcoin /\ c.staked \in Nat /\ c.owed \in Nat /\ c.staked > 0
    BY <1>2 DEF Position, DebtIsCollateralised
  <1>4. interest \in Nat
    BY <1>2, InterestIsNat
  <1>5. scoins \in [User -> Nat] /\ scoins[u] \in Nat /\ reserve \in Nat /\ scoinsFrozen \in Nat
        /\ cdpHeight \in 0 .. LastHeight /\ price[b] \in Nat
        /\ bcoins \in [User -> [Bcoin -> Nat]] /\ pledged \in [User -> [Bcoin -> Nat]]
    BY <1>2, <1>3 DEF AccountsTyped
  <1>6. taken \in Nat /\ taken <= c.staked /\ repaid \in Nat /\ repaid <= c.owed
        /\ repaid <= repay
    BY <1>3
  <1> DEFINE st == c.staked - taken
             ow == c.owed - repaid
  <1>7. st \in Nat /\ ow \in Nat
    BY <1>3, <1>6
  <1>8. rest \in Position /\ SameButFor(c, rest) /\ rest.staked = st /\ rest.owed = ow
    <2>1. rest = [c EXCEPT !.height = cdpHeight, !.staked = st, !.owed = ow]
      OBVIOUS
    <2> HIDE DEF st, ow, rest, u, b, taken, repaid
    <2> QED BY <1>2, <1>5, <1>7, <2>1 DEF Position, SameButFor
  <1> HIDE DEF interest, taken, repaid, rest, u, b
  <1>9. w \in Int /\ scoins[u] + w \in Nat /\ scoins[u] - interest - repaid = scoins[u] + w
    BY <1>1, <1>4, <1>5, <1>6
  <1>10. scoins' = [scoins EXCEPT ![u] = @ + w]
    BY <1>1, <1>9
  <1> HIDE DEF w
  <1>11. /\ scoins' \in [User -> Nat]
         /\ SumFunctionOnSet(scoins', User) = SumFunctionOnSet(scoins, User) + w
         /\ SumFunctionOnSet(scoins, User) \in Int
    BY <1>3, <1>5, <1>9, <1>10, PurseChanges
  <1>12. \A v \in User, x \in Bcoin : bcoins[v][x] \in Nat /\ pledged[v][x] \in Nat
    BY <1>5
  <1>13. /\ bcoins' \in [User -> [Bcoin -> Nat]] /\ pledged' \in [User -> [Bcoin -> Nat]]
         /\ \A v \in User, x \in Bcoin :
              /\ pledged'[v][x] = pledged[v][x] - (IF v = u /\ x = b THEN taken ELSE 0)
              /\ bcoins'[v][x] = bcoins[v][x] + (IF v = u /\ x = b THEN taken ELSE 0)
    BY <1>1, <1>3, <1>5, <1>6, <1>12
  <1>14. \A v \in User, x \in Bcoin : bcoins'[v][x] + pledged'[v][x] = bcoins[v][x] + pledged[v][x]
    BY <1>6, <1>12, <1>13
  <1>15. AccountsTyped'
    BY <1>1, <1>2, <1>4, <1>11, <1>13 DEF AccountsTyped
  <1>16. BcoinsConserved'
    BY <1>1, <1>2, <1>14, AccountsKept
  <1>17. /\ pledged'[u][b] = pledged[u][b] - c.staked + st
         /\ \A v \in User, x \in Bcoin : ~(v = u /\ x = b) => pledged'[v][x] = pledged[v][x]
    <2>1. pledged'[u][b] = pledged[u][b] - taken
      BY <1>3, <1>13
    <2>2. \A v \in User, x \in Bcoin : ~(v = u /\ x = b) => pledged'[v][x] = pledged[v][x] - 0
      BY <1>13
    <2> QED BY <1>3, <1>6, <1>12, <2>1, <2>2
  <1>18. SumFunctionOnSet(scoins', User) + reserve' + scoinsFrozen'
           = (SumFunctionOnSet(scoins, User) + reserve + scoinsFrozen) - c.owed + ow
    <2>1. w = 0 - interest - repaid
      BY DEF w
    <2>2. reserve' = reserve /\ scoinsFrozen' = scoinsFrozen + interest
      BY <1>1
    <2> QED BY <1>3, <1>4, <1>5, <1>6, <1>11, <2>1, <2>2
  <1>19. CASE Finished(rest)
    <2>1. store' = EraseCDP(store, c) /\ st = 0 /\ ow = 0
      BY <1>1, <1>8, <1>19 DEF Finished
    <2> HIDE DEF st, ow
    <2>2. pledged'[u][b] = pledged[u][b] - c.staked
      BY <1>3, <1>12, <1>17, <2>1
    <2>3. SumFunctionOnSet(scoins', User) + reserve' + scoinsFrozen'
            = (SumFunctionOnSet(scoins, User) + reserve + scoinsFrozen) - c.owed
      BY <1>3, <1>5, <1>11, <1>18, <2>1
    <2> QED BY <1>1, <1>15, <1>16, <1>17, <2>1, <2>2, <2>3, ClosedOneKeeps DEF u, b
  <1>20. CASE ~Finished(rest)
    <2>1. store' = UpdateCDP(store, c, rest) /\ MayTake(rest, taken)
      BY <1>1, <1>20
    <2>2. rest.staked > 0
      <3>1. CASE taken = 0
        BY <1>3, <1>8, <3>1
      <3>2. CASE taken # 0
        <4> SUFFICES ASSUME st = 0 PROVE FALSE
          BY <1>7, <1>8
        <4>1. ow # 0
          BY <1>8, <1>20 DEF Finished
        <4>2. Percent(rest.staked, rest.owed, price[rest.bcoin]) >= Start /\ Start > 0
              /\ rest.bcoin = b /\ Start \in Nat
          BY <1>8, <2>1, <3>2 DEF MayTake, CdpAssumption, SameButFor, b
        <4>3. Percent(rest.staked, rest.owed, price[rest.bcoin]) = (100 * 0 * price[b]) \div ow
          BY <1>8, <4>1, <4>2 DEF Percent
        <4>4. 100 * 0 * price[b] = 0
          BY <1>5
        <4>5. 0 \div ow = 0
          BY <1>7, <4>1
        <4> QED BY <4>2, <4>3, <4>4, <4>5
      <3> QED BY <3>1, <3>2
    <2> HIDE DEF st, ow
    <2> QED BY <1>1, <1>8, <1>15, <1>16, <1>17, <1>18, <2>1, <2>2, ReplacedKeeps DEF u, b
  <1> QED BY <1>19, <1>20

-----------------------------------------------------------------------------
(* Liquidating.                                                            *)

(* A quotient is at most what the dividend is at most a multiple of. *)
LEMMA FloorBelow ==
  ASSUME NEW x \in Nat, NEW n \in Nat \ {0}, NEW y \in Nat, x <= n * y
  PROVE  x \div n <= y
  <1>1. n * y \in Nat
    BY Amounts
  <1>2. x \div n <= (n * y) \div n
    BY <1>1, FloorGrows
  <1>3. (n * y) \div n = y
    <2> DEFINE z == n * y
               q == z \div n
               r == z % n
    <2>1. z = n * q + r /\ r \in 0 .. (n - 1) /\ q \in Nat
      BY <1>1, Division
    <2>2. n * q + r = n * y
      BY <2>1
    <2> HIDE DEF q, r, z
    <2>3. ASSUME q > y PROVE FALSE
      <3>1. PICK k \in Nat : q = y + 1 + k
        <4>1. q - y - 1 \in Nat /\ q = y + 1 + (q - y - 1)
          BY <2>1, <2>3
        <4> QED BY <4>1
      <3>2. n * q = n * y + n + n * k /\ n * k \in Nat
        BY <3>1
      <3> QED BY <1>1, <2>1, <2>2, <3>2
    <2>4. ASSUME q < y PROVE FALSE
      <3>1. PICK k \in Nat : y = q + 1 + k
        <4>1. y - q - 1 \in Nat /\ y = q + 1 + (y - q - 1)
          BY <2>1, <2>4
        <4> QED BY <4>1
      <3>2. n * y = n * q + n + n * k /\ n * k \in Nat /\ n * q \in Nat
        BY <2>1, <3>1
      <3> DEFINE f == n * y
                 g == n * q
                 h == n * k
      <3>3. g + r = f /\ f = g + n + h /\ h \in Nat /\ g \in Nat
        BY <2>2, <3>2
      <3>4. r \in Nat /\ r < n
        BY <2>1
      <3> HIDE DEF f, g, h
      <3> QED BY <3>3, <3>4
    <2>5. q = y
      BY <2>1, <2>3, <2>4
    <2> QED BY <2>5 DEF q, z
  <1>4. x \div n \in Nat
    BY Division
  <1> QED BY <1>2, <1>3, <1>4

(* It is at least what the dividend is at least a multiple of. *)
LEMMA FloorAbove ==
  ASSUME NEW x \in Nat, NEW n \in Nat \ {0}, NEW y \in Nat, n * y <= x
  PROVE  y <= x \div n
  <1> DEFINE q == x \div n
             r == x % n
  <1>1. x = n * q + r /\ r \in 0 .. (n - 1) /\ q \in Nat
    BY Division
  <1> HIDE DEF q, r
  <1>2. CASE q < y
    <2>1. PICK k \in Nat : y = q + 1 + k
      <3>1. y - q - 1 \in Nat /\ y = q + 1 + (y - q - 1)
        BY <1>1, <1>2
      <3> QED BY <3>1
    <2>2. n * y = n * q + n + n * k /\ n * k \in Nat /\ n * q \in Nat
      BY <1>1, <2>1
    <2> QED BY <1>1, <2>2
  <1>3. y <= q
    BY <1>1, <1>2
  <1> QED BY <1>3 DEF q

(* What a liquidation costs covers the debt, and what it takes and returns *)
(* is the stake.                                                           *)
LEMMA QuoteCovers ==
  ASSUME CdpAssumption, NEW c \in Position, NEW p \in Nat \ {0}
  PROVE  LET q == Quote(c, p)
         IN  /\ q.bcoins \in Nat /\ q.toOwner \in Nat /\ q.bcoins + q.toOwner = c.staked
             /\ q.scoins \in Nat /\ q.scoins >= c.owed
  <1> DEFINE s == c.staked
             o == c.owed
             ratio == Percent(s, o, p)
             most  == (o * NonReturn) \div (100 * p)
             q == Quote(c, p)
             cost == (o * NonReturn * Discount) \div 10000
             value == (s * p * Discount) \div 100
  <1>1. s \in Nat /\ o \in Nat /\ NonReturn \in Nat /\ Discount \in Nat /\ ForceRatio \in Nat
        /\ NonReturn * Discount >= 10000 /\ ForceRatio * Discount >= 10000
    BY DEF Position, CdpAssumption
  <1>2. /\ ratio > NonReturn => q = [bcoins |-> most, toOwner |-> s - most, scoins |-> cost]
        /\ ~(ratio > NonReturn) =>
             q = [bcoins |-> s, toOwner |-> 0, scoins |-> IF ratio > ForceRatio THEN value ELSE o]
    BY DEF Quote
  <1> HIDE DEF s, o, q
  <1>3. o * NonReturn \in Nat /\ 100 * p \in Nat \ {0} /\ o * NonReturn * Discount \in Nat
    BY <1>1, Amounts
  <1>4. 100 * s * p \in Nat /\ 100 * s * p = (100 * p) * s /\ s * p \in Nat
        /\ s * p * Discount \in Nat
    <2>1. 100 * s \in Nat /\ s * p \in Nat
      BY <1>1, Amounts
    <2>2. (100 * s) * p \in Nat /\ (s * p) * Discount \in Nat
      BY <1>1, <2>1, Amounts
    <2>3. (100 * s) * p = (100 * p) * s
      BY <1>1
    <2> QED BY <2>1, <2>2, <2>3
  <1>5. ASSUME NEW n \in Nat, ratio > n PROVE o * n <= 100 * s * p
    <2>1. CASE o = 0
      <3>1. o * n = 0
        BY <2>1
      <3> QED BY <1>4, <3>1
    <2>2. CASE o # 0
      <3> DEFINE x == 100 * s * p
      <3>1. ratio = x \div o
        BY <2>2 DEF Percent
      <3>2. x \in Nat
        BY <1>4
      <3> HIDE DEF x
      <3>3. x \div o \in Nat /\ o * (x \div o) <= x
        BY <1>1, <2>2, <3>2, Amounts
      <3> DEFINE y == x \div o
      <3>4. n <= y /\ y \in Nat /\ o * y <= x
        BY <1>5, <3>1, <3>3
      <3> HIDE DEF y
      <3>5. o * n <= o * y
        BY <1>1, <3>4, ProductGrows
      <3>6. o * n \in Nat /\ o * y \in Nat
        BY <1>1, <3>4, Amounts
      <3>7. o * n <= x
        BY <3>2, <3>4, <3>5, <3>6
      <3> QED BY <3>7 DEF x
    <2> QED BY <2>1, <2>2
  <1>6. CASE ratio > NonReturn
    <2>1. most \in Nat /\ most <= s
      <3>1. o * NonReturn <= (100 * p) * s
        BY <1>1, <1>4, <1>5, <1>6
      <3> DEFINE x == o * NonReturn
                 n == 100 * p
      <3>2. x <= n * s /\ x \in Nat /\ n \in Nat \ {0}
        BY <1>3, <3>1
      <3> HIDE DEF x, n
      <3>3. x \div n <= s /\ x \div n \in Nat
        BY <1>1, <3>2, FloorBelow, Amounts
      <3> QED BY <3>3 DEF x, n
    <2>2. cost \in Nat /\ cost >= o
      <3> DEFINE k == NonReturn * Discount
                 x == o * NonReturn * Discount
      <3>1. k >= 10000 /\ k \in Nat /\ x = o * k
        <4>1. (o * NonReturn) * Discount = o * (NonReturn * Discount)
          BY <1>1
        <4> QED BY <1>1, <4>1, Amounts
      <3>2. x \in Nat
        BY <1>3
      <3> HIDE DEF k, x
      <3>3. o * 10000 <= o * k
        BY <1>1, <3>1, ProductGrows
      <3>4. 10000 * o <= x
        BY <1>1, <3>1, <3>3
      <3>5. o <= x \div 10000 /\ x \div 10000 \in Nat
        BY <1>1, <3>2, <3>4, FloorAbove, Amounts
      <3> QED BY <1>1, <3>5 DEF x
    <2> HIDE DEF most, cost, ratio, value
    <2>3. q.bcoins = most /\ q.toOwner = s - most /\ q.scoins = cost
      BY <1>2, <1>6
    <2> QED BY <1>1, <2>1, <2>2, <2>3 DEF s, o, q
  <1>7. CASE ~(ratio > NonReturn)
    <2>1. q.bcoins = s /\ q.toOwner = 0 /\ q.scoins = IF ratio > ForceRatio THEN value ELSE o
      BY <1>2, <1>7
    <2>2. CASE ratio > ForceRatio
      <3>1. o * ForceRatio <= 100 * s * p
        BY <1>1, <1>5, <2>2
      <3> DEFINE k == ForceRatio * Discount
                 v == s * p
                 x == s * p * Discount
                 f == o * ForceRatio
      <3>2. k >= 10000 /\ k \in Nat /\ v \in Nat /\ x \in Nat /\ f \in Nat
            /\ x = v * Discount
        BY <1>1, <1>4, Amounts
      <3>3. f <= 100 * v
        <4>1. 100 * s * p = 100 * (s * p)
          BY <1>1
        <4> QED BY <3>1, <4>1
      <3>4. f * Discount = o * k
        <4>1. (o * ForceRatio) * Discount = o * (ForceRatio * Discount)
          BY <1>1
        <4> QED BY <4>1
      <3> HIDE DEF k, v, x, f
      <3>5. Discount * f <= Discount * (100 * v)
        <4>1. 100 * v \in Nat
          BY <3>2
        <4> QED BY <1>1, <3>2, <3>3, <4>1, ProductGrows
      <3>6. Discount * f = o * k /\ Discount * (100 * v) = 100 * x
        BY <1>1, <3>2, <3>4
      <3>7. o * 10000 <= o * k /\ o * k \in Nat
        BY <1>1, <3>2, ProductGrows, Amounts
      <3>8. 100 * o <= x
        BY <1>1, <3>2, <3>5, <3>6, <3>7
      <3>9. o <= x \div 100 /\ x \div 100 \in Nat
        BY <1>1, <3>2, <3>8, FloorAbove, Amounts
      <3>10. value = x \div 100
        BY DEF x
      <3> HIDE DEF value, ratio
      <3>11. value \in Nat /\ value >= o
        BY <1>1, <3>9, <3>10
      <3> QED BY <1>1, <2>1, <2>2, <3>11 DEF s, o, q
    <2>3. CASE ~(ratio > ForceRatio)
      <3> HIDE DEF value, ratio
      <3> QED BY <1>1, <2>1, <2>3 DEF s, o, q
    <2> QED BY <2>2, <2>3
  <1> QED BY <1>6, <1>7

(* What HandOver does. *)
LEMMA HandOverMoves ==
  ASSUME CdpAssumption, AccountsTyped, BcoinsConserved, onSale' = onSale,
         NEW u \in User, NEW c \in Position, NEW bought \in Nat, NEW returned \in Nat,
         HandOver(u, c, bought, returned)
  PROVE  /\ bcoins' \in [User -> [Bcoin -> Nat]] /\ pledged' \in [User -> [Bcoin -> Nat]]
         /\ pledged'[c.owner][c.bcoin] = pledged[c.owner][c.bcoin] - bought - returned
         /\ \A v \in User, x \in Bcoin :
              ~(v = c.owner /\ x = c.bcoin) => pledged'[v][x] = pledged[v][x]
         /\ BcoinsConserved'
  <1> DEFINE w == c.owner
             b == c.bcoin
             mid == [bcoins EXCEPT ![u][b] = @ + bought]
  <1>1. /\ bcoins \in [User -> [Bcoin -> Nat]] /\ pledged \in [User -> [Bcoin -> Nat]]
        /\ pledged[w][b] >= bought + returned
        /\ pledged' = [pledged EXCEPT ![w][b] = @ - bought - returned]
        /\ bcoins' = [mid EXCEPT ![w][b] = @ + returned]
        /\ w \in User /\ b \in Bcoin
    <2>1. bcoins' = [mid EXCEPT ![w][b] = @ + returned]
      BY DEF HandOver
    <2>2. pledged[w][b] >= bought + returned
          /\ pledged' = [pledged EXCEPT ![w][b] = @ - bought - returned]
      BY DEF HandOver
    <2> QED BY <2>1, <2>2 DEF AccountsTyped, Position
  <1> HIDE DEF w, b
  <1>2. \A v \in User, x \in Bcoin : bcoins[v][x] \in Nat /\ pledged[v][x] \in Nat
    BY <1>1
  <1>3. /\ mid \in [User -> [Bcoin -> Nat]]
        /\ mid[u][b] = bcoins[u][b] + bought
        /\ \A v \in User, x \in Bcoin : ~(v = u /\ x = b) => mid[v][x] = bcoins[v][x]
    BY <1>1, <1>2
  <1> HIDE DEF mid
  <1>4. /\ bcoins' \in [User -> [Bcoin -> Nat]]
        /\ bcoins'[w][b] = mid[w][b] + returned
        /\ \A v \in User, x \in Bcoin : ~(v = w /\ x = b) => bcoins'[v][x] = mid[v][x]
    BY <1>1, <1>3
  <1>5. /\ pledged' \in [User -> [Bcoin -> Nat]]
        /\ pledged'[w][b] = pledged[w][b] - bought - returned
        /\ \A v \in User, x \in Bcoin : ~(v = w /\ x = b) => pledged'[v][x] = pledged[v][x]
    BY <1>1, <1>2
  <1>6. ASSUME NEW x \in Bcoin
        PROVE  SumFunctionOnSet([v \in User |-> bcoins'[v][x] + pledged'[v][x]], User)
                 = SumFunctionOnSet([v \in User |-> bcoins[v][x] + pledged[v][x]], User)
    <2> DEFINE f == [v \in User |-> bcoins[v][x] + pledged[v][x]]
               g == [v \in User |-> bcoins'[v][x] + pledged'[v][x]]
               h == [f EXCEPT ![u] = @ + bought]
    <2>1. \A v \in User : f[v] = bcoins[v][x] + pledged[v][x] /\ f[v] \in Nat
                          /\ g[v] = bcoins'[v][x] + pledged'[v][x]
      BY <1>2
    <2>2. CASE x = b /\ u # w
      <3>1. h[u] = f[u] + bought /\ \A v \in User : v # u => h[v] = f[v]
        OBVIOUS
      <3>2. \A v \in User : h[v] \in Int
        BY <2>1, <3>1
      <3> HIDE DEF f, g, h
      <3>3. SumFunctionOnSet(h, User) = SumFunctionOnSet(f, User) + bought
            /\ SumFunctionOnSet(f, User) \in Int
        BY <2>1, <3>1, WorldIsNat, OneAccount
      <3>4. g[w] = h[w] + (0 - bought)
        <4>1. h[w] = bcoins[w][b] + pledged[w][b]
          BY <1>1, <2>1, <2>2, <3>1
        <4>2. bcoins'[w][b] = bcoins[w][b] + returned
          BY <1>1, <1>3, <1>4, <2>2
        <4>3. g[w] = bcoins[w][b] + returned + (pledged[w][b] - bought - returned)
          BY <1>1, <1>5, <2>1, <2>2, <4>2
        <4> QED BY <1>1, <1>2, <4>1, <4>3
      <3>5. ASSUME NEW v \in User, v # w PROVE g[v] = h[v]
        <4>1. bcoins'[v][b] = mid[v][b] /\ pledged'[v][b] = pledged[v][b]
          BY <1>1, <1>4, <1>5, <3>5
        <4>2. CASE v = u
          BY <1>1, <1>2, <1>3, <2>1, <2>2, <3>1, <4>1, <4>2
        <4>3. CASE v # u
          BY <1>1, <1>3, <2>1, <2>2, <3>1, <4>1, <4>3
        <4> QED BY <4>2, <4>3
      <3>6. SumFunctionOnSet(g, User) = SumFunctionOnSet(h, User) + (0 - bought)
        <4>1. 0 - bought \in Int /\ IsFiniteSet(User)
          BY WorldIsNat
        <4> QED BY <1>1, <3>2, <3>4, <3>5, <4>1, OneAccount
      <3> QED BY <3>3, <3>6 DEF f, g
    <2>3. CASE ~(x = b /\ u # w)
      <3>1. ASSUME NEW v \in User PROVE g[v] = f[v]
        <4>1. CASE x = b /\ v = w
          <5>1. bcoins'[w][b] = bcoins[w][b] + bought + returned
            BY <1>1, <1>3, <1>4, <2>3, <4>1
          <5> HIDE DEF f, g
          <5>2. g[w] = bcoins[w][b] + bought + returned + (pledged[w][b] - bought - returned)
            BY <1>1, <1>5, <2>1, <4>1, <5>1
          <5> QED BY <1>1, <1>2, <2>1, <4>1, <5>2
        <4>2. CASE ~(x = b /\ v = w)
          <5>1. bcoins'[v][x] = mid[v][x] /\ pledged'[v][x] = pledged[v][x]
            BY <1>1, <1>4, <1>5, <4>2
          <5>2. mid[v][x] = bcoins[v][x]
            BY <1>3, <2>3, <4>2
          <5> HIDE DEF f, g
          <5> QED BY <2>1, <5>1, <5>2
        <4> QED BY <4>1, <4>2
      <3>2. g = f
        BY <3>1
      <3> QED BY <3>2
    <2> QED BY <2>2, <2>3
  <1>7. BcoinsConserved'
    BY <1>6 DEF BcoinsConserved, InAccounts
  <1> QED BY <1>4, <1>5, <1>7 DEF w, b

(* What Penalty does: the fee is the reserve's, free or frozen. *)
LEMMA PenaltyAdds ==
  ASSUME AccountsTyped, NEW fee \in Nat, Penalty(fee)
  PROVE  /\ reserve' \in Nat /\ scoinsFrozen' \in Nat
         /\ reserve' + scoinsFrozen' = reserve + scoinsFrozen + fee
  <1> DEFINE half == fee \div 2
  <1>1. half \in Nat /\ half <= fee
    <2>1. half \in Nat /\ 2 * half <= fee
      BY Amounts
    <2> QED BY <2>1
  <1>2. reserve \in Nat /\ scoinsFrozen \in Nat
    BY DEF AccountsTyped
  <1>3. \/ reserve' = reserve + fee /\ scoinsFrozen' = scoinsFrozen
        \/ reserve' = reserve + half /\ scoinsFrozen' = scoinsFrozen + (fee - half)
    BY DEF Penalty
  <1> HIDE DEF half
  <1> QED BY <1>1, <1>2, <1>3

LEMMA LiquidateAllKeeps ==
  ASSUME CdpAssumption, CdpInv, NEW u \in User, NEW c \in store.main, NEW offer \in Nat,
         LiquidateAll(u, c, offer)
  PROVE  CdpInv' /\ LockedPairKept
  <1> DEFINE p == price[c.bcoin]
             q == Quote(c, p)
             w == 0 - q.scoins
             fee == q.scoins - c.owed
  <1>1. /\ ~FloorReached(store, c.bcoin, p) /\ p > 0 /\ scoins[u] >= offer
        /\ offer >= q.scoins
        /\ scoins' = [scoins EXCEPT ![u] = @ - q.scoins]
        /\ HandOver(u, c, q.bcoins, q.toOwner)
        /\ Penalty(fee)
        /\ store' = EraseCDP(store, c)
        /\ UNCHANGED <<onSale, fcoins, price, cdpHeight>>
    BY DEF LiquidateAll, Liquidatable
  <1>2. AccountsTyped /\ BcoinsConserved /\ c \in Position
    BY DEF CdpInv, PositionSet
  <1>3. c.bcoin \in Bcoin /\ c.owner \in User /\ c.staked \in Nat /\ c.owed \in Nat
    BY <1>2 DEF Position
  <1>4. scoins \in [User -> Nat] /\ scoins[u] \in Nat /\ reserve \in Nat /\ scoinsFrozen \in Nat
        /\ p \in Nat \ {0} /\ pledged[c.owner][c.bcoin] \in Nat
    BY <1>1, <1>2, <1>3 DEF AccountsTyped
  <1> HIDE DEF p
  <1>5. /\ q.bcoins \in Nat /\ q.toOwner \in Nat /\ q.bcoins + q.toOwner = c.staked
        /\ q.scoins \in Nat /\ q.scoins >= c.owed
    BY <1>2, <1>4, QuoteCovers
  <1> HIDE DEF q
  <1>6. fee \in Nat /\ w \in Int /\ scoins[u] + w \in Nat
        /\ scoins[u] - q.scoins = scoins[u] + w
    BY <1>1, <1>3, <1>4, <1>5
  <1>7. scoins' = [scoins EXCEPT ![u] = @ + w]
    BY <1>1, <1>6
  <1> HIDE DEF w, fee
  <1>8. /\ scoins' \in [User -> Nat]
        /\ SumFunctionOnSet(scoins', User) = SumFunctionOnSet(scoins, User) + w
        /\ SumFunctionOnSet(scoins, User) \in Int
    BY <1>4, <1>6, <1>7, PurseChanges
  <1>9. /\ bcoins' \in [User -> [Bcoin -> Nat]] /\ pledged' \in [User -> [Bcoin -> Nat]]
        /\ pledged'[c.owner][c.bcoin] = pledged[c.owner][c.bcoin] - q.bcoins - q.toOwner
        /\ \A v \in User, x \in Bcoin :
             ~(v = c.owner /\ x = c.bcoin) => pledged'[v][x] = pledged[v][x]
        /\ BcoinsConserved'
    BY <1>1, <1>2, <1>5, HandOverMoves
  <1>10. /\ reserve' \in Nat /\ scoinsFrozen' \in Nat
         /\ reserve' + scoinsFrozen' = reserve + scoinsFrozen + fee
    BY <1>1, <1>2, <1>6, PenaltyAdds
  <1>11. AccountsTyped'
    BY <1>1, <1>2, <1>8, <1>9, <1>10 DEF AccountsTyped
  <1>12. pledged'[c.owner][c.bcoin] = pledged[c.owner][c.bcoin] - c.staked
    BY <1>4, <1>5, <1>9
  <1>13. SumFunctionOnSet(scoins', User) + reserve' + scoinsFrozen'
           = (SumFunctionOnSet(scoins, User) + reserve + scoinsFrozen) - c.owed
    <2>1. w = 0 - q.scoins /\ fee = q.scoins - c.owed
      BY DEF w, fee
    <2> QED BY <1>3, <1>4, <1>5, <1>8, <1>10, <2>1
  <1>14. price' = price /\ ~FloorReached(store, c.bcoin, price[c.bcoin])
    BY <1>1 DEF p
  <1> QED BY <1>1, <1>9, <1>11, <1>12, <1>13, <1>14, ClosedOneKeeps

(* A part of an amount, in proportion to a part of a price. *)
LEMMA PartOf ==
  ASSUME NEW a \in Nat, NEW offer \in Nat, NEW cost \in Nat, offer < cost
  PROVE  (a * offer) \div cost \in Nat /\ (a * offer) \div cost <= a
  BY RatioBound

LEMMA LiquidatePartKeeps ==
  ASSUME CdpAssumption, CdpInv, NEW u \in User, NEW c \in store.main, NEW offer \in Nat,
         LiquidatePart(u, c, offer)
  PROVE  CdpInv' /\ LockedPairKept
  <1> DEFINE p == price[c.bcoin]
             q == Quote(c, p)
             bought   == (q.bcoins * offer) \div q.scoins
             returned == (q.toOwner * offer) \div q.scoins
             closed   == (c.owed * offer) \div q.scoins
             d == [c EXCEPT !.staked = @ - bought - returned, !.owed = @ - closed]
             w == 0 - offer
             fee == offer - closed
  <1>1. /\ ~FloorReached(store, c.bcoin, p) /\ p > 0 /\ scoins[u] >= offer
        /\ offer > 0 /\ offer < q.scoins
        /\ scoins' = [scoins EXCEPT ![u] = @ - offer]
        /\ HandOver(u, c, bought, returned)
        /\ Penalty(fee)
        /\ store' = UpdateCDP(store, c, d)
        /\ UNCHANGED <<onSale, fcoins, price, cdpHeight>>
    BY DEF LiquidatePart, Liquidatable, PartialFee
  <1>2. AccountsTyped /\ BcoinsConserved /\ DebtIsCollateralised /\ c \in Position
    BY DEF CdpInv, PositionSet
  <1>3. c.bcoin \in Bcoin /\ c.owner \in User /\ c.staked \in Nat /\ c.owed \in Nat
        /\ c.staked > 0
    BY <1>2 DEF Position, DebtIsCollateralised
  <1>4. scoins \in [User -> Nat] /\ scoins[u] \in Nat /\ reserve \in Nat /\ scoinsFrozen \in Nat
        /\ p \in Nat \ {0} /\ pledged[c.owner][c.bcoin] \in Nat
    <2>1. scoins \in [User -> Nat] /\ reserve \in Nat /\ scoinsFrozen \in Nat
          /\ price \in [Bcoin -> Nat] /\ pledged \in [User -> [Bcoin -> Nat]]
      BY <1>2 DEF AccountsTyped
    <2>2. p \in Nat
      BY <1>3, <2>1
    <2>3. p > 0
      BY <1>1
    <2> QED BY <1>3, <2>1, <2>2, <2>3
  <1> HIDE DEF p
  <1>5. /\ q.bcoins \in Nat /\ q.toOwner \in Nat /\ q.bcoins + q.toOwner = c.staked
        /\ q.scoins \in Nat /\ q.scoins >= c.owed
    BY <1>2, <1>4, QuoteCovers
  <1> HIDE DEF q
  <1>6. bought \in Nat /\ returned \in Nat /\ closed \in Nat /\ closed <= c.owed
    BY <1>1, <1>3, <1>5, PartOf
  <1>7. closed <= offer
    <2> DEFINE x == c.owed * offer
               n == q.scoins
    <2>1. x \in Nat /\ n \in Nat \ {0}
      BY <1>1, <1>3, <1>5, Amounts
    <2>2. x <= n * offer
      <3>1. offer * c.owed <= offer * q.scoins
        BY <1>3, <1>5, ProductGrows
      <3>2. offer * c.owed = x /\ offer * q.scoins = n * offer
        BY <1>3, <1>5
      <3> QED BY <3>1, <3>2
    <2> HIDE DEF x, n
    <2>3. x \div n <= offer
      BY <2>1, <2>2, FloorBelow
    <2> QED BY <2>3 DEF x, n
  <1>8. bought + returned < c.staked
    <2> DEFINE x == q.bcoins * offer
               y == q.toOwner * offer
               n == q.scoins
               s == c.staked
    <2>1. x \in Nat /\ y \in Nat /\ n \in Nat \ {0} /\ n > offer /\ s \in Nat /\ s > 0
      BY <1>1, <1>3, <1>5, Amounts
    <2>2. x + y = s * offer
      <3>1. x + y = (q.bcoins + q.toOwner) * offer
        BY <1>5
      <3> QED BY <1>5, <3>1
    <2> HIDE DEF x, y, n, s
    <2>3. (x \div n) + (y \div n) <= (x + y) \div n
      BY <2>1, FloorAdds
    <2>4. (s * offer) \div n < s
      <3>0. s * offer \in Nat
        BY <2>1, Amounts
      <3> DEFINE z == s * offer
                 k == z \div n
      <3>1. k \in Nat /\ n * k <= z
        BY <2>1, <3>0, Amounts
      <3> HIDE DEF k
      <3> SUFFICES ASSUME s <= k PROVE FALSE
        BY <2>1, <3>1 DEF k
      <3>2. n * s <= n * k
        BY <2>1, <3>1, ProductGrows
      <3>3. PICK m \in Nat : n = offer + 1 + m
        <4>1. n - offer - 1 \in Nat /\ n = offer + 1 + (n - offer - 1)
          BY <2>1
        <4> QED BY <4>1
      <3>4. n * s = z + s + m * s /\ m * s \in Nat
        BY <2>1, <3>3
      <3>5. n * k \in Nat /\ n * s \in Nat
        BY <2>1, <3>1, Amounts
      <3> DEFINE a == n * k
                 e == n * s
                 g == m * s
      <3>6. a <= z /\ e <= a /\ e = z + s + g /\ g \in Nat /\ a \in Nat /\ e \in Nat /\ z \in Nat
        BY <3>0, <3>1, <3>2, <3>4, <3>5
      <3> HIDE DEF a, e, g, z
      <3> QED BY <2>1, <3>6
    <2>5. bought = x \div n /\ returned = y \div n /\ s = c.staked
      BY DEF x, y, n, s
    <2> DEFINE f == (s * offer) \div n
    <2>6. f \in Nat /\ bought + returned <= f /\ f < s
      <3>1. s * offer \in Nat
        BY <2>1, Amounts
      <3>2. f \in Nat
        BY <2>1, <3>1, Amounts
      <3> QED BY <2>2, <2>3, <2>4, <2>5, <3>2
    <2> HIDE DEF f, bought, returned
    <2> QED BY <1>6, <2>1, <2>5, <2>6
  <1> HIDE DEF bought, returned, closed
  <1> DEFINE st == c.staked - bought - returned
             ow == c.owed - closed
  <1>9. st \in Nat /\ ow \in Nat /\ st > 0
    BY <1>3, <1>6, <1>8
  <1>10. d \in Position /\ SameButFor(c, d) /\ d.staked = st /\ d.owed = ow
    <2>1. d = [c EXCEPT !.staked = st, !.owed = ow]
      OBVIOUS
    <2> HIDE DEF d, st, ow
    <2> QED BY <1>2, <1>9, <2>1 DEF Position, SameButFor
  <1> HIDE DEF d
  <1>11. fee \in Nat /\ w \in Int /\ scoins[u] + w \in Nat /\ scoins[u] - offer = scoins[u] + w
    BY <1>1, <1>4, <1>6, <1>7
  <1>12. scoins' = [scoins EXCEPT ![u] = @ + w]
    BY <1>1, <1>11
  <1> HIDE DEF w, fee
  <1>13. /\ scoins' \in [User -> Nat]
         /\ SumFunctionOnSet(scoins', User) = SumFunctionOnSet(scoins, User) + w
         /\ SumFunctionOnSet(scoins, User) \in Int
    BY <1>4, <1>11, <1>12, PurseChanges
  <1>14. /\ bcoins' \in [User -> [Bcoin -> Nat]] /\ pledged' \in [User -> [Bcoin -> Nat]]
         /\ pledged'[c.owner][c.bcoin] = pledged[c.owner][c.bcoin] - bought - returned
         /\ \A v \in User, x \in Bcoin :
              ~(v = c.owner /\ x = c.bcoin) => pledged'[v][x] = pledged[v][x]
         /\ BcoinsConserved'
    BY <1>1, <1>2, <1>6, HandOverMoves
  <1>15. /\ reserve' \in Nat /\ scoinsFrozen' \in Nat
         /\ reserve' + scoinsFrozen' = reserve + scoinsFrozen + fee
    BY <1>1, <1>2, <1>11, PenaltyAdds
  <1>16. AccountsTyped'
    BY <1>1, <1>2, <1>13, <1>14, <1>15 DEF AccountsTyped
  <1>17. pledged'[c.owner][c.bcoin] = pledged[c.owner][c.bcoin] - c.staked + d.staked
    BY <1>3, <1>4, <1>6, <1>10, <1>14
  <1>18. SumFunctionOnSet(scoins', User) + reserve' + scoinsFrozen'
           = (SumFunctionOnSet(scoins, User) + reserve + scoinsFrozen) - c.owed + d.owed
    <2>1. w = 0 - offer /\ fee = offer - closed
      BY DEF w, fee
    <2>2. d.owed = c.owed - closed
      BY <1>10
    <2>3. SumFunctionOnSet(scoins', User) + (reserve' + scoinsFrozen')
            = (SumFunctionOnSet(scoins, User) - offer) + (reserve + scoinsFrozen + (offer - closed))
      <3>1. SumFunctionOnSet(scoins', User) = SumFunctionOnSet(scoins, User) - offer
        BY <1>13, <2>1
      <3>2. reserve' + scoinsFrozen' = reserve + scoinsFrozen + (offer - closed)
        BY <1>15, <2>1
      <3> QED BY <3>1, <3>2
    <2>4. SumFunctionOnSet(scoins', User) \in Int
      BY <1>11, <1>13
    <2> QED BY <1>3, <1>4, <1>6, <1>13, <1>15, <2>2, <2>3, <2>4
  <1>19. price' = price /\ ~FloorReached(store, c.bcoin, price[c.bcoin])
    BY <1>1 DEF p
  <1>20. d.staked > 0
    BY <1>9, <1>10
  <1> QED BY <1>1, <1>10, <1>14, <1>16, <1>17, <1>18, <1>19, <1>20, ReplacedKeeps

-----------------------------------------------------------------------------
(* Settling interest.                                                      *)

(* Positions that are like those before, of pairs at their floor the same. *)
LikeBefore(N) ==
  /\ PositionSet(N) /\ Backed(N, pledged) /\ \A c \in N : c.staked > 0
  /\ \A b \in Bcoin : FloorReached(store, b, price[b]) => OfPair(N, b) = OfPair(store.main, b)

Settled ==
  {s \in [ok : BOOLEAN, store : {StoreOf(N) : N \in SUBSET Position}, paid : Nat] :
     LikeBefore(s.store.main)}

(* Two stores with the same positions of a pair are both at its floor or   *)
(* not.                                                                    *)
LEMMA SameFloor ==
  ASSUME NEW M, NEW N, NEW b \in Bcoin, NEW p, OfPair(N, b) = OfPair(M, b)
  PROVE  FloorReached(StoreOf(N), b, p) <=> FloorReached(StoreOf(M), b, p)
  <1>1. StoreOf(N).totals[b] = [staked |-> Staked(OfPair(N, b)), owed |-> Owed(OfPair(N, b))]
        /\ StoreOf(M).totals[b] = [staked |-> Staked(OfPair(M, b)), owed |-> Owed(OfPair(M, b))]
    BY DEF StoreOf, TotalsOf
  <1>2. StoreOf(N).totals[b] = StoreOf(M).totals[b]
    BY <1>1
  <1> QED BY <1>2 DEF FloorReached

LEMMA SettleStays ==
  ASSUME CdpAssumption, CdpInv, NEW s \in Settled, NEW id
  PROVE  SettleOne(s, id) \in Settled
  <1> DEFINE N == s.store.main
             c == CHOOSE e \in N : e.id = id
             ok == /\ s.ok
                   /\ \E e \in N : e.id = id
                   /\ price[c.bcoin] > 0
                   /\ ~FloorReached(s.store, c.bcoin, price[c.bcoin])
                   /\ cdpHeight > c.height /\ cdpHeight - c.height >= Cycle
             d == AddStake(c, 0, Interest(c))
             new == UpdateCDP(s.store, c, d)
             paid == s.paid + Interest(c)
  <1>1. SettleOne(s, id) = IF ~ok THEN [s EXCEPT !.ok = FALSE]
                           ELSE [s EXCEPT !.store = new, !.paid = paid]
    BY DEF SettleOne
  <1>2. /\ s = [ok |-> s.ok, store |-> s.store, paid |-> s.paid]
        /\ s.ok \in BOOLEAN /\ s.paid \in Nat /\ LikeBefore(N)
    BY DEF Settled
  <1>3. s.store = StoreOf(N)
    <2>1. PICK K \in SUBSET Position : s.store = StoreOf(K)
      BY DEF Settled
    <2> QED BY <2>1, MainOf
  <1>4. AccountsTyped /\ store = StoreOf(store.main)
    BY DEF CdpInv
  <1>5. ASSUME NEW r, NEW K, PositionSet(K), LikeBefore(K), r.store = StoreOf(K),
               r = [ok |-> r.ok, store |-> r.store, paid |-> r.paid],
               r.ok \in BOOLEAN, r.paid \in Nat
        PROVE  r \in Settled
    <2>1. r.store.main = K
      BY <1>5, MainOf
    <2>2. r \in [ok : BOOLEAN, store : {StoreOf(O) : O \in SUBSET Position}, paid : Nat]
      BY <1>5 DEF PositionSet
    <2> QED BY <1>5, <2>1, <2>2 DEF Settled
  <1>6. CASE ~ok
    <2> DEFINE r == [s EXCEPT !.ok = FALSE]
    <2> HIDE DEF N, ok
    <2>1. r = [ok |-> FALSE, store |-> s.store, paid |-> s.paid]
      <3>1. s = [ok |-> s.ok, store |-> s.store, paid |-> s.paid]
        BY <1>2
      <3>2. ASSUME NEW x
            PROVE  [s EXCEPT !.ok = x] = [ok |-> x, store |-> s.store, paid |-> s.paid]
        BY ONLY <3>1
      <3> QED BY <3>2
    <2> HIDE DEF r
    <2>2. r \in Settled
      BY <1>2, <1>3, <1>5, <2>1 DEF LikeBefore
    <2> QED BY <1>1, <1>6, <2>2 DEF r
  <1>7. CASE ok
    <2>1. c \in N
      <3>1. \E e \in N : e.id = id
        BY <1>7
      <3> QED BY <3>1
    <2>2. ~FloorReached(s.store, c.bcoin, price[c.bcoin])
      BY <1>7
    <2> HIDE DEF c, ok
    <2>3. c \in Position /\ PositionSet(N) /\ Backed(N, pledged) /\ c.staked > 0
      BY <1>2, <2>1 DEF LikeBefore, PositionSet
    <2>4. Interest(c) \in Nat
      BY <1>4, <2>3, InterestIsNat
    <2>5. d \in Position /\ SameButFor(c, d) /\ d.staked = c.staked
      <3> DEFINE a == c.staked + 0
                 m == c.owed + Interest(c)
      <3>1. a \in Nat /\ m \in Nat /\ a = c.staked
        BY <2>3, <2>4 DEF Position
      <3>2. d = [c EXCEPT !.height = cdpHeight, !.staked = a, !.owed = m]
        BY DEF AddStake
      <3>3. cdpHeight \in 0 .. LastHeight
        BY <1>4 DEF AccountsTyped
      <3> HIDE DEF d, a, m
      <3>4. d \in Position /\ SameButFor(c, d) /\ d.staked = a
        BY <2>3, <3>1, <3>2, <3>3 DEF Position, SameButFor
      <3> QED BY <3>1, <3>4
    <2> DEFINE K == Replaced(N, c, d)
    <2> HIDE DEF N, d
    <2>6. UpdateCDP(StoreOf(N), c, d) = StoreOf(K) /\ PositionSet(K) /\ d \notin N \ {c}
      BY <2>1, <2>3, <2>5, UpdateKeeps
    <2>7. Backed(K, pledged)
      <3>1. pledged \in [User -> [Bcoin -> Nat]] /\ c.owner \in User /\ c.bcoin \in Bcoin
            /\ c.staked \in Nat
        BY <1>4, <2>3 DEF AccountsTyped, Position
      <3>2. pledged[c.owner][c.bcoin] = pledged[c.owner][c.bcoin] - c.staked + d.staked
        BY <2>5, <3>1
      <3> QED BY <2>1, <2>3, <2>5, <2>6, <3>1, <3>2, BackedReplaced
    <2>8. \A e \in K : e.staked > 0
      BY <1>2, <2>3, <2>5 DEF LikeBefore, Replaced
    <2>9. ASSUME NEW b \in Bcoin, FloorReached(store, b, price[b])
          PROVE  OfPair(K, b) = OfPair(store.main, b)
      <3>1. OfPair(N, b) = OfPair(store.main, b)
        BY <1>2, <2>9 DEF LikeBefore
      <3>2. FloorReached(StoreOf(N), b, price[b])
        <4> DEFINE M == store.main
        <4>1. store = StoreOf(M) /\ OfPair(N, b) = OfPair(M, b)
          BY <1>4, <3>1
        <4> HIDE DEF M
        <4>2. FloorReached(StoreOf(M), b, price[b])
          BY <2>9, <4>1
        <4> QED BY <4>1, <4>2, SameFloor
      <3>3. b # c.bcoin
        BY <1>3, <2>2, <3>2
      <3> QED BY <2>1, <2>5, <3>1, <3>3, OtherPairs
    <2> HIDE DEF K
    <2>10. LikeBefore(K)
      BY <2>6, <2>7, <2>8, <2>9 DEF LikeBefore
    <2>11. new = StoreOf(K)
      BY <1>3, <2>6
    <2>12. paid \in Nat
      BY <1>2, <2>4
    <2> HIDE DEF new, paid
    <2> DEFINE r == [s EXCEPT !.store = new, !.paid = paid]
    <2>13. r = [ok |-> s.ok, store |-> new, paid |-> paid]
      <3>1. s = [ok |-> s.ok, store |-> s.store, paid |-> s.paid]
        BY <1>2
      <3> DEFINE m == [s EXCEPT !.store = new]
      <3>2. m = [ok |-> s.ok, store |-> new, paid |-> s.paid]
        BY ONLY <3>1
      <3> HIDE DEF m
      <3>3. [m EXCEPT !.paid = paid] = [ok |-> s.ok, store |-> new, paid |-> paid]
        BY ONLY <3>2
      <3> QED BY <3>3 DEF m
    <2> HIDE DEF r
    <2>14. r \in Settled
      BY <1>2, <1>5, <2>6, <2>10, <2>11, <2>12, <2>13
    <2>15. SettleOne(s, id) = r
      BY <1>1, <1>7 DEF r
    <2> QED BY <2>14, <2>15
  <1> QED BY <1>6, <1>7

LEMMA SettleInterestKeeps ==
  ASSUME CdpAssumption, CdpInv, NEW n \in Nat, NEW list \in [1 .. n -> CdpId],
         SettleInterest(list)
  PROVE  CdpInv' /\ LockedPairKept
  <1> DEFINE M == store.main
             base == [ok |-> TRUE, store |-> store, paid |-> 0]
             Settles(f) == f = [S \in SUBSET DOMAIN list |->
                IF S = {} THEN base ELSE SettleOne(f[S \ {Max(S)}], list[Max(S)])]
             e == CHOOSE f : Settles(f)
             step == [p \in Settled \X (1 .. n) |-> SettleOne(p[1], list[p[2]])]
             end == e[DOMAIN list]
  <1>1. FoldLeft(SettleOne, base, list) = end
    BY DEF FoldLeft, MapThenFoldSet
  <1>2. /\ R3 /\ store' = end.store /\ scoinsFrozen' = scoinsFrozen + end.paid
        /\ UNCHANGED <<scoins, bcoins, pledged, reserve, onSale, fcoins, price, cdpHeight>>
    BY <1>1 DEF SettleInterest
  <1>3. PositionSet(M) /\ store = StoreOf(M) /\ AccountsTyped /\ Backed(M, pledged)
        /\ BcoinsConserved /\ DebtIsCollateralised
    BY DEF CdpInv
  <1>4. base \in Settled
    <2>1. M \in SUBSET Position /\ LikeBefore(M)
      BY <1>3 DEF LikeBefore, PositionSet, DebtIsCollateralised
    <2>2. base.store.main = M
      OBVIOUS
    <2> HIDE DEF M
    <2>3. base \in [ok : BOOLEAN, store : {StoreOf(N) : N \in SUBSET Position}, paid : Nat]
      BY <1>3, <2>1
    <2> QED BY <2>1, <2>2, <2>3 DEF Settled
  <1>5. DOMAIN list = 1 .. n
    OBVIOUS
  <1>6. \A s \in Settled, i \in 1 .. n :
          step[<<s, i>>] = SettleOne(s, list[i]) /\ step[<<s, i>>] \in Settled
    BY SettleStays
  <1> HIDE DEF base
  <1>7. PICK f : FoldsTo(step, base, n, f)
    <2> HIDE DEF step
    <2> QED BY FoldExists
  <1>8. \A S \in SUBSET (1 .. n) : f[S] \in Settled
    <2> HIDE DEF step
    <2> QED BY <1>4, <1>6, <1>7, FoldStays
  <1>9. Settles(f)
    <2> HIDE DEF step
    <2>1. ASSUME NEW S \in SUBSET (1 .. n)
          PROVE  f[S] = IF S = {} THEN base ELSE SettleOne(f[S \ {Max(S)}], list[Max(S)])
      <3>1. f[S] = IF S = {} THEN base ELSE step[<<f[S \ {Max(S)}], Max(S)>>]
        BY <1>7 DEF FoldsTo
      <3>2. CASE S # {}
        <4>1. Max(S) \in 1 .. n /\ S \ {Max(S)} \in SUBSET (1 .. n)
          BY <3>2, MaxIsThere
        <4> QED BY <1>6, <1>8, <3>1, <3>2, <4>1
      <3> QED BY <3>1, <3>2
    <2>2. f = [S \in SUBSET (1 .. n) |-> f[S]]
      BY <1>7 DEF FoldsTo
    <2> QED BY <1>5, <2>1, <2>2
  <1>10. Settles(e)
    <2> HIDE DEF Settles
    <2> QED BY <1>9
  <1> HIDE DEF e
  <1>11. \A S \in SUBSET (1 .. n) :
           e[S] = IF S = {} THEN base ELSE SettleOne(e[S \ {Max(S)}], list[Max(S)])
    BY <1>5, <1>10
  <1>12. end \in Settled
    <2> DEFINE good == {k \in Nat : k <= n => \A S \in SUBSET (1 .. k) : e[S] \in Settled}
    <2>1. 0 \in good
      <3>1. \A S \in SUBSET (1 .. 0) : S = {} /\ S \in SUBSET (1 .. n)
        OBVIOUS
      <3> QED BY <1>4, <1>11, <3>1
    <2>2. ASSUME NEW k \in good PROVE k + 1 \in good
      <3> SUFFICES ASSUME k + 1 <= n, NEW S \in SUBSET (1 .. k + 1) PROVE e[S] \in Settled
        OBVIOUS
      <3>1. k \in Nat /\ k <= n /\ \A T \in SUBSET (1 .. k) : e[T] \in Settled
        OBVIOUS
      <3>2. S \in SUBSET (1 .. n)
        BY <3>1
      <3>3. CASE k + 1 \in S
        <4>1. Max(S) = k + 1
          <5>1. k + 1 \in Nat \ {0}
            BY <3>1
          <5> QED BY <3>3, <5>1, MaxOfInterval
        <4>2. S \ {k + 1} \in SUBSET (1 .. k) /\ k + 1 \in 1 .. n
          BY <3>1
        <4>3. e[S \ {k + 1}] \in Settled
          BY <3>1, <4>2
        <4>4. SettleOne(e[S \ {k + 1}], list[k + 1]) \in Settled
          BY <4>3, SettleStays
        <4> QED BY <1>11, <3>2, <3>3, <4>1, <4>4
      <3>4. CASE k + 1 \notin S
        <4>1. S \in SUBSET (1 .. k)
          BY <3>1, <3>4
        <4> QED BY <3>1, <4>1
      <3> QED BY <3>3, <3>4
    <2>3. n \in good
      <3>1. good \in SUBSET Nat
        OBVIOUS
      <3> HIDE DEF good
      <3> QED BY <2>1, <2>2, <3>1, NatClosed
    <2> QED BY <1>5, <2>3
  <1> HIDE DEF end, M
  <1> DEFINE N == end.store.main
  <1>13. LikeBefore(N) /\ end.store = StoreOf(N) /\ end.paid \in Nat
    <2>1. PICK K \in SUBSET Position : end.store = StoreOf(K)
      BY <1>12 DEF Settled
    <2> QED BY <1>12, <2>1, MainOf DEF Settled
  <1> HIDE DEF N
  <1>14. store' = StoreOf(N) /\ store'.main = N
    BY <1>2, <1>13, MainOf
  <1>15. AccountsTyped'
    BY <1>2, <1>3, <1>13 DEF AccountsTyped
  <1>16. BcoinsConserved'
    BY <1>2, <1>3 DEF BcoinsConserved, InAccounts
  <1>17. PositionSet(N) /\ Backed(N, pledged') /\ DebtIsCollateralised'
    BY <1>2, <1>13, <1>14 DEF LikeBefore, DebtIsCollateralised
  <1>18. LockedPairKept
    BY <1>2, <1>13, <1>14 DEF LikeBefore, LockedPairKept, OfPair
  <1> QED BY <1>2, <1>14, <1>15, <1>16, <1>17, <1>18 DEF CdpInv

-----------------------------------------------------------------------------
(* Closing positions out of the reserve.                                   *)

LEMMA BaseRatioIsNat ==
  ASSUME NEW c \in Position
  PROVE  BaseRatio(c) \in Nat /\ c.height \in Nat /\ c.id \in CdpId
  <1>1. c.staked \in Nat /\ c.owed \in Nat /\ c.height \in Nat /\ c.id \in CdpId
    BY DEF Position
  <1>2. CASE c.owed = 0
    BY <1>1, <1>2 DEF BaseRatio, Infinite
  <1>3. CASE c.owed # 0
    <2>1. 10000 * c.staked \in Nat
      BY <1>1
    <2>2. (10000 * c.staked) \div c.owed \in Nat
      BY <1>1, <1>3, <2>1, Amounts
    <2> QED BY <1>1, <1>3, <2>2 DEF BaseRatio
  <1> QED BY <1>2, <1>3

(* The index orders the positions. *)
LEMMA IndexOrders ==
  ASSUME CdpAssumption, NEW M, PositionSet(M)
  PROVE  /\ \A c, d \in M : NotAfter(c, d) \/ NotAfter(d, c)
         /\ \A c, d, e \in M : NotAfter(c, d) /\ NotAfter(d, e) => NotAfter(c, e)
         /\ \A c \in M : NotAfter(c, c)
  <1>1. \A c \in M : BaseRatio(c) \in Nat /\ c.height \in Nat /\ c.id \in Nat
    <2>1. M \subseteq Position
      BY DEF PositionSet
    <2>2. CdpId \subseteq Nat
      BY DEF CdpAssumption
    <2> QED BY <2>1, <2>2, BaseRatioIsNat
  <1> DEFINE r == [c \in M |-> BaseRatio(c)]
             h == [c \in M |-> c.height]
             i == [c \in M |-> c.id]
  <1>2. \A c \in M : r[c] \in Nat /\ h[c] \in Nat /\ i[c] \in Nat
    BY <1>1
  <1>3. \A c, d \in M : NotAfter(c, d) <=> \/ r[c] < r[d]
                                           \/ r[c] = r[d] /\ h[c] < h[d]
                                           \/ r[c] = r[d] /\ h[c] = h[d] /\ i[c] <= i[d]
    BY DEF NotAfter
  <1> HIDE DEF r, h, i
  <1>4. \A c, d \in M : NotAfter(c, d) \/ NotAfter(d, c)
    BY <1>2, <1>3
  <1>5. \A c, d, e \in M : NotAfter(c, d) /\ NotAfter(d, e) => NotAfter(c, e)
    BY <1>2, <1>3
  <1>6. \A c \in M : NotAfter(c, c)
    BY <1>2, <1>3
  <1> QED BY <1>4, <1>5, <1>6

(* What a part owes is no more than what all owe. *)
LEMMA OwedInPart ==
  ASSUME NEW M, M \subseteq Position, IsFiniteSet(M), NEW S \in SUBSET M
  PROVE  Owed(S) \in Nat /\ Owed(M) \in Nat /\ Owed(S) <= Owed(M)
  <1>1. Owed(M) = Owed(S) + Owed(M \ S) /\ Owed(S) \in Nat /\ Owed(M \ S) \in Nat
    BY PartAndRest
  <1> QED BY <1>1

(* The first positions of a set that fit: no more than the room there is,  *)
(* owing no more than the reserve has, and none after one that is left.    *)
LEMMA FirstFit ==
  ASSUME CdpAssumption, NEW M, PositionSet(M), NEW due \in SUBSET M,
         NEW room \in Nat, NEW funds \in Nat, NEW taken \in SUBSET due,
         \A e \in due :
           e \in taken <=> Cardinality(Upto(due, e)) <= room /\ Owed(Upto(due, e)) <= funds
  PROVE  /\ Cardinality(taken) \in Nat /\ Cardinality(taken) <= room
         /\ Owed(taken) \in Nat /\ Owed(taken) <= funds
         /\ \A c \in taken, d \in due : NotAfter(d, c) => d \in taken
  <1>1. M \subseteq Position /\ IsFiniteSet(M) /\ due \subseteq Position /\ IsFiniteSet(due)
        /\ taken \in SUBSET due /\ taken \subseteq Position /\ IsFiniteSet(taken)
    BY FS_Subset DEF PositionSet
  <1>2. \A e \in due : Upto(due, e) \in SUBSET due /\ IsFiniteSet(Upto(due, e))
                       /\ Upto(due, e) \subseteq Position
    BY <1>1, FS_Subset DEF Upto
  <1>3. \A e \in due : Cardinality(Upto(due, e)) \in Nat /\ Owed(Upto(due, e)) \in Nat
    BY <1>2, FS_CardinalityType, PositionsAdd
  <1>4. ASSUME NEW c \in due, NEW d \in due, NotAfter(d, c)
        PROVE  /\ Upto(due, d) \in SUBSET Upto(due, c)
               /\ Cardinality(Upto(due, d)) <= Cardinality(Upto(due, c))
               /\ Owed(Upto(due, d)) <= Owed(Upto(due, c))
    <2>1. Upto(due, d) \in SUBSET Upto(due, c)
      <3>1. \A f \in due : NotAfter(f, d) => NotAfter(f, c)
        BY <1>4, IndexOrders
      <3> QED BY <3>1 DEF Upto
    <2>2. Cardinality(Upto(due, d)) <= Cardinality(Upto(due, c))
      BY <1>2, <2>1, FS_Subset
    <2>3. Owed(Upto(due, d)) <= Owed(Upto(due, c))
      BY <1>2, <2>1, OwedInPart
    <2> QED BY <2>1, <2>2, <2>3
  <1>5. \A c \in taken, d \in due : NotAfter(d, c) => d \in taken
    <2> SUFFICES ASSUME NEW c \in taken, NEW d \in due, NotAfter(d, c) PROVE d \in taken
      OBVIOUS
    <2>1. c \in due /\ Cardinality(Upto(due, c)) <= room /\ Owed(Upto(due, c)) <= funds
      OBVIOUS
    <2>2. Cardinality(Upto(due, d)) <= Cardinality(Upto(due, c))
          /\ Owed(Upto(due, d)) <= Owed(Upto(due, c))
      BY <1>4, <2>1
    <2>3. Cardinality(Upto(due, d)) <= room /\ Owed(Upto(due, d)) <= funds
      BY <1>3, <2>1, <2>2
    <2> QED BY <2>3
  <1>6. Cardinality(taken) \in Nat /\ Owed(taken) \in Nat
    BY <1>1, FS_CardinalityType, PositionsAdd
  <1>7. CASE taken = {}
    <2>1. Cardinality({}) = 0
      BY FS_EmptySet
    <2>2. Owed({}) = 0
      <3>1. Owed({}) = SumFunctionOnSet(OwedBy({}), {})
        BY DEF Owed, OwedBy
      <3>2. Summable(OwedBy({}), {})
        BY FS_EmptySet DEF Summable
      <3> QED BY <3>1, <3>2, SumBasics
    <2> QED BY <1>5, <1>7, <2>1, <2>2
  <1>8. CASE taken # {}
    <2> DEFINE n == [e \in taken |-> Cardinality(Upto(due, e))]
    <2>1. \A e \in taken : n[e] \in Nat
      BY <1>1, <1>3
    <2>2. PICK e \in taken : \A f \in taken : n[f] <= n[e]
      <3> HIDE DEF n
      <3> QED BY <1>1, <1>8, <2>1, LargestExists
    <2>3. \A f \in taken : Cardinality(Upto(due, f)) <= Cardinality(Upto(due, e))
      BY <2>2
    <2>4. e \in due /\ e \in M
      BY <1>1
    <2>5. ASSUME NEW f \in taken PROVE f \in Upto(due, e)
      <3>0. f \in due /\ f \in M
        BY <1>1
      <3>1. CASE NotAfter(f, e)
        BY <3>0, <3>1 DEF Upto
      <3>2. CASE ~NotAfter(f, e)
        <4>1. NotAfter(e, f) /\ NotAfter(f, f)
          BY <2>4, <3>0, <3>2, IndexOrders
        <4>2. Upto(due, e) \in SUBSET Upto(due, f)
              /\ Cardinality(Upto(due, e)) <= Cardinality(Upto(due, f))
          BY <1>4, <2>4, <3>0, <4>1
        <4>3. Cardinality(Upto(due, e)) = Cardinality(Upto(due, f))
          BY <1>3, <2>3, <2>4, <3>0, <4>2
        <4>4. Upto(due, e) = Upto(due, f)
          BY <1>2, <3>0, <4>2, <4>3, FS_Subset
        <4>5. f \in Upto(due, f)
          BY <3>0, <4>1 DEF Upto
        <4> QED BY <4>4, <4>5
      <3> QED BY <3>1, <3>2
    <2>6. taken \in SUBSET Upto(due, e)
      BY <2>5
    <2>7. Cardinality(taken) <= Cardinality(Upto(due, e))
      BY <1>2, <2>4, <2>6, FS_Subset
    <2>8. Owed(taken) <= Owed(Upto(due, e))
      BY <1>2, <2>4, <2>6, OwedInPart
    <2>9. Cardinality(Upto(due, e)) <= room /\ Owed(Upto(due, e)) <= funds
      OBVIOUS
    <2> QED BY <1>3, <1>5, <1>6, <2>4, <2>7, <2>8, <2>9
  <1> QED BY <1>7, <1>8

(* What the loop over the pairs has closed so far, out of the reserve and  *)
(* the limit of the block.                                                 *)
Loops == [closed : SUBSET store.main, reserve : Nat, left : Nat]

(* What one pair adds to it. *)
Taken(prices, b, taken, funds, room) ==
  /\ taken \in SUBSET OfPair(store.main, b)
  /\ Owed(taken) \in Nat /\ Owed(taken) <= funds
  /\ Cardinality(taken) \in Nat /\ Cardinality(taken) <= room
  /\ \A c \in taken, d \in OfPair(store.main, b) : NotAfter(d, c) => d \in taken
  /\ taken # {} => ~FloorReached(store, b, prices[b])

LEMMA PairTakes ==
  ASSUME CdpAssumption, CdpInv, NEW prices \in [Bcoin -> Nat], NEW s \in Loops, NEW b \in Bcoin
  PROVE  \E taken : \E left \in Nat :
           /\ LiquidatePair(prices, s, b)
                = [closed |-> s.closed \cup taken, reserve |-> s.reserve - Owed(taken),
                   left |-> left]
           /\ Taken(prices, b, taken, s.reserve, s.left)
           /\ left <= s.left /\ (left = 0 \/ left + Cardinality(taken) <= s.left)
  <1> DEFINE M == store.main
  <1>1. /\ s = [closed |-> s.closed, reserve |-> s.reserve, left |-> s.left]
        /\ s.closed \in SUBSET M /\ s.reserve \in Nat /\ s.left \in Nat
    BY DEF Loops
  <1>2. PositionSet(M) /\ store = StoreOf(M)
    BY DEF CdpInv
  <1>3. store.ratio = M
    <2> HIDE DEF M
    <2> QED BY <1>2 DEF StoreOf
  <1>4. CASE prices[b] = 0 \/ FloorReached(store, b, prices[b])
    <2>1. LiquidatePair(prices, s, b) = s
      BY <1>4 DEF LiquidatePair
    <2>2. Owed({}) = 0 /\ Cardinality({}) = 0
      <3>1. Owed({}) = SumFunctionOnSet(OwedBy({}), {})
        BY DEF Owed, OwedBy
      <3>2. Summable(OwedBy({}), {})
        BY FS_EmptySet DEF Summable
      <3> QED BY <3>1, <3>2, SumBasics, FS_EmptySet
    <2>3. s.closed \cup {} = s.closed /\ s.reserve - Owed({}) = s.reserve
      BY <1>1, <2>2
    <2>4. s = [closed |-> s.closed \cup {}, reserve |-> s.reserve - Owed({}), left |-> s.left]
      BY <1>1, <2>3
    <2>5. Taken(prices, b, {}, s.reserve, s.left)
      BY <1>1, <2>2 DEF Taken
    <2>6. s.left <= s.left /\ s.left + Cardinality({}) <= s.left
      BY <1>1, <2>2
    <2> QED BY <1>1, <2>1, <2>4, <2>5, <2>6
  <1>5. CASE ~(prices[b] = 0 \/ FloorReached(store, b, prices[b]))
    <2> DEFINE p == prices[b]
               due == Due(b, p)
               taken == {e \in due : Cardinality(Upto(due, e)) <= s.left
                                     /\ Owed(Upto(due, e)) <= s.reserve}
               count == IF taken = due THEN Cardinality(due) ELSE Cardinality(taken) + 1
               left == IF count >= s.left THEN 0 ELSE s.left - count
    <2>1. LiquidatePair(prices, s, b)
            = [closed |-> s.closed \cup taken, reserve |-> s.reserve - Owed(taken), left |-> left]
      BY <1>5 DEF LiquidatePair
    <2>2. due \in SUBSET M /\ due \in SUBSET OfPair(M, b)
          /\ \A e \in OfPair(M, b) : e \in due <=> BaseRatio(e) <= (100 * ForceRatio) \div p
      BY <1>3 DEF Due, OfPair
    <2>3. /\ taken \in SUBSET due
          /\ \A e \in due : e \in taken <=> /\ Cardinality(Upto(due, e)) <= s.left
                                          /\ Owed(Upto(due, e)) <= s.reserve
      OBVIOUS
    <2> HIDE DEF taken
    <2>4. /\ Cardinality(taken) \in Nat /\ Cardinality(taken) <= s.left
          /\ Owed(taken) \in Nat /\ Owed(taken) <= s.reserve
          /\ \A c \in taken, d \in due : NotAfter(d, c) => d \in taken
      <3> HIDE DEF M, due
      <3> QED BY <1>1, <1>2, <2>2, <2>3, FirstFit
    <2>5. count \in Nat /\ Cardinality(taken) <= count
      BY <2>4
    <2> HIDE DEF count
    <2>6. left \in Nat /\ left <= s.left /\ (left = 0 \/ left + Cardinality(taken) <= s.left)
      BY <1>1, <2>4, <2>5
    <2>7. ASSUME NEW c \in taken, NEW d \in OfPair(M, b), NotAfter(d, c) PROVE d \in taken
      <3>1. c \in due /\ c \in OfPair(M, b)
        BY <2>2, <2>3
      <3>2. BaseRatio(d) <= BaseRatio(c)
        <4>1. c \in Position /\ d \in Position
          BY <1>2, <3>1 DEF PositionSet, OfPair
        <4>2. BaseRatio(c) \in Nat /\ BaseRatio(d) \in Nat
          BY <4>1, BaseRatioIsNat
        <4> QED BY <2>7, <4>2 DEF NotAfter
      <3> DEFINE bound == (100 * ForceRatio) \div p
      <3>3. BaseRatio(c) <= bound
        BY <2>2, <3>1
      <3>4. bound \in Nat
        <4>1. p \in Nat \ {0} /\ ForceRatio \in Nat
          BY <1>5 DEF CdpAssumption
        <4> HIDE DEF p
        <4>2. 100 * ForceRatio \in Nat
          BY <4>1
        <4> QED BY <4>1, <4>2, Amounts
      <3>5. BaseRatio(d) <= bound
        <4> HIDE DEF bound
        <4>1. c \in Position /\ d \in Position
          BY <1>2, <3>1 DEF PositionSet, OfPair
        <4>2. BaseRatio(c) \in Nat /\ BaseRatio(d) \in Nat
          BY <4>1, BaseRatioIsNat
        <4> QED BY <3>2, <3>3, <3>4, <4>2
      <3>6. d \in due
        BY <2>2, <3>5
      <3> QED BY <2>4, <2>7, <3>6
    <2>8. Taken(prices, b, taken, s.reserve, s.left)
      BY <1>5, <2>2, <2>3, <2>4, <2>7 DEF Taken
    <2> HIDE DEF left
    <2> QED BY <2>1, <2>6, <2>8
  <1> QED BY <1>4, <1>5

(* The loop after the first pairs. *)
ClosedSoFar(prices, s, j) ==
  /\ s \in Loops
  /\ s.reserve + Owed(s.closed) = reserve
  /\ Cardinality(s.closed) \in Nat /\ Cardinality(s.closed) + s.left <= ForceLimit
  /\ \A c \in s.closed : /\ \E i \in 1 .. j : PairOrder[i] = c.bcoin
                         /\ ~FloorReached(store, c.bcoin, prices[c.bcoin])
  /\ \A c \in s.closed, d \in store.main :
       d.bcoin = c.bcoin /\ NotAfter(d, c) => d \in s.closed

LEMMA ClosedOnePairMore ==
  ASSUME CdpAssumption, CdpInv, NEW prices \in [Bcoin -> Nat],
         NEW j \in 1 .. Len(PairOrder), NEW s, ClosedSoFar(prices, s, j - 1)
  PROVE  ClosedSoFar(prices, LiquidatePair(prices, s, PairOrder[j]), j)
  <1> DEFINE M == store.main
             b == PairOrder[j]
             t == LiquidatePair(prices, s, b)
  <1>1. PositionSet(M) /\ M \subseteq Position /\ IsFiniteSet(M)
    BY DEF CdpInv, PositionSet
  <1>2. PairOrder \in Seq(Bcoin) /\ IsInjective(PairOrder) /\ DOMAIN PairOrder = 1 .. Len(PairOrder)
    <2>1. PairOrder \in Seq(Bcoin) /\ IsInjective(PairOrder)
      BY DEF CdpAssumption, BcoinsListedOnce, Bcoin
    <2> QED BY <2>1
  <1>3. b \in Bcoin
    BY <1>2
  <1>4. s \in Loops /\ s.closed \in SUBSET M /\ s.reserve \in Nat /\ s.left \in Nat
    BY DEF ClosedSoFar, Loops
  <1> HIDE DEF b
  <1>5. PICK taken : \E left \in Nat :
           /\ t = [closed |-> s.closed \cup taken, reserve |-> s.reserve - Owed(taken),
                   left |-> left]
           /\ Taken(prices, b, taken, s.reserve, s.left)
           /\ left <= s.left /\ (left = 0 \/ left + Cardinality(taken) <= s.left)
    BY <1>3, <1>4, PairTakes
  <1>6. PICK left \in Nat :
           /\ t = [closed |-> s.closed \cup taken, reserve |-> s.reserve - Owed(taken),
                   left |-> left]
           /\ Taken(prices, b, taken, s.reserve, s.left)
           /\ left <= s.left /\ (left = 0 \/ left + Cardinality(taken) <= s.left)
    BY <1>5
  <1> HIDE DEF t
  <1>7. /\ taken \in SUBSET M /\ \A c \in taken : c.bcoin = b
        /\ Owed(taken) \in Nat /\ Owed(taken) <= s.reserve
        /\ Cardinality(taken) \in Nat /\ Cardinality(taken) <= s.left
        /\ \A c \in taken, d \in M : d.bcoin = b /\ NotAfter(d, c) => d \in taken
        /\ taken # {} => ~FloorReached(store, b, prices[b])
    BY <1>6 DEF Taken, OfPair
  <1>8. s.closed \cap taken = {}
    <2> SUFFICES ASSUME NEW c \in s.closed, c \in taken PROVE FALSE
      OBVIOUS
    <2>1. c.bcoin = b
      BY <1>7
    <2>2. PICK i \in 1 .. (j - 1) : PairOrder[i] = c.bcoin
      BY DEF ClosedSoFar
    <2>3. i \in 1 .. Len(PairOrder) /\ i # j
      BY <2>2
    <2> QED BY <1>2, <2>1, <2>2, <2>3 DEF IsInjective, b
  <1> DEFINE N == s.closed \cup taken
  <1>9. /\ t.closed = N /\ t.reserve = s.reserve - Owed(taken) /\ t.left = left
        /\ N \in SUBSET M
    BY <1>4, <1>6, <1>7
  <1>10. t \in Loops
    BY <1>4, <1>6, <1>7, <1>9 DEF Loops
  <1>11. Owed(N) = Owed(s.closed) + Owed(taken) /\ Owed(s.closed) \in Nat
    <2>1. N \subseteq Position /\ IsFiniteSet(N)
      BY <1>1, <1>9, FS_Subset
    <2>2. s.closed \in SUBSET N /\ N \ s.closed = taken
      BY <1>8
    <2> HIDE DEF N
    <2> QED BY <2>1, <2>2, PartAndRest
  <1>12. Cardinality(N) = Cardinality(s.closed) + Cardinality(taken) /\ Cardinality(s.closed) \in Nat
    <2>1. IsFiniteSet(s.closed) /\ IsFiniteSet(taken)
      BY <1>1, <1>4, <1>7, FS_Subset
    <2>2. Cardinality(s.closed) \in Nat
      BY <2>1, FS_CardinalityType
    <2>3. Cardinality(N) = Cardinality(s.closed) + Cardinality(taken) - Cardinality(s.closed \cap taken)
      BY <2>1, FS_Union
    <2>4. Cardinality(s.closed \cap taken) = 0
      BY <1>8, FS_EmptySet
    <2> QED BY <1>7, <2>2, <2>3, <2>4
  <1>13. t.reserve + Owed(t.closed) = reserve
    <2>1. s.reserve + Owed(s.closed) = reserve
      BY DEF ClosedSoFar
    <2> QED BY <1>4, <1>7, <1>9, <1>11, <2>1
  <1>14. Cardinality(t.closed) \in Nat /\ Cardinality(t.closed) + t.left <= ForceLimit
    <2>1. Cardinality(s.closed) + s.left <= ForceLimit /\ ForceLimit \in Nat
      BY DEF ClosedSoFar, CdpAssumption
    <2>2. left <= s.left /\ (left = 0 \/ left + Cardinality(taken) <= s.left)
      BY <1>6
    <2>3. Cardinality(t.closed) = Cardinality(s.closed) + Cardinality(taken) /\ t.left = left
      BY <1>9, <1>12
    <2> HIDE DEF N
    <2> DEFINE old  == Cardinality(s.closed)
               more == Cardinality(taken)
               now  == Cardinality(t.closed)
               had  == s.left
    <2>4. old \in Nat /\ more \in Nat /\ more <= had /\ had \in Nat /\ left \in Nat
      BY <1>4, <1>7, <1>12
    <2>5. now = old + more /\ old + had <= ForceLimit /\ ForceLimit \in Nat
          /\ left <= had /\ (left = 0 \/ left + more <= had)
      BY <2>1, <2>2, <2>3
    <2> HIDE DEF old, more, now, had
    <2>6. now \in Nat /\ now + left <= ForceLimit
      BY <2>4, <2>5
    <2> QED BY <2>3, <2>6 DEF now
  <1>15. ASSUME NEW c \in N
         PROVE  /\ \E i \in 1 .. j : PairOrder[i] = c.bcoin
                /\ ~FloorReached(store, c.bcoin, prices[c.bcoin])
    <2>1. CASE c \in s.closed
      <3>1. PICK i \in 1 .. (j - 1) : PairOrder[i] = c.bcoin
        BY <2>1 DEF ClosedSoFar
      <3>2. i \in 1 .. j
        BY <3>1
      <3>3. ~FloorReached(store, c.bcoin, prices[c.bcoin])
        BY <2>1 DEF ClosedSoFar
      <3> QED BY <3>1, <3>2, <3>3
    <2>2. CASE c \in taken
      <3>1. j \in 1 .. j /\ PairOrder[j] = c.bcoin
        BY <1>7, <2>2 DEF b
      <3> QED BY <1>7, <2>2, <3>1
    <2> QED BY <2>1, <2>2
  <1>16. ASSUME NEW c \in N, NEW d \in M, d.bcoin = c.bcoin, NotAfter(d, c) PROVE d \in N
    <2>1. CASE c \in s.closed
      BY <1>16, <2>1 DEF ClosedSoFar
    <2>2. CASE c \in taken
      BY <1>7, <1>16, <2>2
    <2> QED BY <2>1, <2>2
  <1> HIDE DEF N
  <1>17. ClosedSoFar(prices, t, j)
    BY <1>9, <1>10, <1>13, <1>14, <1>15, <1>16 DEF ClosedSoFar
  <1> QED BY <1>17 DEF t, b

(* The loop over all pairs. *)
LEMMA LoopEnds ==
  ASSUME CdpAssumption, CdpInv, NEW prices \in [Bcoin -> Nat], NEW start,
         ClosedSoFar(prices, start, 0)
  PROVE  ClosedSoFar(prices, FoldLeft(LAMBDA s, b : LiquidatePair(prices, s, b), start, PairOrder),
                     Len(PairOrder))
  <1> DEFINE n == Len(PairOrder)
             Liquidates(f) == f = [S \in SUBSET DOMAIN PairOrder |->
                IF S = {} THEN start
                ELSE LiquidatePair(prices, f[S \ {Max(S)}], PairOrder[Max(S)])]
             e == CHOOSE f : Liquidates(f)
             step == [p \in Loops \X (1 .. n) |-> LiquidatePair(prices, p[1], PairOrder[p[2]])]
             end == e[DOMAIN PairOrder]
  <1>1. FoldLeft(LAMBDA s, b : LiquidatePair(prices, s, b), start, PairOrder) = end
    BY DEF FoldLeft, MapThenFoldSet
  <1>2. n \in Nat /\ PairOrder \in [1 .. n -> Bcoin] /\ DOMAIN PairOrder = 1 .. n
    <2>1. PairOrder \in Seq(Bcoin)
      BY DEF CdpAssumption, BcoinsListedOnce, Bcoin
    <2> QED BY <2>1
  <1>3. start \in Loops
    BY DEF ClosedSoFar
  <1>4. ASSUME NEW s \in Loops, NEW b \in Bcoin PROVE LiquidatePair(prices, s, b) \in Loops
    <2> DEFINE t == LiquidatePair(prices, s, b)
    <2>1. PICK taken : \E left \in Nat :
             /\ t = [closed |-> s.closed \cup taken, reserve |-> s.reserve - Owed(taken),
                     left |-> left]
             /\ Taken(prices, b, taken, s.reserve, s.left)
      BY PairTakes
    <2>2. PICK left \in Nat :
             /\ t = [closed |-> s.closed \cup taken, reserve |-> s.reserve - Owed(taken),
                     left |-> left]
             /\ Taken(prices, b, taken, s.reserve, s.left)
      BY <2>1
    <2>3. s.closed \cup taken \in SUBSET store.main /\ s.reserve - Owed(taken) \in Nat
      BY <2>2 DEF Taken, Loops, OfPair
    <2> HIDE DEF t
    <2>4. t \in Loops
      BY <2>2, <2>3 DEF Loops
    <2> QED BY <2>4 DEF t
  <1> HIDE DEF n
  <1>5. \A s \in Loops, i \in 1 .. n :
          /\ step[<<s, i>>] = LiquidatePair(prices, s, PairOrder[i])
          /\ step[<<s, i>>] \in Loops
    BY <1>2, <1>4
  <1>6. PICK f : FoldsTo(step, start, n, f)
    <2> HIDE DEF step
    <2> QED BY <1>2, FoldExists
  <1>7. \A S \in SUBSET (1 .. n) : f[S] \in Loops
    <2> HIDE DEF step
    <2> QED BY <1>2, <1>3, <1>5, <1>6, FoldStays
  <1>8. Liquidates(f)
    <2> HIDE DEF step
    <2>1. ASSUME NEW S \in SUBSET (1 .. n)
          PROVE  f[S] = IF S = {} THEN start
                        ELSE LiquidatePair(prices, f[S \ {Max(S)}], PairOrder[Max(S)])
      <3>1. f[S] = IF S = {} THEN start ELSE step[<<f[S \ {Max(S)}], Max(S)>>]
        BY <1>6 DEF FoldsTo
      <3>2. CASE S # {}
        <4>1. Max(S) \in 1 .. n /\ S \ {Max(S)} \in SUBSET (1 .. n)
          BY <1>2, <3>2, MaxIsThere
        <4> QED BY <1>5, <1>7, <3>1, <3>2, <4>1
      <3> QED BY <3>1, <3>2
    <2>2. f = [S \in SUBSET (1 .. n) |-> f[S]]
      BY <1>6 DEF FoldsTo
    <2> QED BY <1>2, <2>1, <2>2
  <1>9. Liquidates(e)
    <2> HIDE DEF Liquidates
    <2> QED BY <1>8
  <1> HIDE DEF e
  <1>10. \A S \in SUBSET (1 .. n) :
           e[S] = IF S = {} THEN start
                  ELSE LiquidatePair(prices, e[S \ {Max(S)}], PairOrder[Max(S)])
    BY <1>2, <1>9
  <1> DEFINE good == {j \in Nat : j <= n => ClosedSoFar(prices, e[1 .. j], j)}
  <1>11. 0 \in good
    <2>1. 1 .. 0 = {} /\ 1 .. 0 \in SUBSET (1 .. n)
      OBVIOUS
    <2>2. e[1 .. 0] = start
      BY <1>10, <2>1
    <2> QED BY <2>2
  <1>12. ASSUME NEW j \in good PROVE j + 1 \in good
    <2> SUFFICES ASSUME j + 1 <= n PROVE ClosedSoFar(prices, e[1 .. (j + 1)], j + 1)
      OBVIOUS
    <2> DEFINE k == j + 1
    <2>1. j \in Nat /\ j <= n /\ ClosedSoFar(prices, e[1 .. j], j)
      BY <1>2
    <2>2. k \in 1 .. n /\ k - 1 = j /\ k \in Nat \ {0} /\ 1 .. k \in SUBSET (1 .. n)
          /\ 1 .. k \in SUBSET (1 .. k) /\ k \in 1 .. k /\ (1 .. k) \ {k} = 1 .. j
      BY <1>2, <2>1
    <2> HIDE DEF k, good
    <2>3. Max(1 .. k) = k
      BY <2>2, MaxOfInterval
    <2>4. e[1 .. k] = LiquidatePair(prices, e[1 .. j], PairOrder[k])
      BY <1>10, <2>2, <2>3
    <2>5. ClosedSoFar(prices, e[1 .. j], k - 1) /\ k \in 1 .. Len(PairOrder)
      BY <2>1, <2>2 DEF n
    <2>6. ClosedSoFar(prices, LiquidatePair(prices, e[1 .. j], PairOrder[k]), k)
      BY <2>5, ClosedOnePairMore
    <2> QED BY <2>4, <2>6 DEF k
  <1>13. n \in good
    <2>1. good \in SUBSET Nat
      OBVIOUS
    <2> HIDE DEF good
    <2> QED BY <1>2, <1>11, <1>12, <2>1, NatClosed
  <1>14. ClosedSoFar(prices, end, n)
    BY <1>2, <1>13
  <1> QED BY <1>1, <1>14 DEF n

(* What all users have staked of a bcoin is what its positions hold. *)
LEMMA UsersAdd ==
  ASSUME CdpAssumption, NEW S, S \subseteq Position, IsFiniteSet(S), NEW b \in Bcoin
  PROVE  SumFunctionOnSet([u \in User |-> Staked(OfUser(S, u, b))], User) = Staked(OfPair(S, b))
  <1> DEFINE f(T) == [u \in User |-> Staked(OfUser(T, u, b))]
             good == {T \in SUBSET S : SumFunctionOnSet(f(T), User) = Staked(OfPair(T, b))}
  <1>0. IsFiniteSet(User)
    BY WorldIsNat
  <1>1. {} \in good
    <2>1. OfPair({}, b) = {} /\ \A u \in User : OfUser({}, u, b) = {}
      BY DEF OfPair, OfUser
    <2>2. Staked({}) = 0
      <3>1. Staked({}) = SumFunctionOnSet(HeldBy({}), {})
        BY DEF Staked, HeldBy
      <3>2. Summable(HeldBy({}), {})
        BY FS_EmptySet DEF Summable
      <3> QED BY <3>1, <3>2, SumBasics
    <2> DEFINE z == f({})
    <2>3. \A u \in User : z[u] = 0
      BY <2>1, <2>2
    <2>4. SumFunctionOnSet(z, User) = 0
      <3> HIDE DEF z
      <3>1. Summable(z, User) /\ {} \in SUBSET User /\ \A u \in User \ {} : z[u] = 0
        BY <1>0, <2>3 DEF Summable
      <3>2. SumFunctionOnSet(z, User) = SumFunctionOnSet(z, {})
        BY <3>1, SumZeros
      <3>3. Summable(z, {})
        BY FS_EmptySet DEF Summable
      <3> QED BY <3>2, <3>3, SumBasics
    <2> QED BY <2>1, <2>2, <2>4
  <1>2. ASSUME NEW T \in good, NEW c \in S \ T PROVE T \cup {c} \in good
    <2> DEFINE g == f(T)
               h == f(T \cup {c})
               d == IF c.bcoin = b THEN c.staked ELSE 0
               w == c.owner
    <2>1. T \in SUBSET S /\ T \subseteq Position /\ IsFiniteSet(T) /\ c \in Position /\ c \notin T
          /\ SumFunctionOnSet(g, User) = Staked(OfPair(T, b))
      BY FS_Subset
    <2>2. w \in User /\ d \in Nat /\ c.staked \in Nat
      BY <2>1 DEF Position
    <2>3. ASSUME NEW u \in User
          PROVE  h[u] = g[u] + Share(c, u, b) /\ g[u] \in Nat
      <3>1. /\ Staked(OfUser(T \cup {c}, u, b)) = Staked(OfUser(T, u, b)) + Share(c, u, b)
            /\ Staked(OfUser(T, u, b)) \in Nat
        <4>1. Staked(OfUser(T \cup {c}, u, b)) = Staked(OfUser(T, u, b)) + Share(c, u, b)
          BY <2>1, UserMore
        <4>2. Staked(OfUser(T, u, b)) \in Nat
          BY <2>1, UserMore
        <4> QED BY <4>1, <4>2
      <3> QED BY <3>1
    <2> HIDE DEF g, h, f
    <2>4. h[w] = g[w] + d /\ \A u \in User : u # w => h[u] = g[u]
      <3>1. Share(c, w, b) = d /\ \A u \in User : u # w => Share(c, u, b) = 0
        BY DEF Share
      <3> QED BY <2>2, <2>3, <3>1
    <2>5. SumFunctionOnSet(h, User) = SumFunctionOnSet(g, User) + d
      <3>1. \A u \in User : g[u] \in Int
        BY <2>3
      <3> HIDE DEF d, w
      <3> QED BY <1>0, <2>2, <2>4, <3>1, OneAccount
    <2>6. Staked(OfPair(T \cup {c}, b)) = Staked(OfPair(T, b)) + d
      <3> DEFINE P == OfPair(T, b)
      <3>1. P \subseteq Position /\ IsFiniteSet(P) /\ c \notin P
        BY <2>1, FS_Subset DEF OfPair
      <3>2. CASE c.bcoin = b
        <4>1. OfPair(T \cup {c}, b) = P \cup {c}
          BY <3>2 DEF OfPair
        <4> HIDE DEF P
        <4>2. Staked(P \cup {c}) = Staked(P) + c.staked
          BY <2>1, <3>1, OneMorePosition
        <4> QED BY <3>2, <4>1, <4>2 DEF P
      <3>3. CASE c.bcoin # b
        <4>1. OfPair(T \cup {c}, b) = P
          BY <3>3 DEF OfPair
        <4> HIDE DEF P
        <4>2. Staked(P) \in Nat
          BY <3>1, PositionsAdd
        <4> QED BY <3>3, <4>1, <4>2 DEF P
      <3> QED BY <3>2, <3>3
    <2>7. T \cup {c} \in SUBSET S
      BY <2>1
    <2> QED BY <2>1, <2>5, <2>6, <2>7 DEF g, h
  <1>3. S \in good
    <2>1. good \in SUBSET (SUBSET S)
      OBVIOUS
    <2> HIDE DEF good
    <2> QED BY <1>1, <1>2, <2>1, SubsetsClosed
  <1> QED BY <1>3

(* What every user has of a bcoin after positions are closed. *)
LEMMA ReleasedToOrders ==
  ASSUME CdpAssumption, AccountsTyped, NEW S, S \subseteq Position, IsFiniteSet(S), NEW b \in Bcoin
  PROVE  SumFunctionOnSet([u \in User |-> bcoins[u][b] + (pledged[u][b] - Released(S, u, b))], User)
           = SumFunctionOnSet([u \in User |-> bcoins[u][b] + pledged[u][b]], User)
               - Staked(OfPair(S, b))
         /\ SumFunctionOnSet([u \in User |-> bcoins[u][b] + pledged[u][b]], User) \in Int
         /\ Staked(OfPair(S, b)) \in Nat
  <1> DEFINE f == [u \in User |-> bcoins[u][b] + pledged[u][b]]
             g == [u \in User |-> bcoins[u][b] + (pledged[u][b] - Released(S, u, b))]
             r == [u \in User |-> Staked(OfUser(S, u, b))]
  <1>1. IsFiniteSet(User)
    BY WorldIsNat
  <1>2. \A u \in User : bcoins[u][b] \in Nat /\ pledged[u][b] \in Nat
    BY DEF AccountsTyped
  <1>3. ASSUME NEW u \in User PROVE r[u] \in Nat
    <2>1. OfUser(S, u, b) \subseteq Position /\ IsFiniteSet(OfUser(S, u, b))
      BY FS_Subset DEF OfUser
    <2>2. Staked(OfUser(S, u, b)) \in Nat
      BY <2>1, PositionsAdd
    <2> QED BY <2>2
  <1>4. \A u \in User : f[u] \in Int /\ g[u] \in Int /\ f[u] = g[u] + r[u]
    <2> SUFFICES ASSUME NEW u \in User PROVE f[u] \in Int /\ g[u] \in Int /\ f[u] = g[u] + r[u]
      OBVIOUS
    <2>1. Released(S, u, b) = r[u]
      BY DEF Released
    <2>2. f[u] = bcoins[u][b] + pledged[u][b]
          /\ g[u] = bcoins[u][b] + (pledged[u][b] - Released(S, u, b))
      OBVIOUS
    <2> HIDE DEF f, g, r
    <2> QED BY <1>2, <1>3, <2>1, <2>2
  <1>5. SumFunctionOnSet(r, User) = Staked(OfPair(S, b))
    BY UsersAdd
  <1> HIDE DEF f, g, r
  <1>6. Summable(f, User) /\ Summable(g, User) /\ Summable(r, User)
    BY <1>1, <1>3, <1>4 DEF Summable
  <1>7. SumFunctionOnSet(f, User) = SumFunctionOnSet(g, User) + SumFunctionOnSet(r, User)
    BY <1>4, <1>6, SumPlus
  <1>8. SumFunctionOnSet(f, User) \in Int /\ SumFunctionOnSet(g, User) \in Int
    BY <1>6, SumBasics
  <1>9. SumFunctionOnSet(r, User) \in Nat
    BY <1>1, <1>3, SumOfNats
  <1>10. SumFunctionOnSet(g, User) = SumFunctionOnSet(f, User) - SumFunctionOnSet(r, User)
    BY <1>7, <1>8, <1>9
  <1> QED BY <1>5, <1>8, <1>9, <1>10 DEF f, g

LEMMA MedianKeeps ==
  ASSUME CdpAssumption, CdpInv, NEW prices \in [Bcoin -> Nat], NEW fcoinPriced \in BOOLEAN,
         MedianPrices(prices, fcoinPriced)
  PROVE  CdpInv' /\ LockedPairKept /\ Riskiest /\ WithinLimit
  <1> DEFINE M == store.main
             start == [closed |-> {}, reserve |-> reserve, left |-> ForceLimit]
             end == IF fcoinPriced
                    THEN FoldLeft(LAMBDA s, b : LiquidatePair(prices, s, b), start, PairOrder)
                    ELSE start
             C == end.closed
  <1>1. /\ cdpHeight < LastHeight /\ cdpHeight' = cdpHeight + 1 /\ price' = prices
        /\ \A u \in User, b \in Bcoin : pledged[u][b] >= Released(C, u, b)
        /\ store' = FoldSet(LAMBDA c, s : EraseCDP(s, c), store, C)
        /\ reserve' = end.reserve
        /\ pledged' = [u \in User |-> [b \in Bcoin |-> pledged[u][b] - Released(C, u, b)]]
        /\ onSale' = [b \in Bcoin |-> onSale[b] + Staked(OfPair(C, b))]
        /\ fcoins' = fcoins + SumFunctionOnSet([c \in C |-> Shortfall(prices, c)], C)
        /\ UNCHANGED <<scoins, bcoins, scoinsFrozen>>
    BY DEF MedianPrices
  <1>2. PositionSet(M) /\ store = StoreOf(M) /\ AccountsTyped /\ Backed(M, pledged)
        /\ BcoinsConserved /\ DebtIsCollateralised /\ (R3 \/ ScoinsAreOwed)
        /\ M \subseteq Position /\ IsFiniteSet(M)
    BY DEF CdpInv, PositionSet
  <1>3. \E j : ClosedSoFar(prices, end, j)
    <2>1. ClosedSoFar(prices, start, 0)
      <3>1. Owed({}) = 0
        <4>1. Owed({}) = SumFunctionOnSet(OwedBy({}), {})
          BY DEF Owed, OwedBy
        <4>2. Summable(OwedBy({}), {})
          BY FS_EmptySet DEF Summable
        <4> QED BY <4>1, <4>2, SumBasics
      <3>2. Cardinality({}) = 0
        BY FS_EmptySet
      <3>3. reserve \in Nat /\ ForceLimit \in Nat
        BY <1>2 DEF AccountsTyped, CdpAssumption
      <3>4. start.closed = {} /\ start.reserve = reserve /\ start.left = ForceLimit
            /\ start \in Loops
        BY <3>3 DEF Loops
      <3> HIDE DEF start
      <3> QED BY <3>1, <3>2, <3>3, <3>4 DEF ClosedSoFar
    <2>2. ClosedSoFar(prices, FoldLeft(LAMBDA s, b : LiquidatePair(prices, s, b), start, PairOrder),
                      Len(PairOrder))
      <3> HIDE DEF start
      <3> QED BY <2>1, LoopEnds
    <2>3. CASE fcoinPriced
      <3> DEFINE last == FoldLeft(LAMBDA s, b : LiquidatePair(prices, s, b), start, PairOrder)
      <3>1. end = last
        BY <2>3
      <3>2. ClosedSoFar(prices, last, Len(PairOrder))
        BY <2>2
      <3> HIDE DEF last, end
      <3> QED BY <3>1, <3>2
    <2>4. CASE ~fcoinPriced
      <3>1. end = start
        BY <2>4
      <3> HIDE DEF start, end
      <3> QED BY <2>1, <3>1
    <2> QED BY <2>3, <2>4
  <1> HIDE DEF end
  <1>4. /\ C \in SUBSET M /\ end.reserve \in Nat
        /\ end.reserve + Owed(C) = reserve
        /\ Cardinality(C) \in Nat /\ Cardinality(C) <= ForceLimit
        /\ \A c \in C : ~FloorReached(store, c.bcoin, prices[c.bcoin])
        /\ \A c \in C, d \in M : d.bcoin = c.bcoin /\ NotAfter(d, c) => d \in C
    <2>1. PICK j : ClosedSoFar(prices, end, j)
      BY <1>3
    <2>2. end \in Loops /\ Cardinality(C) \in Nat /\ Cardinality(C) + end.left <= ForceLimit
          /\ ForceLimit \in Nat
      BY <2>1 DEF ClosedSoFar, CdpAssumption
    <2>3. end.left \in Nat /\ end.reserve \in Nat /\ C \in SUBSET M
      BY <2>2 DEF Loops
    <2> HIDE DEF C
    <2>4. Cardinality(C) <= ForceLimit
      BY <2>2, <2>3
    <2> QED BY <2>1, <2>2, <2>3, <2>4 DEF ClosedSoFar, C
  <1> DEFINE N == M \ C
  <1>5. C \subseteq Position /\ IsFiniteSet(C) /\ N \subseteq Position
    BY <1>2, <1>4, FS_Subset
  <1> HIDE DEF C, M
  <1>6. FoldSet(LAMBDA c, s : EraseCDP(s, c), StoreOf(M), C) = StoreOf(N) /\ PositionSet(N)
    BY <1>2, <1>4, ClosedKeeps
  <1>7. store' = StoreOf(N)
    <2>1. store' = FoldSet(LAMBDA c, s : EraseCDP(s, c), store, C)
      BY <1>1
    <2>2. store = StoreOf(M)
      BY <1>2
    <2> QED BY <1>6, <2>1, <2>2
  <1>8. store'.main = N
    BY <1>7, MainOf
  <1> HIDE DEF N
  <1>9. \A u \in User, b \in Bcoin : pledged[u][b] \in Nat /\ bcoins[u][b] \in Nat
    BY <1>2 DEF AccountsTyped
  <1>10. \A u \in User, b \in Bcoin :
           /\ Staked(OfUser(M, u, b)) = Released(C, u, b) + Staked(OfUser(N, u, b))
           /\ Released(C, u, b) \in Nat /\ Staked(OfUser(N, u, b)) \in Nat
    <2> SUFFICES ASSUME NEW u \in User, NEW b \in Bcoin
                 PROVE  /\ Staked(OfUser(M, u, b)) = Released(C, u, b) + Staked(OfUser(N, u, b))
                        /\ Released(C, u, b) \in Nat /\ Staked(OfUser(N, u, b)) \in Nat
      OBVIOUS
    <2> DEFINE P == OfUser(M, u, b)
               Q == OfUser(C, u, b)
    <2>1. P \subseteq Position /\ IsFiniteSet(P) /\ Q \in SUBSET P /\ OfUser(N, u, b) = P \ Q
      BY <1>2, <1>4, FS_Subset DEF OfUser, N
    <2>2. Released(C, u, b) = Staked(Q)
      BY DEF Released
    <2> HIDE DEF P, Q
    <2>3. /\ Staked(P) = Staked(Q) + Staked(P \ Q)
          /\ Staked(Q) \in Nat /\ Staked(P \ Q) \in Nat
      BY <2>1, PartAndRest
    <2> QED BY <2>1, <2>2, <2>3 DEF P
  <1>11. \A u \in User, b \in Bcoin :
           pledged'[u][b] = pledged[u][b] - Released(C, u, b)
    BY <1>1
  <1>12. Backed(N, pledged') /\ pledged' \in [User -> [Bcoin -> Nat]]
    <2>1. ASSUME NEW u \in User, NEW b \in Bcoin
          PROVE  pledged'[u][b] = Staked(OfUser(N, u, b)) /\ pledged'[u][b] \in Nat
      <3>1. pledged[u][b] = Staked(OfUser(M, u, b))
        BY <1>2 DEF Backed
      <3>2. pledged'[u][b] = pledged[u][b] - Released(C, u, b)
        BY <1>11
      <3>3. /\ Staked(OfUser(M, u, b)) = Released(C, u, b) + Staked(OfUser(N, u, b))
            /\ Released(C, u, b) \in Nat /\ Staked(OfUser(N, u, b)) \in Nat
        BY <1>10
      <3> QED BY <3>1, <3>2, <3>3
    <2>2. pledged' = [u \in User |-> [b \in Bcoin |-> pledged[u][b] - Released(C, u, b)]]
      BY <1>1
    <2>3. \A u \in User, b \in Bcoin : pledged[u][b] - Released(C, u, b) \in Nat
      BY <1>11, <2>1
    <2>4. pledged' \in [User -> [Bcoin -> Nat]]
      BY <2>2, <2>3
    <2> QED BY <2>1, <2>4 DEF Backed
  <1>13. ASSUME NEW b \in Bcoin
         PROVE  /\ onSale'[b] = onSale[b] + Staked(OfPair(C, b))
                /\ onSale[b] \in Nat /\ onSale'[b] \in Nat
                /\ onSale'[b] + InAccounts(b)' = onSale[b] + InAccounts(b)
    <2>1. onSale'[b] = onSale[b] + Staked(OfPair(C, b)) /\ onSale[b] \in Nat
      BY <1>1, <1>2 DEF AccountsTyped
    <2>2. /\ SumFunctionOnSet([u \in User |-> bcoins[u][b] + (pledged[u][b] - Released(C, u, b))], User)
               = InAccounts(b) - Staked(OfPair(C, b))
          /\ InAccounts(b) \in Int /\ Staked(OfPair(C, b)) \in Nat
      BY <1>2, <1>5, ReleasedToOrders DEF InAccounts
    <2>3. [u \in User |-> bcoins'[u][b] + pledged'[u][b]]
            = [u \in User |-> bcoins[u][b] + (pledged[u][b] - Released(C, u, b))]
      BY <1>1, <1>11
    <2>4. InAccounts(b)' = InAccounts(b) - Staked(OfPair(C, b))
      BY <2>2, <2>3 DEF InAccounts
    <2> QED BY <2>1, <2>2, <2>4
  <1>14. BcoinsConserved'
    BY <1>2, <1>13 DEF BcoinsConserved, BcoinsInWorld
  <1>15. fcoins' \in Nat
    <2> DEFINE f == [c \in C |-> Shortfall(prices, c)]
    <2>1. ASSUME NEW c \in C PROVE Shortfall(prices, c) \in Nat
      <3>1. c.staked \in Nat /\ c.owed \in Nat /\ prices[c.bcoin] \in Nat
        BY <1>5 DEF Position
      <3>2. c.staked * prices[c.bcoin] \in Nat
        BY <3>1, Amounts
      <3> DEFINE v == c.staked * prices[c.bcoin]
      <3>3. Shortfall(prices, c) = IF v < c.owed THEN c.owed - v ELSE 0
        BY DEF Shortfall
      <3>4. v \in Nat
        BY <3>2
      <3> HIDE DEF v
      <3> QED BY <3>1, <3>3, <3>4
    <2>2. \A c \in C : f[c] \in Nat
      BY <2>1
    <2> HIDE DEF f
    <2>3. SumFunctionOnSet(f, C) \in Nat
      BY <1>5, <2>2, SumOfNats
    <2>4. fcoins' = fcoins + SumFunctionOnSet(f, C) /\ fcoins \in Nat
      BY <1>1, <1>2 DEF f, AccountsTyped
    <2> QED BY <2>3, <2>4
  <1>16. AccountsTyped'
    <2>1. scoins' \in [User -> Nat] /\ bcoins' \in [User -> [Bcoin -> Nat]]
          /\ reserve' \in Nat /\ scoinsFrozen' \in Nat
      BY <1>1, <1>2, <1>4 DEF AccountsTyped
    <2>2. onSale' \in [Bcoin -> Nat]
      <3>1. onSale' = [b \in Bcoin |-> onSale'[b]]
        BY <1>1
      <3> QED BY <1>13, <3>1
    <2>3. price' \in [Bcoin -> Nat] /\ cdpHeight' \in 0 .. LastHeight
      <3>1. cdpHeight \in 0 .. LastHeight /\ LastHeight \in Nat
        BY <1>2 DEF AccountsTyped, CdpAssumption
      <3>2. cdpHeight < LastHeight /\ cdpHeight' = cdpHeight + 1 /\ price' = prices
        BY <1>1
      <3> QED BY <3>1, <3>2
    <2> QED BY <1>12, <1>15, <2>1, <2>2, <2>3 DEF AccountsTyped
  <1>17. DebtIsCollateralised'
    <2>1. \A c \in N : c.staked > 0
      BY <1>2 DEF DebtIsCollateralised, N, M
    <2> QED BY <1>8, <2>1 DEF DebtIsCollateralised
  <1>18. R3 \/ ScoinsAreOwed'
    <2> SUFFICES ASSUME ScoinsAreOwed PROVE ScoinsAreOwed'
      BY <1>2
    <2>1. Owed(M) = Owed(C) + Owed(N) /\ Owed(C) \in Nat /\ Owed(N) \in Nat
      BY <1>2, <1>4, PartAndRest DEF N
    <2>2. SumFunctionOnSet(scoins, User) + reserve + scoinsFrozen = Owed(M) + ScoinsInWorld
      BY DEF ScoinsAreOwed, M
    <2>3. reserve' + Owed(C) = reserve /\ reserve' \in Nat /\ scoinsFrozen' = scoinsFrozen
          /\ scoins' = scoins
      BY <1>1, <1>4
    <2>4. scoinsFrozen \in Nat /\ ScoinsInWorld \in Nat
      BY <1>2, WorldIsNat DEF AccountsTyped
    <2>5. SumFunctionOnSet(scoins, User) \in Nat
      <3>1. \A u \in User : scoins[u] \in Nat
        BY <1>2 DEF AccountsTyped
      <3> QED BY <3>1, WorldIsNat, SumOfNats
    <2>6. SumFunctionOnSet(scoins, User) + reserve' + scoinsFrozen = Owed(N) + ScoinsInWorld
      BY <2>1, <2>2, <2>3, <2>4, <2>5
    <2> QED BY <1>8, <2>3, <2>6 DEF ScoinsAreOwed
  <1>19. LockedPairKept
    BY <1>1, <1>4, <1>8 DEF LockedPairKept, N, M
  <1>20. Riskiest
    <2>1. ASSUME NEW c \in M, NEW d \in M, c.bcoin = d.bcoin, c \notin N, BaseRatio(d) < BaseRatio(c)
          PROVE  d \notin N
      <3>1. c \in C
        BY <2>1 DEF N
      <3>2. NotAfter(d, c)
        BY <2>1 DEF NotAfter
      <3>3. d \in C
        BY <1>4, <2>1, <3>1, <3>2
      <3> QED BY <3>3 DEF N
    <2> QED BY <1>8, <2>1 DEF Riskiest, M
  <1>21. WithinLimit
    <2>1. store.main \ store'.main = C
      BY <1>4, <1>8 DEF N, M
    <2> QED BY <1>4, <2>1 DEF WithinLimit
  <1> QED BY <1>6, <1>7, <1>8, <1>12, <1>14, <1>16, <1>17, <1>18, <1>19, <1>20, <1>21 DEF CdpInv

-----------------------------------------------------------------------------
(* The specification.                                                      *)

LEMMA CdpStarts ==
  ASSUME CdpAssumption, CdpInit
  PROVE  CdpInv
  <1>1. /\ store = [main |-> {}, user |-> {}, ratio |-> {}, heights |-> {},
                    totals |-> [b \in Bcoin |-> [staked |-> 0, owed |-> 0]]]
        /\ scoins = Purse
        /\ bcoins = [u \in User |-> [b \in Bcoin |-> Holdings[u][b]]]
        /\ pledged = [u \in User |-> [b \in Bcoin |-> 0]]
        /\ reserve = InitialReserve /\ scoinsFrozen = 0
        /\ onSale = [b \in Bcoin |-> 0] /\ fcoins = 0
        /\ price = [b \in Bcoin |-> 0]
        /\ cdpHeight = 0
    BY DEF CdpInit
  <1>2. /\ Purse \in [User -> Nat] /\ \A u \in User, b \in Bcoin : Holdings[u][b] \in Nat
        /\ InitialReserve \in Nat /\ LastHeight \in Nat
    <2>1. Purse \in [User -> Nat]
      BY DEF CdpAssumption
    <2>2. Holdings \in [User -> [Bcoin -> Nat]]
      BY DEF CdpAssumption
    <2>3. InitialReserve \in Nat
      BY DEF CdpAssumption
    <2>4. LastHeight \in Nat
      BY DEF CdpAssumption
    <2> QED BY <2>1, <2>2, <2>3, <2>4
  <1>3. Staked({}) = 0 /\ Owed({}) = 0
    <2>1. Staked({}) = SumFunctionOnSet(HeldBy({}), {})
          /\ Owed({}) = SumFunctionOnSet(OwedBy({}), {})
      BY DEF Staked, HeldBy, Owed, OwedBy
    <2>2. Summable(HeldBy({}), {}) /\ Summable(OwedBy({}), {})
      BY FS_EmptySet DEF Summable
    <2> QED BY <2>1, <2>2, SumBasics
  <1>4. store.main = {} /\ \A u, b : OfUser({}, u, b) = {} /\ OfPair({}, b) = {}
    BY <1>1 DEF OfUser, OfPair
  <1>5. store = StoreOf({})
    <2>1. TotalsOf({}) = [b \in Bcoin |-> [staked |-> 0, owed |-> 0]]
      BY <1>3, <1>4 DEF TotalsOf
    <2>2. EntriesOf({}) = {}
      BY DEF EntriesOf
    <2> QED BY <1>1, <2>1, <2>2 DEF StoreOf
  <1>6. PositionSet({})
    BY FS_EmptySet DEF PositionSet
  <1>7. AccountsTyped
    BY <1>1, <1>2 DEF AccountsTyped
  <1>8. Backed({}, pledged)
    BY <1>1, <1>3, <1>4 DEF Backed
  <1>9. BcoinsConserved
    <2> SUFFICES ASSUME NEW b \in Bcoin PROVE onSale[b] + InAccounts(b) = BcoinsInWorld[b]
      BY DEF BcoinsConserved
    <2> DEFINE f == [u \in User |-> Holdings[u][b]]
    <2>1. [u \in User |-> bcoins[u][b] + pledged[u][b]] = f
      BY <1>1, <1>2
    <2>2. SumFunctionOnSet(f, User) \in Nat
      <3>1. \A u \in User : f[u] \in Nat
        BY <1>2
      <3> HIDE DEF f
      <3> QED BY <3>1, WorldIsNat, SumOfNats
    <2>3. onSale[b] = 0 /\ InAccounts(b) = SumFunctionOnSet(f, User)
          /\ BcoinsInWorld[b] = SumFunctionOnSet(f, User)
      BY <1>1, <2>1 DEF InAccounts, BcoinsInWorld
    <2> QED BY <2>2, <2>3
  <1>10. DebtIsCollateralised
    BY <1>4 DEF DebtIsCollateralised
  <1>11. ScoinsAreOwed
    <2>1. SumFunctionOnSet(Purse, User) \in Nat
      BY <1>2, WorldIsNat, SumOfNats
    <2> QED BY <1>1, <1>2, <1>3, <1>4, <2>1 DEF ScoinsAreOwed, ScoinsInWorld
  <1> QED BY <1>4, <1>5, <1>6, <1>7, <1>8, <1>9, <1>10, <1>11 DEF CdpInv

LEMMA CdpSteps ==
  ASSUME CdpAssumption, CdpInv, [CdpNext]_cdpVars
  PROVE  CdpInv' /\ ((LockedPairKept /\ Riskiest /\ WithinLimit) \/ UNCHANGED cdpVars)
  <1>1. \A x : x \in Stakes \/ x \in Mints \/ x \in Repays \/ x \in Bids => x \in Nat
    <2>1. \A set \in {Stakes, Mints, Repays, Bids} : set \subseteq Nat
      BY DEF CdpAssumption
    <2> QED BY <2>1
  <1>2. Prices \subseteq [Bcoin -> Nat] /\ SettleLimit \in Nat
    BY DEF CdpAssumption
  <1>3. ASSUME cdpHeight' = cdpHeight PROVE Riskiest /\ WithinLimit
    BY <1>3 DEF Riskiest, WithinLimit
  <1>4. CASE \E u \in User, id \in CdpId, b \in Bcoin, amount \in Stakes, mint \in Mints :
               StakeNew(u, id, b, amount, mint)
    <2>1. PICK u \in User, id \in CdpId, b \in Bcoin, amount \in Nat, mint \in Nat :
            StakeNew(u, id, b, amount, mint)
      BY <1>1, <1>4
    <2>2. cdpHeight' = cdpHeight
      BY <2>1 DEF StakeNew
    <2> QED BY <1>3, <2>1, <2>2, StakeNewKeeps
  <1>5. CASE \E c \in store.main, amount \in Stakes, mint \in Mints : StakeMore(c, amount, mint)
    <2>1. PICK c \in store.main, amount \in Nat, mint \in Nat : StakeMore(c, amount, mint)
      BY <1>1, <1>5
    <2>2. cdpHeight' = cdpHeight
      BY <2>1 DEF StakeMore
    <2> QED BY <1>3, <2>1, <2>2, StakeMoreKeeps
  <1>6. CASE \E c \in store.main, repay \in Repays, amount \in Stakes : Redeem(c, repay, amount)
    <2>1. PICK c \in store.main, repay \in Nat, amount \in Nat : Redeem(c, repay, amount)
      BY <1>1, <1>6
    <2>2. cdpHeight' = cdpHeight
      BY <2>1 DEF Redeem
    <2> QED BY <1>3, <2>1, <2>2, RedeemKeeps
  <1>7. CASE \E u \in User, c \in store.main, offer \in Bids :
               LiquidateAll(u, c, offer) \/ LiquidatePart(u, c, offer)
    <2>1. PICK u \in User, c \in store.main, offer \in Nat :
            LiquidateAll(u, c, offer) \/ LiquidatePart(u, c, offer)
      BY <1>1, <1>7
    <2>2. CASE LiquidateAll(u, c, offer)
      <3>1. cdpHeight' = cdpHeight
        BY <2>2 DEF LiquidateAll
      <3> QED BY <1>3, <2>2, <3>1, LiquidateAllKeeps
    <2>3. CASE LiquidatePart(u, c, offer)
      <3>1. cdpHeight' = cdpHeight
        BY <2>3 DEF LiquidatePart
      <3> QED BY <1>3, <2>3, <3>1, LiquidatePartKeeps
    <2> QED BY <2>1, <2>2, <2>3
  <1>8. CASE \E list \in UNION {[1 .. n -> CdpId] : n \in 1 .. SettleLimit} :
               IsInjective(list) /\ SettleInterest(list)
    <2>1. PICK n \in 1 .. SettleLimit : \E list \in [1 .. n -> CdpId] : SettleInterest(list)
      BY <1>8
    <2>2. PICK list \in [1 .. n -> CdpId] : SettleInterest(list)
      BY <2>1
    <2>3. cdpHeight' = cdpHeight
      BY <2>2 DEF SettleInterest
    <2>4. n \in Nat
      BY <1>2
    <2> QED BY <1>3, <2>2, <2>3, <2>4, SettleInterestKeeps
  <1>9. CASE \E prices \in Prices, fcoinPriced \in BOOLEAN : MedianPrices(prices, fcoinPriced)
    <2>1. PICK prices \in [Bcoin -> Nat], fcoinPriced \in BOOLEAN :
            MedianPrices(prices, fcoinPriced)
      BY <1>2, <1>9
    <2> QED BY <2>1, MedianKeeps
  <1>10. CASE UNCHANGED cdpVars
    BY <1>10 DEF cdpVars, CdpInv, AccountsTyped, Backed, BcoinsConserved, InAccounts,
                 DebtIsCollateralised, ScoinsAreOwed
  <1> QED BY <1>4, <1>5, <1>6, <1>7, <1>8, <1>9, <1>10 DEF CdpNext

(* The indexes and totals of the positions agree, what is pledged is what   *)
(* the positions hold, no bcoin is made or lost, there is no debt with      *)
(* nothing pledged for it and, before MAJOR_VER_R3, every stable coin       *)
(* minted is owed (SaveCdpIndexData, EraseCdpIndexData, cdptx.cpp).         *)
THEOREM PositionsStayBacked ==
  ASSUME CdpAssumption
  PROVE  CdpSpec => []PositionsAreBacked
  <1>1. CdpInit => CdpInv
    BY CdpStarts
  <1>2. CdpInv /\ [CdpNext]_cdpVars => CdpInv'
    BY CdpSteps
  <1>3. CdpInv => PositionsAreBacked
    BY CdpInvSays
  <1> QED BY <1>1, <1>2, <1>3, PTL DEF CdpSpec

(* No transaction changes a position of a pair below its global floor, and  *)
(* the reserve closes the riskiest position of a pair first, and no more in *)
(* a block than the limit (cdptx.cpp, CCdpForceLiquidator::Execute).        *)
THEOREM LiquidationsStayInOrder ==
  ASSUME CdpAssumption
  PROVE  CdpSpec => LiquidationsInOrder
  <1>1. CdpInit => CdpInv
    BY CdpStarts
  <1>2. CdpInv /\ [CdpNext]_cdpVars
          => CdpInv' /\ [LockedPairKept /\ Riskiest /\ WithinLimit]_cdpVars
    BY CdpSteps
  <1> QED BY <1>1, <1>2, PTL DEF CdpSpec, LiquidationsInOrder

=============================================================================
