------------------------- MODULE OrderEngine_proofs -------------------------
(***************************************************************************)
(* Theorems about OrderEngine, for every number of orders and calls, every *)
(* set of requests, prices and keys, and every margin rule: the arithmetic *)
(* it rests on, type correctness, and the two money invariants of the      *)
(* wallet, that cash covers what is blocked and that what is blocked is    *)
(* what active orders and positions account for.                           *)
(***************************************************************************)
EXTENDS OrderEngine, FiniteSetTheorems, TLAPS

-----------------------------------------------------------------------------
\* What the arithmetic of an order returns, for every amount, and what a
\* partial sum is, for every length.

(* Go's integer division of amounts that are not negative, by a positive   *)
(* divisor, neither fails nor goes negative.                               *)
LEMMA DivNat ==
  ASSUME NEW a \in Nat, NEW d \in Nat \ {0}
  PROVE  a \div d \in Nat
OBVIOUS

(* A product of naturals is a natural. *)
LEMMA TimesNat ==
  ASSUME NEW a \in Nat, NEW b \in Nat
  PROVE  a * b \in Nat
OBVIOUS

(* Rules.Margin never releases money it did not block. *)
LEMMA MarginNat ==
  ASSUME NEW b \in Books, NEW side \in Sides, NEW n \in Nat
  PROVE  Margin(b, side, n) \in Nat
<1> USE RulesAssumption
<1>1. n \div MISLeverage \in Nat
  BY DivNat
<1>2. (n * FuturesMarginPercent) \div 100 \in Nat
  <2>1. n * FuturesMarginPercent \in Nat
    BY TimesNat
  <2> QED BY <2>1, DivNat
<1>3. (n * OptionSellMarginPercent) \div 100 \in Nat
  <2>1. n * OptionSellMarginPercent \in Nat
    BY TimesNat
  <2> QED BY <2>1, DivNat
<1> QED BY <1>1, <1>2, <1>3 DEF Margin, Books, MarginBooks

(* marginForPosition returns an amount to block for every position. *)
LEMMA MarginForPositionNat ==
  ASSUME NEW b \in Books, NEW qty \in Int, NEW avg \in Nat
  PROVE  MarginForPosition(b, qty, avg) \in Nat
<1>1. Magnitude(qty) \in Nat
  BY DEF Magnitude
<1>2. Magnitude(qty) * avg \in Nat
  BY <1>1, TimesNat
<1> DEFINE side == IF qty < 0 THEN "SELL" ELSE "BUY"
<1>3. side \in Sides
  BY DEF Sides
<1>4. Margin(b, side, Magnitude(qty) * avg) \in Nat
  BY <1>2, <1>3, MarginNat
<1> QED BY <1>4 DEF MarginForPosition

(* What an order reserves is an amount, whatever its type and product. *)
LEMMA ReservationNat ==
  ASSUME NEW r, r.book \in Books, r.side \in Sides, r.qty \in Nat,
         r.price \in Nat, r.trigger \in Nat
  PROVE  Reservation(r) \in Nat
<1>1. BasePathPrice(BasePrice(r)) \in Nat
  BY DEF BasePathPrice, BasePrice
<1>2. r.qty * BasePathPrice(BasePrice(r)) \in Nat
  BY <1>1, TimesNat
<1>3. Margin(r.book, r.side, r.qty * BasePathPrice(BasePrice(r))) \in Nat
  BY <1>2, MarginNat
<1> QED BY <1>2, <1>3 DEF Reservation

(* Slippage keeps a quote positive, also when it lowers the price of a sale. *)
LEMMA FillPricePositive ==
  ASSUME NEW ord, ord.qty \in Nat, NEW ltp \in Nat \ {0}
  PROVE  FillPrice(ord, ltp) \in Nat \ {0}
<1> DEFINE bps == Smaller(2 + ord.qty \div 250, 6)
           raw == (ltp * bps) \div 10000
<1>1. bps \in Nat
  <2>1. ord.qty \div 250 \in Nat
    BY DivNat
  <2> QED BY <2>1 DEF Smaller
<1>2. raw \in Nat
  <2>1. ltp * bps \in Nat
    BY <1>1, TimesNat
  <2> QED BY <2>1, DivNat
<1>3. Slippage(ord.qty, ltp, ord.side) \in Nat \ {0}
  <2> HIDE DEF bps
  <2> SUFFICES (LET slip == IF raw < 5 THEN 5 ELSE raw
                IN  IF ord.qty <= 50 \/ ltp <= 0 THEN ltp
                    ELSE IF ord.side = "BUY" THEN ltp + slip
                    ELSE IF ltp - slip <= 0 THEN 5 ELSE ltp - slip) \in Nat \ {0}
    BY DEF Slippage, bps
  <2> HIDE DEF raw
  <2> QED BY <1>2
<1> QED BY <1>3 DEF FillPrice

(* A fill moves the net quantity by the quantity filled. *)
LEMMA TransitionQtyInt ==
  ASSUME NEW q \in Int, NEW n \in Nat, NEW side
  PROVE  TransitionQty(q, n, side) \in Int
BY DEF TransitionQty, Delta

(* The average entry price of a position is never negative. *)
LEMMA TransitionAverageNat ==
  ASSUME NEW q \in Int, NEW avg \in Nat, NEW n \in Nat, NEW price \in Nat, NEW side
  PROVE  TransitionAverage(q, avg, n, price, side) \in Nat
<1> DEFINE new == TransitionQty(q, n, side)
<1>1. CASE ~ Opposes(q, Delta(side, n)) /\ q # 0
  <2>1. Magnitude(new) \in Nat \ {0}
    BY <1>1 DEF Magnitude, TransitionQty, Delta, Opposes
  <2>2. Magnitude(q) * avg \in Nat
    <3>1. Magnitude(q) \in Nat
      BY DEF Magnitude
    <3> QED BY <3>1, TimesNat
  <2>3. n * price \in Nat
    BY TimesNat
  <2>4. Magnitude(q) * avg + n * price \in Nat
    BY <2>2, <2>3
  <2>5. (Magnitude(q) * avg + n * price) \div Magnitude(new) \in Nat
    BY <2>1, <2>4, DivNat
  <2> QED BY <1>1, <2>5 DEF TransitionAverage
<1>2. CASE Opposes(q, Delta(side, n))
  BY <1>2 DEF TransitionAverage
<1>3. CASE ~ Opposes(q, Delta(side, n)) /\ q = 0
  BY <1>3 DEF TransitionAverage
<1> QED BY <1>1, <1>2, <1>3

(* Realized profit is an integer. *)
LEMMA TransitionRealizedInt ==
  ASSUME NEW q \in Int, NEW avg \in Nat, NEW n \in Nat, NEW price \in Nat, NEW side
  PROVE  TransitionRealized(q, avg, n, price, side) \in Int
<1> DEFINE closed == Smaller(n, Magnitude(q))
<1>1. closed \in Int
  BY DEF Smaller, Magnitude
<1>2. closed * price \in Int /\ closed * avg \in Int
  BY <1>1
<1> QED BY <1>2 DEF TransitionRealized

(* A partial sale takes a part of the cost basis and leaves the rest: none *)
(* is lost and the remainder is not negative.                              *)
LEMMA ProportionalCostBasisBound ==
  ASSUME NEW cost \in Nat, NEW sold \in Nat, NEW held \in Nat, sold <= held
  PROVE  ProportionalCostBasis(cost, sold, held) \in 0..cost
<1>1. CASE sold = held
  BY <1>1 DEF ProportionalCostBasis
<1>2. CASE sold # held
  <2>1. cost * sold \in Nat /\ cost * sold <= cost * held
    OBVIOUS
  <2>2. (cost * sold) \div held \in Nat
    BY <1>2, <2>1, DivNat
  <2>3. (cost * sold) \div held <= cost
    <3> DEFINE c == cost * sold
    <3>1. c \in Nat /\ c <= cost * held /\ held > 0
      BY <1>2, <2>1
    <3> HIDE DEF c
    <3>2. c \div held <= cost
      BY <3>1
    <3> QED BY <3>2 DEF c
  <2> QED BY <1>2, <2>2, <2>3 DEF ProportionalCostBasis
<1> QED BY <1>1, <1>2

(* A sale that leaves shares behind leaves some of their cost. *)
LEMMA ProportionalCostBasisPartial ==
  ASSUME NEW cost \in Nat \ {0}, NEW sold \in Nat, NEW held \in Nat, sold < held
  PROVE  ProportionalCostBasis(cost, sold, held) < cost
<1>1. cost * sold \in Nat /\ cost * sold < cost * held
  OBVIOUS
<1> DEFINE c == cost * sold
<1>2. c \in Nat /\ c < cost * held /\ held \in Nat /\ held > 0
  BY <1>1
<1> HIDE DEF c
<1>3. c \div held < cost
  BY <1>2
<1> QED BY <1>3 DEF ProportionalCostBasis, c

-----------------------------------------------------------------------------
(* Partial sums: the only use of induction.  The well-ordering of the      *)
(* naturals is obtained from the library's well-founded subset ordering of *)
(* a finite set.                                                           *)


(* Every set of naturals that has an element has a least one. *)
LEMMA Least ==
  ASSUME NEW T \in SUBSET Nat, NEW n \in T
  PROVE  \E m \in T : \A k \in T : m <= k
<1> DEFINE Top == 0..n
           Seg == { 0..i : i \in {j \in T : j <= n} }
<1>1. IsWellFoundedOn(StrictSubsetOrdering(Top), SUBSET Top)
  <2>1. IsFiniteSet(Top)
    BY FS_Interval
  <2>2. FiniteSubsetsOf(Top) = SUBSET Top
    BY <2>1, FS_FiniteSubsetsOfFinite, Zenon
  <2>3. IsWellFoundedOn(StrictSubsetOrdering(Top), FiniteSubsetsOf(Top))
    BY FS_StrictSubsetOrderingWellFounded, Zenon
  <2> QED BY <2>2, <2>3, Zenon
<1>2. Seg \subseteq SUBSET Top /\ Seg # {}
  OBVIOUS
<1>3. PICK x \in Seg : \A y \in Seg : ~ (<<y, x>> \in StrictSubsetOrdering(Top))
  <2> HIDE DEF Seg, Top
  <2> QED BY <1>1, <1>2, WFMin, Zenon
<1>4. PICK m \in T : m <= n /\ x = 0..m
  BY <1>3
<1>5. ASSUME NEW k \in T, k < m PROVE FALSE
  <2>1. 0..k \in Seg /\ 0..m \in Seg
    BY <1>4, <1>5
  <2>2. 0..k \subseteq 0..m /\ m \notin 0..k /\ m \in 0..m
    BY <1>4, <1>5
  <2>3. <<0..k, 0..m>> \in StrictSubsetOrdering(Top)
    BY <2>1, <2>2, <1>2, Zenon DEF StrictSubsetOrdering
  <2> QED BY <2>1, <2>3, <1>3, <1>4
<1> QED BY <1>4, <1>5

(* s is the recursive function PartialSum builds, up to n. *)
IsPartial(s, f, n) ==
  s = [i \in 0..n |-> IF i = 0 THEN 0 ELSE s[i - 1] + f[i]]

(* It exists for every length... *)
LEMMA PartialExists ==
  ASSUME NEW f, NEW n \in Nat
  PROVE  \E s : IsPartial(s, f, n)
<1> DEFINE Bad == {k \in Nat : ~ \E s : IsPartial(s, f, k)}
<1>1. SUFFICES ASSUME n \in Bad PROVE FALSE
  OBVIOUS
<1>2. PICK m \in Bad : \A k \in Bad : m <= k
  BY <1>1, Least
<1>3. m # 0
  <2>1. IsPartial([i \in 0..0 |-> 0], f, 0)
    BY DEF IsPartial
  <2> QED BY <2>1
<1>4. m - 1 \in Nat /\ m - 1 \notin Bad
  BY <1>2, <1>3
<1>5. PICK s : IsPartial(s, f, m - 1)
  BY <1>4
<1> DEFINE t == [i \in 0..m |-> IF i = m THEN s[m - 1] + f[m] ELSE s[i]]
<1>6. IsPartial(t, f, m)
  <2>1. \A i \in 0..m : t[i] = IF i = 0 THEN 0 ELSE t[i - 1] + f[i]
    BY <1>3, <1>4, <1>5 DEF IsPartial
  <2> QED BY <2>1 DEF IsPartial
<1> QED BY <1>2, <1>6

(* ... and two of them agree as far as both go, ... *)
LEMMA PartialUnique ==
  ASSUME NEW f, NEW s, NEW t, NEW n \in Nat, NEW m \in Nat,
         IsPartial(s, f, n), IsPartial(t, f, m),
         NEW i \in Nat, i <= n, i <= m
  PROVE  s[i] = t[i]
<1> DEFINE Bad == {k \in Nat : k <= n /\ k <= m /\ s[k] # t[k]}
<1>1. SUFFICES ASSUME i \in Bad PROVE FALSE
  OBVIOUS
<1>2. PICK b \in Bad : \A k \in Bad : b <= k
  BY <1>1, Least
<1>3. /\ s[b] = IF b = 0 THEN 0 ELSE s[b - 1] + f[b]
      /\ t[b] = IF b = 0 THEN 0 ELSE t[b - 1] + f[b]
  BY <1>2 DEF IsPartial
<1>4. b # 0 => b - 1 \in Nat /\ b - 1 \notin Bad
  BY <1>2
<1> QED BY <1>2, <1>3, <1>4

(* ... so PartialSum is its last value. *)
LEMMA PartialSumDef ==
  ASSUME NEW f, NEW n \in Nat
  PROVE  \E s : IsPartial(s, f, n) /\ PartialSum(f, n) = s[n]
BY PartialExists DEF PartialSum, IsPartial

(* The two equations the recursive definition is meant to satisfy. *)
LEMMA PartialSumStep ==
  ASSUME NEW f, NEW n \in Nat
  PROVE  /\ PartialSum(f, 0) = 0
         /\ PartialSum(f, n + 1) = PartialSum(f, n) + f[n + 1]
<1>1. PICK s : IsPartial(s, f, n) /\ PartialSum(f, n) = s[n]
  BY PartialSumDef
<1>2. n + 1 \in Nat
  OBVIOUS
<1>3. PICK t : IsPartial(t, f, n + 1) /\ PartialSum(f, n + 1) = t[n + 1]
  BY <1>2, PartialSumDef
<1>4. s[n] = t[n]
  BY <1>1, <1>2, <1>3, PartialUnique
<1>5. t[n + 1] = t[n] + f[n + 1]
  BY <1>3 DEF IsPartial
<1>6. PICK z : IsPartial(z, f, 0) /\ PartialSum(f, 0) = z[0]
  BY PartialSumDef
<1>7. z[0] = 0
  BY <1>6 DEF IsPartial
<1> QED BY <1>1, <1>3, <1>4, <1>5, <1>6, <1>7

(* A sum of integers is an integer. *)
LEMMA PartialSumInt ==
  ASSUME NEW n \in Nat, NEW f \in [1..n -> Int], NEW i \in Nat, i <= n
  PROVE  PartialSum(f, i) \in Int
<1> DEFINE Bad == {k \in Nat : k <= n /\ PartialSum(f, k) \notin Int}
<1>1. SUFFICES ASSUME i \in Bad PROVE FALSE
  OBVIOUS
<1>2. PICK b \in Bad : \A k \in Bad : b <= k
  BY <1>1, Least
<1>3. b # 0
  BY <1>2, PartialSumStep
<1>4. b - 1 \in Nat /\ b - 1 \notin Bad
  BY <1>2, <1>3
<1>5. PartialSum(f, b) = PartialSum(f, b - 1) + f[b]
  <2>1. PartialSum(f, (b - 1) + 1) = PartialSum(f, b - 1) + f[(b - 1) + 1]
    BY <1>4, PartialSumStep
  <2> QED BY <2>1, <1>2
<1>6. b \in 1..n
  BY <1>2, <1>3
<1> QED BY <1>2, <1>4, <1>5, <1>6

(* A sum of naturals is a natural: reservations add up to an amount. *)
LEMMA PartialSumNat ==
  ASSUME NEW n \in Nat, NEW f \in [1..n -> Nat], NEW i \in Nat, i <= n
  PROVE  PartialSum(f, i) \in Nat
<1> DEFINE Bad == {k \in Nat : k <= n /\ PartialSum(f, k) \notin Nat}
<1>1. SUFFICES ASSUME i \in Bad PROVE FALSE
  OBVIOUS
<1>2. PICK b \in Bad : \A k \in Bad : b <= k
  BY <1>1, Least
<1>3. b # 0
  BY <1>2, PartialSumStep
<1>4. b - 1 \in Nat /\ b - 1 \notin Bad
  BY <1>2, <1>3
<1>5. PartialSum(f, b) = PartialSum(f, b - 1) + f[b]
  <2>1. PartialSum(f, (b - 1) + 1) = PartialSum(f, b - 1) + f[(b - 1) + 1]
    BY <1>4, PartialSumStep
  <2> QED BY <2>1, <1>2
<1>6. b \in 1..n
  BY <1>2, <1>3
<1> QED BY <1>2, <1>4, <1>5, <1>6

(* Changing one term changes the sum by the difference. *)
LEMMA PartialSumUpdate ==
  ASSUME NEW n \in Nat, NEW f \in [1..n -> Int], NEW g \in [1..n -> Int],
         NEW k \in 1..n, \A j \in 1..n : j # k => g[j] = f[j]
  PROVE  PartialSum(g, n) = PartialSum(f, n) - f[k] + g[k]
<1> DEFINE Rise(i) == IF k <= i THEN g[k] - f[k] ELSE 0
           Bad == {i \in Nat : i <= n /\ PartialSum(g, i) # PartialSum(f, i) + Rise(i)}
<1>1. \A i \in Nat : i <= n => PartialSum(f, i) \in Int /\ PartialSum(g, i) \in Int
  BY PartialSumInt
<1>2. f[k] \in Int /\ g[k] \in Int
  OBVIOUS
<1>3. SUFFICES ASSUME n \in Bad PROVE FALSE
  BY <1>1, <1>2
<1>4. PICK b \in Bad : \A i \in Bad : b <= i
  <2> HIDE DEF Bad
  <2>1. Bad \in SUBSET Nat
    BY DEF Bad
  <2> QED BY <2>1, <1>3, Least
<1>5. b # 0
  BY <1>4, PartialSumStep
<1>6. b - 1 \in Nat /\ b - 1 \notin Bad /\ b \in 1..n
  BY <1>4, <1>5
<1>7. /\ PartialSum(f, b) = PartialSum(f, b - 1) + f[b]
      /\ PartialSum(g, b) = PartialSum(g, b - 1) + g[b]
  <2>1. /\ PartialSum(f, (b - 1) + 1) = PartialSum(f, b - 1) + f[(b - 1) + 1]
        /\ PartialSum(g, (b - 1) + 1) = PartialSum(g, b - 1) + g[(b - 1) + 1]
    BY <1>6, PartialSumStep
  <2> QED BY <2>1, <1>6
<1>8. PartialSum(g, b - 1) = PartialSum(f, b - 1) + Rise(b - 1)
  BY <1>6
<1>9. f[b] \in Int /\ g[b] \in Int /\ PartialSum(f, b - 1) \in Int
  BY <1>1, <1>6
<1> QED BY <1>2, <1>4, <1>6, <1>7, <1>8, <1>9

(* A sum of naturals is at least each of its terms. *)
LEMMA PartialSumBound ==
  ASSUME NEW n \in Nat, NEW f \in [1..n -> Nat], NEW k \in 1..n
  PROVE  f[k] <= PartialSum(f, n)
<1> DEFINE g == [f EXCEPT ![k] = 0]
<1>1. g \in [1..n -> Nat] /\ g[k] = 0 /\ \A j \in 1..n : j # k => g[j] = f[j]
  OBVIOUS
<1>2. f \in [1..n -> Int] /\ g \in [1..n -> Int]
  BY <1>1
<1> HIDE DEF g
<1>3. PartialSum(g, n) = PartialSum(f, n) - f[k] + g[k]
  BY <1>1, <1>2, PartialSumUpdate
<1>4. PartialSum(g, n) \in Nat /\ PartialSum(f, n) \in Nat /\ f[k] \in Nat
  BY <1>1, PartialSumNat
<1> QED BY <1>1, <1>3, <1>4

(* A sum of zeros is zero. *)
LEMMA PartialSumZero ==
  ASSUME NEW n \in Nat, NEW f, \A j \in 1..n : f[j] = 0
  PROVE  PartialSum(f, n) = 0
<1> DEFINE Bad == {k \in Nat : k <= n /\ PartialSum(f, k) # 0}
<1>1. SUFFICES ASSUME n \in Bad PROVE FALSE
  OBVIOUS
<1>2. PICK b \in Bad : \A k \in Bad : b <= k
  BY <1>1, Least
<1>3. b # 0
  BY <1>2, PartialSumStep
<1>4. b - 1 \in Nat /\ b - 1 \notin Bad
  BY <1>2, <1>3
<1>5. PartialSum(f, b) = PartialSum(f, b - 1) + f[b]
  <2>1. PartialSum(f, (b - 1) + 1) = PartialSum(f, b - 1) + f[(b - 1) + 1]
    BY <1>4, PartialSumStep
  <2> QED BY <2>1, <1>2
<1> QED BY <1>2, <1>3, <1>4, <1>5

(* Only the terms up to n count. *)
LEMMA PartialSumAgree ==
  ASSUME NEW n \in Nat, NEW f, NEW g, \A j \in 1..n : g[j] = f[j]
  PROVE  PartialSum(g, n) = PartialSum(f, n)
<1> DEFINE Bad == {k \in Nat : k <= n /\ PartialSum(g, k) # PartialSum(f, k)}
<1>1. SUFFICES ASSUME n \in Bad PROVE FALSE
  OBVIOUS
<1>2. PICK b \in Bad : \A k \in Bad : b <= k
  BY <1>1, Least
<1>3. b # 0
  BY <1>2, PartialSumStep
<1>4. b - 1 \in Nat /\ b - 1 \notin Bad /\ b \in 1..n
  BY <1>2, <1>3
<1>5. /\ PartialSum(f, b) = PartialSum(f, b - 1) + f[b]
      /\ PartialSum(g, b) = PartialSum(g, b - 1) + g[b]
  <2>1. /\ PartialSum(f, (b - 1) + 1) = PartialSum(f, b - 1) + f[(b - 1) + 1]
        /\ PartialSum(g, (b - 1) + 1) = PartialSum(g, b - 1) + g[(b - 1) + 1]
    BY <1>4, PartialSumStep
  <2> QED BY <2>1, <1>4
<1> QED BY <1>2, <1>4, <1>5

(* Smaller terms have the smaller sum. *)
LEMMA PartialSumMono ==
  ASSUME NEW n \in Nat, NEW f \in [1..n -> Int], NEW g \in [1..n -> Int],
         \A j \in 1..n : f[j] <= g[j]
  PROVE  PartialSum(f, n) <= PartialSum(g, n)
<1> DEFINE Bad == {k \in Nat : k <= n /\ ~ (PartialSum(f, k) <= PartialSum(g, k))}
<1>1. SUFFICES ASSUME n \in Bad PROVE FALSE
  OBVIOUS
<1>2. PICK b \in Bad : \A k \in Bad : b <= k
  BY <1>1, Least
<1>3. b # 0
  BY <1>2, PartialSumStep
<1>4. b - 1 \in Nat /\ b - 1 \notin Bad /\ b \in 1..n
  BY <1>2, <1>3
<1>5. /\ PartialSum(f, b) = PartialSum(f, b - 1) + f[b]
      /\ PartialSum(g, b) = PartialSum(g, b - 1) + g[b]
  <2>1. /\ PartialSum(f, (b - 1) + 1) = PartialSum(f, b - 1) + f[(b - 1) + 1]
        /\ PartialSum(g, (b - 1) + 1) = PartialSum(g, b - 1) + g[(b - 1) + 1]
    BY <1>4, PartialSumStep
  <2> QED BY <2>1, <1>4
<1>6. PartialSum(f, b - 1) \in Int /\ PartialSum(g, b - 1) \in Int
  BY <1>4, PartialSumInt
<1>7. f[b] \in Int /\ g[b] \in Int /\ f[b] <= g[b]
  BY <1>4
<1>8. PartialSum(f, b - 1) <= PartialSum(g, b - 1) /\ ~ (PartialSum(f, b) <= PartialSum(g, b))
  BY <1>2, <1>4
<1> QED BY <1>5, <1>6, <1>7, <1>8

(* A sum grows by the term that is appended. *)
LEMMA PartialSumAppend ==
  ASSUME NEW n \in Nat, NEW f, NEW g, \A j \in 1..n : g[j] = f[j]
  PROVE  PartialSum(g, n + 1) = PartialSum(f, n) + g[n + 1]
BY PartialSumAgree, PartialSumStep

-----------------------------------------------------------------------------
\* Type correctness.

(* What TypeOK leaves out and the steps rely on: a call past its creation  *)
(* works on an order that exists, at a quoted price; deliveries are long.  *)
CallOK ==
  \A w \in Workers :
    /\ call[w].pc \in {"execute", "settle", "reject"} =>
         call[w].order \in Orders /\ status[call[w].order] # "NONE"
    /\ call[w].pc = "settle" => call[w].price \in Prices
    /\ call[w].pc = "create" => call[w].key \in Keys /\ call[w].req \in Requests

TypeInv == TypeOK /\ CallOK /\ position["DELIVERY"].qty >= 0

(* A call that starts to execute an order is a call. *)
LEMMA ExecutingType ==
  ASSUME NEW o \in Orders, NEW c \in BOOLEAN
  PROVE  /\ Executing(o, c) \in Calls
         /\ Executing(o, c).pc = "execute" /\ Executing(o, c).order = o
BY DEF Executing, Working, Calls

(* Doing nothing is a state of a call. *)
LEMMA IdleType == Idle \in Calls /\ Idle.pc = "idle"
BY DEF Idle, Working, Calls

(* A request makes a well-formed order row. *)
LEMMA OrderRowType ==
  ASSUME NEW r \in [book : Books, side : Sides, type : Types, qty : Nat, price : Nat,
                    trigger : Nat, reason : {"NONE", "SQUARE_OFF"}],
         NEW k \in Keys \cup {NoKey}, NEW e \in Exits
  PROVE  OrderRow(r, k, e) \in OrderRows
BY DEF OrderRow, OrderRows

(* The engine starts in a well-formed state. *)
LEMMA TypeInit == Init => TypeInv
<1> SUFFICES ASSUME Init PROVE TypeInv
  OBVIOUS
<1> USE DEF Init
<1>1. order \in [Orders -> OrderRows]
  <2>1. NoOrder \in OrderRows
    BY DEF NoOrder, OrderRow, NoRequest, NoExit, Exits, OrderRows, Books, MarginBooks, Sides, Types
  <2> QED BY <2>1
<1>2. position \in [Books -> PositionRows] /\ position["DELIVERY"].qty >= 0
  <2>1. ClosedPosition(0) \in PositionRows /\ ClosedPosition(0).qty = 0
    BY DEF ClosedPosition, PositionRows
  <2> QED BY <2>1 DEF Books
<1>3. call \in [Workers -> Calls] /\ CallOK
  BY IdleType DEF CallOK
<1>4. cash \in Int /\ blocked \in Int /\ capital \in Nat
  BY EngineAssumption
<1>5. /\ status \in [Orders -> Statuses] /\ reserved \in [Orders -> Nat]
      /\ trades \in Seq(Trades) /\ epoch \in Nat /\ resetAt \in Nat /\ crashes \in Nat
  BY DEF Statuses
<1> QED BY <1>1, <1>2, <1>3, <1>4, <1>5 DEF TypeInv, TypeOK

(* A state of a call that CallOK allows. *)
Sound(c, st) ==
  /\ c \in Calls
  /\ c.pc \in {"execute", "settle", "reject"} => c.order \in Orders /\ st[c.order] # "NONE"
  /\ c.pc = "settle" => c.price \in Prices
  /\ c.pc = "create" => c.key \in Keys /\ c.req \in Requests

(* A step that keeps orders in existence and moves one call soundly keeps  *)
(* all calls sound.                                                        *)
LEMMA CallStep ==
  ASSUME TypeOK, CallOK, NEW w \in Workers, NEW c,
         call' = [call EXCEPT ![w] = c], Sound(c, status'),
         \A o \in Orders : status[o] # "NONE" => status'[o] # "NONE"
  PROVE  call' \in [Workers -> Calls] /\ CallOK'
BY DEF TypeOK, CallOK, Sound

(* An idle call is sound. *)
LEMMA IdleSound == ASSUME NEW st PROVE Sound(Idle, st)
BY IdleType DEF Sound

(* A failing execution leaves its call sound: rejecting, or idle. *)
LEMMA FailsSound ==
  ASSUME TypeOK, CallOK, NEW w \in Workers, call[w].pc \in {"execute", "settle"}
  PROVE  \E c : Fails(w) = [call EXCEPT ![w] = c] /\ Sound(c, status)
<1> DEFINE c == IF call[w].creating THEN Working("reject", call[w].order, 0, TRUE) ELSE Idle
<1>1. Fails(w) = [call EXCEPT ![w] = c]
  BY DEF Fails, TypeOK
<1>2. CASE call[w].creating
  <2>1. Sound(Working("reject", call[w].order, 0, TRUE), status)
    BY DEF Sound, CallOK, TypeOK, Calls, Working
  <2> QED BY <1>1, <1>2, <2>1
<1>3. CASE ~ call[w].creating
  BY <1>1, <1>3, IdleSound
<1> QED BY <1>2, <1>3

(* Sound after finishCreated: executing an existing order, or idle. *)
LEMMA FinishSound ==
  ASSUME NEW o \in Orders, NEW type, NEW s, NEW st, st[o] # "NONE"
  PROVE  Sound(FinishCreated(o, type, s), st)
<1>1. Sound(Executing(o, TRUE), st)
  BY ExecutingType DEF Sound
<1> QED BY <1>1, IdleSound DEF FinishCreated

(* Every request is a well-formed source of an order row. *)
LEMMA RequestType ==
  ASSUME NEW r \in Requests
  PROVE  /\ r \in [book : Books, side : Sides, type : Types, qty : Nat, price : Nat,
                   trigger : Nat, reason : {"NONE", "SQUARE_OFF"}]
         /\ r.qty > 0 /\ Reservation(r) \in Nat
         /\ InitialStatus(r) \in {"PENDING", "TRIGGER_PENDING"}
<1>1. r \in Requestable
  BY EngineAssumption
<1>2. /\ r.book \in Books /\ r.side \in Sides /\ r.qty \in Nat
      /\ r.price \in Nat /\ r.trigger \in Nat /\ r.qty > 0
  BY <1>1 DEF Requestable
<1>3. Reservation(r) \in Nat
  BY <1>2, ReservationNat
<1> QED BY <1>1, <1>2, <1>3 DEF Requestable, InitialStatus

(* An order without a key does not exist. *)
LEMMA NoExitType == NoExit \in Exits /\ NoKey \in Keys \cup {NoKey}
BY DEF NoExit, Exits

-----------------------------------------------------------------------------
(* The steps of a call that change no row keep the state well-formed. *)
LEMMA TypeCalls ==
  ASSUME TypeInv, NEW w \in Workers,
         \/ \E k \in Keys, r \in Requests : SubmitOrder(w, k, r)
         \/ JoinIntent(w) \/ RefuseOrder(w) \/ Unavailable(w) \/ RefuseSettlement(w)
         \/ \E o \in Orders : BeginExecute(w, o)
         \/ Crash(w)
  PROVE  TypeInv'
<1> USE DEF TypeInv
<1>1. SUFFICES ASSUME UNCHANGED account, crashes' \in Nat,
                      NEW c, call' = [call EXCEPT ![w] = c], Sound(c, status)
               PROVE  TypeInv'
  <2>1. ASSUME NEW k \in Keys, NEW r \in Requests, SubmitOrder(w, k, r)
        PROVE  TypeInv'
    <3>1. CASE call' = [call EXCEPT ![w] = Creating(k, r)]
      <4>1. Sound(Creating(k, r), status)
        BY DEF Creating, Sound, Calls
      <4>2. UNCHANGED account /\ crashes' \in Nat
        BY <2>1 DEF SubmitOrder, TypeOK
      <4> QED BY <3>1, <4>1, <4>2, <1>1
    <3>2. CASE \E o \in Orders :
             /\ order[o].key = k /\ order[o] = OrderRow(r, k, NoExit)
             /\ call' = [call EXCEPT ![w] = FinishCreated(o, r.type, status[o])]
      <4>1. PICK o \in Orders :
             /\ order[o].key = k
             /\ call' = [call EXCEPT ![w] = FinishCreated(o, r.type, status[o])]
        BY <3>2
      <4>2. UNCHANGED account /\ crashes' \in Nat
        BY <2>1 DEF SubmitOrder, TypeOK
      <4>3. Sound(FinishCreated(o, r.type, status[o]), status)
        <5>1. CASE status[o] = "NONE"
          <6>1. FinishCreated(o, r.type, status[o]) = Idle
            BY <5>1 DEF FinishCreated, Active
          <6> QED BY <6>1, IdleSound
        <5>2. CASE status[o] # "NONE"
          BY <5>2, FinishSound
        <5> QED BY <5>1, <5>2
      <4> QED BY <4>1, <4>2, <4>3, <1>1
    <3> QED BY <2>1, <3>1, <3>2 DEF SubmitOrder
  <2>2. ASSUME JoinIntent(w) PROVE TypeInv'
    <3>1. PICK o \in Orders :
             call' = [call EXCEPT ![w] =
                        IF order[o] = OrderRow(call[w].req, call[w].key, NoExit)
                        THEN FinishCreated(o, call[w].req.type, status[o]) ELSE Idle]
      BY <2>2 DEF JoinIntent
    <3>2. UNCHANGED account /\ crashes' \in Nat
      BY <2>2 DEF JoinIntent, TypeOK
    <3>3. Sound(FinishCreated(o, call[w].req.type, status[o]), status)
      <4>1. CASE status[o] = "NONE"
        <5>1. FinishCreated(o, call[w].req.type, status[o]) = Idle
          BY <4>1 DEF FinishCreated, Active
        <5> QED BY <5>1, IdleSound
      <4>2. CASE status[o] # "NONE"
        BY <4>2, FinishSound
      <4> QED BY <4>1, <4>2
    <3> QED BY <3>1, <3>2, <3>3, IdleSound, <1>1
  <2>3. ASSUME RefuseOrder(w) PROVE TypeInv'
    BY <2>3, <1>1, IdleSound DEF RefuseOrder, TypeOK
  <2>4. ASSUME Unavailable(w) PROVE TypeInv'
    BY <2>4, <1>1, FailsSound DEF Unavailable, TypeOK
  <2>5. ASSUME RefuseSettlement(w) PROVE TypeInv'
    BY <2>5, <1>1, FailsSound DEF RefuseSettlement, TypeOK
  <2>6. ASSUME NEW o \in Orders, BeginExecute(w, o) PROVE TypeInv'
    <3>1. Sound(Executing(o, FALSE), status)
      BY <2>6, ExecutingType DEF Sound, BeginExecute, Active
    <3> QED BY <2>6, <3>1, <1>1 DEF BeginExecute, TypeOK
  <2>7. ASSUME Crash(w) PROVE TypeInv'
    <3>1. UNCHANGED account /\ call' = [call EXCEPT ![w] = Idle] /\ crashes' = crashes + 1
      BY <2>7 DEF Crash
    <3>2. crashes' \in Nat
      BY <3>1 DEF TypeOK
    <3>3. Sound(Idle, status)
      BY IdleSound
    <3> QED BY <3>1, <3>2, <3>3, <1>1
  <2> QED BY <2>1, <2>2, <2>3, <2>4, <2>5, <2>6, <2>7
<1> USE DEF account, wallet, rows, history
<1>2. Sound(c, status') /\ (\A o \in Orders : status[o] # "NONE" => status'[o] # "NONE")
  BY <1>1
<1>3. call' \in [Workers -> Calls] /\ CallOK'
  BY <1>1, <1>2, CallStep
<1> QED BY <1>1, <1>3 DEF TypeOK

-----------------------------------------------------------------------------
(* The order rows after an insert, and the wallet it may reserve from. *)
LEMMA TypeCreate ==
  ASSUME TypeInv, NEW w \in Workers, CreateIntent(w)
  PROVE  TypeInv'
<1> USE DEF TypeInv
<1> DEFINE k == call[w].key
           r == call[w].req
<1>1. call[w].pc = "create" /\ k \in Keys /\ r \in Requests
  BY DEF CreateIntent, CallOK
<1>2. PICK o \in Orders :
        /\ NextOrder(o)
        /\ blocked' = blocked + Reservation(r)
        /\ reserved' = [reserved EXCEPT ![o] = Reservation(r)]
        /\ status' = [status EXCEPT ![o] = InitialStatus(r)]
        /\ order' = [order EXCEPT ![o] = OrderRow(r, k, NoExit)]
        /\ call' = [call EXCEPT ![w] = FinishCreated(o, r.type, InitialStatus(r))]
  BY DEF CreateIntent
<1>3. UNCHANGED <<cash, position, trades, history, crashes>>
  BY DEF CreateIntent
<1>4. /\ Reservation(r) \in Nat /\ OrderRow(r, k, NoExit) \in OrderRows
      /\ InitialStatus(r) \in Statuses /\ InitialStatus(r) # "NONE"
  BY <1>1, RequestType, NoExitType, OrderRowType DEF Statuses, Active
<1> HIDE DEF k, r
<1>5. /\ status' \in [Orders -> Statuses] /\ reserved' \in [Orders -> Nat]
      /\ order' \in [Orders -> OrderRows] /\ blocked' \in Int
  BY <1>2, <1>4 DEF TypeOK
<1>6. status'[o] # "NONE" /\ \A q \in Orders : status[q] # "NONE" => status'[q] # "NONE"
  BY <1>2, <1>4 DEF TypeOK
<1>7. Sound(FinishCreated(o, r.type, InitialStatus(r)), status')
  BY <1>6, FinishSound
<1>8. call' \in [Workers -> Calls] /\ CallOK'
  BY <1>2, <1>6, <1>7, CallStep
<1> QED BY <1>3, <1>5, <1>8 DEF TypeOK, history

(* The stored exit intent is an order that closes the position it saw. *)
LEMMA TypeSquareOff ==
  ASSUME TypeInv, NEW w \in Workers, NEW b \in Books, NEW k \in ExitKeys,
         SquareOffPosition(w, b, k)
  PROVE  TypeInv'
<1> USE DEF TypeInv
<1> DEFINE p == position[b]
           ref == [key |-> k, epoch |-> epoch, rev |-> p.rev]
           r == [book |-> b, side |-> IF p.qty < 0 THEN "BUY" ELSE "SELL",
                 type |-> "MARKET", qty |-> Magnitude(p.qty), price |-> 0,
                 trigger |-> 0, reason |-> "SQUARE_OFF"]
<1>1. PICK o \in Orders :
        /\ NextOrder(o)
        /\ status' = [status EXCEPT ![o] = "PENDING"]
        /\ order' = [order EXCEPT ![o] = OrderRow(r, NoKey, ref)]
        /\ call' = [call EXCEPT ![w] = Executing(o, FALSE)]
  BY DEF SquareOffPosition
<1>2. UNCHANGED <<wallet, reserved, position, trades, history, crashes>>
  BY DEF SquareOffPosition
<1>3. p.qty \in Int /\ p.rev \in Nat
  BY DEF TypeOK, PositionRows
<1>4. OrderRow(r, NoKey, ref) \in OrderRows
  <2>1. ref \in Exits
    BY <1>3 DEF Exits, TypeOK
  <2>2. r \in [book : Books, side : Sides, type : Types, qty : Nat, price : Nat,
               trigger : Nat, reason : {"NONE", "SQUARE_OFF"}]
    BY <1>3 DEF Sides, Types, Magnitude
  <2> HIDE DEF r, ref
  <2> QED BY <2>1, <2>2, OrderRowType
<1> HIDE DEF r, ref
<1>5. status' \in [Orders -> Statuses] /\ order' \in [Orders -> OrderRows]
  BY <1>1, <1>4 DEF TypeOK, Statuses, Active
<1>6. status'[o] # "NONE" /\ \A q \in Orders : status[q] # "NONE" => status'[q] # "NONE"
  BY <1>1 DEF TypeOK
<1>7. Sound(Executing(o, FALSE), status')
  BY <1>6, ExecutingType DEF Sound
<1>8. call' \in [Workers -> Calls] /\ CallOK'
  BY <1>1, <1>6, <1>7, CallStep
<1> QED BY <1>2, <1>5, <1>8 DEF TypeOK, wallet, history

(* A stop that triggers is a status change of one order. *)
LEMMA TypeActivate ==
  ASSUME TypeInv, NEW w \in Workers, NEW ltp \in Prices, ActivateStop(w, ltp)
  PROVE  TypeInv'
<1> USE DEF TypeInv
<1> DEFINE o == call[w].order
<1>1. o \in Orders /\ status[o] # "NONE" /\ call[w].creating \in BOOLEAN
  BY DEF ActivateStop, CallOK, TypeOK, Calls
<1>2. UNCHANGED <<wallet, reserved, order, position, trades, history, crashes>>
  BY DEF ActivateStop
<1>3. /\ status' \in [Orders -> Statuses]
      /\ \A q \in Orders : status[q] # "NONE" => status'[q] # "NONE"
  BY <1>1 DEF ActivateStop, TypeOK, Statuses, Active
<1>4. \E c : call' = [call EXCEPT ![w] = c] /\ Sound(c, status')
  <2>1. CASE status[o] = "TRIGGER_PENDING" /\ ~ TriggerSatisfied(order[o], ltp)
    BY <2>1, FailsSound DEF ActivateStop
  <2>2. CASE ~ (status[o] = "TRIGGER_PENDING" /\ ~ TriggerSatisfied(order[o], ltp))
    <3>1. call' = [call EXCEPT ![w] = Working("settle", o, ltp, call[w].creating)]
      BY <2>2 DEF ActivateStop, TypeOK
    <3>2. Sound(Working("settle", o, ltp, call[w].creating), status')
      BY <1>1, <1>3 DEF Sound, Working, Calls
    <3> QED BY <3>1, <3>2
  <2> QED BY <2>1, <2>2
<1>5. call' \in [Workers -> Calls] /\ CallOK'
  BY <1>3, <1>4, CallStep
<1> QED BY <1>2, <1>3, <1>5 DEF TypeOK, wallet, history

(* Cancelling an overtaken exit touches the order and the call only. *)
LEMMA TypeCancelObsolete ==
  ASSUME TypeInv, NEW w \in Workers, CancelObsolete(w)
  PROVE  TypeInv'
<1> USE DEF TypeInv
<1> DEFINE o == call[w].order
<1>1. o \in Orders
  BY DEF CancelObsolete, CallOK
<1>2. /\ status' = [status EXCEPT ![o] = "CANCELLED"]
      /\ call' = [call EXCEPT ![w] = Idle]
      /\ UNCHANGED <<wallet, reserved, order, position, trades, history, crashes>>
  BY DEF CancelObsolete
<1>3. /\ status' \in [Orders -> Statuses]
      /\ \A q \in Orders : status[q] # "NONE" => status'[q] # "NONE"
  BY <1>1, <1>2 DEF TypeOK, Statuses, Terminal
<1>4. call' \in [Workers -> Calls] /\ CallOK'
  BY <1>2, <1>3, IdleSound, CallStep
<1> QED BY <1>2, <1>3, <1>4 DEF TypeOK, wallet, history

(* Rejecting an order. *)
LEMMA TypeReject ==
  ASSUME TypeInv, NEW w \in Workers, Reject(w)
  PROVE  TypeInv'
<1> USE DEF TypeInv
<1> DEFINE o == call[w].order
<1>1. o \in Orders
  BY DEF Reject, CallOK
<1>2. /\ call' = [call EXCEPT ![w] = Idle]
      /\ UNCHANGED <<cash, order, position, trades, history, crashes>>
  BY DEF Reject
<1>3. /\ status' \in [Orders -> Statuses] /\ reserved' \in [Orders -> Nat]
      /\ blocked' \in Int
      /\ \A q \in Orders : status[q] # "NONE" => status'[q] # "NONE"
  <2>1. CASE status[o] \in Active
    <3>1. /\ blocked' = IF blocked >= reserved[o] THEN blocked - reserved[o] ELSE blocked
          /\ reserved' = [reserved EXCEPT ![o] = 0]
          /\ status' = [status EXCEPT ![o] = "REJECTED"]
      BY <2>1 DEF Reject
    <3> QED BY <1>1, <3>1 DEF TypeOK, Statuses, Terminal
  <2>2. CASE status[o] \notin Active
    BY <2>2 DEF Reject, TypeOK
  <2> QED BY <2>1, <2>2
<1>4. call' \in [Workers -> Calls] /\ CallOK'
  BY <1>2, <1>3, IdleSound, CallStep
<1> QED BY <1>2, <1>3, <1>4 DEF TypeOK, history

(* Requests of one transaction leave calls alone and orders in existence. *)
LEMMA TypeRequests ==
  ASSUME TypeInv,
         \/ \E o \in Orders : Cancel(o)
         \/ \E a \in Deposits : Deposit(a)
         \/ ResetCurrentState
  PROVE  TypeInv'
<1> USE DEF TypeInv
<1>1. ASSUME NEW o \in Orders, Cancel(o) PROVE TypeInv'
  <2>1. /\ status' = [status EXCEPT ![o] = "CANCELLED"]
        /\ reserved' = [reserved EXCEPT ![o] = 0] /\ blocked' = blocked - reserved[o]
        /\ UNCHANGED <<cash, order, position, trades, history, call, crashes>>
    BY <1>1 DEF Cancel
  <2>2. /\ status' \in [Orders -> Statuses] /\ reserved' \in [Orders -> Nat]
        /\ blocked' \in Int
        /\ \A q \in Orders : status[q] # "NONE" => status'[q] # "NONE"
    BY <2>1 DEF TypeOK, Statuses, Terminal
  <2>3. CallOK'
    BY <2>1, <2>2 DEF CallOK
  <2> QED BY <2>1, <2>2, <2>3 DEF TypeOK, history
<1>2. ASSUME NEW a \in Deposits, Deposit(a) PROVE TypeInv'
  <2>1. /\ cash' = cash + a /\ capital' = capital + a
        /\ UNCHANGED <<blocked, rows, position, trades, epoch, resetAt, call, crashes>>
    BY <1>2 DEF Deposit
  <2>2. a \in Nat
    BY EngineAssumption
  <2>3. CallOK'
    BY <2>1 DEF CallOK, rows
  <2> QED BY <2>1, <2>2, <2>3 DEF TypeOK, rows
<1>3. ASSUME ResetCurrentState PROVE TypeInv'
  <2> DEFINE open == OpenAtReset
  <2>1. /\ status' = [o \in Orders |-> IF o \in open THEN "CANCELLED" ELSE status[o]]
        /\ reserved' = [o \in Orders |-> IF o \in open THEN 0 ELSE reserved[o]]
        /\ cash' = InitialCash /\ blocked' = 0 /\ capital' = InitialCash
        /\ position' = [b \in Books |-> ClosedPosition(position[b].rev)]
        /\ epoch' = epoch + 1 /\ resetAt' = Len(trades)
        /\ UNCHANGED <<order, trades, call, crashes>>
    BY <1>3 DEF ResetCurrentState
  <2>2. /\ status' \in [Orders -> Statuses] /\ reserved' \in [Orders -> Nat]
        /\ \A q \in Orders : status[q] # "NONE" => status'[q] # "NONE"
    BY <2>1 DEF TypeOK, Statuses, Terminal
  <2>3. position' \in [Books -> PositionRows] /\ position'["DELIVERY"].qty >= 0
    <3>1. ASSUME NEW b \in Books
          PROVE  ClosedPosition(position[b].rev) \in PositionRows
      BY DEF ClosedPosition, PositionRows, TypeOK
    <3>2. position'["DELIVERY"] = ClosedPosition(position["DELIVERY"].rev)
      BY <2>1 DEF Books
    <3> QED BY <2>1, <3>1, <3>2 DEF ClosedPosition
  <2>4. resetAt' \in Nat /\ epoch' \in Nat /\ cash' \in Int /\ capital' \in Nat
    BY <2>1, EngineAssumption DEF TypeOK
  <2>5. CallOK'
    BY <2>1, <2>2 DEF CallOK
  <2> QED BY <2>1, <2>2, <2>3, <2>4, <2>5 DEF TypeOK
<1> QED BY <1>1, <1>2, <1>3

-----------------------------------------------------------------------------
(* The operands of a settlement are amounts. *)
LEMMA SettlementOperands ==
  ASSUME TypeInv, NEW w \in Workers, call[w].pc = "settle"
  PROVE  LET o == call[w].order IN
         /\ o \in Orders /\ order[o] \in OrderRows /\ reserved[o] \in Nat
         /\ FilledQty(o) \in Nat /\ FilledQty(o) <= order[o].qty
         /\ FillPrice(order[o], call[w].price) \in Nat \ {0}
         /\ order[o].book \in Books
         /\ position[order[o].book] \in PositionRows
<1> USE DEF TypeInv
<1> DEFINE o == call[w].order
<1>1. o \in Orders /\ call[w].price \in Nat \ {0}
  BY EngineAssumption DEF CallOK
<1>2. order[o] \in OrderRows /\ order[o].qty \in Nat /\ order[o].book \in Books /\ reserved[o] \in Nat
  BY <1>1 DEF TypeOK, OrderRows
<1>3. position[order[o].book] \in PositionRows
  BY <1>2 DEF TypeOK
<1>4. Magnitude(position[order[o].book].qty) \in Nat
  BY <1>3 DEF PositionRows, Magnitude
<1>5. FilledQty(o) \in Nat /\ FilledQty(o) <= order[o].qty
  BY <1>2, <1>4 DEF FilledQty, Smaller
<1>6. FillPrice(order[o], call[w].price) \in Nat \ {0}
  BY <1>1, <1>2, FillPricePositive
<1> QED BY <1>1, <1>2, <1>3, <1>5, <1>6

(* What both settlements write besides money keeps its shape. *)
LEMMA RecordType ==
  ASSUME TypeInv, NEW w \in Workers, NEW o \in Orders, NEW price \in Nat,
         FilledQty(o) \in Nat, Record(w, o, price)
  PROVE  /\ trades' \in Seq(Trades) /\ order' \in [Orders -> OrderRows]
         /\ status' \in [Orders -> Statuses] /\ reserved' \in [Orders -> Nat]
         /\ call' \in [Workers -> Calls] /\ CallOK'
         /\ epoch' \in Nat /\ resetAt' \in Nat /\ capital' \in Nat /\ crashes' \in Nat
<1> USE DEF TypeInv
<1>1. /\ trades' = Append(trades, [order |-> o, qty |-> FilledQty(o), price |-> price])
      /\ order' = [order EXCEPT ![o].qty = FilledQty(o)]
      /\ status' = [status EXCEPT ![o] = "EXECUTED"]
      /\ reserved' = [reserved EXCEPT ![o] = 0]
      /\ call' = [call EXCEPT ![w] = Idle]
      /\ UNCHANGED <<history, crashes>>
  BY DEF Record
<1>2. trades' \in Seq(Trades)
  <2>1. [order |-> o, qty |-> FilledQty(o), price |-> price] \in Trades
    BY DEF Trades
  <2> QED BY <1>1, <2>1 DEF TypeOK
<1>3. order' \in [Orders -> OrderRows]
  BY <1>1 DEF TypeOK, OrderRows
<1>4. /\ status' \in [Orders -> Statuses] /\ reserved' \in [Orders -> Nat]
      /\ \A q \in Orders : status[q] # "NONE" => status'[q] # "NONE"
  BY <1>1 DEF TypeOK, Statuses, Terminal
<1>5. call' \in [Workers -> Calls] /\ CallOK'
  BY <1>1, <1>4, IdleSound, CallStep
<1> QED BY <1>1, <1>2, <1>3, <1>4, <1>5 DEF TypeOK, history

(* A settled delivery leaves a long position with a cost that is not       *)
(* negative: sales are covered and a part of the cost leaves with a part   *)
(* of the shares.                                                          *)
LEMMA TypeSettleDelivery ==
  ASSUME TypeInv, NEW w \in Workers, SettleDelivery(w)
  PROVE  TypeInv'
<1> USE DEF TypeInv
<1> DEFINE o == call[w].order
           price == FillPrice(order[o], call[w].price)
           qty == FilledQty(o)
           total == qty * price
           p == position["DELIVERY"]
           sold == ProportionalCostBasis(Invested(p), qty, p.qty)
           newQty == TransitionQty(p.qty, qty, order[o].side)
           newCost == IF order[o].side = "BUY" THEN Invested(p) + total ELSE Invested(p) - sold
           new == [exists |-> TRUE, qty |-> newQty, cost |-> newCost, margin |-> p.margin,
                   avg |-> IF newQty = 0 THEN 0 ELSE newCost \div newQty,
                   realized |-> p.realized + IF order[o].side = "BUY" THEN 0 ELSE total - sold,
                   rev |-> p.rev + 1]
<1>1. /\ call[w].pc = "settle" /\ order[o].book = "DELIVERY"
      /\ DeliveryCovered(o, price)
      /\ cash' = cash - Delta(order[o].side, total)
      /\ blocked' = IF order[o].side = "BUY" THEN blocked - reserved[o] ELSE blocked
      /\ position' = [position EXCEPT !["DELIVERY"] = new]
      /\ Record(w, o, price)
  BY DEF SettleDelivery
<1>2. /\ o \in Orders /\ reserved[o] \in Nat /\ qty \in Nat /\ price \in Nat
      /\ order[o] \in OrderRows
  BY <1>1, SettlementOperands
<1>3. p \in PositionRows
  BY DEF TypeOK, Books
<1>4. total \in Nat
  BY <1>2, TimesNat
<1>5. p.qty \in Nat /\ p.realized \in Int /\ p.margin \in Nat /\ p.rev \in Nat
  BY <1>3 DEF PositionRows
<1>6. Invested(p) \in Nat
  <2>1. Magnitude(p.qty) \in Nat /\ p.avg \in Nat /\ p.cost \in Nat
    BY <1>3 DEF PositionRows, Magnitude
  <2>2. Magnitude(p.qty) * p.avg \in Nat
    BY <2>1, TimesNat
  <2> QED BY <2>1, <2>2 DEF Invested
<1>7. order[o].side \in Sides
  BY <1>2 DEF OrderRows
<1> HIDE DEF total, price, qty, o, p
<1>8. newQty \in Nat /\ newCost \in Nat /\ new.realized \in Int
  <2>1. CASE order[o].side = "BUY"
    BY <1>2, <1>4, <1>5, <1>6, <2>1 DEF TransitionQty, Delta
  <2>2. CASE order[o].side # "BUY"
    <3>1. qty <= p.qty
      BY <1>1, <2>2 DEF DeliveryCovered, qty, p
    <3>2. sold \in 0..Invested(p)
      BY <1>2, <1>5, <1>6, <3>1, ProportionalCostBasisBound
    <3> HIDE DEF sold
    <3> QED BY <1>2, <1>4, <1>5, <1>6, <2>2, <3>1, <3>2 DEF TransitionQty, Delta
  <2> QED BY <2>1, <2>2
<1>9. new \in PositionRows /\ new.qty >= 0
  <2> HIDE DEF newQty, newCost
  <2>1. newQty # 0 => newCost \div newQty \in Nat
    BY <1>8, DivNat
  <2> QED BY <1>5, <1>8, <2>1 DEF PositionRows
<1>10. position' \in [Books -> PositionRows] /\ position'["DELIVERY"].qty >= 0
  <2> HIDE DEF new
  <2> QED BY <1>1, <1>9 DEF TypeOK, Books
<1>11. cash' \in Int /\ blocked' \in Int
  <2>1. Delta(order[o].side, total) \in Int
    BY <1>4 DEF Delta
  <2> QED BY <1>1, <1>2, <2>1 DEF TypeOK
<1> QED BY <1>1, <1>2, <1>10, <1>11, RecordType DEF TypeOK, qty

(* What a margin settlement computes: amounts, and a margin to block. *)
LEMMA MarginOperands ==
  ASSUME TypeInv, NEW w \in Workers, call[w].pc = "settle"
  PROVE  LET o == call[w].order
             price == FillPrice(order[o], call[w].price)
             p == position[order[o].book]
             qty == FilledQty(o)
         IN  /\ MarginAfter(o, price) \in Nat /\ CashChange(o, price) \in Int
             /\ TransitionQty(p.qty, qty, order[o].side) \in Int
             /\ TransitionAverage(p.qty, p.avg, qty, price, order[o].side) \in Nat
             /\ TransitionRealized(p.qty, p.avg, qty, price, order[o].side) \in Int
             /\ BlockedAfter(o, price) \in Nat
             /\ p.margin \in Nat
<1> DEFINE o == call[w].order
           price == FillPrice(order[o], call[w].price)
           p == position[order[o].book]
           qty == FilledQty(o)
<1>1. /\ o \in Orders /\ order[o] \in OrderRows /\ reserved[o] \in Nat
      /\ qty \in Nat /\ price \in Nat /\ order[o].book \in Books /\ p \in PositionRows
  BY SettlementOperands
<1>2. p.qty \in Int /\ p.avg \in Nat /\ p.margin \in Nat
  BY <1>1 DEF PositionRows
<1>3. /\ TransitionQty(p.qty, qty, order[o].side) \in Int
      /\ TransitionAverage(p.qty, p.avg, qty, price, order[o].side) \in Nat
      /\ TransitionRealized(p.qty, p.avg, qty, price, order[o].side) \in Int
  BY <1>1, <1>2, TransitionQtyInt, TransitionAverageNat, TransitionRealizedInt
<1>4. MarginAfter(o, price) \in Nat
  BY <1>1, <1>3, MarginForPositionNat DEF MarginAfter
<1>5. CashChange(o, price) \in Int
  <2>1. qty * price \in Nat
    BY <1>1, TimesNat
  <2> QED BY <1>3, <2>1 DEF CashChange
<1>6. BlockedAfter(o, price) \in Nat
  BY <1>1, <1>2, <1>4 DEF BlockedAfter, TypeInv, TypeOK
<1> QED BY <1>2, <1>3, <1>4, <1>5, <1>6

(* A settled margin order leaves a well-formed position. *)
LEMMA TypeSettleMargin ==
  ASSUME TypeInv, NEW w \in Workers, SettleMargin(w)
  PROVE  TypeInv'
<1> DEFINE o == call[w].order
           b == order[o].book
           price == FillPrice(order[o], call[w].price)
           qty == FilledQty(o)
           p == position[b]
           newQty == TransitionQty(p.qty, qty, order[o].side)
           newAvg == TransitionAverage(p.qty, p.avg, qty, price, order[o].side)
           new == [exists |-> TRUE, qty |-> newQty, avg |-> newAvg,
                   cost |-> Magnitude(newQty) * newAvg, margin |-> MarginAfter(o, price),
                   realized |-> p.realized
                     + TransitionRealized(p.qty, p.avg, qty, price, order[o].side),
                   rev |-> p.rev + 1]
<1>1. /\ call[w].pc = "settle" /\ b \in MarginBooks
      /\ cash' = cash + CashChange(o, price)
      /\ blocked' = BlockedAfter(o, price)
      /\ position' = [position EXCEPT ![b] = new]
      /\ Record(w, o, price)
  BY DEF SettleMargin
<1>2. /\ o \in Orders /\ qty \in Nat /\ price \in Nat /\ b \in Books /\ p \in PositionRows
  BY <1>1, SettlementOperands
<1>3. /\ MarginAfter(o, price) \in Nat /\ CashChange(o, price) \in Int
      /\ newQty \in Int /\ newAvg \in Nat /\ BlockedAfter(o, price) \in Nat
      /\ TransitionRealized(p.qty, p.avg, qty, price, order[o].side) \in Int
  BY <1>1, MarginOperands
<1> HIDE DEF newQty, newAvg, price, qty
<1>4. new \in PositionRows
  <2>1. Magnitude(newQty) \in Nat
    BY <1>3 DEF Magnitude
  <2>2. Magnitude(newQty) * newAvg \in Nat
    BY <1>3, <2>1, TimesNat
  <2>3. p.realized \in Int /\ p.rev \in Nat
    BY <1>2 DEF PositionRows
  <2> QED BY <1>3, <2>2, <2>3 DEF PositionRows
<1>5. position' \in [Books -> PositionRows] /\ position'["DELIVERY"].qty >= 0
  <2> HIDE DEF new, p
  <2>1. b # "DELIVERY"
    BY <1>1 DEF MarginBooks
  <2> QED BY <1>1, <1>2, <1>4, <2>1 DEF TypeInv, TypeOK, Books
<1>6. cash' \in Int /\ blocked' \in Int
  BY <1>1, <1>3 DEF TypeInv, TypeOK
<1>7. /\ trades' \in Seq(Trades) /\ order' \in [Orders -> OrderRows]
      /\ status' \in [Orders -> Statuses] /\ reserved' \in [Orders -> Nat]
      /\ call' \in [Workers -> Calls] /\ CallOK'
      /\ epoch' \in Nat /\ resetAt' \in Nat /\ capital' \in Nat /\ crashes' \in Nat
  BY <1>1, <1>2, RecordType DEF qty
<1> QED BY <1>5, <1>6, <1>7 DEF TypeInv, TypeOK

(* Every step keeps the state well-formed. *)
LEMMA TypeStep == TypeInv /\ [Next]_vars => TypeInv'
<1> SUFFICES ASSUME TypeInv, [Next]_vars PROVE TypeInv'
  OBVIOUS
<1>1. ASSUME NEW w \in Workers, Progress(w) PROVE TypeInv'
  BY <1>1, TypeCalls, TypeCreate, TypeActivate, TypeSettleDelivery, TypeSettleMargin,
     TypeCancelObsolete, TypeReject DEF Progress
<1>2. CASE UNCHANGED vars
  BY <1>2 DEF vars, TypeInv, TypeOK, CallOK
<1>3. CASE Next
  BY <1>1, <1>3, TypeCalls, TypeSquareOff, TypeRequests DEF Next
<1> QED BY <1>2, <1>3

(* TypeOK holds in every state of every behaviour. *)
THEOREM TypeCorrect == Spec => []TypeOK
<1>1. TypeInv => TypeOK
  BY DEF TypeInv
<1> QED BY <1>1, TypeInit, TypeStep, PTL DEF Spec

-----------------------------------------------------------------------------
\* The wallet.

FundsInv == TypeInv /\ FundsCovered

(* No settlement, reservation, release or reset leaves more blocked than    *)
(* the wallet holds.                                                       *)
LEMMA FundsStep == FundsInv /\ [Next]_vars => FundsInv'
<1> SUFFICES ASSUME FundsInv, [Next]_vars PROVE FundsCovered'
  BY TypeStep DEF FundsInv
<1> USE DEF FundsInv, FundsCovered
<1>0. cash \in Int /\ blocked \in Int
  BY DEF TypeInv, TypeOK
<1>1. CASE UNCHANGED <<cash, blocked>>
  BY <1>1
<1>2. ASSUME NEW w \in Workers, CreateIntent(w) PROVE FundsCovered'
  <2>1. /\ blocked' = blocked + Reservation(call[w].req) /\ cash' = cash
        /\ Placeable(call[w].req)
    BY <1>2 DEF CreateIntent
  <2>2. Reservation(call[w].req) \in Nat
    BY <1>2, RequestType DEF CreateIntent, TypeInv, CallOK
  <2> QED BY <1>0, <2>1, <2>2 DEF Placeable, Available
<1>3. ASSUME NEW w \in Workers, SettleDelivery(w) PROVE FundsCovered'
  <2> DEFINE o == call[w].order
             price == FillPrice(order[o], call[w].price)
             total == FilledQty(o) * price
  <2>1. /\ call[w].pc = "settle" /\ DeliveryCovered(o, price)
        /\ cash' = cash - Delta(order[o].side, total)
        /\ blocked' = IF order[o].side = "BUY" THEN blocked - reserved[o] ELSE blocked
    BY <1>3 DEF SettleDelivery
  <2>2. reserved[o] \in Nat /\ total \in Nat
    BY <2>1, SettlementOperands, TimesNat
  <2> HIDE DEF o, price
  <2>3. CASE order[o].side = "BUY"
    <3>1. /\ IF reserved[o] > 0 THEN total <= reserved[o] ELSE total <= Available
          /\ total <= cash /\ reserved[o] <= blocked
      BY <2>1, <2>3 DEF DeliveryCovered
    <3> HIDE DEF total
    <3> QED BY <1>0, <2>1, <2>2, <2>3, <3>1 DEF Available, Delta
  <2>4. CASE order[o].side # "BUY"
    <3> HIDE DEF total
    <3> QED BY <1>0, <2>1, <2>2, <2>4 DEF Delta
  <2> QED BY <2>3, <2>4
<1>4. ASSUME NEW w \in Workers, SettleMargin(w) PROVE FundsCovered'
  <2> DEFINE o == call[w].order
             price == FillPrice(order[o], call[w].price)
  <2>1. /\ call[w].pc = "settle" /\ MarginCovered(o, price)
        /\ cash' = cash + CashChange(o, price) /\ blocked' = BlockedAfter(o, price)
    BY <1>4 DEF SettleMargin
  <2>2. BlockedAfter(o, price) \in Nat
    BY <2>1, MarginOperands
  <2> QED BY <2>1, <2>2 DEF MarginCovered
<1>5. ASSUME NEW w \in Workers, Reject(w) PROVE FundsCovered'
  <2>1. reserved[call[w].order] \in Nat
    BY <1>5 DEF Reject, TypeInv, TypeOK, CallOK
  <2>2. /\ cash' = cash
        /\ \/ blocked' = blocked
           \/ blocked' = blocked - reserved[call[w].order] /\ blocked >= reserved[call[w].order]
    BY <1>5 DEF Reject
  <2> QED BY <1>0, <2>1, <2>2
<1>6. ASSUME NEW o \in Orders, Cancel(o) PROVE FundsCovered'
  BY <1>0, <1>6 DEF Cancel, TypeInv, TypeOK
<1>7. ASSUME NEW a \in Deposits, Deposit(a) PROVE FundsCovered'
  BY <1>0, <1>7, EngineAssumption DEF Deposit
<1>8. CASE ResetCurrentState
  BY <1>8, EngineAssumption DEF ResetCurrentState
<1>9. ASSUME NEW w \in Workers, Progress(w) PROVE FundsCovered'
  BY <1>1, <1>2, <1>3, <1>4, <1>5, <1>9
     DEF Progress, JoinIntent, RefuseOrder, Unavailable, ActivateStop, CancelObsolete,
         RefuseSettlement, account, wallet
<1>10. CASE UNCHANGED vars
  BY <1>1, <1>10 DEF vars
<1>11. CASE Next
  BY <1>1, <1>6, <1>7, <1>8, <1>9, <1>11
     DEF Next, SubmitOrder, SquareOffPosition, BeginExecute, Crash, account, wallet
<1> QED BY <1>10, <1>11

(* FundsCovered holds in every state of every behaviour. *)
THEOREM FundsAlwaysCovered == Spec => []FundsCovered
<1>1. Init => FundsInv
  BY TypeInit, EngineAssumption DEF Init, FundsInv, FundsCovered
<1>2. FundsInv => FundsCovered
  BY DEF FundsInv
<1> QED BY <1>1, <1>2, FundsStep, PTL DEF Spec

-----------------------------------------------------------------------------
(* The balance needs two things of an instance.  ResetCurrentState cancels *)
(* PENDING and OPEN orders only, so a stop must not meet a reset; and a    *)
(* settlement that cancels an overtaken square-off releases nothing, so    *)
(* what calls itself a square-off must not reserve.  The run reset_stop    *)
(* shows the balance lost without the first.                               *)
NoStopMeetsReset == MaxResets = 0 \/ \A r \in Requests : r.type \in {"MARKET", "LIMIT"}
SquareOffsReserveNothing ==
  \A r \in Requests : r.reason = "SQUARE_OFF" => Reservation(r) = 0

RowsInv ==
  \A o \in Orders :
    /\ status[o] = "NONE" => reserved[o] = 0
    /\ order[o].exit.key # NoKey \/ order[o].reason = "SQUARE_OFF" => reserved[o] = 0
    /\ order[o].book = "DELIVERY" /\ order[o].side = "SELL" => reserved[o] = 0
    /\ MaxResets > 0 => status[o] # "TRIGGER_PENDING"

BalanceInv == TypeInv /\ RowsInv /\ BlockedBalance

(* The reservations in force are amounts, and none exceeds their sum. *)
LEMMA ReservationsType ==
  ASSUME TypeOK
  PROVE  /\ ActiveReserved \in [Orders -> Nat] /\ ActiveReserved \in [1..MaxOrders -> Int]
         /\ PartialSum(ActiveReserved, MaxOrders) \in Nat
         /\ \A o \in Orders : ActiveReserved[o] <= PartialSum(ActiveReserved, MaxOrders)
         /\ position["INTRADAY"].margin \in Nat /\ position["FUTURE"].margin \in Nat
         /\ position["OPTION"].margin \in Nat
         /\ TotalMargin \in Nat
<1>1. MaxOrders \in Nat
  BY EngineAssumption
<1>2. ActiveReserved \in [1..MaxOrders -> Nat] /\ ActiveReserved \in [1..MaxOrders -> Int]
  BY DEF ActiveReserved, TypeOK, Orders
<1>3. \A b \in Books : position[b].margin \in Nat
  BY DEF TypeOK, PositionRows
<1>4. PartialSum(ActiveReserved, MaxOrders) \in Nat
  BY <1>1, <1>2, PartialSumNat
<1>5. \A o \in Orders : ActiveReserved[o] <= PartialSum(ActiveReserved, MaxOrders)
  BY <1>1, <1>2, PartialSumBound DEF Orders
<1>6. /\ position["INTRADAY"].margin \in Nat /\ position["FUTURE"].margin \in Nat
      /\ position["OPTION"].margin \in Nat
  BY <1>3 DEF Books, MarginBooks
<1>7. TotalMargin \in Nat
  BY <1>6 DEF TotalMargin
<1> QED BY <1>2, <1>4, <1>5, <1>6, <1>7 DEF Orders

(* A step that touches one order moves the sum by that order's change. *)
LEMMA ReservationsStep ==
  ASSUME TypeOK, TypeOK', NEW o \in Orders,
         \A q \in Orders : q # o => status'[q] = status[q] /\ reserved'[q] = reserved[q]
  PROVE  PartialSum(ActiveReserved', MaxOrders)
           = PartialSum(ActiveReserved, MaxOrders) - ActiveReserved[o] + ActiveReserved'[o]
<1>1. MaxOrders \in Nat
  BY EngineAssumption
<1>2. /\ ActiveReserved \in [1..MaxOrders -> Int]
      /\ ActiveReserved' \in [1..MaxOrders -> Int]
  BY DEF ActiveReserved, TypeOK, Orders
<1>3. \A q \in 1..MaxOrders : q # o => ActiveReserved'[q] = ActiveReserved[q]
  BY DEF ActiveReserved, Orders
<1>4. o \in 1..MaxOrders
  BY DEF Orders
<1> HIDE DEF ActiveReserved
<1> QED BY <1>1, <1>2, <1>3, <1>4, PartialSumUpdate

(* An order that stops being active without filling gives back what it     *)
(* reserved.                                                               *)
LEMMA ReleaseStep ==
  ASSUME BalanceInv, TypeOK', NEW o \in Orders, status[o] \in Active,
         NEW st \in Statuses \ Active, status' = [status EXCEPT ![o] = st],
         reserved' = [reserved EXCEPT ![o] = 0], position' = position,
         order' = order, blocked' = blocked - reserved[o]
  PROVE  RowsInv' /\ BlockedBalance'
<1> USE DEF BalanceInv, TypeInv
<1>0. TypeOK /\ reserved[o] \in Nat
  BY DEF TypeOK
<1>1. RowsInv'
  BY <1>0 DEF RowsInv, TypeOK, Active
<1>2. ActiveReserved[o] = reserved[o] /\ ActiveReserved'[o] = 0
  BY <1>0 DEF ActiveReserved, TypeOK
<1>3. \A q \in Orders : q # o => status'[q] = status[q] /\ reserved'[q] = reserved[q]
  BY <1>0 DEF TypeOK
<1>4. PartialSum(ActiveReserved', MaxOrders)
        = PartialSum(ActiveReserved, MaxOrders) - ActiveReserved[o] + ActiveReserved'[o]
  BY <1>0, <1>3, ReservationsStep
<1>5. TotalMargin' = TotalMargin
  BY DEF TotalMargin
<1>6. PartialSum(ActiveReserved, MaxOrders) \in Nat /\ TotalMargin \in Nat
  BY <1>0, ReservationsType
<1>7. blocked = PartialSum(ActiveReserved, MaxOrders) + TotalMargin
  BY DEF BlockedBalance
<1>8. blocked' = PartialSum(ActiveReserved', MaxOrders) + TotalMargin'
  BY <1>0, <1>2, <1>4, <1>5, <1>6, <1>7
<1> QED BY <1>1, <1>8 DEF BlockedBalance

(* A step that changes no status, reservation, margin or wallet keeps the  *)
(* balance.                                                                *)
LEMMA BalanceFrame ==
  ASSUME BalanceInv, UNCHANGED <<blocked, status, reserved, order, position>>
  PROVE  RowsInv' /\ BlockedBalance'
<1>1. RowsInv'
  BY DEF BalanceInv, RowsInv
<1>2. ActiveReserved' = ActiveReserved /\ TotalMargin' = TotalMargin
  BY DEF ActiveReserved, TotalMargin
<1>3. BlockedBalance'
  BY <1>2 DEF BalanceInv, BlockedBalance
<1> QED BY <1>1, <1>3

(* Placing an order adds its reservation on both sides. *)
LEMMA BalanceCreate ==
  ASSUME NoStopMeetsReset, SquareOffsReserveNothing,
         BalanceInv, TypeOK', NEW w \in Workers, CreateIntent(w)
  PROVE  RowsInv' /\ BlockedBalance'
<1> USE DEF BalanceInv, TypeInv
<1> DEFINE k == call[w].key
           r == call[w].req
<1>0. TypeOK /\ r \in Requests
  BY DEF CreateIntent, CallOK
<1>1. PICK o \in Orders :
        /\ NextOrder(o)
        /\ blocked' = blocked + Reservation(r)
        /\ reserved' = [reserved EXCEPT ![o] = Reservation(r)]
        /\ status' = [status EXCEPT ![o] = InitialStatus(r)]
        /\ order' = [order EXCEPT ![o] = OrderRow(r, k, NoExit)]
  BY DEF CreateIntent
<1>2. position' = position
  BY DEF CreateIntent
<1>3. /\ Reservation(r) \in Nat /\ InitialStatus(r) \in {"PENDING", "TRIGGER_PENDING"}
      /\ r.reason = "SQUARE_OFF" => Reservation(r) = 0
      /\ r.book = "DELIVERY" /\ r.side = "SELL" => Reservation(r) = 0
      /\ MaxResets > 0 => InitialStatus(r) # "TRIGGER_PENDING"
  BY <1>0, RequestType, EngineAssumption
     DEF SquareOffsReserveNothing, NoStopMeetsReset, InitialStatus, Reservation
<1>4. /\ OrderRow(r, k, NoExit).exit.key = NoKey /\ OrderRow(r, k, NoExit).reason = r.reason
      /\ OrderRow(r, k, NoExit).book = r.book /\ OrderRow(r, k, NoExit).side = r.side
  BY DEF OrderRow, NoExit
<1> HIDE DEF k, r
<1>5. RowsInv'
  BY <1>0, <1>1, <1>3, <1>4 DEF RowsInv, TypeOK
<1>6. ActiveReserved[o] = 0 /\ ActiveReserved'[o] = Reservation(r)
  BY <1>0, <1>1, <1>3 DEF ActiveReserved, NextOrder, Active, TypeOK
<1>7. \A q \in Orders : q # o => status'[q] = status[q] /\ reserved'[q] = reserved[q]
  BY <1>0, <1>1 DEF TypeOK
<1>8. PartialSum(ActiveReserved', MaxOrders)
        = PartialSum(ActiveReserved, MaxOrders) - ActiveReserved[o] + ActiveReserved'[o]
  BY <1>0, <1>7, ReservationsStep
<1>9. TotalMargin' = TotalMargin
  BY <1>2 DEF TotalMargin
<1>10. PartialSum(ActiveReserved, MaxOrders) \in Nat /\ TotalMargin \in Nat
  BY <1>0, ReservationsType
<1>11. blocked = PartialSum(ActiveReserved, MaxOrders) + TotalMargin
  BY DEF BlockedBalance
<1>12. blocked' = PartialSum(ActiveReserved', MaxOrders) + TotalMargin'
  BY <1>1, <1>3, <1>6, <1>8, <1>9, <1>10, <1>11
<1> QED BY <1>5, <1>12 DEF BlockedBalance

(* A square-off is stored without a reservation. *)
LEMMA BalanceSquareOff ==
  ASSUME BalanceInv, TypeOK', NEW w \in Workers, NEW b \in Books, NEW x \in ExitKeys,
         SquareOffPosition(w, b, x)
  PROVE  RowsInv' /\ BlockedBalance'
<1> USE DEF BalanceInv, TypeInv
<1>0. TypeOK
  OBVIOUS
<1>1. PICK o \in Orders :
        /\ NextOrder(o)
        /\ status' = [status EXCEPT ![o] = "PENDING"]
        /\ \A q \in Orders : q # o => order'[q] = order[q]
  BY DEF SquareOffPosition, TypeOK
<1>2. blocked' = blocked /\ reserved' = reserved /\ position' = position
  BY DEF SquareOffPosition, wallet
<1>3. reserved[o] = 0
  BY <1>1 DEF RowsInv, NextOrder
<1>4. RowsInv'
  BY <1>0, <1>1, <1>2, <1>3 DEF RowsInv, TypeOK
<1>5. ActiveReserved' = ActiveReserved
  BY <1>0, <1>1, <1>2, <1>3 DEF ActiveReserved, TypeOK, NextOrder, Active
<1>6. TotalMargin' = TotalMargin
  BY <1>2 DEF TotalMargin
<1> QED BY <1>2, <1>4, <1>5, <1>6 DEF BlockedBalance

(* activateStop takes an order from one active status to another: what it *)
(* reserves stays counted.                                                *)
LEMMA BalanceActivate ==
  ASSUME BalanceInv, TypeOK', NEW w \in Workers, NEW ltp \in Prices, ActivateStop(w, ltp)
  PROVE  RowsInv' /\ BlockedBalance'
<1> USE DEF BalanceInv, TypeInv
<1>0. TypeOK
  OBVIOUS
<1>1. /\ blocked' = blocked /\ reserved' = reserved /\ position' = position /\ order' = order
      /\ \/ status' = status
         \/ status' = [status EXCEPT ![call[w].order] =
                         IF @ = "TRIGGER_PENDING" THEN "OPEN" ELSE @]
  BY DEF ActivateStop, wallet
<1>2. RowsInv'
  BY <1>0, <1>1 DEF RowsInv, TypeOK
<1>3. ActiveReserved' = ActiveReserved
  BY <1>0, <1>1 DEF ActiveReserved, TypeOK, Active
<1>4. TotalMargin' = TotalMargin
  BY <1>1 DEF TotalMargin
<1> QED BY <1>1, <1>2, <1>3, <1>4 DEF BlockedBalance

(* A settlement that cancels a square-off leaves nothing reserved behind.  *)
LEMMA BalanceCancelObsolete ==
  ASSUME BalanceInv, TypeOK', NEW w \in Workers, CancelObsolete(w)
  PROVE  RowsInv' /\ BlockedBalance'
<1> USE DEF BalanceInv, TypeInv
<1> DEFINE o == call[w].order
<1>0. TypeOK /\ o \in Orders
  BY DEF CancelObsolete, CallOK
<1>1. /\ status' = [status EXCEPT ![o] = "CANCELLED"] /\ blocked' = blocked
      /\ reserved' = reserved /\ position' = position /\ order' = order
      /\ Obsolete(o)
  BY DEF CancelObsolete, wallet
<1>2. reserved[o] = 0
  BY <1>0, <1>1 DEF RowsInv, Obsolete, StaleExit, NothingToClose
<1>3. RowsInv'
  BY <1>0, <1>1 DEF RowsInv, TypeOK
<1>4. ActiveReserved' = ActiveReserved
  BY <1>0, <1>1, <1>2 DEF ActiveReserved, TypeOK, Active
<1>5. TotalMargin' = TotalMargin
  BY <1>1 DEF TotalMargin
<1> QED BY <1>1, <1>3, <1>4, <1>5 DEF BlockedBalance

(* What both settlements do to the rows: the order stops being active and  *)
(* keeps no reservation.                                                   *)
LEMMA RecordBalance ==
  ASSUME BalanceInv, TypeOK', NEW w \in Workers, NEW o \in Orders, NEW price,
         Record(w, o, price), status[o] \in Active
  PROVE  /\ RowsInv'
         /\ PartialSum(ActiveReserved', MaxOrders)
              = PartialSum(ActiveReserved, MaxOrders) - reserved[o]
         /\ reserved[o] <= PartialSum(ActiveReserved, MaxOrders)
<1> USE DEF BalanceInv, TypeInv
<1>0. TypeOK /\ reserved[o] \in Nat
  BY DEF TypeOK
<1>1. /\ order' = [order EXCEPT ![o].qty = FilledQty(o)]
      /\ status' = [status EXCEPT ![o] = "EXECUTED"]
      /\ reserved' = [reserved EXCEPT ![o] = 0]
  BY DEF Record
<1>2. ASSUME NEW q \in Orders
      PROVE  /\ order'[q].exit = order[q].exit /\ order'[q].reason = order[q].reason
             /\ order'[q].book = order[q].book /\ order'[q].side = order[q].side
  <2>1. order[q] \in OrderRows
    BY <1>0 DEF TypeOK
  <2>2. order'[q] = IF q = o THEN [order[q] EXCEPT !.qty = FilledQty(o)] ELSE order[q]
    BY <1>0, <1>1 DEF TypeOK
  <2> QED BY <2>1, <2>2 DEF OrderRows
<1>3. RowsInv'
  BY <1>0, <1>1, <1>2 DEF RowsInv, TypeOK
<1>4. ActiveReserved[o] = reserved[o] /\ ActiveReserved'[o] = 0
  BY <1>0, <1>1 DEF ActiveReserved, TypeOK
<1>5. \A q \in Orders : q # o => status'[q] = status[q] /\ reserved'[q] = reserved[q]
  BY <1>0, <1>1 DEF TypeOK
<1>6. PartialSum(ActiveReserved', MaxOrders)
        = PartialSum(ActiveReserved, MaxOrders) - ActiveReserved[o] + ActiveReserved'[o]
  BY <1>0, <1>5, ReservationsStep
<1>7. /\ PartialSum(ActiveReserved, MaxOrders) \in Nat
      /\ ActiveReserved[o] <= PartialSum(ActiveReserved, MaxOrders)
  BY <1>0, ReservationsType
<1> QED BY <1>0, <1>3, <1>4, <1>6, <1>7

(* A delivery settlement unblocks a purchase's reservation; a sale has none. *)
LEMMA BalanceSettleDelivery ==
  ASSUME BalanceInv, TypeOK', NEW w \in Workers, SettleDelivery(w)
  PROVE  RowsInv' /\ BlockedBalance'
<1> USE DEF BalanceInv, TypeInv
<1> DEFINE o == call[w].order
           price == FillPrice(order[o], call[w].price)
<1>0. call[w].pc = "settle"
  BY DEF SettleDelivery
<1>1. o \in Orders /\ reserved[o] \in Nat /\ TypeOK /\ order[o].side \in Sides
  BY <1>0, SettlementOperands DEF OrderRows
<1>2. /\ order[o].book = "DELIVERY" /\ Record(w, o, price) /\ status[o] \in Active
      /\ blocked' = IF order[o].side = "BUY" THEN blocked - reserved[o] ELSE blocked
  BY DEF SettleDelivery, Admissible
<1>3. \A b \in MarginBooks : position'[b] = position[b]
  BY DEF SettleDelivery, MarginBooks, TypeOK, Books
<1>4. TotalMargin' = TotalMargin
  BY <1>3 DEF TotalMargin, MarginBooks
<1> HIDE DEF price
<1>5. blocked' = blocked - reserved[o]
  BY <1>1, <1>2 DEF Sides, TypeOK, RowsInv
<1>6. /\ RowsInv'
      /\ PartialSum(ActiveReserved', MaxOrders)
           = PartialSum(ActiveReserved, MaxOrders) - reserved[o]
  BY <1>1, <1>2, RecordBalance
<1>7. PartialSum(ActiveReserved, MaxOrders) \in Nat /\ TotalMargin \in Nat
  BY <1>1, ReservationsType
<1>8. blocked = PartialSum(ActiveReserved, MaxOrders) + TotalMargin
  BY DEF BlockedBalance
<1>9. blocked' = PartialSum(ActiveReserved', MaxOrders) + TotalMargin'
  BY <1>1, <1>4, <1>5, <1>6, <1>7, <1>8
<1> QED BY <1>6, <1>9 DEF BlockedBalance

(* A margin settlement swaps the order's reservation and the position's    *)
(* old margin for the new margin; its clamp at zero never bites.           *)
LEMMA BalanceSettleMargin ==
  ASSUME BalanceInv, TypeOK', NEW w \in Workers, SettleMargin(w)
  PROVE  RowsInv' /\ BlockedBalance'
<1> USE DEF BalanceInv, TypeInv
<1> DEFINE o == call[w].order
           b == order[o].book
           price == FillPrice(order[o], call[w].price)
           m == MarginAfter(o, price)
<1>0. call[w].pc = "settle"
  BY DEF SettleMargin
<1>1. o \in Orders /\ reserved[o] \in Nat /\ TypeOK
  BY <1>0, SettlementOperands
<1>2. m \in Nat /\ position[b].margin \in Nat
  BY <1>0, MarginOperands
<1>3. /\ b \in MarginBooks /\ Record(w, o, price) /\ status[o] \in Active
      /\ blocked' = BlockedAfter(o, price)
  BY DEF SettleMargin, Admissible
<1>4. position'[b].margin = m /\ \A c \in Books : c # b => position'[c] = position[c]
  BY <1>1, <1>3 DEF SettleMargin, TypeOK, Books
<1> HIDE DEF price, m
<1>5. TotalMargin' = TotalMargin - position[b].margin + m
  <2>1. /\ position["INTRADAY"].margin \in Nat /\ position["FUTURE"].margin \in Nat
        /\ position["OPTION"].margin \in Nat
    BY <1>1, ReservationsType
  <2> HIDE DEF b
  <2>2. CASE b = "INTRADAY"
    BY <1>2, <1>4, <2>1, <2>2 DEF TotalMargin, Books, MarginBooks
  <2>3. CASE b = "FUTURE"
    BY <1>2, <1>4, <2>1, <2>3 DEF TotalMargin, Books, MarginBooks
  <2>4. CASE b = "OPTION"
    BY <1>2, <1>4, <2>1, <2>4 DEF TotalMargin, Books, MarginBooks
  <2> QED BY <1>3, <2>2, <2>3, <2>4 DEF MarginBooks
<1>6. position[b].margin <= TotalMargin
  <2>1. /\ position["INTRADAY"].margin \in Nat /\ position["FUTURE"].margin \in Nat
        /\ position["OPTION"].margin \in Nat
    BY <1>1, ReservationsType
  <2> QED BY <1>3, <2>1 DEF TotalMargin, MarginBooks
<1>7. /\ RowsInv'
      /\ PartialSum(ActiveReserved', MaxOrders)
           = PartialSum(ActiveReserved, MaxOrders) - reserved[o]
      /\ reserved[o] <= PartialSum(ActiveReserved, MaxOrders)
  BY <1>1, <1>3, RecordBalance
<1>8. PartialSum(ActiveReserved, MaxOrders) \in Nat /\ TotalMargin \in Nat
  BY <1>1, ReservationsType
<1>9. blocked = PartialSum(ActiveReserved, MaxOrders) + TotalMargin
  BY DEF BlockedBalance
<1>10. blocked' = blocked - reserved[o] + m - position[b].margin
  <2>1. blocked - reserved[o] + m - position[b].margin >= 0
    BY <1>1, <1>2, <1>6, <1>7, <1>8, <1>9
  <2>2. blocked' = LET n == blocked - reserved[o] + m - position[b].margin
                   IN  IF n < 0 THEN 0 ELSE n
    BY <1>3 DEF BlockedAfter, m
  <2>3. blocked \in Int
    BY <1>1 DEF TypeOK
  <2> QED BY <1>1, <1>2, <2>1, <2>2, <2>3
<1>11. blocked' = PartialSum(ActiveReserved', MaxOrders) + TotalMargin'
  BY <1>1, <1>2, <1>5, <1>7, <1>8, <1>9, <1>10
<1> QED BY <1>7, <1>11 DEF BlockedBalance

(* A rejection finds its reservation blocked, and releases it. *)
LEMMA BalanceReject ==
  ASSUME BalanceInv, TypeOK', NEW w \in Workers, Reject(w)
  PROVE  RowsInv' /\ BlockedBalance'
<1> USE DEF BalanceInv, TypeInv
<1> DEFINE o == call[w].order
<1>0. TypeOK /\ o \in Orders /\ reserved[o] \in Nat
  BY DEF Reject, CallOK, TypeOK
<1>1. position' = position /\ order' = order
  BY DEF Reject
<1>2. CASE status[o] \in Active
  <2>1. /\ blocked' = IF blocked >= reserved[o] THEN blocked - reserved[o] ELSE blocked
        /\ reserved' = [reserved EXCEPT ![o] = 0]
        /\ status' = [status EXCEPT ![o] = "REJECTED"]
    BY <1>2 DEF Reject
  <2>2. ActiveReserved[o] = reserved[o]
    BY <1>0, <1>2 DEF ActiveReserved
  <2>3. /\ reserved[o] <= PartialSum(ActiveReserved, MaxOrders)
        /\ PartialSum(ActiveReserved, MaxOrders) \in Nat /\ TotalMargin \in Nat
    BY <1>0, <2>2, ReservationsType
  <2>4. blocked = PartialSum(ActiveReserved, MaxOrders) + TotalMargin
    BY DEF BlockedBalance
  <2>5. blocked' = blocked - reserved[o]
    BY <1>0, <2>1, <2>3, <2>4
  <2>6. "REJECTED" \in Statuses \ Active
    BY DEF Statuses, Terminal, Active
  <2> QED BY <1>0, <1>1, <1>2, <2>1, <2>5, <2>6, ReleaseStep
<1>3. CASE status[o] \notin Active
  <2>1. UNCHANGED <<blocked, status, reserved, order, position>>
    BY <1>1, <1>3 DEF Reject
  <2> QED BY <2>1, BalanceFrame
<1> QED BY <1>2, <1>3

(* Cancelling an order releases its reservation. *)
LEMMA BalanceCancel ==
  ASSUME BalanceInv, TypeOK', NEW o \in Orders, Cancel(o)
  PROVE  RowsInv' /\ BlockedBalance'
<1>1. /\ status[o] \in Active /\ blocked' = blocked - reserved[o]
      /\ reserved' = [reserved EXCEPT ![o] = 0]
      /\ status' = [status EXCEPT ![o] = "CANCELLED"]
      /\ position' = position /\ order' = order
  BY DEF Cancel
<1>2. "CANCELLED" \in Statuses \ Active
  BY DEF Statuses, Terminal, Active
<1> QED BY <1>1, <1>2, ReleaseStep

(* A reset that meets no stop leaves nothing reserved and no position.     *)
LEMMA BalanceReset ==
  ASSUME BalanceInv, TypeOK', ResetCurrentState
  PROVE  RowsInv' /\ BlockedBalance'
<1> USE DEF BalanceInv, TypeInv
<1> DEFINE open == OpenAtReset
<1>1. /\ status' = [o \in Orders |-> IF o \in open THEN "CANCELLED" ELSE status[o]]
      /\ reserved' = [o \in Orders |-> IF o \in open THEN 0 ELSE reserved[o]]
      /\ blocked' = 0 /\ order' = order /\ epoch < MaxResets
      /\ position' = [b \in Books |-> ClosedPosition(position[b].rev)]
  BY DEF ResetCurrentState
<1>2. TypeOK /\ MaxResets > 0
  BY <1>1, EngineAssumption DEF TypeOK
<1>3. RowsInv'
  BY <1>1, <1>2 DEF RowsInv, TypeOK
<1>4. \A o \in Orders : ActiveReserved'[o] = 0
  BY <1>1, <1>2 DEF ActiveReserved, OpenAtReset, RowsInv, TypeOK, Active
<1>5. PartialSum(ActiveReserved', MaxOrders) = 0
  <2>1. MaxOrders \in Nat /\ \A o \in 1..MaxOrders : ActiveReserved'[o] = 0
    BY <1>4, EngineAssumption DEF Orders
  <2> HIDE DEF ActiveReserved
  <2> QED BY <2>1, PartialSumZero
<1>6. TotalMargin' = 0
  <2>1. \A b \in Books : position'[b].margin = 0
    BY <1>1 DEF ClosedPosition
  <2> QED BY <2>1 DEF TotalMargin, Books, MarginBooks
<1>7. blocked' = PartialSum(ActiveReserved', MaxOrders) + TotalMargin'
  BY <1>1, <1>5, <1>6
<1> QED BY <1>3, <1>7 DEF BlockedBalance

(* Every step keeps the balance. *)
LEMMA BalanceStep ==
  ASSUME NoStopMeetsReset, SquareOffsReserveNothing
  PROVE  BalanceInv /\ [Next]_vars => BalanceInv'
<1> SUFFICES ASSUME BalanceInv, [Next]_vars PROVE RowsInv' /\ BlockedBalance'
  BY TypeStep DEF BalanceInv
<1>0. TypeOK'
  BY TypeStep DEF BalanceInv, TypeInv
<1>1. ASSUME UNCHANGED <<blocked, rows, position>> PROVE RowsInv' /\ BlockedBalance'
  BY <1>1, BalanceFrame DEF rows
<1>2. ASSUME NEW w \in Workers, Progress(w) PROVE RowsInv' /\ BlockedBalance'
  <2>1. CASE JoinIntent(w) \/ RefuseOrder(w) \/ Unavailable(w) \/ RefuseSettlement(w)
    BY <1>1, <2>1 DEF JoinIntent, RefuseOrder, Unavailable, RefuseSettlement, account, wallet
  <2> QED BY <1>0, <1>2, <2>1, BalanceCreate, BalanceActivate, BalanceSettleDelivery,
             BalanceSettleMargin, BalanceCancelObsolete, BalanceReject DEF Progress
<1>3. CASE UNCHANGED vars
  BY <1>1, <1>3 DEF vars, rows
<1>4. ASSUME NEW a \in Deposits, Deposit(a) PROVE RowsInv' /\ BlockedBalance'
  BY <1>1, <1>4 DEF Deposit
<1>5. ASSUME NEW w \in Workers,
             \/ \E k \in Keys, r \in Requests : SubmitOrder(w, k, r)
             \/ \E o \in Orders : BeginExecute(w, o)
             \/ Crash(w)
      PROVE RowsInv' /\ BlockedBalance'
  BY <1>1, <1>5 DEF SubmitOrder, BeginExecute, Crash, account, wallet
<1>6. CASE Next
  BY <1>0, <1>2, <1>4, <1>5, <1>6, BalanceSquareOff, BalanceCancel, BalanceReset DEF Next
<1> QED BY <1>3, <1>6

(* The balance starts at zero. *)
LEMMA BalanceInit == Init => BalanceInv
<1> SUFFICES ASSUME Init PROVE RowsInv /\ BlockedBalance
  BY TypeInit DEF BalanceInv
<1> USE DEF Init
<1>1. RowsInv
  BY DEF RowsInv, NoOrder, NoRequest, OrderRow, NoExit
<1>2. PartialSum(ActiveReserved, MaxOrders) = 0
  <2>1. MaxOrders \in Nat /\ \A o \in 1..MaxOrders : ActiveReserved[o] = 0
    BY EngineAssumption DEF ActiveReserved, Orders
  <2> HIDE DEF ActiveReserved
  <2> QED BY <2>1, PartialSumZero
<1>3. TotalMargin = 0
  BY DEF TotalMargin, ClosedPosition, Books, MarginBooks
<1> QED BY <1>1, <1>2, <1>3 DEF BlockedBalance

(* What is blocked is what active orders reserve and positions tie up, in  *)
(* every state of every behaviour of an instance without those two cases.  *)
THEOREM BlockedAlwaysBalances ==
  ASSUME NoStopMeetsReset, SquareOffsReserveNothing
  PROVE  Spec => []BlockedBalance
<1>1. BalanceInv /\ [Next]_vars => BalanceInv'
  BY BalanceStep
<1>2. BalanceInv => BlockedBalance
  BY DEF BalanceInv
<1> QED BY <1>1, <1>2, BalanceInit, PTL DEF Spec
=============================================================================
