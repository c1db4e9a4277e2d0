------------------------------ MODULE PanProofs ------------------------------
(***************************************************************************)
(* What the loop of validatePAN computes, for strings of every length: the *)
(* check sum of the standard.  A sum over the places of a number is proved *)
(* about by induction over the places.                                     *)
(***************************************************************************)
EXTENDS PanValidation, SequenceTheorems, WellFoundedInduction, TLAPS

-----------------------------------------------------------------------------
(* Sums *)

\* Induction over the natural numbers, for the set of those for which it holds: the
\* least number outside would be the successor of one inside.
LEMMA Induction ==
  ASSUME NEW T, 0 \in T, \A n \in Nat : n \in T => n + 1 \in T
  PROVE  Nat \subseteq T
PROOF
  <1> DEFINE less == OpToRel(<, Nat)
             outside == Nat \ T
  <1>1. SUFFICES ASSUME outside # {} PROVE FALSE
    OBVIOUS
  <1>2. \A m, n \in Nat : m < n => <<m, n>> \in less
    BY DEF OpToRel
  <1>3. IsWellFoundedOn(less, Nat)
    BY NatLessThanWellFounded
  <1>4. PICK n \in outside : \A m \in outside : <<m, n>> \notin less
    <2> HIDE DEF less
    <2> QED
      BY <1>1, <1>3, WFMin
  <1>5. n # 0 /\ n - 1 \in Nat /\ n - 1 < n /\ (n - 1) + 1 = n
    OBVIOUS
  <1>6. n - 1 \in T
    BY <1>2, <1>4, <1>5
  <1> QED
    BY <1>4, <1>5, <1>6

\* The first m values of v are numbers.
Values(m, v) == \A n \in 1..m : v[n] \in Int

\* g has the sums of the first n values of v, for every n up to m.
Sums(m, v, g) ==
  /\ g = [n \in 0..m |-> IF n = 0 THEN 0 ELSE g[n - 1] + v[n]]
  /\ \A n \in 0..m : g[n] \in Int

\* The next sum.
LEMMA NextSum ==
  ASSUME NEW m \in Nat, NEW v, NEW g, Sums(m, v, g), NEW k \in Nat, k + 1 \in 1..m
  PROVE  g[k + 1] = g[k] + v[k + 1] /\ g[k] \in Int /\ g[k + 1] \in Int
PROOF
  <1>1. \A n \in 0..m : g[n] = IF n = 0 THEN 0 ELSE g[n - 1] + v[n]
    BY DEF Sums
  <1>2. k \in 0..m /\ k + 1 \in 0..m /\ k + 1 # 0 /\ (k + 1) - 1 = k
    OBVIOUS
  <1> QED
    BY <1>1, <1>2 DEF Sums

\* There are such sums, so the recursive definitions of the model define something.
LEMMA SumsExist ==
  ASSUME NEW m \in Nat, NEW v, Values(m, v)
  PROVE  \E g : Sums(m, v, g)
PROOF
  <1> DEFINE T == {k \in Nat : k <= m => \E g : Sums(k, v, g)}
  <1>1. 0 \in T
    <2>1. Sums(0, v, [n \in 0..0 |-> 0])
      BY DEF Sums
    <2> QED
      BY <2>1
  <1>2. ASSUME NEW k \in Nat, k \in T
        PROVE  k + 1 \in T
    <2> SUFFICES ASSUME k + 1 \in 1..m
                 PROVE  \E h : Sums(k + 1, v, h)
      OBVIOUS
    <2>1. PICK g : Sums(k, v, g)
      BY <1>2
    <2> DEFINE h == [n \in 0..k + 1 |-> IF n = k + 1 THEN g[k] + v[n] ELSE g[n]]
    <2>2. /\ \A n \in 0..k : g[n] = IF n = 0 THEN 0 ELSE g[n - 1] + v[n]
          /\ \A n \in 0..k : g[n] \in Int
      BY <2>1 DEF Sums
    <2>3. g[k] + v[k + 1] \in Int
      BY <2>2 DEF Values
    <2>4. ASSUME NEW n \in 0..k + 1
          PROVE  h[n] = (IF n = 0 THEN 0 ELSE h[n - 1] + v[n]) /\ h[n] \in Int
      <3>1. CASE n = k + 1
        BY <2>3, <3>1
      <3>2. CASE n # k + 1
        <4>1. n \in 0..k /\ h[n] = g[n]
          BY <3>2
        <4>2. n # 0 => n - 1 \in 0..k /\ h[n - 1] = g[n - 1]
          BY <4>1
        <4> QED
          BY <2>2, <4>1, <4>2
      <3> QED
        BY <3>1, <3>2
    <2>5. Sums(k + 1, v, h)
      BY <2>4 DEF Sums
    <2> QED
      BY <2>5
  <1> HIDE DEF T
  <1>3. m \in T
    BY <1>1, <1>2, Induction
  <1> QED
    BY <1>3 DEF T

\* The sums are determined by the values.
LEMMA SumsAreUnique ==
  ASSUME NEW m \in Nat, NEW v, NEW g, Sums(m, v, g),
         NEW h, h = [n \in 0..m |-> IF n = 0 THEN 0 ELSE h[n - 1] + v[n]]
  PROVE  h = g
PROOF
  <1> DEFINE T == {k \in Nat : k <= m => h[k] = g[k]}
  <1>1. \A k \in 0..m : /\ g[k] = IF k = 0 THEN 0 ELSE g[k - 1] + v[k]
                        /\ h[k] = IF k = 0 THEN 0 ELSE h[k - 1] + v[k]
    BY DEF Sums
  <1>2. 0 \in T
    BY <1>1
  <1>3. ASSUME NEW k \in Nat, k \in T
        PROVE  k + 1 \in T
    BY <1>1, <1>3
  <1>4. \A k \in 0..m : h[k] = g[k]
    <2> SUFFICES ASSUME NEW k \in 0..m PROVE h[k] = g[k]
      OBVIOUS
    <2>1. k \in T
      <3> HIDE DEF T
      <3>1. k \in Nat
        OBVIOUS
      <3> QED
        BY <1>2, <1>3, <3>1, Induction
    <2> QED
      BY <2>1
  <1>5. h = [k \in 0..m |-> h[k]] /\ g = [k \in 0..m |-> g[k]]
    BY DEF Sums
  <1> QED
    BY <1>4, <1>5

\* When one value changes, every sum from there on changes by as much.
LEMMA OneChange ==
  ASSUME NEW m \in Nat, NEW v, NEW w, Values(m, v), Values(m, w),
         NEW p \in 1..m, \A n \in 1..m : n # p => w[n] = v[n],
         NEW g, Sums(m, v, g), NEW h, Sums(m, w, h)
  PROVE  h[m] = g[m] + (w[p] - v[p])
PROOF
  <1> DEFINE T == {k \in Nat : k <= m => h[k] = IF k >= p THEN g[k] + (w[p] - v[p]) ELSE g[k]}
  <1>1. 0 \in T
    BY DEF Sums
  <1>2. ASSUME NEW k \in Nat, k \in T
        PROVE  k + 1 \in T
    <2> SUFFICES ASSUME k + 1 \in 1..m
                 PROVE  h[k + 1] = IF k + 1 >= p THEN g[k + 1] + (w[p] - v[p]) ELSE g[k + 1]
      OBVIOUS
    <2>1. /\ g[k + 1] = g[k] + v[k + 1] /\ h[k + 1] = h[k] + w[k + 1]
          /\ g[k] \in Int /\ h[k] \in Int
      BY NextSum
    <2>2. h[k] = IF k >= p THEN g[k] + (w[p] - v[p]) ELSE g[k]
      BY <1>2
    <2>3. v[k + 1] \in Int /\ w[k + 1] \in Int /\ v[p] \in Int /\ w[p] \in Int
      BY DEF Values
    <2>4. CASE k + 1 = p
      BY <2>1, <2>2, <2>3, <2>4
    <2>5. CASE k + 1 # p
      BY <2>1, <2>2, <2>3, <2>5
    <2> QED
      BY <2>4, <2>5
  <1> HIDE DEF T
  <1>3. m \in T
    BY <1>1, <1>2, Induction
  <1> QED
    BY <1>3 DEF T

-----------------------------------------------------------------------------
(* The loop and the standard *)

\* What the loop adds for a digit, n turns after the start.
Weight(n, d) == IF n % 2 = 0 THEN Doubled(d) ELSE d

\* What each place adds to the check sum, counted from the right.
Weights(s) == [n \in 1..Len(s) |-> Weight(n, s[Len(s) + 1 - n])]

\* The digit sum of a doubled digit is what the code subtracts 9 for.
LEMMA WeightIsPlaceValue ==
  ASSUME NEW n \in Nat, NEW d \in Digits
  PROVE  Weight(n, d) \in 0..9 /\ PlaceValue(n, d) = Weight(n, d)
PROOF
  <1>1. d \in 0..9
    BY DEF Digits
  <1>2. Doubled(d) \in 0..9 /\ ((2 * d) \div 10) + ((2 * d) % 10) = Doubled(d)
    BY <1>1 DEF Doubled
  <1> QED
    BY <1>1, <1>2 DEF Weight, PlaceValue

\* Doubling and subtracting 9 keeps different digits apart.
LEMMA WeightsDiffer ==
  ASSUME NEW n \in Nat, NEW c \in Digits, NEW d \in Digits, c # d
  PROVE  Weight(n, c) # Weight(n, d)
PROOF
  <1>1. Doubled(c) # Doubled(d)
    BY DEF Doubled, Digits
  <1> QED
    BY <1>1 DEF Weight

\* A sum that changes by less than 10 does not stay divisible by 10.
LEMMA NotDivisible ==
  ASSUME NEW sum \in Int, sum % 10 = 0, NEW change \in -9..9 \ {0}
  PROVE  (sum + change) % 10 # 0
PROOF
  OBVIOUS

\* The sum of the first m values of v passes the check.
Divisible(m, v) == \A g : Sums(m, v, g) => g[m] % 10 = 0

\* The check tells two lists of weights apart that differ at one place.
LEMMA OneChangeShows ==
  ASSUME NEW m \in Nat, NEW v, NEW w, Values(m, v), Values(m, w), Divisible(m, v),
         NEW p \in 1..m, \A n \in 1..m : n # p => w[n] = v[n],
         v[p] \in 0..9, w[p] \in 0..9, v[p] # w[p]
  PROVE  ~ Divisible(m, w)
PROOF
  <1>1. PICK g : Sums(m, v, g)
    BY SumsExist
  <1>2. PICK h : Sums(m, w, h)
    BY SumsExist
  <1>3. h[m] = g[m] + (w[p] - v[p])
    BY <1>1, <1>2, OneChange
  <1>4. g[m] \in Int /\ g[m] % 10 = 0
    <2>1. \A n \in 0..m : g[n] \in Int
      BY <1>1 DEF Sums
    <2> QED
      BY <1>1, <2>1 DEF Divisible
  <1>5. w[p] - v[p] \in -9..9 \ {0}
    OBVIOUS
  <1>6. h[m] % 10 # 0
    BY <1>3, <1>4, <1>5, NotDivisible
  <1> QED
    BY <1>2, <1>6 DEF Divisible

\* Nor are the sums when two values change that do not make up for each other.
LEMMA TwoChangesShow ==
  ASSUME NEW m \in Nat, NEW v, NEW w, Values(m, v), Values(m, w), Divisible(m, v),
         NEW p \in 1..m, NEW q \in 1..m, p # q,
         \A n \in 1..m : n # p /\ n # q => w[n] = v[n],
         (w[p] - v[p]) + (w[q] - v[q]) \in -9..9 \ {0}
  PROVE  ~ Divisible(m, w)
PROOF
  <1> DEFINE u == [n \in 1..m |-> IF n = p THEN w[n] ELSE v[n]]
  <1>1. /\ \A n \in 1..m : n # p => u[n] = v[n]
        /\ \A n \in 1..m : n # q => w[n] = u[n]
        /\ u[p] = w[p] /\ u[q] = v[q]
    OBVIOUS
  <1>2. Values(m, u)
    BY DEF Values
  <1> HIDE DEF u
  <1>3. PICK g : Sums(m, v, g)
    BY SumsExist
  <1>4. PICK f : Sums(m, u, f)
    BY <1>2, SumsExist
  <1>5. PICK h : Sums(m, w, h)
    BY SumsExist
  <1>6. f[m] = g[m] + (w[p] - v[p])
    BY <1>1, <1>2, <1>3, <1>4, OneChange
  <1>7. h[m] = f[m] + (w[q] - v[q])
    BY <1>1, <1>2, <1>4, <1>5, OneChange
  <1>8. g[m] \in Int /\ g[m] % 10 = 0
    <2>1. \A n \in 0..m : g[n] \in Int
      BY <1>3 DEF Sums
    <2> QED
      BY <1>3, <2>1 DEF Divisible
  <1>9. h[m] = g[m] + ((w[p] - v[p]) + (w[q] - v[q]))
    <2>1. w[p] \in Int /\ v[p] \in Int /\ w[q] \in Int /\ v[q] \in Int
      BY DEF Values
    <2> QED
      BY <1>6, <1>7, <1>8, <2>1
  <1>10. h[m] % 10 # 0
    BY <1>8, <1>9, NotDivisible
  <1> QED
    BY <1>5, <1>10 DEF Divisible

\* Exchanging two neighbours does not, but for 0 and 9.
LEMMA ExchangeShows ==
  ASSUME NEW n \in Nat, NEW a \in Digits, NEW b \in Digits, a # b, {a, b} # {0, 9}
  PROVE  (Weight(n + 1, b) - Weight(n + 1, a)) + (Weight(n, a) - Weight(n, b)) \in -9..9 \ {0}
PROOF
  <1>1. a \in 0..9 /\ b \in 0..9
    BY DEF Digits
  <1>2. ~(a = 0 /\ b = 9) /\ ~(a = 9 /\ b = 0)
    OBVIOUS
  <1>3. (Doubled(b) - Doubled(a)) + (a - b) \in -9..9 \ {0}
    BY <1>1, <1>2 DEF Doubled
  <1>4. (b - a) + (Doubled(a) - Doubled(b)) \in -9..9 \ {0}
    BY <1>1, <1>2 DEF Doubled
  <1>5. n % 2 = 0 <=> (n + 1) % 2 # 0
    OBVIOUS
  <1>6. CASE n % 2 = 0
    BY <1>3, <1>4, <1>5, <1>6 DEF Weight
  <1>7. CASE n % 2 # 0
    BY <1>3, <1>4, <1>5, <1>7 DEF Weight
  <1> QED
    BY <1>6, <1>7

\* Digits have weights.
LEMMA WeightsType ==
  ASSUME NEW s \in Seq(Digits)
  PROVE  /\ Len(s) \in Nat /\ DOMAIN s = 1..Len(s)
         /\ \A n \in 1..Len(s) : Len(s) + 1 - n \in 1..Len(s) /\ s[Len(s) + 1 - n] \in Digits
         /\ Values(Len(s), Weights(s))
PROOF
  <1>1. Len(s) \in Nat /\ s \in [1..Len(s) -> Digits]
    BY LenProperties
  <1>2. \A n \in 1..Len(s) : Len(s) + 1 - n \in 1..Len(s)
    BY <1>1
  <1>3. \A n \in 1..Len(s) : s[Len(s) + 1 - n] \in Digits
    BY <1>1, <1>2
  <1>4. \A n \in 1..Len(s) : Weight(n, s[Len(s) + 1 - n]) \in Int
    BY <1>1, <1>3, WeightIsPlaceValue
  <1> QED
    BY <1>1, <1>2, <1>3, <1>4 DEF Weights, Values

\* The loop adds up the weights, because alt is true at every second place.
LEMMA LoopAddsWeights ==
  ASSUME NEW s \in Seq(Digits), NEW g, Sums(Len(s), Weights(s), g)
  PROVE  LuhnLoop(s)[Len(s)].sum = g[Len(s)]
PROOF
  <1> DEFINE m == Len(s)
             digit(n) == s[m + 1 - n]
             Turns(f) == f = [n \in 0..m |-> IF n = 0 THEN LuhnStart
                                             ELSE LuhnStep(digit(n), f[n - 1])]
             vars2(n) == [sum |-> g[n], alt |-> n % 2 = 1]
             T == {k \in Nat : k <= m => LuhnLoop(s)[k] = vars2(k)}
  <1>1. m \in Nat /\ \A n \in 1..m : Weights(s)[n] = Weight(n, digit(n))
    BY WeightsType DEF Weights
  <1>2. \A n \in 0..m : g[n] = IF n = 0 THEN 0 ELSE g[n - 1] + Weights(s)[n]
    BY DEF Sums
  <1>3. vars2(0) = LuhnStart
    <2>1. g[0] = 0
      BY <1>1, <1>2
    <2>2. (0 % 2 = 1) = FALSE
      OBVIOUS
    <2> QED
      BY <2>1, <2>2, Zenon DEF LuhnStart
  <1>4. ASSUME NEW n \in 1..m
        PROVE  vars2(n) = LuhnStep(digit(n), vars2(n - 1))
    <2>1. g[n] = g[n - 1] + Weight(n, digit(n))
      BY <1>1, <1>2
    <2>2. ((n - 1) % 2 = 1) <=> (n % 2 = 0)
      OBVIOUS
    <2>3. (n % 2 = 1) <=> ~((n - 1) % 2 = 1)
      OBVIOUS
    <2> QED
      BY <2>1, <2>2, <2>3 DEF LuhnStep, Weight
  <1>5. Turns(LuhnLoop(s))
    <2>1. Turns([n \in 0..m |-> vars2(n)])
      BY <1>1, <1>3, <1>4
    <2>2. LuhnLoop(s) = CHOOSE f : Turns(f)
      BY DEF LuhnLoop
    <2> QED
      BY <2>1, <2>2
  <1>6. \A n \in 0..m : LuhnLoop(s)[n] = IF n = 0 THEN LuhnStart
                                          ELSE LuhnStep(digit(n), LuhnLoop(s)[n - 1])
    BY <1>5
  <1>7. 0 \in T
    BY <1>1, <1>3, <1>6
  <1>8. ASSUME NEW k \in Nat, k \in T
        PROVE  k + 1 \in T
    BY <1>1, <1>4, <1>6, <1>8
  <1>9. m \in T
    <2> HIDE DEF T
    <2> QED
      BY <1>1, <1>7, <1>8, Induction
  <1> QED
    BY <1>9

\* So does the standard.
LEMMA CheckSumAddsWeights ==
  ASSUME NEW s \in Seq(Digits), NEW g, Sums(Len(s), Weights(s), g)
  PROVE  CheckSum(s) = g[Len(s)]
PROOF
  <1> DEFINE m == Len(s)
             Adds(f) == f = [n \in 0..m |-> IF n = 0 THEN 0
                                            ELSE f[n - 1] + PlaceValue(n, s[m + 1 - n])]
  <1>1. m \in Nat /\ \A n \in 1..m : Weights(s)[n] = PlaceValue(n, s[m + 1 - n])
    BY WeightsType, WeightIsPlaceValue DEF Weights
  <1>2. ASSUME NEW f
        PROVE  Adds(f) <=> f = [n \in 0..m |-> IF n = 0 THEN 0 ELSE f[n - 1] + Weights(s)[n]]
    BY <1>1
  <1>3. CheckSum(s) = (CHOOSE f : Adds(f))[m]
    BY DEF CheckSum
  <1>4. \A f : Adds(f) => f = g
    BY <1>1, <1>2, SumsAreUnique
  <1>5. Adds(g)
    BY <1>2 DEF Sums
  <1> HIDE DEF Adds
  <1> QED
    BY <1>3, <1>4, <1>5

\* A number passes the check when its weights add up to a multiple of 10.
LEMMA PassesWhenDivisible ==
  ASSUME NEW s \in Seq(Digits)
  PROVE  validatePAN(s) <=> Len(s) \in 13..19 /\ Divisible(Len(s), Weights(s))
PROOF
  <1>1. PICK g : Sums(Len(s), Weights(s), g)
    BY WeightsType, SumsExist
  <1>2. LuhnLoop(s)[Len(s)].sum = g[Len(s)]
    BY <1>1, LoopAddsWeights
  <1>3. \A h : Sums(Len(s), Weights(s), h) => h = g
    <2> SUFFICES ASSUME NEW h, Sums(Len(s), Weights(s), h) PROVE h = g
      OBVIOUS
    <2>1. h = [n \in 0..Len(s) |-> IF n = 0 THEN 0 ELSE h[n - 1] + Weights(s)[n]]
      BY DEF Sums
    <2> QED
      BY <1>1, <2>1, WeightsType, SumsAreUnique
  <1>4. \A i \in DOMAIN s : s[i] \in Digits
    BY LenProperties
  <1> QED
    BY <1>1, <1>2, <1>3, <1>4 DEF validatePAN, Divisible

\* A string that is not all digits is refused by both, before anything is added up.
LEMMA ValidatesCardNumbers ==
  ASSUME NEW s \in Seq(Digits \cup {Letter})
  PROVE  validatePAN(s) <=> IsCardNumber(s)
PROOF
  <1>1. Len(s) \in Nat /\ s \in [1..Len(s) -> Digits \cup {Letter}] /\ DOMAIN s = 1..Len(s)
    BY LenProperties
  <1>2. Len(s) \in 13..19 <=> Len(s) >= 13 /\ Len(s) <= 19
    <2>1. \A n \in Nat : n \in 13..19 <=> n >= 13 /\ n <= 19
      OBVIOUS
    <2> QED
      BY <1>1, <2>1
  <1>3. (\A i \in DOMAIN s : s[i] \in Digits) <=> (\A i \in DOMAIN s : s[i] # Letter)
    <2>1. Letter \notin Digits
      BY DEF Letter, Digits
    <2> QED
      BY <1>1, <2>1
  <1>4. CASE \A i \in DOMAIN s : s[i] \in Digits
    <2>1. s \in Seq(Digits)
      BY <1>1, <1>4
    <2>2. PICK g : Sums(Len(s), Weights(s), g)
      BY <2>1, WeightsType, SumsExist
    <2>3. LuhnLoop(s)[Len(s)].sum = CheckSum(s)
      BY <2>1, <2>2, LoopAddsWeights, CheckSumAddsWeights
    <2> QED
      BY <1>2, <1>3, <1>4, <2>3, Zenon DEF validatePAN, IsCardNumber
  <1>5. CASE ~ \A i \in DOMAIN s : s[i] \in Digits
    BY <1>3, <1>5 DEF validatePAN, IsCardNumber
  <1> QED
    BY <1>4, <1>5

\* A number with one digit changed has another check sum: the weight of the digit
\* changes, by 9 at most.
LEMMA ChangedDigit ==
  ASSUME NEW s \in Seq(Digits), validatePAN(s),
         NEW i \in 1..Len(s), NEW d \in Digits, d # s[i]
  PROVE  ~ validatePAN([s EXCEPT ![i] = d])
PROOF
  <1> DEFINE t == [s EXCEPT ![i] = d]
             m == Len(s)
             p == m + 1 - i
             v == Weights(s)
             w == Weights(t)
  <1>1. /\ t \in Seq(Digits) /\ Len(t) = m
        /\ \A j \in 1..m : t[j] = IF j = i THEN d ELSE s[j]
    BY ExceptSeq
  <1> HIDE DEF t
  <1>2. m \in Nat /\ Values(m, v) /\ Values(m, w) /\ s[i] \in Digits
    BY <1>1, WeightsType
  <1>3. p \in 1..m /\ m + 1 - p = i
    BY <1>2
  <1>4. \A n \in 1..m : n # p => w[n] = v[n]
    <2> SUFFICES ASSUME NEW n \in 1..m, n # p
                 PROVE  w[n] = v[n]
      OBVIOUS
    <2>1. m + 1 - n \in 1..m /\ m + 1 - n # i
      BY <1>2
    <2> QED
      BY <1>1, <2>1 DEF Weights
  <1>5. v[p] \in 0..9 /\ w[p] \in 0..9 /\ v[p] # w[p]
    <2>1. v[p] = Weight(p, s[i]) /\ w[p] = Weight(p, d)
      BY <1>1, <1>3 DEF Weights
    <2> QED
      BY <1>2, <1>3, <2>1, WeightsDiffer, WeightIsPlaceValue
  <1>6. Divisible(m, v)
    BY PassesWhenDivisible
  <1>7. ~ Divisible(m, w)
    <2> HIDE DEF v, w, p, m
    <2> QED
      BY <1>2, <1>3, <1>4, <1>5, <1>6, OneChangeShows
  <1>8. ~ validatePAN(t)
    BY <1>1, <1>7, PassesWhenDivisible
  <1> QED
    BY <1>8 DEF t

\* A number with two neighbours exchanged.
LEMMA ExchangedDigits ==
  ASSUME NEW s \in Seq(Digits), validatePAN(s), NEW i \in 1..Len(s) - 1,
         s[i] # s[i + 1], {s[i], s[i + 1]} # {0, 9}
  PROVE  ~ validatePAN([s EXCEPT ![i] = s[i + 1], ![i + 1] = s[i]])
PROOF
  <1> DEFINE t == [s EXCEPT ![i] = s[i + 1], ![i + 1] = s[i]]
             m == Len(s)
             p == m + 1 - i
             q == m - i
             v == Weights(s)
             w == Weights(t)
  <1>1. m \in Nat /\ s \in [1..m -> Digits] /\ i \in 1..m /\ i + 1 \in 1..m
    BY LenProperties
  <1>2. /\ t \in [1..m -> Digits]
        /\ t[i] = s[i + 1] /\ t[i + 1] = s[i]
        /\ \A j \in 1..m : j # i /\ j # i + 1 => t[j] = s[j]
    BY <1>1
  <1>3. t \in Seq(Digits) /\ Len(t) = m
    <2>1. t \in Seq(Digits)
      BY <1>1, <1>2
    <2>2. DOMAIN t = 1..Len(t) /\ Len(t) \in Nat
      BY <2>1, LenProperties
    <2> QED
      BY <1>1, <1>2, <2>1, <2>2
  <1> HIDE DEF t
  <1>4. Values(m, v) /\ Values(m, w) /\ s[i] \in Digits /\ s[i + 1] \in Digits
    BY <1>1, <1>3, WeightsType
  <1> HIDE DEF m
  <1>5. /\ p \in 1..m /\ q \in 1..m /\ q \in Nat /\ p # q /\ p = q + 1
        /\ m + 1 - p = i /\ m + 1 - q = i + 1
    <2>1. \A a \in Nat : \A b \in 1..a - 1 :
            /\ a + 1 - b \in 1..a /\ a - b \in 1..a /\ a - b \in Nat
            /\ a + 1 - b = a - b + 1 /\ a + 1 - (a + 1 - b) = b /\ a + 1 - (a - b) = b + 1
      OBVIOUS
    <2>2. \A a \in Nat : a + 1 # a
      OBVIOUS
    <2>3. m \in Nat /\ i \in 1..m - 1
      BY <1>1 DEF m
    <2> QED
      BY <2>1, <2>2, <2>3
  <1>6. \A n \in 1..m : n # p /\ n # q => w[n] = v[n]
    <2> SUFFICES ASSUME NEW n \in 1..m, n # p, n # q
                 PROVE  w[n] = v[n]
      OBVIOUS
    <2>1. \A a \in Nat : \A b, c \in 1..a : b # a + 1 - c /\ b # a - c =>
            a + 1 - b \in 1..a /\ a + 1 - b # c /\ a + 1 - b # c + 1
      OBVIOUS
    <2>2. m + 1 - n \in 1..m /\ m + 1 - n # i /\ m + 1 - n # i + 1
      BY <1>1, <2>1
    <2> QED
      BY <1>2, <1>3, <2>2 DEF Weights, m
  <1>7. (w[p] - v[p]) + (w[q] - v[q]) \in -9..9 \ {0}
    <2>1. /\ v[p] = Weight(p, s[i]) /\ w[p] = Weight(p, s[i + 1])
          /\ v[q] = Weight(q, s[i + 1]) /\ w[q] = Weight(q, s[i])
      BY <1>2, <1>3, <1>5 DEF Weights, m
    <2> HIDE DEF v, w, p, q, m
    <2> QED
      BY <1>4, <1>5, <2>1, ExchangeShows
  <1>8. Divisible(m, v)
    BY PassesWhenDivisible DEF m
  <1>9. ~ Divisible(m, w)
    <2> HIDE DEF v, w, p, q, m
    <2> QED
      BY <1>1, <1>4, <1>5, <1>6, <1>7, <1>8, TwoChangesShow
  <1>10. ~ validatePAN(t)
    BY <1>3, <1>9, PassesWhenDivisible DEF m
  <1> QED
    BY <1>10 DEF t

-----------------------------------------------------------------------------
(* The theorems *)

\* With a client who types and a handler that checks, the system does nothing that
\* Tokenizer does not: what is proved of Spec holds of TypedSpec.
THEOREM TypingImplementsTokenizer == TypedSpec => Spec
PROOF
  <1>1. TypedInit => Init
    BY DEF TypedInit
  <1>2. [Type \/ SendTyped \/ SendOther]_<<vars, field>> => [Next]_vars
    BY DEF Type, SendTyped, SendOther, Next
  <1> QED
    BY <1>1, <1>2, PTL DEF TypedSpec, Spec

\* The field is empty or one of the strings a client types.
LEMMA FieldTyped == TypedSpec => [](field \in Seq(Digits \cup {Letter}))
PROOF
  <1> DEFINE FieldOK == field \in Seq(Digits \cup {Letter})
  <1>1. TypedInit => FieldOK
    BY DEF TypedInit
  <1>2. FieldOK /\ [Type \/ SendTyped \/ SendOther]_<<vars, field>> => FieldOK'
    <2>1. CASE Type
      BY <2>1, TypedAssumption DEF Type
    <2>2. CASE SendTyped
      BY <2>2 DEF SendTyped
    <2>3. CASE SendOther
      BY <2>3 DEF SendOther
    <2>4. CASE UNCHANGED <<vars, field>>
      BY <2>4
    <2> QED
      BY <2>1, <2>2, <2>3, <2>4
  <1> QED
    BY <1>1, <1>2, PTL DEF TypedSpec

\* AcceptsCardNumbersOnly: for strings of any length and any characters, the loop of
\* validatePAN from the right, its alternating flag and its "- 9" (tokenize.go:247-270)
\* decide what the standard of the Luhn check does with parities of places and digit
\* sums, in the lengths 003 FR-016 allows.
THEOREM CardNumbersAreValidated == TypedSpec => []AcceptsCardNumbersOnly
PROOF
  <1>1. field \in Seq(Digits \cup {Letter}) => AcceptsCardNumbersOnly
    BY ValidatesCardNumbers DEF AcceptsCardNumbersOnly
  <1> QED
    BY <1>1, FieldTyped, PTL

\* CatchesTypingErrors: no number that passes has one that passes beside it, with
\* one digit different or two neighbours exchanged, but for 0 and 9.
THEOREM TypingErrorsAreCaught == TypedSpec => []CatchesTypingErrors
PROOF
  <1>1. field \in Seq(Digits \cup {Letter}) => CatchesTypingErrors
    <2> SUFFICES ASSUME field \in Seq(Digits \cup {Letter}), validatePAN(field)
                 PROVE  CatchesTypingErrors
      BY DEF CatchesTypingErrors
    <2>1. DOMAIN field = 1..Len(field) /\ Len(field) \in Nat
      BY LenProperties
    <2>2. field \in Seq(Digits)
      BY <2>1 DEF validatePAN
    <2>3. ASSUME NEW i \in DOMAIN field, NEW d \in Digits, d # field[i]
          PROVE  ~ validatePAN([field EXCEPT ![i] = d])
      BY <2>1, <2>2, <2>3, ChangedDigit
    <2>4. ASSUME NEW i \in DOMAIN field \ {Len(field)},
                 field[i] # field[i + 1], {field[i], field[i + 1]} # {0, 9}
          PROVE  ~ validatePAN([field EXCEPT ![i] = field[i + 1], ![i + 1] = field[i]])
      <3>1. i \in 1..Len(field) - 1
        BY <2>1
      <3> QED
        BY <2>2, <2>4, <3>1, ExchangedDigits
    <2> QED
      BY <2>3, <2>4 DEF CatchesTypingErrors
  <1> QED
    BY <1>1, FieldTyped, PTL
===============================================================================
