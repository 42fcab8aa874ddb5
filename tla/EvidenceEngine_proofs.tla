------------------------ MODULE EvidenceEngine_proofs ------------------------
(****************************************************************************)
(* The arithmetic of the evidence engine, for all integers: fractions are   *)
(* reduced to lowest terms, and a return in basis points reaches a          *)
(* threshold exactly when the fraction does (rational.ts).  Then sums over  *)
(* finite sets, for what is proved about windows.                           *)
(*                                                                          *)
(* What a recursive definition computes is proved without a rule of         *)
(* induction: some function satisfies the equation, and of the arguments    *)
(* for which it is wrong one is least, yet has a smaller one.               *)
(****************************************************************************)
EXTENDS EvidenceEngine, FiniteSetTheorems, TLAPS

-----------------------------------------------------------------------------
(* The greatest common divisor                                              *)

\* Divisibility, and the divisors two numbers share.
Divides(d, n) == \E k \in Nat : n = d * k
CommonDivisors(p) == {d \in Nat : Divides(d, p[1]) /\ Divides(d, p[2])}

\* One round of Euclid's loop.
Round(p) == <<p[2], p[1] % p[2]>>

\* Quotient and remainder.
LEMMA Division ==
  ASSUME NEW n \in Nat, NEW d \in Nat \ {0}
  PROVE  /\ n \div d \in Nat /\ n % d \in 0..(d - 1)
         /\ n = d * (n \div d) + (n % d)
OBVIOUS

\* A set of naturals has a least member.
LEMMA LeastOf ==
  ASSUME NEW T \in SUBSET Nat, T # {}
  PROVE  \E x \in T : \A y \in T : x <= y
<1>. DEFINE less == {p \in Nat \X Nat : p[1] < p[2]}
<1>1. IsWellFoundedOn(less, Nat)
  BY NatLessThanWellFounded DEF OpToRel
<1>2. PICK x \in T : \A y \in T : ~(<<y, x>> \in less)
  <2>. HIDE DEF less
  <2>. QED
    BY <1>1, WFMin
<1>3. ASSUME NEW y \in T PROVE x <= y
  <2>1. x \in Nat /\ y \in Nat
    OBVIOUS
  <2>2. y < x => <<y, x>> \in less
    BY <2>1
  <2>. QED
    BY <1>2, <2>1, <2>2
<1>. QED
  BY <1>3

\* A round of the loop keeps the common divisors.
LEMMA StepKeepsDivisors ==
  ASSUME NEW p \in Nat \X Nat, p[2] # 0
  PROVE  Round(p) \in Nat \X Nat /\ CommonDivisors(Round(p)) = CommonDivisors(p)
<1>. DEFINE a == p[1]
            b == p[2]
            q == a \div b
            r == a % b
<1>1. a \in Nat /\ b \in Nat \ {0} /\ q \in Nat /\ r \in 0..(b - 1) /\ a = b * q + r
  BY Division
<1>2. Round(p) = <<b, r>> /\ Round(p) \in Nat \X Nat
  BY <1>1 DEF Round
<1>. HIDE DEF a, b, q, r
<1>3. ASSUME NEW d \in Nat, Divides(d, b), Divides(d, r) PROVE Divides(d, a)
  <2>1. PICK j \in Nat : b = d * j
    BY <1>3 DEF Divides
  <2>2. PICK k \in Nat : r = d * k
    BY <1>3 DEF Divides
  <2>3. a = d * (j * q + k) /\ j * q + k \in Nat
    BY <1>1, <2>1, <2>2
  <2>. QED
    BY <2>3 DEF Divides
<1>4. ASSUME NEW d \in Nat, Divides(d, b), Divides(d, a) PROVE Divides(d, r)
  <2>1. PICK j \in Nat : b = d * j
    BY <1>4 DEF Divides
  <2>2. PICK k \in Nat : a = d * k
    BY <1>4 DEF Divides
  <2>3. r = d * (k - j * q)
    BY <1>1, <2>1, <2>2
  <2>4. d > 0
    BY <1>1, <2>1
  <2>5. k - j * q >= 0
    BY <1>1, <2>3, <2>4
  <2>6. k - j * q \in Nat
    BY <1>1, <2>5
  <2>. QED
    BY <2>3, <2>6 DEF Divides
<1>. QED
  BY <1>2, <1>3, <1>4 DEF CommonDivisors, a, b

\* A number is known by its divisors.
LEMMA OwnDivisors ==
  ASSUME NEW x \in Nat, NEW y \in Nat, CommonDivisors(<<x, 0>>) = CommonDivisors(<<y, 0>>)
  PROVE  x = y
<1>1. ASSUME NEW n \in Nat PROVE Divides(n, n) /\ Divides(n, 0)
  BY n = n * 1, 0 = n * 0 DEF Divides
<1>2. x \in CommonDivisors(<<x, 0>>) /\ y \in CommonDivisors(<<y, 0>>)
  BY <1>1 DEF CommonDivisors
<1>3. Divides(x, y) /\ Divides(y, x)
  BY <1>2 DEF CommonDivisors
<1>4. PICK j \in Nat : y = x * j
  BY <1>3 DEF Divides
<1>5. PICK k \in Nat : x = y * k
  BY <1>3 DEF Divides
<1>6. CASE x = 0
  BY <1>4, <1>6
<1>7. CASE x > 0
  <2>1. j # 0 /\ k # 0
    BY <1>4, <1>5, <1>7
  <2>2. x <= y /\ y <= x
    BY <1>4, <1>5, <2>1
  <2>. QED
    BY <2>2
<1>. QED
  BY <1>6, <1>7

\* The function gcd satisfies its own equation: some function does, the one that picks
\* what has the common divisors.
LEMMA GcdRecurs ==
  ASSUME NEW p \in Nat \X Nat
  PROVE  gcd[p] = IF p[2] = 0 THEN p[1] ELSE gcd[Round(p)]
<1>. DEFINE Recurs(g) ==
       g = [z \in Nat \X Nat |-> IF z[2] = 0 THEN z[1] ELSE g[<<z[2], z[1] % z[2]>>]]
     Least(z) == CHOOSE x \in Nat : CommonDivisors(<<x, 0>>) = CommonDivisors(z)
     G == [z \in Nat \X Nat |-> Least(z)]
<1>1. ASSUME NEW z \in Nat \X Nat
      PROVE  G[z] = IF z[2] = 0 THEN z[1] ELSE G[Round(z)]
  <2>1. CASE z[2] = 0
    <3>1. z = <<z[1], 0>> /\ z[1] \in Nat
      BY <2>1
    <3>2. G[z] \in Nat /\ CommonDivisors(<<G[z], 0>>) = CommonDivisors(z)
      BY <3>1
    <3>. QED
      BY <2>1, <3>1, <3>2, OwnDivisors
  <2>2. CASE z[2] # 0
    <3>1. Round(z) \in Nat \X Nat /\ CommonDivisors(Round(z)) = CommonDivisors(z)
      BY <2>2, StepKeepsDivisors
    <3>2. G[Round(z)] = G[z]
      BY <3>1
    <3>. QED
      BY <2>2, <3>2
  <2>. QED
    BY <2>1, <2>2
<1>2. Recurs(G)
  <2>1. G = [z \in Nat \X Nat |-> G[z]]
    <3>. HIDE DEF Least
    <3>. QED
      OBVIOUS
  <2>2. \A z \in Nat \X Nat : G[z] = IF z[2] = 0 THEN z[1] ELSE G[<<z[2], z[1] % z[2]>>]
    BY <1>1 DEF Round
  <2>. HIDE DEF G
  <2>. QED
    BY <2>1, <2>2
<1>3. Recurs(gcd)
  <2>1. gcd = CHOOSE g : Recurs(g)
    BY DEF gcd
  <2>. HIDE DEF Recurs, G
  <2>. QED
    BY <1>2, <2>1
<1>. QED
  BY <1>3 DEF Round

\* The loop returns a number whose divisors are the common divisors.
LEMMA GcdIsGreatest ==
  ASSUME NEW p \in Nat \X Nat
  PROVE  gcd[p] \in Nat /\ CommonDivisors(<<gcd[p], 0>>) = CommonDivisors(p)
<1>. DEFINE Right(z) == gcd[z] \in Nat /\ CommonDivisors(<<gcd[z], 0>>) = CommonDivisors(z)
            wrong == {z \in Nat \X Nat : ~Right(z)}
<1>. SUFFICES ASSUME wrong # {} PROVE FALSE
  OBVIOUS
<1>. DEFINE seconds == {z[2] : z \in wrong}
<1>1. seconds \in SUBSET Nat /\ seconds # {}
  OBVIOUS
<1>2. PICK n \in seconds : \A m \in seconds : n <= m
  BY <1>1, LeastOf
<1>3. PICK z \in wrong : z[2] = n
  BY <1>2
<1>4. z \in Nat \X Nat /\ ~Right(z)
  BY <1>3
<1>5. CASE z[2] = 0
  <2>1. gcd[z] = z[1] /\ z = <<z[1], 0>> /\ z[1] \in Nat
    BY <1>4, <1>5, GcdRecurs
  <2>. QED
    BY <1>4, <2>1
<1>6. CASE z[2] # 0
  <2>1. Round(z) \in Nat \X Nat /\ CommonDivisors(Round(z)) = CommonDivisors(z) /\ gcd[z] = gcd[Round(z)]
    BY <1>4, <1>6, GcdRecurs, StepKeepsDivisors
  <2>2. Round(z) \in wrong
    BY <1>4, <2>1
  <2>3. Round(z)[2] = z[1] % z[2] /\ z[1] \in Nat /\ z[2] \in Nat \ {0}
    BY <1>4, <1>6 DEF Round
  <2>4. z[1] % z[2] \in 0..(z[2] - 1)
    BY <2>3, Division
  <2>5. Round(z)[2] \in seconds
    BY <2>2
  <2>6. n <= Round(z)[2]
    BY <1>2, <2>5
  <2>. QED
    BY <1>3, <2>3, <2>4, <2>6
<1>. QED
  BY <1>5, <1>6

\* What is left of two numbers once it is divided out has no common divisor but one.
LEMMA GcdDivides ==
  ASSUME NEW m \in Nat, NEW n \in Nat \ {0}
  PROVE  \E a \in Nat, b \in Nat \ {0} :
           /\ gcd[<<m, n>>] \in Nat \ {0}
           /\ m = gcd[<<m, n>>] * a /\ n = gcd[<<m, n>>] * b
           /\ \A k \in Nat : Divides(k, a) /\ Divides(k, b) => k = 1
<1>. DEFINE g == gcd[<<m, n>>]
<1>1. g \in Nat /\ CommonDivisors(<<g, 0>>) = CommonDivisors(<<m, n>>)
  BY GcdIsGreatest
<1>. HIDE DEF g
<1>2. Divides(g, m) /\ Divides(g, n)
  <2>1. Divides(g, g) /\ Divides(g, 0)
    BY <1>1, g = g * 1, 0 = g * 0 DEF Divides
  <2>2. g \in CommonDivisors(<<g, 0>>)
    BY <1>1, <2>1 DEF CommonDivisors
  <2>. QED
    BY <1>1, <2>2 DEF CommonDivisors
<1>3. PICK a \in Nat : m = g * a
  BY <1>2 DEF Divides
<1>4. PICK b \in Nat : n = g * b
  BY <1>2 DEF Divides
<1>5. g # 0 /\ b # 0
  BY <1>1, <1>4
<1>6. ASSUME NEW k \in Nat, Divides(k, a), Divides(k, b) PROVE k = 1
  <2>1. PICK i \in Nat : a = k * i
    BY <1>6 DEF Divides
  <2>2. PICK j \in Nat : b = k * j
    BY <1>6 DEF Divides
  <2>3. g * k \in Nat /\ m = (g * k) * i /\ n = (g * k) * j
    BY <1>1, <1>3, <1>4, <2>1, <2>2
  <2>4. g * k \in CommonDivisors(<<m, n>>)
    BY <2>3 DEF CommonDivisors, Divides
  <2>5. Divides(g * k, g)
    BY <1>1, <2>4 DEF CommonDivisors
  <2>6. PICK l \in Nat : g = (g * k) * l
    BY <2>5 DEF Divides
  <2>7. k * l = 1
    <3>1. g * (k * l) = g * 1
      BY <1>1, <2>6
    <3>. QED
      BY <1>1, <1>5, <3>1
  <2>. QED
    BY <2>7
<1>. QED
  BY <1>1, <1>3, <1>4, <1>5, <1>6 DEF g

\* Division of a multiple is exact.
LEMMA ExactQuotient ==
  ASSUME NEW g \in Nat \ {0}, NEW a \in Nat
  PROVE  (g * a) \div g = a
<1>1. g * a \in Nat
  OBVIOUS
<1>2. PICK q \in Nat : q = (g * a) \div g /\ \E r \in 0..(g - 1) : g * a = g * q + r
  BY <1>1, Division
<1>3. PICK r \in 0..(g - 1) : g * a = g * q + r
  BY <1>2
<1>4. g * (a - q) = r
  BY <1>3
<1>5. ~(a - q >= 1) /\ ~(a - q <= -1)
  BY <1>4
<1>. QED
  BY <1>2, <1>5

\* For every numerator and positive denominator, reduce returns the same fraction in lowest
\* terms, the denominator positive (rational.ts).
THEOREM ReducesToLowestTerms ==
  ASSUME NEW n \in Int, NEW d \in Nat \ {0}
  PROVE  LET ratio == Reduce(n, d)
         IN  /\ ratio.numerator \in Int /\ ratio.denominator \in Nat \ {0}
             /\ ratio.numerator * d = n * ratio.denominator
             /\ \A k \in Nat :
                  Divides(k, Magnitude(ratio.numerator)) /\ Divides(k, ratio.denominator) => k = 1
<1>. DEFINE m == Magnitude(n)
            g == gcd[<<m, d>>]
<1>1. m \in Nat /\ Magnitude(d) = d /\ Sign(d) = 1 /\ n = Sign(n) * m
  BY DEF Magnitude, Sign
<1>2. PICK a \in Nat, b \in Nat \ {0} :
        /\ g \in Nat \ {0} /\ m = g * a /\ d = g * b
        /\ \A k \in Nat : Divides(k, a) /\ Divides(k, b) => k = 1
  BY <1>1, GcdDivides
<1>3. Reduce(n, d) = [numerator |-> Truncated(n, g), denominator |-> d \div g]
  BY <1>1 DEF Reduce
<1>. HIDE DEF g, m
<1>4. m \div g = a /\ d \div g = b
  BY <1>2, ExactQuotient
<1>5. Sign(g) = 1 /\ Magnitude(g) = g /\ Sign(n) \in {-1, 1}
  BY <1>2 DEF Sign, Magnitude
<1>6. Truncated(n, g) = Sign(n) * a
  BY <1>4, <1>5 DEF Truncated, m
<1>7. Magnitude(Sign(n) * a) = a
  BY <1>5 DEF Magnitude, Sign
<1>8. (Sign(n) * a) * d = n * b
  <2>1. (Sign(n) * a) * (g * b) = (Sign(n) * (g * a)) * b
    BY <1>2, <1>5
  <2>. QED
    BY <1>1, <1>2, <2>1
<1>. QED
  BY <1>2, <1>3, <1>4, <1>5, <1>6, <1>7, <1>8

\* floorDiv rounds down, a loss too.
LEMMA FloorDivIsFloor ==
  ASSUME NEW n \in Int, NEW d \in Nat \ {0}
  PROVE  /\ FloorDiv(n, d) \in Int
         /\ FloorDiv(n, d) * d <= n /\ n < (FloorDiv(n, d) + 1) * d
<1>. DEFINE m == Magnitude(n)
            q == m \div d
            r == m % d
<1>1. m \in Nat /\ n = Sign(n) * m /\ Sign(n) \in {-1, 1} /\ (n < 0 <=> Sign(n) = -1)
  BY DEF Magnitude, Sign
<1>2. q \in Nat /\ r \in 0..(d - 1) /\ m = d * q + r
  BY <1>1, Division
<1>3. Truncated(n, d) = Sign(n) * q
  BY <1>1, <1>2 DEF Truncated, Sign, Magnitude
<1>. HIDE DEF m, q, r
<1>4. CASE Sign(n) = 1
  <2>1. FloorDiv(n, d) = q
    BY <1>1, <1>2, <1>3, <1>4 DEF FloorDiv
  <2>2. n = d * q + r
    BY <1>1, <1>2, <1>4
  <2>. QED
    BY <1>2, <2>1, <2>2
<1>5. CASE Sign(n) = -1
  <2>1. n = -(d * q) - r
    BY <1>1, <1>2, <1>5
  <2>2. Truncated(n, d) = -q
    BY <1>2, <1>3, <1>5
  <2>3. CASE r = 0
    <3>1. n = (-q) * d
      BY <1>2, <2>1, <2>3
    <3>2. FloorDiv(n, d) = -q
      BY <2>2, <3>1 DEF FloorDiv
    <3>. QED
      BY <1>2, <3>1, <3>2
  <2>4. CASE r # 0
    <3>1. n # (-q) * d
      BY <1>2, <2>1, <2>4
    <3>2. n < 0 /\ ~(d < 0)
      BY <1>1, <1>5
    <3>3. FloorDiv(n, d) = -q - 1
      BY <2>2, <3>1, <3>2 DEF FloorDiv
    <3>. QED
      BY <1>2, <2>1, <2>4, <3>3
  <2>. QED
    BY <2>3, <2>4
<1>. QED
  BY <1>1, <1>4, <1>5

\* For all share values and every threshold, the floored basis points of a return reach the
\* threshold exactly when the unrounded return does, so that flooring changes no verdict.
THEOREM BasisPointsAreExact ==
  ASSUME NEW start \in Nat \ {0}, NEW end \in Nat, NEW threshold \in Int
  PROVE  LET bps == ObserveShareValue(start, end).bps
         IN  bps \in Int /\ (bps >= threshold
                              <=> BasisPointsScale * (end - start) >= threshold * start)
<1>. DEFINE ratio == Reduce(end - start, start)
            a == ratio.numerator
            b == ratio.denominator
            S == BasisPointsScale
            bps == FloorDiv(a * S, b)
<1>1. a \in Int /\ b \in Nat \ {0} /\ a * start = (end - start) * b
  BY ReducesToLowestTerms
<1>2. S \in Nat \ {0}
  BY ScaleAssumption
<1>. HIDE DEF ratio, a, b, S
<1>3. a * S \in Int
  BY <1>1, <1>2
<1>4. bps \in Int /\ bps * b <= a * S /\ a * S < (bps + 1) * b
  BY <1>1, <1>3, FloorDivIsFloor
<1>. HIDE DEF bps
<1>5. bps >= threshold <=> a * S >= threshold * b
  <2>1. ASSUME bps >= threshold PROVE a * S >= threshold * b
    <3>1. bps * b >= threshold * b
      BY <1>1, <1>4, <2>1
    <3>. QED
      BY <1>1, <1>3, <1>4, <3>1
  <2>2. ASSUME bps < threshold PROVE a * S < threshold * b
    <3>1. (bps + 1) * b <= threshold * b
      BY <1>1, <1>4, <2>2
    <3>. QED
      BY <1>1, <1>3, <1>4, <3>1
  <2>. QED
    BY <1>1, <1>3, <1>4, <2>1, <2>2
<1>6. a * S >= threshold * b <=> S * (end - start) >= threshold * start
  <2>. DEFINE x == a * S - threshold * b
              y == S * (end - start) - threshold * start
  <2>1. x \in Int /\ y \in Int /\ x * start = y * b
    <3>1. x * start = S * (a * start) - threshold * (b * start)
      BY <1>1, <1>2
    <3>2. y * b = S * ((end - start) * b) - threshold * (start * b)
      BY <1>1, <1>2
    <3>. QED
      BY <1>1, <1>2, <3>1, <3>2
  <2>2. x >= 0 <=> y >= 0
    <3>. HIDE DEF x, y
    <3>1. x >= 0 => x * start >= 0
      BY <2>1
    <3>2. x < 0 => x * start < 0
      BY <2>1
    <3>3. y >= 0 => y * b >= 0
      BY <1>1, <2>1
    <3>4. y < 0 => y * b < 0
      BY <1>1, <2>1
    <3>. QED
      BY <2>1, <3>1, <3>2, <3>3, <3>4
  <2>. QED
    BY <1>1, <1>2, <2>2
<1>7. ObserveShareValue(start, end).bps = bps
  BY NullAssumption DEF ObserveShareValue, ToBasisPoints, bps, ratio, a, b, S
<1>. QED
  BY <1>4, <1>5, <1>6, <1>7 DEF S

-----------------------------------------------------------------------------
(* Sums over finite sets                                                    *)

\* If every subset that fails has a member without which it fails too, none fails.
LEMMA SubsetInduction ==
  ASSUME NEW S, IsFiniteSet(S), NEW bad \in SUBSET SUBSET S,
         \A T \in bad : \E x \in T : T \ {x} \in bad
  PROVE  bad = {}
<1>. SUFFICES ASSUME bad # {} PROVE FALSE
  OBVIOUS
<1>. DEFINE sizes == {Cardinality(T) : T \in bad}
<1>1. \A T \in bad : IsFiniteSet(T) /\ Cardinality(T) \in Nat
  BY FS_Subset, FS_CardinalityType
<1>2. sizes \in SUBSET Nat /\ sizes # {}
  BY <1>1
<1>3. PICK n \in sizes : \A m \in sizes : n <= m
  <2>. HIDE DEF sizes
  <2>. QED
    BY <1>2, LeastOf
<1>4. PICK T \in bad : Cardinality(T) = n
  BY <1>3
<1>5. PICK x \in T : T \ {x} \in bad
  OBVIOUS
<1>6. Cardinality(T \ {x}) = n - 1
  BY <1>1, <1>4, <1>5, FS_RemoveElement
<1>. QED
  BY <1>1, <1>3, <1>4, <1>5, <1>6

\* The member a fold over a set takes first.
First(s) == CHOOSE x \in s : TRUE

\* A function that satisfies the equation of the fold for addition.
Sums(f, S, g) == g = [s \in SUBSET S |-> IF s = {} THEN 0 ELSE f[First(s)] + g[s \ {First(s)}]]

\* There is one.
LEMMA SumsExist ==
  ASSUME NEW f, NEW S, IsFiniteSet(S)
  PROVE  \E g : Sums(f, S, g)
<1>. DEFINE Sized(n) == {s \in SUBSET S : Cardinality(s) <= n}
            Partial(n, g) ==
              g = [s \in Sized(n) |-> IF s = {} THEN 0 ELSE f[First(s)] + g[s \ {First(s)}]]
            bad == {n \in Nat : ~\E g : Partial(n, g)}
<1>1. \A s \in SUBSET S : IsFiniteSet(s) /\ Cardinality(s) \in Nat
  BY FS_Subset, FS_CardinalityType
<1>2. \A s \in SUBSET S : s # {} => First(s) \in s /\ Cardinality(s \ {First(s)}) = Cardinality(s) - 1
  BY <1>1, FS_RemoveElement DEF First
<1>3. bad = {}
  <2>. SUFFICES ASSUME bad # {} PROVE FALSE
    OBVIOUS
  <2>1. PICK n \in bad : \A m \in bad : n <= m
    BY LeastOf
  <2>2. CASE n = 0
    <3>. DEFINE g == [s \in Sized(0) |-> 0]
    <3>1. \A s \in Sized(0) : s = {}
      BY <1>1, FS_EmptySet
    <3>2. Partial(0, g)
      BY <3>1
    <3>. QED
      BY <2>1, <2>2, <3>2
  <2>3. CASE n # 0
    <3>1. n - 1 \in Nat /\ n - 1 \notin bad
      <4>1. n \in Nat
        BY <2>1
      <4>. HIDE DEF bad
      <4>. QED
        BY <2>1, <2>3, <4>1
    <3>2. PICK g : Partial(n - 1, g)
      BY <3>1
    <3>. DEFINE Value(s) == IF s \in Sized(n - 1) THEN g[s] ELSE f[First(s)] + g[s \ {First(s)}]
                h == [s \in Sized(n) |-> Value(s)]
    <3>3. ASSUME NEW s \in Sized(n), s # {}
          PROVE  s \ {First(s)} \in Sized(n - 1) /\ s \ {First(s)} \in Sized(n)
      BY <1>1, <1>2, <2>1, <3>3
    <3>4. ASSUME NEW s \in Sized(n - 1)
          PROVE  g[s] = IF s = {} THEN 0 ELSE f[First(s)] + g[s \ {First(s)}]
      BY <3>2
    <3>5. {} \in Sized(n - 1)
      BY <3>1, FS_EmptySet
    <3>6. ASSUME NEW s \in Sized(n)
          PROVE  Value(s) = IF s = {} THEN 0 ELSE f[First(s)] + h[s \ {First(s)}]
      <4>1. CASE s = {}
        BY <3>4, <3>5, <4>1
      <4>2. CASE s # {}
        <5>1. h[s \ {First(s)}] = g[s \ {First(s)}]
          BY <3>3, <4>2
        <5>2. Value(s) = f[First(s)] + g[s \ {First(s)}]
          BY <3>4, <4>2
        <5>. QED
          BY <4>2, <5>1, <5>2
      <4>. QED
        BY <4>1, <4>2
    <3>7. Partial(n, h)
      <4>1. h = [s \in Sized(n) |-> Value(s)]
        OBVIOUS
      <4>. HIDE DEF Sized, Value, h
      <4>. QED
        BY <3>6, <4>1
    <3>. QED
      BY <2>1, <3>7
  <2>. QED
    BY <2>2, <2>3
<1>4. Sized(Cardinality(S)) = SUBSET S
  BY FS_Subset
<1>5. Cardinality(S) \in Nat
  BY <1>1
<1>6. PICK g : Partial(Cardinality(S), g)
  BY <1>3, <1>5
<1>. QED
  BY <1>4, <1>6 DEF Sums

\* Two of them agree wherever the summands do.
LEMMA SumsAgree ==
  ASSUME NEW S, IsFiniteSet(S), NEW T \in SUBSET S, NEW f, NEW e, NEW g, NEW h,
         Sums(f, S, g), Sums(e, T, h), \A x \in T : f[x] = e[x]
  PROVE  \A s \in SUBSET T : g[s] = h[s]
<1>. DEFINE bad == {s \in SUBSET T : g[s] # h[s]}
<1>1. ASSUME NEW s \in bad PROVE \E x \in s : s \ {x} \in bad
  <2>1. /\ g[s] = IF s = {} THEN 0 ELSE f[First(s)] + g[s \ {First(s)}]
        /\ h[s] = IF s = {} THEN 0 ELSE e[First(s)] + h[s \ {First(s)}]
    BY DEF Sums
  <2>2. s # {}
    BY <2>1
  <2>3. First(s) \in s
    BY <2>2 DEF First
  <2>. QED
    BY <2>1, <2>2, <2>3
<1>2. IsFiniteSet(T)
  BY FS_Subset
<1>3. bad = {}
  <2>. HIDE DEF bad
  <2>1. bad \in SUBSET SUBSET T
    BY DEF bad
  <2>. QED
    BY <1>1, <1>2, <2>1, SubsetInduction
<1>. QED
  BY <1>3

\* The fold is one.
LEMMA SumIs ==
  ASSUME NEW f, NEW S, IsFiniteSet(S)
  PROVE  \E g : Sums(f, S, g) /\ SumFunctionOnSet(f, S) = g[S]
<1>1. SumFunctionOnSet(f, S) = (CHOOSE g : Sums(f, S, g))[S]
  BY DEF SumFunctionOnSet, FoldFunctionOnSet, MapThenFoldSet, Sums, First
<1>. QED
  BY <1>1, SumsExist

\* The empty sum.
LEMMA SumOfNone == ASSUME NEW f PROVE SumFunctionOnSet(f, {}) = 0
<1>1. PICK g : Sums(f, {}, g) /\ SumFunctionOnSet(f, {}) = g[{}]
  BY SumIs, FS_EmptySet
<1>. QED
  BY <1>1 DEF Sums

\* A sum depends on the summands alone.
LEMMA SumCongruent ==
  ASSUME NEW S, IsFiniteSet(S), NEW f, NEW e, \A x \in S : f[x] = e[x]
  PROVE  SumFunctionOnSet(f, S) = SumFunctionOnSet(e, S)
<1>1. PICK g : Sums(f, S, g) /\ SumFunctionOnSet(f, S) = g[S]
  BY SumIs
<1>2. PICK h : Sums(e, S, h) /\ SumFunctionOnSet(e, S) = h[S]
  BY SumIs
<1>3. g[S] = h[S]
  BY <1>1, <1>2, SumsAgree
<1>. QED
  BY <1>1, <1>2, <1>3

\* The fold takes one member off.
LEMMA SumStep ==
  ASSUME NEW S, IsFiniteSet(S), NEW f, S # {}
  PROVE  /\ First(S) \in S
         /\ SumFunctionOnSet(f, S) = f[First(S)] + SumFunctionOnSet(f, S \ {First(S)})
<1>. DEFINE T == S \ {First(S)}
<1>1. First(S) \in S
  BY DEF First
<1>2. PICK g : Sums(f, S, g) /\ SumFunctionOnSet(f, S) = g[S]
  BY SumIs
<1>3. IsFiniteSet(T)
  BY FS_Subset
<1>4. PICK h : Sums(f, T, h) /\ SumFunctionOnSet(f, T) = h[T]
  BY <1>3, SumIs
<1>5. g[T] = h[T]
  BY <1>2, <1>4, SumsAgree
<1>6. g[S] = f[First(S)] + g[T]
  BY <1>2 DEF Sums
<1>. QED
  BY <1>1, <1>2, <1>4, <1>5, <1>6

\* A sum of integers is an integer.
LEMMA SumIsInteger ==
  ASSUME NEW S, IsFiniteSet(S), NEW f, \A x \in S : f[x] \in Int
  PROVE  \A T \in SUBSET S : SumFunctionOnSet(f, T) \in Int
<1>. DEFINE bad == {T \in SUBSET S : SumFunctionOnSet(f, T) \notin Int}
<1>1. ASSUME NEW T \in bad PROVE \E x \in T : T \ {x} \in bad
  <2>1. T \in SUBSET S /\ SumFunctionOnSet(f, T) \notin Int
    OBVIOUS
  <2>2. T # {}
    BY <2>1, SumOfNone
  <2>3. IsFiniteSet(T)
    BY <2>1, FS_Subset
  <2>4. First(T) \in T /\ SumFunctionOnSet(f, T) = f[First(T)] + SumFunctionOnSet(f, T \ {First(T)})
    BY <2>2, <2>3, SumStep
  <2>5. SumFunctionOnSet(f, T \ {First(T)}) \notin Int
    BY <2>1, <2>4
  <2>. QED
    BY <2>1, <2>4, <2>5
<1>2. bad = {}
  <2>. HIDE DEF bad
  <2>1. bad \in SUBSET SUBSET S
    BY DEF bad
  <2>. QED
    BY <1>1, <2>1, SubsetInduction
<1>. QED
  BY <1>2

\* Whichever member is taken off, the sum is the same.
LEMMA SumRemove ==
  ASSUME NEW S, IsFiniteSet(S), NEW f, \A x \in S : f[x] \in Int, NEW y \in S
  PROVE  SumFunctionOnSet(f, S) = f[y] + SumFunctionOnSet(f, S \ {y})
<1>. DEFINE Removes(T, x) == SumFunctionOnSet(f, T) = f[x] + SumFunctionOnSet(f, T \ {x})
            bad == {T \in SUBSET S : \E x \in T : ~Removes(T, x)}
<1>1. ASSUME NEW T \in bad PROVE \E x \in T : T \ {x} \in bad
  <2>1. PICK x \in T : ~Removes(T, x)
    OBVIOUS
  <2>. DEFINE p == First(T)
  <2>2. IsFiniteSet(T) /\ p \in T /\ Removes(T, p)
    BY FS_Subset, SumStep
  <2>3. p # x
    BY <2>1, <2>2
  <2>. SUFFICES ASSUME Removes(T \ {p}, x), Removes(T \ {x}, p) PROVE FALSE
    BY <2>1, <2>2, <2>3
  <2>4. (T \ {p}) \ {x} = (T \ {x}) \ {p}
    OBVIOUS
  <2>5. /\ SumFunctionOnSet(f, (T \ {p}) \ {x}) \in Int
        /\ f[p] \in Int /\ f[x] \in Int
    BY <2>2, SumIsInteger
  <2>. QED
    BY <2>1, <2>2, <2>4, <2>5
<1>2. bad = {}
  <2>. HIDE DEF bad
  <2>1. bad \in SUBSET SUBSET S
    BY DEF bad
  <2>. QED
    BY <1>1, <2>1, SubsetInduction
<1>. QED
  BY <1>2

\* A sum over two sets that share nothing.
LEMMA SumOfUnion ==
  ASSUME NEW A, IsFiniteSet(A), NEW B, IsFiniteSet(B), A \cap B = {},
         NEW f, \A x \in A \cup B : f[x] \in Int
  PROVE  SumFunctionOnSet(f, A \cup B) = SumFunctionOnSet(f, A) + SumFunctionOnSet(f, B)
<1>. DEFINE Adds(T) ==
              SumFunctionOnSet(f, A \cup T) = SumFunctionOnSet(f, A) + SumFunctionOnSet(f, T)
            bad == {T \in SUBSET B : ~Adds(T)}
<1>1. ASSUME NEW T \in bad PROVE \E x \in T : T \ {x} \in bad
  <2>1. T \in SUBSET B /\ ~Adds(T) /\ IsFiniteSet(T) /\ IsFiniteSet(A \cup T)
    BY FS_Subset, FS_Union
  <2>2. ASSUME NEW U \in SUBSET (A \cup T) PROVE SumFunctionOnSet(f, U) \in Int
    BY <2>1, SumIsInteger
  <2>3. T # {}
    <3>1. SumFunctionOnSet(f, A) \in Int
      BY <2>2
    <3>. QED
      BY <2>1, <3>1, SumOfNone
  <2>4. PICK x \in T : TRUE
    BY <2>3
  <2>5. SumFunctionOnSet(f, T) = f[x] + SumFunctionOnSet(f, T \ {x})
    BY <2>1, SumRemove
  <2>6. (A \cup T) \ {x} = A \cup (T \ {x})
    BY <2>1, <2>4
  <2>7. SumFunctionOnSet(f, A \cup T) = f[x] + SumFunctionOnSet(f, A \cup (T \ {x}))
    BY <2>1, <2>4, <2>6, SumRemove
  <2>8. /\ SumFunctionOnSet(f, A) \in Int /\ SumFunctionOnSet(f, T \ {x}) \in Int
        /\ SumFunctionOnSet(f, A \cup (T \ {x})) \in Int /\ f[x] \in Int
    BY <2>1, <2>2, <2>4
  <2>9. ~Adds(T \ {x})
    BY <2>1, <2>5, <2>7, <2>8
  <2>. QED
    BY <2>1, <2>4, <2>9
<1>2. bad = {}
  <2>. HIDE DEF bad
  <2>1. bad \in SUBSET SUBSET B
    BY DEF bad
  <2>. QED
    BY <1>1, <2>1, SubsetInduction
<1>3. Adds(B)
  BY <1>2
<1>. QED
  BY <1>3

\* p names every member of T once, by the members of S.
Renames(p, S, T) == T = {p[x] : x \in S} /\ \A x, y \in S : p[x] = p[y] => x = y

\* A sum over renamed members.
LEMMA SumOfImage ==
  ASSUME NEW S, IsFiniteSet(S), NEW p, NEW R, Renames(p, S, R),
         NEW f, NEW e, \A x \in S : e[x] = f[p[x]] /\ e[x] \in Int
  PROVE  SumFunctionOnSet(e, S) = SumFunctionOnSet(f, R)
<1>0. R = {p[x] : x \in S} /\ \A x, y \in S : p[x] = p[y] => x = y
  BY DEF Renames
<1>. DEFINE Image(T) == {p[x] : x \in T}
            Same(T) == SumFunctionOnSet(e, T) = SumFunctionOnSet(f, Image(T))
            bad == {T \in SUBSET S : ~Same(T)}
<1>1. ASSUME NEW T \in bad PROVE \E x \in T : T \ {x} \in bad
  <2>1. T \in SUBSET S /\ ~Same(T) /\ IsFiniteSet(T)
    BY FS_Subset
  <2>2. T # {}
    <3>1. ASSUME T = {} PROVE Same(T)
      <4>1. Image(T) = {}
        BY <3>1
      <4>. HIDE DEF Image
      <4>. QED
        BY <3>1, <4>1, SumOfNone
    <3>. QED
      BY <2>1, <3>1
  <2>3. PICK x \in T : TRUE
    BY <2>2
  <2>4. SumFunctionOnSet(e, T) = e[x] + SumFunctionOnSet(e, T \ {x})
    BY <2>1, SumRemove
  <2>5. Image(T) \ {p[x]} = Image(T \ {x})
    BY <1>0, <2>1, <2>3
  <2>6. IsFiniteSet(Image(T)) /\ p[x] \in Image(T)
    <3>. DEFINE q == [z \in T |-> p[z]]
    <3>1. q \in Surjection(T, Image(T))
      BY DEF Surjection
    <3>. QED
      BY <2>1, <2>3, <3>1, FS_Surjection
  <2>7. \A y \in Image(T) : f[y] \in Int
    BY <2>1
  <2>. HIDE DEF Image
  <2>8. SumFunctionOnSet(f, Image(T)) = f[p[x]] + SumFunctionOnSet(f, Image(T \ {x}))
    <3>1. SumFunctionOnSet(f, Image(T)) = f[p[x]] + SumFunctionOnSet(f, Image(T) \ {p[x]})
      BY <2>6, <2>7, SumRemove
    <3>. QED
      BY <2>5, <3>1
  <2>9. ~Same(T \ {x})
    BY <2>1, <2>3, <2>4, <2>8
  <2>. QED
    BY <2>1, <2>3, <2>9
<1>2. bad = {}
  <2>. HIDE DEF bad
  <2>1. bad \in SUBSET SUBSET S
    BY DEF bad
  <2>. QED
    BY <1>1, <2>1, SubsetInduction
<1>3. Same(S)
  BY <1>2
<1>. QED
  BY <1>0, <1>3

\* A sum of differences.
LEMMA SumOfDifference ==
  ASSUME NEW S, IsFiniteSet(S), NEW f, NEW e, NEW d,
         \A x \in S : f[x] \in Int /\ e[x] \in Int /\ d[x] = f[x] - e[x]
  PROVE  SumFunctionOnSet(d, S) = SumFunctionOnSet(f, S) - SumFunctionOnSet(e, S)
<1>. DEFINE Differs(T) ==
              SumFunctionOnSet(d, T) = SumFunctionOnSet(f, T) - SumFunctionOnSet(e, T)
            bad == {T \in SUBSET S : ~Differs(T)}
<1>1. ASSUME NEW T \in bad PROVE \E x \in T : T \ {x} \in bad
  <2>1. T \in SUBSET S /\ ~Differs(T) /\ IsFiniteSet(T)
    BY FS_Subset
  <2>2. T # {}
    BY <2>1, SumOfNone
  <2>3. PICK x \in T : TRUE
    BY <2>2
  <2>4. /\ \A y \in T : f[y] \in Int /\ e[y] \in Int /\ d[y] \in Int
        /\ d[x] = f[x] - e[x]
    BY <2>1
  <2>5. /\ SumFunctionOnSet(d, T) = d[x] + SumFunctionOnSet(d, T \ {x})
        /\ SumFunctionOnSet(f, T) = f[x] + SumFunctionOnSet(f, T \ {x})
        /\ SumFunctionOnSet(e, T) = e[x] + SumFunctionOnSet(e, T \ {x})
    BY <2>1, <2>4, SumRemove
  <2>6. /\ SumFunctionOnSet(d, T \ {x}) \in Int /\ SumFunctionOnSet(f, T \ {x}) \in Int
        /\ SumFunctionOnSet(e, T \ {x}) \in Int
    BY <2>1, <2>4, SumIsInteger
  <2>7. ~Differs(T \ {x})
    BY <2>1, <2>3, <2>4, <2>5, <2>6
  <2>. QED
    BY <2>1, <2>3, <2>7
<1>2. bad = {}
  <2>. HIDE DEF bad
  <2>1. bad \in SUBSET SUBSET S
    BY DEF bad
  <2>. QED
    BY <1>1, <2>1, SubsetInduction
<1>3. Differs(S)
  BY <1>2
<1>. QED
  BY <1>3

\* Members that add nothing can be left out.
LEMMA SumOfPart ==
  ASSUME NEW S, IsFiniteSet(S), NEW P \in SUBSET S, NEW f, NEW e,
         \A x \in S : (x \in P => f[x] \in Int /\ e[x] = f[x]) /\ (x \notin P => e[x] = 0)
  PROVE  SumFunctionOnSet(e, S) = SumFunctionOnSet(f, P)
<1>. DEFINE Same(T) == SumFunctionOnSet(e, T) = SumFunctionOnSet(f, T \cap P)
            bad == {T \in SUBSET S : ~Same(T)}
<1>1. ASSUME NEW T \in bad PROVE \E x \in T : T \ {x} \in bad
  <2>1. T \in SUBSET S /\ ~Same(T) /\ IsFiniteSet(T) /\ IsFiniteSet(T \cap P)
    BY FS_Subset
  <2>2. T # {}
    BY <2>1, SumOfNone, {} \cap P = {}
  <2>3. PICK x \in T : TRUE
    BY <2>2
  <2>4. (\A y \in T : e[y] \in Int) /\ (\A y \in T \cap P : f[y] \in Int)
    BY <2>1
  <2>5. SumFunctionOnSet(e, T) = e[x] + SumFunctionOnSet(e, T \ {x})
    BY <2>1, <2>4, SumRemove
  <2>6. SumFunctionOnSet(e, T \ {x}) \in Int
    BY <2>1, <2>4, SumIsInteger
  <2>7. ~Same(T \ {x})
    <3>1. CASE x \in P
      <4>1. SumFunctionOnSet(f, T \cap P) = f[x] + SumFunctionOnSet(f, (T \cap P) \ {x})
        BY <2>1, <2>3, <2>4, <3>1, SumRemove
      <4>2. (T \cap P) \ {x} = (T \ {x}) \cap P
        OBVIOUS
      <4>. QED
        BY <2>1, <2>3, <2>5, <3>1, <4>1, <4>2
    <3>2. CASE x \notin P
      <4>1. T \cap P = (T \ {x}) \cap P
        BY <3>2
      <4>2. e[x] = 0
        BY <2>1, <2>3, <3>2
      <4>3. SumFunctionOnSet(e, T) = SumFunctionOnSet(e, T \ {x})
        BY <2>5, <2>6, <4>2
      <4>. QED
        BY <2>1, <4>1, <4>3
    <3>. QED
      BY <3>1, <3>2
  <2>. QED
    BY <2>1, <2>3, <2>7
<1>2. bad = {}
  <2>. HIDE DEF bad
  <2>1. bad \in SUBSET SUBSET S
    BY DEF bad
  <2>. QED
    BY <1>1, <2>1, SubsetInduction
<1>3. Same(S) /\ S \cap P = P
  BY <1>2
<1>. QED
  BY <1>3

\* What one flow adds to the net flow.
Signed(flow) ==
  CASE flow.kind = "deposit" /\ flow.assets # Null -> flow.assets
    [] flow.kind = "withdraw" /\ flow.assets # Null -> -flow.assets
    [] OTHER -> 0

\* The net flow is the sum of what each flow adds.
LEMMA NetFlowIsSigned ==
  ASSUME NEW flows, IsFiniteSet(DOMAIN flows),
         \A i \in DOMAIN flows : flows[i].assets \in Int \cup {Null}
  PROVE  NetFlow(flows)
           = SumFunctionOnSet([i \in DOMAIN flows |-> Signed(flows[i])], DOMAIN flows)
<1>. DEFINE D == DOMAIN flows
            assets == [i \in D |-> flows[i].assets]
            Of(kind) == {i \in D : flows[i].kind = kind /\ flows[i].assets # Null}
            Only(kind) == [i \in D |-> IF i \in Of(kind) THEN flows[i].assets ELSE 0]
            signed == [i \in D |-> Signed(flows[i])]
<1>1. ASSUME NEW kind PROVE SumFunctionOnSet(Only(kind), D) = SumFunctionOnSet(assets, Of(kind))
  <2>1. \A i \in D : /\ i \in Of(kind) => assets[i] \in Int /\ Only(kind)[i] = assets[i]
                     /\ i \notin Of(kind) => Only(kind)[i] = 0
    OBVIOUS
  <2>2. Of(kind) \in SUBSET D
    OBVIOUS
  <2>. HIDE DEF Of, Only, assets, D
  <2>3. IsFiniteSet(D)
    BY DEF D
  <2>. QED
    BY <2>1, <2>2, <2>3, SumOfPart
<1>2. \A i \in D : /\ Only("deposit")[i] \in Int /\ Only("withdraw")[i] \in Int
                   /\ signed[i] = Only("deposit")[i] - Only("withdraw")[i]
  BY DEF Signed
<1>3. SumFunctionOnSet(signed, D)
        = SumFunctionOnSet(Only("deposit"), D) - SumFunctionOnSet(Only("withdraw"), D)
  <2>. HIDE DEF Only, signed, D
  <2>1. IsFiniteSet(D)
    BY DEF D
  <2>. QED
    BY <1>2, <2>1, SumOfDifference
<1>4. NetFlow(flows)
        = SumFunctionOnSet(assets, Of("deposit")) - SumFunctionOnSet(assets, Of("withdraw"))
  BY DEF NetFlow
<1>. QED
  BY <1>1, <1>3, <1>4
=============================================================================
