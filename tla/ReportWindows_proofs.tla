------------------------ MODULE ReportWindows_proofs ------------------------
(****************************************************************************)
(* Theorems of ReportFiling about the windows that reports rest on, for any *)
(* blocks, releases, policies, requests and repairs.                        *)
(*                                                                          *)
(* A window is read in three statements between which the worker may        *)
(* withdraw blocks.  What holds it together: while the block it ends at is  *)
(* canonical, everything below is what it was when the window was read,     *)
(* because a repair cuts the ledger from the top and what is promoted again *)
(* has a higher generation.  WindowInv says that of every request and of    *)
(* every report; the parts before it say what the rows of a block tell of   *)
(* the chain.                                                               *)
(****************************************************************************)
EXTENDS ReportFiling_proofs, EvidenceEngine_proofs

-----------------------------------------------------------------------------
(* Recursion over prefixes                                                  *)

\* What fails at no prefix without failing at the one before never fails.
LEMMA LeastBad ==
  ASSUME NEW N \in Nat, NEW bad \in SUBSET (0..N), 0 \notin bad,
         \A n \in 1..N : n \in bad => n - 1 \in bad
  PROVE  bad = {}
<1>. SUFFICES ASSUME bad # {} PROVE FALSE
  OBVIOUS
<1>1. bad \in SUBSET Nat
  OBVIOUS
<1>2. PICK n \in bad : \A m \in bad : n <= m
  BY <1>1, LeastOf
<1>3. n \in 1..N
  BY <1>2
<1>. QED
  BY <1>2, <1>3

\* A function on the prefixes of a sequence that satisfies a recursive equation.
Unrolls(u, N, V, base, step) ==
  /\ u \in [0..N -> V]
  /\ \A n \in 0..N : u[n] = IF n = 0 THEN base ELSE step[<<n, u[n - 1]>>]

\* There is one for every step.
LEMMA PrefixRecursion ==
  ASSUME NEW N \in Nat, NEW V, NEW base \in V, NEW step \in [(1..N) \X V -> V]
  PROVE  \E u : Unrolls(u, N, V, base, step)
<1>. DEFINE Upto(m, u) ==
              /\ u \in [0..m -> V]
              /\ \A n \in 0..m : u[n] = IF n = 0 THEN base ELSE step[<<n, u[n - 1]>>]
            bad == {m \in 0..N : ~\E u : Upto(m, u)}
<1>1. 0 \notin bad
  <2>. DEFINE u == [n \in 0..0 |-> base]
  <2>1. Upto(0, u)
    OBVIOUS
  <2>. QED
    BY <2>1
<1>2. ASSUME NEW m \in 1..N, m - 1 \notin bad PROVE m \notin bad
  <2>1. PICK u : Upto(m - 1, u)
    BY <1>2
  <2>. DEFINE next == step[<<m, u[m - 1]>>]
              w == [n \in 0..m |-> IF n = m THEN next ELSE u[n]]
  <2>2. u[m - 1] \in V
    BY <2>1
  <2>3. next \in V
    BY <2>2
  <2>4. w \in [0..m -> V]
    BY <2>1, <2>3
  <2>5. ASSUME NEW n \in 0..m PROVE w[n] = IF n = 0 THEN base ELSE step[<<n, w[n - 1]>>]
    <3>1. CASE n = m
      <4>1. m # 0 /\ m - 1 \in 0..m /\ m - 1 # m /\ w[m - 1] = u[m - 1] /\ w[m] = next
        OBVIOUS
      <4>. HIDE DEF w
      <4>. QED
        BY <3>1, <4>1
    <3>2. CASE n # m
      <4>1. n \in 0..(m - 1) /\ w[n] = u[n]
        BY <3>2
      <4>2. n # 0 => n - 1 \in 0..m /\ w[n - 1] = u[n - 1]
        BY <4>1
      <4>. HIDE DEF w
      <4>. QED
        BY <2>1, <4>1, <4>2
    <3>. QED
      BY <3>1, <3>2
  <2>6. Upto(m, w)
    <3>. HIDE DEF w
    <3>. QED
      BY <2>4, <2>5
  <2>. QED
    BY <2>6
<1>3. bad = {}
  <2>1. bad \in SUBSET (0..N)
    OBVIOUS
  <2>. HIDE DEF bad
  <2>. QED
    BY <1>1, <1>2, <2>1, LeastBad
<1>. QED
  BY <1>3 DEF Unrolls

\* u[n] is what is kept of the first n members of s.
Prefixes(u, s, P, S) ==
  /\ u \in [0..Len(s) -> Seq(S)]
  /\ u[0] = <<>> /\ Keep(s, P) = u[Len(s)]
  /\ \A n \in 1..Len(s) : u[n] = IF n \in P THEN Append(u[n - 1], s[n]) ELSE u[n - 1]

\* What is kept of a sequence, prefix by prefix.
LEMMA KeepRecurs ==
  ASSUME NEW S, NEW s \in Seq(S), NEW P \in SUBSET (1..Len(s))
  PROVE  \E u : Prefixes(u, s, P, S)
<1>. DEFINE N == Len(s)
            V == Seq(S)
            step == [x \in (1..N) \X V |-> IF x[1] \in P THEN Append(x[2], s[x[1]]) ELSE x[2]]
            Unrolled(u, n) == CASE n = 0 -> <<>>
                             [] n \in P -> Append(u[n - 1], s[n])
                             [] OTHER -> u[n - 1]
            Recurs(u) == u = [n \in 0..Len(s) |-> Unrolled(u, n)]
<1>1. N \in Nat /\ <<>> \in V /\ step \in [(1..N) \X V -> V]
  OBVIOUS
<1>2. PICK u \in [0..N -> V] : \A n \in 0..N : u[n] = IF n = 0 THEN <<>> ELSE step[<<n, u[n - 1]>>]
  <2>. DEFINE none == <<>>
  <2>1. none \in V
    BY <1>1
  <2>. HIDE DEF N, V, step, none
  <2>2. PICK u : Unrolls(u, N, V, none, step)
    BY <1>1, <2>1, PrefixRecursion
  <2>. QED
    BY <2>2 DEF none, Unrolls
<1>3. ASSUME NEW v, NEW n \in 0..N
      PROVE  Unrolled(v, n) = IF n = 0 THEN <<>> ELSE IF n \in P THEN Append(v[n - 1], s[n]) ELSE v[n - 1]
  OBVIOUS
<1>4. Recurs(u)
  <2>1. ASSUME NEW n \in 0..N PROVE u[n] = Unrolled(u, n)
    <3>1. CASE n = 0
      BY <1>2, <1>3, <3>1
    <3>2. CASE n # 0
      <4>1. n \in 1..N /\ n - 1 \in 0..N /\ u[n - 1] \in V
        BY <1>1, <1>2, <3>2
      <4>2. step[<<n, u[n - 1]>>] = IF n \in P THEN Append(u[n - 1], s[n]) ELSE u[n - 1]
        BY <4>1
      <4>. HIDE DEF step, Unrolled
      <4>. QED
        BY <1>2, <1>3, <3>2, <4>2
    <3>. QED
      BY <3>1, <3>2
  <2>. HIDE DEF Unrolled
  <2>. QED
    BY <1>2, <2>1
<1>5. \E v : Recurs(v)
  BY <1>4
<1>6. Keep(s, P) = (CHOOSE v : Recurs(v))[N]
  BY DEF Keep
<1>. DEFINE w == CHOOSE v : Recurs(v)
<1>7. Recurs(w)
  <2>. HIDE DEF Recurs
  <2>. QED
    BY <1>5
<1>8. \A n \in 0..N : w[n] = IF n = 0 THEN <<>> ELSE IF n \in P THEN Append(w[n - 1], s[n]) ELSE w[n - 1]
  <2>1. \A n \in 0..N : w[n] = Unrolled(w, n)
    <3>. HIDE DEF Unrolled, w
    <3>. QED
      BY <1>7
  <2>. HIDE DEF Unrolled, w
  <2>. QED
    BY <1>3, <2>1
<1>9. w \in [0..N -> V]
  <2>. DEFINE bad == {n \in 0..N : w[n] \notin V}
  <2>1. 0 \notin bad
    BY <1>1, <1>8
  <2>2. \A n \in 1..N : n \in bad => n - 1 \in bad
    <3>1. ASSUME NEW n \in 1..N, w[n - 1] \in V PROVE w[n] \in V
      <4>1. s[n] \in S /\ n \in 0..N /\ n # 0
        OBVIOUS
      <4>2. w[n] = IF n \in P THEN Append(w[n - 1], s[n]) ELSE w[n - 1]
        BY <1>8, <4>1
      <4>. HIDE DEF w
      <4>. QED
        BY <3>1, <4>1, <4>2
    <3>2. \A n \in 1..N : n \in 0..N /\ n - 1 \in 0..N
      BY <1>1
    <3>. HIDE DEF w, V
    <3>. QED
      BY <3>1, <3>2
  <2>3. bad = {}
    <3>1. bad \in SUBSET (0..N)
      OBVIOUS
    <3>. HIDE DEF bad
    <3>. QED
      BY <1>1, <2>1, <2>2, <3>1, LeastBad
  <2>. HIDE DEF w
  <2>4. w = [n \in 0..N |-> w[n]]
    <3>1. w = [n \in 0..N |-> Unrolled(w, n)]
      BY <1>7
    <3>. HIDE DEF Unrolled
    <3>. QED
      BY <3>1
  <2>. QED
    BY <2>3, <2>4
<1>. QED
  <2>. HIDE DEF w, Recurs
  <2>1. w[N] = Keep(s, P)
    BY <1>6 DEF w
  <2>2. w[0] = <<>>
    BY <1>1, <1>8
  <2>3. \A n \in 1..N : w[n] = IF n \in P THEN Append(w[n - 1], s[n]) ELSE w[n - 1]
    BY <1>1, <1>8
  <2>. QED
    BY <1>9, <2>1, <2>2, <2>3 DEF Prefixes

\* f consists of the members of s at the positions Q, each once, in an order p.
Draws(f, s, p, Q) ==
  /\ p \in [1..Len(f) -> Q]
  /\ \A i, j \in 1..Len(f) : p[i] = p[j] => i = j
  /\ \A q \in Q : \E i \in 1..Len(f) : p[i] = q
  /\ \A i \in 1..Len(f) : f[i] = s[p[i]]

\* Keep draws the members at the positions, each once and in some order.
LEMMA KeepDraws ==
  ASSUME NEW S, NEW s \in Seq(S), NEW P \in SUBSET (1..Len(s))
  PROVE  Keep(s, P) \in Seq(S) /\ \E p : Draws(Keep(s, P), s, p, P)
<1>1. PICK u \in [0..Len(s) -> Seq(S)] :
        /\ u[0] = <<>> /\ Keep(s, P) = u[Len(s)]
        /\ \A n \in 1..Len(s) :
             u[n] = IF n \in P THEN Append(u[n - 1], s[n]) ELSE u[n - 1]
  <2>1. PICK u : Prefixes(u, s, P, S)
    BY KeepRecurs
  <2>. QED
    BY <2>1 DEF Prefixes
<1>. DEFINE N == Len(s)
            Q(n) == P \cap (1..n)
            bad == {n \in 0..N : ~\E p : Draws(u[n], s, p, Q(n))}
<1>2. N \in Nat
  OBVIOUS
<1>3. 0 \notin bad
  <2>. DEFINE p == [i \in 1..0 |-> 0]
  <2>1. Q(0) = {} /\ Len(u[0]) = 0
    BY <1>1
  <2>2. p \in [1..0 -> {}]
    OBVIOUS
  <2>3. Draws(u[0], s, p, {})
    BY <2>1, <2>2 DEF Draws
  <2>. QED
    BY <2>1, <2>3
<1>4. ASSUME NEW n \in 1..N, n - 1 \notin bad PROVE n \notin bad
  <2>1. n - 1 \in 0..N /\ n \in 0..N
    OBVIOUS
  <2>. DEFINE f == u[n - 1]
  <2>2. PICK p : Draws(f, s, p, Q(n - 1))
    BY <1>4, <2>1
  <2>3. f \in Seq(S) /\ s[n] \in S
    BY <1>1, <2>1
  <2>. HIDE DEF f
  <2>4. CASE n \notin P
    <3>1. Q(n) = Q(n - 1) /\ u[n] = f
      BY <1>1, <2>4 DEF f
    <3>. QED
      BY <2>2, <3>1
  <2>5. CASE n \in P
    <3>. DEFINE L == Len(f)
                g == Append(f, s[n])
                r == [i \in 1..(L + 1) |-> IF i = L + 1 THEN n ELSE p[i]]
    <3>1. u[n] = g
      BY <1>1, <2>5 DEF f
    <3>2. /\ L \in Nat /\ Len(g) = L + 1 /\ g[L + 1] = s[n]
          /\ \A i \in 1..L : g[i] = f[i]
      BY <2>3
    <3>3. Q(n) = Q(n - 1) \cup {n} /\ n \notin Q(n - 1)
      BY <2>5
    <3>4. \A i \in 1..L : p[i] \in Q(n - 1) /\ r[i] = p[i]
      BY <2>2, <3>2 DEF Draws
    <3>5. r[L + 1] = n
      BY <3>2
    <3>6. 1..(L + 1) = (1..L) \cup {L + 1} /\ L + 1 \notin 1..L
      BY <3>2
    <3>7. r \in [1..(L + 1) -> Q(n)]
      <4>1. \A i \in 1..(L + 1) : (IF i = L + 1 THEN n ELSE p[i]) \in Q(n)
        BY <3>3, <3>4, <3>6
      <4>. HIDE DEF Q, L
      <4>. QED
        BY <4>1
    <3>. HIDE DEF Q, L, g, r
    <3>8. \A i, j \in 1..(L + 1) : r[i] = r[j] => i = j
      BY <2>2, <3>3, <3>4, <3>5, <3>6 DEF Draws, L
    <3>9. \A q \in Q(n) : \E i \in 1..(L + 1) : r[i] = q
      <4>1. \A q \in Q(n - 1) : \E i \in 1..L : r[i] = q
        BY <2>2, <3>4 DEF Draws, L
      <4>. QED
        BY <3>3, <3>5, <3>6, <4>1
    <3>10. \A i \in 1..(L + 1) : g[i] = s[r[i]]
      <4>1. \A i \in 1..L : f[i] = s[p[i]]
        BY <2>2 DEF Draws, L
      <4>. QED
        BY <3>2, <3>4, <3>5, <3>6, <4>1
    <3>11. Draws(u[n], s, r, Q(n))
      BY <3>1, <3>2, <3>7, <3>8, <3>9, <3>10 DEF Draws
    <3>. QED
      BY <3>11
  <2>. QED
    BY <2>4, <2>5
<1>5. bad = {}
  <2>1. bad \in SUBSET (0..N)
    OBVIOUS
  <2>. HIDE DEF bad
  <2>. QED
    BY <1>2, <1>3, <1>4, <2>1, LeastBad
<1>6. Q(N) = P /\ N \in 0..N
  <2>1. P \subseteq 1..N
    OBVIOUS
  <2>. HIDE DEF N
  <2>. QED
    BY <1>2, <2>1
<1>7. \E p : Draws(u[N], s, p, P)
  BY <1>5, <1>6
<1>. QED
  BY <1>1, <1>6, <1>7

-----------------------------------------------------------------------------
(* Flow rows                                                                *)

\* What some flows add to the net flow, and whether shares were minted or burnt.
Total(f) == SumFunctionOnSet([i \in DOMAIN f |-> Signed(f[i])], DOMAIN f)
\* Flows that mint or burn shares.
Sided(f) == \E i \in DOMAIN f : f[i].transferKind \in {"mint", "burn"}

\* Flow rows with an amount or none.
Amounted(R) == \A row \in R : row.assets \in Int \cup {Null}

\* A flow adds an integer.
LEMMA SignedIsInteger ==
  ASSUME NEW row, row.assets \in Int \cup {Null}
  PROVE  Signed(row) \in Int
BY DEF Signed

\* A sequence has finitely many positions.
LEMMA FiniteDomain ==
  ASSUME NEW R, NEW f \in Seq(R)
  PROVE  IsFiniteSet(DOMAIN f) /\ DOMAIN f = 1..Len(f) /\ Len(f) \in Nat
BY FS_Interval

\* The order of the flows does not matter.
LEMMA OrdersAgree ==
  ASSUME NEW R, Amounted(R), NEW f \in Seq(R), NEW g \in Orders(f)
  PROVE  g \in Seq(R) /\ Total(g) = Total(f) /\ (Sided(g) <=> Sided(f))
<1>. DEFINE D == DOMAIN f
<1>1. PICK p \in Bijection(D, D) : g = [i \in D |-> f[p[i]]]
  BY DEF Orders
<1>2. /\ p \in [D -> D]
      /\ \A i, j \in D : p[i] = p[j] => i = j
      /\ \A j \in D : \E i \in D : p[i] = j
  BY DEF Bijection, Injection, IsInjective, Surjection
<1>3. D = 1..Len(f) /\ Len(f) \in Nat /\ IsFiniteSet(D) /\ \A i \in D : f[i] \in R
  BY FiniteDomain
<1>4. DOMAIN g = D /\ \A i \in D : g[i] = f[p[i]] /\ p[i] \in D
  BY <1>1, <1>2
<1>5. g \in Seq(R)
  <2>1. \A i \in D : f[p[i]] \in R
    BY <1>2, <1>3
  <2>2. g \in [1..Len(f) -> R]
    BY <1>1, <1>3, <2>1
  <2>. QED
    BY <1>3, <2>2
<1>6. Total(g) = Total(f)
  <2>. DEFINE sf == [i \in D |-> Signed(f[i])]
              sg == [i \in D |-> Signed(g[i])]
  <2>1. \A i \in D : sg[i] = sf[p[i]] /\ sg[i] \in Int
    <3>1. \A i \in D : f[p[i]].assets \in Int \cup {Null}
      BY <1>3, <1>4 DEF Amounted
    <3>2. \A i \in D : Signed(f[p[i]]) \in Int
      BY <3>1, SignedIsInteger
    <3>3. \A i \in D : sg[i] = Signed(f[p[i]]) /\ sf[p[i]] = Signed(f[p[i]])
      BY <1>4
    <3>. QED
      BY <3>2, <3>3
  <2>2. {p[i] : i \in D} = D
    <3>. HIDE DEF D
    <3>. QED
      BY <1>2
  <2>3. SumFunctionOnSet(sg, D) = SumFunctionOnSet(sf, D)
    <3>1. Renames(p, D, D)
      BY <1>2, <2>2 DEF Renames
    <3>2. IsFiniteSet(D)
      BY <1>3
    <3>. HIDE DEF sf, sg, D
    <3>. QED
      BY <2>1, <3>1, <3>2, SumOfImage
  <2>. QED
    BY <1>4, <2>3 DEF Total
<1>7. Sided(g) <=> Sided(f)
  BY <1>2, <1>4 DEF Sided
<1>. QED
  BY <1>5, <1>6, <1>7

\* The flows of two readings one after the other.
LEMMA TotalsAdd ==
  ASSUME NEW R, Amounted(R), NEW f \in Seq(R), NEW g \in Seq(R)
  PROVE  /\ f \o g \in Seq(R)
         /\ Total(f \o g) = Total(f) + Total(g)
         /\ Sided(f \o g) <=> Sided(f) \/ Sided(g)
<1>. DEFINE m == Len(f)
            n == Len(g)
            k == f \o g
            A == 1..m
            B == 1..n
            C == {m + j : j \in B}
            D == 1..(m + n)
            s == [i \in D |-> Signed(k[i])]
            sf == [i \in A |-> Signed(f[i])]
            sg == [i \in B |-> Signed(g[i])]
            shift == [j \in B |-> m + j]
<1>1. /\ m \in Nat /\ n \in Nat /\ k \in Seq(R)
      /\ DOMAIN f = A /\ DOMAIN g = B /\ DOMAIN k = D
      /\ \A i \in A : k[i] = f[i] /\ f[i] \in R
      /\ \A j \in B : k[m + j] = g[j] /\ g[j] \in R
  OBVIOUS
<1>2. IsFiniteSet(A) /\ IsFiniteSet(B)
  BY FS_Interval
<1>3. C = (m + 1)..(m + n)
  <2>. HIDE DEF m, n
  <2>1. ASSUME NEW i \in (m + 1)..(m + n) PROVE i \in C
    <3>1. i - m \in B /\ i = m + (i - m)
      BY <1>1
    <3>. QED
      BY <3>1
  <2>2. ASSUME NEW j \in B PROVE m + j \in (m + 1)..(m + n)
    BY <1>1
  <2>. QED
    BY <2>1, <2>2
<1>4. D = A \cup C /\ A \cap C = {} /\ IsFiniteSet(C)
  <2>. HIDE DEF m, n, C
  <2>1. IsFiniteSet(C)
    <3>1. m + 1 \in Int /\ m + n \in Int
      BY <1>1
    <3>. QED
      BY <1>3, <3>1, FS_Interval
  <2>2. D = A \cup ((m + 1)..(m + n)) /\ A \cap ((m + 1)..(m + n)) = {}
    BY <1>1
  <2>. QED
    BY <1>3, <2>1, <2>2
<1>5. \A i \in A : s[i] = sf[i] /\ s[i] \in Int
  <2>1. \A i \in A : i \in D
    BY <1>4
  <2>. QED
    BY <1>1, <2>1, SignedIsInteger DEF Amounted
<1>6. \A j \in B : sg[j] = s[shift[j]] /\ sg[j] \in Int
  <2>1. \A j \in B : m + j \in D
    BY <1>4
  <2>. QED
    BY <1>1, <2>1, SignedIsInteger DEF Amounted
<1>7. {shift[j] : j \in B} = C /\ \A i, j \in B : shift[i] = shift[j] => i = j
  BY <1>1
<1>8. \A i \in A \cup C : s[i] \in Int
  <2>. HIDE DEF A, B, s, sg, sf
  <2>. QED
    BY <1>5, <1>6
<1>9. SumFunctionOnSet(s, D) = SumFunctionOnSet(s, A) + SumFunctionOnSet(s, C)
  <2>. HIDE DEF s, A, C, D
  <2>. QED
    BY <1>2, <1>4, <1>8, SumOfUnion
<1>10. SumFunctionOnSet(s, A) = SumFunctionOnSet(sf, A)
  <2>. HIDE DEF s, sf, A
  <2>. QED
    BY <1>2, <1>5, SumCongruent
<1>11. SumFunctionOnSet(s, C) = SumFunctionOnSet(sg, B)
  <2>1. Renames(shift, B, C)
    BY <1>7 DEF Renames
  <2>. HIDE DEF s, sg, B, C, shift
  <2>. QED
    BY <1>2, <1>6, <2>1, SumOfImage
<1>12. Total(k) = Total(f) + Total(g)
  BY <1>1, <1>9, <1>10, <1>11 DEF Total
<1>13. Sided(k) <=> Sided(f) \/ Sided(g)
  <2>1. Sided(k) <=> \E i \in A \cup C : k[i].transferKind \in {"mint", "burn"}
    BY <1>1, <1>4 DEF Sided
  <2>2. (\E i \in A : k[i].transferKind \in {"mint", "burn"}) <=> Sided(f)
    BY <1>1 DEF Sided
  <2>3. (\E i \in C : k[i].transferKind \in {"mint", "burn"}) <=> Sided(g)
    BY <1>1 DEF Sided
  <2>. QED
    BY <2>1, <2>2, <2>3
<1>. QED
  BY <1>1, <1>12, <1>13

-----------------------------------------------------------------------------
(* What a block streams                                                     *)

\* A block a height may hold, its logs, and the flow rows the vault gets of it.
Content(h, i) == BlockContents[h][i]
LogsOf(h, i) == Content(h, i).block.logs
OfVault(h, i) == {j \in DOMAIN LogsOf(h, i) : LogsOf(h, i)[j].address = Vault}
VaultFlows(h, i) == FlowsOf(RawRows[h][i])

\* The flow row of each log.
RowOf(h, i) == [j \in DOMAIN LogsOf(h, i) |-> FlowRow(LogsOf(h, i)[j])]
RowsOf(h, i) == {RowOf(h, i)[j] : j \in DOMAIN LogsOf(h, i)}

\* The amount of a log of the vault.
LogAmount(log) ==
  CASE log.address # Vault -> 0
    [] log.address = Vault /\ log.kind = "deposit" -> log.assets
    [] log.address = Vault /\ log.kind = "withdraw" -> -log.assets
    [] OTHER -> 0

\* A log that mints or burns shares of the vault.
MovesSupply(log) ==
  /\ log.address = Vault /\ log.kind = "share_transfer"
  /\ (log.from = ZeroAddress) # (log.to = ZeroAddress)

\* A log is a decoded event.
Decoded(log) ==
  \/ log.kind = "share_transfer"
  \/ log.kind \in {"deposit", "withdraw"} /\ log.assets \in Nat

\* The flow row of a log says of the log what a window needs.
LEMMA RowOfLog ==
  ASSUME NEW log, Decoded(log)
  PROVE  /\ FlowRow(log).vault = log.address
         /\ FlowRow(log).kind = log.kind
         /\ FlowRow(log).assets \in Int \cup {Null}
         /\ log.address = Vault =>
              /\ Signed(FlowRow(log)) = LogAmount(log)
              /\ FlowRow(log).transferKind \in {"mint", "burn"} <=> MovesSupply(log)
<1>1. CASE log.kind = "share_transfer"
  <2>1. FlowRow(log) = [vault |-> log.address, kind |-> log.kind,
                        transferKind |-> ClassifyTransfer(log), assets |-> Null]
    BY <1>1 DEF FlowRow
  <2>2. Signed(FlowRow(log)) = 0 /\ (log.address = Vault => LogAmount(log) = 0)
    BY <1>1, <2>1 DEF Signed, LogAmount
  <2>3. ClassifyTransfer(log) \in {"mint", "burn"}
          <=> (log.from = ZeroAddress) # (log.to = ZeroAddress)
    BY DEF ClassifyTransfer
  <2>. QED
    BY <1>1, <2>1, <2>2, <2>3 DEF MovesSupply
<1>2. CASE log.kind \in {"deposit", "withdraw"} /\ log.assets \in Nat
  <2>1. FlowRow(log) = [vault |-> log.address, kind |-> log.kind, transferKind |-> Null,
                        assets |-> log.assets]
    BY <1>2 DEF FlowRow
  <2>2. log.assets # Null /\ Null \notin {"mint", "burn"}
    BY <1>2, NullAssumption
  <2>3. log.address = Vault => Signed(FlowRow(log)) = LogAmount(log)
    BY <1>2, <2>1, <2>2 DEF Signed, LogAmount
  <2>. QED
    BY <1>2, <2>1, <2>2, <2>3 DEF MovesSupply
<1>. QED
  BY <1>1, <1>2 DEF Decoded

\* The logs of a block are decoded events.
LEMMA LogsAreDecoded ==
  ASSUME NEW h \in 1..MaxBlock, NEW i \in DOMAIN BlockContents[h]
  PROVE  /\ \E R : LogsOf(h, i) \in Seq(R)
         /\ \A j \in DOMAIN LogsOf(h, i) : Decoded(LogsOf(h, i)[j])
         /\ Vault \in DOMAIN Content(h, i).params.vaults
BY ChainAssumption, StreamAssumption DEF LogsOf, Content, Range, Decoded

\* The flow rows of the vault are those of its logs, in an order.
LEMMA FlowsDrawLogs ==
  ASSUME NEW h \in 1..MaxBlock, NEW i \in DOMAIN BlockContents[h]
  PROVE  /\ VaultFlows(h, i) \in Seq(RowsOf(h, i))
         /\ \E p : Draws(VaultFlows(h, i), RowOf(h, i), p, OfVault(h, i))
<1>. DEFINE logs == LogsOf(h, i)
            params == Content(h, i).params
            Q == OfVault(h, i)
            curated == {j \in DOMAIN logs : IsCurated(params, logs[j])}
            decoded == Keep(logs, curated)
            all == [k \in DOMAIN decoded |-> FlowRow(decoded[k])]
            mine == {k \in DOMAIN all : all[k].vault = Vault}
            row == RowOf(h, i)
<1>1. PICK R : logs \in Seq(R)
  BY LogsAreDecoded
<1>2. curated \in SUBSET (1..Len(logs)) /\ DOMAIN logs = 1..Len(logs) /\ Len(logs) \in Nat
  BY <1>1
<1>3. PICK p : Draws(decoded, logs, p, curated)
  <2>. HIDE DEF logs, curated
  <2>. QED
    BY <1>1, <1>2, KeepDraws
<1>4. decoded \in Seq(R) /\ DOMAIN decoded = 1..Len(decoded) /\ Len(decoded) \in Nat
  <2>1. decoded \in Seq(R)
    <3>. HIDE DEF logs, curated
    <3>. QED
      BY <1>1, <1>2, KeepDraws
  <2>. HIDE DEF decoded
  <2>. QED
    BY <2>1
<1>. HIDE DEF decoded
<1>5. ASSUME NEW k \in 1..Len(decoded)
      PROVE  /\ p[k] \in curated /\ decoded[k] = logs[p[k]] /\ all[k] = FlowRow(logs[p[k]])
             /\ all[k].vault = logs[p[k]].address
  <2>1. p[k] \in curated /\ decoded[k] = logs[p[k]]
    BY <1>3 DEF Draws
  <2>2. FlowRow(logs[p[k]]).vault = logs[p[k]].address
    BY DEF FlowRow
  <2>. QED
    BY <1>4, <2>1, <2>2
<1>. DEFINE T == {all[k] : k \in DOMAIN all}
<1>0. all \in Seq(T) /\ mine \in SUBSET (1..Len(all))
  BY <1>4
<1>6. PICK q : Draws(Keep(all, mine), all, q, mine)
  <2>. HIDE DEF all, mine, T
  <2>. QED
    BY <1>0, KeepDraws
<1>7. VaultFlows(h, i) = Keep(all, mine)
  BY DEF VaultFlows, FlowsOf, RawRows, BlockBatch, ExtractEvents, LogsOf, Content, all, mine,
         decoded, curated, logs, params
<1>. DEFINE f == Keep(all, mine)
            pq == [k \in 1..Len(f) |-> p[q[k]]]
<1>8. DOMAIN all = 1..Len(decoded)
  BY <1>4
<1>. HIDE DEF f, all
<1>9. ASSUME NEW k \in 1..Len(f)
      PROVE  q[k] \in mine /\ q[k] \in 1..Len(decoded) /\ pq[k] \in Q /\ f[k] = row[pq[k]]
  <2>1. q[k] \in mine /\ f[k] = all[q[k]]
    BY <1>6 DEF Draws, f
  <2>2. q[k] \in 1..Len(decoded) /\ all[q[k]].vault = Vault
    BY <1>8, <2>1
  <2>3. p[q[k]] \in curated /\ all[q[k]] = FlowRow(logs[p[q[k]]]) /\ logs[p[q[k]]].address = Vault
    BY <1>5, <2>2
  <2>. QED
    BY <2>1, <2>2, <2>3 DEF OfVault, RowOf
<1>10. ASSUME NEW k \in 1..Len(f), NEW l \in 1..Len(f), pq[k] = pq[l] PROVE k = l
  <2>1. q[k] \in 1..Len(decoded) /\ q[l] \in 1..Len(decoded) /\ p[q[k]] = p[q[l]]
    BY <1>9, <1>10
  <2>2. q[k] = q[l]
    BY <1>3, <2>1 DEF Draws
  <2>. QED
    BY <1>6, <2>2 DEF Draws, f
<1>11. ASSUME NEW j \in Q PROVE \E k \in 1..Len(f) : pq[k] = j
  <2>1. j \in DOMAIN logs /\ logs[j].address = Vault
    BY DEF OfVault
  <2>2. j \in curated
    BY <2>1, LogsAreDecoded DEF IsCurated
  <2>3. PICK l \in 1..Len(decoded) : p[l] = j
    BY <1>3, <2>2 DEF Draws
  <2>4. l \in mine
    BY <1>5, <1>8, <2>1, <2>3
  <2>5. PICK k \in 1..Len(f) : q[k] = l
    BY <1>6, <2>4 DEF Draws, f
  <2>. QED
    BY <2>3, <2>5
<1>12. Draws(f, row, pq, Q)
  <2>. HIDE DEF Q, row
  <2>1. pq \in [1..Len(f) -> Q]
    BY <1>9
  <2>. HIDE DEF pq
  <2>. QED
    BY <1>9, <1>10, <1>11, <2>1 DEF Draws
<1>13. f \in Seq(RowsOf(h, i))
  <2>1. f \in Seq(T)
    <3>. HIDE DEF mine, T
    <3>. QED
      BY <1>0, KeepDraws DEF f
  <2>2. Len(f) \in Nat /\ f = [k \in 1..Len(f) |-> f[k]]
    BY <2>1
  <2>3. \A k \in 1..Len(f) : f[k] \in RowsOf(h, i)
    BY <1>9 DEF RowsOf, OfVault
  <2>4. \A S : Len(f) \in Nat /\ f \in [1..Len(f) -> S] => f \in Seq(S)
    OBVIOUS
  <2>. QED
    BY <2>2, <2>3, <2>4
<1>. QED
  BY <1>7, <1>12, <1>13 DEF f

\* The flows of the vault in a block sum up to what the block did to its assets, and tell
\* whether it minted or burnt shares.
LEMMA BlockTotals ==
  ASSUME NEW h \in 1..MaxBlock, NEW i \in DOMAIN BlockContents[h]
  PROVE  /\ VaultFlows(h, i) \in Seq(RowsOf(h, i)) /\ Amounted(RowsOf(h, i))
         /\ Total(VaultFlows(h, i))
              = SumFunctionOnSet([j \in DOMAIN LogsOf(h, i) |-> LogAmount(LogsOf(h, i)[j])],
                                 DOMAIN LogsOf(h, i))
         /\ Sided(VaultFlows(h, i)) <=> \E j \in DOMAIN LogsOf(h, i) : MovesSupply(LogsOf(h, i)[j])
<1>. DEFINE logs == LogsOf(h, i)
            f == VaultFlows(h, i)
            Q == OfVault(h, i)
            D == DOMAIN logs
            amounts == [j \in D |-> LogAmount(logs[j])]
            signed == [k \in 1..Len(f) |-> Signed(f[k])]
<1>1. \A j \in D : Decoded(logs[j])
  BY LogsAreDecoded
<1>2. \A j \in D : RowOf(h, i)[j] = FlowRow(logs[j])
  BY DEF RowOf
<1>3. Amounted(RowsOf(h, i))
  BY <1>1, <1>2, RowOfLog DEF RowsOf, Amounted
<1>4. f \in Seq(RowsOf(h, i)) /\ IsFiniteSet(1..Len(f)) /\ DOMAIN f = 1..Len(f)
  BY FlowsDrawLogs, FiniteDomain
<1>5. PICK p : Draws(f, RowOf(h, i), p, Q)
  BY FlowsDrawLogs
<1>6. Q \in SUBSET D /\ IsFiniteSet(D) /\ \A j \in D : j \in Q <=> logs[j].address = Vault
  BY LogsAreDecoded, FiniteDomain DEF OfVault
<1>. HIDE DEF f, D, Q, logs
<1>7. ASSUME NEW k \in 1..Len(f)
      PROVE  /\ p[k] \in Q /\ p[k] \in D /\ f[k] = FlowRow(logs[p[k]])
             /\ Signed(f[k]) = LogAmount(logs[p[k]]) /\ Signed(f[k]) \in Int
             /\ f[k].transferKind \in {"mint", "burn"} <=> MovesSupply(logs[p[k]])
  <2>1. p[k] \in Q /\ p[k] \in D /\ f[k] = FlowRow(logs[p[k]]) /\ logs[p[k]].address = Vault
    BY <1>2, <1>5, <1>6 DEF Draws
  <2>. QED
    BY <1>1, <2>1, RowOfLog, SignedIsInteger
<1>8. {p[k] : k \in 1..Len(f)} = Q
  BY <1>5, <1>7 DEF Draws
<1>9. Renames(p, 1..Len(f), Q)
  BY <1>5, <1>8 DEF Draws, Renames
<1>10. \A k \in 1..Len(f) : signed[k] = amounts[p[k]] /\ signed[k] \in Int
  BY <1>7
<1>11. SumFunctionOnSet(signed, 1..Len(f)) = SumFunctionOnSet(amounts, Q)
  <2>. HIDE DEF signed, amounts
  <2>. QED
    BY <1>4, <1>9, <1>10, SumOfImage
<1>12. \A j \in D : (j \in Q => amounts[j] \in Int) /\ (j \notin Q => amounts[j] = 0)
  <2>1. \A j \in Q : \E k \in 1..Len(f) : p[k] = j
    BY <1>5 DEF Draws
  <2>2. \A j \in Q : amounts[j] \in Int
    BY <1>10, <2>1
  <2>3. ASSUME NEW j \in D, j \notin Q PROVE amounts[j] = 0
    BY <1>6, <2>3 DEF LogAmount
  <2>. QED
    BY <2>2, <2>3
<1>13. SumFunctionOnSet(amounts, D) = SumFunctionOnSet(amounts, Q)
  <2>. HIDE DEF amounts
  <2>. QED
    BY <1>6, <1>12, SumOfPart
<1>14. Total(f) = SumFunctionOnSet(signed, 1..Len(f))
  BY <1>4 DEF Total
<1>15. Sided(f) <=> \E j \in D : MovesSupply(logs[j])
  <2>1. ASSUME NEW j \in D, MovesSupply(logs[j]) PROVE \E k \in 1..Len(f) : p[k] = j
    BY <1>5, <1>6, <2>1 DEF MovesSupply, Draws
  <2>. QED
    BY <1>4, <1>7, <2>1 DEF Sided
<1>. QED
  BY <1>3, <1>4, <1>11, <1>13, <1>14, <1>15 DEF f, D, logs

-----------------------------------------------------------------------------
(* The ledger                                                               *)

\* What the vault answered after a block.
Answer(h, i, method) ==
  LET calls == Content(h, i).block.calls[Vault]
  IN  IF calls = Null THEN Null ELSE calls[method]

\* The snapshot row of the vault in a block that was promoted after g repairs.
RowAt(h, i, g) ==
  LET c == Content(h, i)
      s == SnapshotRow(c.params, Vault, c.block.calls[Vault])
  IN  IF Vault \in PlanSnapshots(c.params, h, ExtractEvents(c.params, c.block))
      THEN [at |-> h, gen |-> g, time |-> BlockTime[h], assets |-> s.assets,
            supply |-> s.supply, units |-> s.units, value |-> s.value,
            schema |-> s.schema, status |-> s.status, errors |-> s.errors]
      ELSE Null

\* A snapshot of a block, which names the calls that gave no answer.
Observation(s) ==
  /\ s # Null
  /\ s.at \in 1..MaxBlock /\ s.gen \in 0..repairs
  /\ s.time = BlockTime[s.at]
  /\ s.assets \in Nat \cup {Null} /\ s.value \in Nat \cup {Null}
  /\ s.assets = Null => Names(s, "assets")
  /\ s.value = Null => Names(s, "value")

\* The snapshot a block is promoted with is the row of the vault.
LEMMA SnapshotIsRow ==
  ASSUME NEW h \in 1..MaxBlock, NEW i \in DOMAIN BlockContents[h]
  PROVE  SnapshotOf(RawRows[h][i], h) = RowAt(h, i, repairs)
<1>. DEFINE c == Content(h, i)
            plan == PlanSnapshots(c.params, h, ExtractEvents(c.params, c.block))
            Row(v) == SnapshotRow(c.params, v, c.block.calls[v])
            taken == {s \in {Row(v) : v \in plan} : s.vault = Vault}
<1>1. RawRows[h][i].snapshots = {Row(v) : v \in plan}
  BY DEF RawRows, BlockBatch, Content
<1>2. \A v : Row(v).vault = v
  BY DEF SnapshotRow
<1>3. taken = IF Vault \in plan THEN {Row(Vault)} ELSE {}
  <2>. HIDE DEF Row, plan
  <2>. QED
    BY <1>2
<1>. HIDE DEF taken, Row
<1>4. CASE Vault \in plan
  <2>1. taken # {} /\ (CHOOSE s \in taken : TRUE) = Row(Vault)
    BY <1>3, <1>4
  <2>. QED
    BY <1>1, <1>4, <2>1 DEF SnapshotOf, RowAt, taken, Row
<1>5. CASE Vault \notin plan
  <2>1. taken = {}
    BY <1>3, <1>5
  <2>. QED
    BY <1>1, <1>5, <2>1 DEF SnapshotOf, RowAt, taken
<1>. QED
  BY <1>4, <1>5

\* The row of the vault is a snapshot of what it answered.
LEMMA RowIsObservation ==
  ASSUME NEW h \in 1..MaxBlock, NEW i \in DOMAIN BlockContents[h], NEW g \in 0..repairs,
         RowAt(h, i, g) # Null
  PROVE  LET s == RowAt(h, i, g)
         IN  /\ Observation(s) /\ s.at = h /\ s.gen = g
             /\ s.assets = Answer(h, i, "assets") /\ s.value = Answer(h, i, "value")
             /\ s.status = "ok" <=> s.errors = {}
<1>. DEFINE c == Content(h, i)
            calls == c.block.calls[Vault]
            answers == IF calls = Null THEN NoAnswers ELSE calls
            graded == CallErrors(c.params, Vault, answers)
            row == SnapshotRow(c.params, Vault, calls)
            s == RowAt(h, i, g)
<1>1. /\ s = [at |-> h, gen |-> g, time |-> BlockTime[h], assets |-> row.assets,
              supply |-> row.supply, units |-> row.units, value |-> row.value,
              schema |-> row.schema, status |-> row.status, errors |-> row.errors]
  BY DEF RowAt
<1>2. /\ row.assets = answers.assets /\ row.value = answers.value
      /\ row.status = CallStatus(graded, answers)
      /\ row.errors = IF calls = Null THEN {<<"*", "batch_failed">>} ELSE graded
  BY DEF SnapshotRow
<1>3. {"assets", "value"} \subseteq Methods
  BY DEF Methods
<1>4. answers.assets = Answer(h, i, "assets") /\ answers.value = Answer(h, i, "value")
  BY <1>3 DEF Answer, NoAnswers
<1>5. answers.assets \in Nat \cup {Null} /\ answers.value \in Nat \cup {Null}
  <2>1. calls # Null => \A m \in Methods : calls[m] \in Nat \cup {Null}
    BY ChainAssumption DEF Content
  <2>. QED
    BY <1>3, <2>1 DEF NoAnswers
<1>6. \A m \in {"assets", "value"} : answers[m] = Null => <<m, "reverted">> \in graded
  BY <1>3 DEF CallErrors, Failed
<1>7. Failed(answers) = Methods => graded # {}
  BY <1>3 DEF CallErrors
<1>8. CallStatus(graded, answers) = "ok" <=> graded = {}
  <2>. HIDE DEF graded, answers
  <2>. QED
    BY <1>7 DEF CallStatus
<1>9. calls = Null => graded # {}
  BY <1>3, <1>6 DEF NoAnswers
<1>. HIDE DEF answers, graded, row, s
<1>10. s.status = "ok" <=> s.errors = {}
  BY <1>1, <1>2, <1>8, <1>9
<1>11. \A m \in {"assets", "value"} : answers[m] = Null => Names(s, m)
  <2>1. ASSUME NEW m \in {"assets", "value"}, answers[m] = Null PROVE Names(s, m)
    <3>1. CASE calls = Null
      <4>. DEFINE e == <<"*", "batch_failed">>
      <4>1. e \in s.errors /\ e[1] = "*"
        BY <1>1, <1>2, <3>1
      <4>. HIDE DEF e
      <4>. QED
        BY <4>1 DEF Names
    <3>2. CASE calls # Null
      <4>. DEFINE e == <<m, "reverted">>
      <4>1. e \in s.errors /\ e[1] = m
        BY <1>1, <1>2, <1>6, <2>1, <3>2
      <4>. HIDE DEF e
      <4>. QED
        BY <4>1 DEF Names
    <3>. QED
      BY <3>1, <3>2
  <2>. QED
    BY <2>1
<1>12. answers.assets = answers["assets"] /\ answers.value = answers["value"]
  OBVIOUS
<1>13. Observation(s)
  BY <1>1, <1>2, <1>5, <1>11, <1>12 DEF Observation, s
<1>. QED
  BY <1>1, <1>2, <1>4, <1>10, <1>13 DEF s

\* A promoted block holds what its release streamed of the block of the chain.
Streams(h, e) ==
  /\ e.gen \in 0..repairs
  /\ e.content \in DOMAIN BlockContents[h]
  /\ e.flows = VaultFlows(h, e.content)
  /\ e.snapshot = RowAt(h, e.content, e.gen)

\* The ledger is what the releases streamed of the blocks.
LedgerInv ==
  /\ \E S : ledger \in Seq(S)
  /\ Len(ledger) \in 0..MaxBlock /\ repairs \in 0..MaxRepairs
  /\ \A h \in 1..Len(ledger) : Streams(h, ledger[h])

\* The block at height h was promoted after g repairs.
Alive(h, g) == h \in 1..Len(ledger) /\ ledger[h].gen = g

\* A snapshot that was read: it is canonical still, or was withdrawn by a repair.
Noted(s) ==
  /\ Observation(s)
  /\ Alive(s.at, s.gen) => ledger[s.at].snapshot = s
  /\ ~Alive(s.at, s.gen) => s.gen < repairs

\* What the ledger's snapshots are.
LEMMA SnapshotsAreKnown ==
  ASSUME LedgerInv
  PROVE  /\ DOMAIN ledger = 1..Len(ledger) /\ Len(ledger) \in Nat
         /\ \A s \in Snapshots : Noted(s) /\ Alive(s.at, s.gen) /\ (s.status = "ok" <=> s.errors = {})
         /\ \A h \in 1..Len(ledger) : ledger[h].snapshot # Null =>
              /\ ledger[h].snapshot \in Snapshots
              /\ ledger[h].snapshot.assets = ChainAnswer(h, "assets")
              /\ ledger[h].snapshot.value = ChainAnswer(h, "value")
<1>1. DOMAIN ledger = 1..Len(ledger) /\ Len(ledger) \in 0..MaxBlock
  BY DEF LedgerInv
<1>2. ASSUME NEW h \in 1..Len(ledger), ledger[h].snapshot # Null
      PROVE  LET s == ledger[h].snapshot
             IN  /\ Observation(s) /\ s.at = h /\ s.gen = ledger[h].gen
                 /\ s.assets = ChainAnswer(h, "assets") /\ s.value = ChainAnswer(h, "value")
                 /\ s.status = "ok" <=> s.errors = {}
  <2>1. h \in 1..MaxBlock
    BY <1>1, FilingAssumption
  <2>2. Streams(h, ledger[h])
    BY DEF LedgerInv
  <2>. DEFINE i == ledger[h].content
              g == ledger[h].gen
  <2>3. i \in DOMAIN BlockContents[h] /\ g \in 0..repairs /\ RowAt(h, i, g) = ledger[h].snapshot
    BY <2>2 DEF Streams
  <2>4. Answer(h, i, "assets") = ChainAnswer(h, "assets") /\ Answer(h, i, "value") = ChainAnswer(h, "value")
    BY DEF Answer, ChainAnswer, ChainBlock, Content
  <2>. HIDE DEF i, g
  <2>5. LET s == RowAt(h, i, g)
        IN  /\ Observation(s) /\ s.at = h /\ s.gen = g
            /\ s.assets = Answer(h, i, "assets") /\ s.value = Answer(h, i, "value")
            /\ s.status = "ok" <=> s.errors = {}
    BY <1>2, <2>1, <2>3, RowIsObservation
  <2>. QED
    BY <2>3, <2>4, <2>5 DEF g
<1>3. ASSUME NEW s \in Snapshots
      PROVE  Noted(s) /\ Alive(s.at, s.gen) /\ (s.status = "ok" <=> s.errors = {})
  <2>1. PICK h \in 1..Len(ledger) : s = ledger[h].snapshot
    BY <1>1 DEF Snapshots
  <2>2. s # Null
    BY DEF Snapshots
  <2>3. /\ Observation(s) /\ s.at = h /\ s.gen = ledger[h].gen
        /\ s.status = "ok" <=> s.errors = {}
    BY <1>2, <2>1, <2>2
  <2>. QED
    BY <2>1, <2>3 DEF Noted, Alive
<1>4. \A h \in 1..Len(ledger) : ledger[h].snapshot # Null => ledger[h].snapshot \in Snapshots
  BY <1>1 DEF Snapshots
<1>. QED
  BY <1>1, <1>2, <1>3, <1>4

\* The flow rows of the ledger.
LedgerRows == UNION {RowsOf(h, ledger[h].content) : h \in 1..Len(ledger)}

\* The flows of a promoted block sum up to what the block of the chain did.
LEMMA LedgerTotals ==
  ASSUME LedgerInv
  PROVE  /\ Amounted(LedgerRows)
         /\ \A h \in 1..Len(ledger) :
              LET flows == ledger[h].flows
              IN  /\ flows \in Seq(LedgerRows)
                  /\ Total(flows) = ChainFlow(h) /\ ChainFlow(h) \in Int
                  /\ Sided(flows) <=> MovesShareSupply(h)
<1>1. ASSUME NEW h \in 1..Len(ledger)
      PROVE  LET flows == ledger[h].flows
                 i == ledger[h].content
             IN  /\ flows \in Seq(RowsOf(h, i)) /\ Amounted(RowsOf(h, i))
                 /\ Total(flows) = ChainFlow(h) /\ (Sided(flows) <=> MovesShareSupply(h))
  <2>. DEFINE i == ledger[h].content
              logs == LogsOf(h, i)
  <2>1. h \in 1..MaxBlock
    BY FilingAssumption DEF LedgerInv
  <2>2. i \in DOMAIN BlockContents[h] /\ ledger[h].flows = VaultFlows(h, i)
    BY DEF LedgerInv, Streams
  <2>3. ChainBlock(h).logs = logs
    BY DEF ChainBlock, LogsOf, Content
  <2>4. ChainFlow(h) = SumFunctionOnSet([j \in DOMAIN logs |-> LogAmount(logs[j])], DOMAIN logs)
    BY <2>3 DEF ChainFlow, SumFunction, LogAmount
  <2>5. MovesShareSupply(h) <=> \E j \in DOMAIN logs : MovesSupply(logs[j])
    BY <2>3 DEF MovesShareSupply, MovesSupply
  <2>. HIDE DEF i
  <2>. QED
    BY <2>1, <2>2, <2>4, <2>5, BlockTotals DEF i
<1>2. Amounted(LedgerRows)
  BY <1>1 DEF Amounted, LedgerRows
<1>3. ASSUME NEW h \in 1..Len(ledger)
      PROVE  ledger[h].flows \in Seq(LedgerRows) /\ Total(ledger[h].flows) \in Int
  <2>. DEFINE flows == ledger[h].flows
              S == RowsOf(h, ledger[h].content)
              signed == [k \in DOMAIN flows |-> Signed(flows[k])]
  <2>1. flows \in Seq(S) /\ S \subseteq LedgerRows /\ Amounted(S)
    BY <1>1 DEF LedgerRows
  <2>. HIDE DEF flows, S
  <2>2. flows \in Seq(LedgerRows) /\ \A k \in DOMAIN flows : flows[k] \in S
    BY <2>1
  <2>3. \A k \in DOMAIN flows : signed[k] \in Int
    BY <2>1, <2>2, SignedIsInteger DEF Amounted
  <2>4. IsFiniteSet(DOMAIN flows)
    BY <2>1, FiniteDomain
  <2>5. SumFunctionOnSet(signed, DOMAIN flows) \in Int
    <3>. HIDE DEF signed
    <3>. QED
      BY <2>3, <2>4, SumIsInteger
  <2>. QED
    BY <2>2, <2>5 DEF Total, flows
<1>. QED
  BY <1>1, <1>2, <1>3

\* The readings of some blocks, and then of the next one.
Joins(n, z) == {f \o g : f \in z, g \in Orders(ledger[n].flows)}

\* u[n] is what the first n blocks of the ledger read.
ReadsUpTo(u, blocks) ==
  /\ u \in [0..Len(ledger) -> SUBSET Seq(LedgerRows)]
  /\ u[0] = {<<>>} /\ Readings(blocks) = u[Len(ledger)]
  /\ \A n \in 1..Len(ledger) :
       u[n] = IF n \in blocks THEN Joins(n, u[n - 1]) ELSE u[n - 1]

\* The readings of a window recur over the heights of the ledger.
LEMMA ReadingsRecur ==
  ASSUME LedgerInv, NEW blocks \in SUBSET (1..Len(ledger))
  PROVE  \E u : ReadsUpTo(u, blocks)
<1>. DEFINE N == Len(ledger)
            R == LedgerRows
            V == SUBSET Seq(R)
            step == [x \in (1..N) \X V |-> IF x[1] \in blocks THEN Joins(x[1], x[2]) ELSE x[2]]
            none == {<<>>}
            Unrolled(u, n) == CASE n = 0 -> none
                             [] n \in blocks -> Joins(n, u[n - 1])
                             [] OTHER -> u[n - 1]
            Recurs(u) == u = [n \in 0..Len(ledger) |-> Unrolled(u, n)]
<1>1. N \in Nat /\ none \in V
  BY SnapshotsAreKnown
<1>2. ASSUME NEW n \in 1..N, NEW z \in V PROVE Joins(n, z) \in V
  <2>1. ASSUME NEW f \in z, NEW g \in Orders(ledger[n].flows) PROVE f \o g \in Seq(R)
    <3>1. ledger[n].flows \in Seq(R) /\ Amounted(R)
      BY LedgerTotals
    <3>2. g \in Seq(R) /\ f \in Seq(R)
      <4>. HIDE DEF R
      <4>. QED
        BY <3>1, OrdersAgree
    <3>. QED
      BY <3>2
  <2>2. ASSUME NEW x \in Joins(n, z) PROVE x \in Seq(R)
    <3>1. PICK f \in z, g \in Orders(ledger[n].flows) : x = f \o g
      BY DEF Joins
    <3>. HIDE DEF R
    <3>. QED
      BY <2>1, <3>1
  <2>. HIDE DEF R
  <2>. QED
    BY <2>2
<1>3. step \in [(1..N) \X V -> V]
  <2>. HIDE DEF V, N
  <2>. QED
    BY <1>2
<1>4. PICK u : Unrolls(u, N, V, none, step)
  <2>. HIDE DEF N, V, step, none
  <2>. QED
    BY <1>1, <1>3, PrefixRecursion
<1>5. ASSUME NEW v, NEW n \in 0..N
      PROVE  Unrolled(v, n) = IF n = 0 THEN none ELSE IF n \in blocks THEN Joins(n, v[n - 1]) ELSE v[n - 1]
  <2>. HIDE DEF none
  <2>. QED
    OBVIOUS
<1>6. Recurs(u)
  <2>1. ASSUME NEW n \in 0..N PROVE u[n] = Unrolled(u, n)
    <3>1. u[n] = IF n = 0 THEN none ELSE step[<<n, u[n - 1]>>]
      <4>. HIDE DEF step, Unrolled, none, N, V
      <4>. QED
        BY <1>4 DEF Unrolls
    <3>2. CASE n = 0
      <4>. HIDE DEF step, Unrolled, none, N
      <4>. QED
        BY <1>5, <3>1, <3>2
    <3>3. CASE n # 0
      <4>1. n \in 1..N /\ n - 1 \in 0..N
        BY <1>1, <3>3
      <4>2. u[n - 1] \in V
        BY <1>4, <4>1 DEF Unrolls
      <4>. HIDE DEF V
      <4>3. step[<<n, u[n - 1]>>] = IF n \in blocks THEN Joins(n, u[n - 1]) ELSE u[n - 1]
        BY <4>1, <4>2
      <4>. HIDE DEF step, Unrolled
      <4>. QED
        BY <1>5, <3>1, <3>3, <4>3
    <3>. QED
      BY <3>2, <3>3
  <2>2. u = [n \in 0..N |-> u[n]]
    BY <1>4 DEF Unrolls
  <2>. HIDE DEF Unrolled
  <2>. QED
    BY <2>1, <2>2
<1>. DEFINE w == CHOOSE v : Recurs(v)
<1>7. Recurs(w)
  <2>. HIDE DEF Recurs
  <2>. QED
    BY <1>6
<1>8. Readings(blocks) = w[N]
  BY DEF Readings, Joins
<1>9. \A n \in 0..N : w[n] = IF n = 0 THEN none ELSE IF n \in blocks THEN Joins(n, w[n - 1]) ELSE w[n - 1]
  <2>1. \A n \in 0..N : w[n] = Unrolled(w, n)
    <3>. HIDE DEF Unrolled, w
    <3>. QED
      BY <1>7
  <2>. HIDE DEF Unrolled, w
  <2>. QED
    BY <1>5, <2>1
<1>10. \A n \in 0..N : w[n] \in V
  <2>. DEFINE bad == {n \in 0..N : w[n] \notin V}
  <2>1. 0 \notin bad
    <3>. HIDE DEF w, none, V
    <3>. QED
      BY <1>1, <1>9
  <2>2. \A n \in 1..N : n \in bad => n - 1 \in bad
    <3>1. ASSUME NEW n \in 1..N, w[n - 1] \in V PROVE w[n] \in V
      <4>. HIDE DEF w, V
      <4>1. n \in 0..N /\ n # 0 /\ Joins(n, w[n - 1]) \in V
        BY <1>1, <1>2, <3>1
      <4>. QED
        BY <1>9, <3>1, <4>1
    <3>2. \A n \in 1..N : n \in 0..N /\ n - 1 \in 0..N
      BY <1>1
    <3>. HIDE DEF w, V
    <3>. QED
      BY <3>1, <3>2
  <2>3. bad \in SUBSET (0..N)
    OBVIOUS
  <2>4. bad = {}
    <3>. HIDE DEF bad, N
    <3>. QED
      BY <1>1, <2>1, <2>2, <2>3, LeastBad
  <2>. HIDE DEF w, V
  <2>. QED
    BY <2>4
<1>11. w \in [0..N -> V]
  <2>. HIDE DEF w, V, Unrolled
  <2>1. w = [n \in 0..N |-> Unrolled(w, n)]
    BY <1>7
  <2>. QED
    BY <1>10, <2>1
<1>. HIDE DEF w
<1>12. \A n \in 1..N : n \in 0..N /\ n # 0
  BY <1>1
<1>13. w[0] = none
  <2>. HIDE DEF none
  <2>. QED
    BY <1>1, <1>9
<1>14. \A n \in 1..N : w[n] = IF n \in blocks THEN Joins(n, w[n - 1]) ELSE w[n - 1]
  <2>. HIDE DEF none
  <2>. QED
    BY <1>9, <1>12
<1>. QED
  BY <1>8, <1>11, <1>13, <1>14 DEF ReadsUpTo, none

\* Some flows sum up to what the blocks above a and up to b did, and tell whether shares
\* were minted or burnt there.
Covers(a, b, flows) ==
  /\ NetFlow(flows) = SumFunction([h \in (a + 1)..b |-> ChainFlow(h)])
  /\ Sided(flows) <=> \E h \in (a + 1)..b : MovesShareSupply(h)

\* Whatever order the rows of a block come in, the flows that are read between two snapshots
\* are those of every block between them.
LEMMA WindowIsCovered ==
  ASSUME LedgerInv, NEW start, NEW end, start # Null, start.at \in Nat,
         end.at \in 1..Len(ledger), start.at < end.at,
         NEW flows \in Readings(FlowBlocks(start, end))
  PROVE  Covers(start.at, end.at, flows)
<1>. DEFINE N == Len(ledger)
            R == LedgerRows
            a == start.at
            b == end.at
            blocks == FlowBlocks(start, end)
            window == (a + 1)..b
            W(n) == window \cap (1..n)
            C == [h \in 1..N |-> ChainFlow(h)]
            Right(f, n) == /\ f \in Seq(R)
                           /\ Total(f) = SumFunctionOnSet(C, W(n))
                           /\ Sided(f) <=> \E h \in W(n) : MovesShareSupply(h)
<1>1. N \in Nat /\ DOMAIN ledger = 1..N /\ a \in Nat /\ b \in 1..N /\ a < b
  BY SnapshotsAreKnown
<1>2. blocks = {h \in window : ledger[h].flows # <<>>} /\ window \subseteq 1..N
  <2>. HIDE DEF N
  <2>. QED
    BY <1>1 DEF FlowBlocks
<1>3. PICK u : ReadsUpTo(u, blocks)
  <2>1. blocks \in SUBSET (1..Len(ledger))
    BY <1>2
  <2>. HIDE DEF blocks
  <2>. QED
    BY <2>1, ReadingsRecur
<1>4. ASSUME NEW h \in 1..N
      PROVE  /\ ledger[h].flows \in Seq(R) /\ Total(ledger[h].flows) = C[h] /\ C[h] \in Int
             /\ Sided(ledger[h].flows) <=> MovesShareSupply(h)
  BY LedgerTotals
<1>5. Amounted(R)
  BY LedgerTotals
<1>6. \A n \in 0..N : IsFiniteSet(W(n)) /\ W(n) \subseteq 1..N
  <2>1. IsFiniteSet(window)
    <3>1. a + 1 \in Int /\ b \in Int
      BY <1>1
    <3>. HIDE DEF a, b
    <3>. QED
      BY <3>1, FS_Interval
  <2>. HIDE DEF window, N
  <2>. QED
    BY <1>2, <2>1, FS_Subset
<1>7. Total(<<>>) = 0 /\ ~Sided(<<>>)
  BY SumOfNone DEF Total, Sided
<1>. DEFINE bad == {n \in 0..N : ~\A f \in u[n] : Right(f, n)}
<1>. HIDE DEF R, C, blocks, window, N
<1>8. 0 \notin bad
  <2>1. u[0] = {<<>>}
    BY <1>3 DEF ReadsUpTo
  <2>2. W(0) = {}
    OBVIOUS
  <2>3. <<>> \in Seq(R)
    OBVIOUS
  <2>4. SumFunctionOnSet(C, W(0)) = 0
    <3>. HIDE DEF W
    <3>. QED
      BY <2>2, SumOfNone
  <2>5. Right(<<>>, 0)
    BY <1>7, <2>2, <2>3, <2>4
  <2>. QED
    BY <2>1, <2>5
<1>9. ASSUME NEW n \in 1..N, n - 1 \notin bad PROVE n \notin bad
  <2>1. n \in 0..N /\ n - 1 \in 0..N /\ n \in Nat
    BY <1>1
  <2>2. \A f \in u[n - 1] : Right(f, n - 1)
    BY <1>9, <2>1
  <2>3. u[n] = IF n \in blocks THEN Joins(n, u[n - 1]) ELSE u[n - 1]
    BY <1>3 DEF ReadsUpTo, N
  <2>4. CASE n \notin window
    <3>1. W(n) = W(n - 1)
      BY <2>1, <2>4
    <3>2. u[n] = u[n - 1]
      BY <1>2, <2>3, <2>4
    <3>. QED
      BY <2>2, <3>1, <3>2
  <2>5. CASE n \in window
    <3>1. W(n) \ {n} = W(n - 1) /\ n \in W(n)
      BY <2>1, <2>5
    <3>2. SumFunctionOnSet(C, W(n)) = C[n] + SumFunctionOnSet(C, W(n - 1))
      <4>1. \A h \in W(n) : C[h] \in Int
        BY <1>4, <1>6, <2>1
      <4>2. IsFiniteSet(W(n))
        BY <1>6, <2>1
      <4>. HIDE DEF W
      <4>3. SumFunctionOnSet(C, W(n)) = C[n] + SumFunctionOnSet(C, W(n) \ {n})
        BY <3>1, <4>1, <4>2, SumRemove
      <4>. QED
        BY <3>1, <4>3
    <3>3. SumFunctionOnSet(C, W(n - 1)) \in Int
      <4>1. \A h \in W(n - 1) : C[h] \in Int
        BY <1>4, <1>6, <2>1
      <4>2. IsFiniteSet(W(n - 1))
        BY <1>6, <2>1
      <4>. HIDE DEF W
      <4>. QED
        BY <4>1, <4>2, SumIsInteger
    <3>4. (\E h \in W(n) : MovesShareSupply(h))
            <=> MovesShareSupply(n) \/ \E h \in W(n - 1) : MovesShareSupply(h)
      <4>. HIDE DEF W
      <4>. QED
        BY <3>1
    <3>. HIDE DEF W
    <3>5. CASE n \in blocks
      <4>1. ASSUME NEW f \in u[n - 1], NEW g \in Orders(ledger[n].flows) PROVE Right(f \o g, n)
        <5>1. Right(f, n - 1)
          BY <2>2
        <5>2. g \in Seq(R) /\ Total(g) = C[n] /\ (Sided(g) <=> MovesShareSupply(n))
          BY <1>4, <1>5, OrdersAgree
        <5>3. /\ f \o g \in Seq(R) /\ Total(f \o g) = Total(f) + Total(g)
              /\ Sided(f \o g) <=> Sided(f) \/ Sided(g)
          BY <1>5, <5>1, <5>2, TotalsAdd
        <5>4. Total(f \o g) = SumFunctionOnSet(C, W(n))
          BY <1>4, <3>2, <3>3, <5>1, <5>2, <5>3
        <5>. QED
          BY <3>4, <5>1, <5>2, <5>3, <5>4
      <4>2. ASSUME NEW x \in u[n] PROVE Right(x, n)
        <5>1. PICK f \in u[n - 1], g \in Orders(ledger[n].flows) : x = f \o g
          BY <2>3, <3>5 DEF Joins
        <5>. HIDE DEF Right
        <5>. QED
          BY <4>1, <5>1
      <4>. QED
        BY <4>2
    <3>6. CASE n \notin blocks
      <4>1. ledger[n].flows = <<>> /\ u[n] = u[n - 1]
        BY <1>2, <2>3, <2>5, <3>6
      <4>2. C[n] = 0 /\ ~MovesShareSupply(n)
        BY <1>4, <1>7, <4>1
      <4>. QED
        BY <2>2, <3>2, <3>3, <3>4, <4>1, <4>2
    <3>. QED
      BY <3>5, <3>6
  <2>. QED
    BY <2>4, <2>5
<1>10. bad = {}
  <2>1. bad \in SUBSET (0..N)
    OBVIOUS
  <2>. HIDE DEF bad
  <2>. QED
    BY <1>1, <1>8, <1>9, <2>1, LeastBad
<1>11. Right(flows, N)
  <2>1. flows \in u[N]
    BY <1>3 DEF ReadsUpTo, N, blocks
  <2>2. N \in 0..N
    BY <1>1
  <2>. HIDE DEF Right
  <2>. QED
    BY <1>10, <2>1, <2>2
<1>12. W(N) = window
  BY <1>2
<1>13. NetFlow(flows) = Total(flows)
  <2>1. flows \in Seq(R) /\ \A k \in DOMAIN flows : flows[k] \in R
    BY <1>11
  <2>2. IsFiniteSet(DOMAIN flows)
    BY <2>1, FiniteDomain
  <2>3. \A k \in DOMAIN flows : flows[k].assets \in Int \cup {Null}
    BY <1>5, <2>1 DEF Amounted
  <2>. QED
    BY <2>2, <2>3, NetFlowIsSigned DEF Total
<1>14. SumFunction([h \in window |-> ChainFlow(h)]) = SumFunctionOnSet(C, window)
  <2>. DEFINE c == [h \in window |-> ChainFlow(h)]
  <2>1. \A h \in window : c[h] = C[h]
    BY <1>2 DEF C
  <2>2. IsFiniteSet(window) /\ DOMAIN c = window
    BY <1>6, <1>1, <1>12
  <2>. HIDE DEF c
  <2>3. SumFunctionOnSet(c, window) = SumFunctionOnSet(C, window)
    BY <2>1, <2>2, SumCongruent
  <2>4. SumFunction(c) = SumFunctionOnSet(c, window)
    BY <2>2 DEF SumFunction
  <2>. QED
    BY <2>3, <2>4 DEF c
<1>. QED
  BY <1>11, <1>12, <1>13, <1>14 DEF Covers, window

\* Of some snapshots one is the newest and one the oldest, since no two share a height.
LEMMA Extremes ==
  ASSUME LedgerInv, NEW T \in SUBSET Snapshots, T # {}
  PROVE  /\ Newest(T) \in T /\ \A t \in T : t.at <= Newest(T).at
         /\ Oldest(T) \in T /\ \A t \in T : Oldest(T).at <= t.at
<1>1. \A s \in T : s.at \in 1..MaxBlock
  BY SnapshotsAreKnown DEF Noted, Observation
<1>2. \E s \in T : \A t \in T : s.at <= t.at
  <2>. DEFINE heights == {s.at : s \in T}
  <2>1. heights \in SUBSET Nat /\ heights # {}
    BY <1>1
  <2>2. PICK x \in heights : \A y \in heights : x <= y
    <3>. HIDE DEF heights
    <3>. QED
      BY <2>1, LeastOf
  <2>. QED
    BY <2>2
<1>3. \E s \in T : \A t \in T : t.at <= s.at
  <2>. DEFINE depths == {MaxBlock - s.at : s \in T}
  <2>1. depths \in SUBSET Nat /\ depths # {}
    BY <1>1, FilingAssumption
  <2>2. PICK x \in depths : \A y \in depths : x <= y
    <3>. HIDE DEF depths
    <3>. QED
      BY <2>1, LeastOf
  <2>3. PICK s \in T : x = MaxBlock - s.at
    OBVIOUS
  <2>4. \A t \in T : MaxBlock - s.at <= MaxBlock - t.at
    BY <2>2, <2>3
  <2>5. ASSUME NEW t \in T PROVE t.at <= s.at
    <3>1. t.at \in 1..MaxBlock /\ s.at \in 1..MaxBlock /\ MaxBlock - s.at <= MaxBlock - t.at
      BY <1>1, <2>4
    <3>. QED
      BY <3>1, FilingAssumption
  <2>. QED
    BY <2>5
<1>. QED
  BY <1>2, <1>3 DEF Newest, Oldest

-----------------------------------------------------------------------------
(* What is known of a window                                                *)

\* Where a request may stand, where it holds a window, and what a report may cite.
Places == {"new", "end", "start", "flows", "evaluate", "policy", "version", "report",
           "commit"} \cup Over
Reading == {"start", "flows", "evaluate"}
Cited == (1..MaxBlock) \X (0..MaxRepairs)

\* The block of a snapshot is canonical still.
Stays(s) == Alive(s.at, s.gen)

\* A document says of its window where the figures come from and what limits them.
Tells(id, document) ==
  /\ id.start.at \in 1..MaxBlock /\ id.end.at \in 1..MaxBlock /\ id.start.at < id.end.at
  /\ document.provenance = {<<id.start.at, id.start.gen>>, <<id.end.at, id.end.gen>>}
  /\ "distant" \in document.limitations <=> HalfADayOff(id.start.at, id.end.at, id.days)
  /\ "share_side" \in document.limitations <=> Sided(id.flows)

\* As long as the end of a window is canonical, so is what the window was read from.
Stands(id) ==
  /\ id.end.gen \in 0..repairs
  /\ ~Stays(id.end) => id.end.gen < repairs
  /\ Stays(id.end) =>
       /\ Stays(id.start)
       /\ \A s \in {id.start, id.end} :
            ledger[s.at].snapshot # Null /\ s = SerialiseSnapshot(ledger[s.at].snapshot)
       /\ Covers(id.start.at, id.end.at, id.flows)

\* What is true of a report from when it is assembled.
Filed(id, document, cites) ==
  /\ Tells(id, document)
  /\ Stands(id)
  /\ <<id.end.at, id.end.gen>> \in cites

\* What a request knows of the window it reads.
Window(place, q) ==
  /\ place \in Reading => Noted(q.end)
  /\ place = "start" => q.end.at <= q.asOf
  /\ place \in {"flows", "evaluate"} /\ q.start # Null =>
       /\ Noted(q.start) /\ q.start.at < q.end.at
       /\ Stays(q.end) => Stays(q.start)
  /\ place = "evaluate" /\ q.start # Null /\ Stays(q.end) =>
       Covers(q.start.at, q.end.at, q.flows)

\* What a request carries, whatever the tables are.
Holds(place, q) ==
  /\ place \in Places
  /\ q.asOf \in 0..MaxBlock
  /\ q.cites \subseteq Cited
  /\ q.newRow \in BOOLEAN /\ q.newVersion \in BOOLEAN /\ q.created \in BOOLEAN
  /\ place \notin {"new", "ended"} => q.policy \in Policies
  /\ place \in Reading \cup {"end"} => q.days \in WindowDays

\* What a request knows of the report it assembles or inserts.
Assembles(place, q) ==
  /\ place \in Judging \/ q.created => Filed(q.id, q.document, q.cites)
  /\ q.created => place = "commit" /\ CitesCanonical(q.cites)

\* What is true of a stored report.
Keeps(report) ==
  /\ report.document.policy \in Policies
  /\ report.canonical \in BOOLEAN
  /\ report.cites \subseteq Cited
  /\ Filed(report.id, report.document, report.cites)
  /\ report.canonical => CitesCanonical(report.cites)

\* The invariant.
WindowInv ==
  /\ LedgerInv
  /\ rows \subseteq {PolicyRow[p] : p \in Policies \cup Known}
  /\ \A v \in versions : v.policy \in Policies \cup Known
  /\ \A report \in reports : Keeps(report)
  /\ \A r \in Requests : /\ Holds(pc[r], req[r]) /\ Window(pc[r], req[r])
                         /\ Assembles(pc[r], req[r])

\* The block at height h, which is of the repairs so far or was withdrawn, is canonical
\* after a step of the worker only if every block up to it stays.
LEMMA WorkerStep ==
  ASSUME LedgerInv, PromoteBlock \/ Repair,
         NEW h \in 1..MaxBlock, NEW g \in 0..repairs, ~Alive(h, g) => g < repairs
  PROVE  /\ g \in 0..repairs' /\ (~Alive(h, g)' => g < repairs')
         /\ Alive(h, g)' =>
              /\ Alive(h, g)
              /\ \A k \in 1..h : k \in 1..Len(ledger) /\ k \in 1..Len(ledger') /\ ledger'[k] = ledger[k]
<1>. DEFINE N == Len(ledger)
<1>1. PICK S : ledger \in Seq(S)
  BY DEF LedgerInv
<1>2. N \in Nat /\ repairs \in Nat /\ MaxBlock \in Nat
  BY FilingAssumption DEF LedgerInv
<1>3. CASE PromoteBlock
  <2>1. PICK e : ledger' = Append(ledger, e) /\ e.gen = repairs
    BY <1>3 DEF PromoteBlock
  <2>2. repairs' = repairs
    BY <1>3 DEF PromoteBlock
  <2>3. Len(ledger') = N + 1 /\ ledger'[N + 1] = e /\ \A k \in 1..N : ledger'[k] = ledger[k]
    BY <1>1, <2>1
  <2>4. ASSUME Alive(h, g)' PROVE Alive(h, g)
    <3>1. h \in 1..(N + 1) /\ ledger'[h].gen = g
      BY <2>3, <2>4 DEF Alive
    <3>2. h = N + 1 => g = repairs /\ ~Alive(h, g)
      BY <1>2, <2>1, <2>3, <3>1 DEF Alive
    <3>3. h \in 1..N
      BY <1>2, <3>1, <3>2
    <3>. QED
      BY <2>3, <3>1, <3>3 DEF Alive
  <2>5. Alive(h, g) => h \in 1..N /\ Alive(h, g)'
    BY <1>2, <2>3 DEF Alive
  <2>. QED
    BY <1>2, <2>2, <2>3, <2>4, <2>5
<1>4. CASE Repair
  <2>1. PICK n \in 0..(N - 1) : ledger' = SubSeq(ledger, 1, n)
    BY <1>4 DEF Repair
  <2>2. repairs' = repairs + 1
    BY <1>4 DEF Repair
  <2>3. Len(ledger') = n /\ \A k \in 1..n : ledger'[k] = ledger[k] /\ k \in 1..N
    BY <1>1, <1>2, <2>1
  <2>4. ASSUME Alive(h, g)'
        PROVE  Alive(h, g) /\ \A k \in 1..h : k \in 1..n
    BY <1>2, <2>3, <2>4 DEF Alive
  <2>. QED
    BY <1>2, <2>2, <2>3, <2>4
<1>. QED
  BY <1>3, <1>4

\* Where the blocks stay, what the chain did in them does.
LEMMA CoverStays ==
  ASSUME NEW a \in Nat, NEW b \in Nat, NEW flows, \A k \in 1..b : ledger'[k] = ledger[k]
  PROVE  Covers(a, b, flows)' <=> Covers(a, b, flows)
<1>1. \A k \in (a + 1)..b : k \in 1..b
  OBVIOUS
<1>2. ASSUME NEW k \in (a + 1)..b
      PROVE  ChainBlock(k)' = ChainBlock(k)
  BY <1>1 DEF ChainBlock
<1>3. \A k \in (a + 1)..b : ChainFlow(k)' = ChainFlow(k)
  BY <1>2 DEF ChainFlow
<1>4. \A k \in (a + 1)..b : MovesShareSupply(k)' <=> MovesShareSupply(k)
  BY <1>2 DEF MovesShareSupply
<1>5. [h \in (a + 1)..b |-> ChainFlow(h)]' = [h \in (a + 1)..b |-> ChainFlow(h)]
  BY <1>3
<1>. QED
  BY <1>4, <1>5 DEF Covers

\* A snapshot that was read stays so.
LEMMA NotedStays ==
  ASSUME LedgerInv, PromoteBlock \/ Repair, NEW s, Noted(s)
  PROVE  Noted(s)' /\ (Stays(s)' => Stays(s))
<1>1. s.at \in 1..MaxBlock /\ s.gen \in 0..repairs /\ (~Alive(s.at, s.gen) => s.gen < repairs)
  BY DEF Noted, Observation
<1>2. /\ s.gen \in 0..repairs' /\ (~Alive(s.at, s.gen)' => s.gen < repairs')
      /\ Alive(s.at, s.gen)' =>
           /\ Alive(s.at, s.gen)
           /\ \A k \in 1..s.at : /\ k \in 1..Len(ledger) /\ k \in 1..Len(ledger')
                                 /\ ledger'[k] = ledger[k]
  BY <1>1, WorkerStep
<1>3. s.at \in 1..s.at
  BY <1>1, FilingAssumption
<1>4. Observation(s)'
  BY <1>2 DEF Noted, Observation, Names
<1>5. Alive(s.at, s.gen)' => (ledger[s.at].snapshot = s)'
  BY <1>2, <1>3 DEF Noted
<1>. QED
  BY <1>2, <1>4, <1>5 DEF Noted, Stays

\* What a window was read from stays as long as its end does.
LEMMA StandsStays ==
  ASSUME LedgerInv, PromoteBlock \/ Repair, NEW id, Stands(id),
         id.start.at \in 1..MaxBlock, id.end.at \in 1..MaxBlock, id.start.at < id.end.at
  PROVE  Stands(id)'
<1>. DEFINE a == id.start.at
            b == id.end.at
            g == id.end.gen
<1>1. g \in 0..repairs /\ (~Alive(b, g) => g < repairs)
  BY DEF Stands, Stays
<1>2. /\ g \in 0..repairs' /\ (~Alive(b, g)' => g < repairs')
      /\ Alive(b, g)' =>
           /\ Alive(b, g)
           /\ \A k \in 1..b : k \in 1..Len(ledger) /\ k \in 1..Len(ledger') /\ ledger'[k] = ledger[k]
  <2>. HIDE DEF b, g
  <2>1. b \in 1..MaxBlock
    BY DEF b
  <2>. QED
    BY <1>1, <2>1, WorkerStep
<1>3. a \in 1..b /\ b \in 1..b /\ a \in Nat /\ b \in Nat
  BY FilingAssumption
<1>4. ASSUME Stays(id.end)'
      PROVE  /\ Stays(id.start)'
             /\ \A s \in {id.start, id.end} :
                  (ledger[s.at].snapshot # Null /\ s = SerialiseSnapshot(ledger[s.at].snapshot))'
             /\ Covers(a, b, id.flows)'
  <2>1. Stays(id.end) /\ \A k \in 1..b : k \in 1..Len(ledger') /\ ledger'[k] = ledger[k]
    BY <1>2, <1>4 DEF Stays
  <2>2. /\ Stays(id.start)
        /\ \A s \in {id.start, id.end} :
             ledger[s.at].snapshot # Null /\ s = SerialiseSnapshot(ledger[s.at].snapshot)
        /\ Covers(a, b, id.flows)
    BY <2>1 DEF Stands
  <2>3. Stays(id.start)'
    BY <1>3, <2>1, <2>2 DEF Stays, Alive
  <2>4. Covers(a, b, id.flows)'
    <3>. HIDE DEF a, b
    <3>. QED
      BY <1>3, <2>1, <2>2, CoverStays
  <2>5. \A s \in {id.start, id.end} : ledger'[s.at] = ledger[s.at]
    BY <1>3, <2>1
  <2>6. \A s \in {id.start, id.end} :
          (ledger[s.at].snapshot # Null /\ s = SerialiseSnapshot(ledger[s.at].snapshot))'
    BY <2>2, <2>5 DEF SerialiseSnapshot
  <2>. QED
    BY <2>3, <2>4, <2>6
<1>. QED
  BY <1>2, <1>4 DEF Stands, Stays

\* What a request knows of its window, the worker does not take away.
LEMMA WindowStays ==
  ASSUME LedgerInv, PromoteBlock \/ Repair, NEW place, NEW q, Window(place, q)
  PROVE  Window(place, q)'
<1>1. ASSUME place \in Reading
      PROVE  Noted(q.end) /\ Noted(q.end)' /\ (Stays(q.end)' => Stays(q.end))
  BY <1>1, NotedStays DEF Window
<1>2. ASSUME place \in {"flows", "evaluate"}, q.start # Null
      PROVE  /\ Noted(q.start) /\ Noted(q.start)' /\ q.start.at < q.end.at
             /\ Stays(q.end)' => Stays(q.start)'
  <2>1. Noted(q.start) /\ q.start.at < q.end.at /\ Noted(q.end) /\ (Stays(q.end) => Stays(q.start))
    BY <1>2 DEF Window, Reading
  <2>2. Noted(q.start)'
    BY <2>1, NotedStays
  <2>3. ASSUME Stays(q.end)' PROVE Stays(q.start)'
    <3>. DEFINE b == q.end.at
                g == q.end.gen
    <3>1. b \in 1..MaxBlock /\ g \in 0..repairs /\ (~Alive(b, g) => g < repairs)
      BY <2>1 DEF Noted, Observation
    <3>2. Stays(q.start)
      BY <1>1, <1>2, <2>1, <2>3 DEF Reading
    <3>3. \A k \in 1..b : k \in 1..Len(ledger') /\ ledger'[k] = ledger[k]
      <4>1. Alive(b, g)'
        BY <2>3 DEF Stays
      <4>. HIDE DEF b, g
      <4>. QED
        BY <3>1, <4>1, WorkerStep
    <3>4. q.start.at \in 1..b
      BY <2>1, <3>1, FilingAssumption DEF Noted, Observation
    <3>. QED
      BY <3>2, <3>3, <3>4 DEF Stays, Alive
  <2>. QED
    BY <2>1, <2>2, <2>3
<1>3. ASSUME place = "evaluate", q.start # Null, Stays(q.end)'
      PROVE  Covers(q.start.at, q.end.at, q.flows)'
  <2>. DEFINE b == q.end.at
              g == q.end.gen
              a == q.start.at
  <2>1. Noted(q.end) /\ Noted(q.start)
    BY <1>1, <1>2, <1>3 DEF Reading
  <2>2. b \in 1..MaxBlock /\ g \in 0..repairs /\ (~Alive(b, g) => g < repairs) /\ a \in Nat /\ b \in Nat
    BY <2>1, FilingAssumption DEF Noted, Observation
  <2>3. Covers(a, b, q.flows)
    BY <1>1, <1>3 DEF Window, Reading
  <2>4. Alive(b, g)'
    BY <1>3 DEF Stays
  <2>. HIDE DEF a, b, g
  <2>5. \A k \in 1..b : ledger'[k] = ledger[k]
    BY <2>2, <2>4, WorkerStep
  <2>6. Covers(a, b, q.flows)'
    BY <2>2, <2>3, <2>5, CoverStays
  <2>. QED
    BY <2>6 DEF a, b
<1>. QED
  BY <1>1, <1>2, <1>3 DEF Window

\* The worker keeps the ledger what the releases streamed.
LEMMA LedgerInvStep ==
  ASSUME LedgerInv, PromoteBlock \/ Repair
  PROVE  LedgerInv'
<1>. DEFINE N == Len(ledger)
<1>1. PICK S : ledger \in Seq(S)
  BY DEF LedgerInv
<1>2. N \in 0..MaxBlock /\ repairs \in Nat /\ MaxBlock \in Nat /\ MaxRepairs \in Nat
  BY FilingAssumption DEF LedgerInv
<1>3. \A h \in 1..N : Streams(h, ledger[h])
  BY DEF LedgerInv
<1>4. CASE PromoteBlock
  <2>. DEFINE h == N + 1
  <2>1. N < MaxBlock /\ repairs' = repairs
    BY <1>4 DEF PromoteBlock
  <2>2. PICK i \in DOMAIN BlockContents[h] :
          ledger' = Append(ledger, [gen |-> repairs, content |-> i,
                                    flows |-> FlowsOf(RawRows[h][i]),
                                    snapshot |-> SnapshotOf(RawRows[h][i], h)])
    BY <1>4 DEF PromoteBlock
  <2>. DEFINE e == [gen |-> repairs, content |-> i, flows |-> FlowsOf(RawRows[h][i]),
                    snapshot |-> SnapshotOf(RawRows[h][i], h)]
  <2>3. h \in 1..MaxBlock
    BY <1>2, <2>1
  <2>4. e.snapshot = RowAt(h, i, repairs)
    <3>. HIDE DEF h
    <3>. QED
      BY <2>3, SnapshotIsRow
  <2>5. Streams(h, e)
    BY <1>2, <2>4 DEF Streams, VaultFlows
  <2>. HIDE DEF e
  <2>6. /\ ledger' \in Seq(S \cup {e}) /\ Len(ledger') = N + 1 /\ ledger'[N + 1] = e
        /\ \A k \in 1..N : ledger'[k] = ledger[k]
    BY <1>1, <2>2 DEF e
  <2>7. \A k \in 1..(N + 1) : Streams(k, ledger'[k])
    BY <1>2, <1>3, <2>5, <2>6
  <2>8. \A k \in 1..Len(ledger') : Streams(k, ledger[k])'
    BY <2>1, <2>6, <2>7 DEF Streams
  <2>. QED
    BY <1>2, <2>1, <2>6, <2>8 DEF LedgerInv
<1>5. CASE Repair
  <2>1. PICK n \in 0..(N - 1) : ledger' = SubSeq(ledger, 1, n)
    BY <1>5 DEF Repair
  <2>2. repairs' = repairs + 1 /\ repairs < MaxRepairs
    BY <1>5 DEF Repair
  <2>3. ledger' \in Seq(S) /\ Len(ledger') = n /\ \A k \in 1..n : ledger'[k] = ledger[k] /\ k \in 1..N
    BY <1>1, <1>2, <2>1
  <2>4. \A k \in 1..Len(ledger') : Streams(k, ledger[k])'
    <3>1. ASSUME NEW k \in 1..n PROVE Streams(k, ledger[k])'
      <4>1. Streams(k, ledger[k]) /\ ledger'[k] = ledger[k] /\ 0..repairs \subseteq 0..repairs'
        BY <1>2, <1>3, <2>2, <2>3
      <4>. QED
        BY <4>1 DEF Streams
    <3>. QED
      BY <2>3, <3>1
  <2>. QED
    BY <1>2, <2>1, <2>2, <2>3, <2>4 DEF LedgerInv
<1>. QED
  BY <1>4, <1>5

-----------------------------------------------------------------------------
(* Steps                                                                    *)

\* Where the ledger stays, so does what is known of it.
LEMMA LedgerStays ==
  ASSUME UNCHANGED <<ledger, repairs>>
  PROVE  /\ LedgerInv => LedgerInv'
         /\ \A place, q : Holds(place, q)' <=> Holds(place, q)
         /\ \A place, q : Window(place, q)' <=> Window(place, q)
         /\ \A place, q : Assembles(place, q)' <=> Assembles(place, q)
         /\ \A report : Keeps(report)' <=> Keeps(report)
<1>1. LedgerInv => LedgerInv'
  BY DEF LedgerInv, Streams
<1>2. \A cites : CitesCanonical(cites)' <=> CitesCanonical(cites)
  BY DEF CitesCanonical, Cite
<1>3. \A s : (Noted(s)' <=> Noted(s)) /\ (Stays(s)' <=> Stays(s))
  BY DEF Noted, Observation, Names, Stays, Alive
<1>4. \A a, b, flows : Covers(a, b, flows)' <=> Covers(a, b, flows)
  <2>1. \A h : ChainBlock(h)' = ChainBlock(h)
    BY DEF ChainBlock
  <2>2. \A h : ChainFlow(h)' = ChainFlow(h)
    BY <2>1 DEF ChainFlow
  <2>3. \A h : MovesShareSupply(h)' <=> MovesShareSupply(h)
    BY <2>1 DEF MovesShareSupply
  <2>. QED
    BY <2>2, <2>3 DEF Covers
<1>5. \A id : Stands(id)' <=> Stands(id)
  <2>1. /\ repairs' = repairs
        /\ \A s : (ledger'[s.at].snapshot # Null /\ s = SerialiseSnapshot(ledger'[s.at].snapshot))
                 <=> (ledger[s.at].snapshot # Null /\ s = SerialiseSnapshot(ledger[s.at].snapshot))
    OBVIOUS
  <2>. QED
    BY <1>3, <1>4, <2>1 DEF Stands
<1>6. \A id, document, cites : Filed(id, document, cites)' <=> Filed(id, document, cites)
  BY <1>5 DEF Filed, Tells
<1>7. \A place, q : Holds(place, q)' <=> Holds(place, q)
  BY DEF Holds
<1>8. \A place, q : Window(place, q)' <=> Window(place, q)
  BY <1>3, <1>4 DEF Window
<1>9. \A place, q : Assembles(place, q)' <=> Assembles(place, q)
  BY <1>2, <1>6 DEF Assembles
<1>10. \A report : Keeps(report)' <=> Keeps(report)
  BY <1>2, <1>6 DEF Keeps
<1>. QED
  BY <1>1, <1>7, <1>8, <1>9, <1>10

\* A step of one request.
LEMMA RequestKeeps ==
  ASSUME WindowInv, NEW r \in Requests, UNCHANGED <<ledger, repairs, rows, versions, reports>>,
         \A o \in Requests \ {r} : pc'[o] = pc[o] /\ req'[o] = req[o],
         Holds(pc'[r], req'[r]), Window(pc'[r], req'[r]), Assembles(pc'[r], req'[r])
  PROVE  WindowInv'
<1>1. LedgerInv' /\ \A report \in reports' : Keeps(report)'
  BY LedgerStays DEF WindowInv
<1>2. ASSUME NEW o \in Requests
      PROVE  Holds(pc[o], req[o])' /\ Window(pc[o], req[o])' /\ Assembles(pc[o], req[o])'
  <2>1. Holds(pc'[o], req'[o]) /\ Window(pc'[o], req'[o]) /\ Assembles(pc'[o], req'[o])
    BY DEF WindowInv
  <2>. QED
    BY <2>1, LedgerStays
<1>. QED
  BY <1>1, <1>2 DEF WindowInv

\* A block is promoted.
LEMMA PromoteKeeps == FilingInv /\ WindowInv /\ PromoteBlock => WindowInv'
<1>. SUFFICES ASSUME FilingInv, WindowInv, PromoteBlock PROVE WindowInv'
  OBVIOUS
<1>1. LedgerInv /\ LedgerInv' /\ UNCHANGED <<rows, versions, reports, pc, req>>
  BY LedgerInvStep DEF WindowInv, PromoteBlock, tableVars, requestVars
<1>2. ASSUME NEW cites, CitesCanonical(cites) PROVE CitesCanonical(cites)'
  <2>1. PICK S : ledger \in Seq(S)
    BY <1>1 DEF LedgerInv
  <2>2. PICK e : ledger' = Append(ledger, e)
    BY DEF PromoteBlock
  <2>3. \A h \in DOMAIN ledger : h \in DOMAIN ledger' /\ ledger'[h] = ledger[h]
    BY <2>1, <2>2
  <2>. QED
    BY <1>2, <2>3 DEF CitesCanonical, Cite
<1>3. ASSUME NEW id, NEW document, NEW cites, Filed(id, document, cites)
      PROVE  Filed(id, document, cites)'
  <2>1. Stands(id)'
    BY <1>1, <1>3, StandsStays DEF Filed, Tells
  <2>. QED
    BY <1>3, <2>1 DEF Filed, Tells
<1>4. ASSUME NEW place, NEW q, Holds(place, q), Window(place, q), Assembles(place, q)
      PROVE  Holds(place, q)' /\ Window(place, q)' /\ Assembles(place, q)'
  <2>1. Window(place, q)'
    BY <1>1, <1>4, WindowStays
  <2>2. Assembles(place, q)'
    BY <1>2, <1>3, <1>4 DEF Assembles
  <2>. QED
    BY <1>4, <2>1, <2>2 DEF Holds
<1>5. \A report \in reports : Keeps(report)'
  BY <1>2, <1>3 DEF WindowInv, Keeps
<1>6. \A r \in Requests : Holds(pc[r], req[r])' /\ Window(pc[r], req[r])' /\ Assembles(pc[r], req[r])'
  BY <1>1, <1>4 DEF WindowInv
<1>. QED
  BY <1>1, <1>5, <1>6 DEF WindowInv

\* Blocks are withdrawn, and every report that cites one of them is marked.
LEMMA RepairKeepsWindow == FilingInv /\ WindowInv /\ Repair => WindowInv'
<1>. SUFFICES ASSUME FilingInv, WindowInv, Repair PROVE WindowInv'
  OBVIOUS
<1>1. /\ LedgerInv /\ LedgerInv' /\ UNCHANGED <<rows, versions, pc, req>>
      /\ \A r \in Requests : ~(pc[r] = "commit" /\ req[r].created)
  BY LedgerInvStep DEF WindowInv, Repair, requestVars
<1>2. PICK n \in 0..(Len(ledger) - 1) :
        /\ ledger' = SubSeq(ledger, 1, n)
        /\ reports' = {[report EXCEPT !.canonical = @ /\ \A c \in report.cites : c[1] <= n] :
                         report \in reports}
  BY DEF Repair
<1>3. ASSUME NEW cites, CitesCanonical(cites), \A c \in cites : c[1] <= n
      PROVE  CitesCanonical(cites)'
  <2>1. PICK S : ledger \in Seq(S)
    BY <1>1 DEF LedgerInv
  <2>2. \A h \in DOMAIN ledger : h <= n => h \in DOMAIN ledger' /\ ledger'[h] = ledger[h]
    BY <1>2, <2>1
  <2>. QED
    BY <1>3, <2>2 DEF CitesCanonical, Cite
<1>4. ASSUME NEW id, NEW document, NEW cites, Filed(id, document, cites)
      PROVE  Filed(id, document, cites)'
  <2>1. Stands(id)'
    BY <1>1, <1>4, StandsStays DEF Filed, Tells
  <2>. QED
    BY <1>4, <2>1 DEF Filed, Tells
<1>5. ASSUME NEW place, NEW q, Holds(place, q), Window(place, q), Assembles(place, q),
             ~(place = "commit" /\ q.created)
      PROVE  Holds(place, q)' /\ Window(place, q)' /\ Assembles(place, q)'
  <2>1. Window(place, q)'
    BY <1>1, <1>5, WindowStays
  <2>2. Assembles(place, q)'
    BY <1>4, <1>5 DEF Assembles
  <2>. QED
    BY <1>5, <2>1, <2>2 DEF Holds
<1>6. ASSUME NEW x \in reports' PROVE Keeps(x)'
  <2>. DEFINE Canonical(y) == y.canonical /\ \A c \in y.cites : c[1] <= n
  <2>1. PICK y \in reports : x = [y EXCEPT !.canonical = Canonical(y)]
    BY <1>2
  <2>2. y = [id |-> y.id, document |-> y.document, cites |-> y.cites, canonical |-> y.canonical]
    BY DEF FilingInv, ServingInv, Columns
  <2>3. Keeps(y)
    BY DEF WindowInv
  <2>4. x.id = y.id /\ x.document = y.document /\ x.cites = y.cites /\ x.canonical = Canonical(y)
    <3>. HIDE DEF Canonical
    <3>. QED
      BY <2>1, <2>2
  <2>5. Filed(x.id, x.document, x.cites)'
    BY <1>4, <2>3, <2>4 DEF Keeps
  <2>6. x.canonical => CitesCanonical(x.cites)'
    BY <1>3, <2>3, <2>4 DEF Keeps
  <2>7. x.canonical \in BOOLEAN
    BY <2>3, <2>4 DEF Keeps
  <2>. QED
    BY <2>3, <2>4, <2>5, <2>6, <2>7 DEF Keeps
<1>7. \A r \in Requests : Holds(pc[r], req[r])' /\ Window(pc[r], req[r])' /\ Assembles(pc[r], req[r])'
  BY <1>1, <1>5 DEF WindowInv
<1>. QED
  BY <1>1, <1>6, <1>7 DEF WindowInv

\* A request moves on, with what it then knows of the ledger.
LEMMA MoveKeeps ==
  ASSUME FilingInv, WindowInv, NEW r \in Requests,
         UNCHANGED <<ledger, repairs, rows, versions, reports>>,
         NEW place, NEW q, Goto(r, place), req' = [req EXCEPT ![r] = q],
         Holds(place, q), Window(place, q), Assembles(place, q)
  PROVE  WindowInv'
<1>1. Carrying
  BY DEF FilingInv, ServingInv
<1>2. /\ pc'[r] = place /\ req'[r] = q
      /\ \A o \in Requests \ {r} : pc'[o] = pc[o] /\ req'[o] = req[o]
  BY <1>1 DEF Carrying, Goto
<1>. QED
  BY <1>2, RequestKeeps

\* A request ends, and carries nothing.
LEMMA EndKeeps ==
  ASSUME FilingInv, WindowInv, NEW r \in Requests, UNCHANGED <<workerVars, tableVars>>,
         EndRequest(r)
  PROVE  WindowInv'
<1>1. 0 \in 0..MaxBlock
  BY FilingAssumption
<1>2. Holds("ended", NoRequest)
  BY <1>1 DEF Holds, NoRequest, Places, Over, Reading
<1>3. Window("ended", NoRequest) /\ Assembles("ended", NoRequest)
  BY DEF Window, Assembles, NoRequest, Reading, Judging
<1>. QED
  BY <1>2, <1>3, MoveKeeps DEF EndRequest, workerVars, tableVars

\* What a request that has not inserted anything knows.
LEMMA WhatIsKnown ==
  ASSUME FilingInv, WindowInv, NEW r \in Requests
  PROVE  /\ Shaped(req[r]) /\ req = [o \in Requests |-> req[o]]
         /\ Holds(pc[r], req[r]) /\ Window(pc[r], req[r]) /\ Assembles(pc[r], req[r])
         /\ pc[r] # "commit" => ~req[r].created
BY DEF FilingInv, ServingInv, Carrying, WindowInv, Assembles

\* One lemma for each step of a request.
LEMMA AskKeepsWindow ==
  ASSUME FilingInv, WindowInv, NEW r \in Requests, Ask(r)
  PROVE  WindowInv'
<1>1. UNCHANGED <<workerVars, tableVars>> /\ pc[r] = "new"
  BY DEF Ask
<1>2. CASE EndRequest(r)
  BY <1>1, <1>2, EndKeeps
<1>3. ASSUME NEW p \in Policies, NEW d \in WindowDays, Goto(r, "end"),
             req' = [req EXCEPT ![r].policy = p, ![r].days = d, ![r].asOf = Len(ledger)]
      PROVE  WindowInv'
  <2>. DEFINE q == [req[r] EXCEPT !.policy = p, !.days = d, !.asOf = Len(ledger)]
  <2>1. /\ Shaped(req[r]) /\ req = [o \in Requests |-> req[o]]
        /\ Holds("new", req[r]) /\ ~req[r].created
    BY <1>1, WhatIsKnown
  <2>2. /\ q.policy = p /\ q.days = d /\ q.asOf = Len(ledger) /\ q.created = req[r].created
        /\ q.cites = req[r].cites /\ q.newRow = req[r].newRow /\ q.newVersion = req[r].newVersion
    BY <2>1 DEF Shaped, Fields
  <2>3. req' = [req EXCEPT ![r] = q]
    BY <1>3, <2>1
  <2>4. Len(ledger) \in 0..MaxBlock
    BY DEF WindowInv, LedgerInv
  <2>. HIDE DEF q
  <2>5. Holds("end", q)
    BY <2>1, <2>2, <2>4 DEF Holds, Places, Reading
  <2>6. Window("end", q) /\ Assembles("end", q)
    BY <2>1, <2>2 DEF Window, Assembles, Reading, Judging
  <2>. QED
    BY <1>1, <1>3, <2>3, <2>5, <2>6, MoveKeeps DEF workerVars, tableVars
<1>. QED
  BY <1>2, <1>3 DEF Ask

\* What the statements that look for a snapshot find.
LEMMA Latest ==
  ASSUME LedgerInv, NEW h
  PROVE  LET s == LatestAtOrBelow(h)
         IN  s = Null \/ (s \in Snapshots /\ s.at <= h /\ \A t \in Snapshots : t.at <= h => t.at <= s.at)
<1>. DEFINE T == {s \in Snapshots : s.at <= h}
<1>1. CASE T = {}
  BY <1>1 DEF LatestAtOrBelow, Newest
<1>2. CASE T # {}
  <2>1. Newest(T) \in T /\ \A t \in T : t.at <= Newest(T).at
    <3>1. T \in SUBSET Snapshots
      OBVIOUS
    <3>. HIDE DEF T
    <3>. QED
      BY <1>2, <3>1, Extremes
  <2>. QED
    BY <2>1 DEF LatestAtOrBelow
<1>. QED
  BY <1>1, <1>2

\* A window opens below its end, and has a start if any snapshot lies below the end.
LEMMA Opens ==
  ASSUME LedgerInv, NEW asOf, NEW days, NEW end
  PROVE  LET s == Opening(asOf, days, end)
         IN  /\ s = Null \/ (s \in Snapshots /\ s.at < end.at)
             /\ (\E t \in Snapshots : t.at < end.at) => s \in Snapshots
<1>. DEFINE T == {s \in Snapshots : s.at < end.at}
            first == EarliestBelow(end.at)
            requested == LatestAtOrBelow(EstimateStartBlock(asOf, days))
<1>1. first = IF T = {} THEN Null ELSE Oldest(T)
  BY DEF EarliestBelow, Oldest
<1>2. T # {} => Oldest(T) \in T
  <2>1. T \in SUBSET Snapshots
    OBVIOUS
  <2>. HIDE DEF T
  <2>. QED
    BY <2>1, Extremes
<1>3. requested = Null \/ requested \in Snapshots
  BY Latest
<1>4. Opening(asOf, days, end) = IF requested # Null /\ requested.at < end.at THEN requested ELSE first
  BY DEF Opening
<1>. HIDE DEF first, requested
<1>. QED
  BY <1>1, <1>2, <1>3, <1>4

\* The end is a canonical snapshot at or below the cursor.
LEMMA ReadEndKeepsWindow ==
  ASSUME FilingInv, WindowInv, NEW r \in Requests, ReadEnd(r)
  PROVE  WindowInv'
<1>1. UNCHANGED <<workerVars, tableVars>> /\ pc[r] = "end"
  BY DEF ReadEnd
<1>2. CASE EndRequest(r)
  BY <1>1, <1>2, EndKeeps
<1>3. ASSUME NEW end, end = LatestAtOrBelow(req[r].asOf), end # Null,
             Goto(r, "start"), req' = [req EXCEPT ![r].end = end]
      PROVE  WindowInv'
  <2>. DEFINE q == [req[r] EXCEPT !.end = end]
  <2>1. /\ Shaped(req[r]) /\ req = [o \in Requests |-> req[o]]
        /\ Holds("end", req[r]) /\ ~req[r].created
    BY <1>1, WhatIsKnown
  <2>2. /\ q.end = end /\ q.policy = req[r].policy /\ q.days = req[r].days
        /\ q.asOf = req[r].asOf /\ q.created = req[r].created
        /\ q.cites = req[r].cites /\ q.newRow = req[r].newRow /\ q.newVersion = req[r].newVersion
    BY <2>1 DEF Shaped, Fields
  <2>3. req' = [req EXCEPT ![r] = q]
    BY <1>3, <2>1
  <2>4. Noted(end) /\ end.at <= req[r].asOf
    BY <1>3, Latest, SnapshotsAreKnown DEF WindowInv
  <2>. HIDE DEF q
  <2>5. Holds("start", q)
    BY <2>1, <2>2 DEF Holds, Places, Reading
  <2>6. Window("start", q) /\ Assembles("start", q)
    BY <2>1, <2>2, <2>4 DEF Window, Assembles, Reading, Judging
  <2>. QED
    BY <1>1, <1>3, <2>3, <2>5, <2>6, MoveKeeps DEF workerVars, tableVars
<1>. QED
  BY <1>2, <1>3 DEF ReadEnd

\* The start is canonical and below the end.  If the end is so no more, nothing is said of it.
LEMMA ReadStartKeepsWindow ==
  ASSUME FilingInv, WindowInv, NEW r \in Requests, ReadStart(r)
  PROVE  WindowInv'
<1>1. UNCHANGED <<workerVars, tableVars>> /\ pc[r] = "start" /\ Goto(r, "flows")
  BY DEF ReadStart
<1>2. PICK start : /\ start = Opening(req[r].asOf, req[r].days, req[r].end)
                   /\ req' = [req EXCEPT ![r].start = start, ![r].asOf = 0]
  BY DEF ReadStart
<1>. DEFINE q == [req[r] EXCEPT !.start = start, !.asOf = 0]
<1>3. /\ Shaped(req[r]) /\ req = [o \in Requests |-> req[o]]
      /\ Holds("start", req[r]) /\ Window("start", req[r]) /\ ~req[r].created
  BY <1>1, WhatIsKnown
<1>4. /\ q.start = start /\ q.end = req[r].end /\ q.policy = req[r].policy /\ q.days = req[r].days
      /\ q.asOf = 0 /\ q.created = req[r].created
      /\ q.cites = req[r].cites /\ q.newRow = req[r].newRow /\ q.newVersion = req[r].newVersion
  BY <1>3 DEF Shaped, Fields
<1>5. req' = [req EXCEPT ![r] = q]
  BY <1>2, <1>3
<1>6. start # Null => Noted(start) /\ start.at < req[r].end.at /\ Stays(start)
  BY <1>2, Opens, SnapshotsAreKnown DEF WindowInv, Stays
<1>. HIDE DEF q
<1>7. Holds("flows", q)
  <2>1. 0 \in 0..MaxBlock
    BY FilingAssumption
  <2>. QED
    BY <1>3, <1>4, <2>1 DEF Holds, Places, Reading
<1>8. Window("flows", q) /\ Assembles("flows", q)
  BY <1>3, <1>4, <1>6 DEF Window, Assembles, Reading, Judging
<1>. QED
  BY <1>1, <1>5, <1>7, <1>8, MoveKeeps DEF workerVars, tableVars

\* If the end is canonical still, so is all the flows are read from.
LEMMA ReadFlowsKeepsWindow ==
  ASSUME FilingInv, WindowInv, NEW r \in Requests, ReadFlows(r)
  PROVE  WindowInv'
<1>. DEFINE blocks == FlowBlocks(req[r].start, req[r].end)
            cites == {Cite(h) : h \in blocks}
<1>1. UNCHANGED <<workerVars, tableVars>> /\ pc[r] = "flows" /\ Goto(r, "evaluate")
  BY DEF ReadFlows
<1>2. PICK flows \in Readings(blocks), t \in DeploymentTime :
        req' = [req EXCEPT ![r].flows = flows, ![r].cites = cites, ![r].deployed = t]
  BY DEF ReadFlows
<1>. DEFINE q == [req[r] EXCEPT !.flows = flows, !.cites = cites, !.deployed = t]
<1>3. /\ Shaped(req[r]) /\ req = [o \in Requests |-> req[o]]
      /\ Holds("flows", req[r]) /\ Window("flows", req[r]) /\ ~req[r].created
  BY <1>1, WhatIsKnown
<1>4. /\ q.start = req[r].start /\ q.end = req[r].end /\ q.policy = req[r].policy
      /\ q.days = req[r].days /\ q.asOf = req[r].asOf /\ q.created = req[r].created
      /\ q.cites = cites /\ q.flows = flows
      /\ q.newRow = req[r].newRow /\ q.newVersion = req[r].newVersion
  <2>. HIDE DEF cites, blocks
  <2>. QED
    BY <1>3 DEF Shaped, Fields
<1>5. req' = [req EXCEPT ![r] = q]
  <2>. HIDE DEF cites, blocks
  <2>. QED
    BY <1>2, <1>3
<1>6. cites \subseteq Cited
  <2>1. \A h \in 1..Len(ledger) : h \in 1..MaxBlock /\ ledger[h].gen \in 0..MaxRepairs
    BY FilingAssumption DEF WindowInv, LedgerInv, Streams
  <2>2. blocks \subseteq 1..Len(ledger)
    BY SnapshotsAreKnown DEF FlowBlocks, WindowInv
  <2>. HIDE DEF blocks
  <2>. QED
    BY <2>1, <2>2 DEF Cite, Cited
<1>7. ASSUME req[r].start # Null, Stays(req[r].end)
      PROVE  Covers(req[r].start.at, req[r].end.at, flows)
  <2>1. /\ req[r].start.at \in Nat /\ req[r].start.at < req[r].end.at
        /\ req[r].end.at \in 1..Len(ledger)
    <3>1. Noted(req[r].start) /\ req[r].start.at < req[r].end.at
      BY <1>3, <1>7 DEF Window
    <3>2. req[r].start.at \in 1..MaxBlock
      BY <3>1 DEF Noted, Observation
    <3>3. req[r].end.at \in 1..Len(ledger)
      BY <1>7 DEF Stays, Alive
    <3>. QED
      BY <3>1, <3>2, <3>3
  <2>. QED
    BY <1>2, <1>7, <2>1, WindowIsCovered DEF WindowInv
<1>. HIDE DEF q, cites
<1>8. Holds("evaluate", q)
  BY <1>3, <1>4, <1>6 DEF Holds, Places, Reading
<1>9. Window("evaluate", q)
  BY <1>3, <1>4, <1>7 DEF Window, Reading
<1>10. Assembles("evaluate", q)
  BY <1>3, <1>4 DEF Assembles, Judging
<1>. QED
  BY <1>1, <1>5, <1>8, <1>9, <1>10, MoveKeeps DEF workerVars, tableVars

\* Half a day off, by the seconds between the observations, is half a day off by the blocks.
LEMMA DistantIsHalfADay ==
  ASSUME NEW from \in 1..MaxBlock, NEW to \in 1..MaxBlock, NEW days \in WindowDays
  PROVE  Distant(BlockTime[to] - BlockTime[from], days) <=> HalfADayOff(from, to, days)
<1>. DEFINE u == BlockTime[from]
            v == BlockTime[to]
            x == days * SecondsPerDay
            e == v - u
<1>1. u \in Nat /\ v \in Nat /\ days \in Nat /\ SecondsPerDay \in Nat
  BY FilingAssumption, DayAssumption
<1>2. /\ x \in Nat /\ (2 * days + 1) * SecondsPerDay = 2 * x + SecondsPerDay
      /\ (2 * days - 1) * SecondsPerDay = 2 * x - SecondsPerDay
  BY <1>1
<1>3. e # Null /\ e \in Int
  BY <1>1, NullAssumption
<1>4. Distant(e, days) <=> 2 * Magnitude(e - x) >= SecondsPerDay
  BY <1>3 DEF Distant
<1>5. HalfADayOff(from, to, days) <=> 2 * v >= 2 * u + (2 * x + SecondsPerDay)
                                       \/ 2 * v <= 2 * u + (2 * x - SecondsPerDay)
  BY <1>2 DEF HalfADayOff
<1>. HIDE DEF u, v, x
<1>6. Magnitude(e - x) = IF e - x < 0 THEN -(e - x) ELSE e - x
  BY <1>1, <1>2 DEF Magnitude, Sign
<1>. QED
  BY <1>1, <1>2, <1>4, <1>5, <1>6 DEF u, v

\* The document of a window with a start tells of it.
LEMMA DraftTells ==
  ASSUME NEW q, q.start # Null, Noted(q.start), Noted(q.end), q.start.at < q.end.at,
         q.days \in WindowDays
  PROVE  Tells(Draft(q).id, Document(q))
<1>. DEFINE draft == Draft(q)
            elapsed == BlockTime[q.end.at] - BlockTime[q.start.at]
<1>1. /\ q.start # Null /\ q.end # Null
      /\ q.start.at \in 1..MaxBlock /\ q.end.at \in 1..MaxBlock
      /\ q.start.time = BlockTime[q.start.at] /\ q.end.time = BlockTime[q.end.at]
  BY DEF Noted, Observation
<1>2. /\ draft.id.start.at = q.start.at /\ draft.id.start.gen = q.start.gen
      /\ draft.id.end.at = q.end.at /\ draft.id.end.gen = q.end.gen
      /\ draft.id.days = q.days /\ draft.id.flows = q.flows
  BY <1>1 DEF Draft, BuildEvidence, SerialiseSnapshot
<1>3. draft.provenance = Provenance(q.start, q.end)
  BY DEF Draft, BuildEvidence
<1>4. Provenance(q.start, q.end)
        = {<<q.start.at, q.start.gen>>, <<q.end.at, q.end.gen>>}
  BY <1>1 DEF Provenance
<1>5. PICK reasons : draft.limitations = Limitations(reasons, q.flows, elapsed, q.days)
  BY <1>1 DEF Draft, BuildEvidence, ElapsedSeconds
<1>6. "distant" \in draft.limitations <=> Distant(elapsed, q.days)
  BY <1>5 DEF Limitations
<1>7. "share_side" \in draft.limitations <=> Sided(q.flows)
  BY <1>5 DEF Limitations, Sided
<1>8. /\ Document(q).provenance = draft.provenance
      /\ Document(q).limitations = draft.limitations
  BY DEF Document
<1>. HIDE DEF draft, elapsed
<1>9. "distant" \in draft.limitations <=> HalfADayOff(q.start.at, q.end.at, q.days)
  BY <1>1, <1>6, DistantIsHalfADay DEF elapsed
<1>. QED
  BY <1>1, <1>2, <1>3, <1>4, <1>7, <1>8, <1>9 DEF Tells, draft

\* A window without a start is refused, any other is what the report tells of.
LEMMA EvaluateKeepsWindow ==
  ASSUME FilingInv, WindowInv, NEW r \in Requests, Evaluate(r)
  PROVE  WindowInv'
<1>. DEFINE p == req[r]
            draft == Draft(p)
            q == [NoRequest EXCEPT !.policy = p.policy, !.id = draft.id,
                                   !.document = Document(p), !.cites = Citations(p)]
<1>1. UNCHANGED <<workerVars, tableVars>> /\ pc[r] = "evaluate"
  BY DEF Evaluate
<1>2. CASE EndRequest(r)
  BY <1>1, <1>2, EndKeeps
<1>3. CASE IsComplete(draft) /\ req' = [req EXCEPT ![r] = q] /\ Goto(r, "policy")
  <2>1. Holds("evaluate", p) /\ Window("evaluate", p)
    BY <1>1, WhatIsKnown
  <2>2. /\ q.policy = p.policy /\ q.id = draft.id /\ q.document = Document(p)
        /\ q.cites = Citations(p) /\ q.asOf = 0 /\ q.newRow = FALSE /\ q.newVersion = FALSE
        /\ q.created = FALSE
    BY DEF NoRequest
  <2>3. p.start # Null
    <3>1. draft.bps # Null
      BY <1>3 DEF IsComplete
    <3>. QED
      BY <3>1 DEF Draft, BuildEvidence, ObserveShareValue
  <2>4. /\ Noted(p.start) /\ Noted(p.end) /\ p.start.at < p.end.at /\ p.days \in WindowDays
        /\ Stays(p.end) => Stays(p.start) /\ Covers(p.start.at, p.end.at, p.flows)
    BY <2>1, <2>3 DEF Window, Holds, Reading
  <2>5. Tells(draft.id, Document(p))
    BY <2>3, <2>4, DraftTells
  <2>6. /\ p.end # Null /\ draft.id.start = SerialiseSnapshot(p.start)
        /\ draft.id.end = SerialiseSnapshot(p.end) /\ draft.id.flows = p.flows
    BY <2>4 DEF Draft, BuildEvidence, Noted, Observation
  <2>7. /\ draft.id.start.at = p.start.at /\ draft.id.start.gen = p.start.gen
        /\ draft.id.end.at = p.end.at /\ draft.id.end.gen = p.end.gen
    BY <2>3, <2>6 DEF SerialiseSnapshot
  <2>8. Stands(draft.id)
    <3>1. draft.id.end.gen \in 0..repairs /\ (~Stays(draft.id.end) => draft.id.end.gen < repairs)
      BY <2>4, <2>7 DEF Stays, Noted, Observation
    <3>2. ASSUME Stays(draft.id.end)
          PROVE  /\ Stays(draft.id.start) /\ Covers(p.start.at, p.end.at, p.flows)
                 /\ ledger[p.start.at].snapshot = p.start /\ ledger[p.end.at].snapshot = p.end
      BY <2>4, <2>7, <3>2 DEF Stays, Noted
    <3>. HIDE DEF draft
    <3>. QED
      BY <2>3, <2>6, <2>7, <3>1, <3>2 DEF Stands
  <2>9. Filed(q.id, q.document, q.cites)
    <3>1. <<p.end.at, p.end.gen>> \in Provenance(p.start, p.end)
      BY <2>6 DEF Provenance
    <3>2. <<draft.id.end.at, draft.id.end.gen>> \in Citations(p)
      BY <2>7, <3>1 DEF Citations
    <3>. HIDE DEF q, draft
    <3>. QED
      BY <2>2, <2>5, <2>8, <3>2 DEF Filed
  <2>10. Citations(p) \subseteq Cited
    <3>1. \A s \in {p.start, p.end} : <<s.at, s.gen>> \in Cited
      <4>1. repairs \in 0..MaxRepairs /\ MaxRepairs \in Nat
        BY FilingAssumption DEF WindowInv, LedgerInv
      <4>2. \A s \in {p.start, p.end} : s.at \in 1..MaxBlock /\ s.gen \in 0..repairs
        BY <2>4 DEF Noted, Observation
      <4>. QED
        BY <4>1, <4>2 DEF Cited
    <3>. QED
      BY <2>1, <3>1 DEF Citations, Provenance, Holds
  <2>. HIDE DEF q, draft
  <2>11. Holds("policy", q)
    <3>1. 0 \in 0..MaxBlock
      BY FilingAssumption
    <3>. QED
      BY <2>1, <2>2, <2>10, <3>1 DEF Holds, Places, Reading
  <2>12. Window("policy", q) /\ Assembles("policy", q)
    BY <2>2, <2>9 DEF Window, Assembles, Reading
  <2>. QED
    BY <1>1, <1>3, <2>11, <2>12, MoveKeeps DEF workerVars, tableVars
<1>. QED
  BY <1>2, <1>3 DEF Evaluate

\* The policy and its version are stored beside the window.
LEMMA StorePolicyKeepsWindow ==
  ASSUME FilingInv, WindowInv, NEW r \in Requests, StorePolicy(r)
  PROVE  WindowInv'
<1>1. UNCHANGED <<workerVars, tableVars>> /\ pc[r] = "policy" /\ Goto(r, "version")
  BY DEF StorePolicy
<1>2. PICK new, stored, number :
        /\ new \in BOOLEAN /\ stored \in BOOLEAN
        /\ req' = [req EXCEPT ![r].newRow = new, ![r].newVersion = stored, ![r].number = number]
  BY DEF StorePolicy
<1>. DEFINE q == [req[r] EXCEPT !.newRow = new, !.newVersion = stored, !.number = number]
<1>3. /\ Shaped(req[r]) /\ req = [o \in Requests |-> req[o]]
      /\ Holds("policy", req[r]) /\ Assembles("policy", req[r]) /\ ~req[r].created
  BY <1>1, WhatIsKnown
<1>4. /\ q.policy = req[r].policy /\ q.asOf = req[r].asOf /\ q.created = req[r].created
      /\ q.cites = req[r].cites /\ q.id = req[r].id /\ q.document = req[r].document
      /\ q.newRow = new /\ q.newVersion = stored
  BY <1>3 DEF Shaped, Fields
<1>5. req' = [req EXCEPT ![r] = q]
  BY <1>2, <1>3
<1>. HIDE DEF q
<1>6. Holds("version", q)
  BY <1>2, <1>3, <1>4 DEF Holds, Places, Reading
<1>7. Window("version", q) /\ Assembles("version", q)
  BY <1>3, <1>4 DEF Window, Assembles, Reading, Judging
<1>. QED
  BY <1>1, <1>5, <1>6, <1>7, MoveKeeps DEF workerVars, tableVars

\* The version is inserted, or the request fails.
LEMMA InsertVersionKeepsWindow ==
  ASSUME FilingInv, WindowInv, NEW r \in Requests, InsertVersion(r)
  PROVE  WindowInv'
<1>1. UNCHANGED <<workerVars, tableVars>> /\ pc[r] = "version"
  BY DEF InsertVersion
<1>2. CASE EndRequest(r)
  BY <1>1, <1>2, EndKeeps
<1>3. CASE Goto(r, "report") /\ UNCHANGED req
  <2>1. /\ req = [o \in Requests |-> req[o]]
        /\ Holds("version", req[r]) /\ Assembles("version", req[r]) /\ ~req[r].created
    BY <1>1, WhatIsKnown
  <2>2. Holds("report", req[r]) /\ Window("report", req[r]) /\ Assembles("report", req[r])
    BY <2>1 DEF Holds, Window, Assembles, Places, Reading, Judging
  <2>3. req' = [req EXCEPT ![r] = req[r]]
    BY <1>3, <2>1
  <2>. QED
    BY <1>1, <1>3, <2>2, <2>3, MoveKeeps DEF workerVars, tableVars
<1>. QED
  BY <1>2, <1>3 DEF InsertVersion

\* A stored report is served in place of the one at hand.
LEMMA ServeStoredKeepsWindow ==
  ASSUME FilingInv, WindowInv, NEW r \in Requests, ServeStored(r)
  PROVE  WindowInv'
<1>1. UNCHANGED <<workerVars, tableVars>> /\ pc[r] = "report" /\ Goto(r, "commit")
  BY DEF ServeStored
<1>2. PICK document : req' = [req EXCEPT ![r].document = document]
  BY DEF ServeStored
<1>. DEFINE q == [req[r] EXCEPT !.document = document]
<1>3. /\ Shaped(req[r]) /\ req = [o \in Requests |-> req[o]]
      /\ Holds("report", req[r]) /\ ~req[r].created
  BY <1>1, WhatIsKnown
<1>4. /\ q.policy = req[r].policy /\ q.asOf = req[r].asOf /\ q.created = req[r].created
      /\ q.cites = req[r].cites /\ q.newRow = req[r].newRow /\ q.newVersion = req[r].newVersion
  BY <1>3 DEF Shaped, Fields
<1>5. req' = [req EXCEPT ![r] = q]
  BY <1>2, <1>3
<1>. HIDE DEF q
<1>6. Holds("commit", q)
  BY <1>3, <1>4 DEF Holds, Places, Reading
<1>7. Window("commit", q) /\ Assembles("commit", q)
  BY <1>3, <1>4 DEF Window, Assembles, Reading, Judging
<1>. QED
  BY <1>1, <1>5, <1>6, <1>7, MoveKeeps DEF workerVars, tableVars

\* A report goes in only if all it cites is canonical.
LEMMA InsertReportKeepsWindow ==
  ASSUME FilingInv, WindowInv, NEW r \in Requests, InsertReport(r)
  PROVE  WindowInv'
<1>1. UNCHANGED <<workerVars, tableVars>> /\ pc[r] = "report"
  BY DEF InsertReport
<1>2. CASE EndRequest(r)
  BY <1>1, <1>2, EndKeeps
<1>3. CASE CitesCanonical(req[r].cites) /\ Goto(r, "commit")
           /\ req' = [req EXCEPT ![r].created = TRUE]
  <2>. DEFINE q == [req[r] EXCEPT !.created = TRUE]
  <2>1. /\ Shaped(req[r]) /\ req = [o \in Requests |-> req[o]]
        /\ Holds("report", req[r]) /\ Assembles("report", req[r])
    BY <1>1, WhatIsKnown
  <2>2. /\ q.policy = req[r].policy /\ q.asOf = req[r].asOf /\ q.created = TRUE
        /\ q.cites = req[r].cites /\ q.id = req[r].id /\ q.document = req[r].document
        /\ q.newRow = req[r].newRow /\ q.newVersion = req[r].newVersion
    BY <2>1 DEF Shaped, Fields
  <2>3. req' = [req EXCEPT ![r] = q]
    BY <1>3, <2>1
  <2>. HIDE DEF q
  <2>4. Holds("commit", q)
    BY <2>1, <2>2 DEF Holds, Places, Reading
  <2>5. Window("commit", q) /\ Assembles("commit", q)
    BY <1>3, <2>1, <2>2 DEF Window, Assembles, Reading, Judging
  <2>. QED
    BY <1>1, <1>3, <2>3, <2>4, <2>5, MoveKeeps DEF workerVars, tableVars
<1>. QED
  BY <1>2, <1>3 DEF InsertReport

\* What a commit stores is what the request assembled.
LEMMA CommitKeepsWindow ==
  ASSUME FilingInv, WindowInv, NEW r \in Requests, Commit(r)
  PROVE  WindowInv'
<1>. DEFINE p == req[r]
            q == [p EXCEPT !.cites = {}, !.number = 0, !.newRow = FALSE,
                           !.newVersion = FALSE, !.created = FALSE]
            stored == [id |-> p.id, document |-> p.document, cites |-> p.cites, canonical |-> TRUE]
            version == [policy |-> p.policy, number |-> p.number]
<1>1. /\ UNCHANGED <<ledger, repairs>> /\ pc[r] = "commit" /\ Goto(r, "answered")
      /\ rows' = rows \cup {PolicyRow[p.policy]} /\ versions' = versions \cup {version}
      /\ reports' \subseteq reports \cup {stored} /\ (~p.created => reports' = reports)
  BY DEF Commit, workerVars
<1>2. /\ Shaped(p) /\ req = [o \in Requests |-> req[o]] /\ pc = [o \in Requests |-> pc[o]]
      /\ Holds("commit", p) /\ Assembles("commit", p) /\ Serves("commit", p)
  BY <1>1, WhatIsKnown DEF FilingInv, ServingInv, Carrying
<1>3. req' = [req EXCEPT ![r] = q]
  BY <1>2 DEF Commit
<1>4. /\ q.policy = p.policy /\ q.asOf = p.asOf /\ q.created = FALSE /\ q.cites = {}
      /\ q.newRow = FALSE /\ q.newVersion = FALSE
  BY <1>2 DEF Shaped, Fields
<1>. HIDE DEF q
<1>5. Holds("answered", q) /\ Window("answered", q) /\ Assembles("answered", q)
  BY <1>2, <1>4 DEF Holds, Window, Assembles, Places, Over, Reading, Judging
<1>6. ASSUME NEW o \in Requests
      PROVE  Holds(pc[o], req[o])' /\ Window(pc[o], req[o])' /\ Assembles(pc[o], req[o])'
  <2>1. CASE o = r
    <3>1. pc'[o] = "answered" /\ req'[o] = q
      BY <1>1, <1>2, <1>3, <2>1 DEF Goto
    <3>. QED
      BY <1>1, <1>5, <3>1, LedgerStays
  <2>2. CASE o # r
    <3>1. pc'[o] = pc[o] /\ req'[o] = req[o]
      BY <1>1, <1>2, <1>3, <2>2 DEF Goto
    <3>2. Holds(pc[o], req[o]) /\ Window(pc[o], req[o]) /\ Assembles(pc[o], req[o])
      BY WhatIsKnown
    <3>. QED
      BY <1>1, <3>1, <3>2, LedgerStays
  <2>. QED
    BY <2>1, <2>2
<1>7. p.created => Keeps(stored)
  <2>1. p.created => Filed(p.id, p.document, p.cites) /\ CitesCanonical(p.cites)
    BY <1>2 DEF Assembles
  <2>2. p.created => p.document.policy \in Policies /\ p.cites \subseteq Cited
    BY <1>2 DEF Serves, Holds
  <2>. QED
    BY <2>1, <2>2 DEF Keeps
<1>8. ASSUME NEW x \in reports' PROVE Keeps(x)'
  <2>1. Keeps(x)
    BY <1>1, <1>7 DEF WindowInv
  <2>. QED
    BY <1>1, <2>1, LedgerStays
<1>9. p.policy \in Policies
  BY <1>2 DEF Holds
<1>10. /\ rows' \subseteq {PolicyRow[x] : x \in Policies \cup Known}
       /\ \A v \in versions' : v.policy \in Policies \cup Known
  BY <1>1, <1>9 DEF WindowInv
<1>11. LedgerInv'
  BY <1>1, LedgerStays DEF WindowInv
<1>. QED
  BY <1>6, <1>8, <1>10, <1>11 DEF WindowInv

\* Nothing is promoted and nothing asked yet.
LEMMA WindowInvInit == Init => WindowInv
<1>. SUFFICES ASSUME Init PROVE WindowInv
  OBVIOUS
<1>1. LedgerInv
  <2>1. <<>> \in Seq({}) /\ Len(<<>>) = 0
    OBVIOUS
  <2>. QED
    BY <2>1, FilingAssumption DEF Init, LedgerInv
<1>2. \A r \in Requests : pc[r] = "new" /\ req[r] = NoRequest
  BY DEF Init
<1>3. 0 \in 0..MaxBlock
  BY FilingAssumption
<1>4. Holds("new", NoRequest) /\ Window("new", NoRequest) /\ Assembles("new", NoRequest)
  BY <1>3 DEF Holds, Window, Assembles, NoRequest, Places, Over, Reading, Judging
<1>5. \A v \in versions : v.policy \in Known
  BY DEF Init
<1>6. rows \subseteq {PolicyRow[p] : p \in Policies \cup Known}
  BY <1>5 DEF Init
<1>. QED
  BY <1>1, <1>2, <1>4, <1>5, <1>6 DEF Init, WindowInv

\* Every step keeps it.
LEMMA WindowInvStep == FilingInv /\ WindowInv /\ [Next]_vars => WindowInv'
<1>. SUFFICES ASSUME FilingInv, WindowInv, [Next]_vars PROVE WindowInv'
  OBVIOUS
<1>1. CASE UNCHANGED vars
  <2>1. UNCHANGED <<ledger, repairs, rows, versions, reports, pc, req>>
    BY <1>1 DEF vars, workerVars, tableVars, requestVars
  <2>2. LedgerInv' /\ \A report \in reports' : Keeps(report)'
    BY <2>1, LedgerStays DEF WindowInv
  <2>3. \A r \in Requests : Holds(pc[r], req[r])' /\ Window(pc[r], req[r])' /\ Assembles(pc[r], req[r])'
    BY <2>1, LedgerStays DEF WindowInv
  <2>. QED
    BY <2>1, <2>2, <2>3 DEF WindowInv
<1>2. ASSUME NEW r \in Requests, Handle(r) PROVE WindowInv'
  <2>1. CASE Preview(r)
    BY <2>1, EndKeeps DEF Preview
  <2>. QED
    BY <1>2, <2>1, ReadEndKeepsWindow, ReadStartKeepsWindow, ReadFlowsKeepsWindow,
       EvaluateKeepsWindow, StorePolicyKeepsWindow, InsertVersionKeepsWindow,
       ServeStoredKeepsWindow, InsertReportKeepsWindow, CommitKeepsWindow DEF Handle
<1>3. ASSUME NEW r \in Requests, RequestLost(r) PROVE WindowInv'
  BY <1>3, EndKeeps DEF RequestLost
<1>. QED
  BY <1>1, <1>2, <1>3, PromoteKeeps, RepairKeepsWindow, AskKeepsWindow DEF Next

\* Hence it always holds.
LEMMA WindowInvHolds == Spec => [](FilingInv /\ WindowInv)
<1>1. Init => FilingInv /\ WindowInv
  BY InvInit, WindowInvInit
<1>2. FilingInv /\ WindowInv /\ [Next]_vars => (FilingInv /\ WindowInv)'
  BY InvStep, WindowInvStep
<1>. QED
  BY <1>1, <1>2, PTL DEF Spec

-----------------------------------------------------------------------------
(* Theorems                                                                 *)

\* For all constants, the tables and what the requests carry keep their types.
THEOREM FilingTypeCorrect == Spec => []TypeOK
<1>1. FilingInv /\ WindowInv => TypeOK
  <2>. SUFFICES ASSUME FilingInv, WindowInv PROVE TypeOK
    OBVIOUS
  <2>1. /\ Len(ledger) \in 0..MaxBlock /\ repairs \in 0..MaxRepairs
        /\ \A b \in DOMAIN ledger : ledger[b].gen \in 0..repairs
    BY SnapshotsAreKnown DEF WindowInv, LedgerInv, Streams
  <2>2. ASSUME NEW v \in versions
        PROVE  v \in [policy : Policies \cup Known, number : Nat \ {0}]
    <3>1. v = [policy |-> v.policy, number |-> v.number] /\ v.policy \in Policies \cup Known
      BY DEF FilingInv, CountingInv, Columns, WindowInv
    <3>2. v.number \in Numbers(PolicyRow[v.policy])
      BY DEF Numbers, VersionsOf
    <3>3. v.number \in Nat \ {0}
      BY <3>2, AllCounted DEF Counted
    <3>. QED
      BY <3>1, <3>3
  <2>3. \A report \in reports : /\ report.document.policy \in Policies
                                /\ report.canonical \in BOOLEAN
                                /\ report.cites \subseteq (1..MaxBlock) \X (0..MaxRepairs)
    BY DEF WindowInv, Keeps, Cited
  <2>4. {row.report : row \in results} \subseteq {report.id : report \in reports}
    BY DEF FilingInv, ServingInv
  <2>5. pc \in [Requests -> {"new", "end", "start", "flows", "evaluate",
                             "policy", "version", "report", "commit"} \cup Over]
    BY DEF FilingInv, ServingInv, Carrying, WindowInv, Holds, Places
  <2>6. ASSUME NEW r \in Requests
        PROVE  /\ req[r].asOf \in 0..MaxBlock
               /\ pc[r] = "start" => req[r].end.at <= req[r].asOf
               /\ req[r].created \in BOOLEAN /\ req[r].newRow \in BOOLEAN
               /\ req[r].newVersion \in BOOLEAN
    BY DEF WindowInv, Holds, Window
  <2>7. rows \subseteq {PolicyRow[p] : p \in Policies \cup Known}
    BY DEF WindowInv
  <2>. QED
    BY <2>1, <2>2, <2>3, <2>4, <2>5, <2>6, <2>7 DEF TypeOK
<1>. QED
  BY <1>1, WindowInvHolds, PTL

\* For all constants, a report that is canonical rests on two snapshots of the chain and
\* on every flow between them, and tells what limits it, whatever was withdrawn and
\* promoted again between the statements that read the window (evidence-window.ts).
THEOREM CanonicalWindowsAreWhole == Spec => []WindowsAreWhole
<1>1. FilingInv /\ WindowInv => WindowsAreWhole
  <2>. SUFFICES ASSUME FilingInv, WindowInv, NEW report \in reports, report.canonical
       PROVE  LET start == report.id.start
                  end == report.id.end
              IN  /\ {start, end} \subseteq {SerialiseSnapshot(s) : s \in Snapshots}
                  /\ start.at < end.at
                  /\ \A s \in {start, end} : s.value = ChainAnswer(s.at, "value")
                  /\ end.assets = ChainAnswer(end.at, "assets")
                  /\ NetFlow(report.id.flows)
                        = SumFunction([h \in (start.at + 1)..end.at |-> ChainFlow(h)])
                  /\ CitesCanonical(report.document.provenance)
                  /\ "distant" \in report.document.limitations
                       <=> HalfADayOff(start.at, end.at, report.id.days)
                  /\ "share_side" \in report.document.limitations
                       <=> \E h \in (start.at + 1)..end.at : MovesShareSupply(h)
    BY DEF WindowsAreWhole
  <2>. DEFINE id == report.id
              start == id.start
              end == id.end
  <2>1. Filed(id, report.document, report.cites) /\ CitesCanonical(report.cites)
    BY DEF WindowInv, Keeps
  <2>2. Tells(id, report.document)
    BY <2>1 DEF Filed
  <2>3. <<end.at, end.gen>> \in report.cites
    BY <2>1 DEF Filed
  <2>4. Stays(end)
    <3>1. end.at \in DOMAIN ledger /\ Cite(end.at) = <<end.at, end.gen>>
      BY <2>1, <2>3 DEF CitesCanonical
    <3>. QED
      BY <3>1, SnapshotsAreKnown DEF Stays, Alive, Cite, WindowInv
  <2>5. /\ Stays(start)
        /\ \A s \in {start, end} :
             ledger[s.at].snapshot # Null /\ s = SerialiseSnapshot(ledger[s.at].snapshot)
        /\ Covers(start.at, end.at, id.flows)
    BY <2>1, <2>4 DEF Filed, Stands
  <2>6. ASSUME NEW s \in {start, end}
        PROVE  /\ s \in {SerialiseSnapshot(x) : x \in Snapshots}
               /\ s.value = ChainAnswer(s.at, "value") /\ s.assets = ChainAnswer(s.at, "assets")
               /\ s.at \in DOMAIN ledger /\ Cite(s.at) = <<s.at, s.gen>>
    <3>. DEFINE x == ledger[s.at].snapshot
    <3>1. Stays(s) /\ x # Null /\ s = SerialiseSnapshot(x)
      BY <2>4, <2>5
    <3>2. s.at \in 1..Len(ledger) /\ ledger[s.at].gen = s.gen
      BY <3>1 DEF Stays, Alive
    <3>3. /\ s.at \in DOMAIN ledger /\ x \in Snapshots
          /\ x.assets = ChainAnswer(s.at, "assets") /\ x.value = ChainAnswer(s.at, "value")
      BY <3>1, <3>2, SnapshotsAreKnown DEF WindowInv
    <3>4. s.value = x.value /\ s.assets = x.assets
      BY <3>1 DEF SerialiseSnapshot
    <3>. HIDE DEF x
    <3>. QED
      BY <3>1, <3>2, <3>3, <3>4 DEF Cite
  <2>7. CitesCanonical(report.document.provenance)
    BY <2>2, <2>6 DEF Tells, CitesCanonical
  <2>. HIDE DEF id
  <2>8. /\ start.at < end.at
        /\ "distant" \in report.document.limitations <=> HalfADayOff(start.at, end.at, id.days)
        /\ "share_side" \in report.document.limitations <=> Sided(id.flows)
    BY <2>2 DEF Tells
  <2>9. /\ NetFlow(id.flows) = SumFunction([h \in (start.at + 1)..end.at |-> ChainFlow(h)])
        /\ Sided(id.flows) <=> \E h \in (start.at + 1)..end.at : MovesShareSupply(h)
    BY <2>5 DEF Covers
  <2>. QED
    BY <2>6, <2>7, <2>8, <2>9 DEF id
<1>. QED
  BY <1>1, WindowInvHolds, PTL

\* For all constants, a figure is absent only where a stored row names the call that gave
\* no answer, or where the two observations cannot be compared.
THEOREM AbsenceIsAlwaysExplained == Spec => []AbsenceIsExplained
<1>1. FilingInv /\ WindowInv => AbsenceIsExplained
  <2>. SUFFICES ASSUME FilingInv, WindowInv PROVE AbsenceIsExplained
    OBVIOUS
  <2>1. \A s \in Snapshots : s.status = "ok" <=> s.errors = {}
    BY SnapshotsAreKnown DEF WindowInv
  <2>2. ASSUME NEW r \in Requests, pc[r] = "evaluate"
        PROVE  LET start == req[r].start
                   end == req[r].end
                   draft == Draft(req[r])
               IN  /\ draft.assets = Null => Names(end, "assets")
                   /\ draft.bps = Null =>
                        \/ start = Null
                        \/ start # Null /\ (\/ start.units # end.units \/ start.schema # end.schema
                                            \/ start.value = 0
                                            \/ Names(start, "value"))
                        \/ Names(end, "value")
    <3>. DEFINE q == req[r]
                start == q.start
                end == q.end
                draft == Draft(q)
    <3>1. Window("evaluate", q)
      BY <2>2, WhatIsKnown
    <3>2. Noted(end) /\ (start # Null => Noted(start))
      BY <3>1 DEF Window, Reading
    <3>3. draft.assets = end.assets
      BY DEF Draft, BuildEvidence
    <3>4. draft.bps = IF CheckCompatibility(start, end) = {}
                      THEN ObserveShareValue(IF start = Null THEN Null ELSE start.value,
                                             end.value).bps
                      ELSE Null
      BY DEF Draft, BuildEvidence
    <3>5. CheckCompatibility(start, end) # {} =>
            start # Null /\ (start.units # end.units \/ start.schema # end.schema)
      BY DEF CheckCompatibility
    <3>6. ASSUME start # Null, start.value # Null, start.value # 0, end.value # Null
          PROVE  ObserveShareValue(start.value, end.value).bps # Null
      <4>1. start.value \in Nat \ {0} /\ end.value \in Nat
        BY <3>2, <3>6 DEF Noted, Observation
      <4>2. ObserveShareValue(start.value, end.value).bps \in Int
        BY <4>1, 0 \in Int, BasisPointsAreExact
      <4>. QED
        BY <4>2, NullAssumption
    <3>7. (end.assets = Null => Names(end, "assets")) /\ (end.value = Null => Names(end, "value"))
      BY <3>2 DEF Noted, Observation
    <3>8. start # Null /\ start.value = Null => Names(start, "value")
      BY <3>2 DEF Noted, Observation
    <3>. HIDE DEF q, draft
    <3>. QED
      BY <3>3, <3>4, <3>5, <3>6, <3>7, <3>8 DEF q, draft
  <2>. QED
    BY <2>1, <2>2 DEF AbsenceIsExplained
<1>. QED
  BY <1>1, WindowInvHolds, PTL

\* The return rule judges as exact arithmetic does.
LEMMA ReturnIsExact ==
  ASSUME NEW q, q.policy \in Policies, Noted(q.end), q.start # Null => Noted(q.start)
  PROVE  MinimumObservedReturn(q.policy, Draft(q)).status = ReturnVerdict(q)
<1>. DEFINE draft == Draft(q)
            start == q.start
            end == q.end
            policy == q.policy
            value == ObserveShareValue(start.value, end.value)
<1>1. draft.days = q.days
  BY DEF Draft, BuildEvidence
<1>2. draft.bps = IF CheckCompatibility(start, end) = {}
                  THEN ObserveShareValue(IF start = Null THEN Null ELSE start.value, end.value).bps
                  ELSE Null
  BY DEF Draft, BuildEvidence
<1>3. CheckCompatibility(start, end) = {} <=>
        start = Null \/ (start.units = end.units /\ start.schema = end.schema)
  BY DEF CheckCompatibility
<1>4. end.value \in Nat \cup {Null} /\ (start # Null => start.value \in Nat \cup {Null})
  BY DEF Noted, Observation
<1>. DEFINE comparable == /\ start # Null
                          /\ start.value \notin {Null, 0} /\ end.value # Null
                          /\ start.units = end.units /\ start.schema = end.schema
<1>5. ASSUME comparable
      PROVE  /\ draft.bps \in Int /\ draft.bps # Null
             /\ draft.bps >= policy.minBps
                  <=> BasisPointsScale * (end.value - start.value) >= policy.minBps * start.value
  <2>1. start.value \in Nat \ {0} /\ end.value \in Nat /\ policy.minBps \in Int
    BY <1>4, <1>5, PolicyAssumption
  <2>2. draft.bps = value.bps
    BY <1>2, <1>3, <1>5
  <2>. HIDE DEF draft
  <2>3. value.bps \in Int
        /\ (value.bps >= policy.minBps
              <=> BasisPointsScale * (end.value - start.value) >= policy.minBps * start.value)
    BY <2>1, BasisPointsAreExact
  <2>. QED
    BY <2>2, <2>3, NullAssumption
<1>6. ASSUME ~comparable PROVE draft.bps = Null
  <2>1. CASE CheckCompatibility(start, end) # {}
    BY <1>2, <2>1
  <2>2. CASE start = Null
    <3>1. ObserveShareValue(Null, end.value).bps = Null
      BY DEF ObserveShareValue
    <3>. QED
      BY <1>2, <2>2, <3>1
  <2>3. CASE start # Null /\ (start.value \in {Null, 0} \/ end.value = Null)
    <3>1. value.bps = Null
      BY <2>3 DEF ObserveShareValue
    <3>. QED
      BY <1>2, <2>3, <3>1
  <2>. QED
    BY <1>3, <1>6, <2>1, <2>2, <2>3
<1>7. KnownReturn(q) <=> comparable /\ q.days = policy.bpsDays
  BY DEF KnownReturn
<1>. HIDE DEF draft, comparable
<1>8. CASE ~comparable
  <2>1. MinimumObservedReturn(policy, draft).status = "UNKNOWN"
    BY <1>6, <1>8 DEF MinimumObservedReturn, Unknown
  <2>. QED
    BY <1>7, <1>8, <2>1 DEF ReturnVerdict, Verdict, draft
<1>9. CASE comparable /\ q.days # policy.bpsDays
  <2>1. MinimumObservedReturn(policy, draft).status = "UNKNOWN"
    BY <1>1, <1>5, <1>9 DEF MinimumObservedReturn, Unknown
  <2>. QED
    BY <1>7, <1>9, <2>1 DEF ReturnVerdict, Verdict, draft
<1>10. CASE comparable /\ q.days = policy.bpsDays
  <2>1. MinimumObservedReturn(policy, draft).status
          = IF draft.bps >= policy.minBps THEN "PASS" ELSE "FAIL"
    BY <1>1, <1>5, <1>10 DEF MinimumObservedReturn, AtLeast, Pass, Fail
  <2>. QED
    BY <1>5, <1>7, <1>10, <2>1 DEF ReturnVerdict, Verdict, draft
<1>. QED
  BY <1>8, <1>9, <1>10

\* So does the history rule, which has no elapsed time without a start.
LEMMA HistoryIsExact ==
  ASSUME NEW q, q.policy \in Policies, Noted(q.end), q.start # Null => Noted(q.start)
  PROVE  MinimumHistory(q.policy, Draft(q), q.deployed).status = HistoryVerdict(q)
<1>. DEFINE draft == Draft(q)
            policy == q.policy
            required == policy.historyDays * SecondsPerDay
            young == q.deployed # Null /\ q.end.time - q.deployed < required
<1>1. draft.time = q.end.time /\ draft.elapsed = ElapsedSeconds(q.start, q.end)
  BY DEF Draft, BuildEvidence
<1>2. required \in Nat \ {0}
  BY PolicyAssumption, DayAssumption
<1>3. q.end.time \in Nat /\ (q.start # Null => q.start.time \in Nat)
  BY FilingAssumption DEF Noted, Observation
<1>4. HistoryVerdict(q)
        = LET covered == IF q.start = Null THEN 0 ELSE q.end.time - q.start.time
          IN  Verdict(covered >= required \/ young, covered >= required)
  BY DEF HistoryVerdict
<1>. HIDE DEF required, draft
<1>5. CASE q.start = Null
  <2>1. draft.elapsed = Null /\ ~(0 >= required)
    BY <1>1, <1>2, <1>5 DEF ElapsedSeconds
  <2>2. MinimumHistory(policy, draft, q.deployed).status = IF young THEN "FAIL" ELSE "UNKNOWN"
    BY <1>1, <2>1 DEF MinimumHistory, Fail, Unknown, required
  <2>. QED
    BY <1>4, <1>5, <2>1, <2>2 DEF Verdict, draft
<1>6. CASE q.start # Null
  <2>. DEFINE covered == q.end.time - q.start.time
  <2>1. draft.elapsed = covered /\ covered \in Int /\ covered # Null
    BY <1>1, <1>3, <1>6, NullAssumption DEF ElapsedSeconds
  <2>. HIDE DEF covered
  <2>2. MinimumHistory(policy, draft, q.deployed).status
          = IF covered >= required THEN "PASS" ELSE IF young THEN "FAIL" ELSE "UNKNOWN"
    BY <1>1, <1>2, <2>1 DEF MinimumHistory, Pass, Fail, Unknown, required
  <2>. QED
    BY <1>4, <1>6, <2>2 DEF Verdict, draft, covered
<1>. QED
  BY <1>5, <1>6

\* For all constants, the rules say what exact arithmetic says of what was observed, and the
\* decision is the worst of them and never a pass without an account (evaluate.ts:14-20).
THEOREM VerdictsAreAlwaysExact == Spec => []VerdictsAreExact
<1>1. FilingInv /\ WindowInv => VerdictsAreExact
  <2>. SUFFICES ASSUME FilingInv, WindowInv, NEW r \in Requests, pc[r] = "evaluate"
       PROVE  LET evaluation == Evaluation(req[r])
                  verdicts == <<AssetVerdict(req[r]), HistoryVerdict(req[r]), TvlVerdict(req[r]),
                                ReturnVerdict(req[r])>>
              IN  /\ verdicts = <<evaluation.rules["underlyingAsset"].status,
                                  evaluation.rules["minimumHistory"].status,
                                  evaluation.rules["minimumTvl"].status,
                                  evaluation.rules["minimumObservedReturn"].status>>
                  /\ evaluation.status
                       = IF \E i \in 1..4 : verdicts[i] = "FAIL" THEN "FAIL" ELSE "UNKNOWN"
    BY DEF VerdictsAreExact
  <2>. DEFINE q == req[r]
              draft == Draft(q)
              rules == Evaluation(q).rules
              asset == AssetVerdict(q)
              history == HistoryVerdict(q)
              tvl == TvlVerdict(q)
              return == ReturnVerdict(q)
  <2>1. Window("evaluate", q) /\ Holds("evaluate", q)
    BY WhatIsKnown
  <2>2. q.policy \in Policies /\ Noted(q.end) /\ (q.start # Null => Noted(q.start))
    BY <2>1 DEF Window, Holds, Reading
  <2>3. /\ DOMAIN rules = RuleKeys
        /\ rules["underlyingAsset"] = UnderlyingAsset(q.policy, AssetKey)
        /\ rules["minimumHistory"] = MinimumHistory(q.policy, draft, q.deployed)
        /\ rules["minimumTvl"] = MinimumTvl(q.policy, draft)
        /\ rules["minimumObservedReturn"] = MinimumObservedReturn(q.policy, draft)
        /\ rules["minimumWithdrawableAssets"] = MinimumWithdrawable(q.policy, draft, Null)
        /\ Evaluation(q).status = OverallStatus(rules)
    BY DEF Evaluation, EvaluatePolicy, RuleKeys
  <2>4. rules["underlyingAsset"].status = asset
    <3>1. UnderlyingAsset(q.policy, AssetKey).status
            = IF AssetKey = Null THEN "UNKNOWN"
              ELSE IF AssetKey \in q.policy.assets THEN "PASS" ELSE "FAIL"
      BY DEF UnderlyingAsset, Pass, Fail, Unknown
    <3>. QED
      BY <2>3, <3>1 DEF AssetVerdict, Verdict
  <2>5. rules["minimumHistory"].status = history
    BY <2>2, <2>3, HistoryIsExact
  <2>6. rules["minimumTvl"].status = tvl
    <3>1. draft.assets = q.end.assets
      BY DEF Draft, BuildEvidence
    <3>. HIDE DEF draft
    <3>2. MinimumTvl(q.policy, draft).status
            = IF draft.assets = Null THEN "UNKNOWN"
              ELSE IF draft.assets >= q.policy.minTvl THEN "PASS" ELSE "FAIL"
      BY DEF MinimumTvl, AtLeast, Pass, Fail, Unknown
    <3>. QED
      BY <2>3, <3>1, <3>2 DEF TvlVerdict, Verdict
  <2>7. rules["minimumObservedReturn"].status = return
    BY <2>2, <2>3, ReturnIsExact
  <2>8. rules["minimumWithdrawableAssets"].status = "UNKNOWN"
    BY <2>3 DEF MinimumWithdrawable, Unknown
  <2>. HIDE DEF rules, asset, history, tvl, return
  <2>9. {rules[k].status : k \in DOMAIN rules} = {asset, history, tvl, return, "UNKNOWN"}
    BY <2>3, <2>4, <2>5, <2>6, <2>7, <2>8 DEF RuleKeys
  <2>10. Evaluation(q).status = IF "FAIL" \in {asset, history, tvl, return} THEN "FAIL" ELSE "UNKNOWN"
    BY <2>3, <2>9 DEF OverallStatus
  <2>11. (\E i \in 1..4 : <<asset, history, tvl, return>>[i] = "FAIL")
           <=> "FAIL" \in {asset, history, tvl, return}
    <3>1. 1..4 = {1, 2, 3, 4}
      OBVIOUS
    <3>2. /\ <<asset, history, tvl, return>>[1] = asset
          /\ <<asset, history, tvl, return>>[2] = history
          /\ <<asset, history, tvl, return>>[3] = tvl
          /\ <<asset, history, tvl, return>>[4] = return
      OBVIOUS
    <3>. QED
      BY <3>1, <3>2
  <2>. QED
    BY <2>4, <2>5, <2>6, <2>7, <2>10, <2>11 DEF asset, history, tvl, return, rules
<1>. QED
  BY <1>1, WindowInvHolds, PTL

\* The value that stands for an absent one is no record.  TLC cannot evaluate this, hence
\* it is a hypothesis and not an assumption.
NullIsNoRecord == Null # [field \in DOMAIN Null |-> Null[field]]

\* A block that is planned to be read has a snapshot.
LEMMA PlannedIsRead ==
  ASSUME NullIsNoRecord, LedgerInv, NEW h \in 1..Len(ledger),
         LET c == Content(h, ledger[h].content)
         IN  Vault \in PlanSnapshots(c.params, h, ExtractEvents(c.params, c.block))
  PROVE  \E s \in Snapshots : s.at = h
<1>. DEFINE i == ledger[h].content
            g == ledger[h].gen
            s == RowAt(h, i, g)
<1>1. /\ h \in 1..MaxBlock /\ i \in DOMAIN BlockContents[h] /\ g \in 0..repairs
      /\ ledger[h].snapshot = s
  BY FilingAssumption DEF LedgerInv, Streams
<1>2. \E row : s = [at |-> h, gen |-> g, time |-> BlockTime[h], assets |-> row.assets,
                    supply |-> row.supply, units |-> row.units, value |-> row.value,
                    schema |-> row.schema, status |-> row.status, errors |-> row.errors]
  BY DEF RowAt
<1>3. s # Null
  BY <1>2 DEF NullIsNoRecord
<1>4. s.at = h
  BY <1>2
<1>. HIDE DEF s
<1>. QED
  BY <1>1, <1>3, <1>4, SnapshotsAreKnown

\* A deposit or a withdrawal makes the vault active.
LEMMA MovesAreActivity ==
  ASSUME NEW h \in 1..MaxBlock, NEW i \in DOMAIN BlockContents[h],
         NEW j \in DOMAIN LogsOf(h, i), LogsOf(h, i)[j].address = Vault,
         LogsOf(h, i)[j].kind # "share_transfer"
  PROVE  Vault \in ActiveVaults(ExtractEvents(Content(h, i).params, Content(h, i).block))
<1>. DEFINE logs == LogsOf(h, i)
            params == Content(h, i).params
            curated == {k \in DOMAIN logs : IsCurated(params, logs[k])}
            decoded == Keep(logs, curated)
            flows == ExtractEvents(params, Content(h, i).block)
<1>1. PICK R : logs \in Seq(R)
  BY LogsAreDecoded
<1>2. curated \in SUBSET (1..Len(logs))
  BY <1>1
<1>3. decoded \in Seq(R) /\ \E p : Draws(decoded, logs, p, curated)
  <2>. HIDE DEF logs, curated
  <2>. QED
    BY <1>1, <1>2, KeepDraws
<1>4. j \in curated
  BY LogsAreDecoded DEF IsCurated
<1>5. flows = [k \in DOMAIN decoded |-> FlowRow(decoded[k])]
  BY DEF ExtractEvents, LogsOf
<1>. HIDE DEF decoded, curated, flows
<1>6. PICK l \in DOMAIN decoded : decoded[l] = logs[j]
  BY <1>3, <1>4 DEF Draws
<1>7. flows[l].vault = Vault /\ flows[l].kind \in {"deposit", "withdraw"} /\ l \in DOMAIN flows
  BY <1>5, <1>6, LogsAreDecoded, RowOfLog DEF Decoded
<1>. QED
  BY <1>7 DEF ActiveVaults, flows

\* A step of a request moves no other request.
LEMMA OthersStay ==
  ASSUME Carrying, [Next]_vars, NEW r \in Requests, pc'[r] # pc[r]
  PROVE  Ask(r) \/ Handle(r) \/ RequestLost(r)
<1>1. pc = [o \in Requests |-> pc[o]]
  BY DEF Carrying
<1>2. ASSUME NEW o \in Requests, NEW place, Goto(o, place) PROVE o = r
  BY <1>1, <1>2 DEF Goto
<1>3. CASE PromoteBlock \/ Repair \/ UNCHANGED vars
  BY <1>3 DEF PromoteBlock, Repair, vars, requestVars
<1>4. ASSUME NEW o \in Requests, Ask(o) \/ Handle(o) \/ RequestLost(o) PROVE o = r
  <2>1. \E place : Goto(o, place)
    BY <1>4 DEF Ask, Handle, RequestLost, EndRequest, ReadEnd, ReadStart, ReadFlows, Preview,
                Evaluate, StorePolicy, InsertVersion, ServeStored, InsertReport, Commit
  <2>. QED
    BY <1>2, <2>1
<1>. QED
  BY <1>3, <1>4 DEF Next

\* A request that has read the cursor is moved on by the statement that reads the end.
LEMMA EndIsRead ==
  ASSUME Carrying, [Next]_vars, NEW r \in Requests, pc[r] = "end", pc'[r] = "start"
  PROVE  /\ LatestAtOrBelow(req[r].asOf) # Null
         /\ req'[r].end = LatestAtOrBelow(req[r].asOf)
<1>1. Shaped(req[r]) /\ req = [o \in Requests |-> req[o]] /\ pc = [o \in Requests |-> pc[o]]
  BY DEF Carrying
<1>2. ~EndRequest(r)
  BY <1>1 DEF EndRequest, Goto
<1>3. Ask(r) \/ Handle(r) \/ RequestLost(r)
  BY OthersStay
<1>4. ReadEnd(r)
  BY <1>2, <1>3 DEF Ask, Handle, RequestLost, ReadStart, ReadFlows, Preview,
                    Evaluate, StorePolicy, InsertVersion, ServeStored, InsertReport, Commit
<1>5. PICK end : end = LatestAtOrBelow(req[r].asOf) /\ end # Null /\ req' = [req EXCEPT ![r].end = end]
  BY <1>2, <1>4 DEF ReadEnd
<1>6. req'[r].end = end
  BY <1>1, <1>5 DEF Shaped, Fields
<1>. QED
  BY <1>5, <1>6

\* And then by the one that reads the start.
LEMMA StartIsRead ==
  ASSUME Carrying, [Next]_vars, NEW r \in Requests, pc[r] = "start", pc'[r] = "flows"
  PROVE  req'[r].start = Opening(req[r].asOf, req[r].days, req[r].end)
<1>1. Shaped(req[r]) /\ req = [o \in Requests |-> req[o]] /\ pc = [o \in Requests |-> pc[o]]
  BY DEF Carrying
<1>2. ~EndRequest(r)
  BY <1>1 DEF EndRequest, Goto
<1>3. Ask(r) \/ Handle(r) \/ RequestLost(r)
  BY OthersStay
<1>4. ReadStart(r)
  BY <1>2, <1>3 DEF Ask, Handle, RequestLost, ReadEnd, ReadFlows, Preview,
                    Evaluate, StorePolicy, InsertVersion, ServeStored, InsertReport, Commit
<1>5. PICK start : /\ start = Opening(req[r].asOf, req[r].days, req[r].end)
                   /\ req' = [req EXCEPT ![r].start = start, ![r].asOf = 0]
  BY <1>4 DEF ReadStart
<1>. QED
  BY <1>1, <1>5 DEF Shaped, Fields

\* For all constants, a window ends above every deposit and withdrawal up to the block
\* that was attested (snapshots.rs:29-34, evidence-window.ts:96-100).
THEOREM NoFlowIsMissed == NullIsNoRecord => (Spec => NoFlowAfterTheEnd)
<1>. SUFFICES ASSUME NullIsNoRecord PROVE Spec => NoFlowAfterTheEnd
  OBVIOUS
<1>1. FilingInv /\ WindowInv /\ [Next]_vars =>
        [\A r \in Requests :
           pc[r] = "end" /\ pc'[r] = "start" =>
             \A h \in DOMAIN ledger :
               req'[r].end.at < h /\ h <= req[r].asOf =>
                 \A i \in DOMAIN ChainBlock(h).logs :
                   ChainBlock(h).logs[i].address = Vault =>
                     ChainBlock(h).logs[i].kind = "share_transfer"]_vars
  <2>. SUFFICES ASSUME FilingInv, WindowInv, [Next]_vars,
                       NEW r \in Requests, pc[r] = "end", pc'[r] = "start",
                       NEW h \in DOMAIN ledger, req'[r].end.at < h, h <= req[r].asOf,
                       NEW j \in DOMAIN ChainBlock(h).logs,
                       ChainBlock(h).logs[j].address = Vault,
                       ChainBlock(h).logs[j].kind # "share_transfer"
                PROVE  FALSE
    OBVIOUS
  <2>. DEFINE i == ledger[h].content
              c == Content(h, i)
              end == LatestAtOrBelow(req[r].asOf)
  <2>1. LedgerInv /\ Carrying
    BY DEF WindowInv, FilingInv, ServingInv
  <2>2. h \in 1..Len(ledger) /\ h \in 1..MaxBlock /\ i \in DOMAIN BlockContents[h]
    BY <2>1, FilingAssumption DEF LedgerInv, Streams
  <2>3. ChainBlock(h).logs = LogsOf(h, i)
    BY DEF ChainBlock, LogsOf, Content
  <2>. HIDE DEF i, end
  <2>4. /\ Vault \in ActiveVaults(ExtractEvents(c.params, c.block))
        /\ Vault \in DOMAIN c.params.vaults
    BY <2>2, <2>3, MovesAreActivity, LogsAreDecoded
  <2>5. Vault \in PlanSnapshots(c.params, h, ExtractEvents(c.params, c.block))
    BY <2>4 DEF PlanSnapshots
  <2>6. PICK s \in Snapshots : s.at = h
    BY <2>1, <2>2, <2>5, PlannedIsRead DEF i
  <2>7. end # Null /\ req'[r].end = end
    BY <2>1, EndIsRead DEF end
  <2>8. s.at <= end.at /\ end \in Snapshots
    BY <2>1, <2>6, <2>7, Latest DEF end
  <2>9. end.at \in Nat /\ h \in Nat
    BY <2>1, <2>2, <2>8, SnapshotsAreKnown DEF Noted, Observation
  <2>. QED
    BY <2>6, <2>7, <2>8, <2>9
<1>. QED
  BY <1>1, WindowInvHolds, PTL DEF NoFlowAfterTheEnd, Spec

\* Every release opens the window at one block of the chain.
AnchorIsAgreed ==
  \E anchor \in Nat \ {0} : \A h \in 1..MaxBlock : \A i \in DOMAIN BlockContents[h] :
    BlockContents[h][i].params.anchor = anchor

\* For all constants, if the releases agree on an anchor that is a block of the chain, every
\* window that ends above it has a start once it is promoted (config.rs:24-26).
THEOREM WindowsHaveAStart == AnchorIsAgreed /\ NullIsNoRecord => (Spec => AnchorIsAStart)
<1>. SUFFICES ASSUME AnchorIsAgreed, NullIsNoRecord PROVE Spec => AnchorIsAStart
  OBVIOUS
<1>1. FilingInv /\ WindowInv /\ [Next]_vars =>
        [\A r \in Requests :
           pc[r] = "start" /\ pc'[r] = "flows" =>
             LET anchors == {BlockContents[h][ledger[h].content].params.anchor : h \in DOMAIN ledger}
             IN  (\A a \in anchors : a < req[r].end.at /\ a <= Len(ledger)) /\ anchors # {} =>
                   req'[r].start # Null]_vars
  <2>. DEFINE anchors == {BlockContents[h][ledger[h].content].params.anchor : h \in DOMAIN ledger}
  <2>. SUFFICES ASSUME FilingInv, WindowInv, [Next]_vars,
                       NEW r \in Requests, pc[r] = "start", pc'[r] = "flows",
                       \A a \in anchors : a < req[r].end.at /\ a <= Len(ledger),
                       anchors # {}
                PROVE  req'[r].start # Null
    OBVIOUS
  <2>. PICK anchor \in Nat \ {0} : \A h \in 1..MaxBlock : \A i \in DOMAIN BlockContents[h] :
         BlockContents[h][i].params.anchor = anchor
    BY DEF AnchorIsAgreed
  <2>1. LedgerInv /\ Carrying
    BY DEF WindowInv, FilingInv, ServingInv
  <2>2. ASSUME NEW h \in DOMAIN ledger
        PROVE  h \in 1..MaxBlock /\ ledger[h].content \in DOMAIN BlockContents[h]
    <3>1. h \in 1..Len(ledger) /\ Len(ledger) \in 0..MaxBlock /\ Streams(h, ledger[h])
      BY <2>1 DEF LedgerInv
    <3>. QED
      BY <3>1, FilingAssumption DEF Streams
  <2>3. anchor \in anchors
    BY <2>2
  <2>4. anchor < req[r].end.at /\ anchor \in 1..Len(ledger)
    BY <2>1, <2>3, SnapshotsAreKnown
  <2>. DEFINE i == ledger[anchor].content
              c == Content(anchor, i)
  <2>5. anchor \in 1..MaxBlock /\ i \in DOMAIN BlockContents[anchor]
    BY <2>1, <2>2, <2>4, SnapshotsAreKnown
  <2>6. c.params.anchor = anchor /\ Vault \in DOMAIN c.params.vaults
    BY <2>5, LogsAreDecoded DEF Content
  <2>7. Vault \in PlanSnapshots(c.params, anchor, ExtractEvents(c.params, c.block))
    BY <2>6 DEF PlanSnapshots
  <2>8. \E s \in Snapshots : s.at = anchor
    BY <2>1, <2>4, <2>7, PlannedIsRead
  <2>9. Opening(req[r].asOf, req[r].days, req[r].end) \in Snapshots
    BY <2>1, <2>4, <2>8, Opens
  <2>10. Null \notin Snapshots
    BY DEF Snapshots
  <2>. QED
    BY <2>1, <2>9, <2>10, StartIsRead
<1>. QED
  BY <1>1, WindowInvHolds, PTL DEF AnchorIsAStart, Spec

=============================================================================
