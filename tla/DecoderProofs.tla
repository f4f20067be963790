---------------------------- MODULE DecoderProofs ----------------------------
(***************************************************************************)
(* For groups, words and payloads of any size: the numbers that Decoder    *)
(* reads, where they end, and the two cursors of an expression.            *)
(***************************************************************************)
EXTENDS Decoder, SequenceTheorems, WellFoundedInduction, TLAPS

-----------------------------------------------------------------------------
(* Induction and recursion, over sets and functions in place of operators. *)

LEMMA Induction ==
  ASSUME NEW S, 0 \in S, \A n \in Nat : n \in S => n + 1 \in S
  PROVE  \A n \in Nat : n \in S
<1> DEFINE T == Nat \ S
           R == OpToRel(<, Nat)
<1>1. ASSUME T # {} PROVE FALSE
  <2>1. IsWellFoundedOn(R, Nat)
    BY NatLessThanWellFounded
  <2> HIDE DEF R
  <2>2. T \subseteq Nat
    OBVIOUS
  <2>3. PICK n \in T : \A k \in T : <<k, n>> \notin R
    BY ONLY <1>1, <2>1, <2>2, WFMin
  <2>4. n - 1 \in T /\ n - 1 < n
    BY <2>3
  <2>5. <<n - 1, n>> \in R
    BY <2>2, <2>4 DEF R, OpToRel
  <2> QED BY <2>3, <2>4, <2>5
<1> QED BY <1>1

Steps(S) == [Nat \X S -> S]

(* Functions that begin with a and go on as F says. *)
Runs(S, a, F, D) == {g \in [D -> S] : g[0] = a /\ \A i \in D \ {0} : g[i] = F[<<i, g[i - 1]>>]}

LEMMA RunsAgree ==
  ASSUME NEW S, NEW a \in S, NEW F \in Steps(S), NEW n \in Nat, NEW k \in 0 .. n,
         NEW g \in Runs(S, a, F, 0 .. n), NEW h \in Runs(S, a, F, 0 .. k)
  PROVE  \A i \in 0 .. k : g[i] = h[i]
<1> DEFINE A == {i \in Nat : i <= k => g[i] = h[i]}
<1>1. 0 \in A
  BY DEF Runs
<1>2. ASSUME NEW i \in Nat, i \in A PROVE i + 1 \in A
  <2>1. CASE i + 1 <= k
    <3>1. i + 1 \in 1 .. k /\ i + 1 \in 1 .. n /\ (i + 1) - 1 = i
      BY <2>1
    <3>2. g[i] = h[i]
      BY <1>2, <2>1
    <3>3. g[i + 1] = F[<<i + 1, g[i]>>] /\ h[i + 1] = F[<<i + 1, h[i]>>]
      BY <3>1 DEF Runs
    <3> QED BY <3>2, <3>3
  <2>2. CASE ~(i + 1 <= k)
    BY <2>2
  <2> QED BY <2>1, <2>2
<1> HIDE DEF A
<1>3. \A i \in Nat : i \in A
  BY <1>1, <1>2, Induction
<1> QED BY <1>3 DEF A

LEMMA RunsExist ==
  ASSUME NEW S, NEW a \in S, NEW F \in Steps(S)
  PROVE  \A n \in Nat : Runs(S, a, F, 0 .. n) # {}
<1> DEFINE A == {n \in Nat : Runs(S, a, F, 0 .. n) # {}}
<1>1. 0 \in A
  <2>1. [i \in 0 .. 0 |-> a] \in Runs(S, a, F, 0 .. 0)
    BY DEF Runs
  <2> QED BY <2>1
<1>2. ASSUME NEW n \in Nat, n \in A PROVE n + 1 \in A
  <2>1. PICK g : g \in Runs(S, a, F, 0 .. n)
    BY <1>2
  <2> DEFINE v == F[<<n + 1, g[n]>>]
             h == [i \in 0 .. n + 1 |-> IF i = n + 1 THEN v ELSE g[i]]
  <2>2. /\ \A i \in 0 .. n : g[i] \in S
        /\ g[0] = a /\ \A i \in 1 .. n : g[i] = F[<<i, g[i - 1]>>]
    BY <2>1 DEF Runs
  <2>3. v \in S
    <3>1. <<n + 1, g[n]>> \in Nat \X S
      BY <2>2
    <3> QED BY <3>1 DEF Steps
  <2> HIDE DEF v
  <2>4. h \in [0 .. n + 1 -> S]
    BY <2>2, <2>3
  <2>5. h[0] = a
    BY <2>2
  <2>6. ASSUME NEW i \in 1 .. n + 1 PROVE h[i] = F[<<i, h[i - 1]>>]
    <3>1. i - 1 \in 0 .. n /\ h[i - 1] = g[i - 1]
      OBVIOUS
    <3>2. CASE i = n + 1
      <4>1. h[i] = v /\ h[i - 1] = g[n]
        BY <3>1, <3>2
      <4> HIDE DEF h
      <4> QED BY <3>2, <4>1 DEF v
    <3>3. CASE i # n + 1
      BY <2>2, <3>1, <3>3
    <3> QED BY <3>2, <3>3
  <2>7. h \in Runs(S, a, F, 0 .. n + 1)
    <3> HIDE DEF h
    <3>1. \A i \in (0 .. n + 1) \ {0} : i \in 1 .. n + 1
      OBVIOUS
    <3> QED BY ONLY <2>4, <2>5, <2>6, <3>1 DEF Runs
  <2> QED BY <2>7
<1> HIDE DEF A
<1>3. \A n \in Nat : n \in A
  BY <1>1, <1>2, Induction
<1> QED BY <1>3 DEF A

LEMMA Recursion ==
  ASSUME NEW S, NEW a \in S, NEW F \in Steps(S)
  PROVE  Runs(S, a, F, Nat) # {}
<1> DEFINE G(n) == CHOOSE g : g \in Runs(S, a, F, 0 .. n)
           f == [n \in Nat |-> G(n)[n]]
<1>1. \A n \in Nat : G(n) \in Runs(S, a, F, 0 .. n)
  BY RunsExist
<1> HIDE DEF G
<1>2. \A n \in Nat : G(n)[n] \in S
  BY <1>1 DEF Runs
<1>3. f[0] = a
  BY <1>1 DEF Runs
<1>4. ASSUME NEW n \in Nat \ {0} PROVE f[n] = F[<<n, f[n - 1]>>]
  <2>1. n - 1 \in Nat /\ n - 1 \in 0 .. n /\ n - 1 \in 0 .. n - 1 /\ n \in 1 .. n
    OBVIOUS
  <2>2. G(n) \in Runs(S, a, F, 0 .. n) /\ G(n - 1) \in Runs(S, a, F, 0 .. n - 1)
    BY <1>1, <2>1
  <2>3. G(n)[n] = F[<<n, G(n)[n - 1]>>]
    BY <2>1, <2>2 DEF Runs
  <2>4. G(n)[n - 1] = G(n - 1)[n - 1]
    <3> DEFINE g == G(n)
               h == G(n - 1)
               k == n - 1
    <3>1. n \in Nat /\ k \in 0 .. n /\ k \in 0 .. k /\ g \in Runs(S, a, F, 0 .. n) /\ h \in Runs(S, a, F, 0 .. k)
      BY <2>1, <2>2
    <3>2. a \in S /\ F \in Steps(S)
      OBVIOUS
    <3> HIDE DEF g, h, k
    <3>3. \A i \in 0 .. k : g[i] = h[i]
      BY ONLY <3>1, <3>2, RunsAgree
    <3>4. g[k] = h[k]
      BY ONLY <3>1, <3>3
    <3> QED BY <3>4 DEF g, h, k
  <2> QED BY <2>1, <2>3, <2>4
<1>5. f \in [Nat -> S]
  BY <1>2
<1>6. f \in Runs(S, a, F, Nat)
  BY <1>3, <1>4, <1>5 DEF Runs
<1> QED BY <1>6

-----------------------------------------------------------------------------
(* Powers of two.                                                          *)

LEMMA PowerIs ==
  /\ Pow2[0] = 1
  /\ \A n \in Nat : Pow2[n] \in Nat /\ Pow2[n + 1] = 2 * Pow2[n]
<1> DEFINE Twice == [p \in Nat \X Nat |-> 2 * p[2]]
           Doubles(f) == f = [n \in Nat |-> IF n = 0 THEN 1 ELSE 2 * f[n - 1]]
<1>0. Runs(Nat, 1, Twice, Nat) # {}
  <2>1. Twice \in Steps(Nat) /\ 1 \in Nat
    BY DEF Steps
  <2> HIDE DEF Twice
  <2> QED BY ONLY <2>1, Recursion
<1>1. PICK f \in [Nat -> Nat] : f[0] = 1 /\ \A n \in Nat \ {0} : f[n] = Twice[<<n, f[n - 1]>>]
  <2> HIDE DEF Twice, Doubles
  <2> QED BY <1>0 DEF Runs
<1>2. Doubles(f)
  <2>1. ASSUME NEW n \in Nat PROVE f[n] = IF n = 0 THEN 1 ELSE 2 * f[n - 1]
    <3>1. n # 0 => n - 1 \in Nat /\ f[n - 1] \in Nat
      OBVIOUS
    <3> QED BY <1>1, <3>1
  <2> QED BY <2>1
<1>3. Doubles(Pow2)
  <2>1. Pow2 = CHOOSE g : Doubles(g)
    BY DEF Pow2
  <2> HIDE DEF Doubles
  <2> QED BY <1>2, <2>1
<1>4. Pow2[0] = 1
  BY <1>3
<1>5. ASSUME NEW n \in Nat PROVE Pow2[n + 1] = 2 * Pow2[n]
  BY <1>3
<1> DEFINE A == {n \in Nat : Pow2[n] \in Nat}
<1>6. 0 \in A /\ \A n \in Nat : n \in A => n + 1 \in A
  BY <1>4, <1>5
<1> HIDE DEF A
<1>7. \A n \in Nat : n \in A
  BY <1>6, Induction
<1> QED BY <1>4, <1>5, <1>7 DEF A

LEMMA PowerAdds ==
  ASSUME NEW a \in Nat, NEW b \in Nat
  PROVE  Pow2[a + b] = Pow2[a] * Pow2[b] /\ Pow2[a] \in Nat \ {0}
<1> DEFINE A == {n \in Nat : Pow2[a + n] = Pow2[a] * Pow2[n]}
           B == {n \in Nat : Pow2[n] # 0}
<1>1. 0 \in A
  BY PowerIs
<1>2. ASSUME NEW n \in Nat, n \in A PROVE n + 1 \in A
  <2> DEFINE x == Pow2[a]
             y == Pow2[n]
  <2>1. x \in Nat /\ y \in Nat /\ Pow2[n + 1] = 2 * y /\ Pow2[a + (n + 1)] = 2 * Pow2[a + n] /\ Pow2[a + n] = x * y
    <3>1. a + n \in Nat /\ a + (n + 1) = (a + n) + 1
      OBVIOUS
    <3> QED BY <1>2, <3>1, PowerIs
  <2> HIDE DEF x, y
  <2>2. 2 * (x * y) = x * (2 * y)
    BY <2>1
  <2> QED BY <2>1, <2>2 DEF x
<1>3. 0 \in B /\ \A n \in Nat : n \in B => n + 1 \in B
  BY PowerIs
<1> HIDE DEF A, B
<1>4. (\A n \in Nat : n \in A) /\ \A n \in Nat : n \in B
  BY <1>1, <1>2, <1>3, Induction
<1> QED BY <1>4, PowerIs DEF A, B

-----------------------------------------------------------------------------
(* Words.                                                                  *)

LEMMA Modulo ==
  ASSUME NEW M \in Nat \ {0}, NEW x \in Int
  PROVE  /\ x % M \in 0 .. M - 1
         /\ x \in 0 .. M - 1 => x % M = x
BY SMT

Congruent(y, x, M) == \E q \in Int : y = x + q * M

LEMMA CongruentModulo ==
  ASSUME NEW M \in Nat \ {0}, NEW x \in Int, NEW y \in Int, Congruent(y, x, M)
  PROVE  y % M = x % M
<1>1. PICK d \in Int, r \in 0 .. M - 1 : x = d * M + r /\ x % M = r
  BY SMT
<1>2. PICK q \in Int : y = x + q * M
  BY DEF Congruent
<1>3. ASSUME NEW e \in Int, y = e * M + r PROVE y % M = r
  BY <1>3, SMT
<1>4. y = (d + q) * M + r
  <2>1. (d + q) * M = d * M + q * M /\ d * M \in Int /\ q * M \in Int
    BY SMT
  <2> QED BY <1>1, <1>2, <2>1
<1>5. d + q \in Int
  OBVIOUS
<1> QED BY <1>1, <1>3, <1>4, <1>5, Zenon

LEMMA SumOfNaturals ==
  ASSUME NEW a \in Nat, NEW b \in Nat
  PROVE  a + b \in Nat
OBVIOUS

LEMMA ModuloAdds ==
  ASSUME NEW M \in Nat \ {0}, NEW x \in Int, NEW y \in Int
  PROVE  ((x % M) + y) % M = (x + y) % M
<1>1. PICK d \in Int, r \in 0 .. M - 1 : x = d * M + r /\ x % M = r
  BY SMT
<1> DEFINE z == r + y
           u == x + y
<1>2. z \in Int /\ u \in Int /\ u = z + d * M
  <2>1. d * M \in Int
    BY SMT
  <2> QED BY <1>1, <2>1
<1>3. u % M = z % M
  <2> HIDE DEF z, u
  <2>1. Congruent(u, z, M)
    BY <1>2 DEF Congruent
  <2> QED BY <1>2, <2>1, CongruentModulo
<1> QED BY <1>1, <1>2, <1>3

-----------------------------------------------------------------------------
(* Sums.                                                                   *)

(* What the recursion of Total computes. *)
Summed(s, sum) == /\ sum \in [0 .. Len(s) -> Nat] /\ sum[0] = 0
                  /\ \A k \in 1 .. Len(s) : sum[k] = sum[k - 1] + s[k]

LEMMA SumsAgree ==
  ASSUME NEW s \in Seq(Nat), NEW t \in Seq(Nat), Len(t) <= Len(s), \A k \in 1 .. Len(t) : s[k] = t[k],
         NEW f, NEW g, Summed(s, f), Summed(t, g)
  PROVE  \A k \in 0 .. Len(t) : f[k] = g[k]
<1> DEFINE A == {k \in Nat : k <= Len(t) => f[k] = g[k]}
<1>1. 0 \in A
  BY DEF Summed
<1>2. ASSUME NEW k \in Nat, k \in A PROVE k + 1 \in A
  <2>1. CASE k + 1 <= Len(t)
    <3>1. k + 1 \in 1 .. Len(t) /\ k + 1 \in 1 .. Len(s) /\ (k + 1) - 1 = k
      BY <2>1, LenProperties
    <3>2. f[k] = g[k] /\ s[k + 1] = t[k + 1]
      BY <1>2, <2>1, <3>1, LenProperties
    <3>3. f[k + 1] = f[k] + s[k + 1] /\ g[k + 1] = g[k] + t[k + 1]
      BY <3>1 DEF Summed
    <3> QED BY <3>2, <3>3
  <2>2. CASE ~(k + 1 <= Len(t))
    BY <2>2
  <2> QED BY <2>1, <2>2
<1> HIDE DEF A
<1>3. \A k \in Nat : k \in A
  BY <1>1, <1>2, Induction
<1> QED BY <1>3 DEF A

LEMMA TotalIs ==
  ASSUME NEW s \in Seq(Nat)
  PROVE  \E sum : Summed(s, sum) /\ Total(s) = sum[Len(s)]
<1> DEFINE n == Len(s)
           Adds(f) == f = [k \in 0 .. n |-> IF k = 0 THEN 0 ELSE f[k - 1] + s[k]]
           F == [p \in Nat \X Nat |-> p[2] + (IF p[1] \in 1 .. n THEN s[p[1]] ELSE 0)]
<1>1. n \in Nat /\ \A k \in 1 .. n : s[k] \in Nat
  BY LenProperties, ElementOfSeq
<1>2. Runs(Nat, 0, F, Nat) # {}
  <2>1. F \in Steps(Nat)
    <3>1. ASSUME NEW p \in Nat \X Nat PROVE p[2] + (IF p[1] \in 1 .. n THEN s[p[1]] ELSE 0) \in Nat
      BY <1>1
    <3> QED BY <3>1 DEF Steps
  <2>2. 0 \in Nat
    OBVIOUS
  <2> HIDE DEF F
  <2> QED BY ONLY <2>1, <2>2, Recursion
<1>3. PICK f \in [Nat -> Nat] : f[0] = 0 /\ \A k \in Nat \ {0} : f[k] = F[<<k, f[k - 1]>>]
  <2> HIDE DEF F, Adds, n
  <2> QED BY <1>2 DEF Runs
<1> DEFINE g == [k \in 0 .. n |-> f[k]]
<1> HIDE DEF n
<1>4. Adds(g)
  <2>1. ASSUME NEW k \in 0 .. n PROVE f[k] = IF k = 0 THEN 0 ELSE g[k - 1] + s[k]
    <3>1. CASE k = 0
      BY <1>3, <3>1
    <3>2. CASE k # 0
      <4>1. k \in Nat \ {0} /\ k - 1 \in 0 .. n /\ k \in 1 .. n /\ f[k - 1] \in Nat
        BY <1>1, <3>2
      <4>2. F[<<k, f[k - 1]>>] = f[k - 1] + s[k]
        BY <4>1
      <4> QED BY <1>3, <3>2, <4>1, <4>2
    <3> QED BY <3>1, <3>2
  <2> QED BY <2>1
<1> DEFINE sum == CHOOSE h : Adds(h)
<1>5. Adds(sum)
  <2> HIDE DEF Adds
  <2> QED BY <1>4
<1>6. Total(s) = sum[n]
  BY DEF Total, n
<1> HIDE DEF sum, g, F
<1>7. sum[0] = 0 /\ \A k \in 1 .. n : sum[k] = sum[k - 1] + s[k]
  <2>1. sum = [k \in 0 .. n |-> IF k = 0 THEN 0 ELSE sum[k - 1] + s[k]]
    BY <1>5
  <2>2. 0 \in 0 .. n /\ \A k \in 1 .. n : k \in 0 .. n /\ k # 0
    BY <1>1
  <2> QED BY ONLY <2>1, <2>2
<1> DEFINE A == {k \in Nat : k <= n => sum[k] \in Nat}
<1>8. 0 \in A
  BY <1>7
<1>9. ASSUME NEW k \in Nat, k \in A PROVE k + 1 \in A
  <2>1. CASE k + 1 <= n
    <3>1. k + 1 \in 1 .. n /\ (k + 1) - 1 = k /\ k <= n
      BY <1>1, <2>1
    <3>2. sum[k] \in Nat
      BY <1>9, <3>1
    <3>3. sum[k + 1] = sum[k] + s[k + 1] /\ s[k + 1] \in Nat
      BY <1>1, <1>7, <3>1
    <3>4. sum[k] + s[k + 1] \in Nat
      BY ONLY <3>2, <3>3, SumOfNaturals, Zenon
    <3>5. sum[k + 1] \in Nat
      BY <3>3, <3>4, Zenon
    <3> QED BY <3>5
  <2> QED BY <2>1
<1> HIDE DEF A
<1>10. \A k \in Nat : k \in A
  BY <1>8, <1>9, Induction
<1>11. sum \in [0 .. n -> Nat]
  <2>1. \A k \in 0 .. n : sum[k] \in Nat
    BY <1>1, <1>10 DEF A
  <2>2. sum = [k \in 0 .. n |-> sum[k]]
    BY <1>5
  <2> QED BY <2>1, <2>2
<1> QED BY <1>6, <1>7, <1>11 DEF Summed, n

LEMMA TotalEmpty == Total(<<>>) = 0
<1>1. <<>> \in Seq(Nat) /\ Len(<<>>) = 0
  OBVIOUS
<1>2. PICK sum : Summed(<<>>, sum) /\ Total(<<>>) = sum[Len(<<>>)]
  BY <1>1, TotalIs
<1> QED BY <1>1, <1>2 DEF Summed

LEMMA TotalAppend ==
  ASSUME NEW s \in Seq(Nat), NEW x \in Nat
  PROVE  Total(Append(s, x)) = Total(s) + x /\ Total(s) \in Nat
<1> DEFINE t == Append(s, x)
<1>1. t \in Seq(Nat) /\ Len(t) = Len(s) + 1 /\ t[Len(s) + 1] = x /\ Len(s) \in Nat
      /\ \A k \in 1 .. Len(s) : t[k] = s[k]
  BY AppendProperties, LenProperties
<1> HIDE DEF t
<1>2. PICK f : Summed(t, f) /\ Total(t) = f[Len(t)]
  BY <1>1, TotalIs
<1>3. PICK g : Summed(s, g) /\ Total(s) = g[Len(s)]
  BY TotalIs
<1>4. f[Len(s)] = g[Len(s)]
  <2>1. \A k \in 0 .. Len(s) : f[k] = g[k]
    <3>1. Len(s) <= Len(t)
      BY <1>1
    <3> HIDE DEF t
    <3>2. \A k \in 1 .. Len(s) : t[k] = s[k]
      BY <1>1
    <3>3. t \in Seq(Nat) /\ s \in Seq(Nat) /\ Summed(t, f) /\ Summed(s, g)
      BY <1>1, <1>2, <1>3
    <3> QED BY ONLY <3>1, <3>2, <3>3, SumsAgree
  <2> QED BY <1>1, <2>1
<1>5. f[Len(s) + 1] = f[Len(s)] + x
  <2>1. Len(s) + 1 \in 1 .. Len(t) /\ (Len(s) + 1) - 1 = Len(s)
    BY <1>1
  <2> QED BY <1>1, <1>2, <2>1 DEF Summed
<1>6. g[Len(s)] \in Nat
  BY <1>1, <1>3 DEF Summed
<1> QED BY <1>1, <1>2, <1>3, <1>4, <1>5, <1>6 DEF t


(* A sum whose terms keep it below a growing bound. *)
Bounds(s, P) == P[0] > 0 /\ \A k \in 1 .. Len(s) : P[k - 1] + s[k] <= P[k]

LEMMA TotalBelow ==
  ASSUME NEW s \in Seq(Nat), NEW P \in [Nat -> Nat], Bounds(s, P)
  PROVE  Total(s) \in Nat /\ Total(s) < P[Len(s)]
<1> DEFINE n == Len(s)
<1>1. n \in Nat
  BY LenProperties
<1>2. PICK sum : Summed(s, sum) /\ Total(s) = sum[n]
  BY TotalIs
<1>0. n \in 0 .. n /\ sum \in [0 .. n -> Nat]
  BY <1>1, <1>2 DEF Summed
<1> DEFINE A == {k \in Nat : k <= n => sum[k] < P[k]}
<1>3. 0 \in A
  BY <1>2 DEF Summed, Bounds
<1>4. ASSUME NEW k \in Nat, k \in A PROVE k + 1 \in A
  <2>1. CASE k + 1 <= n
    <3> DEFINE a == sum[k]
               b == s[k + 1]
               p == P[k]
               q == P[k + 1]
               t == sum[k + 1]
    <3>1. k + 1 \in 1 .. n /\ (k + 1) - 1 = k /\ k <= n /\ k \in 0 .. n
      BY <1>1, <2>1
    <3>2. a \in Nat /\ b \in Nat /\ p \in Nat /\ q \in Nat
      <4>1. a \in Nat
        BY ONLY <1>0, <3>1
      <4>2. b \in Nat
        BY <3>1, ElementOfSeq
      <4>3. P \in [Nat -> Nat] /\ k \in Nat /\ k + 1 \in Nat
        OBVIOUS
      <4>4. p \in Nat /\ q \in Nat
        BY ONLY <4>3
      <4> QED BY ONLY <4>1, <4>2, <4>4
    <3>3. a < p
      BY <1>4, <3>1
    <3>4. p + b <= q /\ t = a + b
      BY <1>2, <3>1 DEF Summed, Bounds
    <3> HIDE DEF a, b, p, q, t
    <3>5. t < q
      BY ONLY <3>2, <3>3, <3>4
    <3> QED BY <3>5 DEF t, q
  <2>2. CASE ~(k + 1 <= n)
    BY <2>2
  <2> QED BY <2>1, <2>2
<1> HIDE DEF A
<1>5. \A k \in Nat : k \in A
  BY <1>3, <1>4, Induction
<1>6. sum[n] < P[n]
  BY <1>1, <1>5 DEF A
<1>7. sum[n] \in Nat
  BY ONLY <1>0
<1> QED BY <1>2, <1>6, <1>7

-----------------------------------------------------------------------------
(* The shifts and the words of Decoder.                                    *)

LEMMA PowerGrows ==
  ASSUME NEW a \in Nat, NEW b \in Nat, a <= b
  PROVE  /\ Pow2[b] = Pow2[b - a] * Pow2[a] /\ Pow2[a] <= Pow2[b]
         /\ Pow2[b - a] \in Nat \ {0} /\ Pow2[a] \in Nat \ {0} /\ Pow2[b] \in Nat \ {0}
<1> DEFINE c == b - a
           x == Pow2[c]
           y == Pow2[a]
<1>1. c \in Nat /\ c + a = b
  OBVIOUS
<1>2. Pow2[c + a] = x * y /\ x \in Nat \ {0} /\ y \in Nat \ {0} /\ Pow2[b] \in Nat \ {0}
  <2> HIDE DEF c
  <2> QED BY <1>1, PowerAdds
<1> HIDE DEF x, y
<1>3. y <= x * y
  BY <1>2, SMT
<1> QED BY <1>1, <1>2, <1>3 DEF x, y

LEMMA Sizes ==
  ASSUME NEW r \in Readers
  PROVE  /\ Bits(r) \in Nat \ {0} /\ Limit(r) \in Nat \ {0} /\ Bits(r) >= IntBits
         /\ Pow2[Bits(r)] \in Nat \ {0}
         /\ (Limit(r) - 1) * GroupBits < Bits(r) /\ Bits(r) <= Limit(r) * GroupBits
<1>1. Bits(r) \in Nat \ {0} /\ Bits(r) >= IntBits
  BY DecoderAssumption DEF Bits
<1>2. (Limit(r) - 1) * GroupBits < Bits(r) /\ Bits(r) <= Limit(r) * GroupBits /\ Limit(r) \in Nat
  BY DecoderAssumption DEF Bits, Limit
<1>3. Limit(r) # 0
  BY <1>1, <1>2, DecoderAssumption
<1>4. Pow2[Bits(r)] \in Nat \ {0}
  BY <1>1, PowerAdds
<1> QED BY <1>1, <1>2, <1>3, <1>4

LEMMA Shifts ==
  ASSUME NEW n \in Nat
  PROVE  /\ GroupBits * n \in Nat /\ GroupBits * (n + 1) = GroupBits * n + GroupBits
         /\ Pow2[GroupBits * n] \in Nat \ {0}
         /\ \A r \in Readers : (n < Limit(r) => GroupBits * n < Bits(r)) /\ (GroupBits * n < Bits(r) => n < Limit(r))
<1>1. GroupBits \in Nat \ {0}
  BY DecoderAssumption
<1>2. GroupBits * n \in Nat /\ GroupBits * (n + 1) = GroupBits * n + GroupBits
  BY <1>1
<1>3. Pow2[GroupBits * n] \in Nat \ {0}
  BY <1>2, PowerAdds
<1>4. ASSUME NEW r \in Readers PROVE (n < Limit(r) => GroupBits * n < Bits(r)) /\ (GroupBits * n < Bits(r) => n < Limit(r))
  <2> DEFINE L == Limit(r)
             B == Bits(r)
             G == GroupBits
  <2>1. L \in Nat \ {0} /\ B \in Nat /\ (L - 1) * G < B /\ B <= L * G /\ G \in Nat \ {0}
    BY <1>1, Sizes
  <2> HIDE DEF L, B, G
  <2>2. n < L => G * n <= (L - 1) * G
    BY <2>1, SMT
  <2>3. n >= L => L * G <= G * n
    BY <2>1, SMT
  <2>4. G * n \in Int /\ (L - 1) * G \in Int /\ L * G \in Int
    BY <2>1, SMT
  <2>5. (n < L => G * n < B) /\ (G * n < B => n < L)
    BY <2>1, <2>2, <2>3, <2>4
  <2> QED BY <2>5 DEF L, B, G
<1> QED BY <1>2, <1>3, <1>4

LEMMA Groups ==
  ASSUME NEW b \in Byte
  PROVE  /\ Group(b) \in 0 .. Pow2[GroupBits] - 1
         /\ Pow2[GroupBits] \in Nat \ {0} /\ Pow2[GroupBits] = 2 * Pow2[GroupBits - 1] /\ Pow2[GroupBits - 1] \in Nat
<1>1. GroupBits \in Nat \ {0} /\ GroupBits - 1 \in Nat /\ (GroupBits - 1) + 1 = GroupBits /\ GroupBits + 1 \in Nat
  BY DecoderAssumption
<1>2. Pow2[GroupBits] = 2 * Pow2[GroupBits - 1] /\ Pow2[GroupBits - 1] \in Nat
  BY <1>1, PowerIs
<1>3. Pow2[GroupBits] \in Nat \ {0} /\ Pow2[GroupBits + 1] \in Nat \ {0}
  BY <1>1, PowerAdds
<1> HIDE DEF Pow2
<1>4. b \in Int
  BY <1>3 DEF Byte
<1>5. Group(b) \in 0 .. Pow2[GroupBits] - 1
  BY <1>3, <1>4, Modulo DEF Group
<1> QED BY <1>2, <1>3, <1>4, <1>5

-----------------------------------------------------------------------------
(* The numbers that bytes mean.                                            *)

Terms(s) == [i \in 1 .. Len(s) |-> Group(s[i]) * Pow2[GroupBits * (i - 1)]]
Term(b, n) == Group(b) * Pow2[GroupBits * n]

LEMMA TermIs ==
  ASSUME NEW b \in Byte, NEW n \in Nat
  PROVE  Term(b, n) \in Nat /\ Pow2[GroupBits * n] + Term(b, n) <= Pow2[GroupBits * (n + 1)]
<1> DEFINE g == Group(b)
           x == Pow2[GroupBits * n]
           y == Pow2[GroupBits]
<1>1. g \in Nat /\ g + 1 <= y /\ y \in Nat /\ x \in Nat
  BY Groups, Shifts
<1>2. Pow2[GroupBits * (n + 1)] = x * y
  <2> DEFINE a == GroupBits * n
  <2>1. a \in Nat /\ GroupBits \in Nat /\ GroupBits * (n + 1) = a + GroupBits
    BY Shifts, DecoderAssumption
  <2> HIDE DEF a
  <2> QED BY <2>1, PowerAdds DEF a
<1> HIDE DEF g, x, y
<1>3. x + g * x <= x * y /\ g * x \in Nat
  <2>1. x + g * x = x * (g + 1) /\ g * x \in Nat
    BY <1>1, SMT
  <2>2. x * (g + 1) <= x * y
    BY <1>1, SMT
  <2> QED BY <2>1, <2>2
<1> QED BY <1>2, <1>3 DEF Term, g, x

LEMMA TermsAre ==
  ASSUME NEW s \in Seq(Byte)
  PROVE  /\ Terms(s) \in Seq(Nat) /\ Len(Terms(s)) = Len(s) /\ Len(s) \in Nat
         /\ \A i \in 1 .. Len(s) : Terms(s)[i] = Term(s[i], i - 1) /\ s[i] \in Byte
         /\ Unsigned(s) = Total(Terms(s))
<1>1. Len(s) \in Nat /\ \A i \in 1 .. Len(s) : s[i] \in Byte
  BY LenProperties, ElementOfSeq
<1>2. \A i \in 1 .. Len(s) : i - 1 \in Nat /\ Term(s[i], i - 1) \in Nat
  <2>1. \A i \in 1 .. Len(s) : i - 1 \in Nat
    BY <1>1
  <2> QED BY <1>1, <2>1, TermIs
<1>3. Terms(s) = [i \in 1 .. Len(s) |-> Term(s[i], i - 1)]
  BY DEF Terms, Term
<1>4. Unsigned(s) = Total(Terms(s))
  BY DEF Unsigned, Terms
<1> HIDE DEF Terms, Term, Unsigned
<1>5. Terms(s) \in [1 .. Len(s) -> Nat] /\ \A i \in 1 .. Len(s) : Terms(s)[i] = Term(s[i], i - 1)
  BY <1>2, <1>3
<1>6. Terms(s) \in Seq(Nat) /\ Len(Terms(s)) = Len(s)
  BY <1>1, <1>5, LenProperties
<1> QED BY <1>1, <1>4, <1>5, <1>6

LEMMA UnsignedBelow ==
  ASSUME NEW s \in Seq(Byte)
  PROVE  Unsigned(s) \in Nat /\ Unsigned(s) < Pow2[GroupBits * Len(s)]
<1> DEFINE P == [k \in Nat |-> Pow2[GroupBits * k]]
           t == Terms(s)
<1>1. P \in [Nat -> Nat] /\ P[0] = 1 /\ \A k \in Nat : P[k] = Pow2[GroupBits * k]
  <2>1. GroupBits * 0 = 0
    BY DecoderAssumption
  <2> QED BY <2>1, Shifts, PowerIs
<1>2. t \in Seq(Nat) /\ Len(t) = Len(s) /\ Len(s) \in Nat /\ Unsigned(s) = Total(t)
      /\ \A i \in 1 .. Len(s) : t[i] = Term(s[i], i - 1) /\ s[i] \in Byte
  BY TermsAre
<1> HIDE DEF P, t
<1>3. Bounds(t, P)
  <2>1. ASSUME NEW k \in 1 .. Len(t) PROVE P[k - 1] + t[k] <= P[k]
    <3>1. k - 1 \in Nat /\ (k - 1) + 1 = k /\ k \in Nat /\ k \in 1 .. Len(s)
      BY <1>2
    <3>2. Pow2[GroupBits * (k - 1)] + Term(s[k], k - 1) <= Pow2[GroupBits * k]
      BY <1>2, <3>1, TermIs
    <3> QED BY <1>1, <1>2, <3>1, <3>2
  <2> QED BY <1>1, <2>1 DEF Bounds
<1>4. Total(t) \in Nat /\ Total(t) < P[Len(t)]
  BY <1>1, <1>2, <1>3, TotalBelow
<1> QED BY <1>1, <1>2, <1>4

LEMMA UnsignedAppend ==
  ASSUME NEW s \in Seq(Byte), NEW b \in Byte
  PROVE  Unsigned(Append(s, b)) = Unsigned(s) + Term(b, Len(s)) /\ Term(b, Len(s)) \in Nat
<1> DEFINE t == Append(s, b)
           n == Len(s)
           x == Term(b, n)
<1>1. t \in Seq(Byte) /\ Len(t) = n + 1 /\ n \in Nat /\ t[n + 1] = b /\ \A i \in 1 .. n : t[i] = s[i]
  BY AppendProperties, LenProperties
<1>2. x \in Nat
  BY <1>1, TermIs
<1>3. Terms(t) = Append(Terms(s), x)
  <2> DEFINE u == Append(Terms(s), x)
  <2>1. Terms(s) \in Seq(Nat) /\ Len(Terms(s)) = n /\ \A i \in 1 .. n : Terms(s)[i] = Term(s[i], i - 1)
    BY TermsAre
  <2>2. Terms(t) \in Seq(Nat) /\ Len(Terms(t)) = n + 1 /\ \A i \in 1 .. n + 1 : Terms(t)[i] = Term(t[i], i - 1)
    BY <1>1, TermsAre
  <2> HIDE DEF x
  <2>3. u \in Seq(Nat) /\ Len(u) = n + 1 /\ u[n + 1] = x /\ \A i \in 1 .. n : u[i] = Terms(s)[i]
    BY <1>2, <2>1, AppendProperties
  <2> HIDE DEF t, u, n
  <2>4. ASSUME NEW i \in 1 .. n + 1 PROVE u[i] = Terms(t)[i]
    <3>1. CASE i = n + 1
      <4>1. Terms(t)[i] = Term(b, n)
        <5>1. (n + 1) - 1 = n
          BY <1>1
        <5> QED BY <1>1, <2>2, <3>1, <5>1
      <4> QED BY <2>3, <3>1, <4>1 DEF x
    <3>2. CASE i # n + 1
      <4>1. i \in 1 .. n
        BY <1>1, <3>2
      <4> QED BY <1>1, <2>1, <2>2, <2>3, <4>1
    <3> QED BY <3>1, <3>2
  <2>5. u = Terms(t)
    BY <2>2, <2>3, <2>4, SeqEqual
  <2> QED BY <2>5 DEF u
<1>4. Unsigned(t) = Total(Terms(t)) /\ Unsigned(s) = Total(Terms(s)) /\ Terms(s) \in Seq(Nat)
  BY <1>1, TermsAre
<1> HIDE DEF t, x
<1>5. Total(Append(Terms(s), x)) = Total(Terms(s)) + x
  BY <1>2, <1>4, TotalAppend
<1> QED BY <1>2, <1>3, <1>4, <1>5 DEF t, x

LEMMA UnsignedEmpty == Unsigned(<<>>) = 0
<1>1. [i \in 1 .. Len(<<>>) |-> Group(<<>>[i]) * Pow2[GroupBits * (i - 1)]] = <<>>
  OBVIOUS
<1> QED BY <1>1, TotalEmpty DEF Unsigned

(* The or of two words is a word. *)
LEMMA BitOrIsAWord ==
  ASSUME NEW x, NEW y
  PROVE  BitOr(x, y) \in Nat /\ BitOr(x, y) < Pow2[IntBits]
<1> DEFINE s == [i \in 1 .. IntBits |-> IF Bit(x, i - 1) = 1 \/ Bit(y, i - 1) = 1 THEN Pow2[i - 1] ELSE 0]
<1>1. IntBits \in Nat /\ \A i \in 1 .. IntBits : i - 1 \in Nat /\ Pow2[i - 1] \in Nat /\ Pow2[i] = 2 * Pow2[i - 1]
  <2>1. IntBits \in Nat
    BY DecoderAssumption
  <2>2. \A i \in 1 .. IntBits : i - 1 \in Nat /\ (i - 1) + 1 = i
    BY <2>1
  <2> QED BY <2>1, <2>2, PowerIs
<1>2. \A i \in 1 .. IntBits : s[i] = Pow2[i - 1] \/ s[i] = 0
  OBVIOUS
<1>3. s \in [1 .. IntBits -> Nat]
  BY <1>1
<1>4. s \in Seq(Nat) /\ Len(s) = IntBits
  <2> HIDE DEF s
  <2> QED BY <1>1, <1>3
<1> HIDE DEF s
<1> DEFINE P == [k \in Nat |-> Pow2[k]]
<1>5. P \in [Nat -> Nat] /\ P[0] = 1 /\ \A k \in Nat : P[k] = Pow2[k]
  BY PowerIs
<1> HIDE DEF P
<1>6. Bounds(s, P)
  <2>1. ASSUME NEW k \in 1 .. Len(s) PROVE P[k - 1] + s[k] <= P[k]
    <3>1. k - 1 \in Nat /\ k \in Nat /\ k \in 1 .. IntBits
      BY <1>1, <1>4
    <3>2. P[k - 1] = Pow2[k - 1] /\ P[k] = 2 * Pow2[k - 1] /\ Pow2[k - 1] \in Nat
      BY <1>1, <1>5, <3>1
    <3> QED BY <1>2, <3>1, <3>2
  <2> QED BY <1>5, <2>1 DEF Bounds
<1>7. Total(s) \in Nat /\ Total(s) < P[Len(s)]
  BY <1>4, <1>5, <1>6, TotalBelow
<1> QED BY <1>1, <1>4, <1>5, <1>7 DEF BitOr, s

-----------------------------------------------------------------------------
(* The inductive invariant.                                                *)

NumOK ==
  /\ reader \in Readers
  /\ ret \in 0 .. Pow2[Bits(reader)] - 1
  /\ shift \in {n * GroupBits : n \in 0 .. MaxBytes} /\ byteLast \in Byte
  /\ field \in Seq(Byte)

RestOK ==
  /\ pc \in {"ready", "reading", "done", "float", "double", "thrown", "refused"}
  /\ cb \in 0 .. MaxBytes /\ cbData \in Int
  /\ expr \in {"none", "operand"} /\ eaten \in 0 .. MaxBytes

(* Within a number: the bytes read are its first, all of them say that     *)
(* another follows, but perhaps the last, and ret is what they mean, as    *)
(* long as fread_struct has not gone on past the width.                    *)
ReadInv ==
  pc = "reading" =>
    /\ shift = GroupBits * Len(field)
    /\ \A i \in 1 .. Len(field) - 1 : More(field[i])
    /\ reader # "file" => /\ Len(field) <= Limit(reader)
                          /\ byteLast = IF field = <<>> THEN 0 ELSE Last(field)
    /\ Len(field) <= Limit(reader) => ret = Unsigned(field) % Pow2[Bits(reader)]

(* The bytes of a payload are those read and those left. *)
SizesInv ==
  /\ eaten + cb <= MaxBytes /\ Len(field) <= MaxBytes
  /\ reader # "file" => Len(field) + cb <= MaxBytes

(* In an expression the caller's size is behind by what has been eaten. *)
CursorInv ==
  /\ pc \in {"float", "double"} => expr = "operand"
  /\ expr = "operand" => cbData = cb + eaten
  /\ expr = "none" => eaten = 0
  /\ CallerFollows

State == NumOK /\ RestOK /\ ReadInv /\ SizesInv /\ CursorInv
IInv == State /\ NumbersMeanTheirBytes /\ FieldsAreWhole

LEMMA FieldIs ==
  ASSUME NEW s \in Seq(Byte)
  PROVE  /\ Len(s) \in Nat /\ (s = <<>> <=> Len(s) = 0) /\ Last(s) = s[Len(s)]
         /\ \A i \in 1 .. Len(s) : s[i] \in Byte
         /\ s # <<>> => Last(s) \in Byte
<1>1. Len(s) \in Nat /\ (s = <<>> <=> Len(s) = 0) /\ \A i \in 1 .. Len(s) : s[i] \in Byte
  BY LenProperties, ElementOfSeq, EmptySeq
<1>2. Last(s) = s[Len(s)]
  BY DEF Last
<1>3. s # <<>> => Len(s) \in 1 .. Len(s)
  BY <1>1
<1> QED BY <1>1, <1>2, <1>3

LEMMA Zeros == 0 \in Byte /\ 0 \in {n * GroupBits : n \in 0 .. MaxBytes}
<1>1. 0 * GroupBits = 0 /\ 0 \in 0 .. MaxBytes /\ GroupBits + 1 \in Nat
  BY DecoderAssumption
<1>2. Pow2[GroupBits + 1] \in Nat \ {0}
  BY <1>1, PowerAdds
<1>3. 0 \in Byte
  BY <1>2 DEF Byte
<1>4. 0 \in {n * GroupBits : n \in 0 .. MaxBytes}
  BY <1>1
<1> QED BY <1>3, <1>4

LEMMA Starts ==
  ASSUME NEW r \in Readers, Start(r)
  PROVE  NumOK' /\ ReadInv' /\ field' = <<>> /\ reader' = r /\ pc' = "reading"
<1> DEFINE M == Pow2[Bits(r)]
<1>1. M \in Nat \ {0} /\ 0 \in 0 .. M - 1
  BY Sizes
<1> HIDE DEF M
<1>2. 0 % M = 0
  BY <1>1, Modulo
<1>3. GroupBits * 0 = 0
  BY DecoderAssumption
<1>4. 0 \in Byte /\ 0 \in {n * GroupBits : n \in 0 .. MaxBytes}
  BY Zeros
<1>5. reader' = r /\ ret' = 0 /\ shift' = 0 /\ byteLast' = 0 /\ field' = <<>> /\ pc' = "reading"
  BY DEF Start
<1>6. <<>> \in Seq(Byte) /\ Len(<<>>) = 0
  OBVIOUS
<1>7. NumOK'
  BY <1>1, <1>4, <1>5, <1>6 DEF NumOK, M
<1>8. Limit(r) \in Nat
  BY Sizes
<1>9. ReadInv'
  <2>1. shift' = GroupBits * Len(field')
    BY <1>3, <1>5, <1>6
  <2>2. \A i \in 1 .. Len(field') - 1 : More(field'[i])
    BY <1>5, <1>6
  <2>3. Len(field') <= Limit(reader') /\ byteLast' = IF field' = <<>> THEN 0 ELSE Last(field')
    BY <1>5, <1>6, <1>8
  <2>4. ret' = Unsigned(field') % Pow2[Bits(reader')]
    BY <1>2, <1>5, UnsignedEmpty DEF M
  <2> QED BY <2>1, <2>2, <2>3, <2>4 DEF ReadInv
<1> QED BY <1>5, <1>7, <1>9

(* A byte placed in the word is a byte read of the number. *)
LEMMA Places ==
  ASSUME NumOK, pc = "reading", ReadInv, NEW b \in Byte
  PROVE  /\ Placed(b) \in 0 .. Pow2[Bits(reader)] - 1
         /\ Len(field) <= Limit(reader) => Placed(b) = Unsigned(Append(field, b)) % Pow2[Bits(reader)]
<1> DEFINE M == Pow2[Bits(reader)]
           U == Unsigned(field)
           T == Term(b, Len(field))
<1>1. M \in Nat \ {0}
  BY Sizes DEF NumOK
<1>2. U \in Nat /\ T \in Nat /\ Unsigned(Append(field, b)) = U + T
  BY UnsignedBelow, UnsignedAppend DEF NumOK
<1>3. Placed(b) = (ret + T) % M
  BY DEF Placed, Term, ReadInv
<1>4. ret \in Int /\ (Len(field) <= Limit(reader) => ret = U % M)
  BY <1>1 DEF NumOK, ReadInv
<1> HIDE DEF M, U, T
<1>5. ret + T \in Int
  BY <1>2, <1>4
<1>6. (ret + T) % M \in 0 .. M - 1
  BY <1>1, <1>5, Modulo
<1>7. ((U % M) + T) % M = (U + T) % M
  <2>1. U \in Int /\ T \in Int
    BY <1>2
  <2> QED BY ONLY <1>1, <2>1, ModuloAdds
<1> QED BY <1>2, <1>3, <1>4, <1>6, <1>7 DEF M

(* What every byte does to a number. *)
LEMMA GoesOnByOne ==
  ASSUME NumOK, ReadInv, Continues, Len(field) < MaxBytes, NEW b \in Byte,
         reader' = reader, shift' = shift + GroupBits, field' = Append(field, b)
  PROVE  /\ field' \in Seq(Byte) /\ Len(field') = Len(field) + 1 /\ Last(field') = b /\ field' # <<>>
         /\ shift' \in {n * GroupBits : n \in 0 .. MaxBytes}
         /\ shift' = GroupBits * Len(field')
         /\ \A i \in 1 .. Len(field') - 1 : More(field'[i])
<1> DEFINE n == Len(field)
<1>1. field \in Seq(Byte) /\ n \in Nat /\ pc = "reading"
  BY LenProperties DEF NumOK, Continues
<1>2. field' \in Seq(Byte) /\ Len(field') = n + 1 /\ field'[n + 1] = b /\ \A i \in 1 .. n : field'[i] = field[i]
  BY <1>1, AppendProperties
<1>3. Last(field') = b /\ field' # <<>>
  <2> DEFINE t == Append(field, b)
  <2>1. t \in Seq(Byte) /\ Len(t) = n + 1 /\ t[n + 1] = b /\ field' = t
    BY <1>1, AppendProperties
  <2> HIDE DEF t
  <2>2. t # <<>> /\ Last(t) = t[n + 1]
    BY <1>1, <2>1, FieldIs
  <2> QED BY <2>1, <2>2
<1>4. shift = GroupBits * n
  BY <1>1 DEF ReadInv
<1>5. GroupBits * n \in Nat /\ GroupBits * (n + 1) = GroupBits * n + GroupBits /\ GroupBits \in Nat
  BY <1>1, Shifts, DecoderAssumption
<1>6. shift' = GroupBits * (n + 1)
  BY <1>4, <1>5
<1>7. n + 1 \in 0 .. MaxBytes /\ GroupBits * (n + 1) = (n + 1) * GroupBits
  BY <1>1, <1>5, DecoderAssumption
<1>8. ASSUME NEW i \in 1 .. n PROVE More(field'[i])
  <2>1. CASE i = n
    <3>1. field # <<>>
      BY <1>1, <2>1, FieldIs
    <3>2. More(Last(field)) /\ Last(field) = field[n]
      BY <1>1, <3>1, FieldIs DEF Continues
    <3> QED BY <1>2, <2>1, <3>2
  <2>2. CASE i # n
    <3>1. i \in 1 .. n - 1
      BY <1>1, <2>2
    <3> QED BY <1>1, <1>2, <3>1 DEF ReadInv
  <2> QED BY <2>1, <2>2
<1>9. (n + 1) - 1 = n
  BY <1>1
<1>10. shift' \in {k * GroupBits : k \in 0 .. MaxBytes}
  BY <1>6, <1>7
<1>11. \A i \in 1 .. Len(field') - 1 : More(field'[i])
  BY <1>2, <1>8, <1>9
<1> QED BY <1>2, <1>3, <1>6, <1>10, <1>11

-----------------------------------------------------------------------------
(* A step is an action or none.                                            *)

(* Only Finish ends a number. *)
NotDone == pc' # "done"

LEMMA NotDoneIsEnough ==
  ASSUME NotDone
  PROVE  NumbersMeanTheirBytes' /\ FieldsAreWhole'
BY DEF NotDone, NumbersMeanTheirBytes, ReadsMeaning, FieldsAreWhole

LEMMA FailKeeps ==
  ASSUME State, NEW how \in {"thrown", "refused"}, Fail(how)
  PROVE  IInv'
<1> USE DEF Fail, numVars
<1>1. State'
  BY DEF State, NumOK, RestOK, ReadInv, SizesInv, CursorInv, CallerFollows
<1>2. NotDone
  BY DEF NotDone
<1> QED BY <1>1, <1>2, NotDoneIsEnough DEF IInv

LEMMA BeginKeeps ==
  ASSUME State, NEW r \in Readers, Begin(r)
  PROVE  IInv'
<1>1. Start(r) /\ pc = "ready" /\ expr = "none" /\ cb' = cb /\ cbData' = cbData /\ expr' = expr /\ eaten' = eaten
  BY DEF Begin
<1>2. NumOK' /\ ReadInv' /\ field' = <<>> /\ pc' = "reading"
  BY <1>1, Starts
<1>3. RestOK'
  BY <1>1, <1>2 DEF State, RestOK
<1>4. SizesInv'
  <2>1. MaxBytes \in Nat /\ cb \in 0 .. MaxBytes /\ eaten + cb <= MaxBytes
    BY DecoderAssumption DEF State, SizesInv, RestOK
  <2>2. Len(field') = 0
    BY <1>2
  <2> QED BY <1>1, <2>1, <2>2 DEF SizesInv
<1>5. CursorInv'
  BY <1>1, <1>2 DEF State, CursorInv, CallerFollows
<1>6. NotDone
  BY <1>2 DEF NotDone
<1> QED BY <1>2, <1>3, <1>4, <1>5, <1>6, NotDoneIsEnough DEF IInv, State

LEMMA ReadByteKeeps ==
  ASSUME State, NEW b \in Byte, ReadByte(b)
  PROVE  IInv'
<1> DEFINE n == Len(field)
<1>1. /\ Continues /\ pc = "reading" /\ reader # "file" /\ n < Limit(reader) /\ cb > 0
      /\ ret' = Placed(b) /\ shift' = shift + GroupBits /\ byteLast' = b /\ field' = Append(field, b)
      /\ pc' = pc /\ reader' = reader /\ expr' = expr
  BY DEF ReadByte, Continues, GoesOn
<1>2. cb' = cb - 1 /\ cbData' = (IF expr = "none" THEN cb - 1 ELSE cbData) /\ eaten' = IF expr = "none" THEN 0 ELSE eaten + 1
  BY DEF ReadByte, Take
<1>3. NumOK /\ ReadInv /\ reader \in Readers /\ field \in Seq(Byte) /\ n \in Nat
  BY LenProperties DEF State, NumOK
<1>4. cb \in Nat /\ cbData \in Int /\ eaten \in Nat /\ MaxBytes \in Nat
      /\ eaten + cb <= MaxBytes /\ n + cb <= MaxBytes /\ expr \in {"none", "operand"}
  BY <1>1, DecoderAssumption DEF State, RestOK, SizesInv
<1>5. n < MaxBytes
  BY <1>1, <1>3, <1>4
<1>6. /\ field' \in Seq(Byte) /\ Len(field') = n + 1 /\ Last(field') = b /\ field' # <<>>
      /\ shift' \in {k * GroupBits : k \in 0 .. MaxBytes} /\ shift' = GroupBits * Len(field')
      /\ \A i \in 1 .. Len(field') - 1 : More(field'[i])
  BY <1>1, <1>3, <1>5, GoesOnByOne
<1>7. Limit(reader) \in Nat
  BY <1>3, Sizes
<1>8. ret' \in 0 .. Pow2[Bits(reader)] - 1 /\ ret' = Unsigned(field') % Pow2[Bits(reader)]
  BY <1>1, <1>3, <1>7, Places
<1>9. NumOK'
  BY <1>1, <1>3, <1>6, <1>8 DEF NumOK
<1>10. ReadInv'
  <2>1. Len(field') <= Limit(reader)
    BY <1>1, <1>3, <1>6, <1>7
  <2> QED BY <1>1, <1>6, <1>8, <2>1 DEF ReadInv
<1> HIDE DEF n
<1>11. RestOK'
  BY <1>1, <1>2, <1>4 DEF RestOK
<1>12. SizesInv'
  BY <1>1, <1>2, <1>3, <1>4, <1>5, <1>6 DEF SizesInv
<1>13. CursorInv'
  BY <1>1, <1>2, <1>4 DEF State, CursorInv, CallerFollows
<1>14. NotDone
  BY <1>1 DEF NotDone
<1> QED BY <1>9, <1>10, <1>11, <1>12, <1>13, <1>14, NotDoneIsEnough DEF IInv, State

LEMMA ReadFileByteKeeps ==
  ASSUME State, NEW b \in Byte, ReadFileByte(b)
  PROVE  IInv'
<1> DEFINE n == Len(field)
<1>1. /\ Continues /\ pc = "reading" /\ reader = "file" /\ n < MaxBytes
      /\ ret' \in PlacedInFile(b) /\ shift' = shift + GroupBits /\ byteLast' = byteLast /\ field' = Append(field, b)
      /\ pc' = pc /\ reader' = reader /\ expr' = expr /\ cb' = cb /\ cbData' = cbData /\ eaten' = eaten
  BY DEF ReadFileByte, Continues
<1>2. NumOK /\ ReadInv /\ reader \in Readers /\ field \in Seq(Byte) /\ n \in Nat /\ shift = GroupBits * n
  BY <1>1, LenProperties DEF State, NumOK, ReadInv
<1>3. /\ field' \in Seq(Byte) /\ Len(field') = n + 1 /\ Last(field') = b /\ field' # <<>>
      /\ shift' \in {k * GroupBits : k \in 0 .. MaxBytes} /\ shift' = GroupBits * Len(field')
      /\ \A i \in 1 .. Len(field') - 1 : More(field'[i])
  BY <1>1, <1>2, GoesOnByOne
<1>4. Bits(reader) = IntBits /\ Limit(reader) = IntBytes /\ Limit(reader) \in Nat
  BY <1>1, DecoderAssumption DEF Bits, Limit
<1>5. /\ Placed(b) \in 0 .. Pow2[IntBits] - 1
      /\ n <= Limit(reader) => Placed(b) = Unsigned(field') % Pow2[IntBits]
  BY <1>1, <1>2, <1>4, Places
<1>6. ret' \in 0 .. Pow2[IntBits] - 1
  <2>1. CASE shift < IntBits
    BY <1>1, <1>5, <2>1 DEF PlacedInFile
  <2>2. CASE ~(shift < IntBits)
    <3> DEFINE y == (Group(b) * Pow2[shift % IntBits]) % Pow2[IntBits]
    <3>1. ret' = ret \/ ret' = BitOr(ret, y)
      BY <1>1, <2>2 DEF PlacedInFile
    <3>2. BitOr(ret, y) \in Nat /\ BitOr(ret, y) < Pow2[IntBits]
      <4> HIDE DEF y
      <4> QED BY BitOrIsAWord
    <3>3. Pow2[IntBits] \in Nat
      BY DecoderAssumption, PowerAdds
    <3>4. BitOr(ret, y) \in 0 .. Pow2[IntBits] - 1
      BY <3>2, <3>3
    <3> QED BY <1>2, <1>4, <3>1, <3>4 DEF NumOK
  <2> QED BY <2>1, <2>2
<1>7. Len(field') <= Limit(reader) => ret' = Unsigned(field') % Pow2[IntBits]
  <2>1. ASSUME Len(field') <= Limit(reader) PROVE n < Limit(reader) /\ n <= Limit(reader) /\ shift < IntBits
    BY <1>2, <1>3, <1>4, <2>1, Shifts
  <2>2. shift < IntBits => ret' = Placed(b)
    BY <1>1 DEF PlacedInFile
  <2> QED BY <1>5, <2>1, <2>2
<1>8. NumOK'
  BY <1>1, <1>2, <1>3, <1>4, <1>6 DEF NumOK
<1>9. ReadInv'
  <2>1. reader' = "file"
    BY <1>1
  <2> QED BY <1>1, <1>3, <1>4, <1>7, <2>1 DEF ReadInv
<1>10. RestOK'
  BY <1>1 DEF State, RestOK
<1>11. SizesInv'
  <2>1. MaxBytes \in Nat /\ eaten + cb <= MaxBytes
    BY DecoderAssumption DEF State, SizesInv
  <2>2. n + 1 <= MaxBytes
    BY <1>1, <1>2, <2>1
  <2>3. Len(field') = n + 1 /\ cb' = cb /\ eaten' = eaten /\ reader' = "file"
    BY <1>1, <1>3
  <2> QED BY <2>1, <2>2, <2>3 DEF SizesInv
<1>12. CursorInv'
  BY <1>1 DEF State, CursorInv, CallerFollows
<1>13. NotDone
  BY <1>1 DEF NotDone
<1> QED BY <1>8, <1>9, <1>10, <1>11, <1>12, <1>13, NotDoneIsEnough DEF IInv, State

(* The number that ends: the bits of ret from shift on become one, when it *)
(* is negative and does not fill the word.                                 *)

LEMMA OnesFromIsAWord ==
  ASSUME NumOK, NEW k \in 0 .. Bits(reader)
  PROVE  OnesFrom(k) \in 0 .. Pow2[Bits(reader)] - 1
<1> DEFINE M == Pow2[Bits(reader)]
           P == Pow2[k]
<1>1. Bits(reader) \in Nat
  BY Sizes DEF NumOK
<1>2. k \in Nat /\ k <= Bits(reader)
  BY <1>1
<1>3. P \in Nat \ {0} /\ M \in Nat \ {0} /\ P <= M
  BY <1>1, <1>2, PowerGrows
<1>4. ret \in Int
  BY <1>3 DEF NumOK
<1> HIDE DEF M, P
<1>5. ret % P \in 0 .. P - 1
  BY <1>3, <1>4, Modulo
<1>6. (ret % P) + M - P \in 0 .. M - 1
  BY <1>3, <1>5
<1> QED BY <1>6 DEF OnesFrom, M, P

LEMMA ExtendedIsAWord ==
  ASSUME NumOK, ExtendsSign, NEW v \in Extended
  PROVE  v \in 0 .. Pow2[Bits(reader)] - 1
<1>1. shift \in Nat
  <2>1. PICK n \in 0 .. MaxBytes : shift = n * GroupBits
    BY DEF NumOK
  <2>2. n \in Nat /\ GroupBits \in Nat
    BY DecoderAssumption
  <2> QED BY <2>1, <2>2
<1>2. shift < Bits(reader) /\ Bits(reader) \in Nat /\ IntBits <= Bits(reader) /\ IntBits \in Nat \ {0}
  BY Sizes, DecoderAssumption DEF ExtendsSign, NumOK
<1>3. shift % IntBits \in 0 .. IntBits - 1
  BY <1>1, <1>2, Modulo
<1>4. shift \in 0 .. Bits(reader) /\ shift % IntBits \in 0 .. Bits(reader)
  BY <1>1, <1>2, <1>3
<1>5. v = OnesFrom(shift) \/ v = OnesFrom(shift % IntBits)
  BY DEF Extended
<1> QED BY <1>4, <1>5, OnesFromIsAWord

(* A negative number that fills the word needs no sign. *)
LEMMA WholeWord ==
  ASSUME NEW B \in Nat, NEW k \in Nat, B <= k, NEW u \in Nat
  PROVE  (u - Pow2[k]) % Pow2[B] = u % Pow2[B]
<1> DEFINE M == Pow2[B]
           P == Pow2[k]
           c == Pow2[k - B]
           y == u - P
<1>1. P = c * M /\ M \in Nat \ {0} /\ c \in Nat
  BY PowerGrows
<1> HIDE DEF M, P, c
<1>2. y \in Int /\ y = u + (-c) * M /\ -c \in Int
  <2>1. (-c) * M = -(c * M) /\ c * M \in Int
    BY <1>1, SMT
  <2> QED BY <1>1, <2>1
<1> HIDE DEF y
<1>3. Congruent(y, u, M)
  BY <1>2 DEF Congruent
<1>4. y % M = u % M
  <2>1. u \in Int
    OBVIOUS
  <2> QED BY ONLY <1>1, <1>2, <1>3, <2>1, CongruentModulo
<1> QED BY <1>4 DEF y, M, P

(* One that does not is extended. *)
LEMMA ShortWord ==
  ASSUME NEW B \in Nat, NEW k \in Nat, k <= B, NEW u \in Nat, u < Pow2[k]
  PROVE  ((u % Pow2[B]) % Pow2[k]) + Pow2[B] - Pow2[k] = (u - Pow2[k]) % Pow2[B]
<1> DEFINE M == Pow2[B]
           P == Pow2[k]
           y == u - P
           z == u + M - P
<1>1. P \in Nat \ {0} /\ M \in Nat \ {0} /\ P <= M
  BY PowerGrows
<1>2. u < P
  OBVIOUS
<1> HIDE DEF M, P
<1>3. u \in 0 .. P - 1 /\ u \in 0 .. M - 1
  BY <1>1, <1>2
<1>4. u % M = u /\ u % P = u
  <2>1. u \in Int
    OBVIOUS
  <2> QED BY ONLY <1>1, <1>3, <2>1, Modulo
<1>5. y \in Int /\ z \in Int /\ z = y + 1 * M /\ z \in 0 .. M - 1
  BY <1>1, <1>2
<1> HIDE DEF y
<1>6. z % M = y % M
  <2> HIDE DEF z
  <2>1. Congruent(z, y, M)
    BY <1>5 DEF Congruent
  <2> QED BY <1>1, <1>5, <2>1, CongruentModulo
<1>7. z % M = z
  <2> HIDE DEF z
  <2> QED BY <1>1, <1>5, Modulo
<1>8. z = y % M
  BY <1>6, <1>7
<1>9. ((u % M) % P) + M - P = z
  BY <1>4
<1> QED BY <1>8, <1>9 DEF M, P, y

(* What Finish leaves in ret is what the bytes mean. *)
LEMMA FinishReads ==
  ASSUME NumOK, ReadInv, Finish, IsNumber(field),
         ~(reader = "varint64" /\ Negative(byteLast) /\ shift \in IntBits .. LongBits - 1)
  PROVE  ret' = Meaning(field) % Pow2[Bits(reader)]
<1> DEFINE n == Len(field)
           U == Unsigned(field)
           B == Bits(reader)
<1>1. pc = "reading" /\ field # <<>> /\ n <= Limit(reader) /\ reader \in Readers /\ field \in Seq(Byte)
  BY DEF Finish, IsNumber, NumOK
<1>2. n \in Nat /\ shift = GroupBits * n /\ ret = U % Pow2[B] /\ shift \in Nat /\ B \in Nat
  BY <1>1, LenProperties, Shifts, Sizes DEF ReadInv
<1>3. U \in Nat /\ U < Pow2[shift]
  BY <1>1, <1>2, UnsignedBelow
<1>4. ret' \in IF reader \in Signed /\ ExtendsSign THEN Extended ELSE {ret}
  BY DEF Finish
<1> HIDE DEF n, U, B
<1>5. CASE ~(reader \in Signed /\ Negative(Last(field)))
  <2>1. reader \in Signed => byteLast = Last(field)
    BY <1>1 DEF ReadInv, Signed
  <2>2. ret' = ret
    BY <1>4, <1>5, <2>1 DEF ExtendsSign
  <2>3. Meaning(field) = U
    BY <1>5 DEF Meaning, U
  <2> QED BY <1>2, <2>2, <2>3 DEF B
<1>6. CASE reader \in Signed /\ Negative(Last(field))
  <2>1. byteLast = Last(field)
    BY <1>1, <1>6 DEF ReadInv, Signed
  <2>2. Meaning(field) = U - Pow2[shift]
    BY <1>2, <1>6 DEF Meaning, U, n
  <2>3. CASE B <= shift
    <3>1. ret' = ret
      BY <1>2, <1>4, <2>3 DEF ExtendsSign, B
    <3> QED BY <1>2, <1>3, <2>2, <2>3, <3>1, WholeWord DEF B
  <2>4. CASE shift < B
    <3>1. shift < IntBits
      BY <1>2, <1>6, <2>1, <2>4, DecoderAssumption DEF B, Bits, Signed
    <3>2. ExtendsSign
      BY <1>6, <2>1, <2>4 DEF ExtendsSign, B
    <3>3. ret' = OnesFrom(shift)
      BY <1>4, <1>6, <3>1, <3>2 DEF Extended
    <3>4. ret' = ((U % Pow2[B]) % Pow2[shift]) + Pow2[B] - Pow2[shift]
      BY <1>2, <3>3 DEF OnesFrom, B
    <3>5. shift <= B
      BY <1>2, <2>4
    <3>6. ((U % Pow2[B]) % Pow2[shift]) + Pow2[B] - Pow2[shift] = (U - Pow2[shift]) % Pow2[B]
      BY <1>2, <1>3, <3>5, ShortWord
    <3> QED BY <2>2, <3>4, <3>6 DEF B
  <2> QED BY <1>2, <2>3, <2>4
<1> QED BY <1>5, <1>6

LEMMA FinishEnds ==
  ASSUME NumOK, ReadInv, cb \in Nat, Finish
  PROVE  FieldsAreWhole'
<1>1. /\ pc = "reading" /\ ~Continues /\ reader \in Readers /\ field \in Seq(Byte)
      /\ pc' = "done" /\ field' = field /\ cb' = cb /\ reader' = reader
  BY DEF Finish, NumOK
<1>2. Len(field) \in Nat /\ (field = <<>> <=> Len(field) = 0) /\ Limit(reader) \in Nat \ {0}
  BY <1>1, FieldIs, Sizes
<1>3. \A i \in 1 .. Len(field) - 1 : More(field[i])
  BY <1>1 DEF ReadInv
<1>4. (field # <<>> => More(Last(field))) => reader # "file" /\ ~(Len(field) < Limit(reader) /\ cb > 0)
  BY <1>1 DEF Continues, GoesOn
<1>5. reader # "file" => Len(field) <= Limit(reader)
  BY <1>1 DEF ReadInv
<1>6. ASSUME field # <<>>, More(Last(field)) PROVE cb = 0 \/ Len(field) = Limit(reader)
  BY <1>2, <1>4, <1>5, <1>6
<1>7. ASSUME field = <<>> PROVE cb = 0
  BY <1>2, <1>4, <1>7
<1> QED BY <1>1, <1>3, <1>6, <1>7 DEF FieldsAreWhole

LEMMA FinishKeeps ==
  ASSUME State, Finish
  PROVE  IInv'
<1>1. /\ pc = "reading" /\ pc' = "done" /\ reader' = reader /\ shift' = shift /\ byteLast' = byteLast /\ field' = field
      /\ cb' = cb /\ cbData' = cbData /\ expr' = expr /\ eaten' = eaten
      /\ ret' \in IF reader \in Signed /\ ExtendsSign THEN Extended ELSE {ret}
  BY DEF Finish
<1>2. NumOK /\ ReadInv /\ cb \in Nat
  BY DEF State, RestOK
<1>3. ret' \in 0 .. Pow2[Bits(reader)] - 1
  <2>1. CASE reader \in Signed /\ ExtendsSign
    BY <1>1, <1>2, <2>1, ExtendedIsAWord
  <2>2. CASE ~(reader \in Signed /\ ExtendsSign)
    BY <1>1, <1>2, <2>2 DEF NumOK
  <2> QED BY <2>1, <2>2
<1>4. NumOK'
  BY <1>1, <1>2, <1>3 DEF NumOK
<1>5. ReadInv' /\ RestOK' /\ SizesInv' /\ CursorInv'
  BY <1>1 DEF State, ReadInv, RestOK, SizesInv, CursorInv, CallerFollows
<1>6. NumbersMeanTheirBytes'
  <2>1. CASE reader = "varint64" /\ Negative(byteLast) /\ shift \in IntBits .. LongBits - 1
    BY <1>1, <2>1 DEF NumbersMeanTheirBytes
  <2>2. CASE ~(reader = "varint64" /\ Negative(byteLast) /\ shift \in IntBits .. LongBits - 1)
    <3>1. IsNumber(field) => ret' = Meaning(field) % Pow2[Bits(reader)]
      BY <1>2, <2>2, FinishReads
    <3>2. IsNumber(field)' = IsNumber(field) /\ Meaning(field)' = Meaning(field)
      BY <1>1 DEF IsNumber, Meaning
    <3> QED BY <1>1, <3>1, <3>2 DEF NumbersMeanTheirBytes, ReadsMeaning
  <2> QED BY <2>1, <2>2
<1>7. FieldsAreWhole'
  BY <1>2, FinishEnds
<1> QED BY <1>4, <1>5, <1>6, <1>7 DEF IInv, State

(* Taking n bytes of the payload, and nothing else. *)
LEMMA FixedKeeps ==
  ASSUME State, NEW n \in Nat, Fixed(n), pc \in {"ready", "done", "float", "double"}
  PROVE  IInv'
<1>1. CASE cb < n
  BY <1>1, FailKeeps DEF Fixed
<1>2. CASE ~(cb < n)
  <2>1. /\ pc' = "ready" /\ reader' = reader /\ ret' = ret /\ shift' = shift /\ byteLast' = byteLast /\ field' = field
        /\ expr' = expr
        /\ cb' = cb - n /\ cbData' = (IF expr = "none" THEN cb - n ELSE cbData)
        /\ eaten' = IF expr = "none" THEN 0 ELSE eaten + n
    BY <1>2 DEF Fixed, Take, numVars
  <2>2. /\ cb \in Nat /\ cb <= MaxBytes /\ cbData \in Int /\ eaten \in Nat /\ MaxBytes \in Nat /\ n <= cb
        /\ eaten + cb <= MaxBytes /\ expr \in {"none", "operand"} /\ Len(field) \in Nat
    BY <1>2, LenProperties, DecoderAssumption DEF State, RestOK, SizesInv, NumOK
  <2>3. NumOK' /\ ReadInv'
    BY <2>1 DEF State, NumOK, ReadInv
  <2>4. RestOK'
    BY <2>1, <2>2 DEF RestOK
  <2>5. SizesInv'
    BY <2>1, <2>2 DEF State, SizesInv
  <2>6. CursorInv'
    <3>1. expr = "operand" => cbData = cb + eaten
      BY DEF State, CursorInv
    <3> QED BY <2>1, <2>2, <3>1 DEF CursorInv, CallerFollows
  <2>7. NotDone
    BY <2>1 DEF NotDone
  <2> QED BY <2>3, <2>4, <2>5, <2>6, <2>7, NotDoneIsEnough DEF IInv, State
<1> QED BY <1>1, <1>2

LEMMA UseNumberKeeps ==
  ASSUME State, UseNumber
  PROVE  IInv'
<1> USE DEF UseNumber, numVars
<1>1. State'
  BY DEF State, NumOK, RestOK, ReadInv, SizesInv, CursorInv, CallerFollows
<1>2. NotDone
  BY DEF NotDone
<1> QED BY <1>1, <1>2, NotDoneIsEnough DEF IInv

LEMMA ReadStringKeeps ==
  ASSUME State, ReadString
  PROVE  IInv'
<1>1. Pow2[Bits(reader)] \in Nat
  BY Sizes DEF State, NumOK
<1>2. ret \in Nat
  BY <1>1 DEF State, NumOK
<1> QED BY <1>2, FixedKeeps DEF ReadString

LEMMA EatOpcodeKeeps ==
  ASSUME State, NEW op \in Opcode, EatOpcode(op)
  PROVE  IInv'
<1>1. pc = "ready" /\ expr = "none"
  BY DEF EatOpcode
<1>2. CASE cb = 0
  BY <1>2, FailKeeps DEF EatOpcode
<1>3. CASE cb # 0 /\ op = "other"
  BY <1>3, FailKeeps DEF EatOpcode
<1>4. CASE cb # 0 /\ op # "other"
  <2>1. expr' = "operand" /\ cb' = cb - 1 /\ eaten' = 1 /\ cbData' = cbData
    BY <1>4 DEF EatOpcode
  <2>2. \/ \E r \in Signed : Start(r)
        \/ pc' \in {"float", "double"} /\ UNCHANGED numVars
    <3>1. CASE op = "i32_const"
      BY <1>4, <3>1 DEF EatOpcode, Signed
    <3>2. CASE op = "i64_const"
      BY <1>4, <3>2 DEF EatOpcode, Signed
    <3>3. CASE op = "f32_const"
      BY <1>4, <3>3 DEF EatOpcode
    <3>4. CASE op = "f64_const"
      BY <1>4, <3>4 DEF EatOpcode
    <3> QED BY <1>4, <3>1, <3>2, <3>3, <3>4 DEF Opcode
  <2>3. /\ cb \in Nat /\ cb > 0 /\ cb <= MaxBytes /\ MaxBytes \in Nat /\ cbData \in Int /\ cbData = cb
        /\ Len(field) \in Nat /\ Len(field) <= MaxBytes /\ (reader # "file" => Len(field) + cb <= MaxBytes)
    BY <1>1, <1>4, LenProperties, DecoderAssumption DEF State, NumOK, RestOK, SizesInv, CursorInv, CallerFollows
  <2> DEFINE Fits == /\ NumOK' /\ ReadInv' /\ pc' \in {"reading", "float", "double"}
                     /\ Len(field') \in Nat /\ Len(field') <= MaxBytes
                     /\ (reader' # "file" => Len(field') + (cb - 1) <= MaxBytes)
  <2>4. Fits
    <3>1. ASSUME NEW r \in Signed, Start(r)
          PROVE  NumOK' /\ ReadInv' /\ pc' = "reading" /\ Len(field') = 0
      <4>1. r \in Readers
        BY DEF Readers
      <4>2. NumOK' /\ ReadInv' /\ field' = <<>> /\ pc' = "reading"
        BY <3>1, <4>1, Starts
      <4> QED BY <4>2
    <3>2. ASSUME \E r \in Signed : Start(r) PROVE Fits
      BY <2>3, <3>1, <3>2
    <3>3. ASSUME pc' \in {"float", "double"}, UNCHANGED numVars PROVE Fits
      <4>1. NumOK' /\ ReadInv'
        BY <3>3 DEF State, NumOK, ReadInv, numVars
      <4>2. field' = field /\ reader' = reader
        BY <3>3 DEF numVars
      <4> QED BY <2>3, <3>3, <4>1, <4>2
    <3> QED BY <2>2, <3>2, <3>3
  <2>5. RestOK'
    BY <2>1, <2>3, <2>4 DEF RestOK
  <2>6. SizesInv'
    BY <2>1, <2>3, <2>4 DEF SizesInv
  <2>7. CursorInv'
    BY <2>1, <2>3 DEF CursorInv, CallerFollows
  <2>8. NotDone
    BY <2>4 DEF NotDone
  <2> QED BY <2>4, <2>5, <2>6, <2>7, <2>8, NotDoneIsEnough DEF IInv, State
<1> QED BY <1>2, <1>3, <1>4

LEMMA EatFloatKeeps ==
  ASSUME State, EatFloat
  PROVE  IInv'
<1>1. FloatBytes \in Nat /\ 2 * FloatBytes \in Nat
  BY DecoderAssumption
<1> QED BY <1>1, FixedKeeps DEF EatFloat

LEMMA EatEndKeeps ==
  ASSUME State, NEW isEnd \in BOOLEAN, EatEnd(isEnd)
  PROVE  IInv'
<1>1. expr = "operand" /\ pc \in {"ready", "done"}
  BY DEF EatEnd, AtEnd
<1>2. CASE cb = 0
  BY <1>2, FailKeeps DEF EatEnd
<1>3. CASE cb # 0 /\ ~isEnd
  BY <1>3, FailKeeps DEF EatEnd
<1>4. CASE cb # 0 /\ isEnd
  <2>1. /\ pc' = "ready" /\ expr' = "none" /\ cb' = cb - 1 /\ cbData' = cbData - (eaten + 1) /\ eaten' = 0
        /\ reader' = reader /\ ret' = ret /\ shift' = shift /\ byteLast' = byteLast /\ field' = field
    BY <1>4 DEF EatEnd, numVars
  <2>2. /\ cb \in Nat /\ cb > 0 /\ cb <= MaxBytes /\ MaxBytes \in Nat /\ cbData = cb + eaten /\ eaten \in Nat
        /\ Len(field) \in Nat
    BY <1>1, <1>4, LenProperties, DecoderAssumption DEF State, NumOK, RestOK, CursorInv
  <2>3. cbData' = cb - 1
    BY <2>1, <2>2
  <2>4. NumOK' /\ ReadInv'
    BY <2>1 DEF State, NumOK, ReadInv
  <2>5. RestOK'
    BY <2>1, <2>2, <2>3 DEF RestOK
  <2>6. SizesInv'
    BY <2>1, <2>2 DEF State, SizesInv
  <2>7. CursorInv'
    BY <2>1, <2>3 DEF CursorInv, CallerFollows
  <2>8. NotDone
    BY <2>1 DEF NotDone
  <2> QED BY <2>4, <2>5, <2>6, <2>7, <2>8, NotDoneIsEnough DEF IInv, State
<1> QED BY <1>2, <1>3, <1>4

LEMMA InitEstablishes ==
  ASSUME Init
  PROVE  IInv
<1>1. NumOK
  <2>1. "varuint32" \in Readers
    BY DEF Readers
  <2>2. 0 \in 0 .. Pow2[Bits("varuint32")] - 1
    BY <2>1, Sizes
  <2> QED BY <2>1, <2>2, Zeros DEF Init, NumOK
<1>2. RestOK /\ SizesInv /\ CursorInv /\ ReadInv
  BY DecoderAssumption DEF Init, RestOK, SizesInv, CursorInv, CallerFollows, ReadInv
<1>3. NumbersMeanTheirBytes /\ FieldsAreWhole
  BY DEF Init, NumbersMeanTheirBytes, ReadsMeaning, FieldsAreWhole
<1> QED BY <1>1, <1>2, <1>3 DEF IInv, State

LEMMA StepKeeps ==
  ASSUME IInv, [Next]_vars
  PROVE  IInv'
<1>1. State
  BY DEF IInv
<1>2. ASSUME NEW r \in Readers, Begin(r) PROVE IInv'
  BY <1>1, <1>2, BeginKeeps
<1>3. ASSUME NEW b \in Byte, ReadByte(b) PROVE IInv'
  BY <1>1, <1>3, ReadByteKeeps
<1>4. ASSUME NEW b \in Byte, ReadFileByte(b) PROVE IInv'
  BY <1>1, <1>4, ReadFileByteKeeps
<1>5. CASE EndOfFile
  BY <1>1, <1>5, FailKeeps DEF EndOfFile
<1>6. CASE Finish
  BY <1>1, <1>6, FinishKeeps
<1>7. CASE UseNumber
  BY <1>1, <1>7, UseNumberKeeps
<1>8. CASE ReadString
  BY <1>1, <1>8, ReadStringKeeps
<1>9. ASSUME NEW n \in Nat, ReadFixed(n) PROVE IInv'
  BY <1>1, <1>9, FixedKeeps DEF ReadFixed
<1>10. 1 \in Nat /\ FloatBytes \in Nat
  BY DecoderAssumption
<1>11. ASSUME NEW op \in Opcode, EatOpcode(op) PROVE IInv'
  BY <1>1, <1>11, EatOpcodeKeeps
<1>12. CASE EatFloat
  BY <1>1, <1>12, EatFloatKeeps
<1>13. ASSUME NEW isEnd \in BOOLEAN, EatEnd(isEnd) PROVE IInv'
  BY <1>1, <1>13, EatEndKeeps
<1>14. CASE UNCHANGED vars
  BY <1>14 DEF vars, numVars, IInv, State, NumOK, RestOK, ReadInv, SizesInv, CursorInv, CallerFollows,
               NumbersMeanTheirBytes, ReadsMeaning, IsNumber, Meaning, FieldsAreWhole
<1> QED BY <1>2, <1>3, <1>4, <1>5, <1>6, <1>7, <1>8, <1>9, <1>10, <1>11, <1>12, <1>13, <1>14 DEF Next

LEMMA IInvAlways == Spec => []IInv
BY InitEstablishes, StepKeeps, PTL DEF Spec

-----------------------------------------------------------------------------

(* safe_read_buffer, fread_struct and CbEatExpression keep ret a word of   *)
(* its type, whatever the bytes are, and the sizes within the payload.     *)
THEOREM TypeOKAlways == Spec => []TypeOK
<1>1. IInv => TypeOK
  BY DEF IInv, State, NumOK, RestOK, TypeOK
<1> QED BY <1>1, IInvAlways, PTL

(* safe_read_buffer's loops put a number together from its bytes, of as    *)
(* many groups as its type needs, also when the last one reaches over the  *)
(* end of the word, and extend its sign; fread_struct reads the same.      *)
THEOREM NumbersMeanTheirBytesAlways == Spec => []NumbersMeanTheirBytes
<1>1. IInv => NumbersMeanTheirBytes
  BY DEF IInv
<1> QED BY <1>1, IInvAlways, PTL

(* A number ends at its last byte, at the end of the payload or at the     *)
(* last byte that its type needs: fContinue and ib < 5 lose none.          *)
THEOREM FieldsAreWholeAlways == Spec => []FieldsAreWhole
<1>1. IInv => FieldsAreWhole
  BY DEF IInv
<1> QED BY <1>1, IInvAlways, PTL

(* CbEatExpression returns what it took from its copies of the cursor, so  *)
(* that its caller's cbData is the copy's wherever the caller goes on.     *)
THEOREM CallerFollowsAlways == Spec => []CallerFollows
<1>1. IInv => CallerFollows
  BY DEF IInv, State, CursorInv
<1> QED BY <1>1, IInvAlways, PTL
=============================================================================
