---------------------------- MODULE NaturalFacts ----------------------------
(***************************************************************************)
(* Induction, recursion and division of natural numbers, for the proofs.   *)
(* Induction and recursion are stated with sets and functions for          *)
(* parameters, where the library's NaturalsInduction has operators.        *)
(***************************************************************************)
EXTENDS Integers, FiniteSetTheorems, TLAPS

\* A set of natural numbers that is not empty has a least element, since the
\* intervals 1 .. n are well-founded by inclusion.
LEMMA LeastNatural ==
  ASSUME NEW T \in SUBSET Nat, T # {}
  PROVE  \E x \in T : \A y \in T : x <= y
<1> DEFINE initial == {1 .. n : n \in T}
<1>1. initial \subseteq FiniteSubsetsOf(Nat) /\ initial # {}
  <2>1. \A n \in T : 1 .. n \in SUBSET Nat
    OBVIOUS
  <2>2. \A n \in T : IsFiniteSet(1 .. n)
    BY FS_Interval
  <2>3. \A n \in T : 1 .. n \in FiniteSubsetsOf(Nat)
    BY <2>1, <2>2 DEF FiniteSubsetsOf
  <2> QED BY <2>3
<1>2. \E s \in initial : \A t \in initial : <<t, s>> \notin StrictSubsetOrdering(Nat)
  <2> HIDE DEF initial
  <2> QED BY <1>1, FS_StrictSubsetOrderingWellFounded, WFMin
<1>3. PICK x \in T : \A y \in T : <<1 .. y, 1 .. x>> \notin StrictSubsetOrdering(Nat)
  BY <1>2
<1>4. ASSUME NEW y \in T, y < x PROVE FALSE
  <2>1. 1 .. y \in SUBSET (1 .. x) /\ x \in (1 .. x) \ (1 .. y)
    BY <1>4
  <2>2. 1 .. y \in SUBSET Nat /\ 1 .. x \in SUBSET Nat
    OBVIOUS
  <2>3. <<1 .. y, 1 .. x>> \in StrictSubsetOrdering(Nat)
    BY <2>1, <2>2 DEF StrictSubsetOrdering
  <2> QED BY <2>3, <1>3
<1> QED BY <1>4

\* A bounded one has a greatest element.
LEMMA GreatestNatural ==
  ASSUME NEW N \in Nat, NEW T \in SUBSET (0 .. N), T # {}
  PROVE  \E x \in T : \A y \in T : y <= x
<1> DEFINE U == {N - x : x \in T}
<1>1. U \in SUBSET Nat /\ U # {}
  <2>1. \A x \in T : x \in Int /\ 0 <= x /\ x <= N
    OBVIOUS
  <2>2. \A x \in T : N - x \in Nat
    BY <2>1
  <2> QED BY <2>2
<1>2. PICK u \in U : \A v \in U : u <= v
  <2> HIDE DEF U
  <2> QED BY <1>1, LeastNatural
<1>3. PICK x \in T : u = N - x
  OBVIOUS
<1>4. \A y \in T : N - x <= N - y
  BY <1>2, <1>3
<1> QED BY <1>4

\* Induction: a set with 0 and with the successors of its elements has all
\* natural numbers.
LEMMA NatSetInduction ==
  ASSUME NEW S, 0 \in S, \A n \in Nat : n \in S => n + 1 \in S
  PROVE  Nat \subseteq S
<1> SUFFICES ASSUME Nat \ S # {} PROVE FALSE
  OBVIOUS
<1>1. PICK x \in Nat \ S : \A y \in Nat \ S : x <= y
  BY LeastNatural
<1>2. x # 0 /\ x - 1 \in Nat /\ x - 1 \in S
  BY <1>1
<1> QED BY <1>1, <1>2

\* f is the sequence of values that a first value and a step function define.
\* (The provers apply the next lemmas with these definitions unexpanded.)
Iterates(f, S, base, step) ==
  /\ f \in [Nat -> S]
  /\ f[0] = base
  /\ \A n \in Nat : f[n + 1] = step[n][f[n]]

Steps(S) == [Nat -> [S -> S]]

\* Such a sequence exists.
LEMMA Recursion ==
  ASSUME NEW S, NEW base \in S, NEW step \in Steps(S)
  PROVE  \E f : Iterates(f, S, base, step)
<1> USE DEF Steps
<1> DEFINE Begins(n, g) ==
             g[0] = base /\ \A k \in 0 .. n - 1 : g[k + 1] = step[k][g[k]]
           Starts(n) == {g \in [0 .. n -> S] : Begins(n, g)}
           good == {n \in Nat : Starts(n) # {}}
<1>1. 0 \in good
  <2>1. [k \in 0 .. 0 |-> base] \in Starts(0)
    OBVIOUS
  <2> QED BY <2>1
<1>2. ASSUME NEW n \in Nat, n \in good PROVE n + 1 \in good
  <2>1. PICK g \in [0 .. n -> S] : Begins(n, g)
    BY <1>2
  <2> DEFINE h == [k \in 0 .. n + 1 |-> IF k = n + 1 THEN step[n][g[n]] ELSE g[k]]
  <2>2. step[n][g[n]] \in S
    OBVIOUS
  <2>3. h \in [0 .. n + 1 -> S]
    BY <2>2
  <2>4. h[0] = base /\ \A k \in 0 .. n : h[k + 1] = step[k][h[k]]
    BY <2>1
  <2> HIDE DEF h
  <2>5. Begins(n + 1, h)
    <3>1. (n + 1) - 1 = n
      OBVIOUS
    <3> QED BY <2>4, <3>1
  <2> QED BY <2>3, <2>5
<1>3. Nat \subseteq good
  <2> HIDE DEF good
  <2> QED BY <1>1, <1>2, NatSetInduction
<1> DEFINE at == [n \in Nat |-> CHOOSE g \in Starts(n) : TRUE]
           f == [n \in Nat |-> at[n][n]]
<1>4. \A n \in Nat : at[n] \in [0 .. n -> S] /\ Begins(n, at[n])
  BY <1>3
<1>5. ASSUME NEW m \in Nat, NEW n \in Nat, m <= n
      PROVE  \A k \in 0 .. m : at[m][k] = at[n][k]
  <2> HIDE DEF at
  <2> DEFINE same == {k \in Nat : k <= m => at[m][k] = at[n][k]}
  <2>1. 0 \in same
    BY <1>4
  <2>2. ASSUME NEW k \in Nat, k \in same PROVE k + 1 \in same
    <3> SUFFICES ASSUME k + 1 <= m PROVE at[m][k + 1] = at[n][k + 1]
      OBVIOUS
    <3>1. at[m][k] = at[n][k] /\ k \in 0 .. m - 1 /\ k \in 0 .. n - 1
      BY <2>2, <1>5
    <3>2. at[m][k + 1] = step[k][at[m][k]] /\ at[n][k + 1] = step[k][at[n][k]]
      BY <1>4, <3>1
    <3> QED BY <3>1, <3>2
  <2>3. Nat \subseteq same
    <3> HIDE DEF same
    <3> QED BY <2>1, <2>2, NatSetInduction
  <2> QED BY <2>3
<1>6. f \in [Nat -> S] /\ f[0] = base
  <2> HIDE DEF at
  <2> QED BY <1>4
<1>7. ASSUME NEW n \in Nat PROVE f[n + 1] = step[n][f[n]]
  <2> HIDE DEF at
  <2>1. at[n + 1][n] = at[n][n]
    BY <1>5
  <2>2. at[n + 1][n + 1] = step[n][at[n + 1][n]]
    BY <1>4
  <2> QED BY <2>1, <2>2
<1>8. Iterates(f, S, base, step)
  <2> HIDE DEF f
  <2> QED BY <1>6, <1>7 DEF Iterates
<1> QED BY <1>8

\* The same for the values up to an index, in the form of a recursive
\* definition.
IteratesTo(f, N, S, base, step) ==
  /\ f \in [0 .. N -> S]
  /\ f = [k \in 0 .. N |-> IF k = 0 THEN base ELSE step[k - 1][f[k - 1]]]

LEMMA RecursionTo ==
  ASSUME NEW S, NEW base \in S, NEW step \in Steps(S), NEW N \in Nat
  PROVE  \E f : IteratesTo(f, N, S, base, step)
<1>1. PICK g : Iterates(g, S, base, step)
  BY Recursion
<1> USE <1>1 DEF Iterates, Steps
<1> DEFINE f == [k \in 0 .. N |-> g[k]]
<1>2. f \in [0 .. N -> S]
  OBVIOUS
<1>3. ASSUME NEW k \in 0 .. N, k # 0 PROVE f[k] = step[k - 1][f[k - 1]]
  <2>1. k - 1 \in Nat /\ k - 1 \in 0 .. N /\ (k - 1) + 1 = k
    BY <1>3
  <2> QED BY <1>1, <2>1
<1>4. f[0] = base
  BY <1>1
<1>5. IteratesTo(f, N, S, base, step)
  <2> HIDE DEF f
  <2> QED BY <1>2, <1>3, <1>4 DEF IteratesTo
<1> QED BY <1>5
-----------------------------------------------------------------------------
(* Division.                                                               *)

LEMMA Quotient ==
  ASSUME NEW x \in Nat, NEW b \in Nat \ {0}, NEW q \in Nat, NEW r \in Nat,
         r < b, x = (q * b) + r
  PROVE  x \div b = q
OBVIOUS

\* Dividing by p and then by b is dividing by b * p.
LEMMA QuotientOfQuotient ==
  ASSUME NEW n \in Nat, NEW p \in Nat \ {0}, NEW b \in Nat \ {0}
  PROVE  n \div p = ((n \div (b * p)) * b) + ((n \div p) % b)
<1> DEFINE x == n \div p
           y == x \div b
           s == x % b
           r == n % p
<1>1. x \in Nat /\ y \in Nat /\ s \in Nat /\ s < b /\ r \in Nat /\ r < p
  OBVIOUS
<1>2. n = (x * p) + r /\ x = (y * b) + s
  OBVIOUS
<1> HIDE DEF x, y, s, r
<1>3. n = (y * (b * p)) + ((s * p) + r)
  <2>1. x * p = ((y * b) * p) + (s * p)
    BY <1>1, <1>2
  <2>2. (y * b) * p = y * (b * p)
    BY <1>1
  <2> QED BY <1>1, <1>2, <2>1, <2>2
<1>4. (s * p) + r \in Nat /\ (s * p) + r < b * p
  <2>1. (s + 1) * p <= b * p
    BY <1>1
  <2>2. (s + 1) * p = (s * p) + p
    BY <1>1
  <2> QED BY <1>1, <2>1, <2>2
<1>5. n \div (b * p) = y
  <2>1. b * p \in Nat \ {0} /\ y \in Nat
    BY <1>1
  <2> HIDE DEF y
  <2> QED BY <1>3, <1>4, <2>1, Quotient
<1> QED BY <1>2, <1>5 DEF x, s, y

LEMMA Remainder ==
  ASSUME NEW x \in Nat, NEW b \in Nat \ {0}, NEW q \in Nat, NEW r \in Nat,
         r < b, x = (q * b) + r
  PROVE  x % b = r
<1>1. x \div b = q
  BY Quotient
<1> DEFINE y == x \div b
           s == x % b
<1>2. y \in Nat /\ s \in Nat /\ x = (y * b) + s
  OBVIOUS
<1>3. y = q
  BY <1>1
<1> HIDE DEF y, s
<1>4. (q * b) + s = (q * b) + r
  BY <1>2, <1>3
<1>5. s = r
  BY <1>2, <1>4
<1> QED BY <1>5 DEF s

\* A number of a digit below m and a rest below w.
LEMMA DigitAndRest ==
  ASSUME NEW m \in Nat, NEW w \in Nat, NEW q \in 0 .. m - 1, NEW r \in 0 .. w - 1
  PROVE  (q * w) + r \in 0 .. (m * w) - 1
<1>1. q \in Nat /\ r \in Nat /\ r + 1 <= w /\ q + 1 <= m
  OBVIOUS
<1>2. (q + 1) * w <= m * w
  BY <1>1
<1>3. (q + 1) * w = (q * w) + w
  BY <1>1
<1>4. q * w \in Nat /\ m * w \in Nat
  BY <1>1
<1> QED BY <1>1, <1>2, <1>3, <1>4

\* The number whose digits to the base B are a, b, c and d.
Number4(B, a, b, c, d) == (((a * B + b) * B + c) * B) + d

LEMMA DigitsOfNumber4 ==
  ASSUME NEW B \in Nat \ {0}, NEW a \in 0 .. B - 1, NEW b \in 0 .. B - 1,
         NEW c \in 0 .. B - 1, NEW d \in 0 .. B - 1
  PROVE  LET x == Number4(B, a, b, c, d)
         IN  /\ x \in Nat /\ x < B * (B * B * B)
             /\ (x \div (B * B * B)) % B = a
             /\ (x \div (B * B)) % B = b
             /\ (x \div B) % B = c
             /\ x % B = d
             /\ x = a * (B * B * B) + b * (B * B) + c * B + d
<1> DEFINE x == Number4(B, a, b, c, d)
           cd == c * B + d
           bcd == b * (B * B) + cd
<1>1. a \in Nat /\ b \in Nat /\ c \in Nat /\ d \in Nat /\ a < B /\ b < B /\ c < B /\ d < B
  OBVIOUS
<1>2. B * B \in Nat \ {0} /\ B * B * B \in Nat \ {0}
  <2>1. B * B \in Nat \ {0}
    OBVIOUS
  <2> DEFINE s == B * B
  <2> HIDE DEF s
  <2>2. s * B \in Nat \ {0}
    BY <2>1 DEF s
  <2> QED BY <2>1, <2>2 DEF s
<1>3. cd \in 0 .. (B * B) - 1
  BY DigitAndRest
<1>4. bcd \in 0 .. (B * B * B) - 1
  <2>1. bcd \in 0 .. (B * (B * B)) - 1
    <3> HIDE DEF cd
    <3> QED BY <1>2, <1>3, DigitAndRest
  <2>2. B * (B * B) = B * B * B
    OBVIOUS
  <2> QED BY <2>1, <2>2
<1>5. x = a * (B * B * B) + bcd
  BY <1>1 DEF Number4
<1>6. x \in 0 .. (B * (B * B * B)) - 1
  <2> HIDE DEF x, bcd
  <2>1. (a * (B * B * B)) + bcd \in 0 .. (B * (B * B * B)) - 1
    BY <1>2, <1>4, DigitAndRest
  <2> QED BY <1>5, <2>1
<1>7. x \in Nat /\ x < B * (B * B * B)
  <2> HIDE DEF x
  <2>1. B * (B * B * B) \in Nat
    BY <1>2
  <2> QED BY <1>6, <2>1
<1>8. (x \div (B * B * B)) % B = a
  <2> DEFINE w == B * B * B
  <2>1. bcd \in Nat /\ bcd < w /\ w \in Nat \ {0} /\ x = (a * w) + bcd
    BY <1>2, <1>4, <1>5
  <2>2. 0 \in Nat /\ a = (0 * B) + a
    BY <1>1
  <2> HIDE DEF x, bcd, w
  <2>3. x \div w = a
    BY <1>1, <1>7, <2>1, Quotient
  <2>4. a % B = a
    BY <1>1, <2>2, Remainder
  <2> QED BY <2>3, <2>4 DEF w
<1>9. (x \div (B * B)) % B = b
  <2> DEFINE w == B * B
             y == (a * B) + b
  <2>1. x = (y * w) + cd
    BY <1>1 DEF Number4
  <2>2. y \in Nat /\ cd \in Nat /\ cd < w /\ w \in Nat \ {0}
    BY <1>1, <1>2, <1>3
  <2>3. y = (a * B) + b
    OBVIOUS
  <2> HIDE DEF x, cd, w, y
  <2>4. x \div w = y
    BY <1>7, <2>1, <2>2, Quotient
  <2>5. y % B = b
    BY <1>1, <2>2, <2>3, Remainder
  <2> QED BY <2>4, <2>5 DEF w
<1>10. (x \div B) % B = c
  <2> DEFINE h == a * B + b
             y == (h * B) + c
  <2>1. h \in Nat /\ y \in Nat /\ x = (y * B) + d
    BY <1>1 DEF Number4
  <2>2. y = (h * B) + c
    OBVIOUS
  <2> HIDE DEF x, h, y
  <2>3. x \div B = y
    BY <1>1, <1>7, <2>1, Quotient
  <2>4. y % B = c
    BY <1>1, <2>1, <2>2, Remainder
  <2> QED BY <2>3, <2>4
<1>11. x % B = d
  <2>1. x = (((a * B + b) * B + c) * B) + d
    BY DEF Number4
  <2>2. (a * B + b) * B + c \in Nat
    BY <1>1
  <2> HIDE DEF x
  <2> QED BY <1>1, <1>7, <2>1, <2>2, Remainder
<1>12. x = a * (B * B * B) + b * (B * B) + c * B + d
  BY <1>1 DEF Number4
<1> QED BY <1>7, <1>8, <1>9, <1>10, <1>11, <1>12 DEF x

\* Every number below B^4 is that of its digits.
LEMMA Number4OfDigits ==
  ASSUME NEW B \in Nat \ {0}, NEW n \in Nat, n < B * (B * B * B)
  PROVE  n = Number4(B, (n \div (B * B * B)) % B, (n \div (B * B)) % B, (n \div B) % B, n % B)
<1> DEFINE P2 == B * B
           P3 == B * B * B
           P4 == B * P3
<1>1. P2 \in Nat \ {0} /\ P3 = B * P2 /\ P3 \in Nat \ {0} /\ P4 \in Nat \ {0} /\ n < P4
  <2>1. P2 \in Nat \ {0} /\ P3 = B * P2
    OBVIOUS
  <2>2. P3 \in Nat \ {0}
    <3> HIDE DEF P2, P3
    <3> QED BY <2>1
  <2>3. P4 \in Nat \ {0}
    <3> HIDE DEF P3
    <3> QED BY <2>2
  <2> QED BY <2>1, <2>2, <2>3
<1> HIDE DEF P2, P3, P4
<1>2. n \div P4 = 0
  BY <1>1
<1>3. n \div P3 = ((n \div P4) * B) + ((n \div P3) % B)
  BY <1>1, QuotientOfQuotient DEF P4
<1>4. n \div P2 = ((n \div P3) * B) + ((n \div P2) % B)
  BY <1>1, QuotientOfQuotient
<1>5. n \div B = ((n \div P2) * B) + ((n \div B) % B)
  BY <1>1, QuotientOfQuotient DEF P2
<1>6. n = ((n \div B) * B) + (n % B)
  <2> DEFINE y == n \div B
             s == n % B
  <2>1. n = (y * B) + s
    OBVIOUS
  <2> QED BY <2>1
<1>7. (n \div P3) % B \in Nat /\ 0 * B = 0
  <2> DEFINE q == n \div P3
  <2>1. q \in Nat
    BY <1>1
  <2> HIDE DEF q
  <2>2. q % B \in Nat
    BY <2>1
  <2> QED BY <2>2 DEF q
<1>8. n \div P3 = (n \div P3) % B
  BY <1>2, <1>3, <1>7
<1> QED BY <1>4, <1>5, <1>6, <1>8 DEF Number4, P2, P3

\* Numbers of a digit and a rest compare as the digits, then the rests do.
LEMMA DigitsFirst ==
  ASSUME NEW w \in Nat, NEW q \in Nat, NEW p \in Nat,
         NEW r \in 0 .. w - 1, NEW s \in 0 .. w - 1
  PROVE  (q * w) + r < (p * w) + s <=> q < p \/ (q = p /\ r < s)
<1>1. ASSUME NEW x \in Nat, NEW y \in Nat, x < y PROVE (x * w) + w <= y * w
  <2>1. (x + 1) * w <= y * w
    BY <1>1
  <2>2. (x + 1) * w = (x * w) + w
    OBVIOUS
  <2> QED BY <2>1, <2>2
<1>2. q * w \in Nat /\ p * w \in Nat
  OBVIOUS
<1>3. q < p \/ q = p \/ p < q
  OBVIOUS
<1>4. CASE q < p
  BY <1>1, <1>2, <1>4
<1>5. CASE q = p
  BY <1>2, <1>5
<1>6. CASE p < q
  BY <1>1, <1>2, <1>6
<1> QED BY <1>3, <1>4, <1>5, <1>6

LEMMA SumOfNumber4 ==
  ASSUME NEW B \in Nat, NEW a \in Nat, NEW b \in Nat, NEW c \in Nat, NEW d \in Nat
  PROVE  Number4(B, a, b, c, d) = a * (B * B * B) + b * (B * B) + c * B + d
BY DEF Number4
=============================================================================
