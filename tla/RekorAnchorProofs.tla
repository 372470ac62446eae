--------------------------- MODULE RekorAnchorProofs ---------------------------
(***************************************************************************)
(* Theorems about the trees of a transparency log and the Rekor anchor.    *)
(*                                                                         *)
(* First the trees (Rfc6962), of any size: what the recursive definitions  *)
(* compute; that every block of a power of two leaves is a node of the     *)
(* tree; that climbing from a leaf by the bits of its index passes the     *)
(* blocks around it; and so that the verifier accepts at an index exactly  *)
(* the entry that is there with its proof, and that the trees and proofs   *)
(* of Merkle are those of RFC 6962.                                        *)
(*                                                                         *)
(* Then RekorAnchor, for any attempts, shard, calls and entries of others: *)
(* its types, and that what anchor returned proves.                        *)
(***************************************************************************)
EXTENDS RekorAnchor, MerkleProofs, FiniteSetTheorems

-------------------------------------------------------------------------------
(* Numbers.                                                                *)

IsPowers(g, k) == g = [i \in 0..k |-> IF i = 0 THEN 1 ELSE 2 * g[i - 1]]

LEMMA PowersUpTo ==
  ASSUME NEW k \in Nat
  PROVE  \E g : IsPowers(g, k)
<1> DEFINE S == {n \in Nat : \E g : IsPowers(g, n)}
<1>1. 0 \in S
  <2> DEFINE g == [n \in 0..0 |-> 1]
  <2>1. IsPowers(g, 0)
    BY DEF IsPowers
  <2> QED
    BY <2>1
<1>2. ASSUME NEW n \in 1..k, n - 1 \in S
      PROVE  n \in S
  <2>1. PICK g : IsPowers(g, n - 1)
    BY <1>2
  <2> DEFINE h == [m \in 0..n |-> IF m = n THEN 2 * g[n - 1] ELSE g[m]]
  <2>2. \A m \in 0..n : h[m] = IF m = 0 THEN 1 ELSE 2 * h[m - 1]
    <3> SUFFICES ASSUME NEW m \in 0..n
                 PROVE  h[m] = IF m = 0 THEN 1 ELSE 2 * h[m - 1]
      OBVIOUS
    <3>1. CASE m = n
      BY <3>1
    <3>2. CASE m # n
      <4>1. m \in 0..(n - 1)
        BY <3>2
      <4>2. g[m] = IF m = 0 THEN 1 ELSE 2 * g[m - 1]
        BY <2>1, <4>1 DEF IsPowers
      <4>3. h[m] = g[m] /\ (m # 0 => h[m - 1] = g[m - 1])
        BY <3>2, <4>1
      <4> QED
        BY <4>2, <4>3
    <3> QED
      BY <3>1, <3>2
  <2>3. IsPowers(h, n)
    BY <2>2 DEF IsPowers
  <2> QED
    BY <2>3
<1>3. 0..k \subseteq S
  <2> HIDE DEF S
  <2> QED
    BY <1>1, <1>2, UpTo
<1> QED
  BY <1>3

LEMMA PowersAgree ==
  ASSUME NEW k \in Nat, NEW g, IsPowers(g, k), NEW l \in Nat, NEW h, IsPowers(h, l), k <= l
  PROVE  \A i \in 0..k : g[i] \in Nat /\ g[i] = h[i]
<1> DEFINE S == {i \in 0..k : g[i] \in Nat /\ g[i] = h[i]}
<1>1. 0 \in S
  BY DEF IsPowers
<1>2. ASSUME NEW n \in 1..k, n - 1 \in S
      PROVE  n \in S
  <2>1. n \in 0..k /\ n \in 0..l /\ n # 0
    OBVIOUS
  <2>2. g[n] = 2 * g[n - 1] /\ h[n] = 2 * h[n - 1]
    BY <2>1 DEF IsPowers
  <2> QED
    BY <1>2, <2>1, <2>2
<1>3. 0..k \subseteq S
  <2> HIDE DEF S
  <2> QED
    BY <1>1, <1>2, UpTo
<1> QED
  BY <1>3

LEMMA PowerIs ==
  /\ Power(0) = 1
  /\ \A n \in Nat : Power(n) \in Nat /\ Power(n + 1) = 2 * Power(n)
<1> DEFINE two(n) == CHOOSE g : IsPowers(g, n)
<1>1. \A n \in Nat : IsPowers(two(n), n)
  BY PowersUpTo
<1>2. \A n : Power(n) = two(n)[n]
  BY DEF Power, IsPowers
<1> HIDE DEF two
<1>3. Power(0) = 1
  BY <1>1, <1>2 DEF IsPowers
<1> SUFFICES ASSUME NEW n \in Nat
             PROVE  Power(n) \in Nat /\ Power(n + 1) = 2 * Power(n)
  BY <1>3
<1>4. n + 1 \in Nat /\ n \in 0..n /\ n + 1 \in 0..(n + 1) /\ (n + 1) - 1 = n /\ n + 1 # 0 /\ n <= n + 1
  OBVIOUS
<1>5. two(n)[n] \in Nat /\ two(n)[n] = two(n + 1)[n]
  BY <1>1, <1>4, PowersAgree
<1>6. two(n + 1)[n + 1] = 2 * two(n + 1)[n]
  BY <1>1, <1>4 DEF IsPowers
<1> QED
  BY <1>2, <1>4, <1>5, <1>6

IsShifts(g, x, k) == g = [i \in 0..k |-> IF i = 0 THEN x ELSE g[i - 1] \div 2]

LEMMA ShiftsUpTo ==
  ASSUME NEW x, NEW k \in Nat
  PROVE  \E g : IsShifts(g, x, k)
<1> DEFINE S == {n \in Nat : \E g : IsShifts(g, x, n)}
<1>1. 0 \in S
  <2> DEFINE g == [n \in 0..0 |-> x]
  <2>1. IsShifts(g, x, 0)
    BY DEF IsShifts
  <2> QED
    BY <2>1
<1>2. ASSUME NEW n \in 1..k, n - 1 \in S
      PROVE  n \in S
  <2>1. PICK g : IsShifts(g, x, n - 1)
    BY <1>2
  <2> DEFINE h == [m \in 0..n |-> IF m = n THEN g[n - 1] \div 2 ELSE g[m]]
  <2>2. \A m \in 0..n : h[m] = IF m = 0 THEN x ELSE h[m - 1] \div 2
    <3> SUFFICES ASSUME NEW m \in 0..n
                 PROVE  h[m] = IF m = 0 THEN x ELSE h[m - 1] \div 2
      OBVIOUS
    <3>1. CASE m = n
      BY <3>1
    <3>2. CASE m # n
      <4>1. m \in 0..(n - 1)
        BY <3>2
      <4>2. g[m] = IF m = 0 THEN x ELSE g[m - 1] \div 2
        BY <2>1, <4>1 DEF IsShifts
      <4>3. h[m] = g[m] /\ (m # 0 => h[m - 1] = g[m - 1])
        BY <3>2, <4>1
      <4> QED
        BY <4>2, <4>3
    <3> QED
      BY <3>1, <3>2
  <2>3. IsShifts(h, x, n)
    BY <2>2 DEF IsShifts
  <2> QED
    BY <2>3
<1>3. 0..k \subseteq S
  <2> HIDE DEF S
  <2> QED
    BY <1>1, <1>2, UpTo
<1> QED
  BY <1>3

LEMMA ShiftsAgree ==
  ASSUME NEW x \in Nat, NEW k \in Nat, NEW g, IsShifts(g, x, k),
         NEW l \in Nat, NEW h, IsShifts(h, x, l), k <= l
  PROVE  \A i \in 0..k : g[i] \in Nat /\ g[i] = h[i]
<1> DEFINE S == {i \in 0..k : g[i] \in Nat /\ g[i] = h[i]}
<1>1. 0 \in S
  BY DEF IsShifts
<1>2. ASSUME NEW n \in 1..k, n - 1 \in S
      PROVE  n \in S
  <2>1. n \in 0..k /\ n \in 0..l /\ n # 0
    OBVIOUS
  <2>2. g[n] = g[n - 1] \div 2 /\ h[n] = h[n - 1] \div 2
    BY <2>1 DEF IsShifts
  <2>3. \A q \in Nat : q \div 2 \in Nat
    OBVIOUS
  <2> QED
    BY <1>2, <2>1, <2>2, <2>3
<1>3. 0..k \subseteq S
  <2> HIDE DEF S
  <2> QED
    BY <1>1, <1>2, UpTo
<1> QED
  BY <1>3

LEMMA ShiftIs ==
  ASSUME NEW x \in Nat
  PROVE  /\ Shift(x, 0) = x
         /\ \A n \in Nat : Shift(x, n) \in Nat /\ Shift(x, n + 1) = Shift(x, n) \div 2
<1> DEFINE high(n) == CHOOSE g : IsShifts(g, x, n)
<1>1. \A n \in Nat : IsShifts(high(n), x, n)
  BY ShiftsUpTo
<1>2. \A n : Shift(x, n) = high(n)[n]
  BY DEF Shift, IsShifts
<1> HIDE DEF high
<1>3. Shift(x, 0) = x
  BY <1>1, <1>2 DEF IsShifts
<1> SUFFICES ASSUME NEW n \in Nat
             PROVE  Shift(x, n) \in Nat /\ Shift(x, n + 1) = Shift(x, n) \div 2
  BY <1>3
<1>4. n + 1 \in Nat /\ n \in 0..n /\ n + 1 \in 0..(n + 1) /\ (n + 1) - 1 = n /\ n + 1 # 0 /\ n <= n + 1
  OBVIOUS
<1>5. high(n)[n] \in Nat /\ high(n)[n] = high(n + 1)[n]
  BY <1>1, <1>4, ShiftsAgree
<1>6. high(n + 1)[n + 1] = high(n + 1)[n] \div 2
  BY <1>1, <1>4 DEF IsShifts
<1> QED
  BY <1>2, <1>4, <1>5, <1>6

IsCounts(g, k) == g = [m \in 0..k |-> IF m = 0 THEN 0 ELSE (m % 2) + g[m \div 2]]

LEMMA CountsUpTo ==
  ASSUME NEW k \in Nat
  PROVE  \E g : IsCounts(g, k)
<1> DEFINE S == {n \in Nat : \E g : IsCounts(g, n)}
<1>1. 0 \in S
  <2> DEFINE g == [n \in 0..0 |-> 0]
  <2>1. IsCounts(g, 0)
    BY DEF IsCounts
  <2> QED
    BY <2>1
<1>2. ASSUME NEW n \in 1..k, n - 1 \in S
      PROVE  n \in S
  <2>1. PICK g : IsCounts(g, n - 1)
    BY <1>2
  <2> DEFINE h == [m \in 0..n |-> IF m = n THEN (n % 2) + g[n \div 2] ELSE g[m]]
  <2>2. \A m \in 0..n : h[m] = IF m = 0 THEN 0 ELSE (m % 2) + h[m \div 2]
    <3> SUFFICES ASSUME NEW m \in 0..n
                 PROVE  h[m] = IF m = 0 THEN 0 ELSE (m % 2) + h[m \div 2]
      OBVIOUS
    <3>1. m # 0 => m \div 2 \in 0..(m - 1)
      OBVIOUS
    <3>2. m # 0 => h[m \div 2] = g[m \div 2]
      BY <3>1
    <3>3. CASE m = n
      BY <3>2, <3>3
    <3>4. CASE m # n
      <4>1. m \in 0..(n - 1)
        BY <3>4
      <4>2. g[m] = IF m = 0 THEN 0 ELSE (m % 2) + g[m \div 2]
        BY <2>1, <4>1 DEF IsCounts
      <4>3. h[m] = g[m]
        BY <3>4, <4>1
      <4> QED
        BY <3>2, <4>2, <4>3
    <3> QED
      BY <3>3, <3>4
  <2>3. IsCounts(h, n)
    BY <2>2 DEF IsCounts
  <2> QED
    BY <2>3
<1>3. 0..k \subseteq S
  <2> HIDE DEF S
  <2> QED
    BY <1>1, <1>2, UpTo
<1> QED
  BY <1>3

LEMMA CountsAgree ==
  ASSUME NEW k \in Nat, NEW g, IsCounts(g, k), NEW l \in Nat, NEW h, IsCounts(h, l), k <= l
  PROVE  \A m \in 0..k : g[m] \in Nat /\ g[m] = h[m]
<1> DEFINE Bad == {m \in 0..k : ~(g[m] \in Nat /\ g[m] = h[m])}
<1> SUFFICES ASSUME Bad # {}
             PROVE  FALSE
  OBVIOUS
<1>1. PICK m \in Bad : \A x \in Bad : m <= x
  <2>1. Bad \subseteq Nat
    OBVIOUS
  <2> HIDE DEF Bad
  <2> QED
    BY <2>1, LeastNumber
<1>2. m \in 0..k /\ m \in 0..l /\ m \in Nat
  OBVIOUS
<1>3. m # 0
  BY <1>1, <1>2 DEF IsCounts
<1>4. g[m] = (m % 2) + g[m \div 2] /\ h[m] = (m % 2) + h[m \div 2]
  BY <1>2, <1>3 DEF IsCounts
<1>5. m \div 2 \in 0..k /\ m \div 2 < m /\ m % 2 \in Nat
  BY <1>2, <1>3
<1>6. m \div 2 \notin Bad
  BY <1>1, <1>5
<1>7. g[m \div 2] \in Nat /\ g[m \div 2] = h[m \div 2]
  BY <1>5, <1>6
<1> QED
  BY <1>1, <1>4, <1>5, <1>7

LEMMA PopCountIs ==
  /\ PopCount(0) = 0
  /\ \A n \in Nat : PopCount(n) \in Nat /\ PopCount(n) = (n % 2) + PopCount(n \div 2)
<1> DEFINE count(n) == CHOOSE g : IsCounts(g, n)
<1>1. \A n \in Nat : IsCounts(count(n), n)
  BY CountsUpTo
<1>2. \A n : PopCount(n) = count(n)[n]
  BY DEF PopCount, IsCounts
<1> HIDE DEF count
<1>3. PopCount(0) = 0
  BY <1>1, <1>2 DEF IsCounts
<1> SUFFICES ASSUME NEW n \in Nat
             PROVE  PopCount(n) \in Nat /\ PopCount(n) = (n % 2) + PopCount(n \div 2)
  BY <1>3
<1>4. PopCount(n) \in Nat
  BY <1>1, <1>2, CountsAgree
<1>5. CASE n = 0
  BY <1>3, <1>5
<1>6. CASE n # 0
  <2>1. n \div 2 \in Nat /\ n \div 2 <= n /\ n \in 0..n /\ n \div 2 \in 0..(n \div 2)
    OBVIOUS
  <2>2. count(n)[n] = (n % 2) + count(n)[n \div 2]
    BY <1>1, <1>6, <2>1 DEF IsCounts
  <2>3. count(n \div 2)[n \div 2] = count(n)[n \div 2]
    BY <1>1, <2>1, CountsAgree
  <2> QED
    BY <1>2, <1>4, <2>2, <2>3
<1> QED
  BY <1>5, <1>6

-------------------------------------------------------------------------------
(* Where a tree is split.                                                  *)

LEMMA PowerGrows ==
  ASSUME NEW n \in Nat
  PROVE  Power(n) \in Nat /\ n < Power(n)
<1> DEFINE S == {i \in Nat : i < Power(i)}
<1>1. 0 \in S
  BY PowerIs
<1>2. ASSUME NEW i \in 1..n, i - 1 \in S
      PROVE  i \in S
  <2>1. Power(i - 1) \in Nat /\ Power((i - 1) + 1) = 2 * Power(i - 1) /\ i - 1 < Power(i - 1)
    BY <1>2, PowerIs
  <2> QED
    BY <2>1
<1>3. 0..n \subseteq S
  <2> HIDE DEF S
  <2> QED
    BY <1>1, <1>2, UpTo
<1> QED
  BY <1>3, PowerIs

LEMMA PowerOrder ==
  ASSUME NEW i \in Nat, NEW j \in Nat, i < j
  PROVE  2 * Power(i) <= Power(j)
<1> DEFINE S == {d \in Nat : 2 * Power(i) <= Power(i + 1 + d)}
           k == j - i - 1
<1>1. k \in Nat /\ i + 1 + k = j
  OBVIOUS
<1>2. 0 \in S
  BY PowerIs
<1>3. ASSUME NEW d \in 1..k, d - 1 \in S
      PROVE  d \in S
  <2>1. i + 1 + (d - 1) \in Nat /\ (i + 1 + (d - 1)) + 1 = i + 1 + d
    OBVIOUS
  <2>2. /\ Power(i + 1 + (d - 1)) \in Nat /\ Power(i + 1 + d) = 2 * Power(i + 1 + (d - 1))
        /\ 2 * Power(i) <= Power(i + 1 + (d - 1)) /\ Power(i) \in Nat
    BY <1>3, <2>1, PowerIs
  <2>3. 2 * Power(i) <= Power(i + 1 + d)
    BY <2>2
  <2> QED
    BY <2>3
<1>4. 0..k \subseteq S
  <2> HIDE DEF S, k
  <2> QED
    BY <1>1, <1>2, <1>3, UpTo
<1>5. k \in S
  <2> HIDE DEF S, k
  <2> QED
    BY <1>1, <1>4
<1> QED
  BY <1>1, <1>5

(* Between a power of two and the next one the split is at the power. *)
LEMMA SplitAt ==
  ASSUME NEW t \in Nat, NEW n \in Nat, Power(t) < n, n <= 2 * Power(t)
  PROVE  Split(n) = Power(t)
<1> DEFINE K == {Power(i) : i \in 0..n}
<1>1. Power(t) \in K
  <2>1. t < Power(t) /\ Power(t) \in Nat
    BY PowerGrows
  <2>2. t \in 0..n
    BY <2>1
  <2> QED
    BY <2>2
<1>2. ASSUME NEW k \in K, k < n, n <= 2 * k
      PROVE  k = Power(t)
  <2>1. PICK i \in 0..n : k = Power(i)
    OBVIOUS
  <2>2. i \in Nat /\ Power(i) \in Nat /\ Power(t) \in Nat
    BY PowerIs
  <2>3. ~(i < t)
    BY <1>2, <2>1, <2>2, PowerOrder
  <2>4. ~(t < i)
    BY <1>2, <2>1, <2>2, PowerOrder
  <2> QED
    BY <2>1, <2>2, <2>3, <2>4
<1>3. Split(n) = CHOOSE k \in K : k < n /\ n <= 2 * k
  BY DEF Split
<1> HIDE DEF K
<1> QED
  BY <1>1, <1>2, <1>3

LEMMA SplitIs ==
  ASSUME NEW n \in Nat, n > 1
  PROVE  Split(n) \in 1..(n - 1)
<1> DEFINE S == {i \in Nat : n <= Power(i)}
<1>1. n \in S
  BY PowerGrows
<1>2. PICK j \in S : \A x \in S : j <= x
  <2>1. S \subseteq Nat /\ S # {}
    BY <1>1
  <2> HIDE DEF S
  <2> QED
    BY <2>1, LeastNumber
<1>3. j \in Nat /\ n <= Power(j)
  OBVIOUS
<1>4. j # 0
  BY <1>3, PowerIs
<1>5. j - 1 \in Nat /\ (j - 1) + 1 = j
  BY <1>3, <1>4
<1>6. j - 1 \notin S
  BY <1>2, <1>5
<1>7. Power(j - 1) \in Nat /\ Power(j) = 2 * Power(j - 1) /\ j - 1 < Power(j - 1)
  BY <1>5, PowerIs, PowerGrows
<1>8. Power(j - 1) < n /\ n <= 2 * Power(j - 1)
  BY <1>3, <1>5, <1>6, <1>7
<1>9. Split(n) = Power(j - 1)
  BY <1>5, <1>8, SplitAt
<1> QED
  BY <1>5, <1>7, <1>8, <1>9

-------------------------------------------------------------------------------
(* The heads of all spans, and the paths.                                  *)

HeadOf(g, leaves, n, at) ==
  IF n = 1 THEN LeafHash(leaves[at + 1])
  ELSE NodeHash(g[Split(n)][at], g[n - Split(n)][at + Split(n)])
HeadsOf(g, leaves, n) == [at \in 0..(Len(leaves) - n) |-> HeadOf(g, leaves, n, at)]
IsHeads(g, leaves, k) == g = [n \in 1..k |-> HeadsOf(g, leaves, n)]

LEMMA HeadsUpTo ==
  ASSUME NEW leaves, NEW k \in Nat
  PROVE  \E g : IsHeads(g, leaves, k)
<1> DEFINE S == {n \in Nat : \E g : IsHeads(g, leaves, n)}
<1>1. 0 \in S
  <2> DEFINE g == [n \in 1..0 |-> 0]
  <2>1. IsHeads(g, leaves, 0)
    BY DEF IsHeads
  <2> QED
    BY <2>1
<1>2. ASSUME NEW n \in 1..k, n - 1 \in S
      PROVE  n \in S
  <2>1. PICK g : IsHeads(g, leaves, n - 1)
    BY <1>2
  <2> DEFINE h == [m \in 1..n |-> IF m = n THEN HeadsOf(g, leaves, n) ELSE g[m]]
  <2>2. \A m \in 1..n : h[m] = HeadsOf(h, leaves, m)
    <3> SUFFICES ASSUME NEW m \in 1..n
                 PROVE  h[m] = HeadsOf(h, leaves, m)
      OBVIOUS
    <3>1. HeadsOf(g, leaves, m) = HeadsOf(h, leaves, m)
      <4>1. CASE m = 1
        BY <4>1 DEF HeadsOf, HeadOf
      <4>2. CASE m # 1
        <5>1. Split(m) \in 1..(m - 1)
          BY <4>2, SplitIs
        <5>2. Split(m) \in 1..n /\ Split(m) # n /\ m - Split(m) \in 1..n /\ m - Split(m) # n
          BY <5>1
        <5> HIDE DEF h
        <5>3. h[Split(m)] = g[Split(m)] /\ h[m - Split(m)] = g[m - Split(m)]
          BY <5>2 DEF h
        <5> QED
          BY <5>3 DEF HeadsOf, HeadOf
      <4> QED
        BY <4>1, <4>2
    <3>2. CASE m = n
      BY <3>1, <3>2
    <3>3. CASE m # n
      <4>1. m \in 1..(n - 1)
        BY <3>3
      <4>2. g[m] = HeadsOf(g, leaves, m)
        BY <2>1, <4>1 DEF IsHeads
      <4> QED
        BY <3>1, <3>3, <4>2
    <3> QED
      BY <3>2, <3>3
  <2>3. h = [m \in 1..n |-> HeadsOf(h, leaves, m)]
    BY <2>2
  <2>4. IsHeads(h, leaves, n)
    BY <2>3 DEF IsHeads
  <2> QED
    BY <2>4
<1>3. 0..k \subseteq S
  <2> HIDE DEF S
  <2> QED
    BY <1>1, <1>2, UpTo
<1> QED
  BY <1>3

LEMMA HeadsAre ==
  ASSUME NEW leaves, Len(leaves) \in Nat, NEW n \in 1..Len(leaves), NEW at \in 0..(Len(leaves) - n)
  PROVE  Heads(leaves)[n][at] =
           IF n = 1 THEN LeafHash(leaves[at + 1])
           ELSE NodeHash(Heads(leaves)[Split(n)][at], Heads(leaves)[n - Split(n)][at + Split(n)])
<1>1. Heads(leaves) = CHOOSE g : IsHeads(g, leaves, Len(leaves))
  BY DEF Heads, IsHeads, HeadsOf, HeadOf
<1>2. IsHeads(Heads(leaves), leaves, Len(leaves))
  BY <1>1, HeadsUpTo
<1> HIDE DEF Heads
<1>3. Heads(leaves)[n] = HeadsOf(Heads(leaves), leaves, n)
  BY <1>2 DEF IsHeads
<1>4. HeadsOf(Heads(leaves), leaves, n)[at] = HeadOf(Heads(leaves), leaves, n, at)
  BY DEF HeadsOf
<1> QED
  BY <1>3, <1>4 DEF HeadOf

PathOf(g, index, leaves, n, at) ==
  IF n = 1 THEN <<>>
  ELSE IF index < at + Split(n)
  THEN Append(g[Split(n)][at], Heads(leaves)[n - Split(n)][at + Split(n)])
  ELSE Append(g[n - Split(n)][at + Split(n)], Heads(leaves)[Split(n)][at])
PathsOf(g, index, leaves, n) ==
  [at \in 0..(Len(leaves) - n) |-> PathOf(g, index, leaves, n, at)]
IsPaths(g, index, leaves, k) == g = [n \in 1..k |-> PathsOf(g, index, leaves, n)]
Paths(index, leaves) == CHOOSE g : IsPaths(g, index, leaves, Len(leaves))

LEMMA PathsUpTo ==
  ASSUME NEW index, NEW leaves, NEW k \in Nat
  PROVE  \E g : IsPaths(g, index, leaves, k)
<1> DEFINE S == {n \in Nat : \E g : IsPaths(g, index, leaves, n)}
<1>1. 0 \in S
  <2> DEFINE g == [n \in 1..0 |-> 0]
  <2>1. IsPaths(g, index, leaves, 0)
    BY DEF IsPaths
  <2> QED
    BY <2>1
<1>2. ASSUME NEW n \in 1..k, n - 1 \in S
      PROVE  n \in S
  <2>1. PICK g : IsPaths(g, index, leaves, n - 1)
    BY <1>2
  <2> DEFINE h == [m \in 1..n |-> IF m = n THEN PathsOf(g, index, leaves, n) ELSE g[m]]
  <2>2. \A m \in 1..n : h[m] = PathsOf(h, index, leaves, m)
    <3> SUFFICES ASSUME NEW m \in 1..n
                 PROVE  h[m] = PathsOf(h, index, leaves, m)
      OBVIOUS
    <3>1. PathsOf(g, index, leaves, m) = PathsOf(h, index, leaves, m)
      <4>1. CASE m = 1
        BY <4>1 DEF PathsOf, PathOf
      <4>2. CASE m # 1
        <5>1. Split(m) \in 1..(m - 1)
          BY <4>2, SplitIs
        <5>2. Split(m) \in 1..n /\ Split(m) # n /\ m - Split(m) \in 1..n /\ m - Split(m) # n
          BY <5>1
        <5> HIDE DEF h
        <5>3. h[Split(m)] = g[Split(m)] /\ h[m - Split(m)] = g[m - Split(m)]
          BY <5>2 DEF h
        <5> QED
          BY <5>3 DEF PathsOf, PathOf
      <4> QED
        BY <4>1, <4>2
    <3>2. CASE m = n
      BY <3>1, <3>2
    <3>3. CASE m # n
      <4>1. m \in 1..(n - 1)
        BY <3>3
      <4>2. g[m] = PathsOf(g, index, leaves, m)
        BY <2>1, <4>1 DEF IsPaths
      <4> QED
        BY <3>1, <3>3, <4>2
    <3> QED
      BY <3>2, <3>3
  <2>3. h = [m \in 1..n |-> PathsOf(h, index, leaves, m)]
    BY <2>2
  <2>4. IsPaths(h, index, leaves, n)
    BY <2>3 DEF IsPaths
  <2> QED
    BY <2>4
<1>3. 0..k \subseteq S
  <2> HIDE DEF S
  <2> QED
    BY <1>1, <1>2, UpTo
<1> QED
  BY <1>3

LEMMA PathsAre ==
  ASSUME NEW index, NEW leaves, Len(leaves) \in Nat,
         NEW n \in 1..Len(leaves), NEW at \in 0..(Len(leaves) - n)
  PROVE  Paths(index, leaves)[n][at] =
           IF n = 1 THEN <<>>
           ELSE IF index < at + Split(n)
           THEN Append(Paths(index, leaves)[Split(n)][at],
                       Heads(leaves)[n - Split(n)][at + Split(n)])
           ELSE Append(Paths(index, leaves)[n - Split(n)][at + Split(n)],
                       Heads(leaves)[Split(n)][at])
<1>1. IsPaths(Paths(index, leaves), index, leaves, Len(leaves))
  BY PathsUpTo DEF Paths
<1>2. Paths(index, leaves)[n] = PathsOf(Paths(index, leaves), index, leaves, n)
  BY <1>1 DEF IsPaths
<1>3. PathsOf(Paths(index, leaves), index, leaves, n)[at]
        = PathOf(Paths(index, leaves), index, leaves, n, at)
  BY DEF PathsOf
<1> QED
  BY <1>2, <1>3 DEF PathOf

LEMMA ProofIsPath ==
  ASSUME NEW index, NEW leaves
  PROVE  InclusionProof(index, leaves) = Paths(index, leaves)[Len(leaves)][0]
BY DEF InclusionProof, Paths, IsPaths, PathsOf, PathOf

-------------------------------------------------------------------------------
(* Blocks: the leaves from a place on, as many as there are but at most p. *)

BlockSize(size, at, p) == IF at + p <= size THEN p ELSE size - at

(* A block of twice the size is two blocks, if there is anything behind    *)
(* the first one; the split is between them.                               *)
LEMMA BlockStep ==
  ASSUME NEW size \in Nat, NEW at \in Nat, at < size, NEW t \in Nat
  PROVE  /\ BlockSize(size, at, Power(t)) \in 1..(size - at)
         /\ at + Power(t) < size =>
              /\ BlockSize(size, at, Power(t)) = Power(t)
              /\ BlockSize(size, at, Power(t + 1)) \in 2..(size - at)
              /\ Split(BlockSize(size, at, Power(t + 1))) = Power(t)
              /\ BlockSize(size, at, Power(t + 1)) - Power(t)
                   = BlockSize(size, at + Power(t), Power(t))
         /\ ~(at + Power(t) < size) =>
              BlockSize(size, at, Power(t + 1)) = BlockSize(size, at, Power(t))
<1> DEFINE p == Power(t)
           b == BlockSize(size, at, Power(t + 1))
<1>1. p \in Nat /\ p > 0 /\ Power(t + 1) = 2 * p
  BY PowerIs, PowerGrows
<1> HIDE DEF p
<1>2. b = IF at + 2 * p <= size THEN 2 * p ELSE size - at
  BY <1>1 DEF BlockSize
<1>3. BlockSize(size, at, p) \in 1..(size - at)
  BY <1>1 DEF BlockSize
<1>4. at + p < size =>
        /\ BlockSize(size, at, p) = p
        /\ b \in 2..(size - at) /\ p < b /\ b <= 2 * p
        /\ b - p = BlockSize(size, at + p, p)
  BY <1>1, <1>2 DEF BlockSize
<1>5. ~(at + p < size) => b = BlockSize(size, at, p)
  BY <1>1, <1>2 DEF BlockSize
<1>6. at + p < size => Split(b) = p
  BY <1>4, SplitAt DEF p
<1> QED
  BY <1>3, <1>4, <1>5, <1>6 DEF p

-------------------------------------------------------------------------------
(* The bits of an index say in which blocks it lies.                       *)

LEMMA Times ==
  ASSUME NEW a \in Nat, NEW b \in Nat, NEW p \in Nat, a < b
  PROVE  a * p + p <= b * p /\ a * p \in Nat /\ b * p \in Nat
<1> DEFINE d == b - a - 1
<1>1. d \in Nat /\ b = a + 1 + d
  OBVIOUS
<1> HIDE DEF d
<1>2. d * p \in Nat /\ a * p \in Nat /\ b * p \in Nat
  BY <1>1
<1>3. (a + 1 + d) * p = a * p + p + d * p
  BY <1>1
<1> QED
  BY <1>1, <1>2, <1>3

(* Where the block of 2^t leaves starts in which the leaf of an index is. *)
Base(x, t) == Shift(x, t) * Power(t)

LEMMA BaseStep ==
  ASSUME NEW x \in Nat, NEW t \in Nat
  PROVE  /\ Base(x, t) \in Nat /\ Base(x, t + 1) \in Nat
         /\ Bit(x, t) \in {0, 1}
         /\ Bit(x, t) = 0 => Base(x, t + 1) = Base(x, t)
         /\ Bit(x, t) = 1 => Base(x, t + 1) + Power(t) = Base(x, t)
<1>1. PICK s \in Nat, p \in Nat : s = Shift(x, t) /\ p = Power(t)
  BY ShiftIs, PowerIs
<1>2. Shift(x, t + 1) = s \div 2 /\ Power(t + 1) = 2 * p
  BY <1>1, ShiftIs, PowerIs
<1>3. PICK r \in Nat : r = s \div 2
  OBVIOUS
<1>4. s % 2 \in {0, 1} /\ s = 2 * r + (s % 2)
  BY <1>3
<1>5. PICK q \in Nat : q = r * p
  BY <1>1, <1>3
<1>6. r * (2 * p) = 2 * q
  BY <1>5
<1>7. s % 2 = 0 => s * p = 2 * q
  <2>1. (2 * r) * p = 2 * q
    BY <1>5
  <2> QED
    BY <1>4, <2>1
<1>8. s % 2 = 1 => s * p = 2 * q + p
  <2>1. (2 * r + 1) * p = 2 * q + p
    BY <1>5
  <2> QED
    BY <1>4, <2>1
<1>9. Base(x, t) = s * p /\ Base(x, t + 1) = 2 * q /\ Bit(x, t) = s % 2
  BY <1>1, <1>2, <1>3, <1>6 DEF Base, Bit
<1> QED
  BY <1>1, <1>4, <1>5, <1>7, <1>8, <1>9

LEMMA BaseIs ==
  ASSUME NEW x \in Nat, NEW t \in Nat
  PROVE  Base(x, t) \in Nat /\ Base(x, t) <= x /\ x < Base(x, t) + Power(t)
<1> DEFINE S == {i \in Nat : Base(x, i) <= x /\ x < Base(x, i) + Power(i)}
<1>1. 0 \in S
  <2>1. Base(x, 0) = x /\ Power(0) = 1
    BY ShiftIs, PowerIs DEF Base
  <2> QED
    BY <2>1
<1>2. ASSUME NEW i \in 1..t, i - 1 \in S
      PROVE  i \in S
  <2>1. i - 1 \in Nat /\ (i - 1) + 1 = i
    OBVIOUS
  <2>2. /\ Base(x, i - 1) \in Nat /\ Base(x, i) \in Nat /\ Bit(x, i - 1) \in {0, 1}
        /\ Bit(x, i - 1) = 0 => Base(x, i) = Base(x, i - 1)
        /\ Bit(x, i - 1) = 1 => Base(x, i) + Power(i - 1) = Base(x, i - 1)
        /\ Power(i - 1) \in Nat /\ Power(i) = 2 * Power(i - 1)
    <3> DEFINE j == i - 1
    <3>1. /\ j \in Nat /\ Base(x, j) \in Nat /\ Base(x, j + 1) \in Nat /\ Bit(x, j) \in {0, 1}
          /\ Bit(x, j) = 0 => Base(x, j + 1) = Base(x, j)
          /\ Bit(x, j) = 1 => Base(x, j + 1) + Power(j) = Base(x, j)
          /\ Power(j) \in Nat /\ Power(j + 1) = 2 * Power(j)
      <4> HIDE DEF j
      <4>1. j \in Nat
        BY <2>1 DEF j
      <4> QED
        BY <4>1, BaseStep, PowerIs
    <3> QED
      BY <2>1, <3>1
  <2>3. Base(x, i - 1) <= x /\ x < Base(x, i - 1) + Power(i - 1)
    BY <1>2
  <2>4. Base(x, i) <= x /\ x < Base(x, i) + Power(i)
    BY ONLY <2>2, <2>3
  <2> QED
    BY <2>4
<1>3. 0..t \subseteq S
  <2> HIDE DEF S
  <2> QED
    BY <1>1, <1>2, UpTo
<1> QED
  BY <1>3, BaseStep

(* A block is the last one exactly if the last leaf is in it. *)
LEMMA LastBlock ==
  ASSUME NEW size \in Nat, NEW x \in 0..(size - 1), NEW t \in Nat
  PROVE  Shift(x, t) = Shift(size - 1, t) <=> ~(Base(x, t) + Power(t) < size)
<1>0. PICK last \in Nat : last = size - 1
  OBVIOUS
<1>1. PICK s \in Nat, m \in Nat, p \in Nat :
        s = Shift(x, t) /\ m = Shift(last, t) /\ p = Power(t)
  <2>1. x \in Nat
    BY <1>0
  <2> QED
    BY <2>1, ShiftIs, PowerIs
<1>2. Base(x, t) = s * p /\ Base(last, t) = m * p
  BY <1>1 DEF Base
<1>3. /\ s * p \in Nat /\ s * p <= x /\ x < s * p + p
      /\ m * p \in Nat /\ m * p <= last /\ last < m * p + p
  <2>1. x \in Nat
    BY <1>0
  <2> QED
    BY <1>1, <1>2, <2>1, BaseIs
<1>4. s < m => s * p + p <= m * p
  BY Times
<1>5. m < s => m * p + p <= s * p
  BY Times
<1>6. ~(m < s)
  BY <1>0, <1>3, <1>5
<1>7. s = m <=> ~(s * p + p < size)
  BY <1>0, <1>1, <1>3, <1>4, <1>6
<1> QED
  BY <1>0, <1>1, <1>2, <1>7

LEMMA ShiftedOut ==
  ASSUME NEW x \in Nat, NEW t \in Nat, x <= t
  PROVE  Shift(x, t) = 0 /\ Base(x, t) = 0
<1>1. PICK s \in Nat, p \in Nat : s = Shift(x, t) /\ p = Power(t)
  BY ShiftIs, PowerIs
<1>2. t < p /\ s * p <= x
  BY <1>1, PowerGrows, BaseIs DEF Base
<1>3. 0 < s => 0 * p + p <= s * p
  BY Times
<1>4. s = 0
  BY <1>1, <1>2, <1>3
<1> QED
  BY <1>1, <1>4 DEF Base

(* Up to the inner length an index and another one differ, and then no     *)
(* more.                                                                   *)
LEMMA InnerIs ==
  ASSUME NEW x \in Nat, NEW y \in Nat
  PROVE  /\ BitLenOfXor(x, y) \in Nat
         /\ \A t \in Nat : t < BitLenOfXor(x, y) <=> Shift(x, t) # Shift(y, t)
<1> DEFINE Same == {t \in Nat : Shift(x, t) = Shift(y, t)}
           inner == BitLenOfXor(x, y)
<1>1. x + y \in Same
  BY ShiftedOut
<1>2. PICK k \in Same : \A t \in Same : k <= t
  <2>1. Same \subseteq Nat /\ Same # {}
    BY <1>1
  <2> HIDE DEF Same
  <2> QED
    BY <2>1, LeastNumber
<1>3. k \in 0..(x + y)
  BY <1>1, <1>2
<1>4. \A j \in 0..(k - 1) : Shift(x, j) # Shift(y, j)
  BY <1>2
<1>5. /\ inner \in 0..(x + y) /\ Shift(x, inner) = Shift(y, inner)
      /\ \A j \in 0..(inner - 1) : Shift(x, j) # Shift(y, j)
  BY <1>2, <1>3, <1>4 DEF BitLenOfXor
<1> HIDE DEF inner
<1>6. ASSUME NEW t \in Nat, inner <= t
      PROVE  Shift(x, t) = Shift(y, t)
  <2> DEFINE S == {d \in Nat : Shift(x, inner + d) = Shift(y, inner + d)}
             e == t - inner
  <2>1. e \in Nat /\ inner + e = t
    BY <1>5, <1>6
  <2>2. 0 \in S
    BY <1>5
  <2>3. ASSUME NEW d \in 1..e, d - 1 \in S
        PROVE  d \in S
    <3>1. inner + (d - 1) \in Nat /\ (inner + (d - 1)) + 1 = inner + d
      BY <1>5
    <3> QED
      BY <2>3, <3>1, ShiftIs
  <2>4. 0..e \subseteq S
    <3> HIDE DEF S, e
    <3> QED
      BY <2>1, <2>2, <2>3, UpTo
  <2>5. e \in S
    <3> HIDE DEF S, e
    <3> QED
      BY <2>1, <2>4
  <2> QED
    BY <2>1, <2>5
<1>7. \A t \in Nat : t < inner => t \in 0..(inner - 1)
  BY <1>5
<1>8. \A t \in Nat : t < inner \/ inner <= t
  BY <1>5
<1> QED
  BY <1>5, <1>6, <1>7, <1>8 DEF inner

-------------------------------------------------------------------------------
(* The way up.                                                             *)

OnLeft(index, inner, i) == i > inner \/ Bit(index, i - 1) = 1
Paired(left, hash, sibling) ==
  IF left THEN NodeHash(sibling, hash) ELSE NodeHash(hash, sibling)
IsRehash(g, leaf, index, inner, hashes, k) ==
  g = [i \in 0..k |->
         IF i = 0 THEN leaf ELSE Paired(OnLeft(index, inner, i), g[i - 1], hashes[i])]
Rehashes(leaf, index, inner, hashes) ==
  CHOOSE g : IsRehash(g, leaf, index, inner, hashes, Len(hashes))

LEMMA RehashUpTo ==
  ASSUME NEW leaf, NEW index, NEW inner, NEW hashes, NEW k \in Nat
  PROVE  \E g : IsRehash(g, leaf, index, inner, hashes, k)
<1> DEFINE S == {n \in Nat : \E g : IsRehash(g, leaf, index, inner, hashes, n)}
           next(h, n) == Paired(OnLeft(index, inner, n), h, hashes[n])
<1>1. 0 \in S
  <2> DEFINE g == [n \in 0..0 |-> leaf]
  <2>1. IsRehash(g, leaf, index, inner, hashes, 0)
    BY DEF IsRehash
  <2> QED
    BY <2>1
<1>2. ASSUME NEW n \in 1..k, n - 1 \in S
      PROVE  n \in S
  <2>1. PICK g : IsRehash(g, leaf, index, inner, hashes, n - 1)
    BY <1>2
  <2>2. g = [m \in 0..(n - 1) |-> IF m = 0 THEN leaf ELSE next(g[m - 1], m)]
    BY <2>1 DEF IsRehash
  <2> DEFINE h == [m \in 0..n |-> IF m = n THEN next(g[n - 1], n) ELSE g[m]]
  <2>3. h = [m \in 0..n |-> IF m = 0 THEN leaf ELSE next(h[m - 1], m)]
    <3> HIDE DEF next
    <3> SUFFICES ASSUME NEW m \in 0..n
                 PROVE  h[m] = IF m = 0 THEN leaf ELSE next(h[m - 1], m)
      OBVIOUS
    <3>1. CASE m = n
      BY <3>1
    <3>2. CASE m # n
      <4>1. m \in 0..(n - 1)
        BY <3>2
      <4>2. g[m] = IF m = 0 THEN leaf ELSE next(g[m - 1], m)
        BY <2>2, <4>1
      <4>3. h[m] = g[m] /\ (m # 0 => h[m - 1] = g[m - 1])
        BY <3>2, <4>1
      <4> QED
        BY <4>2, <4>3
    <3> QED
      BY <3>1, <3>2
  <2>4. IsRehash(h, leaf, index, inner, hashes, n)
    BY <2>3 DEF IsRehash
  <2> QED
    BY <2>4
<1>3. 0..k \subseteq S
  <2> HIDE DEF S
  <2> QED
    BY <1>1, <1>2, UpTo
<1> QED
  BY <1>3

LEMMA RehashesAre ==
  ASSUME NEW leaf, NEW index, NEW inner, NEW hashes, Len(hashes) \in Nat
  PROVE  /\ Rehash(leaf, index, inner, hashes)
              = Rehashes(leaf, index, inner, hashes)[Len(hashes)]
         /\ Rehashes(leaf, index, inner, hashes)[0] = leaf
         /\ \A i \in 1..Len(hashes) :
              Rehashes(leaf, index, inner, hashes)[i]
                = Paired(OnLeft(index, inner, i),
                         Rehashes(leaf, index, inner, hashes)[i - 1], hashes[i])
<1> DEFINE g == Rehashes(leaf, index, inner, hashes)
<1>1. IsRehash(g, leaf, index, inner, hashes, Len(hashes))
  BY RehashUpTo DEF Rehashes
<1>2. Rehash(leaf, index, inner, hashes) = g[Len(hashes)]
  BY DEF Rehash, Rehashes, IsRehash, Paired, OnLeft
<1> HIDE DEF g
<1>3. g[0] = leaf
  BY <1>1 DEF IsRehash
<1>4. \A i \in 1..Len(hashes) : g[i] = Paired(OnLeft(index, inner, i), g[i - 1], hashes[i])
  BY <1>1 DEF IsRehash
<1> QED
  BY <1>2, <1>3, <1>4 DEF g

LEMMA RehashNothing ==
  ASSUME NEW leaf, NEW index, NEW inner
  PROVE  Rehash(leaf, index, inner, <<>>) = leaf
BY RehashesAre

LEMMA RehashOn ==
  ASSUME NEW leaf, NEW index, NEW inner, NEW hashes, IsSeq(hashes), NEW e
  PROVE  Rehash(leaf, index, inner, Append(hashes, e))
           = Paired(OnLeft(index, inner, Len(hashes) + 1),
                    Rehash(leaf, index, inner, hashes), e)
<1> DEFINE more == Append(hashes, e)
           n == Len(hashes)
           g == Rehashes(leaf, index, inner, hashes)
           h == Rehashes(leaf, index, inner, more)
           S == {i \in 0..n : g[i] = h[i]}
<1>1. /\ n \in Nat /\ DOMAIN hashes = 1..n
      /\ Len(more) = n + 1 /\ \A i \in 1..n : more[i] = hashes[i]
      /\ more[n + 1] = e
  BY SeqFacts, AppendSeq
<1> HIDE DEF more, n
<1>2. /\ g[0] = leaf /\ Rehash(leaf, index, inner, hashes) = g[n]
      /\ \A i \in 1..n : g[i] = Paired(OnLeft(index, inner, i), g[i - 1], hashes[i])
  BY <1>1, RehashesAre DEF n
<1>3. /\ h[0] = leaf /\ Rehash(leaf, index, inner, more) = h[n + 1]
      /\ \A i \in 1..(n + 1) : h[i] = Paired(OnLeft(index, inner, i), h[i - 1], more[i])
  BY <1>1, RehashesAre
<1> HIDE DEF g, h
<1>4. 0 \in S
  BY <1>1, <1>2, <1>3
<1>5. ASSUME NEW i \in 1..n, i - 1 \in S
      PROVE  i \in S
  BY <1>1, <1>2, <1>3, <1>5
<1>6. 0..n \subseteq S
  <2> HIDE DEF S
  <2> QED
    BY <1>1, <1>4, <1>5, UpTo
<1>7. g[n] = h[n]
  BY <1>1, <1>6
<1>8. n + 1 \in 1..(n + 1) /\ (n + 1) - 1 = n
  BY <1>1
<1>9. h[n + 1] = Paired(OnLeft(index, inner, n + 1), h[n], e)
  BY <1>1, <1>3, <1>8
<1> QED
  BY <1>2, <1>3, <1>7, <1>9 DEF more, n

(* Two ways of one shape that lead to the same place are the same way.     *)
LEMMA OneWay ==
  ASSUME NEW index, NEW inner, NEW leaf, NEW other, NEW hashes, IsSeq(hashes),
         NEW path, IsSeq(path), Len(hashes) = Len(path),
         Rehash(leaf, index, inner, hashes) = Rehash(other, index, inner, path)
  PROVE  leaf = other /\ hashes = path
<1> DEFINE n == Len(hashes)
           g == Rehashes(leaf, index, inner, hashes)
           h == Rehashes(other, index, inner, path)
           S == {d \in 0..n : /\ g[n - d] = h[n - d]
                              /\ \A i \in (n - d + 1)..n : hashes[i] = path[i]}
<1>1. /\ n \in Nat /\ Len(path) = n /\ DOMAIN hashes = 1..n /\ DOMAIN path = 1..n
  BY SeqFacts
<1>2. /\ g[0] = leaf /\ Rehash(leaf, index, inner, hashes) = g[n]
      /\ \A i \in 1..n : g[i] = Paired(OnLeft(index, inner, i), g[i - 1], hashes[i])
  BY <1>1, RehashesAre
<1>3. /\ h[0] = other /\ Rehash(other, index, inner, path) = h[n]
      /\ \A i \in 1..n : h[i] = Paired(OnLeft(index, inner, i), h[i - 1], path[i])
  BY <1>1, RehashesAre
<1> HIDE DEF n, g, h
<1>4. 0 \in S
  <2>1. n - 0 = n /\ (n - 0 + 1)..n = {}
    BY <1>1
  <2> QED
    <3>1. g[n] = h[n]
      BY <1>2, <1>3
    <3>2. 0 \in 0..n
      BY <1>1
    <3> QED
      BY <2>1, <3>1, <3>2
<1>5. ASSUME NEW d \in 1..n, d - 1 \in S
      PROVE  d \in S
  <2>1. PICK i \in 1..n : i = n - d + 1
    BY <1>1
  <2>2. n - (d - 1) = i /\ i - 1 = n - d /\ n - (d - 1) + 1 = i + 1 /\ n - d + 1 = i
    BY <1>1, <2>1
  <2>3. g[i] = h[i] /\ \A j \in (i + 1)..n : hashes[j] = path[j]
    BY <1>5, <2>2
  <2>4. g[i - 1] = h[i - 1] /\ hashes[i] = path[i]
    <3>1. Paired(OnLeft(index, inner, i), g[i - 1], hashes[i])
            = Paired(OnLeft(index, inner, i), h[i - 1], path[i])
      BY <1>2, <1>3, <2>3
    <3>2. \A a, b, c, e : NodeHash(a, b) = NodeHash(c, e) => a = c /\ b = e
      BY DEF NodeHash
    <3> QED
      BY <3>1, <3>2 DEF Paired
  <2>5. \A j \in i..n : hashes[j] = path[j]
    BY <1>1, <2>3, <2>4
  <2>6. d \in 0..n
    BY <1>1
  <2> QED
    BY <2>2, <2>4, <2>5, <2>6
<1>6. n \in S
  <2>1. 0..n \subseteq S
    <3> HIDE DEF S
    <3> QED
      BY <1>1, <1>4, <1>5, UpTo
  <2> QED
    BY <1>1, <2>1
<1>7. n - n = 0 /\ (n - n + 1)..n = 1..n
  BY <1>1
<1>8. leaf = other /\ \A i \in 1..n : hashes[i] = path[i]
  BY <1>2, <1>3, <1>6, <1>7
<1>9. hashes = [i \in 1..n |-> hashes[i]] /\ path = [i \in 1..n |-> path[i]]
  BY <1>1 DEF IsSeq
<1>10. [i \in 1..n |-> hashes[i]] = [i \in 1..n |-> path[i]]
  BY <1>8
<1> QED
  BY <1>8, <1>9, <1>10

-------------------------------------------------------------------------------
(* What is known of the leaf of an index after t levels: the head and the  *)
(* path of the block it lies in, and what is left of the path's length.    *)

HeadAt(leaves, x, t) ==
  Heads(leaves)[BlockSize(Len(leaves), Base(x, t), Power(t))][Base(x, t)]
PathAt(leaves, x, t) ==
  Paths(x, leaves)[BlockSize(Len(leaves), Base(x, t), Power(t))][Base(x, t)]

(* The head of the block on the other side. *)
SiblingAt(leaves, x, t) ==
  LET at == IF Bit(x, t) = 1 THEN Base(x, t) - Power(t) ELSE Base(x, t) + Power(t)
  IN Heads(leaves)[BlockSize(Len(leaves), at, Power(t))][at]

(* The head of the next larger block, wherever it starts. *)
LEMMA BlockHead ==
  ASSUME NEW leaves, Len(leaves) \in Nat, NEW at \in Nat, at < Len(leaves), NEW t \in Nat
  PROVE  Heads(leaves)[BlockSize(Len(leaves), at, Power(t + 1))][at] =
           IF at + Power(t) < Len(leaves)
           THEN NodeHash(Heads(leaves)[BlockSize(Len(leaves), at, Power(t))][at],
                  Heads(leaves)[BlockSize(Len(leaves), at + Power(t), Power(t))][at + Power(t)])
           ELSE Heads(leaves)[BlockSize(Len(leaves), at, Power(t))][at]
<1> DEFINE b == BlockSize(Len(leaves), at, Power(t + 1))
<1>1. CASE at + Power(t) < Len(leaves)
  <2>1. b \in 1..Len(leaves) /\ b # 1 /\ at \in 0..(Len(leaves) - b)
    <3>1. b \in 2..(Len(leaves) - at)
      BY <1>1, BlockStep
    <3> HIDE DEF b
    <3> QED
      BY <3>1
  <2>2. Heads(leaves)[b][at] =
          NodeHash(Heads(leaves)[Split(b)][at], Heads(leaves)[b - Split(b)][at + Split(b)])
    <3> HIDE DEF b
    <3> QED
      BY <2>1, HeadsAre
  <2>3. /\ BlockSize(Len(leaves), at, Power(t)) = Power(t) /\ Split(b) = Power(t)
        /\ b - Power(t) = BlockSize(Len(leaves), at + Power(t), Power(t))
    BY <1>1, BlockStep
  <2> HIDE DEF b
  <2> QED
    BY <1>1, <2>2, <2>3 DEF b
<1>2. CASE ~(at + Power(t) < Len(leaves))
  BY <1>2, BlockStep
<1> QED
  BY <1>1, <1>2

LEMMA BlockPath ==
  ASSUME NEW leaves, Len(leaves) \in Nat, NEW at \in Nat, at < Len(leaves), NEW t \in Nat, NEW x
  PROVE  Paths(x, leaves)[BlockSize(Len(leaves), at, Power(t + 1))][at] =
           IF at + Power(t) < Len(leaves)
           THEN IF x < at + Power(t)
                THEN Append(Paths(x, leaves)[BlockSize(Len(leaves), at, Power(t))][at],
                  Heads(leaves)[BlockSize(Len(leaves), at + Power(t), Power(t))][at + Power(t)])
                ELSE Append(
                  Paths(x, leaves)[BlockSize(Len(leaves), at + Power(t), Power(t))][at + Power(t)],
                  Heads(leaves)[BlockSize(Len(leaves), at, Power(t))][at])
           ELSE Paths(x, leaves)[BlockSize(Len(leaves), at, Power(t))][at]
<1> DEFINE b == BlockSize(Len(leaves), at, Power(t + 1))
<1>1. CASE at + Power(t) < Len(leaves)
  <2>1. b \in 1..Len(leaves) /\ b # 1 /\ at \in 0..(Len(leaves) - b)
    <3>1. b \in 2..(Len(leaves) - at)
      BY <1>1, BlockStep
    <3> HIDE DEF b
    <3> QED
      BY <3>1
  <2>2. Paths(x, leaves)[b][at] =
          IF x < at + Split(b)
          THEN Append(Paths(x, leaves)[Split(b)][at], Heads(leaves)[b - Split(b)][at + Split(b)])
          ELSE Append(Paths(x, leaves)[b - Split(b)][at + Split(b)], Heads(leaves)[Split(b)][at])
    <3> HIDE DEF b
    <3> QED
      BY <2>1, PathsAre
  <2>3. /\ BlockSize(Len(leaves), at, Power(t)) = Power(t) /\ Split(b) = Power(t)
        /\ b - Power(t) = BlockSize(Len(leaves), at + Power(t), Power(t))
    BY <1>1, BlockStep
  <2> HIDE DEF b
  <2> QED
    BY <1>1, <2>2, <2>3 DEF b
<1>2. CASE ~(at + Power(t) < Len(leaves))
  BY <1>2, BlockStep
<1> QED
  BY <1>1, <1>2

(* One level up: the block is the right one of two, the left one of two,   *)
(* or has no other.                                                        *)
LEMMA LevelUp ==
  ASSUME NEW leaves, Len(leaves) \in Nat, NEW x \in 0..(Len(leaves) - 1), NEW t \in Nat
  PROVE  /\ Bit(x, t) = 1 =>
              /\ HeadAt(leaves, x, t + 1) = NodeHash(SiblingAt(leaves, x, t), HeadAt(leaves, x, t))
              /\ PathAt(leaves, x, t + 1) = Append(PathAt(leaves, x, t), SiblingAt(leaves, x, t))
         /\ Bit(x, t) = 0 /\ Shift(x, t) # Shift(Len(leaves) - 1, t) =>
              /\ HeadAt(leaves, x, t + 1) = NodeHash(HeadAt(leaves, x, t), SiblingAt(leaves, x, t))
              /\ PathAt(leaves, x, t + 1) = Append(PathAt(leaves, x, t), SiblingAt(leaves, x, t))
         /\ Bit(x, t) = 0 /\ Shift(x, t) = Shift(Len(leaves) - 1, t) =>
              /\ HeadAt(leaves, x, t + 1) = HeadAt(leaves, x, t)
              /\ PathAt(leaves, x, t + 1) = PathAt(leaves, x, t)
<1> DEFINE size == Len(leaves)
           p == Power(t)
           at == Base(x, t)
           up == Base(x, t + 1)
<1>1. /\ at \in Nat /\ up \in Nat /\ x \in Nat /\ x < size /\ p \in Nat
      /\ at <= x /\ x < at + p /\ up <= x
      /\ Bit(x, t) = 0 => up = at
      /\ Bit(x, t) = 1 => up + p = at
  <2>1. x \in Nat /\ t + 1 \in Nat /\ x < size
    OBVIOUS
  <2>2. /\ at \in Nat /\ at <= x /\ x < at + p
        /\ up \in Nat /\ up <= x /\ p \in Nat
    BY <2>1, BaseIs, PowerIs
  <2>3. /\ Bit(x, t) = 0 => up = at
        /\ Bit(x, t) = 1 => up + p = at
    BY <2>1, BaseStep
  <2> QED
    BY <2>1, <2>2, <2>3
<1>2. Shift(x, t) = Shift(size - 1, t) <=> ~(at + p < size)
  BY LastBlock
<1>3. /\ HeadAt(leaves, x, t) = Heads(leaves)[BlockSize(size, at, p)][at]
      /\ HeadAt(leaves, x, t + 1) = Heads(leaves)[BlockSize(size, up, Power(t + 1))][up]
      /\ PathAt(leaves, x, t) = Paths(x, leaves)[BlockSize(size, at, p)][at]
      /\ PathAt(leaves, x, t + 1) = Paths(x, leaves)[BlockSize(size, up, Power(t + 1))][up]
  BY DEF HeadAt, PathAt
<1> HIDE DEF at, up
<1>4. ASSUME Bit(x, t) = 1
      PROVE  /\ HeadAt(leaves, x, t + 1) = NodeHash(SiblingAt(leaves, x, t), HeadAt(leaves, x, t))
             /\ PathAt(leaves, x, t + 1) = Append(PathAt(leaves, x, t), SiblingAt(leaves, x, t))
  <2> DEFINE e == Heads(leaves)[BlockSize(size, up, p)][up]
  <2>1. up + p = at /\ up + p < size /\ up < size /\ ~(x < up + p)
    BY <1>1, <1>4
  <2>2. HeadAt(leaves, x, t + 1) = NodeHash(e, HeadAt(leaves, x, t))
    BY <1>1, <2>1, <1>3, BlockHead
  <2>3. Paths(x, leaves)[BlockSize(size, up, Power(t + 1))][up]
          = Append(Paths(x, leaves)[BlockSize(size, up + p, p)][up + p], e)
    BY <1>1, <2>1, BlockPath
  <2>4. PathAt(leaves, x, t + 1) = Append(PathAt(leaves, x, t), e)
    BY <1>3, <2>1, <2>3
  <2>5. SiblingAt(leaves, x, t) = e
    <3>1. at - p = up
      BY <1>1, <2>1
    <3> HIDE DEF p
    <3> QED
      BY <1>4, <3>1 DEF SiblingAt, at, p
  <2> QED
    BY <2>2, <2>4, <2>5
<1>5. ASSUME Bit(x, t) = 0, at + p < size
      PROVE  /\ HeadAt(leaves, x, t + 1) = NodeHash(HeadAt(leaves, x, t), SiblingAt(leaves, x, t))
             /\ PathAt(leaves, x, t + 1) = Append(PathAt(leaves, x, t), SiblingAt(leaves, x, t))
  <2> DEFINE e == Heads(leaves)[BlockSize(size, at + p, p)][at + p]
  <2>1. up = at /\ up < size /\ x < up + p
    BY <1>1, <1>5
  <2>2. HeadAt(leaves, x, t + 1) = NodeHash(HeadAt(leaves, x, t), e)
    BY <1>1, <1>5, <2>1, <1>3, BlockHead
  <2>3. PathAt(leaves, x, t + 1) = Append(PathAt(leaves, x, t), e)
    BY <1>1, <1>5, <2>1, <1>3, BlockPath
  <2>4. SiblingAt(leaves, x, t) = e
    BY <1>5 DEF SiblingAt, at
  <2> QED
    BY <2>2, <2>3, <2>4
<1>6. ASSUME Bit(x, t) = 0, ~(at + p < size)
      PROVE  /\ HeadAt(leaves, x, t + 1) = HeadAt(leaves, x, t)
             /\ PathAt(leaves, x, t + 1) = PathAt(leaves, x, t)
  <2>1. up = at /\ up < size
    BY <1>1, <1>6
  <2>2. HeadAt(leaves, x, t + 1) = HeadAt(leaves, x, t)
    BY <1>1, <1>6, <2>1, <1>3, BlockHead
  <2>3. PathAt(leaves, x, t + 1) = PathAt(leaves, x, t)
    <3>1. Paths(x, leaves)[BlockSize(size, up, Power(t + 1))][up]
            = Paths(x, leaves)[BlockSize(size, up, p)][up]
      BY <1>1, <1>6, <2>1, BlockPath
    <3> QED
      BY <1>3, <2>1, <3>1
  <2> QED
    BY <2>2, <2>3
<1> QED
  BY <1>2, <1>4, <1>5, <1>6

Climbed(leaves, x, inner, t) ==
  /\ IsSeq(PathAt(leaves, x, t))
  /\ HeadAt(leaves, x, t)
       = Rehash(LeafHash(leaves[x + 1]), x, inner, PathAt(leaves, x, t))
  /\ t <= inner => Len(PathAt(leaves, x, t)) = t
  /\ inner <= t => /\ inner <= Len(PathAt(leaves, x, t))
                   /\ Len(PathAt(leaves, x, t)) + PopCount(Shift(x, t))
                        = inner + PopCount(Shift(x, inner))

LEMMA ClimbedOn ==
  ASSUME NEW leaves, Len(leaves) \in Nat, NEW x \in 0..(Len(leaves) - 1), NEW t \in Nat,
         NEW inner \in Nat, t < inner <=> Shift(x, t) # Shift(Len(leaves) - 1, t),
         Climbed(leaves, x, inner, t)
  PROVE  Climbed(leaves, x, inner, t + 1)
<1> DEFINE P == PathAt(leaves, x, t)
           Q == PathAt(leaves, x, t + 1)
           leaf == LeafHash(leaves[x + 1])
<1>1. /\ IsSeq(P) /\ Len(P) \in Nat /\ HeadAt(leaves, x, t) = Rehash(leaf, x, inner, P)
      /\ t <= inner => Len(P) = t
      /\ inner <= t => inner <= Len(P)
      /\ inner <= t => Len(P) + PopCount(Shift(x, t)) = inner + PopCount(Shift(x, inner))
  BY SeqFacts DEF Climbed
<1>2. x \in Nat /\ t + 1 \in Nat
  OBVIOUS
<1>3. /\ Bit(x, t) \in {0, 1}
      /\ PopCount(Shift(x, t)) \in Nat /\ PopCount(Shift(x, t + 1)) \in Nat
      /\ PopCount(Shift(x, inner)) \in Nat
      /\ PopCount(Shift(x, t)) = Bit(x, t) + PopCount(Shift(x, t + 1))
  BY <1>2, ShiftIs, BaseStep, PopCountIs DEF Bit
<1> DEFINE front == Len(P)
           c == PopCount(Shift(x, t))
           d == PopCount(Shift(x, t + 1))
           all == PopCount(Shift(x, inner))
<1>4. inner = t + 1 => d = all
  OBVIOUS
<1>5. ASSUME NEW e, Q = Append(P, e),
             Bit(x, t) = 1 \/ (Bit(x, t) = 0 /\ t < inner)
      PROVE  /\ IsSeq(Q) /\ Len(Q) = front + 1
             /\ t + 1 <= inner => Len(Q) = t + 1
             /\ inner <= t + 1 => inner <= Len(Q) /\ Len(Q) + d = inner + all
             /\ Rehash(leaf, x, inner, Q)
                  = Paired(OnLeft(x, inner, front + 1), HeadAt(leaves, x, t), e)
  <2> HIDE DEF P, Q, leaf
  <2>1. IsSeq(Q) /\ Len(Q) = front + 1
    BY <1>1, <1>5, AppendSeq
  <2>2. Rehash(leaf, x, inner, Q) = Paired(OnLeft(x, inner, front + 1), HeadAt(leaves, x, t), e)
    BY <1>1, <1>5, RehashOn
  <2>3. /\ front \in Nat /\ c \in Nat /\ d \in Nat /\ all \in Nat /\ c = Bit(x, t) + d
        /\ t <= inner => front = t
        /\ inner <= t => inner <= front /\ front + c = inner + all
    BY <1>1, <1>3
  <2> HIDE DEF front, c, d, all
  <2>4. t + 1 <= inner => front + 1 = t + 1
    BY <2>3
  <2>5. inner <= t + 1 => inner <= front + 1 /\ front + 1 + d = inner + all
    <3>1. CASE inner = t + 1
      BY <1>4, <2>3, <3>1
    <3>2. CASE inner <= t
      BY <1>5, <2>3, <3>2
    <3> QED
      BY <3>1, <3>2
  <2> QED
    BY <2>1, <2>2, <2>4, <2>5
<1>6. CASE Bit(x, t) = 1
  <2> DEFINE e == SiblingAt(leaves, x, t)
  <2>1. HeadAt(leaves, x, t + 1) = NodeHash(e, HeadAt(leaves, x, t)) /\ Q = Append(P, e)
    BY <1>6, LevelUp
  <2>2. OnLeft(x, inner, front + 1)
    <3>1. CASE t < inner
      BY <1>1, <1>6, <3>1 DEF OnLeft
    <3>2. CASE inner <= t
      BY <1>1, <3>2 DEF OnLeft
    <3> QED
      BY <3>1, <3>2
  <2> HIDE DEF front, c, d, all, P
  <2>3. HeadAt(leaves, x, t + 1) = Rehash(leaf, x, inner, Q)
    BY <1>5, <1>6, <2>1, <2>2 DEF Paired
  <2> QED
    BY <1>5, <1>6, <2>1, <2>3 DEF Climbed, d, all
<1>7. CASE Bit(x, t) = 0 /\ t < inner
  <2> DEFINE e == SiblingAt(leaves, x, t)
  <2>1. HeadAt(leaves, x, t + 1) = NodeHash(HeadAt(leaves, x, t), e) /\ Q = Append(P, e)
    BY <1>7, LevelUp
  <2>2. ~OnLeft(x, inner, front + 1)
    BY <1>1, <1>7 DEF OnLeft
  <2> HIDE DEF front, c, d, all, P
  <2>3. HeadAt(leaves, x, t + 1) = Rehash(leaf, x, inner, Q)
    BY <1>5, <1>7, <2>1, <2>2 DEF Paired
  <2> QED
    BY <1>5, <1>7, <2>1, <2>3 DEF Climbed, d, all
<1>8. CASE Bit(x, t) = 0 /\ ~(t < inner)
  <2>1. HeadAt(leaves, x, t + 1) = HeadAt(leaves, x, t) /\ Q = P
    BY <1>8, LevelUp
  <2>2. inner <= t /\ ~(t + 1 <= inner) /\ c = d
    BY <1>3, <1>8
  <2> QED
    BY <1>1, <2>1, <2>2 DEF Climbed
<1> QED
  BY <1>3, <1>6, <1>7, <1>8

LEMMA InnerFacts ==
  ASSUME NEW size \in Nat, NEW x \in 0..(size - 1)
  PROVE  /\ x \in Nat /\ size - 1 \in Nat /\ Inner(x, size) \in Nat
         /\ \A t \in Nat : t < Inner(x, size) <=> Shift(x, t) # Shift(size - 1, t)
<1> DEFINE last == size - 1
<1>1. x \in Nat /\ last \in Nat
  OBVIOUS
<1> HIDE DEF last
<1>2. /\ BitLenOfXor(x, last) \in Nat
      /\ \A t \in Nat : t < BitLenOfXor(x, last) <=> Shift(x, t) # Shift(last, t)
  BY <1>1, InnerIs
<1> QED
  BY <1>1, <1>2 DEF Inner, last

(* From leaf to head. *)
LEMMA ClimbedAll ==
  ASSUME NEW leaves, Len(leaves) \in Nat, NEW x \in 0..(Len(leaves) - 1)
  PROVE  \A t \in 0..Len(leaves) : Climbed(leaves, x, Inner(x, Len(leaves)), t)
<1> DEFINE size == Len(leaves)
           inner == Inner(x, size)
           S == {t \in Nat : Climbed(leaves, x, inner, t)}
<1>1. /\ size \in Nat /\ x \in Nat /\ x < size /\ size - 1 \in Nat
      /\ inner \in Nat
      /\ \A t \in Nat : t < inner <=> Shift(x, t) # Shift(size - 1, t)
  BY InnerFacts
<1>2. 0 \in S
  <2>1. Base(x, 0) = x /\ BlockSize(size, x, Power(0)) = 1 /\ Shift(x, 0) = x
    <3>1. Shift(x, 0) = x /\ Power(0) = 1 /\ x * 1 = x /\ x + 1 <= size
      BY <1>1, ShiftIs, PowerIs
    <3> HIDE DEF size
    <3> QED
      BY <3>1 DEF Base, BlockSize
  <2>2. 1 \in 1..size /\ x \in 0..(size - 1)
    BY <1>1
  <2>3. HeadAt(leaves, x, 0) = LeafHash(leaves[x + 1])
    BY <2>1, <2>2, HeadsAre DEF HeadAt
  <2>4. PathAt(leaves, x, 0) = <<>>
    BY <2>1, <2>2, PathsAre DEF PathAt
  <2>5. Len(PathAt(leaves, x, 0)) = 0 /\ IsSeq(PathAt(leaves, x, 0))
    BY <2>4, NothingIsSeq
  <2> HIDE DEF inner
  <2>6. HeadAt(leaves, x, 0) = Rehash(LeafHash(leaves[x + 1]), x, inner, PathAt(leaves, x, 0))
    BY <2>3, <2>4, RehashNothing
  <2>7. inner <= 0 => inner = 0
    BY <1>1
  <2> QED
    BY <1>1, <2>5, <2>6, <2>7, PopCountIs, ShiftIs DEF Climbed
<1>3. ASSUME NEW t \in 1..size, t - 1 \in S
      PROVE  t \in S
  <2> DEFINE u == t - 1
  <2>1. u \in Nat /\ t = u + 1 /\ Climbed(leaves, x, inner, u)
    BY <1>3
  <2> HIDE DEF u, inner
  <2>2. u < inner <=> Shift(x, u) # Shift(size - 1, u)
    BY <1>1, <2>1
  <2>3. Climbed(leaves, x, inner, u + 1)
    BY <1>1, <2>1, <2>2, ClimbedOn
  <2> QED
    BY <2>1, <2>3
<1>4. 0..size \subseteq S
  <2> HIDE DEF S
  <2> QED
    BY <1>1, <1>2, <1>3, UpTo
<1> QED
  BY <1>4

(* At the top. *)
LEMMA HeadReached ==
  ASSUME NEW leaves, Len(leaves) \in Nat, NEW x \in 0..(Len(leaves) - 1)
  PROVE  /\ IsSeq(InclusionProof(x, leaves))
         /\ Len(InclusionProof(x, leaves)) = Inner(x, Len(leaves)) + Border(x, Len(leaves))
         /\ Rehash(LeafHash(leaves[x + 1]), x, Inner(x, Len(leaves)), InclusionProof(x, leaves))
              = TreeHead(leaves)
<1> DEFINE size == Len(leaves)
           inner == Inner(x, size)
<1>1. /\ size \in Nat /\ x \in Nat /\ x <= size /\ size - 1 \in Nat /\ size - 1 <= size
      /\ inner \in Nat
      /\ \A t \in Nat : t < inner <=> Shift(x, t) # Shift(size - 1, t)
  BY InnerFacts
<1>2. Shift(x, size) = 0 /\ Base(x, size) = 0 /\ Shift(size - 1, size) = 0
  BY <1>1, ShiftedOut
<1>3. inner <= size
  BY <1>1, <1>2
<1>4. BlockSize(size, 0, Power(size)) = size
  BY PowerGrows DEF BlockSize
<1>5. HeadAt(leaves, x, size) = TreeHead(leaves) /\ PathAt(leaves, x, size) = InclusionProof(x, leaves)
  BY <1>2, <1>4, ProofIsPath DEF HeadAt, PathAt, TreeHead
<1>6. Climbed(leaves, x, inner, size)
  BY <1>1, ClimbedAll
<1> DEFINE P == InclusionProof(x, leaves)
<1>7. /\ IsSeq(P) /\ TreeHead(leaves) = Rehash(LeafHash(leaves[x + 1]), x, inner, P)
      /\ Len(P) + PopCount(0) = inner + PopCount(Shift(x, inner))
  BY <1>2, <1>3, <1>5, <1>6 DEF Climbed
<1>8. Len(P) \in Nat /\ PopCount(0) = 0
  BY <1>7, SeqFacts, PopCountIs
<1>9. Len(P) = inner + PopCount(Shift(x, inner))
  <2> DEFINE b == inner + PopCount(Shift(x, inner))
  <2> HIDE DEF P, b
  <2>1. Len(P) + 0 = b
    BY <1>7, <1>8 DEF b
  <2> QED
    BY <1>8, <2>1 DEF b
<1> QED
  BY <1>7, <1>9 DEF Border

LEMMA HeadIsHash ==
  ASSUME NEW leaves, Len(leaves) \in Nat, Len(leaves) > 0
  PROVE  IsHash(TreeHead(leaves))
<1>1. Len(leaves) \in 1..Len(leaves) /\ 0 \in 0..(Len(leaves) - Len(leaves))
  OBVIOUS
<1> QED
  BY <1>1, HeadsAre DEF TreeHead, IsHash

(* The verifier of a log's proofs (rfc6962.ts rootFromInclusionProof) gets *)
(* the head of a tree from the leaf hash of an entry, an index and a proof *)
(* exactly if the entry is the one of that index and the proof is the one  *)
(* that the tree has for it: for every tree, and whatever it is given.     *)
THEOREM InclusionIsExact ==
  ASSUME NEW leaves, Len(leaves) \in Nat, Len(leaves) > 0,
         NEW index, NEW leaf, NEW hashes, IsSeq(hashes)
  PROVE  RootFromInclusionProof(leaf, index, Len(leaves), hashes) = TreeHead(leaves)
         <=> /\ index \in 0..(Len(leaves) - 1)
             /\ leaf = LeafHash(leaves[index + 1])
             /\ hashes = InclusionProof(index, leaves)
<1>1. TreeHead(leaves) # <<>>
  BY HeadIsHash DEF IsHash, LeafHash, NodeHash
<1>2. CASE index \notin 0..(Len(leaves) - 1)
  BY <1>1, <1>2 DEF RootFromInclusionProof
<1>3. CASE index \in 0..(Len(leaves) - 1)
  <2> DEFINE P == InclusionProof(index, leaves)
             inner == Inner(index, Len(leaves))
             length == inner + Border(index, Len(leaves))
             own == LeafHash(leaves[index + 1])
             root == RootFromInclusionProof(leaf, index, Len(leaves), hashes)
  <2>1. IsSeq(P) /\ Len(P) = length /\ Rehash(own, index, inner, P) = TreeHead(leaves)
    BY <1>3, HeadReached
  <2>2. root = IF Len(hashes) # length THEN <<>> ELSE Rehash(leaf, index, inner, hashes)
    BY <1>3 DEF RootFromInclusionProof
  <2> HIDE DEF P, inner, length, root, own
  <2>3. ASSUME root = TreeHead(leaves)
        PROVE  leaf = own /\ hashes = P
    <3>1. Len(hashes) = Len(P) /\ Rehash(leaf, index, inner, hashes) = Rehash(own, index, inner, P)
      BY <1>1, <2>1, <2>2, <2>3
    <3> QED
      BY <2>1, <3>1, OneWay
  <2>4. leaf = own /\ hashes = P => root = TreeHead(leaves)
    BY <2>1, <2>2
  <2> QED
    BY <1>3, <2>3, <2>4 DEF P, own, root
<1> QED
  BY <1>2, <1>3

-------------------------------------------------------------------------------
(* AuditKit's own trees.                                                   *)

(* A level of the tree holds the heads of the blocks of its size. *)
Layered(hashes, l, t) ==
  \A b \in Nat :
    /\ b < Len(l) <=> b * Power(t) < Len(hashes)
    /\ b < Len(l) => l[b + 1] = Heads(hashes)[BlockSize(Len(hashes), b * Power(t), Power(t))][b * Power(t)]

LEMMA FirstLayer ==
  ASSUME NEW hashes, IsSeq(hashes), NEW l, l = Leaves(hashes)
  PROVE  Layered(hashes, l, 0)
<1> DEFINE size == Len(hashes)
<1>1. size \in Nat /\ Len(l) = size /\ \A i \in 1..size : l[i] = LeafHash(hashes[i])
  BY SeqFacts, LeavesFacts
<1> SUFFICES ASSUME NEW b \in Nat
             PROVE  /\ b < Len(l) <=> b * Power(0) < size
                    /\ b < Len(l) => l[b + 1] = Heads(hashes)[BlockSize(size, b * Power(0), Power(0))][b * Power(0)]
  BY DEF Layered
<1>2. Power(0) = 1 /\ b * 1 = b
  BY PowerIs
<1>3. ASSUME b < size
      PROVE  l[b + 1] = Heads(hashes)[BlockSize(size, b, 1)][b]
  <2>1. b + 1 \in 1..size /\ 1 \in 1..size /\ b \in 0..(size - 1)
    BY <1>1, <1>3
  <2>2. BlockSize(size, b, 1) = 1
    <3> HIDE DEF size
    <3> QED
      BY <1>1, <1>3 DEF BlockSize
  <2>3. Heads(hashes)[1][b] = LeafHash(hashes[b + 1])
    BY <1>1, <2>1, HeadsAre
  <2> QED
    BY <1>1, <2>1, <2>2, <2>3
<1> QED
  BY <1>1, <1>2, <1>3

LEMMA LayerUp ==
  ASSUME NEW hashes, Len(hashes) \in Nat, NEW l, IsSeq(l), Len(l) > 0, NEW t \in Nat,
         Layered(hashes, l, t)
  PROVE  Layered(hashes, NextLevel(l), t + 1)
<1> DEFINE size == Len(hashes)
           d == Len(l)
           p == Power(t)
           up == NextLevel(l)
<1>1. /\ size \in Nat /\ d \in Nat /\ p \in Nat /\ Power(t + 1) = 2 * p
      /\ Len(up) = (d + 1) \div 2
      /\ \A j \in 1..Len(up) :
           up[j] = IF 2 * j <= d THEN NodeHash(l[2 * j - 1], l[2 * j]) ELSE l[2 * j - 1]
  BY SeqFacts, PowerIs, NextLevelFacts
<1> HIDE DEF d, p, up
<1> SUFFICES ASSUME NEW b \in Nat
             PROVE  /\ b < Len(up) <=> b * (2 * p) < size
                    /\ b < Len(up) =>
                         up[b + 1] = Heads(hashes)[BlockSize(size, b * (2 * p), 2 * p)][b * (2 * p)]
  BY <1>1 DEF Layered, up
<1> DEFINE left == 2 * b
           right == 2 * b + 1
           at == left * p
<1>2. left \in Nat /\ right \in Nat /\ at \in Nat
  <2>1. left \in Nat /\ right \in Nat
    OBVIOUS
  <2> HIDE DEF left
  <2> QED
    BY <1>1, <2>1
<1>3. b * (2 * p) = at /\ right * p = at + p
  BY <1>1
<1>4. /\ left < d <=> at < size
      /\ left < d => l[left + 1] = Heads(hashes)[BlockSize(size, at, p)][at]
      /\ right < d <=> at + p < size
      /\ right < d => l[right + 1] = Heads(hashes)[BlockSize(size, at + p, p)][at + p]
  <2> HIDE DEF left, right
  <2> QED
    BY <1>2, <1>3 DEF Layered, d, p
<1>5. /\ b < (d + 1) \div 2 <=> left < d
      /\ left + 1 = 2 * (b + 1) - 1 /\ right + 1 = 2 * (b + 1)
      /\ right < d <=> 2 * (b + 1) <= d
      /\ b < Len(up) => b + 1 \in 1..Len(up)
  <2>1. \A c \in Nat : c = (d + 1) \div 2 => (b < c <=> 2 * b < d)
    <3>1. d \in Nat /\ b \in Nat
      BY <1>1
    <3> QED
      BY ONLY <3>1
  <2>2. b < (d + 1) \div 2 <=> left < d
    BY <1>1, <2>1
  <2>3. /\ left + 1 = 2 * (b + 1) - 1 /\ right + 1 = 2 * (b + 1)
        /\ right < d <=> 2 * (b + 1) <= d
    BY ONLY <1>1
  <2>4. \A c \in Nat : b < c => b + 1 \in 1..c
    OBVIOUS
  <2> QED
    BY <1>1, <2>2, <2>3, <2>4
<1> HIDE DEF left, right
<1>6. at < size => Heads(hashes)[BlockSize(size, at, Power(t + 1))][at] =
        IF at + p < size
        THEN NodeHash(Heads(hashes)[BlockSize(size, at, p)][at],
                      Heads(hashes)[BlockSize(size, at + p, p)][at + p])
        ELSE Heads(hashes)[BlockSize(size, at, p)][at]
  <2> HIDE DEF at
  <2> QED
    BY <1>1, <1>2, BlockHead DEF p
<1>7. b < Len(up) => up[b + 1] = IF right < d THEN NodeHash(l[left + 1], l[right + 1]) ELSE l[left + 1]
  BY <1>1, <1>5
<1> HIDE DEF at, size
<1> QED
  BY <1>1, <1>3, <1>4, <1>5, <1>6, <1>7

(* The levels of a tree are layers, up to the whole. *)
LEMMA LevelsLayered ==
  ASSUME NEW hashes, IsSeq(hashes), NEW L, IsTree(L, hashes)
  PROVE  \A n \in 0..(Len(L) - 1) : Layered(hashes, L[n + 1], n)
<1> DEFINE k == Len(L) - 1
           S == {n \in Nat : Layered(hashes, L[n + 1], n)}
<1>1. /\ Len(L) \in Nat /\ k \in Nat /\ L[1] = Leaves(hashes)
      /\ \A n \in 1..k : L[n + 1] = NextLevel(L[n])
      /\ \A n \in 1..Len(L) : IsSeq(L[n]) /\ Len(L[n]) > 0
      /\ Len(hashes) \in Nat
  BY SeqFacts DEF IsTree
<1>2. 0 \in S
  BY <1>1, FirstLayer
<1>3. ASSUME NEW n \in 1..k, n - 1 \in S
      PROVE  n \in S
  <2> DEFINE u == n - 1
  <2>1. u \in Nat /\ n = u + 1 /\ Layered(hashes, L[n], u) /\ n \in 1..Len(L)
    BY <1>1, <1>3
  <2> HIDE DEF u
  <2>2. Layered(hashes, NextLevel(L[n]), u + 1)
    BY <1>1, <2>1, LayerUp
  <2> QED
    BY <1>1, <2>1, <2>2
<1>4. 0..k \subseteq S
  <2> HIDE DEF S, k
  <2> QED
    BY <1>1, <1>2, <1>3, UpTo
<1> QED
  BY <1>4

(* The trees that merkle.ts builds by pairing the nodes of a level, an odd *)
(* last one carried up as it is, are those of RFC 6962, which splits the   *)
(* leaves at a power of two: of any size, the root is the tree head.       *)
THEOREM TreesAreRfc6962 ==
  ASSUME NEW S, NEW hashes \in Seq(S), hashes # <<>>
  PROVE  TreeRoot(hashes) = TreeHead(hashes)
<1> DEFINE L == Levels(hashes)
           k == Len(L) - 1
           size == Len(hashes)
<1>1. IsSeq(hashes) /\ size \in Nat /\ size > 0
  BY SeqIntro
<1>2. IsTree(L, hashes)
  BY <1>1, LevelsAreATree
<1> HIDE DEF L
<1>3. k \in Nat /\ k + 1 = Len(L) /\ Len(L[k + 1]) = 1
  BY <1>2, SeqFacts DEF IsTree
<1>4. Layered(hashes, L[k + 1], k)
  <2>1. k \in 0..k
    BY <1>3
  <2> HIDE DEF k
  <2> QED
    BY <1>1, <1>2, <2>1, LevelsLayered DEF k
<1> HIDE DEF k
<1>5. Power(k) \in Nat /\ 0 * Power(k) = 0 /\ 1 * Power(k) = Power(k)
  <2>1. Power(k) \in Nat
    BY <1>3, PowerIs
  <2>2. \A p \in Nat : 0 * p = 0 /\ 1 * p = p
    OBVIOUS
  <2> QED
    BY <2>1, <2>2
<1>6. /\ 1 < 1 <=> 1 * Power(k) < size
      /\ 0 < 1 => L[k + 1][0 + 1] = Heads(hashes)[BlockSize(size, 0 * Power(k), Power(k))][0 * Power(k)]
  BY <1>3, <1>4 DEF Layered
<1>7. ~(Power(k) < size) /\ L[k + 1][1] = Heads(hashes)[BlockSize(size, 0, Power(k))][0]
  BY <1>5, <1>6
<1>8. BlockSize(size, 0, Power(k)) = size
  <2> HIDE DEF size
  <2> QED
    BY <1>1, <1>5, <1>7 DEF BlockSize
<1> QED
  BY <1>3, <1>7, <1>8 DEF TreeRoot, TreeHead, L

HashesOf(steps) == [m \in DOMAIN steps |-> steps[m].hash]

LEMMA HashesOfSteps ==
  ASSUME NEW steps, IsSeq(steps)
  PROVE  /\ IsSeq(HashesOf(steps)) /\ Len(HashesOf(steps)) = Len(steps)
         /\ \A i \in 1..Len(steps) : HashesOf(steps)[i] = steps[i].hash
<1> DEFINE n == Len(steps)
           f == [m \in 1..n |-> steps[m].hash]
           S == {steps[m].hash : m \in 1..n}
<1>1. n \in Nat /\ DOMAIN steps = 1..n
  BY SeqFacts
<1>2. HashesOf(steps) = f
  BY <1>1 DEF HashesOf
<1>3. f \in [1..n -> S] /\ DOMAIN f = 1..n /\ \A i \in 1..n : f[i] = steps[i].hash
  OBVIOUS
<1> HIDE DEF f, S
<1>4. IsSeq(f)
  BY <1>1, <1>3, FunctionSeq
<1>5. Len(f) = n
  BY <1>1, <1>3, <1>4, SeqFacts, SameLength
<1> QED
  BY <1>2, <1>3, <1>4, <1>5

LEMMA HashesOfMore ==
  ASSUME NEW steps, IsSeq(steps), NEW step
  PROVE  HashesOf(Append(steps, step)) = Append(HashesOf(steps), step.hash)
<1> DEFINE n == Len(steps)
           more == Append(steps, step)
           f == HashesOf(more)
           g == Append(HashesOf(steps), step.hash)
<1>1. /\ n \in Nat /\ DOMAIN steps = 1..n /\ IsSeq(more) /\ Len(more) = n + 1
      /\ \A i \in 1..n : more[i] = steps[i]
      /\ more[n + 1] = step
  BY SeqFacts, AppendSeq
<1>2. /\ IsSeq(f) /\ Len(f) = n + 1
      /\ \A i \in 1..(n + 1) : f[i] = more[i].hash
  <2> HIDE DEF more
  <2> QED
    BY <1>1, HashesOfSteps
<1>3. /\ IsSeq(g) /\ Len(g) = n + 1
      /\ \A i \in 1..n : g[i] = steps[i].hash
      /\ g[n + 1] = step.hash
  <2> DEFINE old == HashesOf(steps)
  <2>1. IsSeq(old) /\ Len(old) = n /\ DOMAIN old = 1..n /\ \A i \in 1..n : old[i] = steps[i].hash
    BY HashesOfSteps, SeqFacts
  <2> HIDE DEF old, n
  <2> QED
    BY <2>1, AppendSeq DEF old
<1> HIDE DEF f, g, more, n
<1>4. \A i \in 1..(n + 1) : f[i] = g[i]
  <2> SUFFICES ASSUME NEW i \in 1..(n + 1)
               PROVE  f[i] = g[i]
    OBVIOUS
  <2>1. i \in 1..n \/ i = n + 1
    BY <1>1
  <2> QED
    BY <1>1, <1>2, <1>3, <2>1
<1>5. f = [i \in 1..(n + 1) |-> f[i]] /\ g = [i \in 1..(n + 1) |-> g[i]]
  BY <1>2, <1>3 DEF IsSeq
<1>6. [i \in 1..(n + 1) |-> f[i]] = [i \in 1..(n + 1) |-> g[i]]
  BY <1>4
<1>7. f = g
  BY <1>5, <1>6
<1> QED
  BY <1>7 DEF f, g, more

(* The loop of proofFor is at the node above the leaf, with its path.      *)
Drawn(hashes, index, at, t) ==
  /\ at.i = Shift(index, t)
  /\ IsSeq(at.steps)
  /\ HashesOf(at.steps) = PathAt(hashes, index, t)

LEMMA DrawOn ==
  ASSUME NEW hashes, Len(hashes) \in Nat, NEW x \in 0..(Len(hashes) - 1), NEW t \in Nat,
         NEW l, IsSeq(l), Layered(hashes, l, t), NEW at, Drawn(hashes, x, at, t)
  PROVE  Drawn(hashes, x, Climb(l, at), t + 1)
<1> DEFINE size == Len(hashes)
           d == Len(l)
           p == Power(t)
           i == Shift(x, t)
           s == Sibling(i)
           h == l[s + 1]
           up == Climb(l, at).steps
           step == [hash |-> h, side |-> IF i % 2 = 1 THEN "left" ELSE "right"]
<1>1. /\ x \in Nat /\ x < size /\ size \in Nat /\ d \in Nat /\ p \in Nat
      /\ i \in Nat /\ Shift(x, t + 1) = i \div 2 /\ at.i = i /\ IsSeq(at.steps)
      /\ HashesOf(at.steps) = PathAt(hashes, x, t)
  <2>1. x \in Nat /\ x < size
    OBVIOUS
  <2> QED
    BY <2>1, SeqFacts, PowerIs, ShiftIs DEF Drawn
<1>2. /\ Climb(l, at).i = i \div 2
      /\ up = IF s < d THEN Append(at.steps, step) ELSE at.steps
  <2>1. at.i = i
    BY <1>1
  <2> HIDE DEF i
  <2> QED
    BY <2>1 DEF Climb
<1>3. Bit(x, t) = i % 2 /\ Base(x, t) = i * p /\ Bit(x, t) \in {0, 1}
  <2>1. Bit(x, t) \in {0, 1}
    BY <1>1, BaseStep
  <2> QED
    BY <2>1 DEF Bit, Base
<1>4. i * p \in Nat /\ i * p <= x
  BY <1>1, <1>3, BaseIs
<1> HIDE DEF i, up, d, p
<1>5. i < d
  BY <1>1, <1>4 DEF Layered, d, p
<1>6. \A b \in Nat : /\ b < d <=> b * p < size
                     /\ b < d => l[b + 1] = Heads(hashes)[BlockSize(size, b * p, p)][b * p]
  BY DEF Layered, d, p
<1>7. CASE Bit(x, t) = 1
  <2>1. s = i - 1 /\ i - 1 \in Nat /\ s < d
    BY <1>1, <1>3, <1>5, <1>7 DEF Sibling
  <2>2. s * p = Base(x, t) - p
    BY <1>1, <1>3, <2>1
  <2> HIDE DEF s
  <2>3. h = SiblingAt(hashes, x, t)
    <3>1. h = Heads(hashes)[BlockSize(size, s * p, p)][s * p]
      BY <1>6, <2>1
    <3> QED
      BY <1>7, <2>2, <3>1 DEF SiblingAt, p
  <2>4. up = Append(at.steps, step) /\ PathAt(hashes, x, t + 1) = Append(PathAt(hashes, x, t), h)
    BY <1>2, <1>7, <2>1, <2>3, LevelUp
  <2> HIDE DEF h
  <2>5. IsSeq(up) /\ HashesOf(up) = Append(HashesOf(at.steps), step.hash)
    BY <1>1, <2>4, AppendSeq, HashesOfMore
  <2> QED
    BY <1>1, <1>2, <2>4, <2>5 DEF Drawn, up
<1>8. CASE Bit(x, t) = 0 /\ s < d
  <2>1. s = i + 1 /\ i + 1 \in Nat
    BY <1>1, <1>3, <1>8 DEF Sibling
  <2>2. s * p = Base(x, t) + p
    BY <1>1, <1>3, <2>1
  <2> HIDE DEF s
  <2>3. h = SiblingAt(hashes, x, t)
    <3>1. h = Heads(hashes)[BlockSize(size, s * p, p)][s * p]
      BY <1>6, <1>8, <2>1
    <3> QED
      BY <1>8, <2>2, <3>1 DEF SiblingAt, p
  <2>4. Base(x, t) + p < size
    BY <1>6, <1>8, <2>1, <2>2
  <2>5. Shift(x, t) # Shift(size - 1, t)
    BY <1>1, <2>4, LastBlock DEF p
  <2>6. up = Append(at.steps, step) /\ PathAt(hashes, x, t + 1) = Append(PathAt(hashes, x, t), h)
    BY <1>2, <1>8, <2>3, <2>5, LevelUp
  <2> HIDE DEF h
  <2>7. IsSeq(up) /\ HashesOf(up) = Append(HashesOf(at.steps), step.hash)
    BY <1>1, <2>6, AppendSeq, HashesOfMore
  <2> QED
    BY <1>1, <1>2, <2>6, <2>7 DEF Drawn, up
<1>9. CASE Bit(x, t) = 0 /\ ~(s < d)
  <2>1. s = i + 1 /\ i + 1 \in Nat
    BY <1>1, <1>3, <1>9 DEF Sibling
  <2>2. s * p = Base(x, t) + p
    BY <1>1, <1>3, <2>1
  <2> HIDE DEF s
  <2>3. ~(Base(x, t) + p < size)
    BY <1>6, <1>9, <2>1, <2>2
  <2>4. Shift(x, t) = Shift(size - 1, t)
    BY <1>1, <2>3, LastBlock DEF p
  <2>5. up = at.steps /\ PathAt(hashes, x, t + 1) = PathAt(hashes, x, t)
    BY <1>2, <1>9, <2>4, LevelUp
  <2> QED
    BY <1>1, <1>2, <2>5 DEF Drawn, up
<1> QED
  BY <1>3, <1>7, <1>8, <1>9

(* The path that proofFor draws for a leaf of a tree of any size is the    *)
(* audit path of RFC 6962: the same hashes in the same order.              *)
THEOREM PathsAreRfc6962 ==
  ASSUME NEW S, NEW hashes \in Seq(S), NEW index \in 0..(Len(hashes) - 1)
  PROVE  HashesOf(ProofFor(hashes, index)) = InclusionProof(index, hashes)
<1> DEFINE L == Levels(hashes)
           k == Len(L) - 1
           size == Len(hashes)
<1>1. IsSeq(hashes) /\ size \in Nat /\ size > 0 /\ index \in Nat /\ index < size
  BY SeqIntro
<1>2. IsTree(L, hashes)
  BY <1>1, LevelsAreATree
<1>3. /\ IsSeq(L) /\ k \in Nat /\ k + 1 = Len(L)
      /\ \A n \in 1..(k + 1) : IsSeq(L[n]) /\ Len(L[n]) > 0
      /\ Len(L[k + 1]) = 1
  BY <1>2, SeqFacts DEF IsTree
<1>4. PICK g : IsClimb(g, index, L, k) /\ ProofFor(hashes, index) = g[k].steps
  BY <1>3, ProofForIs
<1> HIDE DEF L
<1>5. \A n \in 0..k : Layered(hashes, L[n + 1], n)
  BY <1>1, <1>2, LevelsLayered
<1> HIDE DEF k
<1>6. g[0] = Start(index) /\ \A n \in 1..k : g[n] = Climb(L[n], g[n - 1])
  <2>1. IsClimb(g, index, L, k) /\ k \in Nat
    BY <1>3, <1>4
  <2> QED
    BY ONLY <2>1, SMTT(30) DEF IsClimb
<1> DEFINE T == {n \in 0..k : Drawn(hashes, index, g[n], n)}
<1>7. 0 \in T
  <2>1. g[0].i = index /\ g[0].steps = <<>>
    BY <1>6 DEF Start
  <2>2. IsSeq(g[0].steps) /\ DOMAIN g[0].steps = {}
    BY <2>1, NothingIsSeq
  <2>3. HashesOf(g[0].steps) = <<>>
    BY <2>2 DEF HashesOf
  <2>4. Base(index, 0) = index /\ BlockSize(size, index, Power(0)) = 1 /\ Shift(index, 0) = index
    <3>1. Shift(index, 0) = index /\ Power(0) = 1 /\ index * 1 = index /\ index + 1 <= size
      BY <1>1, ShiftIs, PowerIs
    <3> HIDE DEF size
    <3> QED
      BY <3>1 DEF Base, BlockSize
  <2>5. 1 \in 1..size /\ index \in 0..(size - 1)
    BY <1>1
  <2>6. PathAt(hashes, index, 0) = <<>>
    BY <1>1, <2>4, <2>5, PathsAre DEF PathAt
  <2> QED
    BY <1>3, <2>1, <2>2, <2>3, <2>4, <2>6 DEF Drawn
<1>8. ASSUME NEW n \in 1..k, n - 1 \in T
      PROVE  n \in T
  <2> DEFINE u == n - 1
             at == g[u]
             l == L[n]
  <2>1. u \in Nat /\ u \in 0..k /\ n = u + 1 /\ n \in 1..(k + 1) /\ n \in 0..k
    BY <1>3
  <2>2. Drawn(hashes, index, at, u) /\ IsSeq(l) /\ Layered(hashes, l, u) /\ g[n] = Climb(l, at)
    <3>1. Layered(hashes, L[u + 1], u)
      BY <1>5, <2>1
    <3> QED
      BY <1>3, <1>6, <1>8, <2>1, <3>1
  <2> HIDE DEF u, at, l
  <2>3. Drawn(hashes, index, Climb(l, at), u + 1)
    BY <1>1, <2>1, <2>2, DrawOn
  <2> QED
    BY <2>1, <2>2, <2>3
<1>9. Drawn(hashes, index, g[k], k) /\ Layered(hashes, L[k + 1], k)
  <2>1. 0..k \subseteq T
    <3> HIDE DEF T
    <3> QED
      BY <1>3, <1>7, <1>8, UpTo
  <2>2. k \in 0..k
    BY <1>3
  <2> QED
    BY <1>5, <2>1, <2>2
<1>10. Base(index, k) = 0 /\ BlockSize(size, 0, Power(k)) = size
  <2> DEFINE p == Power(k)
             i == Shift(index, k)
  <2>1. p \in Nat /\ i \in Nat /\ i * p <= index
    BY <1>1, <1>3, PowerIs, ShiftIs, BaseIs DEF Base
  <2>2. ~(p < size)
    <3>1. 1 < 1 <=> 1 * p < size
      BY <1>3, <1>9 DEF Layered
    <3> HIDE DEF p
    <3> QED
      BY <2>1, <3>1
  <2> HIDE DEF p, i, size
  <2>3. 0 < i => 0 * p + p <= i * p
    BY <2>1, Times
  <2>4. i = 0
    BY <1>1, <2>1, <2>2, <2>3
  <2>5. 0 * p = 0
    BY <2>1
  <2> QED
    BY <1>1, <2>1, <2>2, <2>4, <2>5 DEF Base, BlockSize, p, i
<1>11. PathAt(hashes, index, k) = InclusionProof(index, hashes)
  BY <1>10, ProofIsPath DEF PathAt
<1> QED
  BY <1>4, <1>9, <1>11 DEF Drawn

-------------------------------------------------------------------------------
(* The logs.                                                               *)

Entries(api) ==
  {Body(n, api) : n \in 1..MaxCalls} \cup {OthersBody(i, api) : i \in 0..MaxOthers}

(* The entries of a call in a sequence. *)
OurIn(s, n, api) == {i \in DOMAIN s : s[i] = Body(n, api)}

(* What a receipt that is kept carries: the entry of its call. *)
Carries(n, p) ==
  /\ p.api \in Apis /\ p.checkpoint.size \in Nat /\ p.proofIndex \in Nat /\ p.logIndex \in Nat
  /\ p.body = Body(n, p.api)

(* The types, and that a log holds entries of its own version. *)
Typed ==
  /\ log = [api \in Apis |-> log[api]] /\ \A api \in Apis : log[api] \in Seq(Entries(api))
  /\ calls \in 0..MaxCalls
  /\ call \in [at : {"idle", "posting", "taken"}, target : {1, 2}, post : 1..MaxPosts]
  /\ receipts = [n \in 1..MaxCalls |-> receipts[n]]
  /\ \A n \in 1..MaxCalls : Len(receipts[n]) \in {0, 1}
  /\ \A n \in Kept : Carries(n, receipts[n][1])

(* How often a log holds an entry is bounded by the attempts so far. *)
Begun == call.at # "idle" => calls > 0
Unposted == \A n \in (calls + 1)..MaxCalls : \A api \in Apis : OurEntries(n, api) = {}
Once == \A n \in 1..MaxCalls : \A i, j \in OurEntries(n, 1) : i = j
Posted == \A n \in 1..MaxCalls : Cardinality(OurEntries(n, 2)) <= MaxPosts
Attempts ==
  call.at # "idle" /\ call.target = 1 =>
    Cardinality(OurEntries(calls, 2)) <= (IF call.at = "posting" THEN call.post - 1 ELSE call.post)
Took == call.at = "taken" => OurEntries(calls, Api) # {}
Counted == Begun /\ Unposted /\ Once /\ Posted /\ Attempts /\ Took

RekorInv == Typed /\ Counted /\ ReceiptsProve

LEMMA Targeted ==
  ASSUME Typed
  PROVE  Api \in Apis /\ (Api = 2 <=> call.target = 1) /\ Apis = {1, 2}
BY DEF Typed, Api, Apis, Targets

LEMMA OursAre ==
  ASSUME NEW S, NEW s \in Seq(S), NEW n, NEW api
  PROVE  IsFiniteSet(OurIn(s, n, api)) /\ Cardinality(OurIn(s, n, api)) \in Nat
<1>1. OurIn(s, n, api) \subseteq 1..Len(s) /\ Len(s) \in Nat
  BY DEF OurIn
<1>2. IsFiniteSet(1..Len(s))
  BY <1>1, FS_Interval
<1>3. IsFiniteSet(OurIn(s, n, api))
  BY <1>1, <1>2, FS_Subset
<1> QED
  BY <1>3, FS_CardinalityType

(* What a log holds of a call when an entry is added. *)
LEMMA OursGrow ==
  ASSUME NEW S, NEW s \in Seq(S), NEW e \in S, NEW n, NEW api
  PROVE  /\ e = Body(n, api) =>
              /\ OurIn(Append(s, e), n, api) = OurIn(s, n, api) \cup {Len(s) + 1}
              /\ Cardinality(OurIn(Append(s, e), n, api)) = Cardinality(OurIn(s, n, api)) + 1
         /\ e # Body(n, api) => OurIn(Append(s, e), n, api) = OurIn(s, n, api)
<1>1. /\ Len(s) \in Nat /\ DOMAIN s = 1..Len(s) /\ DOMAIN Append(s, e) = 1..(Len(s) + 1)
      /\ \A i \in 1..Len(s) : Append(s, e)[i] = s[i]
      /\ Append(s, e)[Len(s) + 1] = e
  BY AppendProperties
<1> DEFINE more == Append(s, e)
           k == Len(s)
<1> HIDE DEF more, k
<1>2. \A i \in 1..(k + 1) : i \in 1..k \/ i = k + 1
  BY <1>1 DEF k
<1>3. k + 1 \notin 1..k /\ 1..k \subseteq 1..(k + 1) /\ k + 1 \in 1..(k + 1)
  BY <1>1 DEF k
<1>4. OurIn(s, n, api) = {i \in 1..k : s[i] = Body(n, api)}
  BY <1>1 DEF OurIn, k
<1>5. OurIn(more, n, api) = {i \in 1..(k + 1) : more[i] = Body(n, api)}
  BY <1>1 DEF OurIn, more, k
<1>6. (\A i \in 1..k : more[i] = s[i]) /\ more[k + 1] = e
  BY <1>1 DEF more, k
<1>7. e = Body(n, api) => OurIn(more, n, api) = OurIn(s, n, api) \cup {k + 1}
  BY ONLY <1>2, <1>3, <1>4, <1>5, <1>6
<1>8. e # Body(n, api) => OurIn(more, n, api) = OurIn(s, n, api)
  BY ONLY <1>2, <1>3, <1>4, <1>5, <1>6
<1>9. Cardinality(OurIn(s, n, api) \cup {k + 1}) = Cardinality(OurIn(s, n, api)) + 1
  <2>1. k + 1 \notin OurIn(s, n, api)
    BY <1>3, <1>4
  <2>2. IsFiniteSet(OurIn(s, n, api))
    BY OursAre
  <2> QED
    BY <2>1, <2>2, FS_AddElement
<1> QED
  BY <1>7, <1>8, <1>9 DEF more, k

LEMMA Bodies ==
  /\ \A n, m, api : Body(n, api) = Body(m, api) <=> n = m
  /\ \A n \in Nat \ {0} : \A api, i : OthersBody(i, api) # Body(n, api)
  /\ \A n, api : Body(n, api).version = api /\ OthersBody(n, api).version = api
  /\ \A n, api : Body(n, api).digest = n /\ OthersBody(n, api).digest = 0
<1>1. \A n, api : Body(n, api).version = api /\ OthersBody(n, api).version = api
  BY DEF Body, OthersBody
<1>2. \A n, api : Body(n, api).digest = n /\ OthersBody(n, api).digest = 0
  BY DEF Body, OthersBody
<1>3. \A n, m, api : Body(n, api) = Body(m, api) => n = m
  BY <1>2
<1>4. \A n \in Nat \ {0} : \A api, i : OthersBody(i, api) # Body(n, api)
  BY <1>2
<1> QED
  BY <1>1, <1>2, <1>3, <1>4

(* The entry of a log that has the digest of a call is the call's. *)
LEMMA DigestNames ==
  ASSUME NEW api, NEW n \in Nat \ {0}, NEW e \in Entries(api), e.digest = n
  PROVE  e = Body(n, api)
BY Bodies DEF Entries

LEMMA TypeFollows ==
  ASSUME ConstantsAssumption, Typed, Counted
  PROVE  TypeOK
<1>1. /\ calls \in 0..MaxCalls
      /\ call.at \in {"idle", "posting", "taken"}
      /\ call.target \in DOMAIN Targets /\ call.post \in 1..MaxPosts
  BY DEF Typed, Targets
<1>2. \A n \in 1..MaxCalls : Len(receipts[n]) <= 1
  <2>1. \A n \in 1..MaxCalls : Len(receipts[n]) \in {0, 1}
    BY DEF Typed
  <2> QED
    <3> SUFFICES ASSUME NEW n \in 1..MaxCalls
                 PROVE  Len(receipts[n]) <= 1
      OBVIOUS
    <3>1. Len(receipts[n]) = 0 \/ Len(receipts[n]) = 1
      BY <2>1
    <3>2. 0 <= 1 /\ 1 <= 1
      OBVIOUS
    <3> QED
      BY <3>1, <3>2
<1>3. ASSUME NEW api \in Apis
      PROVE  \A i \in DOMAIN log[api] : log[api][i].version = api
  <2>1. \A e \in Entries(api) : e.version = api
    BY Bodies DEF Entries
  <2> QED
    BY <2>1 DEF Typed
<1>4. ASSUME NEW n \in 1..MaxCalls
      PROVE  Cardinality(OurEntries(n, 1)) <= 1
  <2> DEFINE ours == OurEntries(n, 1)
  <2>1. \A i, j \in ours : i = j
    BY DEF Counted, Once
  <2> HIDE DEF ours
  <2>2. CASE ours = {}
    BY <2>2, FS_EmptySet DEF ours
  <2>3. CASE ours # {}
    <3>1. PICK i \in ours : ours = {i}
      BY <2>1, <2>3
    <3> QED
      BY <3>1, FS_Singleton DEF ours
  <2> QED
    BY <2>2, <2>3
<1>5. \A n \in 1..MaxCalls : \A api \in Apis :
        Cardinality(OurEntries(n, api)) <= (IF api = 1 THEN 1 ELSE MaxPosts)
  BY <1>4 DEF Counted, Posted, Apis
<1> QED
  BY <1>1, <1>2, <1>3, <1>5 DEF TypeOK

(* The receipt points at the entry of its call, and the log agrees. *)
Proves(n, p) ==
  /\ Carries(n, p)
  /\ p.proofIndex + 1 \in OurEntries(n, p.api)
  /\ CheckOnline(p) <=> Numbered(p)

LEMMA ReceiptsDo ==
  ASSUME Typed
  PROVE  ReceiptsProve <=> \A n \in Kept : /\ VerifyOffline(n, receipts[n][1])
                                           /\ Proves(n, receipts[n][1])
BY DEF ReceiptsProve, Proves, Typed

LEMMA ReceiptsProveNext ==
  ASSUME \A n \in Kept' : \E p : p = receipts'[n][1] /\ VerifyOffline(n, p) /\ Proves(n, p)'
  PROVE  ReceiptsProve'
<1> SUFFICES ASSUME NEW n \in Kept'
             PROVE  (/\ receipts[n][1].proofIndex + 1 \in OurEntries(n, receipts[n][1].api)
                     /\ VerifyOffline(n, receipts[n][1])
                     /\ CheckOnline(receipts[n][1]) <=> Numbered(receipts[n][1]))'
  BY DEF ReceiptsProve
<1>1. PICK p : p = receipts'[n][1] /\ VerifyOffline(n, p) /\ Proves(n, p)'
  OBVIOUS
<1>2. p.proofIndex + 1 \in OurEntries(n, p.api)' /\ (CheckOnline(p)' <=> Numbered(p))
  BY <1>1 DEF Proves, Numbered, LogStart
<1>3. (receipts[n][1].proofIndex + 1 \in OurEntries(n, receipts[n][1].api))'
  BY <1>1, <1>2 DEF OurEntries
<1>4. VerifyOffline(n, receipts[n][1])'
  BY <1>1 DEF VerifyOffline, Decodes, EntrySigned, CheckpointSigned, Included
<1>5. CheckOnline(receipts[n][1])' <=> CheckOnline(p)'
  BY <1>1 DEF CheckOnline
<1>6. Numbered(receipts[n][1])' <=> Numbered(p)
  BY <1>1 DEF Numbered, LogStart
<1> QED
  BY <1>2, <1>3, <1>4, <1>5, <1>6

(* A log grows at its end: what it holds it holds at the same place.       *)
LEMMA LogsGrow ==
  ASSUME Typed, NEW at \in Apis, NEW e, log' = [log EXCEPT ![at] = Append(@, e)]
  PROVE  \A api \in Apis :
           /\ Len(log[api]) \in Nat /\ Len(log'[api]) \in Nat
           /\ Len(log'[api]) >= Len(log[api])
           /\ \A i \in DOMAIN log[api] : i \in DOMAIN log'[api] /\ log'[api][i] = log[api][i]
<1> SUFFICES ASSUME NEW api \in Apis
             PROVE  /\ Len(log[api]) \in Nat /\ Len(log'[api]) \in Nat
                    /\ Len(log'[api]) >= Len(log[api])
                    /\ \A i \in DOMAIN log[api] : i \in DOMAIN log'[api] /\ log'[api][i] = log[api][i]
  OBVIOUS
<1>1. IsSeq(log[api]) /\ log'[api] = IF api = at THEN Append(log[api], e) ELSE log[api]
  BY SeqIntro DEF Typed
<1> QED
  BY <1>1, AppendSeq, SeqFacts

(* An entry of a call is added to the v1 log only if it is not there. *)
TakenOnce(at, e) == at = 1 => \A n : e = Body(n, 1) => OurEntries(n, 1) = {}

LEMMA StillProves ==
  ASSUME Typed, NEW at \in Apis, NEW e, log' = [log EXCEPT ![at] = Append(@, e)],
         TakenOnce(at, e), NEW n, NEW p, Proves(n, p)
  PROVE  Proves(n, p)'
<1>1. \A api \in Apis :
        /\ Len(log[api]) \in Nat /\ Len(log'[api]) \in Nat
        /\ Len(log'[api]) >= Len(log[api])
        /\ \A i \in DOMAIN log[api] : i \in DOMAIN log'[api] /\ log'[api][i] = log[api][i]
  BY LogsGrow
<1>2. /\ Carries(n, p) /\ p.api \in Apis /\ p.checkpoint.size \in Nat /\ p.body = Body(n, p.api)
      /\ p.proofIndex + 1 \in OurEntries(n, p.api) /\ (CheckOnline(p) <=> Numbered(p))
  BY DEF Proves, Carries
<1>3. p.proofIndex + 1 \in OurEntries(n, p.api)'
  BY <1>1, <1>2 DEF OurEntries
<1>4. Numbered(p)' <=> Numbered(p)
  BY DEF Numbered, LogStart
<1>5. CASE p.api = 1
  <2>1. CheckOnline(p) => CheckOnline(p)'
    <3> SUFFICES ASSUME CheckOnline(p)
                 PROVE  CheckOnline(p)'
      OBVIOUS
    <3>1. PICK i \in DOMAIN log[1] : LogStart(1) + i - 1 = p.logIndex /\ log[1][i] = p.body
      BY <1>5 DEF CheckOnline
    <3>2. i \in DOMAIN log'[1] /\ log'[1][i] = p.body
      BY <1>1, <1>2, <1>5, <3>1
    <3> QED
      BY <1>5, <3>1, <3>2 DEF CheckOnline, LogStart
  <2>2. ASSUME NEW i \in DOMAIN log'[1], log'[1][i] = p.body
        PROVE  i \in DOMAIN log[1] /\ log[1][i] = p.body
    <3>1. 1 \in Apis /\ (at = 1 \/ log'[1] = log[1])
      BY DEF Apis, Typed
    <3>2. CASE at = 1
      <4>1. e # p.body
        BY <1>2, <1>5, <3>2 DEF TakenOnce
      <4>2. IsSeq(log[1]) /\ log'[1] = Append(log[1], e)
        BY <3>1, <3>2, SeqIntro DEF Typed
      <4>3. \A j \in DOMAIN log'[1] : j \in DOMAIN log[1] \/ log'[1][j] = e
        BY <4>2, AppendSeq, SeqFacts
      <4> QED
        BY <1>1, <2>2, <3>1, <4>1, <4>3
    <3> QED
      BY <2>2, <3>1, <3>2
  <2>3. CheckOnline(p)' => CheckOnline(p)
    <3> SUFFICES ASSUME CheckOnline(p)'
                 PROVE  CheckOnline(p)
      OBVIOUS
    <3>1. PICK i \in DOMAIN log'[1] : LogStart(1) + i - 1 = p.logIndex /\ log'[1][i] = p.body
      BY <1>5 DEF CheckOnline, LogStart
    <3> QED
      BY <1>5, <2>2, <3>1 DEF CheckOnline
  <2> QED
    BY <1>2, <1>3, <1>4, <2>1, <2>3 DEF Proves, Carries
<1>6. CASE p.api # 1
  <2>1. Numbered(p) /\ Len(log[2]) >= p.checkpoint.size
    BY <1>2, <1>6 DEF CheckOnline, Numbered
  <2>2. Len(log[2]) \in Nat /\ Len(log'[2]) \in Nat /\ Len(log'[2]) >= Len(log[2])
    BY <1>1 DEF Apis
  <2>3. Len(log'[2]) >= p.checkpoint.size
    BY <1>2, <2>1, <2>2
  <2>4. CheckOnline(p)'
    BY <1>6, <2>3 DEF CheckOnline
  <2> QED
    BY <1>2, <1>3, <1>4, <2>1, <2>4 DEF Proves, Carries
<1> QED
  BY <1>5, <1>6
-------------------------------------------------------------------------------
(* The steps.                                                              *)

CallStates == [at : {"idle", "posting", "taken"}, target : {1, 2}, post : 1..MaxPosts]

LEMMA NextIs ==
  ASSUME ConstantsAssumption, Typed
  PROVE  /\ Idle \in CallStates /\ NextTarget \in CallStates
         /\ Idle.at = "idle" /\ NextTarget.at \in {"idle", "posting"}
         /\ NextTarget.at # "idle" => NextTarget.target = 2 /\ call.target = 1
<1>1. 1 \in 1..MaxPosts /\ call.target \in {1, 2} /\ Len(Targets) = 2
  BY DEF ConstantsAssumption, Typed, Targets
<1>2. Idle = [at |-> "idle", target |-> 1, post |-> 1]
  BY DEF Idle
<1>3. CASE call.target = 1
  <2>1. NextTarget = [at |-> "posting", target |-> 2, post |-> 1]
    <3>1. call.target < Len(Targets) /\ call.target + 1 = 2
      BY <1>1, <1>3
    <3> QED
      BY <1>2, <3>1 DEF NextTarget
  <2> QED
    BY <1>1, <1>2, <1>3, <2>1 DEF CallStates
<1>4. CASE call.target = 2
  <2>1. NextTarget = Idle
    BY <1>1, <1>4 DEF NextTarget
  <2> QED
    BY <1>1, <1>2, <2>1 DEF CallStates
<1> QED
  BY <1>1, <1>3, <1>4

LEMMA InitHolds ==
  ASSUME ConstantsAssumption, Init
  PROVE  RekorInv
<1>1. /\ log = [api \in Apis |-> <<>>] /\ calls = 0
      /\ call = [at |-> "idle", target |-> 1, post |-> 1]
      /\ receipts = [n \in 1..MaxCalls |-> <<>>]
  BY DEF Init, Idle
<1>2. Kept = {}
  BY <1>1 DEF Kept
<1>3. \A api \in Apis : log[api] = <<>> /\ log[api] \in Seq(Entries(api)) /\ DOMAIN log[api] = {}
  BY <1>1
<1>4. Typed
  BY <1>1, <1>2, <1>3 DEF Typed, ConstantsAssumption
<1>5. \A n : OurEntries(n, 1) = {} /\ OurEntries(n, 2) = {}
  BY <1>3 DEF OurEntries, Apis
<1>6. Begun /\ Unposted /\ Once /\ Attempts /\ Took
  BY <1>1, <1>5 DEF Begun, Unposted, Once, Attempts, Took, Apis
<1>7. Posted
  <2>1. \A n : Cardinality(OurEntries(n, 2)) = 0
    BY <1>5, FS_EmptySet
  <2>2. 0 <= MaxPosts
    BY DEF ConstantsAssumption
  <2> QED
    BY <2>1, <2>2 DEF Posted
<1>8. ReceiptsProve
  BY <1>2 DEF ReceiptsProve
<1> QED
  BY <1>4, <1>6, <1>7, <1>8 DEF RekorInv, Counted

(* What a step that leaves the logs alone leaves as it is. *)
LEMMA SameLogs ==
  ASSUME Typed, Counted, ReceiptsProve, log' = log
  PROVE  /\ \A n, api : OurEntries(n, api)' = OurEntries(n, api)
         /\ Once' /\ Posted'
         /\ calls' = calls => Unposted'
         /\ receipts' = receipts => ReceiptsProve'
<1>1. \A n, api : OurEntries(n, api)' = OurEntries(n, api)
  BY DEF OurEntries
<1>2. Once' /\ Posted'
  BY <1>1 DEF Counted, Once, Posted
<1>3. calls' = calls => Unposted'
  BY <1>1 DEF Counted, Unposted
<1>4. receipts' = receipts => ReceiptsProve'
  BY DEF ReceiptsProve, Kept, VerifyOffline, Decodes, EntrySigned, CheckpointSigned, Included,
         CheckOnline, Numbered, LogStart, OurEntries
<1> QED
  BY <1>1, <1>2, <1>3, <1>4

LEMMA StartAnchorKeeps ==
  ASSUME ConstantsAssumption, RekorInv, StartAnchor
  PROVE  RekorInv'
<1>1. /\ call.at = "idle" /\ calls \in Nat /\ calls < MaxCalls /\ MaxCalls \in Nat
      /\ calls' = calls + 1 /\ call' = [at |-> "posting", target |-> 1, post |-> 1]
      /\ log' = log /\ receipts' = receipts /\ 1 \in 1..MaxPosts
  BY DEF StartAnchor, RekorInv, Typed, Idle, ConstantsAssumption
<1>2. Typed /\ Counted /\ ReceiptsProve
  BY DEF RekorInv
<1>3. Typed'
  BY <1>1, <1>2 DEF Typed, Kept
<1>4. /\ \A n, api : OurEntries(n, api)' = OurEntries(n, api)
      /\ Once' /\ Posted' /\ ReceiptsProve'
  BY <1>1, <1>2, SameLogs
<1>5. OurEntries(calls + 1, 2) = {}
  <2>1. calls + 1 \in (calls + 1)..MaxCalls
    BY <1>1
  <2> QED
    BY <1>2, <2>1 DEF Counted, Unposted, Apis
<1>6. Unposted'
  <2>1. \A n \in (calls' + 1)..MaxCalls : n \in (calls + 1)..MaxCalls
    BY <1>1
  <2> QED
    BY <1>2, <1>4, <2>1 DEF Counted, Unposted
<1>7. Attempts'
  <2>1. OurEntries(calls, 2)' = {}
    BY <1>1, <1>5 DEF OurEntries
  <2>2. Cardinality(OurEntries(calls, 2))' = 0
    BY <2>1, FS_EmptySet
  <2>3. call'.at = "posting" /\ 0 <= call'.post - 1
    BY <1>1
  <2> QED
    BY <2>2, <2>3 DEF Attempts
<1>8. Begun' /\ Took'
  BY <1>1 DEF Begun, Took
<1> QED
  BY <1>3, <1>4, <1>6, <1>7, <1>8 DEF RekorInv, Counted

(* A call that goes on to the next log or comes to its end. *)
LEMMA MovesOn ==
  ASSUME ConstantsAssumption, RekorInv, log' = log, calls' = calls, call.at # "idle",
         call' = Idle \/ call' = NextTarget
  PROVE  /\ call' \in CallStates
         /\ Counted'
<1>1. Typed /\ Counted /\ ReceiptsProve
  BY DEF RekorInv
<1>2. /\ call' \in CallStates /\ call'.at \in {"idle", "posting"}
      /\ call'.at # "idle" => call'.target = 2
  BY <1>1, NextIs
<1>3. Once' /\ Posted' /\ Unposted'
  BY <1>1, SameLogs
<1>4. Begun' /\ Attempts' /\ Took'
  BY <1>1, <1>2 DEF Counted, Begun, Attempts, Took
<1> QED
  BY <1>2, <1>3, <1>4 DEF Counted

LEMMA RefusedKeeps ==
  ASSUME ConstantsAssumption, RekorInv, Refused
  PROVE  RekorInv'
<1>1. /\ log' = log /\ calls' = calls /\ receipts' = receipts /\ call.at # "idle"
      /\ call' = NextTarget
  BY DEF Refused
<1>2. Typed /\ Counted /\ ReceiptsProve
  BY DEF RekorInv
<1>3. call' \in CallStates /\ Counted'
  BY <1>1, MovesOn
<1>4. Typed'
  BY <1>1, <1>2, <1>3 DEF Typed, Kept, CallStates
<1>5. ReceiptsProve'
  BY <1>1, <1>2, SameLogs
<1> QED
  BY <1>3, <1>4, <1>5 DEF RekorInv

LEMMA RetryKeeps ==
  ASSUME ConstantsAssumption, RekorInv, Retry
  PROVE  RekorInv'
<1>1. /\ log' = log /\ calls' = calls /\ receipts' = receipts
      /\ call.at \in {"posting", "taken"} /\ call.at # "idle"
      /\ call' = IF call.post < MaxPosts
                 THEN [call EXCEPT !.at = "posting", !.post = @ + 1] ELSE NextTarget
  BY DEF Retry
<1>2. Typed /\ Counted /\ ReceiptsProve
  BY DEF RekorInv
<1>3. call' \in CallStates /\ Counted'
  <2>1. CASE ~(call.post < MaxPosts)
    BY <1>1, <2>1, MovesOn
  <2>2. CASE call.post < MaxPosts
    <3>1. /\ call \in CallStates /\ call.post \in Nat /\ MaxPosts \in Nat
          /\ call.post + 1 \in 1..MaxPosts
      BY <1>2, <2>2 DEF Typed, CallStates, ConstantsAssumption
    <3>2. /\ call' = [at |-> "posting", target |-> call.target, post |-> call.post + 1]
          /\ call' \in CallStates
      <4>1. call' = [call EXCEPT !.at = "posting", !.post = call.post + 1]
        BY <1>1, <2>2
      <4> QED
        BY <3>1, <4>1 DEF CallStates
    <3>3. Once' /\ Posted' /\ Unposted'
      BY <1>1, <1>2, SameLogs
    <3>4. Begun' /\ Took'
      BY <1>1, <1>2, <3>2 DEF Counted, Begun, Took
    <3>5. Attempts'
      <4> SUFFICES ASSUME call.target = 1
                   PROVE  Cardinality(OurEntries(calls, 2))' <= call'.post - 1
        BY <3>2 DEF Attempts
      <4> DEFINE c == Cardinality(OurEntries(calls, 2))
      <4>1. c' = c
        BY <1>1 DEF OurEntries
      <4>2. c \in Nat
        <5>1. OurEntries(calls, 2) = OurIn(log[2], calls, 2)
          BY DEF OurEntries, OurIn
        <5> QED
          BY <1>2, <5>1, OursAre DEF Typed, Apis
      <4>3. c <= call.post - 1 \/ c <= call.post
        BY <1>1, <1>2 DEF Counted, Attempts
      <4>4. call'.post - 1 = call.post
        BY <3>1, <3>2
      <4> HIDE DEF c
      <4>5. c' <= call'.post - 1
        BY <3>1, <4>1, <4>2, <4>3, <4>4
      <4> QED
        BY <4>5 DEF c
    <3> QED
      BY <3>2, <3>3, <3>4, <3>5 DEF Counted
  <2> QED
    BY <2>1, <2>2
<1>4. Typed'
  BY <1>1, <1>2, <1>3 DEF Typed, Kept, CallStates
<1>5. ReceiptsProve'
  BY <1>1, <1>2, SameLogs
<1> QED
  BY <1>3, <1>4, <1>5 DEF RekorInv

(* What a step that adds an entry to a log leaves as it is. *)
LEMMA MoreLogs ==
  ASSUME Typed, ReceiptsProve, NEW at \in Apis, NEW e \in Entries(at),
         TakenOnce(at, e), log' = [log EXCEPT ![at] = Append(@, e)],
         calls' = calls, receipts' = receipts, call' \in CallStates
  PROVE  /\ Typed' /\ ReceiptsProve'
         /\ \A n, api : OurEntries(n, api) = OurIn(log[api], n, api)
         /\ \A n, api : OurEntries(n, api)' = OurIn(log'[api], n, api)
         /\ log'[at] = Append(log[at], e)
         /\ \A api \in Apis \ {at} : log'[api] = log[api]
<1>1. log'[at] = Append(log[at], e) /\ \A api \in Apis \ {at} : log'[api] = log[api]
  BY DEF Typed
<1>2. Typed'
  <2>1. \A api \in Apis : log'[api] \in Seq(Entries(api))
    BY <1>1, AppendProperties DEF Typed
  <2>2. log' = [api \in Apis |-> log'[api]]
    BY DEF Typed
  <2> QED
    BY <2>1, <2>2 DEF Typed, Kept, CallStates
<1>3. ReceiptsProve'
  <2>1. \A n \in Kept : VerifyOffline(n, receipts[n][1]) /\ Proves(n, receipts[n][1])
    BY ReceiptsDo
  <2>2. \A n, p : Proves(n, p) => Proves(n, p)'
    BY StillProves
  <2> SUFFICES ASSUME NEW n \in Kept'
               PROVE  \E p : p = receipts'[n][1] /\ VerifyOffline(n, p) /\ Proves(n, p)'
    BY ReceiptsProveNext
  <2>3. n \in Kept
    BY DEF Kept
  <2> QED
    BY <2>1, <2>2, <2>3
<1> QED
  BY <1>1, <1>2, <1>3 DEF OurEntries, OurIn

LEMMA OtherEntryKeeps ==
  ASSUME ConstantsAssumption, RekorInv, NEW at \in Apis, OtherEntry(at)
  PROVE  RekorInv'
<1> DEFINE e == OthersBody(Cardinality(Others(at)), at)
<1>1. Typed /\ Counted /\ ReceiptsProve
  BY DEF RekorInv
<1>2. /\ log' = [log EXCEPT ![at] = Append(@, e)]
      /\ calls' = calls /\ call' = call /\ receipts' = receipts
      /\ Cardinality(Others(at)) < MaxOthers
  BY DEF OtherEntry
<1>3. e \in Entries(at)
  <2>1. log[at] \in Seq(Entries(at)) /\ Others(at) \subseteq 1..Len(log[at]) /\ Len(log[at]) \in Nat
    BY <1>1 DEF Typed, Others
  <2>2. IsFiniteSet(Others(at))
    <3>1. IsFiniteSet(1..Len(log[at]))
      BY <2>1, FS_Interval
    <3> QED
      BY <2>1, <3>1, FS_Subset
  <2>3. Cardinality(Others(at)) \in 0..MaxOthers
    BY <1>2, <2>2, FS_CardinalityType DEF ConstantsAssumption
  <2> QED
    BY <2>3 DEF Entries
<1>10. TakenOnce(at, e)
  <2> SUFFICES ASSUME at = 1, NEW n, e = Body(n, 1)
               PROVE  OurEntries(n, 1) = {}
    BY DEF TakenOnce
  <2>1. e.publicKey = "other" /\ Body(n, 1).publicKey = "anchor key"
    BY DEF e, OthersBody, Body, OurKey
  <2> QED
    BY <2>1
<1> HIDE DEF e
<1>4. call' \in CallStates
  BY <1>1, <1>2 DEF Typed, CallStates
<1>5. /\ Typed' /\ ReceiptsProve'
      /\ \A n, api : OurEntries(n, api) = OurIn(log[api], n, api)
      /\ \A n, api : OurEntries(n, api)' = OurIn(log'[api], n, api)
      /\ log'[at] = Append(log[at], e)
      /\ \A api \in Apis \ {at} : log'[api] = log[api]
  BY <1>1, <1>2, <1>3, <1>4, <1>10, MoreLogs
<1>6. \A n \in Nat \ {0} : \A api \in Apis : OurEntries(n, api)' = OurEntries(n, api)
  <2> SUFFICES ASSUME NEW n \in Nat \ {0}, NEW api \in Apis
               PROVE  OurEntries(n, api)' = OurEntries(n, api)
    OBVIOUS
  <2>1. CASE api = at
    <3>1. e # Body(n, api) /\ log[api] \in Seq(Entries(api)) /\ e \in Entries(api)
      BY <1>1, <1>3, <2>1, Bodies DEF e, Typed
    <3>2. OurIn(Append(log[api], e), n, api) = OurIn(log[api], n, api)
      BY <3>1, OursGrow
    <3> QED
      BY <1>5, <2>1, <3>2
  <2>2. CASE api # at
    BY <1>5, <2>2
  <2> QED
    BY <2>1, <2>2
<1>7. calls \in Nat /\ 1 \in Apis /\ 2 \in Apis
  BY <1>1 DEF Typed, Apis
<1>8. Begun' /\ Unposted' /\ Once' /\ Posted'
  BY <1>1, <1>2, <1>6, <1>7 DEF Counted, Begun, Unposted, Once, Posted
<1>9. Attempts' /\ Took'
  <2>1. call.at # "idle" => calls \in Nat \ {0}
    BY <1>1, <1>7 DEF Counted, Begun
  <2>2. Api \in Apis
    BY <1>1, Targeted
  <2>3. Attempts'
    BY <1>1, <1>2, <1>6, <1>7, <2>1 DEF Counted, Attempts
  <2>4. Took'
    BY <1>1, <1>2, <1>6, <2>1, <2>2 DEF Counted, Took, Api
  <2> QED
    BY <2>3, <2>4
<1> QED
  BY <1>5, <1>8, <1>9 DEF RekorInv, Counted

LEMMA TakeKeeps ==
  ASSUME ConstantsAssumption, RekorInv, Take
  PROVE  RekorInv'
<1>0. PICK at, k, e : at = Api /\ k = calls /\ e = Body(k, at)
  OBVIOUS
<1>1. Typed /\ Counted /\ ReceiptsProve
  BY DEF RekorInv
<1>2. /\ call.at = "posting" /\ (Api = 2 \/ OurEntries(calls, 1) = {})
      /\ log' = [log EXCEPT ![at] = Append(@, e)]
      /\ calls' = calls /\ call' = [call EXCEPT !.at = "taken"] /\ receipts' = receipts
  BY <1>0 DEF Take
<1>3. /\ at \in Apis /\ (at = 2 <=> call.target = 1) /\ 1 \in Apis /\ 2 \in Apis /\ at \in {1, 2}
      /\ k \in 1..MaxCalls /\ k \in Nat \ {0} /\ MaxCalls \in Nat
  <2>1. /\ at \in Apis /\ (at = 2 <=> call.target = 1) /\ Apis = {1, 2}
    BY <1>0, <1>1, Targeted
  <2>2. k \in 0..MaxCalls /\ k > 0 /\ MaxCalls \in Nat
    BY <1>0, <1>1, <1>2 DEF Typed, Counted, Begun, ConstantsAssumption
  <2> QED
    BY <2>1, <2>2
<1>4. /\ e \in Entries(at)
      /\ \A n : n # k => e # Body(n, at)
  BY <1>0, <1>3, Bodies DEF Entries
<1>5. /\ call' \in CallStates /\ call'.at = "taken" /\ call'.target = call.target
      /\ call'.post = call.post
  BY <1>1, <1>2 DEF Typed, CallStates
<1>6. Api' = Api
  BY <1>5 DEF Api
<1>15. TakenOnce(at, e)
  <2> SUFFICES ASSUME at = 1, NEW n, e = Body(n, 1)
               PROVE  OurEntries(n, 1) = {}
    BY DEF TakenOnce
  <2>1. n = k
    BY <1>0, Bodies
  <2> QED
    BY <1>0, <1>2, <2>1
<1>7. /\ Typed' /\ ReceiptsProve'
      /\ \A n, api : OurEntries(n, api) = OurIn(log[api], n, api)
      /\ \A n, api : OurEntries(n, api)' = OurIn(log'[api], n, api)
      /\ log'[at] = Append(log[at], e)
      /\ \A api \in Apis \ {at} : log'[api] = log[api]
  BY <1>1, <1>2, <1>3, <1>4, <1>5, <1>15, MoreLogs
<1>8. PICK ours, place :
        /\ ours = OurEntries(k, at) /\ OurEntries(k, at)' = ours \cup {place}
        /\ Cardinality(ours) \in Nat
        /\ Cardinality(OurEntries(k, at))' = Cardinality(ours) + 1
  <2>1. log[at] \in Seq(Entries(at))
    BY <1>1, <1>3 DEF Typed
  <2>2. /\ OurIn(Append(log[at], e), k, at) = OurIn(log[at], k, at) \cup {Len(log[at]) + 1}
        /\ Cardinality(OurIn(Append(log[at], e), k, at)) = Cardinality(OurIn(log[at], k, at)) + 1
    BY <1>0, <1>4, <2>1, OursGrow
  <2>3. Cardinality(OurIn(log[at], k, at)) \in Nat
    BY <2>1, OursAre
  <2> QED
    BY <1>7, <2>2, <2>3
<1>9. \A n : \A api \in Apis : n # k \/ api # at => OurEntries(n, api)' = OurEntries(n, api)
  <2> SUFFICES ASSUME NEW n, NEW api \in Apis, n # k \/ api # at
               PROVE  OurEntries(n, api)' = OurEntries(n, api)
    OBVIOUS
  <2>1. CASE api # at
    BY <1>7, <2>1
  <2>2. CASE api = at /\ n # k
    <3>1. log[api] \in Seq(Entries(api)) /\ e \in Entries(api) /\ e # Body(n, api)
      BY <1>1, <1>4, <2>2 DEF Typed
    <3>2. OurIn(Append(log[api], e), n, api) = OurIn(log[api], n, api)
      BY <3>1, OursGrow
    <3> QED
      BY <1>7, <2>2, <3>2
  <2> QED
    BY <2>1, <2>2
<1>10. Begun' /\ Unposted' /\ Took'
  <2>1. Begun'
    BY <1>0, <1>2, <1>3 DEF Begun
  <2>2. \A n \in (k + 1)..MaxCalls : n # k
    BY <1>3
  <2>3. Unposted'
    BY <1>0, <1>1, <1>2, <1>9, <2>2 DEF Counted, Unposted
  <2>4. Took'
    BY <1>0, <1>2, <1>6, <1>8 DEF Took, OurEntries
  <2> QED
    BY <2>1, <2>3, <2>4
<1>11. Once'
  <2> SUFFICES ASSUME NEW n \in 1..MaxCalls
               PROVE  \A i, j \in OurEntries(n, 1)' : i = j
    BY DEF Once
  <2>1. CASE n = k /\ at = 1
    <3>1. ours = {}
      BY <1>0, <1>2, <1>8, <2>1
    <3> QED
      BY <1>8, <2>1, <3>1
  <2>2. CASE ~(n = k /\ at = 1)
    BY <1>1, <1>3, <1>9, <2>2 DEF Counted, Once
  <2> QED
    BY <2>1, <2>2
<1>12. at = 2 => Cardinality(OurEntries(k, 2))' <= call.post
  <2> SUFFICES ASSUME at = 2
               PROVE  Cardinality(OurEntries(k, 2))' <= call.post
    OBVIOUS
  <2>1. Cardinality(ours) <= call.post - 1
    BY <1>0, <1>1, <1>2, <1>3, <1>8 DEF Counted, Attempts
  <2>2. call.post \in Nat
    BY <1>1 DEF Typed
  <2>3. Cardinality(OurEntries(k, 2))' = Cardinality(ours) + 1
    BY <1>8
  <2> QED
    BY <1>8, <2>1, <2>2, <2>3
<1>13. Posted'
  <2> SUFFICES ASSUME NEW n \in 1..MaxCalls
               PROVE  Cardinality(OurEntries(n, 2))' <= MaxPosts
    BY DEF Posted
  <2>1. CASE n = k /\ at = 2
    <3>1. call.post <= MaxPosts /\ call.post \in Nat /\ MaxPosts \in Nat
      BY <1>1 DEF Typed, ConstantsAssumption
    <3>2. Cardinality(OurEntries(k, 2))' = Cardinality(ours) + 1
      BY <1>8, <2>1
    <3> QED
      BY <1>8, <1>12, <2>1, <3>1, <3>2
  <2>2. CASE ~(n = k /\ at = 2)
    BY <1>1, <1>3, <1>9, <2>2 DEF Counted, Posted
  <2> QED
    BY <2>1, <2>2
<1>14. Attempts'
  BY <1>0, <1>2, <1>3, <1>5, <1>12 DEF Attempts, OurEntries
<1> QED
  BY <1>7, <1>10, <1>11, <1>13, <1>14 DEF RekorInv, Counted

LEMMA LastIs ==
  ASSUME NEW k \in Nat, NEW is, is \subseteq 1..k, is # {}
  PROVE  LastOf(is) \in is
<1> DEFINE S == {k - i : i \in is}
<1>1. S \subseteq Nat /\ S # {}
  OBVIOUS
<1>2. PICK m \in S : \A x \in S : m <= x
  <2> HIDE DEF S
  <2> QED
    BY <1>1, LeastNumber
<1>3. PICK i \in is : m = k - i
  OBVIOUS
<1>4. ASSUME NEW j \in is
      PROVE  j <= i
  <2>1. k - i <= k - j
    BY <1>2, <1>3
  <2>2. i \in 1..k /\ j \in 1..k
    OBVIOUS
  <2> QED
    BY ONLY <2>1, <2>2, k \in Nat
<1>5. \E l \in is : \A j \in is : j <= l
  BY <1>4
<1> QED
  BY <1>5 DEF LastOf

(* The first entries of a log. *)
LEMMA FirstEntries ==
  ASSUME Typed, NEW api \in Apis, NEW size \in 1..Len(log[api])
  PROVE  /\ Len(SubSeq(log[api], 1, size)) = size /\ size \in Nat /\ size > 0
         /\ Len(log[api]) \in Nat /\ DOMAIN log[api] = 1..Len(log[api])
         /\ \A i \in 0..(size - 1) : SubSeq(log[api], 1, size)[i + 1] = log[api][i + 1]
<1> DEFINE s == log[api]
           S == Entries(api)
<1>1. s \in Seq(S)
  BY DEF Typed
<1>2. Len(s) \in Nat /\ DOMAIN s = 1..Len(s) /\ 1 \in 1..(Len(s) + 1) /\ size \in 0..Len(s) /\ size \in Nat
  BY <1>1
<1> HIDE DEF s, S
<1>3. /\ SubSeq(s, 1, size) \in Seq(S)
      /\ Len(SubSeq(s, 1, size)) = IF 1 <= size THEN size - 1 + 1 ELSE 0
      /\ \A i \in 1..(size - 1 + 1) : SubSeq(s, 1, size)[i] = s[1 + i - 1]
  BY <1>1, <1>2, SubSeqProperties
<1>4. Len(SubSeq(s, 1, size)) = size
  BY <1>2, <1>3
<1>5. ASSUME NEW i \in 0..(size - 1)
      PROVE  SubSeq(s, 1, size)[i + 1] = s[i + 1]
  <2>1. i + 1 \in 1..(size - 1 + 1) /\ 1 + (i + 1) - 1 = i + 1
    BY <1>2
  <2> QED
    BY <1>3, <2>1
<1> QED
  BY <1>2, <1>4, <1>5 DEF s

(* An answer that verifies, faulty or not, proves the entry of the call.   *)
LEMMA AnswersProve ==
  ASSUME ConstantsAssumption, Typed, NEW api \in Apis, NEW n \in Nat \ {0}, NEW index \in Nat,
         \A i, j \in OurEntries(n, 1) : i = j,
         index + 1 \in OurEntries(n, api), NEW size \in (index + 1)..Len(log[api]),
         NEW r \in {Response(api, index, size)} \cup Faulty(api, index, size),
         VerifyOffline(n, r)
  PROVE  Proves(n, r)
<1> DEFINE s == log[api]
           leaves == SubSeq(s, 1, size)
           good == Response(api, index, size)
<1>1. /\ size \in 1..Len(s) /\ size \in Nat /\ index \in 0..(size - 1) /\ Len(leaves) = size /\ size > 0
      /\ Len(s) \in Nat /\ DOMAIN s = 1..Len(s) /\ Len(s) >= size
      /\ \A i \in 0..(size - 1) : leaves[i + 1] = s[i + 1]
      /\ \A i \in 0..(size - 1) : i + 1 \in DOMAIN s /\ s[i + 1] \in Entries(api)
  <2>1. Len(s) \in Nat /\ DOMAIN s = 1..Len(s) /\ \A i \in DOMAIN s : s[i] \in Entries(api)
    BY DEF Typed
  <2>2. size \in 1..Len(s)
    BY <2>1
  <2> QED
    BY <2>1, <2>2, FirstEntries
<1>2. s[index + 1] = Body(n, api) /\ (api = 1 \/ api = 2)
  BY DEF OurEntries, Apis
<1>3. /\ good.api = api /\ good.logIndex = LogStart(api) + index /\ good.proofIndex = index
      /\ good.size = size /\ good.body = s[index + 1]
      /\ good.hashes = InclusionProof(index, leaves)
      /\ good.checkpoint.size = size /\ good.checkpoint.root = TreeHead(leaves)
  BY DEF Response, Checkpoint
<1>4. r.body.digest = n /\ Decodes(r) /\ Included(r)
  BY DEF VerifyOffline
<1>5. ASSUME r.api = api, r.checkpoint.size \in 0..size, r.body = Body(n, api),
             NEW i \in 0..(size - 1), r.proofIndex = i, s[i + 1] = Body(n, api),
             r.logIndex \in Int
      PROVE  Proves(n, r)
  <2>1. i + 1 \in OurEntries(n, api) /\ i \in Nat
    BY <1>1, <1>5 DEF OurEntries
  <2>2. Carries(n, r)
    BY <1>1, <1>4, <1>5, <2>1 DEF Carries, Decodes
  <2>3. CheckOnline(r) <=> Numbered(r)
    <3>1. CASE api = 1
      <4>1. PICK start : start = LogStart(1) /\ start \in Nat
        BY DEF LogStart, ConstantsAssumption
      <4>2. \A j \in DOMAIN s : s[j] = Body(n, 1) <=> j = i + 1
        BY <1>5, <2>1, <3>1 DEF OurEntries
      <4>3. i + 1 \in DOMAIN s /\ start + (i + 1) - 1 = start + i
        BY <1>1, <4>1
      <4>4. CheckOnline(r) <=> start + i = r.logIndex
        BY <1>5, <3>1, <4>1, <4>2, <4>3 DEF CheckOnline
      <4>5. Numbered(r) <=> r.logIndex = start + i
        BY <1>5, <3>1, <4>1 DEF Numbered
      <4> QED
        BY <4>4, <4>5
    <3>2. CASE api = 2
      <4>1. Len(s) >= r.checkpoint.size
        BY <1>1, <1>5
      <4> QED
        BY <1>5, <3>2, <4>1 DEF CheckOnline, Numbered
    <3> QED
      BY <1>2, <3>1, <3>2
  <2> QED
    BY <1>5, <2>1, <2>2, <2>3 DEF Proves
<1>12. LogStart(api) \in Nat /\ \A i \in 0..size : LogStart(api) + i \in Int
  BY <1>1 DEF LogStart, ConstantsAssumption
<1> HIDE DEF leaves, good, s
<1>6. ASSUME NEW i \in 0..(size - 1), r = Response(api, i, size)
      PROVE  Proves(n, r)
  <2>1. /\ r.api = api /\ r.checkpoint.size = size /\ r.proofIndex = i
        /\ r.logIndex = LogStart(api) + i /\ r.body = s[i + 1]
    BY <1>6 DEF Response, Checkpoint, s
  <2>2. s[i + 1] = Body(n, api)
    BY <1>1, <1>4, <2>1, DigestNames
  <2>3. r.logIndex \in Int /\ size \in 0..size
    BY <1>1, <1>12, <2>1
  <2> QED
    BY <1>5, <2>1, <2>2, <2>3
<1>7. ASSUME r = [good EXCEPT !.checkpoint.signer = "new shard key"]
      PROVE  Proves(n, r)
  <2>1. /\ r.api = api /\ r.checkpoint.size = size /\ r.proofIndex = index
        /\ r.logIndex = LogStart(api) + index /\ r.body = s[index + 1]
    BY <1>7 DEF good, Response, Checkpoint, s
  <2>2. r.logIndex \in Int /\ size \in 0..size
    BY <1>1, <1>12, <2>1
  <2> QED
    BY <1>1, <1>2, <1>5, <2>1, <2>2
<1>8. ASSUME NEW i \in Int, r = [good EXCEPT !.logIndex = i]
      PROVE  Proves(n, r)
  <2>1. /\ r.api = api /\ r.checkpoint.size = size /\ r.proofIndex = index
        /\ r.logIndex = i /\ r.body = s[index + 1]
    BY <1>8 DEF good, Response, Checkpoint, s
  <2>2. r.logIndex \in Int /\ size \in 0..size
    BY <1>1, <2>1
  <2> QED
    BY <1>1, <1>2, <1>5, <2>1, <2>2
<1>9. ASSUME NEW i \in 0..size, r = [good EXCEPT !.proofIndex = i]
      PROVE  Proves(n, r)
  <2>1. /\ r.api = api /\ r.checkpoint.size = size /\ r.proofIndex = i
        /\ r.logIndex = LogStart(api) + index /\ r.body = s[index + 1]
        /\ r.hashes = InclusionProof(index, leaves) /\ r.checkpoint.root = TreeHead(leaves)
    BY <1>9 DEF good, Response, Checkpoint, s, leaves
  <2>2. RootFromInclusionProof(LeafHash(r.body), i, size, r.hashes) = TreeHead(leaves)
    BY <1>4, <2>1 DEF Included
  <2>3. IsSeq(r.hashes)
    BY <1>1, <2>1, HeadReached
  <2>4. i \in 0..(size - 1) /\ LeafHash(r.body) = LeafHash(leaves[i + 1])
    BY <1>1, <2>2, <2>3, InclusionIsExact
  <2>5. s[i + 1] = Body(n, api)
    BY <1>1, <1>2, <2>1, <2>4 DEF LeafHash
  <2>6. r.logIndex \in Int /\ size \in 0..size
    BY <1>1, <1>12, <2>1
  <2> QED
    BY <1>2, <1>5, <2>1, <2>4, <2>5, <2>6
<1>10. ASSUME NEW m \in index + 1..size - 1, r = [good EXCEPT !.checkpoint = Checkpoint(api, m)]
       PROVE  Proves(n, r)
  <2>1. /\ r.api = api /\ r.checkpoint.size = m /\ r.proofIndex = index
        /\ r.logIndex = LogStart(api) + index /\ r.body = s[index + 1]
    BY <1>10 DEF good, Response, Checkpoint, s
  <2>2. m \in 0..size /\ r.logIndex \in Int
    BY <1>1, <1>12, <2>1
  <2> QED
    BY <1>1, <1>2, <1>5, <2>1, <2>2
<1>11. \/ r = good
       \/ r = [good EXCEPT !.checkpoint.signer = "new shard key"]
       \/ \E i \in Int : r = [good EXCEPT !.logIndex = i]
       \/ \E i \in 0..(size - 1) : r = Response(api, i, size)
       \/ \E i \in 0..size : r = [good EXCEPT !.proofIndex = i]
       \/ \E m \in index + 1..size - 1 : r = [good EXCEPT !.checkpoint = Checkpoint(api, m)]
  <2>1. {-1} \cup LogStart(api)..LogStart(api) + size \subseteq Int
    BY <1>12
  <2> QED
    BY <2>1 DEF Faulty, good
<1> QED
  BY <1>1, <1>6, <1>7, <1>8, <1>9, <1>10, <1>11 DEF good

LEMMA AnsweredKeeps ==
  ASSUME ConstantsAssumption, RekorInv, Answered
  PROVE  RekorInv'
<1>1. Typed /\ Counted /\ ReceiptsProve /\ call.at = "taken"
  BY DEF RekorInv, Answered
<1>2. PICK at, k : at = Api /\ k = calls
  OBVIOUS
<1>3. at \in Apis /\ k \in 1..MaxCalls /\ k \in Nat \ {0}
  <2>1. k \in 0..MaxCalls /\ k > 0 /\ MaxCalls \in Nat
    BY <1>1, <1>2 DEF Typed, Counted, Begun, ConstantsAssumption
  <2> QED
    BY <1>1, <1>2, <2>1, Targeted
<1>4. PICK index : index = LastOf(OurEntries(k, at)) - 1
  OBVIOUS
<1>5. index \in Nat /\ index + 1 \in OurEntries(k, at)
  <2>1. Len(log[at]) \in Nat /\ OurEntries(k, at) \subseteq 1..Len(log[at])
    BY <1>1, <1>3 DEF Typed, OurEntries
  <2>2. OurEntries(k, at) # {}
    BY <1>1, <1>2 DEF Counted, Took
  <2>3. LastOf(OurEntries(k, at)) \in OurEntries(k, at)
    BY <2>1, <2>2, LastIs
  <2>4. LastOf(OurEntries(k, at)) \in 1..Len(log[at])
    BY <2>1, <2>3
  <2> QED
    BY <1>4, <2>1, <2>3, <2>4
<1>6. \E n \in (index + 1)..Len(log[at]) :
        \E response \in {Response(at, index, n)} \cup Faulty(at, index, n) : Answer(response)
  BY <1>2, <1>4 DEF Answered
<1>7. PICK size \in (index + 1)..Len(log[at]) :
        \E response \in {Response(at, index, size)} \cup Faulty(at, index, size) : Answer(response)
  BY <1>6
<1>8. PICK r \in {Response(at, index, size)} \cup Faulty(at, index, size) : Answer(r)
  BY <1>7
<1>9. log' = log /\ calls' = calls
  BY <1>8 DEF Answer
<1>10. CASE ~VerifyOffline(k, r)
  <2>1. call' = NextTarget /\ receipts' = receipts
    BY <1>2, <1>8, <1>10 DEF Answer
  <2>2. call' \in CallStates /\ Counted'
    BY <1>1, <1>9, <2>1, MovesOn
  <2>3. Typed'
    BY <1>1, <1>9, <2>1, <2>2 DEF Typed, Kept, CallStates
  <2>4. ReceiptsProve'
    BY <1>1, <1>9, <2>1, SameLogs
  <2> QED
    BY <2>2, <2>3, <2>4 DEF RekorInv
<1>11. CASE VerifyOffline(k, r)
  <2>1. call' = Idle /\ receipts' = [receipts EXCEPT ![k] = <<r>>]
    BY <1>2, <1>8, <1>11 DEF Answer
  <2>2. Proves(k, r)
    <3>1. \A i, j \in OurEntries(k, 1) : i = j
      BY <1>1, <1>3 DEF Counted, Once
    <3> QED
      BY <1>1, <1>3, <1>5, <1>11, <3>1, AnswersProve
  <2>3. call' \in CallStates /\ Counted'
    BY <1>1, <1>9, <2>1, MovesOn
  <2>4. /\ receipts' = [n \in 1..MaxCalls |-> receipts'[n]]
        /\ \A n \in 1..MaxCalls : receipts'[n] = IF n = k THEN <<r>> ELSE receipts[n]
    BY <1>1, <1>3, <2>1 DEF Typed
  <2>5. \A n, p : Proves(n, p)' <=> Proves(n, p)
    BY <1>9 DEF Proves, Carries, CheckOnline, Numbered, LogStart, OurEntries
  <2>6. \A n \in Kept' : \E p : p = receipts'[n][1] /\ VerifyOffline(n, p) /\ Proves(n, p)
    <3> SUFFICES ASSUME NEW n \in 1..MaxCalls, receipts'[n] # <<>>
                 PROVE  VerifyOffline(n, receipts'[n][1]) /\ Proves(n, receipts'[n][1])
      BY DEF Kept
    <3>1. CASE n = k
      BY <1>11, <2>2, <2>4, <3>1
    <3>2. CASE n # k
      BY <1>1, <2>4, <3>2, ReceiptsDo DEF Kept
    <3> QED
      BY <3>1, <3>2
  <2>7. ReceiptsProve'
    BY <2>5, <2>6, ReceiptsProveNext
  <2>8. Typed'
    <3>1. \A n \in 1..MaxCalls : Len(receipts'[n]) \in {0, 1}
      BY <1>1, <2>4 DEF Typed
    <3>2. \A n \in Kept' : Carries(n, receipts'[n][1])
      BY <2>6 DEF Proves
    <3> QED
      BY <1>1, <1>9, <2>3, <2>4, <3>1, <3>2 DEF Typed, CallStates
  <2> QED
    BY <2>3, <2>7, <2>8 DEF RekorInv
<1> QED
  BY <1>10, <1>11

LEMMA StepKeeps ==
  ASSUME ConstantsAssumption, RekorInv, [Next]_vars
  PROVE  RekorInv'
<1>1. CASE UNCHANGED vars
  <2>1. /\ log' = log /\ calls' = calls /\ call' = call /\ receipts' = receipts
        /\ Typed /\ Counted /\ ReceiptsProve
    BY <1>1 DEF vars, RekorInv
  <2>2. Once' /\ Posted' /\ Unposted' /\ ReceiptsProve'
    BY <2>1, SameLogs
  <2>3. Begun' /\ Attempts' /\ Took'
    BY <2>1 DEF Counted, Begun, Attempts, Took, OurEntries, Api
  <2>4. Typed'
    BY <2>1 DEF Typed, Kept
  <2> QED
    BY <2>2, <2>3, <2>4 DEF RekorInv, Counted
<1>2. CASE Next
  BY <1>1, <1>2, StartAnchorKeeps, TakeKeeps, AnsweredKeeps, RefusedKeeps, RetryKeeps, OtherEntryKeeps
     DEF Next, Done
<1> QED
  BY <1>1, <1>2

LEMMA RekorInvariant == Spec => []RekorInv
<1>1. Init => RekorInv
  BY ConstantsAssumption, InitHolds
<1>2. RekorInv /\ [Next]_vars => RekorInv'
  BY ConstantsAssumption, StepKeeps
<1> QED
  BY <1>1, <1>2, PTL DEF Spec

(* The type of every variable; a log holds an entry of a call at most as   *)
(* often as the call posted it.                                            *)
THEOREM TypeCorrect == Spec => []TypeOK
<1>1. RekorInv => TypeOK
  BY ConstantsAssumption, TypeFollows DEF RekorInv
<1> QED
  BY <1>1, RekorInvariant, PTL

(* Every receipt that anchor returned, whichever fault of Faulty the       *)
(* answer had, points at its call's own entry in the log and verifies      *)
(* offline, then and ever after; online too, unless it is a v1 receipt     *)
(* whose answer had named another log index.                               *)
THEOREM ReceiptsAlwaysProve == Spec => []ReceiptsProve
<1>1. RekorInv => ReceiptsProve
  BY DEF RekorInv
<1> QED
  BY <1>1, RekorInvariant, PTL

(* Of all the proofs a log could hand out for its entries, the verifier    *)
(* takes at each place exactly those of what is there.                     *)
THEOREM ProofsAlwaysExact == Spec => []ProofsAreExact
<1>1. RekorInv => ProofsAreExact
  <2> SUFFICES ASSUME Typed, NEW api \in Apis, NEW size \in 1..Len(log[api]),
                      NEW i \in 0..(size - 1), NEW j \in 0..(size - 1), NEW k \in 0..(size - 1)
               PROVE  LET leaves == SubSeq(log[api], 1, size)
                      IN (RootFromInclusionProof(LeafHash(leaves[i + 1]), j, size, InclusionProof(k, leaves))
                            = TreeHead(leaves))
                         <=> (leaves[i + 1] = leaves[j + 1]
                               /\ InclusionProof(k, leaves) = InclusionProof(j, leaves))
    BY DEF ProofsAreExact, RekorInv
  <2> DEFINE leaves == SubSeq(log[api], 1, size)
  <2>1. Len(leaves) = size /\ size \in Nat /\ size > 0
    BY FirstEntries
  <2> HIDE DEF leaves
  <2>2. IsSeq(InclusionProof(k, leaves))
    BY <2>1, HeadReached
  <2>3. RootFromInclusionProof(LeafHash(leaves[i + 1]), j, size, InclusionProof(k, leaves)) = TreeHead(leaves)
        <=> /\ j \in 0..(size - 1)
            /\ LeafHash(leaves[i + 1]) = LeafHash(leaves[j + 1])
            /\ InclusionProof(k, leaves) = InclusionProof(j, leaves)
    BY <2>1, <2>2, InclusionIsExact
  <2>4. LeafHash(leaves[i + 1]) = LeafHash(leaves[j + 1]) <=> leaves[i + 1] = leaves[j + 1]
    BY DEF LeafHash
  <2> QED
    BY <2>3, <2>4 DEF leaves
<1> QED
  BY <1>1, RekorInvariant, PTL
===============================================================================
