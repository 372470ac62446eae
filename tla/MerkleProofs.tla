------------------------------ MODULE MerkleProofs ------------------------------
(***************************************************************************)
(* For every tree and every leaf, the path that proofFor draws leads from  *)
(* the leaf to the root (packages/core/src/merkle.ts), and every root is   *)
(* the hash of something.  The library's induction takes an operator; here *)
(* it is the least counterexample.                                         *)
(***************************************************************************)
EXTENDS Merkle, SequenceTheorems, WellFoundedInduction, TLAPS

IsSeq(s) == s \in Seq(Range(s))

LEMMA SeqIntro ==
  ASSUME NEW S, NEW s \in Seq(S)
  PROVE  IsSeq(s)
<1>1. Len(s) \in Nat /\ DOMAIN s = 1..Len(s)
  OBVIOUS
<1>2. \A i \in 1..Len(s) : s[i] \in Range(s)
  BY <1>1 DEF Range
<1>3. s = [i \in 1..Len(s) |-> s[i]]
  OBVIOUS
<1>4. [i \in 1..Len(s) |-> s[i]] \in Seq(Range(s))
  <2> DEFINE n == Len(s)
             R == Range(s)
  <2>1. n \in Nat /\ \A i \in 1..n : s[i] \in R
    BY <1>1, <1>2
  <2> HIDE DEF n, R
  <2>2. [i \in 1..n |-> s[i]] \in Seq(R)
    BY <2>1
  <2> QED
    BY <2>2 DEF n, R
<1> QED
  BY <1>3, <1>4 DEF IsSeq

LEMMA SeqFacts ==
  ASSUME NEW s, IsSeq(s)
  PROVE  Len(s) \in Nat /\ DOMAIN s = 1..Len(s)
BY DEF IsSeq

LEMMA NothingIsSeq ==
  ASSUME NEW s, s = <<>>
  PROVE  IsSeq(s) /\ DOMAIN s = {}
<1>1. s \in Seq({})
  OBVIOUS
<1>2. IsSeq(s)
  BY <1>1, SeqIntro
<1> QED
  BY <1>2

LEMMA FunctionSeq ==
  ASSUME NEW n \in Int, NEW S, NEW f \in [1..n -> S]
  PROVE  IsSeq(f)
<1>1. CASE n \in Nat
  <2>1. f \in Seq(S)
    BY <1>1
  <2> QED
    BY <2>1, SeqIntro
<1>2. CASE n \notin Nat
  <2>1. 1..n = 1..0
    BY <1>2
  <2>2. f \in [1..0 -> S]
    BY <2>1
  <2>3. f \in Seq(S)
    <3> DEFINE m == 0
    <3>1. m \in Nat /\ f \in [1..m -> S]
      BY <2>2
    <3> HIDE DEF m
    <3> QED
      BY <3>1
  <2> QED
    BY <2>3, SeqIntro
<1> QED
  BY <1>1, <1>2

LEMMA AppendSeq ==
  ASSUME NEW s, IsSeq(s), NEW e
  PROVE  /\ IsSeq(Append(s, e))
         /\ Len(Append(s, e)) = Len(s) + 1
         /\ DOMAIN Append(s, e) = 1..(Len(s) + 1)
         /\ \A i \in DOMAIN s : Append(s, e)[i] = s[i]
         /\ Append(s, e)[Len(s) + 1] = e
<1> DEFINE S == Range(s) \cup {e}
<1>1. \A i \in 1..Len(s) : s[i] \in S
  BY DEF IsSeq
<1>2. s \in Seq(S) /\ e \in S
  BY DEF IsSeq
<1> HIDE DEF S
<1>3. /\ Append(s, e) \in Seq(S)
      /\ Len(Append(s, e)) = Len(s) + 1
      /\ \A i \in 1..Len(s) : Append(s, e)[i] = s[i]
      /\ Append(s, e)[Len(s) + 1] = e
  BY <1>2, AppendProperties
<1>4. IsSeq(Append(s, e))
  BY <1>3, SeqIntro
<1> QED
  BY <1>3, <1>4, SeqFacts

-------------------------------------------------------------------------------
(* Induction.                                                              *)

(* A set of numbers that is not empty has a least one.                     *)
LEMMA LeastNumber ==
  ASSUME NEW S, S \subseteq Nat, S # {}
  PROVE  \E m \in S : \A x \in S : m <= x
<1> DEFINE R == OpToRel(<, Nat)
<1>1. IsWellFoundedOn(R, Nat)
  BY NatLessThanWellFounded
<1>2. \A a, b \in Nat : a < b => <<a, b>> \in R
  BY DEF OpToRel
<1> HIDE DEF R
<1>3. PICK m \in S : \A y \in S : ~(<<y, m>> \in R)
  BY <1>1, WFMin
<1>4. \A x \in S : ~(x < m)
  BY <1>2, <1>3
<1>5. \A x \in S : m <= x
  BY <1>3, <1>4
<1> QED
  BY <1>5

(* Induction over the numbers up to k, for a set.                          *)
LEMMA UpTo ==
  ASSUME NEW k \in Nat, NEW S, 0 \in S,
         \A n \in 1..k : n - 1 \in S => n \in S
  PROVE  0..k \subseteq S
<1> SUFFICES ASSUME ~(0..k \subseteq S)
             PROVE  FALSE
  OBVIOUS
<1> DEFINE Bad == {n \in 0..k : n \notin S}
<1>1. Bad \subseteq Nat /\ Bad # {}
  OBVIOUS
<1>2. PICK m \in Bad : \A x \in Bad : m <= x
  BY <1>1, LeastNumber
<1>3. m \in 1..k
  BY <1>2
<1>4. m - 1 \in 0..k /\ ~(m <= m - 1)
  BY <1>3
<1>5. m - 1 \in S
  BY <1>2, <1>4
<1> QED
  BY <1>2, <1>3, <1>5

-------------------------------------------------------------------------------
(* The levels.                                                             *)

Leaves(hashes) == [i \in DOMAIN hashes |-> LeafHash(hashes[i])]
IsLevels(g, hashes, k) ==
  g = [n \in 0..k |-> IF n = 0 THEN Leaves(hashes) ELSE NextLevel(g[n - 1])]

LEMMA LevelsUpTo ==
  ASSUME NEW hashes, NEW k \in Nat
  PROVE  \E g : IsLevels(g, hashes, k)
<1> DEFINE S == {n \in Nat : \E g : IsLevels(g, hashes, n)}
<1>1. 0 \in S
  <2> DEFINE g == [n \in 0..0 |-> Leaves(hashes)]
  <2>1. IsLevels(g, hashes, 0)
    BY DEF IsLevels
  <2> QED
    BY <2>1
<1>2. ASSUME NEW n \in 1..k, n - 1 \in S
      PROVE  n \in S
  <2>1. PICK g : IsLevels(g, hashes, n - 1)
    BY <1>2
  <2> DEFINE h == [m \in 0..n |-> IF m = n THEN NextLevel(g[n - 1]) ELSE g[m]]
  <2>2. \A m \in 0..n : h[m] = IF m = 0 THEN Leaves(hashes) ELSE NextLevel(h[m - 1])
    <3> SUFFICES ASSUME NEW m \in 0..n
                 PROVE  h[m] = IF m = 0 THEN Leaves(hashes) ELSE NextLevel(h[m - 1])
      OBVIOUS
    <3>1. CASE m = n
      BY <3>1
    <3>2. CASE m # n
      <4>1. m \in 0..(n - 1)
        BY <3>2
      <4>2. g[m] = IF m = 0 THEN Leaves(hashes) ELSE NextLevel(g[m - 1])
        BY <2>1, <4>1 DEF IsLevels
      <4>3. h[m] = g[m] /\ (m # 0 => h[m - 1] = g[m - 1])
        BY <3>2, <4>1
      <4> QED
        BY <4>2, <4>3
    <3> QED
      BY <3>1, <3>2
  <2>3. h = [m \in 0..n |-> IF m = 0 THEN Leaves(hashes) ELSE NextLevel(h[m - 1])]
    BY <2>2
  <2>4. IsLevels(h, hashes, n)
    BY <2>3 DEF IsLevels
  <2> QED
    BY <2>4
<1>3. 0..k \subseteq S
  <2> HIDE DEF S
  <2> QED
    BY <1>1, <1>2, UpTo
<1> QED
  BY <1>3
-------------------------------------------------------------------------------
LEMMA SameLength ==
  ASSUME NEW a \in Nat, NEW b \in Nat, 1..a = 1..b
  PROVE  a = b
<1>1. a = 0 \/ a \in 1..b
  OBVIOUS
<1>2. b = 0 \/ b \in 1..a
  OBVIOUS
<1> QED
  BY <1>1, <1>2

LEMMA NextLevelFacts ==
  ASSUME NEW l, IsSeq(l), Len(l) > 0
  PROVE  /\ IsSeq(NextLevel(l)) /\ Len(NextLevel(l)) > 0
         /\ Len(NextLevel(l)) = (Len(l) + 1) \div 2
         /\ \A j \in 1..Len(NextLevel(l)) :
              NextLevel(l)[j] = IF 2 * j <= Len(l) THEN NodeHash(l[2 * j - 1], l[2 * j])
                                                   ELSE l[2 * j - 1]
<1> DEFINE n == (Len(l) + 1) \div 2
           e(j) == IF 2 * j <= Len(l) THEN NodeHash(l[2 * j - 1], l[2 * j]) ELSE l[2 * j - 1]
           f == [j \in 1..n |-> e(j)]
           S == {e(j) : j \in 1..n}
<1>1. n \in Nat /\ n > 0
  BY SeqFacts
<1>2. NextLevel(l) = f
  BY DEF NextLevel
<1>3. f \in [1..n -> S]
  OBVIOUS
<1>4. IsSeq(f) /\ DOMAIN f = 1..n
  <2> HIDE DEF n, f, S
  <2>1. DOMAIN f = 1..n
    BY <1>3
  <2> QED
    BY <1>1, <1>3, <2>1, FunctionSeq
<1>5. Len(f) = n
  <2> HIDE DEF n, f, S
  <2>1. Len(f) \in Nat /\ 1..Len(f) = 1..n
    BY <1>4, SeqFacts
  <2> QED
    BY <1>1, <2>1, SameLength
<1>6. \A j \in 1..n : f[j] = e(j)
  OBVIOUS
<1> HIDE DEF f
<1> QED
  BY <1>1, <1>2, <1>4, <1>5, <1>6

LEMMA LeavesFacts ==
  ASSUME NEW hashes, IsSeq(hashes)
  PROVE  /\ IsSeq(Leaves(hashes)) /\ Len(Leaves(hashes)) = Len(hashes)
         /\ \A i \in 1..Len(hashes) : Leaves(hashes)[i] = LeafHash(hashes[i])
<1> DEFINE n == Len(hashes)
           f == [i \in 1..n |-> LeafHash(hashes[i])]
           S == {LeafHash(hashes[i]) : i \in 1..n}
<1>1. n \in Nat /\ DOMAIN hashes = 1..n
  BY SeqFacts
<1>2. Leaves(hashes) = f
  BY <1>1 DEF Leaves
<1>3. f \in [1..n -> S] /\ \A i \in 1..n : f[i] = LeafHash(hashes[i])
  OBVIOUS
<1>4. IsSeq(f) /\ DOMAIN f = 1..n
  <2> HIDE DEF n, f, S
  <2>1. DOMAIN f = 1..n
    BY <1>3
  <2> QED
    BY <1>1, <1>3, <2>1, FunctionSeq
<1>5. Len(f) = n
  <2> HIDE DEF n, f, S
  <2>1. Len(f) \in Nat /\ 1..n = 1..Len(f)
    BY <1>4, SeqFacts
  <2> QED
    BY <1>1, <2>1, SameLength
<1> HIDE DEF f
<1> QED
  BY <1>2, <1>3, <1>4, <1>5

(* There is a top, no higher than there are leaves.                        *)
LEMMA TopExists ==
  ASSUME NEW hashes, IsSeq(hashes), Len(hashes) > 0,
         NEW g, IsLevels(g, hashes, Len(hashes))
  PROVE  /\ \A n \in 0..Len(hashes) : IsSeq(g[n]) /\ Len(g[n]) > 0
         /\ \E n \in 0..Len(hashes) : Len(g[n]) = 1 /\ \A m \in 0..(n - 1) : Len(g[m]) > 1
<1> DEFINE k == Len(hashes)
           S == {n \in 0..k : /\ IsSeq(g[n]) /\ Len(g[n]) > 0
                              /\ Len(g[n]) = 1 \/ Len(g[n]) <= k - n}
<1>1. k \in Nat /\ k > 0
  BY SeqFacts
<1>2. g[0] = Leaves(hashes) /\ \A n \in 1..k : g[n] = NextLevel(g[n - 1])
  BY <1>1 DEF IsLevels
<1>3. 0 \in S
  BY <1>1, <1>2, LeavesFacts
<1>4. ASSUME NEW n \in 1..k, n - 1 \in S
      PROVE  n \in S
  <2> DEFINE l == g[n - 1]
  <2>1. IsSeq(l) /\ Len(l) > 0 /\ (Len(l) = 1 \/ Len(l) <= k - (n - 1))
    BY <1>4
  <2>2. Len(l) \in Nat
    BY <2>1, SeqFacts
  <2> HIDE DEF l
  <2>3. /\ IsSeq(NextLevel(l)) /\ Len(NextLevel(l)) > 0
        /\ Len(NextLevel(l)) = (Len(l) + 1) \div 2
    BY <2>1, NextLevelFacts
  <2>4. (Len(l) + 1) \div 2 = 1 \/ (Len(l) + 1) \div 2 <= k - n
    <3> DEFINE d == Len(l)
    <3>1. d \in Nat /\ d > 0 /\ (d = 1 \/ d <= k - (n - 1)) /\ n \in 1..k /\ k \in Nat
      BY <1>1, <2>1, <2>2
    <3> HIDE DEF d, k
    <3>2. (d + 1) \div 2 = 1 \/ (d + 1) \div 2 <= k - n
      BY ONLY <3>1
    <3> QED
      BY <3>2 DEF d
  <2>5. g[n] = NextLevel(l) /\ n \in 0..k
    BY <1>2 DEF l
  <2>6. IsSeq(g[n]) /\ Len(g[n]) > 0
    BY <2>3, <2>5
  <2>7. Len(g[n]) = 1 \/ Len(g[n]) <= k - n
    BY ONLY <2>3, <2>4, <2>5
  <2> QED
    BY ONLY <2>5, <2>6, <2>7
<1>5. 0..k \subseteq S
  <2> HIDE DEF S
  <2> QED
    BY <1>1, <1>3, <1>4, UpTo
<1>6. \A n \in 0..k : IsSeq(g[n]) /\ Len(g[n]) > 0
  BY <1>5
<1> DEFINE T == {n \in 0..k : Len(g[n]) = 1}
<1>7. T \subseteq Nat /\ T # {}
  <2>1. k \in S
    BY <1>1, <1>5
  <2>2. Len(g[k]) \in Nat
    BY <1>1, <1>6, SeqFacts
  <2>3. Len(g[k]) = 1
    BY <1>1, <2>1, <2>2
  <2> QED
    BY <1>1, <2>3
<1>8. PICK t \in T : \A m \in T : t <= m
  BY <1>7, LeastNumber
<1>9. \A m \in 0..(t - 1) : Len(g[m]) > 1
  <2> SUFFICES ASSUME NEW m \in 0..(t - 1)
               PROVE  Len(g[m]) > 1
    OBVIOUS
  <2>1. m \in 0..k /\ ~(t <= m)
    BY <1>8
  <2>2. Len(g[m]) # 1 /\ Len(g[m]) > 0
    BY <1>6, <1>8, <2>1
  <2>3. Len(g[m]) \in Nat
    BY <1>6, <2>1, SeqFacts
  <2> DEFINE d == Len(g[m])
  <2>4. d # 1 /\ d > 0 /\ d \in Nat
    BY <2>2, <2>3
  <2> HIDE DEF d
  <2>5. d > 1
    BY ONLY <2>4
  <2> QED
    BY <2>5 DEF d
<1> QED
  BY <1>6, <1>8, <1>9

(* What a tree is, leaves first. *)
IsTree(L, hashes) ==
  /\ IsSeq(L) /\ Len(L) > 0
  /\ L[1] = Leaves(hashes)
  /\ \A n \in 1..(Len(L) - 1) : L[n + 1] = NextLevel(L[n])
  /\ \A n \in 1..Len(L) : IsSeq(L[n]) /\ Len(L[n]) > 0
  /\ Len(L[Len(L)]) = 1

LEMMA LevelsAreATree ==
  ASSUME NEW hashes, IsSeq(hashes), Len(hashes) > 0
  PROVE  IsTree(Levels(hashes), hashes)
<1> DEFINE k == Len(hashes)
           g == CHOOSE level : level = [n \in 0..k |->
                  IF n = 0 THEN Leaves(hashes) ELSE NextLevel(level[n - 1])]
           top == CHOOSE n \in 0..k : Len(g[n]) = 1 /\ \A m \in 0..(n - 1) : Len(g[m]) > 1
           L == [n \in 1..(top + 1) |-> g[n - 1]]
<1>1. k \in Nat /\ k > 0
  BY SeqFacts
<1>2. Levels(hashes) = L
  BY DEF Levels, Leaves
<1>3. IsLevels(g, hashes, k)
  <2>1. \E h : h = [n \in 0..k |-> IF n = 0 THEN Leaves(hashes) ELSE NextLevel(h[n - 1])]
    BY <1>1, LevelsUpTo DEF IsLevels
  <2> QED
    BY <2>1 DEF IsLevels
<1> HIDE DEF g
<1>4. \A n \in 0..k : IsSeq(g[n]) /\ Len(g[n]) > 0
  BY <1>1, <1>3, TopExists
<1>5. top \in 0..k /\ Len(g[top]) = 1
  BY <1>1, <1>3, TopExists
<1>6. g[0] = Leaves(hashes) /\ \A n \in 1..k : g[n] = NextLevel(g[n - 1])
  BY <1>1, <1>3 DEF IsLevels
<1> HIDE DEF top, k
<1> DEFINE S == {g[n - 1] : n \in 1..(top + 1)}
<1>7. /\ L \in [1..(top + 1) -> S] /\ DOMAIN L = 1..(top + 1)
      /\ \A n \in 1..(top + 1) : L[n] = g[n - 1]
  OBVIOUS
<1> HIDE DEF L, S
<1>8. IsSeq(L)
  <2>1. top + 1 \in Int
    BY <1>1, <1>5
  <2> QED
    BY <1>7, <2>1, FunctionSeq
<1>9. Len(L) = top + 1
  <2>1. Len(L) \in Nat /\ top + 1 \in Nat /\ 1..(top + 1) = 1..Len(L)
    BY <1>1, <1>5, <1>7, <1>8, SeqFacts
  <2> QED
    BY <2>1, SameLength
<1>10. Len(L) > 0 /\ L[1] = Leaves(hashes) /\ Len(L[Len(L)]) = 1
  BY <1>1, <1>5, <1>6, <1>7, <1>9
<1>11. \A n \in 1..(Len(L) - 1) : L[n + 1] = NextLevel(L[n])
  <2> SUFFICES ASSUME NEW n \in 1..(Len(L) - 1)
               PROVE  L[n + 1] = NextLevel(L[n])
    OBVIOUS
  <2>1. n \in 1..k /\ n \in 1..(top + 1) /\ n + 1 \in 1..(top + 1) /\ (n + 1) - 1 = n
    BY <1>1, <1>5, <1>9
  <2> QED
    BY <1>6, <1>7, <2>1
<1>12. \A n \in 1..Len(L) : IsSeq(L[n]) /\ Len(L[n]) > 0
  <2> SUFFICES ASSUME NEW n \in 1..Len(L)
               PROVE  IsSeq(L[n]) /\ Len(L[n]) > 0
    OBVIOUS
  <2>1. n - 1 \in 0..k /\ n \in 1..(top + 1)
    BY <1>1, <1>5, <1>9
  <2> QED
    BY <1>4, <1>7, <2>1
<1> QED
  BY <1>2, <1>8, <1>10, <1>11, <1>12 DEF IsTree
-------------------------------------------------------------------------------
(* The walk along a path.                                                  *)

IsWalk(g, hash, proof, k) ==
  g = [n \in 0..k |-> IF n = 0 THEN LeafHash(hash) ELSE Hashed(g[n - 1], proof[n])]

LEMMA WalkUpTo ==
  ASSUME NEW hash, NEW proof, NEW k \in Nat
  PROVE  \E g : IsWalk(g, hash, proof, k)
<1> DEFINE S == {n \in Nat : \E g : IsWalk(g, hash, proof, n)}
<1>1. 0 \in S
  <2> DEFINE g == [n \in 0..0 |-> LeafHash(hash)]
  <2>1. IsWalk(g, hash, proof, 0)
    BY DEF IsWalk
  <2> QED
    BY <2>1
<1>2. ASSUME NEW n \in 1..k, n - 1 \in S
      PROVE  n \in S
  <2>1. PICK g : IsWalk(g, hash, proof, n - 1)
    BY <1>2
  <2> DEFINE h == [m \in 0..n |-> IF m = n THEN Hashed(g[n - 1], proof[n]) ELSE g[m]]
  <2>2. \A m \in 0..n : h[m] = IF m = 0 THEN LeafHash(hash) ELSE Hashed(h[m - 1], proof[m])
    <3> SUFFICES ASSUME NEW m \in 0..n
                 PROVE  h[m] = IF m = 0 THEN LeafHash(hash) ELSE Hashed(h[m - 1], proof[m])
      OBVIOUS
    <3>1. CASE m = n
      BY <3>1
    <3>2. CASE m # n
      <4>1. m \in 0..(n - 1)
        BY <3>2
      <4>2. g[m] = IF m = 0 THEN LeafHash(hash) ELSE Hashed(g[m - 1], proof[m])
        BY <2>1, <4>1 DEF IsWalk
      <4>3. h[m] = g[m] /\ (m # 0 => h[m - 1] = g[m - 1])
        BY <3>2, <4>1
      <4> QED
        BY <4>2, <4>3
    <3> QED
      BY <3>1, <3>2
  <2>3. h = [m \in 0..n |-> IF m = 0 THEN LeafHash(hash) ELSE Hashed(h[m - 1], proof[m])]
    BY <2>2
  <2>4. IsWalk(h, hash, proof, n)
    BY <2>3 DEF IsWalk
  <2> QED
    BY <2>4
<1>3. 0..k \subseteq S
  <2> HIDE DEF S
  <2> QED
    BY <1>1, <1>2, UpTo
<1> QED
  BY <1>3

LEMMA WalkIs ==
  ASSUME NEW hash, NEW proof, IsSeq(proof)
  PROVE  \E g : IsWalk(g, hash, proof, Len(proof)) /\ Walk(hash, proof) = g[Len(proof)]
<1> DEFINE k == Len(proof)
           g == CHOOSE h : h = [n \in 0..k |->
                  IF n = 0 THEN LeafHash(hash) ELSE Hashed(h[n - 1], proof[n])]
<1>1. k \in Nat
  BY SeqFacts
<1>2. Walk(hash, proof) = g[k]
  BY DEF Walk
<1>3. \E h : h = [n \in 0..k |-> IF n = 0 THEN LeafHash(hash) ELSE Hashed(h[n - 1], proof[n])]
  <2> HIDE DEF k
  <2>1. \E h : IsWalk(h, hash, proof, k)
    BY <1>1, WalkUpTo
  <2> QED
    BY <2>1 DEF IsWalk
<1>4. IsWalk(g, hash, proof, k)
  BY <1>3 DEF IsWalk
<1> HIDE DEF g
<1> QED
  BY <1>2, <1>4

LEMMA WalkNowhere ==
  ASSUME NEW hash, NEW proof, proof = <<>>
  PROVE  Walk(hash, proof) = LeafHash(hash)
<1>1. IsSeq(proof) /\ Len(proof) = 0
  BY NothingIsSeq
<1>2. PICK g : IsWalk(g, hash, proof, 0) /\ Walk(hash, proof) = g[0]
  BY <1>1, WalkIs
<1> QED
  BY <1>2 DEF IsWalk

LEMMA WalkOn ==
  ASSUME NEW hash, NEW proof, IsSeq(proof), NEW step
  PROVE  Walk(hash, Append(proof, step)) = Hashed(Walk(hash, proof), step)
<1> DEFINE k == Len(proof)
           more == Append(proof, step)
<1>1. /\ k \in Nat /\ IsSeq(more) /\ Len(more) = k + 1 /\ more[k + 1] = step
      /\ \A n \in 1..k : more[n] = proof[n]
  BY AppendSeq, SeqFacts
<1> HIDE DEF k, more
<1>2. PICK g : IsWalk(g, hash, proof, k) /\ Walk(hash, proof) = g[k]
  BY WalkIs DEF k
<1>3. PICK h : IsWalk(h, hash, more, k + 1) /\ Walk(hash, more) = h[k + 1]
  BY <1>1, WalkIs
<1>4. /\ g[0] = LeafHash(hash) /\ h[0] = LeafHash(hash)
      /\ \A n \in 1..k : g[n] = Hashed(g[n - 1], proof[n])
      /\ \A n \in 1..(k + 1) : h[n] = Hashed(h[n - 1], more[n])
  BY <1>1, <1>2, <1>3 DEF IsWalk
<1> DEFINE S == {n \in 0..k : g[n] = h[n]}
<1>5. 0 \in S
  BY <1>1, <1>4
<1>6. ASSUME NEW n \in 1..k, n - 1 \in S
      PROVE  n \in S
  <2>1. n \in 1..(k + 1) /\ n \in 0..k
    BY <1>1
  <2>2. g[n] = Hashed(g[n - 1], proof[n]) /\ h[n] = Hashed(h[n - 1], more[n])
    BY <1>4, <2>1
  <2>3. more[n] = proof[n] /\ g[n - 1] = h[n - 1]
    BY <1>1, <1>6
  <2> QED
    BY <2>1, <2>2, <2>3
<1>7. 0..k \subseteq S
  <2> HIDE DEF S
  <2> QED
    BY <1>1, <1>5, <1>6, UpTo
<1>8. h[k] = g[k]
  BY <1>1, <1>7
<1>9. h[k + 1] = Hashed(h[k], step)
  BY <1>1, <1>4
<1> QED
  BY <1>2, <1>3, <1>8, <1>9 DEF more

-------------------------------------------------------------------------------
(* The loop that draws a path.                                             *)

Start(index) == [i |-> index, steps |-> <<>>]
IsClimb(g, index, L, k) ==
  g = [n \in 0..k |-> IF n = 0 THEN Start(index) ELSE Climb(L[n], g[n - 1])]

LEMMA ClimbUpTo ==
  ASSUME NEW index, NEW L, NEW k \in Nat
  PROVE  \E g : IsClimb(g, index, L, k)
<1> DEFINE S == {n \in Nat : \E g : IsClimb(g, index, L, n)}
<1>1. 0 \in S
  <2> DEFINE g == [n \in 0..0 |-> Start(index)]
  <2>1. IsClimb(g, index, L, 0)
    BY DEF IsClimb
  <2> QED
    BY <2>1
<1>2. ASSUME NEW n \in 1..k, n - 1 \in S
      PROVE  n \in S
  <2>1. PICK g : IsClimb(g, index, L, n - 1)
    BY <1>2
  <2> DEFINE h == [m \in 0..n |-> IF m = n THEN Climb(L[n], g[n - 1]) ELSE g[m]]
  <2>2. \A m \in 0..n : h[m] = IF m = 0 THEN Start(index) ELSE Climb(L[m], h[m - 1])
    <3> SUFFICES ASSUME NEW m \in 0..n
                 PROVE  h[m] = IF m = 0 THEN Start(index) ELSE Climb(L[m], h[m - 1])
      OBVIOUS
    <3>1. CASE m = n
      BY <3>1
    <3>2. CASE m # n
      <4>1. m \in 0..(n - 1)
        BY <3>2
      <4>2. g[m] = IF m = 0 THEN Start(index) ELSE Climb(L[m], g[m - 1])
        BY <2>1, <4>1 DEF IsClimb
      <4>3. h[m] = g[m] /\ (m # 0 => h[m - 1] = g[m - 1])
        BY <3>2, <4>1
      <4> QED
        BY <4>2, <4>3
    <3> QED
      BY <3>1, <3>2
  <2>3. h = [m \in 0..n |-> IF m = 0 THEN Start(index) ELSE Climb(L[m], h[m - 1])]
    BY <2>2
  <2>4. IsClimb(h, index, L, n)
    BY <2>3 DEF IsClimb
  <2> QED
    BY <2>4
<1>3. 0..k \subseteq S
  <2> HIDE DEF S
  <2> QED
    BY <1>1, <1>2, UpTo
<1> QED
  BY <1>3

LEMMA ProofForIs ==
  ASSUME NEW hashes, NEW index, IsSeq(Levels(hashes)), Len(Levels(hashes)) > 0
  PROVE  \E g : /\ IsClimb(g, index, Levels(hashes), Len(Levels(hashes)) - 1)
                /\ ProofFor(hashes, index) = g[Len(Levels(hashes)) - 1].steps
<1> DEFINE L == Levels(hashes)
           k == Len(L) - 1
           g == CHOOSE h : h = [n \in 0..k |-> IF n = 0 THEN Start(index) ELSE Climb(L[n], h[n - 1])]
<1>1. k \in Nat
  BY SeqFacts
<1>2. ProofFor(hashes, index) = g[k].steps
  BY DEF ProofFor, Start
<1>3. \E h : h = [n \in 0..k |-> IF n = 0 THEN Start(index) ELSE Climb(L[n], h[n - 1])]
  <2> HIDE DEF k, L
  <2>1. \E h : IsClimb(h, index, L, k)
    BY <1>1, ClimbUpTo
  <2> QED
    BY <2>1 DEF IsClimb
<1>4. IsClimb(g, index, L, k)
  BY <1>3 DEF IsClimb
<1> HIDE DEF g
<1> QED
  BY <1>2, <1>4

(* The path drawn so far leads to the place in the layer that the loop has *)
(* climbed to, and another round keeps it so.                              *)
Leads(hash, layer, at) ==
  /\ at.i \in 0..(Len(layer) - 1)
  /\ IsSeq(at.steps)
  /\ Walk(hash, at.steps) = layer[at.i + 1]

LEMMA ClimbOn ==
  ASSUME NEW hash, NEW l, IsSeq(l), Len(l) > 0, NEW at, Leads(hash, l, at)
  PROVE  Leads(hash, NextLevel(l), Climb(l, at))
<1> DEFINE i == at.i
           d == Len(l)
           j == i \div 2 + 1
           up == Climb(l, at).steps
<1>1. d \in Nat /\ d > 0 /\ i \in 0..(d - 1) /\ IsSeq(at.steps)
  BY SeqFacts DEF Leads
<1>2. /\ Len(NextLevel(l)) = (d + 1) \div 2
      /\ \A n \in 1..Len(NextLevel(l)) :
           NextLevel(l)[n] = IF 2 * n <= d THEN NodeHash(l[2 * n - 1], l[2 * n]) ELSE l[2 * n - 1]
  BY NextLevelFacts
<1>3. /\ Climb(l, at) = [i |-> i \div 2, steps |-> up]
      /\ Climb(l, at).i = i \div 2
      /\ up = IF Sibling(i) < d
              THEN Append(at.steps, [hash |-> l[Sibling(i) + 1],
                                     side |-> IF i % 2 = 1 THEN "left" ELSE "right"])
              ELSE at.steps
  BY DEF Climb
<1> HIDE DEF i, d, up
<1>4. j \in 1..((d + 1) \div 2) /\ i \div 2 \in 0..((d + 1) \div 2 - 1)
  BY <1>1
<1>5. NextLevel(l)[j] = IF 2 * j <= d THEN NodeHash(l[2 * j - 1], l[2 * j]) ELSE l[2 * j - 1]
  BY <1>2, <1>4
<1>6. CASE i % 2 = 1
  <2>1. Sibling(i) = i - 1 /\ i + 1 = 2 * j /\ (i - 1) + 1 = 2 * j - 1 /\ 2 * j <= d /\ i - 1 < d
    BY <1>1, <1>6 DEF Sibling
  <2> HIDE DEF j
  <2>2. up = Append(at.steps, [hash |-> l[2 * j - 1], side |-> "left"])
    BY <1>3, <1>6, <2>1
  <2>3. IsSeq(up) /\ Walk(hash, up) = Hashed(Walk(hash, at.steps), [hash |-> l[2 * j - 1], side |-> "left"])
    BY <1>1, <2>2, AppendSeq, WalkOn
  <2>4. Walk(hash, at.steps) = l[2 * j]
    BY <2>1 DEF i, Leads
  <2>5. Walk(hash, up) = NextLevel(l)[j]
    BY <1>5, <2>1, <2>3, <2>4 DEF Hashed
  <2> QED
    BY <1>2, <1>3, <1>4, <2>3, <2>5 DEF j, Leads
<1>7. CASE i % 2 # 1 /\ i + 1 < d
  <2>1. Sibling(i) = i + 1 /\ i + 1 = 2 * j - 1 /\ (i + 1) + 1 = 2 * j /\ 2 * j <= d
    BY <1>1, <1>7 DEF Sibling
  <2> HIDE DEF j
  <2>2. up = Append(at.steps, [hash |-> l[2 * j], side |-> "right"])
    BY <1>3, <1>7, <2>1
  <2>3. IsSeq(up) /\ Walk(hash, up) = Hashed(Walk(hash, at.steps), [hash |-> l[2 * j], side |-> "right"])
    BY <1>1, <2>2, AppendSeq, WalkOn
  <2>4. Walk(hash, at.steps) = l[2 * j - 1]
    BY <2>1 DEF i, Leads
  <2>5. Walk(hash, up) = NextLevel(l)[j]
    BY <1>5, <2>1, <2>3, <2>4 DEF Hashed
  <2> QED
    BY <1>2, <1>3, <1>4, <2>3, <2>5 DEF j, Leads
<1>8. CASE i % 2 # 1 /\ ~(i + 1 < d)
  <2>1. Sibling(i) = i + 1 /\ i + 1 = 2 * j - 1 /\ ~(2 * j <= d)
    BY <1>1, <1>8 DEF Sibling
  <2> HIDE DEF j
  <2>2. up = at.steps
    BY <1>3, <1>8, <2>1
  <2>3. Walk(hash, up) = NextLevel(l)[j]
    BY <1>5, <2>1, <2>2 DEF i, Leads
  <2> QED
    BY <1>1, <1>2, <1>3, <1>4, <2>2, <2>3 DEF j, Leads
<1> QED
  BY <1>6, <1>7, <1>8

-------------------------------------------------------------------------------
(* The path that proofFor draws for any leaf of any tree, followed as      *)
(* verifyProof does, ends at the root of that tree, odd levels included.   *)
THEOREM PathsLeadToRoot ==
  ASSUME NEW S, NEW hashes \in Seq(S), NEW index \in 0..(Len(hashes) - 1)
  PROVE  VerifyProof(hashes[index + 1], ProofFor(hashes, index), TreeRoot(hashes))
<1> DEFINE hash == hashes[index + 1]
           L == Levels(hashes)
           k == Len(L) - 1
<1>1. IsSeq(hashes) /\ Len(hashes) \in Nat /\ Len(hashes) > 0
  BY SeqIntro
<1>2. IsTree(L, hashes)
  BY <1>1, LevelsAreATree
<1>3. /\ IsSeq(L) /\ k \in Nat /\ k + 1 = Len(L)
      /\ L[1] = Leaves(hashes)
      /\ \A n \in 1..k : L[n + 1] = NextLevel(L[n])
      /\ \A n \in 1..(k + 1) : IsSeq(L[n]) /\ Len(L[n]) > 0
      /\ Len(L[k + 1]) = 1
  BY <1>2, SeqFacts DEF IsTree
<1>4. PICK g : IsClimb(g, index, L, k) /\ ProofFor(hashes, index) = g[k].steps
  BY <1>3, ProofForIs
<1>5. TreeRoot(hashes) = L[k + 1][1]
  BY <1>3 DEF TreeRoot
<1> HIDE DEF L, k
<1>6. g[0] = Start(index) /\ \A n \in 1..k : g[n] = Climb(L[n], g[n - 1])
  BY <1>3, <1>4 DEF IsClimb
<1> DEFINE T == {n \in 0..k : Leads(hash, L[n + 1], g[n])}
<1>7. 0 \in T
  <2>1. g[0] = [i |-> index, steps |-> <<>>] /\ g[0].i = index /\ g[0].steps = <<>>
    BY <1>6 DEF Start
  <2>2. IsSeq(g[0].steps) /\ Walk(hash, g[0].steps) = LeafHash(hash)
    BY <2>1, NothingIsSeq, WalkNowhere
  <2>3. Len(L[1]) = Len(hashes) /\ L[1][index + 1] = LeafHash(hash)
    BY <1>1, <1>3, LeavesFacts
  <2>4. 0 + 1 = 1
    OBVIOUS
  <2>5. Leads(hash, L[0 + 1], g[0])
    BY <2>1, <2>2, <2>3, <2>4 DEF Leads
  <2> QED
    BY <1>3, <2>5
<1>8. ASSUME NEW n \in 1..k, n - 1 \in T
      PROVE  n \in T
  <2> DEFINE at == g[n - 1]
             l == L[n]
  <2>1. (n - 1) + 1 = n /\ n \in 1..(k + 1) /\ n \in 0..k
    BY <1>3
  <2>2. Leads(hash, l, at)
    BY <1>8, <2>1
  <2>3. IsSeq(l) /\ Len(l) > 0 /\ g[n] = Climb(l, at) /\ L[n + 1] = NextLevel(l)
    BY <1>3, <1>6, <2>1
  <2> HIDE DEF at, l, hash
  <2>4. Leads(hash, L[n + 1], g[n])
    BY <2>2, <2>3, ClimbOn
  <2> QED
    BY <2>1, <2>4
<1>9. 0..k \subseteq T
  <2> HIDE DEF T
  <2> QED
    BY <1>3, <1>7, <1>8, UpTo
<1>10. g[k].i \in 0..(Len(L[k + 1]) - 1) /\ Walk(hash, g[k].steps) = L[k + 1][g[k].i + 1]
  <2>1. k \in 0..k
    BY <1>3
  <2>2. Leads(hash, L[k + 1], g[k])
    BY <1>9, <2>1
  <2> QED
    BY <2>2 DEF Leads
<1>11. g[k].i = 0
  BY <1>3, <1>10
<1>12. Walk(hash, g[k].steps) = L[k + 1][1]
  BY <1>10, <1>11
<1> QED
  BY <1>4, <1>5, <1>12 DEF VerifyProof

-------------------------------------------------------------------------------
(* A root is the hash of something.                                        *)

IsHash(h) == (\E x : h = LeafHash(x)) \/ (\E x, y : h = NodeHash(x, y))
AllHashes(l) == \A i \in 1..Len(l) : IsHash(l[i])

LEMMA LevelOfHashes ==
  ASSUME NEW l, IsSeq(l), Len(l) > 0, AllHashes(l)
  PROVE  AllHashes(NextLevel(l))
<1>1. Len(l) \in Nat
  BY SeqFacts
<1>2. /\ Len(NextLevel(l)) = (Len(l) + 1) \div 2
      /\ \A j \in 1..Len(NextLevel(l)) :
           NextLevel(l)[j] = IF 2 * j <= Len(l) THEN NodeHash(l[2 * j - 1], l[2 * j])
                                                ELSE l[2 * j - 1]
  BY NextLevelFacts
<1> SUFFICES ASSUME NEW j \in 1..Len(NextLevel(l))
             PROVE  IsHash(NextLevel(l)[j])
  BY DEF AllHashes
<1>3. CASE 2 * j <= Len(l)
  BY <1>2, <1>3 DEF IsHash
<1>4. CASE ~(2 * j <= Len(l))
  <2>1. 2 * j - 1 \in 1..Len(l)
    <3> DEFINE d == Len(l)
    <3>1. d \in Nat /\ j \in 1..((d + 1) \div 2)
      BY <1>1, <1>2
    <3> HIDE DEF d
    <3>2. 2 * j - 1 \in 1..d
      BY ONLY <3>1
    <3> QED
      BY <3>2 DEF d
  <2>2. IsHash(l[2 * j - 1])
    BY <2>1 DEF AllHashes
  <2> QED
    BY <1>2, <1>4, <2>2
<1> QED
  BY <1>3, <1>4

LEMMA RootIsHash ==
  ASSUME NEW hashes, IsSeq(hashes), Len(hashes) > 0
  PROVE  IsHash(TreeRoot(hashes))
<1> DEFINE L == Levels(hashes)
           k == Len(L) - 1
           S == {n \in 0..k : AllHashes(L[n + 1])}
<1>1. IsTree(L, hashes)
  BY LevelsAreATree
<1> HIDE DEF L
<1>2. /\ Len(L) \in Nat /\ k \in Nat /\ L[1] = Leaves(hashes)
      /\ \A n \in 1..k : L[n + 1] = NextLevel(L[n])
      /\ \A n \in 1..Len(L) : IsSeq(L[n]) /\ Len(L[n]) > 0
      /\ Len(L[Len(L)]) = 1
  BY <1>1, SeqFacts DEF IsTree
<1>3. AllHashes(Leaves(hashes))
  BY LeavesFacts DEF AllHashes, IsHash
<1>4. 0 \in S
  BY <1>2, <1>3
<1>5. ASSUME NEW n \in 1..k, n - 1 \in S
      PROVE  n \in S
  <2>1. (n - 1) + 1 = n /\ n \in 0..k /\ n \in 1..Len(L)
    BY <1>2
  <2>2. AllHashes(L[n])
    BY <1>5, <2>1
  <2>3. AllHashes(NextLevel(L[n]))
    BY <1>2, <2>1, <2>2, LevelOfHashes
  <2> QED
    BY <1>2, <2>1, <2>3
<1>6. k \in S
  <2>1. 0..k \subseteq S
    <3> HIDE DEF S, k
    <3> QED
      BY <1>2, <1>4, <1>5, UpTo
  <2> QED
    <3> HIDE DEF S, k
    <3> QED
      BY <1>2, <2>1
<1>7. AllHashes(L[Len(L)])
  <2>1. k + 1 = Len(L)
    BY <1>2
  <2> QED
    BY <1>6, <2>1
<1>8. IsHash(L[Len(L)][1])
  BY <1>2, <1>7 DEF AllHashes
<1> QED
  BY <1>8 DEF TreeRoot, L
===============================================================================
