--------------------------- MODULE OtsAnchorProofs ---------------------------
(***************************************************************************)
(* Theorems about OpenTimestamps files and the OpenTimestamps anchor.      *)
(*                                                                         *)
(* First the files (OtsTimestamp), for every tree whose depth, numbers and *)
(* operations a file can hold: the order of items sorts every node in one  *)
(* way; a run of the reader over tokens can be cut in two; a varuint is    *)
(* read as it was written; and so, from the deepest nodes up, the file of  *)
(* a tree is read back as that tree in order, which is written as the same *)
(* file (FilesReadBack).                                                   *)
(*                                                                         *)
(* Then OtsAnchor, for any pools, calendars, threshold and attempts: what  *)
(* merging adds to a tree, what the answers of the calendars are read as,  *)
(* and the invariant (OtsInv): every promise in a tree was made by a       *)
(* calendar that holds the digest it commits to, every attestation hangs   *)
(* off the Merkle root of its block, and a receipt is the file of such a   *)
(* tree at the level its status names.                                     *)
(***************************************************************************)
EXTENDS OtsAnchor, MerkleProofs, FiniteSetTheorems

-------------------------------------------------------------------------------
(* The items of a node.                                                    *)

(* An item of a node, as the models write it. *)
IsItem(x) == x = <<x[1], x[2]>> /\ x[1] \in {1, 2, 3} /\ x[2] \in Nat

(* Items are in a strict order, any two of them. *)
LEMMA ItemOrder ==
  ASSUME NEW a, IsItem(a), NEW b, IsItem(b)
  PROVE  /\ ItemBefore(a, b) \/ ItemBefore(b, a) \/ a = b
         /\ ~ItemBefore(a, a)
         /\ ~(ItemBefore(a, b) /\ ItemBefore(b, a))
<1> DEFINE p == a[1] q == a[2] r == b[1] s == b[2]
<1>1. p \in Nat /\ q \in Nat /\ r \in Nat /\ s \in Nat /\ a = <<p, q>> /\ b = <<r, s>>
  BY DEF IsItem
<1>2. /\ ItemBefore(a, b) <=> (p < r \/ (p = r /\ q < s))
      /\ ItemBefore(b, a) <=> (r < p \/ (r = p /\ s < q))
      /\ ItemBefore(a, a) <=> (p < p \/ (p = p /\ q < q))
  BY DEF ItemBefore
<1> HIDE DEF p, q, r, s
<1>3. /\ (p < r \/ (p = r /\ q < s)) \/ (r < p \/ (r = p /\ s < q)) \/ (p = r /\ q = s)
      /\ ~(p < p \/ (p = p /\ q < q))
      /\ ~((p < r \/ (p = r /\ q < s)) /\ (r < p \/ (r = p /\ s < q)))
  BY ONLY <1>1
<1>4. p = r /\ q = s => a = b
  BY <1>1
<1> QED
  BY ONLY <1>2, <1>3, <1>4

LEMMA ItemTransitive ==
  ASSUME NEW a, IsItem(a), NEW b, IsItem(b), NEW c, IsItem(c),
         ItemBefore(a, b), ItemBefore(b, c)
  PROVE  ItemBefore(a, c)
<1> DEFINE p == a[1] q == a[2] r == b[1] s == b[2] t == c[1] u == c[2]
<1>1. /\ p \in Nat /\ q \in Nat /\ r \in Nat /\ s \in Nat /\ t \in Nat /\ u \in Nat
      /\ p < r \/ (p = r /\ q < s)
      /\ r < t \/ (r = t /\ s < u)
  BY DEF IsItem, ItemBefore
<1> HIDE DEF p, q, r, s, t, u
<1>2. p < t \/ (p = t /\ q < u)
  BY ONLY <1>1
<1> QED
  BY <1>2 DEF p, q, t, u, ItemBefore

(* A finite set of items has a last one. *)
LEMMA LastItem ==
  ASSUME NEW k \in Nat
  PROVE  \A S : IsFiniteSet(S) /\ Cardinality(S) = k + 1 /\ (\A x \in S : IsItem(x))
                => \E m \in S : \A x \in S : x = m \/ ItemBefore(x, m)
<1> DEFINE Has(S) == \E m \in S : \A x \in S : x = m \/ ItemBefore(x, m)
           P(n) == \A S : IsFiniteSet(S) /\ Cardinality(S) = n + 1 /\ (\A x \in S : IsItem(x)) => Has(S)
           T == {n \in Nat : P(n)}
<1>1. 0 \in T
  <2> SUFFICES ASSUME NEW S, IsFiniteSet(S), Cardinality(S) = 0 + 1
               PROVE  Has(S)
    OBVIOUS
  <2>1. Cardinality(S) = 1
    OBVIOUS
  <2>2. PICK x : S = {x}
    BY <2>1, FS_Singleton
  <2> QED
    BY <2>2
<1>2. ASSUME NEW n \in 1..k, n - 1 \in T
      PROVE  n \in T
  <2> SUFFICES ASSUME NEW S, IsFiniteSet(S), Cardinality(S) = n + 1, \A x \in S : IsItem(x)
               PROVE  Has(S)
    BY DEF T
  <2>1. n \in Nat /\ n + 1 # 0 /\ (n + 1) - 1 = (n - 1) + 1
    OBVIOUS
  <2>2. PICK y \in S : TRUE
    BY <2>1, FS_EmptySet
  <2> DEFINE R == S \ {y}
  <2>3. IsFiniteSet(R) /\ Cardinality(R) = (n - 1) + 1
    <3>1. IsFiniteSet(R) /\ Cardinality(R) = Cardinality(S) - 1
      BY <2>2, FS_RemoveElement
    <3> QED
      BY <2>1, <3>1
  <2>4. Has(R)
    BY <1>2, <2>3
  <2>5. PICK m \in R : \A x \in R : x = m \/ ItemBefore(x, m)
    BY <2>4
  <2>6. CASE ItemBefore(y, m)
    BY <2>5, <2>6
  <2>7. CASE ItemBefore(m, y)
    <3>1. ASSUME NEW x \in R
          PROVE  ItemBefore(x, y)
      BY <2>2, <2>5, <2>7, ItemTransitive
    <3> QED
      BY <2>2, <3>1
  <2> QED
    BY <2>2, <2>5, <2>6, <2>7, ItemOrder
<1>3. k \in T
  <2> HIDE DEF T
  <2>1. 0..k \subseteq T
    BY <1>1, <1>2, UpTo
  <2> QED
    BY <2>1
<1> QED
  BY <1>3

Ascending(s, n) == \A i, j \in 1..n : i < j => ItemBefore(s[i], s[j])

(* Every finite set of items can be listed in order, by induction on its   *)
(* size.                                                                   *)
LEMMA SortExists ==
  ASSUME NEW k \in Nat
  PROVE  \A S : IsFiniteSet(S) /\ Cardinality(S) = k /\ (\A x \in S : IsItem(x))
                => \E s \in [1..k -> S] : Ascending(s, k)
<1> DEFINE P(n) == \A S : IsFiniteSet(S) /\ Cardinality(S) = n /\ (\A x \in S : IsItem(x))
                          => \E s \in [1..n -> S] : Ascending(s, n)
           T == {n \in Nat : P(n)}
<1>1. 0 \in T
  <2> SUFFICES ASSUME NEW S
               PROVE  \E s \in [1..0 -> S] : Ascending(s, 0)
    OBVIOUS
  <2> DEFINE e == [i \in 1..0 |-> i]
  <2>1. e \in [1..0 -> S] /\ Ascending(e, 0)
    BY DEF Ascending
  <2> QED
    BY <2>1
<1>2. ASSUME NEW n \in 1..k, n - 1 \in T
      PROVE  n \in T
  <2> SUFFICES ASSUME NEW S, IsFiniteSet(S), Cardinality(S) = n, \A x \in S : IsItem(x)
               PROVE  \E s \in [1..n -> S] : Ascending(s, n)
    BY DEF T
  <2>1. n - 1 \in Nat /\ n = (n - 1) + 1
    OBVIOUS
  <2>2. PICK m \in S : \A x \in S : x = m \/ ItemBefore(x, m)
    BY <2>1, LastItem
  <2> DEFINE R == S \ {m}
  <2>3. IsFiniteSet(R) /\ Cardinality(R) = n - 1
    BY <2>2, FS_RemoveElement
  <2>4. PICK r \in [1..(n - 1) -> R] : Ascending(r, n - 1)
    BY <1>2, <2>3
  <2> DEFINE s == [i \in 1..n |-> IF i = n THEN m ELSE r[i]]
  <2>5. \A i \in 1..(n - 1) : s[i] = r[i] /\ s[i] \in S /\ ItemBefore(s[i], m)
    BY <2>2, <2>4
  <2>6. s[n] = m
    OBVIOUS
  <2>7. s \in [1..n -> S]
    BY <2>2, <2>4
  <2> HIDE DEF s
  <2>8. Ascending(s, n)
    <3> SUFFICES ASSUME NEW i \in 1..n, NEW j \in 1..n, i < j
                 PROVE  ItemBefore(s[i], s[j])
      BY DEF Ascending
    <3>1. i \in 1..(n - 1) /\ (j = n \/ j \in 1..(n - 1))
      OBVIOUS
    <3>2. CASE j = n
      BY <2>5, <2>6, <3>1, <3>2
    <3>3. CASE j \in 1..(n - 1)
      BY <2>4, <2>5, <3>1, <3>3 DEF Ascending
    <3> QED
      BY <3>1, <3>2, <3>3
  <2> QED
    BY <2>7, <2>8
<1>3. k \in T
  <2> HIDE DEF T
  <2>1. 0..k \subseteq T
    BY <1>1, <1>2, UpTo
  <2> QED
    BY <2>1
<1> QED
  BY <1>3

(* What may hang off a node: a sequence of items. *)
IsItems(s) ==
  /\ IsSeq(s) /\ \A i \in DOMAIN s : IsItem(s[i])

(* Sorted is in order and has the same items, each of them once. *)
LEMMA SortedIs ==
  ASSUME NEW s, IsItems(s)
  PROVE  /\ IsItems(Sorted(s)) /\ Range(Sorted(s)) = Range(s)
         /\ Ascending(Sorted(s), Len(Sorted(s)))
         /\ Len(Sorted(s)) > 0 <=> Len(s) > 0
<1> DEFINE S == Range(s)
           n == Cardinality(S)
           t == Sorted(s)
<1>1. IsSeq(s) /\ Len(s) \in Nat /\ DOMAIN s = 1..Len(s) /\ \A x \in S : IsItem(x)
  BY SeqFacts DEF IsItems, Range
<1>2. IsFiniteSet(S) /\ n \in Nat
  <2>1. IsFiniteSet(1..Len(s))
    BY <1>1, FS_Interval
  <2>2. s \in Surjection(1..Len(s), S)
    BY <1>1 DEF Surjection, Range, IsSeq
  <2>3. IsFiniteSet(S)
    BY <2>1, <2>2, FS_Surjection
  <2> QED
    BY <2>3, FS_CardinalityType
<1>3. \E u \in [1..n -> S] : Ascending(u, n)
  BY <1>1, <1>2, SortExists
<1>4. t \in [1..n -> S] /\ Ascending(t, n)
  <2>1. t = CHOOSE u \in [1..n -> S] : Ascending(u, n)
    BY DEF Sorted, Ascending
  <2> HIDE DEF t, n, S
  <2> QED
    BY <1>3, <2>1
<1> HIDE DEF t
<1>5. IsSeq(t) /\ Len(t) = n /\ DOMAIN t = 1..n
  <2> HIDE DEF n, S
  <2>1. IsSeq(t) /\ DOMAIN t = 1..n
    BY <1>2, <1>4, FunctionSeq
  <2>2. Len(t) \in Nat /\ 1..Len(t) = 1..n
    BY <2>1, SeqFacts
  <2> QED
    BY <1>2, <2>1, <2>2, SameLength
<1>6. \A i \in 1..n : t[i] \in S /\ IsItem(t[i])
  BY <1>1, <1>4
<1>7. t \in Injection(1..n, S)
  <2>1. ASSUME NEW i \in 1..n, NEW j \in 1..n, t[i] = t[j]
        PROVE  i = j
    <3>1. ~(i < j) /\ ~(j < i)
      BY <1>4, <1>6, <2>1, ItemOrder DEF Ascending
    <3> QED
      BY <1>2, <3>1
  <2> HIDE DEF n, S
  <2> QED
    BY <1>4, <2>1 DEF Injection, IsInjective
<1>8. t \in Surjection(1..n, S)
  <2>1. IsFiniteSet(1..n) /\ Cardinality(1..n) = n
    BY <1>2, FS_Interval
  <2> HIDE DEF n
  <2>2. Cardinality(1..n) = Cardinality(S)
    BY <2>1 DEF n
  <2> QED
    BY <1>2, <1>7, <2>2, FS_Injection
<1>9. Range(t) = S
  <2>1. \A y \in S : \E i \in 1..n : t[i] = y
    BY <1>8 DEF Surjection
  <2> QED
    BY <1>5, <1>6, <2>1 DEF Range
<1>10. n > 0 <=> Len(s) > 0
  <2>1. n = 0 <=> S = {}
    BY <1>2, FS_EmptySet
  <2>2. S = {} <=> Len(s) = 0
    <3>1. S = {} <=> 1..Len(s) = {}
      BY <1>1 DEF Range
    <3>2. 1..Len(s) = {} <=> Len(s) = 0
      <4> DEFINE l == Len(s)
      <4>1. l \in Nat
        BY <1>1
      <4> HIDE DEF l
      <4>2. l = 0 \/ 1 \in 1..l
        BY <4>1
      <4>3. 1..l = {} <=> l = 0
        BY <4>1, <4>2
      <4> QED
        BY <4>3 DEF l
    <3> QED
      BY <3>1, <3>2
  <2> QED
    BY <1>1, <1>2, <2>1, <2>2
<1> QED
  BY <1>4, <1>5, <1>6, <1>9, <1>10 DEF IsItems, t

(* Sorting what is sorted changes nothing: it is a matter of the set. *)
LEMMA SortedSame ==
  ASSUME NEW s, NEW t, Range(s) = Range(t)
  PROVE  Sorted(s) = Sorted(t)
BY DEF Sorted

-------------------------------------------------------------------------------
(* Sequences.                                                              *)

(* Sequences of the same length and elements are equal. *)
LEMMA SameSeq ==
  ASSUME NEW s, IsSeq(s), NEW t, IsSeq(t), Len(s) = Len(t), \A i \in 1..Len(s) : s[i] = t[i]
  PROVE  s = t
<1> DEFINE S == Range(s) \cup Range(t)
<1>1. s \in Seq(S) /\ t \in Seq(S)
  <2>1. s \in Seq(Range(s)) /\ t \in Seq(Range(t))
    BY DEF IsSeq
  <2> QED
    BY <2>1
<1> HIDE DEF S
<1> QED
  BY <1>1, SeqEqual

(* The length and the elements of a concatenation. *)
LEMMA JoinSeq ==
  ASSUME NEW s, IsSeq(s), NEW t, IsSeq(t)
  PROVE  /\ IsSeq(s \o t) /\ Len(s \o t) = Len(s) + Len(t)
         /\ \A i \in 1..(Len(s) + Len(t)) : (s \o t)[i] = IF i <= Len(s) THEN s[i] ELSE t[i - Len(s)]
<1> DEFINE S == Range(s) \cup Range(t)
<1>1. s \in Seq(S) /\ t \in Seq(S)
  <2>1. s \in Seq(Range(s)) /\ t \in Seq(Range(t))
    BY DEF IsSeq
  <2> QED
    BY <2>1
<1> HIDE DEF S
<1>2. /\ s \o t \in Seq(S) /\ Len(s \o t) = Len(s) + Len(t)
      /\ \A i \in 1..(Len(s) + Len(t)) : (s \o t)[i] = IF i <= Len(s) THEN s[i] ELSE t[i - Len(s)]
  BY <1>1, ConcatProperties
<1> QED
  BY <1>2, SeqIntro

LEMMA OneSeq ==
  ASSUME NEW x
  PROVE  IsSeq(<<x>>) /\ Len(<<x>>) = 1 /\ <<x>>[1] = x
<1>1. <<x>> \in Seq({x})
  OBVIOUS
<1> QED
  BY <1>1, SeqIntro

LEMMA TwoSeq ==
  ASSUME NEW x, NEW y
  PROVE  IsSeq(<<x, y>>) /\ Len(<<x, y>>) = 2 /\ <<x, y>>[1] = x /\ <<x, y>>[2] = y
<1>1. <<x, y>> \in Seq({x, y})
  OBVIOUS
<1> QED
  BY <1>1, SeqIntro

LEMMA PairSeq ==
  ASSUME NEW x, NEW y
  PROVE  <<x, y>> = <<x>> \o <<y>>
<1> DEFINE s == <<x>>
           t == <<y>>
           u == <<x, y>>
<1>1. /\ IsSeq(s) /\ Len(s) = 1 /\ s[1] = x /\ IsSeq(t) /\ Len(t) = 1 /\ t[1] = y
      /\ IsSeq(u) /\ Len(u) = 2 /\ u[1] = x /\ u[2] = y
  BY OneSeq, TwoSeq
<1> HIDE DEF s, t, u
<1>2. /\ IsSeq(s \o t) /\ Len(s \o t) = 2
      /\ \A i \in 1..2 : (s \o t)[i] = IF i <= 1 THEN s[i] ELSE t[i - 1]
  <2>1. /\ IsSeq(s \o t) /\ Len(s \o t) = Len(s) + Len(t)
        /\ \A i \in 1..(Len(s) + Len(t)) : (s \o t)[i] = IF i <= Len(s) THEN s[i] ELSE t[i - Len(s)]
    BY <1>1, JoinSeq
  <2>2. Len(s) + Len(t) = 2
    BY <1>1
  <2> QED
    BY <1>1, <2>1, <2>2
<1>3. (s \o t)[1] = x /\ (s \o t)[2] = y
  BY <1>1, <1>2
<1>4. \A i \in 1..2 : i = 1 \/ i = 2
  OBVIOUS
<1>5. u = s \o t
  BY <1>1, <1>2, <1>3, <1>4, SameSeq
<1> QED
  BY <1>5 DEF s, t, u

(* What was appended last is on top of the stack, above the rest of it. *)
LEMMA TopOfStack ==
  ASSUME NEW s, IsSeq(s), NEW x
  PROVE  Append(s, x) # <<>> /\ Last(Append(s, x)) = x /\ Front(Append(s, x)) = s
<1> DEFINE t == Append(s, x)
           n == Len(s)
<1>1. n \in Nat /\ IsSeq(t) /\ Len(t) = n + 1 /\ t[n + 1] = x /\ \A i \in 1..n : t[i] = s[i]
  BY SeqFacts, AppendSeq
<1> HIDE DEF t
<1>2. Last(t) = x
  BY <1>1 DEF Last
<1>3. t # <<>>
  BY <1>1
<1>4. Front(t) = s
  <2> DEFINE S == Range(s)
             f == SubSeq(t, 1, n)
  <2>1. (n + 1) - 1 = n /\ n - 1 + 1 = n
    BY <1>1
  <2>2. \A i \in 1..n : t[i] \in S
    BY <1>1, SeqFacts DEF Range
  <2> HIDE DEF S
  <2>3. /\ f \in Seq(S) /\ Len(f) = (IF 1 <= n THEN n - 1 + 1 ELSE 0)
        /\ \A i \in 1..(n - 1 + 1) : f[i] = t[1 + i - 1]
    BY <1>1, <2>2, SubSeqProperties
  <2>4. Len(f) = n
    BY <1>1, <2>3
  <2>5. \A i \in 1..n : f[i] = s[i]
    <3> TAKE i \in 1..n
    <3>1. 1 + i - 1 = i /\ i \in 1..(n - 1 + 1)
      BY <1>1
    <3> QED
      BY <1>1, <2>3, <3>1
  <2>6. IsSeq(f)
    BY <2>3, SeqIntro
  <2> HIDE DEF f
  <2>7. f = s
    BY <2>4, <2>5, <2>6, SameSeq
  <2> QED
    BY <1>1, <2>1, <2>7 DEF Front, f
<1> QED
  BY <1>2, <1>3, <1>4 DEF t

-------------------------------------------------------------------------------
(* Reading, as a run over the tokens.                                      *)

IsRun(g, start, tokens, root, k) ==
  g = [i \in 0..k |-> IF i = 0 THEN start ELSE ReadToken(g[i - 1], tokens[i], root)]

(* The recursive function ReadTimestamp is defined by exists, for every length. *)
LEMMA RunUpTo ==
  ASSUME NEW start, NEW tokens, NEW root, NEW k \in Nat
  PROVE  \E g : IsRun(g, start, tokens, root, k)
<1> DEFINE S == {n \in Nat : \E g : IsRun(g, start, tokens, root, n)}
<1>1. 0 \in S
  <2> DEFINE g == [i \in 0..0 |-> start]
  <2>1. IsRun(g, start, tokens, root, 0)
    BY DEF IsRun
  <2> QED
    BY <2>1
<1>2. ASSUME NEW n \in 1..k, n - 1 \in S
      PROVE  n \in S
  <2>1. PICK g : IsRun(g, start, tokens, root, n - 1)
    BY <1>2
  <2> DEFINE h == [i \in 0..n |-> IF i = n THEN ReadToken(g[n - 1], tokens[n], root) ELSE g[i]]
  <2>2. \A i \in 0..n : h[i] = IF i = 0 THEN start ELSE ReadToken(h[i - 1], tokens[i], root)
    <3> SUFFICES ASSUME NEW i \in 0..n
                 PROVE  h[i] = IF i = 0 THEN start ELSE ReadToken(h[i - 1], tokens[i], root)
      OBVIOUS
    <3>1. CASE i = n
      BY <3>1
    <3>2. CASE i # n
      <4>1. i \in 0..(n - 1)
        BY <3>2
      <4>2. g[i] = IF i = 0 THEN start ELSE ReadToken(g[i - 1], tokens[i], root)
        BY <2>1, <4>1 DEF IsRun
      <4>3. h[i] = g[i] /\ (i # 0 => h[i - 1] = g[i - 1])
        BY <3>2, <4>1
      <4> QED
        BY <4>2, <4>3
    <3> QED
      BY <3>1, <3>2
  <2>3. h = [i \in 0..n |-> IF i = 0 THEN start ELSE ReadToken(h[i - 1], tokens[i], root)]
    BY <2>2
  <2>4. IsRun(h, start, tokens, root, n)
    BY <2>3 DEF IsRun
  <2> QED
    BY <2>4
<1>3. 0..k \subseteq S
  <2> HIDE DEF S
  <2> QED
    BY <1>1, <1>2, UpTo
<1> QED
  BY <1>3

(* What a run reads after each token. *)
LEMMA RunIs ==
  ASSUME NEW start, NEW tokens, NEW root, Len(tokens) \in Nat
  PROVE  \E g : /\ g[0] = start
                /\ \A i \in 1..Len(tokens) : g[i] = ReadToken(g[i - 1], tokens[i], root)
                /\ ReadTimestamp(start, tokens, root) = g[Len(tokens)]
<1> DEFINE k == Len(tokens)
           r == CHOOSE g : IsRun(g, start, tokens, root, k)
<1>1. IsRun(r, start, tokens, root, k)
  BY RunUpTo
<1>2. ReadTimestamp(start, tokens, root) = r[k]
  BY DEF ReadTimestamp, IsRun
<1> HIDE DEF r
<1>3. r[0] = start /\ \A i \in 1..k : r[i] = ReadToken(r[i - 1], tokens[i], root)
  <2>1. k \in Nat
    OBVIOUS
  <2> HIDE DEF k
  <2>2. 0 \in 0..k /\ \A i \in 1..k : i \in 0..k /\ i # 0
    BY <2>1
  <2> QED
    BY <1>1, <2>2 DEF IsRun
<1> QED
  BY <1>2, <1>3

LEMMA ReadNothing ==
  ASSUME NEW start, NEW root
  PROVE  ReadTimestamp(start, <<>>, root) = start
<1>1. Len(<<>>) = 0 /\ Len(<<>>) \in Nat
  OBVIOUS
<1> QED
  BY <1>1, RunIs

LEMMA ReadSingle ==
  ASSUME NEW start, NEW x, NEW root
  PROVE  ReadTimestamp(start, <<x>>, root) = ReadToken(start, x, root)
<1>1. Len(<<x>>) = 1 /\ Len(<<x>>) \in Nat /\ <<x>>[1] = x
  OBVIOUS
<1>2. PICK g : /\ g[0] = start
               /\ \A i \in 1..Len(<<x>>) : g[i] = ReadToken(g[i - 1], <<x>>[i], root)
               /\ ReadTimestamp(start, <<x>>, root) = g[Len(<<x>>)]
  BY <1>1, RunIs
<1>3. g[1] = ReadToken(g[1 - 1], <<x>>[1], root) /\ 1 - 1 = 0
  BY <1>1, <1>2
<1> QED
  BY <1>1, <1>2, <1>3

(* Two runs over the same tokens from the same start go the same way. *)
LEMMA ReadJoined ==
  ASSUME NEW start, NEW s, IsSeq(s), NEW t, IsSeq(t), NEW root
  PROVE  ReadTimestamp(start, s \o t, root) = ReadTimestamp(ReadTimestamp(start, s, root), t, root)
<1> DEFINE u == s \o t
           m == Len(s)
           n == Len(t)
           middle == ReadTimestamp(start, s, root)
<1>1. m \in Nat /\ n \in Nat /\ Len(u) = m + n /\ Len(u) \in Nat
  BY SeqFacts, JoinSeq
<1>2. \A i \in 1..(m + n) : u[i] = IF i <= m THEN s[i] ELSE t[i - m]
  BY JoinSeq
<1> HIDE DEF u
<1>15. Len(u) \in Nat
  BY <1>1
<1>3. PICK f : /\ f[0] = start
               /\ \A i \in 1..Len(u) : f[i] = ReadToken(f[i - 1], u[i], root)
               /\ ReadTimestamp(start, u, root) = f[Len(u)]
  BY <1>15, RunIs
<1>4. PICK g : /\ g[0] = start
               /\ \A i \in 1..m : g[i] = ReadToken(g[i - 1], s[i], root)
               /\ middle = g[m]
  BY <1>1, RunIs
<1>14. /\ \A i \in 1..(m + n) : f[i] = ReadToken(f[i - 1], u[i], root)
       /\ ReadTimestamp(start, u, root) = f[m + n]
  BY ONLY <1>1, <1>3
<1> HIDE DEF middle, n
<1>13. Len(t) \in Nat
  BY <1>1 DEF n
<1>5. PICK h : /\ h[0] = middle
               /\ \A i \in 1..n : h[i] = ReadToken(h[i - 1], t[i], root)
               /\ ReadTimestamp(middle, t, root) = h[n]
  BY <1>13, RunIs DEF n
<1> HIDE DEF m
<1> DEFINE S == {i \in 0..m : f[i] = g[i]}
           T == {i \in 0..n : f[m + i] = h[i]}
<1>6. 0 \in S
  BY <1>1, <1>3, <1>4
<1>7. ASSUME NEW i \in 1..m, i - 1 \in S
      PROVE  i \in S
  <2>1. i \in 1..(m + n) /\ i <= m /\ i \in 0..m
    BY <1>1
  <2>2. f[i] = ReadToken(f[i - 1], s[i], root)
    BY <1>2, <1>14, <2>1
  <2> QED
    BY <1>4, <1>7, <2>1, <2>2
<1>8. m \in S
  <2> HIDE DEF S
  <2>1. 0..m \subseteq S
    BY <1>1, <1>6, <1>7, UpTo
  <2> QED
    BY <1>1, <2>1
<1>9. 0 \in T
  BY <1>1, <1>4, <1>5, <1>8
<1>10. ASSUME NEW i \in 1..n, i - 1 \in T
       PROVE  i \in T
  <2>1. m + i \in 1..(m + n) /\ ~(m + i <= m) /\ (m + i) - m = i /\ (m + i) - 1 = m + (i - 1) /\ i \in 0..n
    BY <1>1
  <2>2. f[m + i] = ReadToken(f[m + (i - 1)], t[i], root)
    BY <1>2, <1>14, <2>1
  <2> QED
    BY <1>5, <1>10, <2>1, <2>2
<1>11. n \in T
  <2> HIDE DEF T
  <2>1. 0..n \subseteq T
    BY <1>1, <1>9, <1>10, UpTo
  <2> QED
    BY <1>1, <2>1
<1>12. ReadTimestamp(start, u, root) = ReadTimestamp(middle, t, root)
  BY <1>5, <1>11, <1>14
<1> QED
  BY <1>12 DEF u, middle

-------------------------------------------------------------------------------
(* Numbers.                                                                *)

IsValue(g, digits, k) ==
  g = [i \in 0..k |-> IF i = 0 THEN 0 ELSE digits[Len(digits) + 1 - i].digit + Base * g[i - 1]]

(* The recursive function ReadVaruint is defined by exists, for every length. *)
LEMMA ValueUpTo ==
  ASSUME NEW digits, NEW k \in Nat
  PROVE  \E g : IsValue(g, digits, k)
<1> DEFINE S == {n \in Nat : \E g : IsValue(g, digits, n)}
<1>1. 0 \in S
  <2> DEFINE g == [i \in 0..0 |-> 0]
  <2>1. IsValue(g, digits, 0)
    BY DEF IsValue
  <2> QED
    BY <2>1
<1>2. ASSUME NEW n \in 1..k, n - 1 \in S
      PROVE  n \in S
  <2>1. PICK g : IsValue(g, digits, n - 1)
    BY <1>2
  <2> DEFINE h == [i \in 0..n |-> IF i = n THEN digits[Len(digits) + 1 - n].digit + Base * g[n - 1] ELSE g[i]]
  <2>2. \A i \in 0..n : h[i] = IF i = 0 THEN 0 ELSE digits[Len(digits) + 1 - i].digit + Base * h[i - 1]
    <3> SUFFICES ASSUME NEW i \in 0..n
                 PROVE  h[i] = IF i = 0 THEN 0 ELSE digits[Len(digits) + 1 - i].digit + Base * h[i - 1]
      OBVIOUS
    <3>1. CASE i = n
      BY <3>1
    <3>2. CASE i # n
      <4>1. i \in 0..(n - 1)
        BY <3>2
      <4>2. g[i] = IF i = 0 THEN 0 ELSE digits[Len(digits) + 1 - i].digit + Base * g[i - 1]
        BY <2>1, <4>1 DEF IsValue
      <4>3. h[i] = g[i] /\ (i # 0 => h[i - 1] = g[i - 1])
        BY <3>2, <4>1
      <4> QED
        BY <4>2, <4>3
    <3> QED
      BY <3>1, <3>2
  <2>3. h = [i \in 0..n |-> IF i = 0 THEN 0 ELSE digits[Len(digits) + 1 - i].digit + Base * h[i - 1]]
    BY <2>2
  <2>4. IsValue(h, digits, n)
    BY <2>3 DEF IsValue
  <2> QED
    BY <2>4
<1>3. 0..k \subseteq S
  <2> HIDE DEF S
  <2> QED
    BY <1>1, <1>2, UpTo
<1> QED
  BY <1>3

LEMMA ValueIs ==
  ASSUME NEW digits, Len(digits) \in Nat
  PROVE  \E g : /\ g[0] = 0
                /\ \A i \in 1..Len(digits) : g[i] = digits[Len(digits) + 1 - i].digit + Base * g[i - 1]
                /\ ReadVaruint(digits) = g[Len(digits)]
<1> DEFINE k == Len(digits)
           r == CHOOSE g : IsValue(g, digits, k)
<1>1. IsValue(r, digits, k)
  BY ValueUpTo
<1>2. ReadVaruint(digits) = r[k]
  BY DEF ReadVaruint, IsValue
<1> HIDE DEF r
<1>3. k \in Nat
  OBVIOUS
<1>4. r = [i \in 0..k |-> IF i = 0 THEN 0 ELSE digits[k + 1 - i].digit + Base * r[i - 1]]
  BY <1>1 DEF IsValue
<1> HIDE DEF k
<1>5. r[0] = 0 /\ \A i \in 1..k : r[i] = digits[k + 1 - i].digit + Base * r[i - 1]
  <2>1. 0 \in 0..k /\ \A i \in 1..k : i \in 0..k /\ i # 0
    BY <1>3
  <2> QED
    BY <1>4, <2>1
<1>6. /\ r[0] = 0 /\ ReadVaruint(digits) = r[Len(digits)]
      /\ \A i \in 1..Len(digits) : r[i] = digits[Len(digits) + 1 - i].digit + Base * r[i - 1]
  BY <1>2, <1>5 DEF k
<1> QED
  BY <1>6

LEMMA ValueOfOne ==
  ASSUME NEW d, d.digit \in Nat
  PROVE  ReadVaruint(<<d>>) = d.digit
<1> DEFINE s == <<d>>
<1>1. Len(s) = 1 /\ s[1] = d /\ Len(s) \in Nat
  OBVIOUS
<1> HIDE DEF s
<1>2. PICK g : /\ g[0] = 0
               /\ \A i \in 1..Len(s) : g[i] = s[Len(s) + 1 - i].digit + Base * g[i - 1]
               /\ ReadVaruint(s) = g[Len(s)]
  BY <1>1, ValueIs
<1>3. 1 \in 1..1 /\ 1 + 1 - 1 = 1 /\ 1 - 1 = 0 /\ Base * 0 = 0 /\ d.digit + 0 = d.digit
  BY FormatAssumption
<1>4. g[1] = s[1 + 1 - 1].digit + Base * g[1 - 1]
  BY <1>1, <1>2, <1>3
<1>5. g[1] = d.digit
  BY <1>1, <1>2, <1>3, <1>4
<1> QED
  BY <1>1, <1>2, <1>5 DEF s

(* A digit in front adds itself to Base times the rest. *)
LEMMA ValueOfMore ==
  ASSUME NEW d, NEW t, IsSeq(t)
  PROVE  ReadVaruint(<<d>> \o t) = d.digit + Base * ReadVaruint(t)
<1> DEFINE u == <<d>> \o t
           n == Len(t)
<1>1. n \in Nat /\ Len(u) = 1 + n /\ u[1] = d /\ \A i \in 1..n : u[i + 1] = t[i]
  <2>1. n \in Nat /\ IsSeq(<<d>>) /\ Len(<<d>>) = 1 /\ <<d>>[1] = d
    BY SeqFacts, OneSeq
  <2>2. /\ Len(<<d>> \o t) = 1 + n
        /\ \A i \in 1..(1 + n) : (<<d>> \o t)[i] = IF i <= 1 THEN <<d>>[i] ELSE t[i - 1]
    BY <2>1, JoinSeq
  <2>3. ASSUME NEW i \in 1..n
        PROVE  u[i + 1] = t[i]
    <3>1. i + 1 \in 1..(1 + n) /\ ~(i + 1 <= 1) /\ (i + 1) - 1 = i
      BY <2>1
    <3> QED
      BY <2>2, <3>1
  <2>4. 1 \in 1..(1 + n) /\ 1 <= 1
    BY <2>1
  <2> QED
    BY <2>1, <2>2, <2>3, <2>4
<1> HIDE DEF u
<1>2. Len(u) \in Nat /\ Len(u) = n + 1
  BY <1>1
<1>3. PICK f : /\ f[0] = 0
               /\ \A i \in 1..Len(u) : f[i] = u[Len(u) + 1 - i].digit + Base * f[i - 1]
               /\ ReadVaruint(u) = f[Len(u)]
  BY <1>2, ValueIs
<1>4. PICK g : /\ g[0] = 0
               /\ \A i \in 1..n : g[i] = t[n + 1 - i].digit + Base * g[i - 1]
               /\ ReadVaruint(t) = g[n]
  BY <1>1, ValueIs
<1> HIDE DEF n
<1> DEFINE S == {i \in 0..n : f[i] = g[i]}
<1>5. 0 \in S
  BY <1>1, <1>3, <1>4
<1>6. ASSUME NEW i \in 1..n, i - 1 \in S
      PROVE  i \in S
  <2>1. /\ i \in 1..(n + 1) /\ (n + 1) + 1 - i = (n + 1 - i) + 1
        /\ n + 1 - i \in 1..n /\ i \in 0..n
    BY <1>1
  <2>2. f[i] = u[(n + 1) + 1 - i].digit + Base * f[i - 1]
    BY <1>2, <1>3, <2>1
  <2>3. u[(n + 1) + 1 - i] = t[n + 1 - i]
    BY <1>1, <2>1
  <2> QED
    BY <1>4, <1>6, <2>1, <2>2, <2>3
<1>7. n \in S
  <2> HIDE DEF S
  <2>1. 0..n \subseteq S
    BY <1>1, <1>5, <1>6, UpTo
  <2> QED
    BY <1>1, <2>1
<1>8. n + 1 \in 1..(n + 1) /\ (n + 1) + 1 - (n + 1) = 1 /\ (n + 1) - 1 = n
  BY <1>1
<1>9. f[n + 1] = u[1].digit + Base * f[n]
  BY <1>2, <1>3, <1>8
<1> QED
  BY <1>1, <1>2, <1>3, <1>4, <1>7, <1>9 DEF u

IsSpelled(g, n) ==
  g = [k \in 0..n |->
         IF k < Base THEN <<[digit |-> k, more |-> FALSE]>>
         ELSE <<[digit |-> k % Base, more |-> TRUE]>> \o g[k \div Base]]

LEMMA DivideByBase ==
  ASSUME NEW k \in Nat, k >= Base
  PROVE  /\ k \div Base \in Nat /\ k % Base \in Nat /\ k \div Base < k
         /\ (k % Base) + Base * (k \div Base) = k
<1>1. Base \in Nat /\ Base > 1
  BY FormatAssumption
<1>2. k \div Base \in Nat /\ k % Base \in Nat
  BY <1>1
<1>3. (k % Base) + Base * (k \div Base) = k
  BY <1>1
<1>4. k \div Base < k
  BY <1>1
<1> QED
  BY <1>2, <1>3, <1>4

(* The recursive function WriteVaruint is defined by exists, for every number. *)
LEMMA SpelledUpTo ==
  ASSUME NEW k \in Nat
  PROVE  \E g : IsSpelled(g, k)
<1> DEFINE S == {n \in Nat : \E g : IsSpelled(g, n)}
           Digits(g, i) == IF i < Base THEN <<[digit |-> i, more |-> FALSE]>>
                           ELSE <<[digit |-> i % Base, more |-> TRUE]>> \o g[i \div Base]
<1>1. 0 \in S
  <2> DEFINE g == [i \in 0..0 |-> <<[digit |-> 0, more |-> FALSE]>>]
  <2>1. ASSUME NEW i \in 0..0
        PROVE  g[i] = Digits(g, i)
    <3>1. i = 0 /\ 0 < Base
      BY FormatAssumption
    <3> QED
      BY <3>1
  <2>2. g = [i \in 0..0 |-> Digits(g, i)]
    BY <2>1
  <2>3. IsSpelled(g, 0)
    BY <2>2 DEF IsSpelled
  <2> QED
    BY <2>3
<1>2. ASSUME NEW n \in 1..k, n - 1 \in S
      PROVE  n \in S
  <2>1. PICK g : IsSpelled(g, n - 1)
    BY <1>2
  <2> DEFINE h == [i \in 0..n |-> IF i = n THEN Digits(g, n) ELSE g[i]]
  <2>2. \A i \in 0..n : h[i] = Digits(h, i)
    <3> SUFFICES ASSUME NEW i \in 0..n
                 PROVE  h[i] = Digits(h, i)
      OBVIOUS
    <3>1. i >= Base => i \div Base \in 0..(i - 1)
      BY DivideByBase
    <3>2. i >= Base => h[i \div Base] = g[i \div Base]
      <4> DEFINE q == i \div Base
      <4>1. i >= Base => q \in 0..(i - 1)
        BY <3>1
      <4> HIDE DEF q
      <4>2. i >= Base => q \in 0..n /\ q # n
        BY <4>1
      <4>3. i >= Base => h[q] = g[q]
        BY <4>2
      <4> QED
        BY <4>3 DEF q
    <3>3. Digits(h, i) = Digits(g, i)
      <4>1. i < Base \/ i >= Base
        BY FormatAssumption
      <4> HIDE DEF h
      <4> QED
        BY <3>2, <4>1
    <3>4. CASE i = n
      BY <3>3, <3>4
    <3>5. CASE i # n
      <4>1. i \in 0..(n - 1)
        BY <3>5
      <4>2. g[i] = Digits(g, i)
        BY <2>1, <4>1 DEF IsSpelled
      <4> HIDE DEF Digits
      <4> QED
        BY <3>3, <3>5, <4>2
    <3> QED
      BY <3>4, <3>5
  <2>3. h = [i \in 0..n |-> Digits(h, i)]
    <3> HIDE DEF Digits
    <3> QED
      BY <2>2
  <2>4. IsSpelled(h, n)
    BY <2>3 DEF IsSpelled
  <2> QED
    BY <2>4
<1>3. 0..k \subseteq S
  <2> HIDE DEF S
  <2> QED
    BY <1>1, <1>2, UpTo
<1> QED
  BY <1>3

(* A number is read as it was written. *)
LEMMA VaruintReadsBack ==
  ASSUME NEW n \in Nat
  PROVE  IsSeq(WriteVaruint(n)) /\ ReadVaruint(WriteVaruint(n)) = n
<1> DEFINE g == CHOOSE g : IsSpelled(g, n)
<1>1. IsSpelled(g, n)
  BY SpelledUpTo
<1>2. WriteVaruint(n) = g[n]
  BY DEF WriteVaruint, IsSpelled
<1> HIDE DEF g
<1> DEFINE S == {k \in 0..n : \A j \in 0..k : IsSeq(g[j]) /\ ReadVaruint(g[j]) = j}
<1>3. ASSUME NEW k \in 0..n, \A j \in 0..(k - 1) : IsSeq(g[j]) /\ ReadVaruint(g[j]) = j
      PROVE  IsSeq(g[k]) /\ ReadVaruint(g[k]) = k
  <2>1. g[k] = IF k < Base THEN <<[digit |-> k, more |-> FALSE]>>
               ELSE <<[digit |-> k % Base, more |-> TRUE]>> \o g[k \div Base]
    BY <1>1 DEF IsSpelled
  <2>2. CASE k < Base
    <3> DEFINE d == [digit |-> k, more |-> FALSE]
    <3>1. d.digit = k /\ d.digit \in Nat
      OBVIOUS
    <3> HIDE DEF d
    <3>2. ReadVaruint(<<d>>) = k /\ IsSeq(<<d>>)
      BY <3>1, ValueOfOne, OneSeq
    <3> QED
      BY <2>1, <2>2, <3>2 DEF d
  <2>3. CASE ~(k < Base)
    <3> DEFINE d == [digit |-> k % Base, more |-> TRUE]
               q == k \div Base
               r == k % Base
    <3>1. k >= Base
      BY <2>3, FormatAssumption
    <3>2. q \in Nat /\ q < k /\ r + Base * q = k
      BY <3>1, DivideByBase
    <3>3. d.digit = r
      OBVIOUS
    <3> HIDE DEF d, q, r
    <3>4. q \in 0..(k - 1)
      BY <3>2
    <3>5. IsSeq(g[q]) /\ ReadVaruint(g[q]) = q
      BY <1>3, <3>4
    <3>6. ReadVaruint(<<d>> \o g[q]) = r + Base * q
      BY <3>3, <3>5, ValueOfMore
    <3>7. IsSeq(<<d>> \o g[q])
      BY <3>5, OneSeq, JoinSeq
    <3>8. g[k] = <<d>> \o g[q]
      BY <2>1, <2>3 DEF d, q
    <3> QED
      BY <3>2, <3>6, <3>7, <3>8
  <2> QED
    BY <2>2, <2>3
<1>4. 0 \in S
  <2>1. IsSeq(g[0]) /\ ReadVaruint(g[0]) = 0
    BY <1>3
  <2> QED
    BY <2>1
<1>5. ASSUME NEW k \in 1..n, k - 1 \in S
      PROVE  k \in S
  <2>1. \A j \in 0..(k - 1) : IsSeq(g[j]) /\ ReadVaruint(g[j]) = j
    BY <1>5
  <2>2. IsSeq(g[k]) /\ ReadVaruint(g[k]) = k
    BY <1>3, <2>1
  <2>3. \A j \in 0..k : j = k \/ j \in 0..(k - 1)
    OBVIOUS
  <2> QED
    BY <2>1, <2>2, <2>3
<1>6. n \in S
  <2> HIDE DEF S
  <2>1. 0..n \subseteq S
    BY <1>4, <1>5, UpTo
  <2> QED
    BY <2>1
<1> QED
  BY <1>2, <1>6

(* So is an item. *)
LEMMA ItemReadsBack ==
  ASSUME NEW x, IsItem(x)
  PROVE  ReadItem(Token(x)) = x /\ Token(x).tag = "item"
<1>1. x = <<x[1], x[2]>> /\ x[2] \in Nat
  BY DEF IsItem
<1>2. Bitcoin(0)[1] = 1
  BY DEF Bitcoin
<1>3. ReadVaruint(WriteVaruint(x[2])) = x[2]
  BY <1>1, VaruintReadsBack
<1> QED
  BY <1>1, <1>2, <1>3 DEF ReadItem, Token

-------------------------------------------------------------------------------
(* Writing.                                                                *)

IsJoined(g, items, below, k) ==
  g = [i \in 0..k |-> IF i = 0 THEN <<>> ELSE
          g[i - 1] \o (IF i < Len(items) THEN <<Fork, Token(items[i])>> ELSE <<Token(items[i])>>) \o below[i]]

(* The recursive function Joined is defined by exists, for every length. *)
LEMMA JoinedUpTo ==
  ASSUME NEW items, NEW below, NEW k \in Nat
  PROVE  \E g : IsJoined(g, items, below, k)
<1> DEFINE S == {n \in Nat : \E g : IsJoined(g, items, below, n)}
<1>1. 0 \in S
  <2> DEFINE g == [i \in 0..0 |-> <<>>]
  <2>1. IsJoined(g, items, below, 0)
    BY DEF IsJoined
  <2> QED
    BY <2>1
<1>2. ASSUME NEW n \in 1..k, n - 1 \in S
      PROVE  n \in S
  <2>1. PICK g : IsJoined(g, items, below, n - 1)
    BY <1>2
  <2> DEFINE h == [i \in 0..n |-> IF i = n THEN
                      g[n - 1] \o (IF n < Len(items) THEN <<Fork, Token(items[n])>> ELSE <<Token(items[n])>>) \o below[n] ELSE g[i]]
  <2>2. \A i \in 0..n : h[i] = IF i = 0 THEN <<>> ELSE
                  h[i - 1] \o (IF i < Len(items) THEN <<Fork, Token(items[i])>> ELSE <<Token(items[i])>>) \o below[i]
    <3> SUFFICES ASSUME NEW i \in 0..n
                 PROVE  h[i] = IF i = 0 THEN <<>> ELSE
                                 h[i - 1] \o (IF i < Len(items) THEN <<Fork, Token(items[i])>> ELSE <<Token(items[i])>>) \o below[i]
      OBVIOUS
    <3>1. CASE i = n
      <4>1. n - 1 \in 0..n /\ n - 1 # n /\ n # 0
        OBVIOUS
      <4>2. h[n - 1] = g[n - 1]
        BY <4>1
      <4> QED
        BY <3>1, <4>1, <4>2
    <3>2. CASE i # n
      <4>1. i \in 0..(n - 1)
        BY <3>2
      <4>2. g[i] = IF i = 0 THEN <<>> ELSE
                      g[i - 1] \o (IF i < Len(items) THEN <<Fork, Token(items[i])>> ELSE <<Token(items[i])>>) \o below[i]
        BY <2>1, <4>1 DEF IsJoined
      <4>3. h[i] = g[i] /\ (i # 0 => h[i - 1] = g[i - 1])
        BY <3>2, <4>1
      <4> QED
        BY <4>2, <4>3
    <3> QED
      BY <3>1, <3>2
  <2>3. h = [i \in 0..n |-> IF i = 0 THEN <<>> ELSE
                h[i - 1] \o (IF i < Len(items) THEN <<Fork, Token(items[i])>> ELSE <<Token(items[i])>>) \o below[i]]
    BY <2>2
  <2>4. IsJoined(h, items, below, n)
    BY <2>3 DEF IsJoined
  <2> QED
    BY <2>4
<1>3. 0..k \subseteq S
  <2> HIDE DEF S
  <2> QED
    BY <1>1, <1>2, UpTo
<1> QED
  BY <1>3

(* An item as it is written, with or without the mark that more follow. *)
Written(items, i) == IF i < Len(items) THEN <<Fork, Token(items[i])>> ELSE <<Token(items[i])>>

LEMMA JoinedIs ==
  ASSUME NEW items, NEW below, Len(items) \in Nat
  PROVE  \E g : /\ g[0] = <<>>
                /\ \A i \in 1..Len(items) : g[i] = (g[i - 1] \o Written(items, i)) \o below[i]
                /\ Joined(items, below) = g[Len(items)]
<1> DEFINE k == Len(items)
           r == CHOOSE g : IsJoined(g, items, below, k)
<1>1. IsJoined(r, items, below, k)
  BY JoinedUpTo
<1>2. Joined(items, below) = r[k]
  BY DEF Joined, IsJoined
<1> HIDE DEF r
<1>3. k \in Nat
  OBVIOUS
<1>4. r = [i \in 0..k |-> IF i = 0 THEN <<>> ELSE (r[i - 1] \o Written(items, i)) \o below[i]]
  BY <1>1 DEF IsJoined, Written
<1> HIDE DEF k
<1>5. r[0] = <<>> /\ \A i \in 1..k : r[i] = (r[i - 1] \o Written(items, i)) \o below[i]
  <2>1. 0 \in 0..k /\ \A i \in 1..k : i \in 0..k /\ i # 0
    BY <1>3
  <2> QED
    BY <1>4, <2>1
<1>6. /\ r[0] = <<>> /\ Joined(items, below) = r[Len(items)]
      /\ \A i \in 1..Len(items) : r[i] = (r[i - 1] \o Written(items, i)) \o below[i]
  BY <1>2, <1>5 DEF k
<1> QED
  BY <1>6

(* A tree of nodes a file can hold: every node is reached from the root by *)
(* operations of the nodes above it, fewer of them than a reader follows.  *)
IsNode(ts, root, m) ==
  /\ IsSeq(m) /\ Len(root) <= Len(m) /\ Len(m) - Len(root) < MaxRecursion
  /\ IsItems(ts[m])
  /\ \A i \in DOMAIN ts[m] :
       /\ Readable(Token(ts[m][i]))
       /\ IsOp(ts[m][i]) => ApplyOp(ts[m][i][2], m) \in DOMAIN ts
HasParent(ts, m) ==
  \E p \in DOMAIN ts : \E i \in DOMAIN ts[p] : IsOp(ts[p][i]) /\ m = ApplyOp(ts[p][i][2], p)
IsTimestamp(ts, root) ==
  /\ IsSeq(root) /\ root \in DOMAIN ts
  /\ \A m \in DOMAIN ts : IsNode(ts, root, m) /\ (m = root \/ HasParent(ts, m))
IsFull(ts) == \A m \in DOMAIN ts : Len(ts[m]) > 0

(* The files of the nodes of a tree. *)
File(g, ts, m) == Joined(Sorted(ts[m]), Below(g, Sorted(ts[m]), m))
IsWritten(g, ts) == g = [m \in DOMAIN ts |-> File(g, ts, m)]

LEMMA ApplyOpFacts ==
  ASSUME NEW m, IsSeq(m), NEW o
  PROVE  /\ IsSeq(ApplyOp(o, m)) /\ Len(ApplyOp(o, m)) = Len(m) + 1 /\ Len(m) \in Nat
         /\ ApplyOp(o, m)[Len(m) + 1] = o /\ \A i \in 1..Len(m) : ApplyOp(o, m)[i] = m[i]
BY SeqFacts, AppendSeq DEF ApplyOp

(* The sorted items of a node lead to the same nodes. *)
LEMMA SortedNode ==
  ASSUME NEW ts, NEW root, IsTimestamp(ts, root), NEW m \in DOMAIN ts
  PROVE  /\ IsItems(Sorted(ts[m])) /\ Range(Sorted(ts[m])) = Range(ts[m])
         /\ Ascending(Sorted(ts[m]), Len(Sorted(ts[m])))
         /\ Len(Sorted(ts[m])) > 0 <=> Len(ts[m]) > 0
         /\ \A i \in DOMAIN Sorted(ts[m]) :
              /\ Readable(Token(Sorted(ts[m])[i]))
              /\ IsOp(Sorted(ts[m])[i]) => ApplyOp(Sorted(ts[m])[i][2], m) \in DOMAIN ts
<1>1. IsNode(ts, root, m)
  BY DEF IsTimestamp
<1>2. IsItems(ts[m])
  BY <1>1 DEF IsNode
<1>3. /\ IsItems(Sorted(ts[m])) /\ Range(Sorted(ts[m])) = Range(ts[m])
      /\ Ascending(Sorted(ts[m]), Len(Sorted(ts[m])))
      /\ Len(Sorted(ts[m])) > 0 <=> Len(ts[m]) > 0
  BY <1>2, SortedIs
<1>4. ASSUME NEW i \in DOMAIN Sorted(ts[m])
      PROVE  /\ Readable(Token(Sorted(ts[m])[i]))
             /\ IsOp(Sorted(ts[m])[i]) => ApplyOp(Sorted(ts[m])[i][2], m) \in DOMAIN ts
  <2>1. Sorted(ts[m])[i] \in Range(ts[m])
    BY <1>3 DEF Range
  <2>2. PICK j \in DOMAIN ts[m] : Sorted(ts[m])[i] = ts[m][j]
    BY <2>1 DEF Range
  <2> QED
    BY <1>1, <2>2 DEF IsNode
<1> QED
  BY <1>3, <1>4

(* Where two functions agree on the nodes below m, so do the files of m. *)
LEMMA FileOf ==
  ASSUME NEW ts, NEW root, IsTimestamp(ts, root), NEW m \in DOMAIN ts, NEW g, NEW h,
         \A x \in DOMAIN ts : Len(x) = Len(m) + 1 => g[x] = h[x]
  PROVE  File(g, ts, m) = File(h, ts, m)
<1> DEFINE s == Sorted(ts[m])
<1>1. \A i \in DOMAIN s : IsOp(s[i]) => ApplyOp(s[i][2], m) \in DOMAIN ts
  BY SortedNode
<1>2. IsSeq(m)
  BY DEF IsTimestamp, IsNode
<1> HIDE DEF s
<1>3. \A i \in DOMAIN s : IsOp(s[i]) => g[ApplyOp(s[i][2], m)] = h[ApplyOp(s[i][2], m)]
  BY <1>1, <1>2, ApplyOpFacts
<1>4. Below(g, s, m) = Below(h, s, m)
  BY <1>3 DEF Below
<1> QED
  BY <1>4 DEF s, File

(* Every tree can be written: from the deepest nodes up. *)
LEMMA WrittenExists ==
  ASSUME NEW ts, NEW root, IsTimestamp(ts, root)
  PROVE  \E g : IsWritten(g, ts)
<1> DEFINE top == Len(root) + MaxRecursion
           D(d) == {m \in DOMAIN ts : Len(m) + d >= top}
           S == {d \in Nat : \E g : g = [m \in D(d) |-> File(g, ts, m)]}
<1>1. Len(root) \in Nat /\ MaxRecursion \in Nat /\ top \in Nat
  BY SeqFacts, FormatAssumption DEF IsTimestamp
<1>2. \A m \in DOMAIN ts : IsSeq(m) /\ Len(m) \in Nat /\ Len(root) <= Len(m) /\ Len(m) < top
  <2> TAKE m \in DOMAIN ts
  <2>1. IsSeq(m) /\ Len(m) \in Nat /\ Len(root) <= Len(m) /\ Len(m) - Len(root) < MaxRecursion
    BY SeqFacts DEF IsTimestamp, IsNode
  <2> QED
    BY <1>1, <2>1
<1> HIDE DEF top
<1>3. 0 \in S
  <2> DEFINE g == [m \in {} |-> 0]
  <2>1. D(0) = {}
    BY <1>1, <1>2
  <2>2. g = [m \in D(0) |-> File(g, ts, m)]
    BY <2>1
  <2> QED
    BY <2>2
<1>4. ASSUME NEW d \in 1..MaxRecursion, d - 1 \in S
      PROVE  d \in S
  <2>1. PICK g : g = [m \in D(d - 1) |-> File(g, ts, m)]
    BY <1>4
  <2> DEFINE h == [m \in D(d) |-> IF m \in D(d - 1) THEN g[m] ELSE File(g, ts, m)]
  <2>2. D(d - 1) \subseteq D(d)
    BY <1>1, <1>2
  <2>3. \A m \in D(d) : h[m] = File(g, ts, m)
    <3> HIDE DEF D
    <3> QED
      BY <2>1
  <2>4. \A m \in D(d) : h[m] = File(h, ts, m)
    <3> TAKE m \in D(d)
    <3>1. \A x \in DOMAIN ts : Len(x) = Len(m) + 1 => x \in D(d - 1)
      BY <1>1, <1>2
    <3>2. \A x \in DOMAIN ts : Len(x) = Len(m) + 1 => g[x] = h[x]
      <4> HIDE DEF D
      <4> QED
        BY <2>2, <3>1
    <3> HIDE DEF h
    <3>3. File(g, ts, m) = File(h, ts, m)
      BY <3>2, FileOf
    <3> QED
      BY <2>3, <3>3
  <2>5. h = [m \in D(d) |-> File(h, ts, m)]
    <3> HIDE DEF D
    <3> QED
      BY <2>4
  <2> HIDE DEF h, D
  <2> QED
    BY <2>5
<1>5. MaxRecursion \in S
  <2> HIDE DEF S
  <2>1. 0..MaxRecursion \subseteq S
    BY <1>1, <1>3, <1>4, UpTo
  <2> QED
    BY <1>1, <2>1
<1>6. D(MaxRecursion) = DOMAIN ts
  <2>1. \A m \in DOMAIN ts : Len(m) + MaxRecursion >= top
    BY <1>1, <1>2 DEF top
  <2> QED
    BY <2>1
<1> QED
  BY <1>5, <1>6 DEF IsWritten

(* A timestamp is written as the file of its root. *)
LEMMA WriteIs ==
  ASSUME NEW ts, NEW root, IsTimestamp(ts, root)
  PROVE  \E g : IsWritten(g, ts) /\ WriteTimestamp(ts, root) = g[root]
<1> DEFINE r == CHOOSE g : IsWritten(g, ts)
<1>1. IsWritten(r, ts)
  BY WrittenExists
<1>2. WriteTimestamp(ts, root) = r[root]
  BY DEF WriteTimestamp, IsWritten, File
<1> QED
  BY <1>1, <1>2

(* Trees of the same nodes with the same items are the same file. *)
LEMMA SameFile ==
  ASSUME NEW ts, NEW us, NEW root, IsTimestamp(ts, root), IsTimestamp(us, root),
         DOMAIN ts = DOMAIN us, \A m \in DOMAIN ts : Range(ts[m]) = Range(us[m])
  PROVE  WriteTimestamp(ts, root) = WriteTimestamp(us, root)
<1>1. PICK g : IsWritten(g, ts) /\ WriteTimestamp(ts, root) = g[root]
  BY WriteIs
<1>2. PICK h : IsWritten(h, us) /\ WriteTimestamp(us, root) = h[root]
  BY WriteIs
<1> DEFINE top == Len(root) + MaxRecursion
           S == {d \in Nat : \A m \in DOMAIN ts : Len(m) + d >= top => g[m] = h[m]}
<1>3. Len(root) \in Nat /\ MaxRecursion \in Nat /\ top \in Nat
  BY SeqFacts, FormatAssumption DEF IsTimestamp
<1>4. \A m \in DOMAIN ts : IsSeq(m) /\ Len(m) \in Nat /\ Len(root) <= Len(m) /\ Len(m) < top
  <2> TAKE m \in DOMAIN ts
  <2>1. IsSeq(m) /\ Len(m) \in Nat /\ Len(root) <= Len(m) /\ Len(m) - Len(root) < MaxRecursion
    BY SeqFacts DEF IsTimestamp, IsNode
  <2> QED
    BY <1>3, <2>1
<1> HIDE DEF top
<1>5. 0 \in S
  BY <1>3, <1>4
<1>6. ASSUME NEW d \in 1..MaxRecursion, d - 1 \in S
      PROVE  d \in S
  <2> SUFFICES ASSUME NEW m \in DOMAIN ts, Len(m) + d >= top
               PROVE  g[m] = h[m]
    BY <1>3
  <2>1. \A x \in DOMAIN ts : Len(x) = Len(m) + 1 => Len(x) + (d - 1) >= top
    BY <1>3, <1>4
  <2>2. \A x \in DOMAIN ts : Len(x) = Len(m) + 1 => g[x] = h[x]
    BY <1>6, <2>1
  <2>3. File(g, ts, m) = File(h, ts, m)
    BY <2>2, FileOf
  <2>4. File(h, ts, m) = File(h, us, m)
    BY SortedSame DEF File
  <2> QED
    BY <1>1, <1>2, <2>3, <2>4 DEF IsWritten
<1>7. MaxRecursion \in S
  <2> HIDE DEF S
  <2>1. 0..MaxRecursion \subseteq S
    BY <1>3, <1>5, <1>6, UpTo
  <2> QED
    BY <1>3, <2>1
<1>8. root \in DOMAIN ts /\ Len(root) + MaxRecursion >= top
  BY <1>3 DEF IsTimestamp, top
<1>9. g[root] = h[root]
  BY <1>7, <1>8
<1> QED
  BY <1>1, <1>2, <1>9

-------------------------------------------------------------------------------
(* Below a node.                                                           *)

Under(m, x) == Len(m) <= Len(x) /\ \A i \in 1..Len(m) : x[i] = m[i]
Sub(ts, m) == {x \in DOMAIN ts : Under(m, x)}

(* What is below a node's child is below the node, and below no other      *)
(* child.                                                                  *)
LEMMA UnderChild ==
  ASSUME NEW m, IsSeq(m), NEW x, IsSeq(x), NEW o
  PROVE  /\ Under(ApplyOp(o, m), x) <=> Under(m, x) /\ x # m /\ x[Len(m) + 1] = o
         /\ Under(m, x) /\ Len(x) = Len(m) => x = m
         /\ Under(m, x) /\ x # m => Len(x) > Len(m)
         /\ Under(m, m)
<1> DEFINE k == Len(m)
           l == Len(x)
           c == ApplyOp(o, m)
<1>1. k \in Nat /\ l \in Nat /\ Len(c) = k + 1 /\ c[k + 1] = o /\ \A i \in 1..k : c[i] = m[i]
  BY SeqFacts, ApplyOpFacts
<1>2. Under(m, x) /\ l = k => x = m
  BY SameSeq DEF Under
<1> HIDE DEF c
<1>3. x = m => l = k
  OBVIOUS
<1>4. Under(m, x) <=> k <= l /\ \A i \in 1..k : x[i] = m[i]
  BY DEF Under
<1>5. Under(c, x) <=> k + 1 <= l /\ \A i \in 1..(k + 1) : x[i] = c[i]
  BY <1>1 DEF Under
<1>6. Under(m, m)
  BY <1>1 DEF Under
<1> HIDE DEF k, l
<1>7. Under(c, x) => Under(m, x) /\ x # m /\ x[k + 1] = o
  <2> SUFFICES ASSUME Under(c, x)
               PROVE  Under(m, x) /\ x # m /\ x[k + 1] = o
    OBVIOUS
  <2>1. k <= l /\ l # k /\ k + 1 \in 1..(k + 1) /\ \A i \in 1..k : i \in 1..(k + 1)
    BY <1>1, <1>5
  <2> QED
    BY <1>1, <1>3, <1>4, <1>5, <2>1
<1>8. Under(m, x) /\ x # m => k < l
  BY <1>1, <1>2, <1>4
<1>9. Under(m, x) /\ x # m /\ x[k + 1] = o => Under(c, x)
  <2> SUFFICES ASSUME Under(m, x), x # m, x[k + 1] = o
               PROVE  Under(c, x)
    OBVIOUS
  <2>1. k + 1 <= l /\ \A i \in 1..(k + 1) : i = k + 1 \/ i \in 1..k
    BY <1>1, <1>8
  <2> QED
    BY <1>1, <1>4, <1>5, <2>1
<1>10. Under(m, x) /\ x # m => l > k
  BY <1>1, <1>8
<1> QED
  BY <1>2, <1>6, <1>7, <1>9, <1>10 DEF k, l, c

(* The way to a node goes through operations of the nodes above it. *)
LEMMA WayDown ==
  ASSUME NEW ts, NEW root, IsTimestamp(ts, root), NEW m, IsSeq(m), Len(root) <= Len(m)
  PROVE  \A x \in DOMAIN ts : Under(m, x) /\ x # m =>
           /\ m \in DOMAIN ts
           /\ \E i \in DOMAIN ts[m] : IsOp(ts[m][i]) /\ x[Len(m) + 1] = ts[m][i][2]
<1> DEFINE Way(x) == /\ m \in DOMAIN ts
                     /\ \E i \in DOMAIN ts[m] : IsOp(ts[m][i]) /\ x[Len(m) + 1] = ts[m][i][2]
           S == {d \in Nat : \A x \in DOMAIN ts : Under(m, x) /\ x # m /\ Len(x) <= Len(m) + d => Way(x)}
<1>1. /\ Len(m) \in Nat /\ Len(root) \in Nat
      /\ \A x \in DOMAIN ts : IsSeq(x) /\ Len(x) \in Nat /\ Len(root) <= Len(x)
  BY SeqFacts DEF IsTimestamp, IsNode
<1>2. 0 \in S
  <2>1. \A x \in DOMAIN ts : Under(m, x) /\ x # m => Len(x) > Len(m)
    BY <1>1, UnderChild
  <2>2. \A x \in DOMAIN ts : ~(Under(m, x) /\ x # m /\ Len(x) <= Len(m) + 0)
    BY <1>1, <2>1
  <2> QED
    BY <2>2
<1>3. ASSUME NEW k \in Nat, NEW d \in 1..k, d - 1 \in S
      PROVE  d \in S
  <2> SUFFICES ASSUME NEW x \in DOMAIN ts, Under(m, x), x # m, Len(x) <= Len(m) + d
               PROVE  Way(x)
    OBVIOUS
  <2>1. IsSeq(x) /\ Len(x) \in Nat /\ Len(x) > Len(m) /\ x # root
    <3>1. IsSeq(x) /\ Len(x) \in Nat
      BY <1>1
    <3>2. Len(x) > Len(m)
      BY <3>1, UnderChild
    <3> QED
      BY <1>1, <3>1, <3>2
  <2>2. HasParent(ts, x)
    BY <2>1 DEF IsTimestamp
  <2>3. PICK p \in DOMAIN ts : \E i \in DOMAIN ts[p] : IsOp(ts[p][i]) /\ x = ApplyOp(ts[p][i][2], p)
    BY <2>2 DEF HasParent
  <2>4. PICK i \in DOMAIN ts[p] : IsOp(ts[p][i]) /\ x = ApplyOp(ts[p][i][2], p)
    BY <2>3
  <2> DEFINE o == ts[p][i][2]
  <2>5. IsSeq(p) /\ Len(p) \in Nat
    BY <1>1
  <2>6. /\ Len(x) = Len(p) + 1 /\ x[Len(p) + 1] = o
        /\ \A j \in 1..Len(p) : x[j] = p[j]
    BY <2>4, <2>5, ApplyOpFacts
  <2>7. Len(m) <= Len(p) /\ Len(p) <= Len(m) + (d - 1)
    BY <1>1, <2>1, <2>5, <2>6
  <2>8. Under(m, p)
    <3>1. \A j \in 1..Len(m) : j \in 1..Len(p) /\ x[j] = m[j]
      BY <1>1, <2>5, <2>7 DEF Under
    <3> QED
      BY <2>6, <2>7, <3>1 DEF Under
  <2>9. CASE p = m
    BY <2>4, <2>6, <2>9
  <2>10. CASE p # m
    <3>1. Len(p) > Len(m)
      BY <2>5, <2>8, <2>10, UnderChild
    <3>2. Way(p)
      BY <1>3, <2>7, <2>8, <2>10
    <3>3. Len(m) + 1 \in 1..Len(p)
      BY <1>1, <2>5, <3>1
    <3>4. x[Len(m) + 1] = p[Len(m) + 1]
      BY <2>6, <3>3
    <3> QED
      BY <3>2, <3>4
  <2> QED
    BY <2>9, <2>10
<1>4. ASSUME NEW x \in DOMAIN ts, Under(m, x), x # m
      PROVE  Way(x)
  <2> DEFINE k == Len(x)
  <2>1. k \in Nat /\ k <= Len(m) + k
    BY <1>1
  <2>2. k \in S
    <3> HIDE DEF S, k
    <3>1. 0..k \subseteq S
      BY <1>2, <1>3, <2>1, UpTo
    <3> QED
      BY <2>1, <3>1
  <2> QED
    BY <1>4, <2>1, <2>2
<1> QED
  BY <1>4

(* The nodes below the first i operations of a node, in sorted order. *)
Passed(ts, m, i) ==
  {x \in DOMAIN ts : \E j \in 1..i :
     IsOp(Sorted(ts[m])[j]) /\ Under(ApplyOp(Sorted(ts[m])[j][2], m), x)}

(* Below a node: itself, and what its operations lead to. *)
LEMMA SubIsDone ==
  ASSUME NEW ts, NEW root, IsTimestamp(ts, root), NEW m \in DOMAIN ts
  PROVE  Sub(ts, m) = {m} \cup Passed(ts, m, Len(Sorted(ts[m]))) /\ m \notin Passed(ts, m, Len(Sorted(ts[m])))
<1> DEFINE s == Sorted(ts[m])
           n == Len(s)
<1>1. IsSeq(m) /\ Len(root) <= Len(m) /\ \A x \in DOMAIN ts : IsSeq(x)
  BY DEF IsTimestamp, IsNode
<1>2. Range(s) = Range(ts[m]) /\ DOMAIN s = 1..n
  BY SortedNode, SeqFacts DEF IsItems
<1> HIDE DEF s
<1>3. ASSUME NEW x \in DOMAIN ts, Under(m, x), x # m
      PROVE  x \in Passed(ts, m, n)
  <2>1. PICK i \in DOMAIN ts[m] : IsOp(ts[m][i]) /\ x[Len(m) + 1] = ts[m][i][2]
    BY <1>1, <1>3, WayDown
  <2>2. ts[m][i] \in Range(s)
    BY <1>2 DEF Range
  <2>3. PICK j \in 1..n : s[j] = ts[m][i]
    BY <1>2, <2>2 DEF Range
  <2>4. Under(ApplyOp(s[j][2], m), x)
    BY <1>1, <1>3, <2>1, <2>3, UnderChild
  <2> QED
    BY <2>1, <2>3, <2>4 DEF Passed, s
<1>4. ASSUME NEW x \in Passed(ts, m, n)
      PROVE  x \in DOMAIN ts /\ Under(m, x) /\ x # m
  BY <1>1, UnderChild DEF Passed
<1>5. Under(m, m)
  BY <1>1, UnderChild
<1> QED
  BY <1>3, <1>4, <1>5 DEF Sub, s

(* What has been read of the items of m, and of the nodes below them, once *)
(* i of them have been read into the timestamp T.                          *)
Partly(ts, T, m, i) ==
  [x \in DOMAIN T \cup Passed(ts, m, i) |->
     IF x = m THEN [j \in 1..i |-> Sorted(ts[m])[j]]
     ELSE IF x \in Passed(ts, m, i) THEN Sorted(ts[x]) ELSE T[x]]
Filled(ts, T, m) ==
  [x \in DOMAIN T \cup Sub(ts, m) |-> IF x \in Sub(ts, m) THEN Sorted(ts[x]) ELSE T[x]]

(* Node m is still to be read into T, and nothing below it has been. *)
IsFree(ts, T, m) ==
  /\ T = [x \in DOMAIN T |-> T[x]]
  /\ m \in DOMAIN T /\ T[m] = <<>>
  /\ \A x \in DOMAIN T : Under(m, x) => x = m

(* Reading the file of node m fills it in, with all that is below it. *)
NodeReads(ts, root, g, m) ==
  /\ IsSeq(g[m])
  /\ \A T, S : IsSeq(S) /\ (\A x \in DOMAIN T : IsSeq(x)) /\ IsFree(ts, T, m) =>
       ReadTimestamp(Reading(T, Append(S, m), FALSE), g[m], root) = Reading(Filled(ts, T, m), S, FALSE)

(* The tokens of one item. *)
LEMMA ReadWritten ==
  ASSUME NEW s, IsItems(s), NEW i \in 1..Len(s), Readable(Token(s[i])),
         NEW T, NEW o, o # <<>>, NEW root
  PROVE  /\ IsSeq(Written(s, i))
         /\ i < Len(s) =>
              ReadTimestamp(Reading(T, o, FALSE), Written(s, i), root) = ReadOne(Reading(T, o, TRUE), s[i], root)
         /\ ~(i < Len(s)) =>
              ReadTimestamp(Reading(T, o, FALSE), Written(s, i), root) = ReadOne(Reading(T, o, FALSE), s[i], root)
<1> DEFINE t == Token(s[i])
           r == Reading(T, o, FALSE)
           f == Reading(T, o, TRUE)
<1>1. IsItem(s[i]) /\ Len(s) \in Nat
  BY SeqFacts DEF IsItems
<1>2. ReadItem(t) = s[i] /\ t.tag = "item" /\ Fork.tag = "fork"
  BY <1>1, ItemReadsBack DEF Fork
<1>3. o # <<>>
  OBVIOUS
<1>4. r.open = o /\ f.open = o /\ ~r.fork /\ f.fork /\ r.stamp = T
  BY DEF Reading
<1>5. ReadToken(r, t, root) = ReadOne(r, s[i], root) /\ ReadToken(f, t, root) = ReadOne(f, s[i], root)
  BY <1>2, <1>3, <1>4 DEF ReadToken
<1>6. ReadToken(r, Fork, root) = f
  BY <1>2, <1>3, <1>4 DEF ReadToken
<1> HIDE DEF t, r, f
<1>7. IsSeq(<<t>>) /\ IsSeq(<<Fork>>) /\ IsSeq(<<Fork, t>>) /\ <<Fork, t>> = <<Fork>> \o <<t>>
  BY OneSeq, TwoSeq, PairSeq
<1>8. CASE i < Len(s)
  <2>1. Written(s, i) = <<Fork, t>>
    BY <1>8 DEF Written, t
  <2>2. ReadTimestamp(r, <<Fork, t>>, root) = ReadTimestamp(ReadTimestamp(r, <<Fork>>, root), <<t>>, root)
    <3>1. IsSeq(<<t>>) /\ IsSeq(<<Fork>>)
      BY <1>7
    <3>2. ReadTimestamp(r, <<Fork>> \o <<t>>, root) = ReadTimestamp(ReadTimestamp(r, <<Fork>>, root), <<t>>, root)
      BY ONLY <3>1, ReadJoined
    <3> QED
      BY <1>7, <3>2
  <2>3. ReadTimestamp(r, <<Fork>>, root) = f
    BY <1>6, ReadSingle
  <2>4. ReadTimestamp(f, <<t>>, root) = ReadOne(f, s[i], root)
    BY <1>5, ReadSingle
  <2> QED
    BY <1>7, <1>8, <2>1, <2>2, <2>3, <2>4 DEF r, f
<1>9. CASE ~(i < Len(s))
  <2>1. Written(s, i) = <<t>>
    BY <1>9 DEF Written, t
  <2>2. ReadTimestamp(r, <<t>>, root) = ReadOne(r, s[i], root)
    BY <1>5, ReadSingle
  <2> QED
    BY <1>7, <1>9, <2>1, <2>2 DEF r
<1> QED
  BY <1>8, <1>9

(* With i - 1 items of m read into T, and the node of m on top of the      *)
(* others, the tokens of item i and of the file below it are read.         *)
ItemReads(ts, root, g, m, T, S, i) ==
  /\ IsSeq(Written(Sorted(ts[m]), i)) /\ IsSeq(Below(g, Sorted(ts[m]), m)[i])
  /\ ReadTimestamp(
       ReadTimestamp(Reading(Partly(ts, T, m, i - 1), Append(S, m), FALSE), Written(Sorted(ts[m]), i), root),
       Below(g, Sorted(ts[m]), m)[i], root)
     = Reading(Partly(ts, T, m, i), IF i < Len(Sorted(ts[m])) THEN Append(S, m) ELSE S, FALSE)

(* One more item, and for an operation the file of the node below it. *)
LEMMA ReadNext ==
  ASSUME NEW ts, NEW root, IsTimestamp(ts, root), NEW g, NEW m \in DOMAIN ts,
         \A x \in DOMAIN ts : Len(x) = Len(m) + 1 => NodeReads(ts, root, g, x),
         NEW T, NEW S, IsSeq(S), \A x \in DOMAIN T : IsSeq(x), IsFree(ts, T, m),
         NEW i \in 1..Len(Sorted(ts[m]))
  PROVE  ItemReads(ts, root, g, m, T, S, i)
<1> DEFINE s == Sorted(ts[m])
           n == Len(s)
           P == Partly(ts, T, m, i - 1)
           Q == Partly(ts, T, m, i)
           W == Written(s, i)
           B == Below(g, s, m)[i]
           open == Append(S, m)
           rest == IF i < n THEN open ELSE S
           start == Reading(P, open, FALSE)
           more == [P EXCEPT ![m] = Append(@, s[i])]
<1>1. /\ IsSeq(m) /\ Len(m) \in Nat /\ Len(root) \in Nat
      /\ \A x \in DOMAIN ts : IsSeq(x) /\ Len(x) \in Nat /\ Len(x) - Len(root) < MaxRecursion
  BY SeqFacts DEF IsTimestamp, IsNode
<1>2. /\ IsItems(s) /\ n \in Nat /\ DOMAIN s = 1..n /\ Ascending(s, n)
      /\ \A j \in 1..n : /\ IsItem(s[j]) /\ Readable(Token(s[j]))
                         /\ IsOp(s[j]) => ApplyOp(s[j][2], m) \in DOMAIN ts
  <2>1. IsItems(s) /\ Ascending(s, n)
        /\ \A j \in DOMAIN s : Readable(Token(s[j])) /\ (IsOp(s[j]) => ApplyOp(s[j][2], m) \in DOMAIN ts)
    BY SortedNode
  <2>2. n \in Nat /\ DOMAIN s = 1..n
    BY <2>1, SeqFacts DEF IsItems
  <2> QED
    BY <2>1, <2>2 DEF IsItems
<1>3. i \in 1..n /\ i \in Nat /\ i - 1 \in Nat /\ \A j \in 1..i : j \in 1..n /\ (j = i \/ j \in 1..(i - 1))
  BY <1>2
<1>4. m \in DOMAIN T /\ T[m] = <<>>
  BY DEF IsFree
<1>5. \A j \in Nat : m \notin Passed(ts, m, j)
  BY <1>1, UnderChild DEF Passed
<1>6. m \in DOMAIN P /\ P[m] = [j \in 1..(i - 1) |-> s[j]]
  BY <1>4 DEF Partly
<1> HIDE DEF s, n
<1>7. Append(P[m], s[i]) = [j \in 1..i |-> s[j]]
  <2> DEFINE a == [j \in 1..(i - 1) |-> s[j]]
             b == [j \in 1..i |-> s[j]]
             R == Range(s)
  <2>1. \A j \in 1..n : s[j] \in R
    BY <1>2 DEF Range
  <2>2. a \in [1..(i - 1) -> R] /\ b \in [1..i -> R]
    BY <1>3, <2>1
  <2>3. IsSeq(a) /\ IsSeq(b)
    <3> HIDE DEF a, b, R
    <3>1. i \in Int /\ i - 1 \in Int
      BY <1>3
    <3> QED
      BY <2>2, <3>1, FunctionSeq
  <2>4. Len(a) = i - 1 /\ Len(b) = i
    <3>1. DOMAIN a = 1..(i - 1) /\ DOMAIN b = 1..i
      OBVIOUS
    <3> HIDE DEF a, b
    <3>2. Len(a) \in Nat /\ 1..Len(a) = 1..(i - 1) /\ Len(b) \in Nat /\ 1..Len(b) = 1..i
      BY <2>3, <3>1, SeqFacts
    <3>3. Len(a) = i - 1
      BY <1>3, <3>2, SameLength
    <3>4. Len(b) = i
      BY <1>3, <3>2, SameLength
    <3> QED
      BY <3>3, <3>4
  <2>5. \A j \in 1..i : b[j] = s[j] /\ (j \in 1..(i - 1) => a[j] = s[j])
    OBVIOUS
  <2> HIDE DEF a, b
  <2> DEFINE c == Append(a, s[i])
  <2>6. /\ IsSeq(c) /\ Len(c) = i /\ c[i] = s[i]
        /\ \A j \in 1..(i - 1) : c[j] = a[j]
    <3>1. (i - 1) + 1 = i
      BY <1>3
    <3> QED
      BY <2>3, <2>4, <3>1, AppendSeq, SeqFacts
  <2>7. \A j \in 1..i : c[j] = b[j]
    BY <1>3, <2>5, <2>6
  <2> HIDE DEF c
  <2>8. c = b
    BY <2>3, <2>4, <2>6, <2>7, SameSeq
  <2> QED
    BY <1>6, <2>8 DEF a, b, c
<1>8. /\ IsSeq(W)
      /\ i < n => ReadTimestamp(start, W, root) = ReadOne(Reading(P, open, TRUE), s[i], root)
      /\ ~(i < n) => ReadTimestamp(start, W, root) = ReadOne(Reading(P, open, FALSE), s[i], root)
  <2>1. IsItems(s) /\ i \in 1..Len(s) /\ Readable(Token(s[i])) /\ IsSeq(S)
    BY <1>2, <1>3 DEF n
  <2>2. open # <<>>
    BY TopOfStack
  <2> HIDE DEF open
  <2> HIDE DEF P
  <2>3. /\ IsSeq(Written(s, i))
        /\ i < Len(s) =>
             ReadTimestamp(Reading(P, open, FALSE), Written(s, i), root) = ReadOne(Reading(P, open, TRUE), s[i], root)
        /\ ~(i < Len(s)) =>
             ReadTimestamp(Reading(P, open, FALSE), Written(s, i), root) = ReadOne(Reading(P, open, FALSE), s[i], root)
    BY ONLY <2>1, <2>2, ReadWritten
  <2> QED
    BY <2>3 DEF n
<1>9. open # <<>> /\ Last(open) = m /\ Front(open) = S /\ IsSeq(open)
  BY TopOfStack, AppendSeq
<1> HIDE DEF open
<1>10. B = IF IsOp(s[i]) THEN g[ApplyOp(s[i][2], m)] ELSE <<>>
  BY <1>2, <1>3 DEF Below
<1>11. ReadTimestamp(start, W, root)
         = IF ~IsOp(s[i]) THEN Reading(more, rest, FALSE)
           ELSE IF Len(ApplyOp(s[i][2], m)) - Len(root) >= MaxRecursion THEN Failed
           ELSE Reading(WithNode(more, ApplyOp(s[i][2], m)), Append(rest, ApplyOp(s[i][2], m)), FALSE)
  <2> HIDE DEF P, W, start
  <2>1. CASE i < n
    <3> DEFINE read == Reading(P, open, TRUE)
    <3>1. read.open = open /\ read.stamp = P /\ read.fork
      BY DEF Reading
    <3> HIDE DEF read
    <3>2. Last(read.open) = m /\ (IF read.fork THEN read.open ELSE Front(read.open)) = rest
      BY <1>9, <2>1, <3>1
    <3>3. ReadTimestamp(start, W, root) = ReadOne(read, s[i], root)
      BY <1>8, <2>1 DEF read
    <3> QED
      BY <3>1, <3>2, <3>3 DEF ReadOne
  <2>2. CASE ~(i < n)
    <3> DEFINE read == Reading(P, open, FALSE)
    <3>1. read.open = open /\ read.stamp = P /\ ~read.fork
      BY DEF Reading
    <3> HIDE DEF read
    <3>2. Last(read.open) = m /\ (IF read.fork THEN read.open ELSE Front(read.open)) = rest
      BY <1>9, <2>2, <3>1
    <3>3. ReadTimestamp(start, W, root) = ReadOne(read, s[i], root)
      BY <1>8, <2>2 DEF read
    <3> QED
      BY <3>1, <3>2, <3>3 DEF ReadOne
  <2> QED
    BY <2>1, <2>2
<1>12. more = [x \in DOMAIN P |-> IF x = m THEN [j \in 1..i |-> s[j]] ELSE P[x]]
  <2> HIDE DEF P
  <2> QED
    BY <1>6, <1>7
<1>13. \A x : x \in Passed(ts, m, i) <=>
         x \in Passed(ts, m, i - 1) \/ (x \in DOMAIN ts /\ IsOp(s[i]) /\ Under(ApplyOp(s[i][2], m), x))
  BY <1>3 DEF Passed, s
<1>14. CASE ~IsOp(s[i])
  <2>1. Passed(ts, m, i) = Passed(ts, m, i - 1)
    BY <1>13, <1>14
  <2>2. more = Q
    <3> HIDE DEF more
    <3>1. Q = [x \in DOMAIN P |-> IF x = m THEN [j \in 1..i |-> s[j]] ELSE P[x]]
      BY <2>1 DEF Partly, s
    <3> QED
      BY <1>12, <3>1
  <2>3. IsSeq(B) /\ B = <<>>
    BY <1>10, <1>14, NothingIsSeq
  <2> HIDE DEF W, B, start, P, Q, more, rest
  <2>4. ReadTimestamp(ReadTimestamp(start, W, root), B, root) = Reading(Q, rest, FALSE)
    BY <1>11, <1>14, <2>2, <2>3, ReadNothing
  <2> QED
    BY <1>8, <2>3, <2>4 DEF W, B, start, P, Q, rest, n, s, open, ItemReads
<1>15. CASE IsOp(s[i])
  <2> DEFINE c == ApplyOp(s[i][2], m)
             U == WithNode(more, c)
  <2>1. c \in DOMAIN ts /\ Len(c) = Len(m) + 1 /\ ~(Len(c) - Len(root) >= MaxRecursion) /\ IsSeq(c)
    <3>1. c \in DOMAIN ts /\ Len(c) = Len(m) + 1
      BY <1>1, <1>2, <1>3, <1>15, ApplyOpFacts
    <3>2. IsSeq(c) /\ Len(c) \in Nat /\ Len(c) - Len(root) < MaxRecursion
      BY <1>1, <3>1
    <3> HIDE DEF c
    <3>3. ~(Len(c) - Len(root) >= MaxRecursion)
      BY <1>1, <3>2, FormatAssumption
    <3> QED
      BY <3>1, <3>2, <3>3
  <2>2. NodeReads(ts, root, g, c)
    BY <2>1
  <2>3. \A x \in DOMAIN P : IsSeq(x) /\ ~Under(c, x)
    <3> SUFFICES ASSUME NEW x \in DOMAIN P
                 PROVE  IsSeq(x) /\ ~Under(c, x)
      OBVIOUS
    <3>1. x \in DOMAIN T \/ x \in Passed(ts, m, i - 1)
      BY DEF Partly
    <3>2. CASE x \in DOMAIN T
      <4>1. IsSeq(x) /\ (Under(m, x) => x = m)
        BY <3>2 DEF IsFree
      <4> QED
        BY <1>1, <4>1, UnderChild
    <3>3. CASE x \in Passed(ts, m, i - 1)
      <4>1. PICK j \in 1..(i - 1) : IsOp(s[j]) /\ Under(ApplyOp(s[j][2], m), x)
        BY <3>3 DEF Passed, s
      <4>2. IsSeq(x)
        BY <1>1, <3>3 DEF Passed
      <4>3. j < i /\ j \in 1..n
        BY <1>3
      <4>4. ItemBefore(s[j], s[i])
        BY <1>2, <1>3, <4>3 DEF Ascending
      <4>5. s[j][2] # s[i][2]
        <5>1. s[j][1] = 3 /\ s[i][1] = 3 /\ IsItem(s[i])
          BY <1>2, <1>3, <1>15, <4>1 DEF IsOp
        <5> DEFINE a == s[j][2]
                   b == s[i][2]
        <5>2. b \in Nat /\ a < b
          BY <4>4, <5>1 DEF ItemBefore, IsItem
        <5> HIDE DEF a, b
        <5>3. a # b
          BY <5>2
        <5> QED
          BY <5>3 DEF a, b
      <4>6. x[Len(m) + 1] = s[j][2]
        BY <1>1, <4>1, <4>2, UnderChild
      <4>7. Under(c, x) => x[Len(m) + 1] = s[i][2]
        BY <1>1, <4>2, UnderChild
      <4> QED
        BY <4>2, <4>5, <4>6, <4>7
    <3> QED
      BY <3>1, <3>2, <3>3
  <2>4. Under(c, c)
    BY <2>1, UnderChild
  <2>5. c \notin DOMAIN P
    BY <2>3, <2>4
  <2>6. DOMAIN more = DOMAIN P
    BY <1>12
  <2> HIDE DEF P, more
  <2>7. U = [x \in DOMAIN P \cup {c} |-> IF x = c THEN <<>> ELSE more[x]]
    BY <2>5, <2>6 DEF WithNode, ItemsAt
  <2> HIDE DEF U
  <2>8. IsFree(ts, U, c) /\ \A x \in DOMAIN U : IsSeq(x)
    BY <2>1, <2>3, <2>7 DEF IsFree
  <2>9. IsSeq(rest)
    BY <1>9
  <2> HIDE DEF rest, c
  <2>10. IsSeq(B) /\ ReadTimestamp(Reading(U, Append(rest, c), FALSE), B, root) = Reading(Filled(ts, U, c), rest, FALSE)
    BY <1>10, <1>15, <2>2, <2>8, <2>9 DEF NodeReads, c
  <2>11. Filled(ts, U, c) = Q
    <3>1. \A x : x \in Passed(ts, m, i) <=> x \in Passed(ts, m, i - 1) \/ x \in Sub(ts, c)
      BY <1>13, <1>15 DEF Sub, c
    <3>2. c \in Sub(ts, c) /\ m \notin Sub(ts, c) /\ m # c
      <4>1. m \notin Sub(ts, c)
        BY <1>1, UnderChild DEF Sub, c
      <4> QED
        BY <2>1, <2>4, <4>1 DEF Sub
    <3>3. DOMAIN P = DOMAIN T \cup Passed(ts, m, i - 1)
      BY DEF P, Partly
    <3>4. DOMAIN U \cup Sub(ts, c) = DOMAIN T \cup Passed(ts, m, i)
      BY <2>7, <3>1, <3>2, <3>3
    <3>5. ASSUME NEW x \in DOMAIN T \cup Passed(ts, m, i)
          PROVE  (IF x \in Sub(ts, c) THEN Sorted(ts[x]) ELSE U[x])
                   = (IF x = m THEN [j \in 1..i |-> s[j]] ELSE IF x \in Passed(ts, m, i) THEN Sorted(ts[x]) ELSE T[x])
      <4>1. CASE x \in Sub(ts, c)
        BY <3>1, <3>2, <4>1
      <4>2. CASE x \notin Sub(ts, c)
        <5>1. x \in DOMAIN P /\ x # c
          BY <3>1, <3>2, <3>3, <4>2
        <5>2. U[x] = IF x = m THEN [j \in 1..i |-> s[j]] ELSE P[x]
          BY <1>12, <2>7, <5>1
        <5>3. x # m => P[x] = IF x \in Passed(ts, m, i - 1) THEN Sorted(ts[x]) ELSE T[x]
          BY <3>3, <5>1 DEF P, Partly
        <5> QED
          BY <3>1, <4>2, <5>2, <5>3
      <4> QED
        BY <4>1, <4>2
    <3> QED
      BY <3>4, <3>5 DEF Filled, Partly, s
  <2> HIDE DEF W, B, start, Q
  <2>12. ReadTimestamp(start, W, root) = Reading(U, Append(rest, c), FALSE)
    BY <1>8, <1>11, <1>15, <2>1 DEF U, c
  <2>13. ReadTimestamp(ReadTimestamp(start, W, root), B, root) = Reading(Q, rest, FALSE)
    BY <2>10, <2>11, <2>12
  <2> QED
    BY <1>8, <2>10, <2>13 DEF W, B, start, P, Q, rest, n, s, open, ItemReads
<1> QED
  BY <1>14, <1>15

(* The start and the end of a node's items. *)
LEMMA NothingYet ==
  ASSUME NEW ts, NEW T, NEW m, IsFree(ts, T, m)
  PROVE  Partly(ts, T, m, 0) = T
<1> DEFINE e == [j \in 1..0 |-> Sorted(ts[m])[j]]
<1>1. T = [x \in DOMAIN T |-> T[x]] /\ m \in DOMAIN T /\ T[m] = <<>>
  BY DEF IsFree
<1>2. e = <<>>
  <2>1. IsSeq(e) /\ DOMAIN e = 1..0
    <3>1. \A k \in Int : k = 0 => e \in [1..k -> {}]
      OBVIOUS
    <3> HIDE DEF e
    <3>2. \A k \in Int : k = 0 => IsSeq(e)
      BY <3>1, FunctionSeq
    <3>3. DOMAIN e = 1..0
      BY DEF e
    <3> QED
      BY <3>2, <3>3
  <2> HIDE DEF e
  <2>2. Len(e) \in Nat /\ 1..Len(e) = 1..0
    BY <2>1, SeqFacts
  <2>3. Len(e) = 0
    BY <2>2, SameLength
  <2>4. e \in Seq(Range(e))
    BY <2>1 DEF IsSeq
  <2> QED
    BY <2>3, <2>4
<1>3. Passed(ts, m, 0) = {}
  BY DEF Passed
<1>4. Partly(ts, T, m, 0) = [x \in DOMAIN T |-> IF x = m THEN e ELSE T[x]]
  BY <1>3 DEF Partly
<1> HIDE DEF e
<1> QED
  BY <1>1, <1>2, <1>4

(* With all its items read, a node is filled in and its stack popped. *)
LEMMA AllItems ==
  ASSUME NEW ts, NEW root, IsTimestamp(ts, root), NEW m \in DOMAIN ts, NEW T, m \in DOMAIN T
  PROVE  Partly(ts, T, m, Len(Sorted(ts[m]))) = Filled(ts, T, m)
<1> DEFINE s == Sorted(ts[m])
           n == Len(s)
<1>1. s = [j \in 1..n |-> s[j]]
  <2>1. IsSeq(s)
    BY SortedNode DEF IsItems
  <2> HIDE DEF s
  <2>2. s \in Seq(Range(s))
    BY <2>1 DEF IsSeq
  <2> QED
    BY <2>2
<1>2. Sub(ts, m) = {m} \cup Passed(ts, m, n) /\ m \notin Passed(ts, m, n)
  BY SubIsDone
<1>3. DOMAIN T \cup Sub(ts, m) = DOMAIN T \cup Passed(ts, m, n)
  BY <1>2
<1>4. \A x \in DOMAIN T \cup Sub(ts, m) :
        (IF x = m THEN [j \in 1..n |-> s[j]] ELSE IF x \in Passed(ts, m, n) THEN Sorted(ts[x]) ELSE T[x])
          = IF x \in Sub(ts, m) THEN Sorted(ts[x]) ELSE T[x]
  BY <1>1, <1>2
<1> QED
  BY <1>3, <1>4 DEF Partly, Filled

(* The file of a node is read back, if those of the nodes below it are. *)
LEMMA ReadNode ==
  ASSUME NEW ts, NEW root, IsTimestamp(ts, root), IsFull(ts), NEW g, IsWritten(g, ts), NEW m \in DOMAIN ts,
         \A x \in DOMAIN ts : Len(x) = Len(m) + 1 => NodeReads(ts, root, g, x)
  PROVE  NodeReads(ts, root, g, m)
<1> DEFINE s == Sorted(ts[m])
           n == Len(s)
           below == Below(g, s, m)
<1>1. n \in Nat /\ n > 0 /\ IsItems(s) /\ DOMAIN s = 1..n
  <2>1. IsItems(s) /\ (Len(s) > 0 <=> Len(ts[m]) > 0)
    BY SortedNode
  <2> QED
    BY <2>1, SeqFacts DEF IsFull, IsItems
<1>2. g[m] = Joined(s, below)
  BY DEF IsWritten, File
<1>3. PICK out : /\ out[0] = <<>>
                 /\ \A i \in 1..n : out[i] = (out[i - 1] \o Written(s, i)) \o below[i]
                 /\ Joined(s, below) = out[n]
  <2>1. Len(s) \in Nat
    BY <1>1
  <2> HIDE DEF s, below
  <2> QED
    BY <2>1, JoinedIs
<1>4. \A i \in 1..n : IsSeq(Written(s, i)) /\ IsSeq(below[i])
  <2> TAKE i \in 1..n
  <2>1. IsSeq(Written(s, i))
    BY OneSeq, TwoSeq DEF Written
  <2>2. CASE IsOp(s[i])
    <3>1. ApplyOp(s[i][2], m) \in DOMAIN ts
      BY <1>1, <2>2, SortedNode
    <3>2. IsSeq(m)
      BY DEF IsTimestamp, IsNode
    <3> DEFINE c == ApplyOp(s[i][2], m)
    <3>3. Len(c) = Len(m) + 1
      BY <3>2, ApplyOpFacts
    <3>4. NodeReads(ts, root, g, c)
      BY <3>1, <3>3
    <3>5. IsSeq(g[c])
      BY <3>4 DEF NodeReads
    <3> QED
      BY <1>1, <2>1, <2>2, <3>5 DEF Below
  <2>3. CASE ~IsOp(s[i])
    <3>1. below[i] = <<>>
      BY <1>1, <2>3 DEF Below
    <3> QED
      BY <2>1, <3>1, NothingIsSeq
  <2> QED
    BY <2>2, <2>3
<1>5. IsSeq(out[n])
  <2> DEFINE U == {i \in 0..n : IsSeq(out[i])}
  <2>1. 0 \in U
    BY <1>1, <1>3, NothingIsSeq
  <2>2. ASSUME NEW i \in 1..n, i - 1 \in U
        PROVE  i \in U
    <3>1. IsSeq(out[i - 1]) /\ IsSeq(Written(s, i)) /\ IsSeq(below[i]) /\ i \in 0..n
      BY <1>4, <2>2
    <3> HIDE DEF s, below, n
    <3>2. IsSeq(out[i - 1] \o Written(s, i))
      BY <3>1, JoinSeq
    <3>3. IsSeq((out[i - 1] \o Written(s, i)) \o below[i])
      BY <3>1, <3>2, JoinSeq
    <3> QED
      BY <1>3, <3>1, <3>3
  <2> HIDE DEF U
  <2>3. 0..n \subseteq U
    BY <1>1, <2>1, <2>2, UpTo
  <2> QED
    BY <1>1, <2>3 DEF U
<1>6. ASSUME NEW T, NEW S, IsSeq(S), \A x \in DOMAIN T : IsSeq(x), IsFree(ts, T, m)
      PROVE  ReadTimestamp(Reading(T, Append(S, m), FALSE), out[n], root) = Reading(Filled(ts, T, m), S, FALSE)
  <2> DEFINE open == Append(S, m)
             start == Reading(T, open, FALSE)
             R(i) == Reading(Partly(ts, T, m, i), IF i < n THEN open ELSE S, FALSE)
             V == {i \in 0..n : IsSeq(out[i]) /\ ReadTimestamp(start, out[i], root) = R(i)}
  <2>1. 0 \in V
    <3>1. Partly(ts, T, m, 0) = T
      BY <1>6, NothingYet
    <3>2. R(0) = start
      BY <1>1, <3>1
    <3>3. ReadTimestamp(start, out[0], root) = start
      <4> HIDE DEF start
      <4> QED
        BY <1>3, ReadNothing
    <3> HIDE DEF R, start, n
    <3> QED
      BY <1>1, <1>3, <3>2, <3>3, NothingIsSeq
  <2>2. ASSUME NEW i \in 1..n, i - 1 \in V
        PROVE  i \in V
    <3> DEFINE W == Written(s, i)
               B == below[i]
               o == out[i - 1]
               middle == Reading(Partly(ts, T, m, i - 1), open, FALSE)
    <3>1. IsSeq(W) /\ IsSeq(B) /\ ReadTimestamp(ReadTimestamp(middle, W, root), B, root) = R(i)
      <4>1. ItemReads(ts, root, g, m, T, S, i)
        BY <1>6, ReadNext
      <4> QED
        BY <4>1 DEF ItemReads
    <3>2. IsSeq(o) /\ ReadTimestamp(start, o, root) = middle
      <4>1. i - 1 < n
        BY <1>1
      <4>2. R(i - 1) = middle
        BY <4>1
      <4> HIDE DEF R, middle, start
      <4> QED
        BY <2>2, <4>2
    <3>3. out[i] = (o \o W) \o B
      BY <1>3
    <3> HIDE DEF W, B, o, middle, start, R, n
    <3>4. IsSeq(o \o W)
      BY <3>1, <3>2, JoinSeq
    <3>5. IsSeq(out[i])
      BY <3>1, <3>3, <3>4, JoinSeq
    <3>6. ReadTimestamp(start, o \o W, root) = ReadTimestamp(ReadTimestamp(start, o, root), W, root)
      BY ONLY <3>1, <3>2, ReadJoined
    <3>7. ReadTimestamp(start, (o \o W) \o B, root) = ReadTimestamp(ReadTimestamp(start, o \o W, root), B, root)
      BY ONLY <3>1, <3>4, ReadJoined
    <3>8. ReadTimestamp(start, out[i], root) = R(i)
      BY <3>1, <3>2, <3>3, <3>6, <3>7
    <3> QED
      BY <3>5, <3>8, <1>1
  <2>3. n \in V
    <3> HIDE DEF V, n
    <3>1. 0..n \subseteq V
      BY <1>1, <2>1, <2>2, UpTo
    <3> QED
      BY <1>1, <3>1
  <2>4. R(n) = Reading(Filled(ts, T, m), S, FALSE)
    <3>1. Partly(ts, T, m, n) = Filled(ts, T, m)
      BY <1>6, AllItems DEF IsFree
    <3>2. ~(n < n)
      BY <1>1
    <3> QED
      BY <3>1, <3>2
  <2> HIDE DEF R, start
  <2>5. ReadTimestamp(start, out[n], root) = Reading(Filled(ts, T, m), S, FALSE)
    BY <2>3, <2>4
  <2> QED
    BY <2>5 DEF start
<1> HIDE DEF s, n, below
<1> QED
  BY <1>2, <1>3, <1>5, <1>6 DEF NodeReads

(* The file of every node is read back, from the deepest nodes up. *)
LEMMA NodesRead ==
  ASSUME NEW ts, NEW root, IsTimestamp(ts, root), IsFull(ts), NEW g, IsWritten(g, ts)
  PROVE  \A m \in DOMAIN ts : NodeReads(ts, root, g, m)
<1> DEFINE top == Len(root) + MaxRecursion
           S == {d \in Nat : \A m \in DOMAIN ts : Len(m) + d >= top => NodeReads(ts, root, g, m)}
<1>1. Len(root) \in Nat /\ MaxRecursion \in Nat /\ top \in Nat
  BY SeqFacts, FormatAssumption DEF IsTimestamp
<1>2. \A m \in DOMAIN ts : Len(m) \in Nat /\ Len(root) <= Len(m) /\ Len(m) < top
  <2> TAKE m \in DOMAIN ts
  <2>1. Len(m) \in Nat /\ Len(root) <= Len(m) /\ Len(m) - Len(root) < MaxRecursion
    BY SeqFacts DEF IsTimestamp, IsNode
  <2> QED
    BY <1>1, <2>1
<1> HIDE DEF top
<1>3. 0 \in S
  BY <1>1, <1>2
<1>4. ASSUME NEW d \in 1..MaxRecursion, d - 1 \in S
      PROVE  d \in S
  <2> SUFFICES ASSUME NEW m \in DOMAIN ts, Len(m) + d >= top
               PROVE  NodeReads(ts, root, g, m)
    BY <1>1
  <2>1. \A x \in DOMAIN ts : Len(x) = Len(m) + 1 => Len(x) + (d - 1) >= top
    BY <1>1, <1>2
  <2>2. \A x \in DOMAIN ts : Len(x) = Len(m) + 1 => NodeReads(ts, root, g, x)
    BY <1>4, <2>1
  <2> QED
    BY <2>2, ReadNode
<1>5. MaxRecursion \in S
  <2> HIDE DEF S
  <2>1. 0..MaxRecursion \subseteq S
    BY <1>1, <1>3, <1>4, UpTo
  <2> QED
    BY <1>1, <2>1
<1>6. \A m \in DOMAIN ts : Len(m) + MaxRecursion >= top
  BY <1>1, <1>2 DEF top
<1> QED
  BY <1>5, <1>6

(* Every node of a tree is below its root. *)
LEMMA BelowRoot ==
  ASSUME NEW ts, NEW root, IsTimestamp(ts, root)
  PROVE  Sub(ts, root) = DOMAIN ts
<1> DEFINE S == {d \in Nat : \A m \in DOMAIN ts : Len(m) <= Len(root) + d => Under(root, m)}
<1>1. /\ IsSeq(root) /\ Len(root) \in Nat /\ MaxRecursion \in Nat
      /\ \A m \in DOMAIN ts : IsSeq(m) /\ Len(m) \in Nat /\ Len(root) <= Len(m) /\ Len(m) - Len(root) < MaxRecursion
  BY SeqFacts, FormatAssumption DEF IsTimestamp, IsNode
<1>2. ASSUME NEW m \in DOMAIN ts
      PROVE  m = root \/ \E p \in DOMAIN ts : Len(m) = Len(p) + 1 /\ (Under(root, p) => Under(root, m))
  <2>1. CASE m = root
    BY <2>1
  <2>2. CASE m # root
    <3>1. PICK p \in DOMAIN ts : \E i \in DOMAIN ts[p] : IsOp(ts[p][i]) /\ m = ApplyOp(ts[p][i][2], p)
      BY <2>2 DEF IsTimestamp, HasParent
    <3>2. PICK o : m = ApplyOp(o, p)
      BY <3>1
    <3>3. /\ Len(m) = Len(p) + 1 /\ Len(p) \in Nat /\ \A j \in 1..Len(p) : m[j] = p[j]
      BY <1>1, <3>2, ApplyOpFacts
    <3>4. ASSUME Under(root, p)
          PROVE  Under(root, m)
      <4>1. Len(root) <= Len(p) /\ \A j \in 1..Len(root) : p[j] = root[j]
        BY <3>4 DEF Under
      <4>2. \A j \in 1..Len(root) : j \in 1..Len(p)
        BY <1>1, <3>3, <4>1
      <4>3. Len(root) <= Len(m)
        BY <1>1
      <4> QED
        BY <3>3, <4>1, <4>2, <4>3 DEF Under
    <3> QED
      BY <3>3, <3>4
  <2> QED
    BY <2>1, <2>2
<1>3. Under(root, root)
  BY <1>1, UnderChild
<1>4. 0 \in S
  <2> SUFFICES ASSUME NEW m \in DOMAIN ts, Len(m) <= Len(root) + 0
               PROVE  Under(root, m)
    OBVIOUS
  <2>1. \A p \in DOMAIN ts : Len(m) # Len(p) + 1
    BY <1>1
  <2> QED
    BY <1>2, <1>3, <2>1
<1>5. ASSUME NEW d \in 1..MaxRecursion, d - 1 \in S
      PROVE  d \in S
  <2> SUFFICES ASSUME NEW m \in DOMAIN ts, Len(m) <= Len(root) + d
               PROVE  Under(root, m)
    BY <1>1
  <2>1. \A p \in DOMAIN ts : Len(m) = Len(p) + 1 => Len(p) <= Len(root) + (d - 1)
    BY <1>1
  <2> QED
    BY <1>2, <1>3, <1>5, <2>1
<1>6. MaxRecursion \in S
  <2> HIDE DEF S
  <2>1. 0..MaxRecursion \subseteq S
    BY <1>1, <1>4, <1>5, UpTo
  <2> QED
    BY <1>1, <2>1
<1>7. \A m \in DOMAIN ts : Len(m) <= Len(root) + MaxRecursion
  BY <1>1
<1> QED
  BY <1>6, <1>7 DEF Sub

Canonical(ts) == [m \in DOMAIN ts |-> Sorted(ts[m])]

(* A tree in order is a tree. *)
LEMMA CanonicalTree ==
  ASSUME NEW ts, NEW root, IsTimestamp(ts, root)
  PROVE  IsTimestamp(Canonical(ts), root)
<1> DEFINE us == Canonical(ts)
<1>1. DOMAIN us = DOMAIN ts /\ \A m \in DOMAIN ts : us[m] = Sorted(ts[m])
  BY DEF Canonical
<1> HIDE DEF us
<1>2. ASSUME NEW m \in DOMAIN ts
      PROVE  IsNode(us, root, m)
  <2>1. IsSeq(m) /\ Len(root) <= Len(m) /\ Len(m) - Len(root) < MaxRecursion
    BY DEF IsTimestamp, IsNode
  <2>2. /\ IsItems(us[m])
        /\ \A i \in DOMAIN us[m] :
             Readable(Token(us[m][i])) /\ (IsOp(us[m][i]) => ApplyOp(us[m][i][2], m) \in DOMAIN us)
    BY <1>1, SortedNode
  <2> QED
    BY <2>1, <2>2 DEF IsNode
<1>3. ASSUME NEW m \in DOMAIN ts, m # root
      PROVE  HasParent(us, m)
  <2>1. PICK p \in DOMAIN ts : \E i \in DOMAIN ts[p] : IsOp(ts[p][i]) /\ m = ApplyOp(ts[p][i][2], p)
    BY <1>3 DEF IsTimestamp, HasParent
  <2>2. PICK i \in DOMAIN ts[p] : IsOp(ts[p][i]) /\ m = ApplyOp(ts[p][i][2], p)
    BY <2>1
  <2>3. ts[p][i] \in Range(us[p])
    <3>1. Range(us[p]) = Range(ts[p])
      BY <1>1, SortedNode
    <3>2. ts[p][i] \in Range(ts[p])
      BY DEF Range
    <3> QED
      BY <3>1, <3>2
  <2>4. PICK j \in DOMAIN us[p] : us[p][j] = ts[p][i]
    BY <2>3 DEF Range
  <2>5. p \in DOMAIN us /\ IsOp(us[p][j]) /\ m = ApplyOp(us[p][j][2], p)
    BY <1>1, <2>2, <2>4
  <2> QED
    BY <2>5 DEF HasParent
<1>4. IsTimestamp(us, root)
  BY <1>1, <1>2, <1>3 DEF IsTimestamp
<1> QED
  BY <1>4 DEF us

(* What writeTimestamp writes, parseTimestamp and parseDetached (ots.ts)   *)
(* read back, in order, to the end of the file; and written again, it is   *)
(* the same file.                                                          *)
THEOREM FilesReadBack ==
  ASSUME NEW ts, NEW root, IsTimestamp(ts, root), IsFull(ts)
  PROVE  /\ Parse(WriteTimestamp(ts, root), root) = Reading(Canonical(ts), <<>>, FALSE)
         /\ WriteTimestamp(Canonical(ts), root) = WriteTimestamp(ts, root)
<1>1. PICK g : IsWritten(g, ts) /\ WriteTimestamp(ts, root) = g[root]
  BY WriteIs
<1>2. root \in DOMAIN ts /\ IsSeq(root)
  BY DEF IsTimestamp
<1>3. NodeReads(ts, root, g, root)
  BY <1>1, <1>2, NodesRead
<1> DEFINE T == Node(root)
           file == g[root]
<1>4. T = [x \in {root} |-> <<>>] /\ DOMAIN T = {root}
  BY DEF Node
<1> HIDE DEF T
<1>5. IsFree(ts, T, root) /\ \A x \in DOMAIN T : IsSeq(x)
  BY <1>2, <1>4 DEF IsFree
<1>6. Filled(ts, T, root) = Canonical(ts)
  <2>1. Sub(ts, root) = DOMAIN ts
    BY BelowRoot
  <2> QED
    BY <1>2, <1>4, <2>1 DEF Filled, Canonical
<1>7. IsSeq(<<>>) /\ Append(<<>>, root) = <<root>>
  BY NothingIsSeq
<1>8. ReadTimestamp(Reading(T, <<root>>, FALSE), file, root) = Reading(Canonical(ts), <<>>, FALSE)
  <2>1. ReadTimestamp(Reading(T, Append(<<>>, root), FALSE), file, root) = Reading(Filled(ts, T, root), <<>>, FALSE)
    BY <1>3, <1>5, <1>7 DEF NodeReads
  <2> QED
    BY <1>6, <1>7, <2>1
<1>9. Parse(file, root) = Reading(Canonical(ts), <<>>, FALSE)
  <2>1. Reading(Canonical(ts), <<>>, FALSE).ok /\ Reading(Canonical(ts), <<>>, FALSE).open = <<>>
    BY DEF Reading
  <2> QED
    BY <1>8, <2>1 DEF Parse, T
<1>10. WriteTimestamp(Canonical(ts), root) = WriteTimestamp(ts, root)
  <2>1. IsTimestamp(Canonical(ts), root)
    BY CanonicalTree
  <2>2. DOMAIN ts = DOMAIN Canonical(ts) /\ \A m \in DOMAIN ts : Range(ts[m]) = Range(Canonical(ts)[m])
    BY SortedNode DEF Canonical
  <2> QED
    BY <2>1, <2>2, SameFile
<1> QED
  BY <1>1, <1>9, <1>10

-------------------------------------------------------------------------------
(* Merging.                                                                *)

(* An item is added once. *)
LEMMA AddItemFacts ==
  ASSUME NEW s, IsItems(s), NEW x, IsItem(x)
  PROVE  /\ IsItems(AddItem(s, x)) /\ Range(AddItem(s, x)) = Range(s) \cup {x}
         /\ Len(AddItem(s, x)) > 0
<1> DEFINE t == AddItem(s, x)
           u == Append(s, x)
<1>1. IsSeq(s) /\ Len(s) \in Nat /\ DOMAIN s = 1..Len(s) /\ \A i \in 1..Len(s) : IsItem(s[i])
  BY SeqFacts DEF IsItems
<1>2. CASE x \in Range(s)
  <2>1. t = s
    BY <1>2 DEF AddItem
  <2>2. PICK i \in 1..Len(s) : s[i] = x
    BY <1>1, <1>2 DEF Range
  <2>3. Len(s) > 0
    BY <1>1, <2>2
  <2> QED
    BY <1>2, <2>1, <2>3
<1>3. CASE x \notin Range(s)
  <2>1. t = u
    BY <1>3 DEF AddItem
  <2>2. /\ IsSeq(u) /\ Len(u) = Len(s) + 1 /\ DOMAIN u = 1..(Len(s) + 1)
        /\ \A i \in 1..Len(s) : u[i] = s[i]
        /\ u[Len(s) + 1] = x
    BY <1>1, AppendSeq
  <2> HIDE DEF u
  <2>3. \A i \in 1..(Len(s) + 1) : i = Len(s) + 1 \/ i \in 1..Len(s)
    BY <1>1
  <2>4. Len(s) + 1 \in 1..(Len(s) + 1) /\ (\A i \in 1..Len(s) : i \in 1..(Len(s) + 1)) /\ Len(u) > 0
    BY <1>1, <2>2
  <2>5. IsItems(u)
    BY <1>1, <2>2, <2>3 DEF IsItems
  <2>6. Range(u) = Range(s) \cup {x}
    BY <1>1, <2>2, <2>3, <2>4 DEF Range
  <2> QED
    BY <2>1, <2>4, <2>5, <2>6
<1> QED
  BY <1>2, <1>3

IsSum(g, items, others, k) ==
  g = [i \in 0..k |-> IF i = 0 THEN items ELSE AddItem(g[i - 1], others[i])]

(* The recursive function AddItems is defined by exists, for every length. *)
LEMMA SumUpTo ==
  ASSUME NEW items, NEW others, NEW k \in Nat
  PROVE  \E g : IsSum(g, items, others, k)
<1> DEFINE S == {n \in Nat : \E g : IsSum(g, items, others, n)}
<1>1. 0 \in S
  <2> DEFINE g == [i \in 0..0 |-> items]
  <2>1. IsSum(g, items, others, 0)
    BY DEF IsSum
  <2> QED
    BY <2>1
<1>2. ASSUME NEW n \in 1..k, n - 1 \in S
      PROVE  n \in S
  <2>1. PICK g : IsSum(g, items, others, n - 1)
    BY <1>2
  <2> DEFINE h == [i \in 0..n |-> IF i = n THEN AddItem(g[n - 1], others[n]) ELSE g[i]]
  <2>2. \A i \in 0..n : h[i] = IF i = 0 THEN items ELSE AddItem(h[i - 1], others[i])
    <3> SUFFICES ASSUME NEW i \in 0..n
                 PROVE  h[i] = IF i = 0 THEN items ELSE AddItem(h[i - 1], others[i])
      OBVIOUS
    <3>1. CASE i = n
      <4>1. n - 1 \in 0..n /\ n - 1 # n /\ n # 0
        OBVIOUS
      <4>2. h[n - 1] = g[n - 1]
        BY <4>1
      <4> QED
        BY <3>1, <4>1, <4>2
    <3>2. CASE i # n
      <4>1. i \in 0..(n - 1)
        BY <3>2
      <4>2. g[i] = IF i = 0 THEN items ELSE AddItem(g[i - 1], others[i])
        BY <2>1, <4>1 DEF IsSum
      <4>3. h[i] = g[i] /\ (i # 0 => h[i - 1] = g[i - 1])
        BY <3>2, <4>1
      <4> QED
        BY <4>2, <4>3
    <3> QED
      BY <3>1, <3>2
  <2>3. h = [i \in 0..n |-> IF i = 0 THEN items ELSE AddItem(h[i - 1], others[i])]
    BY <2>2
  <2>4. IsSum(h, items, others, n)
    BY <2>3 DEF IsSum
  <2> QED
    BY <2>4
<1>3. 0..k \subseteq S
  <2> HIDE DEF S
  <2> QED
    BY <1>1, <1>2, UpTo
<1> QED
  BY <1>3

(* AddItems of none or of one. *)
LEMMA AddItemsIs ==
  ASSUME NEW items, NEW others, Len(others) \in {0, 1}
  PROVE  AddItems(items, others) = IF Len(others) = 0 THEN items ELSE AddItem(items, others[1])
<1> DEFINE k == Len(others)
           r == CHOOSE g : IsSum(g, items, others, k)
<1>1. IsSum(r, items, others, k)
  <2>1. k \in Nat
    OBVIOUS
  <2> HIDE DEF k
  <2> QED
    BY <2>1, SumUpTo
<1>2. AddItems(items, others) = r[k]
  BY DEF AddItems, IsSum
<1> HIDE DEF r
<1>3. k = 0 \/ k = 1
  OBVIOUS
<1> HIDE DEF k
<1>4. r[k] = IF k = 0 THEN items ELSE AddItem(items, others[1])
  BY <1>1, <1>3 DEF IsSum
<1> QED
  BY <1>2, <1>4 DEF k

(* A tree in which one more operation hangs off a node, with one more      *)
(* attestation below it or none.                                           *)
Grown(ts, us, msg, o, c) ==
  /\ DOMAIN us = DOMAIN ts \cup {c}
  /\ us[msg] = AddItem(ts[msg], Op(o))
  /\ \A m \in DOMAIN ts \ {msg, c} : us[m] = ts[m]

IsAttestation(a) == IsItem(a) /\ ~IsOp(a) /\ Readable(Token(a))

LEMMA OpIsItem ==
  ASSUME NEW o \in Nat
  PROVE  IsItem(Op(o)) /\ IsOp(Op(o)) /\ Op(o)[2] = o /\ Readable(Token(Op(o)))
BY DEF Op, IsItem, IsOp, Readable, Token, Bitcoin

Hangs(ts, us, c, A) ==
  \/ A = {} /\ us[c] = ItemsAt(ts, c)
  \/ \E a : IsAttestation(a) /\ A = {a} /\ us[c] = AddItem(ItemsAt(ts, c), a)

(* It is a tree still, with what it had and what was added. *)
StaysTree(ts, root, us, msg, o, c, A) ==
  /\ IsTimestamp(us, root) /\ c # msg /\ A \subseteq Range(us[c])
  /\ \A m \in DOMAIN us : \A x \in Range(us[m]) :
       (m \in DOMAIN ts /\ x \in Range(ts[m])) \/ (m = msg /\ x = Op(o)) \/ (m = c /\ x \in A)
  /\ \A m \in DOMAIN ts : Range(ts[m]) \subseteq Range(us[m])
  /\ \A m \in DOMAIN ts : Len(ts[m]) > 0 \/ m = msg => Len(us[m]) > 0

(* A grown tree is a tree. *)
LEMMA GrownTree ==
  ASSUME NEW ts, NEW root, IsTimestamp(ts, root), NEW msg \in DOMAIN ts, NEW o \in Nat,
         NEW c, c = ApplyOp(o, msg), Len(c) - Len(root) < MaxRecursion,
         NEW us, Grown(ts, us, msg, o, c),
         NEW A, Hangs(ts, us, c, A)
  PROVE  StaysTree(ts, root, us, msg, o, c, A)
<1>1. /\ IsSeq(root) /\ Len(root) \in Nat /\ root \in DOMAIN ts
      /\ \A m \in DOMAIN ts : /\ IsSeq(m) /\ Len(m) \in Nat /\ Len(root) <= Len(m)
                              /\ Len(m) - Len(root) < MaxRecursion /\ IsItems(ts[m])
  BY SeqFacts DEF IsTimestamp, IsNode
<1>2. IsSeq(c) /\ Len(c) \in Nat /\ Len(c) = Len(msg) + 1 /\ c # msg
  BY <1>1, ApplyOpFacts
<1>3. DOMAIN us = DOMAIN ts \cup {c} /\ us[msg] = AddItem(ts[msg], Op(o)) /\ \A m \in DOMAIN ts \ {msg, c} : us[m] = ts[m]
  BY DEF Grown
<1>4. IsItems(us[msg]) /\ Range(us[msg]) = Range(ts[msg]) \cup {Op(o)} /\ Len(us[msg]) > 0
  <2>1. IsItems(ts[msg]) /\ IsItem(Op(o))
    BY <1>1, OpIsItem
  <2> QED
    BY <1>3, <2>1, AddItemFacts
<1>5. IsItems(ItemsAt(ts, c))
  <2>1. IsItems(<<>>)
    BY NothingIsSeq DEF IsItems
  <2> QED
    BY <1>1, <2>1 DEF ItemsAt
<1>6. /\ IsItems(us[c]) /\ Range(ItemsAt(ts, c)) \subseteq Range(us[c])
      /\ Len(ItemsAt(ts, c)) > 0 => Len(us[c]) > 0
      /\ Range(us[c]) = Range(ItemsAt(ts, c)) \cup A /\ \A x \in A : IsAttestation(x)
  <2>1. CASE A = {} /\ us[c] = ItemsAt(ts, c)
    BY <1>5, <2>1
  <2>2. ASSUME NEW a, IsAttestation(a), A = {a}, us[c] = AddItem(ItemsAt(ts, c), a)
        PROVE  /\ IsItems(us[c]) /\ Range(ItemsAt(ts, c)) \subseteq Range(us[c])
               /\ Len(ItemsAt(ts, c)) > 0 => Len(us[c]) > 0
               /\ Range(us[c]) = Range(ItemsAt(ts, c)) \cup A /\ \A x \in A : IsAttestation(x)
    <3>1. IsItem(a)
      BY <2>2 DEF IsAttestation
    <3>2. /\ IsItems(us[c]) /\ Range(us[c]) = Range(ItemsAt(ts, c)) \cup {a}
          /\ Len(us[c]) > 0
      BY <1>5, <2>2, <3>1, AddItemFacts
    <3> QED
      BY <2>2, <3>2
  <2> QED
    BY <2>1, <2>2 DEF Hangs
<1>7. \A m \in DOMAIN ts : Range(ts[m]) \subseteq Range(us[m])
  BY <1>3, <1>4, <1>6 DEF ItemsAt
<1>8. \A m \in DOMAIN ts : Len(ts[m]) > 0 \/ m = msg => Len(us[m]) > 0
  BY <1>3, <1>4, <1>6 DEF ItemsAt
<1>13. ASSUME NEW m \in DOMAIN us, NEW x \in Range(us[m])
       PROVE  (m \in DOMAIN ts /\ x \in Range(ts[m])) \/ (m = msg /\ x = Op(o)) \/ (m = c /\ x \in A)
  <2>1. Range(<<>>) = {}
    BY DEF Range
  <2>2. m = c \/ m = msg \/ m \in DOMAIN ts \ {msg, c}
    BY <1>3, <1>13
  <2>3. m = c => (m \in DOMAIN ts /\ x \in Range(ts[m])) \/ x \in A
    BY <1>6, <1>13, <2>1 DEF ItemsAt
  <2> QED
    BY <1>3, <1>4, <1>13, <2>2, <2>3
<1>9. ASSUME NEW m \in DOMAIN us, NEW x \in Range(us[m])
      PROVE  Readable(Token(x)) /\ (IsOp(x) => ApplyOp(x[2], m) \in DOMAIN us)
  <2>1. CASE m \in DOMAIN ts /\ x \in Range(ts[m])
    <3>1. PICK i \in DOMAIN ts[m] : x = ts[m][i]
      BY <2>1 DEF Range
    <3>2. IsNode(ts, root, m)
      BY <2>1 DEF IsTimestamp
    <3> QED
      BY <1>3, <3>1, <3>2 DEF IsNode
  <2>2. CASE m = msg /\ x = Op(o)
    BY <1>3, <2>2, OpIsItem
  <2>3. CASE m = c /\ x \in A
    BY <1>6, <2>3 DEF IsAttestation
  <2> QED
    BY <1>9, <1>13, <2>1, <2>2, <2>3
<1>10. ASSUME NEW m \in DOMAIN us
       PROVE  IsNode(us, root, m)
  <2>1. IsSeq(m) /\ Len(root) <= Len(m) /\ Len(m) - Len(root) < MaxRecursion /\ IsItems(us[m])
    BY <1>1, <1>2, <1>3, <1>4, <1>6
  <2>2. \A i \in DOMAIN us[m] : us[m][i] \in Range(us[m])
    BY DEF Range
  <2> QED
    BY <1>9, <2>1, <2>2 DEF IsNode
<1>11. ASSUME NEW m \in DOMAIN us, m # root
       PROVE  HasParent(us, m)
  <2>1. \E p \in DOMAIN us : \E x \in Range(us[p]) : IsOp(x) /\ m = ApplyOp(x[2], p)
    <3>1. CASE m \in DOMAIN ts
      <4>1. PICK p \in DOMAIN ts : \E i \in DOMAIN ts[p] : IsOp(ts[p][i]) /\ m = ApplyOp(ts[p][i][2], p)
        BY <1>11, <3>1 DEF IsTimestamp, HasParent
      <4>2. PICK i \in DOMAIN ts[p] : IsOp(ts[p][i]) /\ m = ApplyOp(ts[p][i][2], p)
        BY <4>1
      <4>3. ts[p][i] \in Range(us[p])
        <5>1. ts[p][i] \in Range(ts[p])
          BY DEF Range
        <5> QED
          BY <1>7, <5>1
      <4> QED
        BY <1>3, <4>2, <4>3
    <3>2. CASE m = c
      BY <1>3, <1>4, <3>2, OpIsItem
    <3> QED
      BY <1>3, <3>1, <3>2
  <2>2. PICK p \in DOMAIN us : \E x \in Range(us[p]) : IsOp(x) /\ m = ApplyOp(x[2], p)
    BY <2>1
  <2>3. PICK x \in Range(us[p]) : IsOp(x) /\ m = ApplyOp(x[2], p)
    BY <2>2
  <2>4. PICK j \in DOMAIN us[p] : us[p][j] = x
    BY DEF Range
  <2> QED
    BY <2>3, <2>4 DEF HasParent
<1>12. IsTimestamp(us, root)
  BY <1>1, <1>3, <1>10, <1>11 DEF IsTimestamp
<1> QED
  BY <1>2, <1>6, <1>7, <1>8, <1>12, <1>13 DEF StaysTree

(* addOp grows a tree by an operation with nothing below it. *)
LEMMA AddOpGrows ==
  ASSUME NEW ts, NEW msg \in DOMAIN ts, NEW o, ApplyOp(o, msg) # msg
  PROVE  /\ Grown(ts, AddOp(ts, msg, o), msg, o, ApplyOp(o, msg))
         /\ AddOp(ts, msg, o)[ApplyOp(o, msg)] = ItemsAt(ts, ApplyOp(o, msg))
<1> DEFINE c == ApplyOp(o, msg)
           vs == [ts EXCEPT ![msg] = AddItem(@, Op(o))]
           us == AddOp(ts, msg, o)
<1>1. us = [m \in DOMAIN vs \cup {c} |-> ItemsAt(vs, m)]
  BY DEF AddOp, WithNode
<1>2. DOMAIN vs = DOMAIN ts /\ \A m \in DOMAIN ts : vs[m] = IF m = msg THEN AddItem(ts[msg], Op(o)) ELSE ts[m]
  OBVIOUS
<1> HIDE DEF us, vs, c
<1>3. DOMAIN us = DOMAIN ts \cup {c} /\ \A m \in DOMAIN us : us[m] = ItemsAt(vs, m)
  BY <1>1, <1>2
<1>4. c # msg
  BY DEF c
<1>5. us[c] = ItemsAt(ts, c)
  BY <1>2, <1>3, <1>4 DEF ItemsAt
<1>6. us[msg] = AddItem(ts[msg], Op(o)) /\ \A m \in DOMAIN ts \ {msg, c} : us[m] = ts[m]
  BY <1>2, <1>3 DEF ItemsAt
<1> QED
  BY <1>3, <1>5, <1>6 DEF Grown, us, c

(* What an answer of a calendar is read as: one operation from the message *)
(* that was asked about, and one attestation.                              *)
Branch(msg, o, a) == [m \in {msg, ApplyOp(o, msg)} |-> IF m = msg THEN <<Op(o)>> ELSE <<a>>]

(* Merging an answer grows a tree by its operation and its attestation. *)
LEMMA MergeGrows ==
  ASSUME NEW ts, NEW msg \in DOMAIN ts, NEW o, NEW a, ApplyOp(o, msg) # msg
  PROVE  /\ Grown(ts, MergeTimestamp(ts, Branch(msg, o, a)), msg, o, ApplyOp(o, msg))
         /\ MergeTimestamp(ts, Branch(msg, o, a))[ApplyOp(o, msg)] = AddItem(ItemsAt(ts, ApplyOp(o, msg)), a)
<1> DEFINE c == ApplyOp(o, msg)
           bs == Branch(msg, o, a)
           us == MergeTimestamp(ts, bs)
<1>1. DOMAIN bs = {msg, c} /\ bs[msg] = <<Op(o)>> /\ bs[c] = <<a>>
  BY DEF Branch
<1> HIDE DEF bs, c
<1>2. us = [m \in DOMAIN ts \cup DOMAIN bs |-> AddItems(ItemsAt(ts, m), ItemsAt(bs, m))]
  BY DEF MergeTimestamp
<1> HIDE DEF us
<1>3. DOMAIN us = DOMAIN ts \cup {c}
  BY <1>1, <1>2
<1>4. \A x : Len(<<x>>) = 1 /\ <<x>>[1] = x
  OBVIOUS
<1>5. \A s, x : AddItems(s, <<x>>) = AddItem(s, x)
  <2> SUFFICES ASSUME NEW s, NEW x
               PROVE  AddItems(s, <<x>>) = AddItem(s, x)
    OBVIOUS
  <2> DEFINE t == <<x>>
  <2>1. Len(t) = 1 /\ t[1] = x
    OBVIOUS
  <2> HIDE DEF t
  <2>2. AddItems(s, t) = AddItem(s, x)
    BY <2>1, AddItemsIs
  <2> QED
    BY <2>2 DEF t
<1>6. \A s : AddItems(s, <<>>) = s
  <2> SUFFICES ASSUME NEW s
               PROVE  AddItems(s, <<>>) = s
    OBVIOUS
  <2> DEFINE t == <<>>
  <2>1. Len(t) = 0
    OBVIOUS
  <2> HIDE DEF t
  <2>2. AddItems(s, t) = s
    BY <2>1, AddItemsIs
  <2> QED
    BY <2>2 DEF t
<1>7. us[c] = AddItem(ItemsAt(ts, c), a)
  <2>1. us[c] = AddItems(ItemsAt(ts, c), <<a>>)
    BY <1>1, <1>2, <1>3 DEF ItemsAt
  <2> QED
    BY <1>5, <2>1
<1>8. us[msg] = AddItem(ts[msg], Op(o))
  <2>1. us[msg] = AddItems(ts[msg], <<Op(o)>>)
    BY <1>1, <1>2, <1>3 DEF ItemsAt
  <2> QED
    BY <1>5, <2>1
<1>9. \A m \in DOMAIN ts \ {msg, c} : us[m] = ts[m]
  <2> TAKE m \in DOMAIN ts \ {msg, c}
  <2>1. us[m] = AddItems(ts[m], <<>>)
    BY <1>1, <1>2, <1>3 DEF ItemsAt
  <2> QED
    BY <1>6, <2>1
<1> QED
  BY <1>3, <1>7, <1>8, <1>9 DEF Grown, us, bs, c

(* An answer of one operation and one attestation parses, if its payload   *)
(* does.                                                                   *)
LEMMA AnswerReads ==
  ASSUME NEW msg, IsSeq(msg), NEW o \in Nat, NEW a, IsItem(a), ~IsOp(a)
  PROVE  Parse(<<Token(Op(o)), Token(a)>>, msg)
           = IF Readable(Token(a)) THEN Reading(Branch(msg, o, a), <<>>, FALSE) ELSE Failed
<1> DEFINE c == ApplyOp(o, msg)
           t == Token(Op(o))
           u == Token(a)
           start == Reading(Node(msg), <<msg>>, FALSE)
           N == WithNode([Node(msg) EXCEPT ![msg] = Append(@, Op(o))], c)
           middle == Reading(N, <<c>>, FALSE)
<1>1. /\ <<msg>> # <<>> /\ Last(<<msg>>) = msg /\ Front(<<msg>>) = <<>>
      /\ <<c>> # <<>> /\ Last(<<c>>) = c /\ Front(<<c>>) = <<>> /\ Append(<<>>, c) = <<c>>
  <2>1. \A x : Append(<<>>, x) = <<x>>
    OBVIOUS
  <2>2. IsSeq(<<>>)
    BY NothingIsSeq
  <2>3. \A x : <<x>> # <<>> /\ Last(<<x>>) = x /\ Front(<<x>>) = <<>>
    <3> TAKE x
    <3>1. Append(<<>>, x) # <<>> /\ Last(Append(<<>>, x)) = x /\ Front(Append(<<>>, x)) = <<>>
      BY ONLY <2>2, TopOfStack
    <3> QED
      BY <2>1, <3>1
  <2> QED
    BY <2>1, <2>3
<1>2. /\ ReadItem(t) = Op(o) /\ t.tag = "item" /\ Readable(t) /\ IsOp(Op(o)) /\ Op(o)[2] = o
      /\ ReadItem(u) = a /\ u.tag = "item"
  BY OpIsItem, ItemReadsBack
<1>3. IsSeq(c) /\ Len(c) = Len(msg) + 1 /\ Len(msg) \in Nat /\ c # msg
  <2>1. IsSeq(c) /\ Len(c) = Len(msg) + 1 /\ Len(msg) \in Nat
    BY ApplyOpFacts
  <2> HIDE DEF c
  <2> QED
    BY <2>1
<1>4. ~(Len(c) - Len(msg) >= MaxRecursion)
  <2> HIDE DEF c
  <2> QED
    BY <1>3, ConstantsAssumption, FormatAssumption
<1>5. start.open = <<msg>> /\ start.stamp = Node(msg) /\ ~start.fork
  BY DEF Reading
<1>6. middle.open = <<c>> /\ middle.stamp = N /\ ~middle.fork
  BY DEF Reading
<1> HIDE DEF t, u, start, c, N
<1>7. ReadToken(start, t, msg) = middle
  <2>1. "item" # "fork"
    OBVIOUS
  <2>2. ReadToken(start, t, msg) = ReadOne(start, Op(o), msg)
    BY <1>1, <1>2, <1>5, <2>1 DEF ReadToken
  <2>3. ReadOne(start, Op(o), msg) = Reading(N, Append(<<>>, c), FALSE)
    BY <1>1, <1>2, <1>4, <1>5 DEF ReadOne, N, c
  <2> QED
    BY <1>1, <2>2, <2>3
<1> DEFINE N2 == [N EXCEPT ![c] = Append(@, a)]
<1>8. ReadToken(middle, u, msg) = IF Readable(u) THEN Reading(N2, <<>>, FALSE) ELSE Failed
  <2> HIDE DEF middle
  <2>1. "item" # "fork"
    OBVIOUS
  <2>2. ReadToken(middle, u, msg) = IF Readable(u) THEN ReadOne(middle, a, msg) ELSE Failed
    BY <1>1, <1>2, <1>6, <2>1 DEF ReadToken
  <2>3. ReadOne(middle, a, msg) = Reading(N2, <<>>, FALSE)
    BY <1>1, <1>6 DEF ReadOne
  <2> QED
    BY <2>2, <2>3
<1>9. N2 = Branch(msg, o, a)
  <2>1. Append(<<>>, Op(o)) = <<Op(o)>> /\ Append(<<>>, a) = <<a>>
    OBVIOUS
  <2> DEFINE N1 == [Node(msg) EXCEPT ![msg] = Append(@, Op(o))]
  <2>2. DOMAIN N1 = {msg} /\ N1[msg] = <<Op(o)>>
    BY <2>1 DEF Node
  <2> HIDE DEF N1
  <2>3. N = [m \in {msg, c} |-> IF m = msg THEN <<Op(o)>> ELSE <<>>]
    BY <1>3, <2>2 DEF N, N1, WithNode, ItemsAt
  <2>4. N2 = [m \in {msg, c} |-> IF m = msg THEN <<Op(o)>> ELSE <<a>>]
    BY <1>3, <2>1, <2>3
  <2> QED
    BY <2>4 DEF Branch, c
<1> HIDE DEF middle, N2
<1>10. ReadTimestamp(start, <<t, u>>, msg) = IF Readable(u) THEN Reading(N2, <<>>, FALSE) ELSE Failed
  <2>1. IsSeq(<<t>>) /\ IsSeq(<<u>>)
    BY OneSeq
  <2>5. <<t, u>> = <<t>> \o <<u>>
    BY PairSeq
  <2>2. ReadTimestamp(start, <<t>> \o <<u>>, msg) = ReadTimestamp(ReadTimestamp(start, <<t>>, msg), <<u>>, msg)
    BY ONLY <2>1, ReadJoined
  <2>3. ReadTimestamp(start, <<t>>, msg) = middle
    BY <1>7, ReadSingle
  <2>4. ReadTimestamp(middle, <<u>>, msg) = ReadToken(middle, u, msg)
    BY ReadSingle
  <2> QED
    BY <1>8, <2>2, <2>3, <2>4, <2>5
<1>11. /\ Reading(N2, <<>>, FALSE).ok /\ Reading(N2, <<>>, FALSE).open = <<>>
       /\ ~Failed.ok
  BY DEF Reading, Failed
<1>12. Parse(<<t, u>>, msg) = IF Readable(u) THEN Reading(N2, <<>>, FALSE) ELSE Failed
  BY <1>10, <1>11 DEF Parse, start
<1> QED
  BY <1>9, <1>12 DEF t, u

-------------------------------------------------------------------------------
(* The messages.                                                           *)

LEMMA RootFacts == IsSeq(Root) /\ Len(Root) = 1
BY OneSeq DEF Root

(* The lengths tell the root, the digest and the commitments apart. *)
LEMMA DigestFacts ==
  ASSUME NEW n \in Nat
  PROVE  /\ IsSeq(Digest(n)) /\ Len(Digest(n)) = 3
         /\ IsSeq(ApplyOp(Nonce(n), Root)) /\ Len(ApplyOp(Nonce(n), Root)) = 2
         /\ Nonce(n) \in Nat /\ Sha256 \in Nat
         /\ \A c : IsSeq(Commitment(c, Digest(n))) /\ Len(Commitment(c, Digest(n))) = 4
<1> DEFINE u == ApplyOp(Nonce(n), Root)
           v == Digest(n)
<1>1. IsSeq(u) /\ Len(u) = 2
  <2>1. IsSeq(u) /\ Len(u) = Len(Root) + 1
    BY RootFacts, ApplyOpFacts
  <2> QED
    BY <2>1, RootFacts
<1>2. v = ApplyOp(Sha256, u)
  BY DEF Digest
<1> HIDE DEF u, v
<1>3. IsSeq(v) /\ Len(v) = 3
  <2>1. IsSeq(v) /\ Len(v) = Len(u) + 1
    BY <1>1, <1>2, ApplyOpFacts
  <2> QED
    BY <1>1, <2>1
<1>4. \A c : IsSeq(Commitment(c, v)) /\ Len(Commitment(c, v)) = 4
  <2> TAKE c
  <2>1. IsSeq(Commitment(c, v)) /\ Len(Commitment(c, v)) = Len(v) + 1
    BY <1>3, ApplyOpFacts DEF Commitment
  <2> QED
    BY <1>3, <2>1
<1>5. Nonce(n) \in Nat /\ Sha256 \in Nat
  BY DEF Nonce, Sha256
<1> QED
  BY <1>1, <1>3, <1>4, <1>5 DEF u, v

-------------------------------------------------------------------------------
(* What the timestamps hold.                                               *)

HasKind(ts, k) == \E m \in DOMAIN ts : \E x \in Range(ts[m]) : x[1] = k

(* Every promise was made for a digest its calendar holds, and hangs off   *)
(* the commitment to it, or off the one operation a newer promise takes;   *)
(* every Bitcoin attestation hangs off the Merkle root of its block.       *)
Stands(ts, held, chain) ==
  \A m \in DOMAIN ts : \A x \in Range(ts[m]) :
    /\ x[1] = 2 => \E t \in held :
         t[1] = x[2] /\ (m = Commitment(t[1], t[2]) \/ m = ApplyOp(ToPromise, Commitment(t[1], t[2])))
    /\ x[1] = 1 => x[2] \in DOMAIN chain /\ m = ApplyOp(ToBlock(x[2]), chain[x[2]])

(* A timestamp nothing was redeemed of yet. *)
Fresh(ts, held) ==
  \A m \in DOMAIN ts : \A x \in Range(ts[m]) :
    /\ x[1] # 1
    /\ x[1] = 2 => \E t \in held : t[1] = x[2] /\ m = Commitment(t[1], t[2])

IsPromiseOf(p, ts) ==
  /\ p = [msg |-> p.msg, attestation |-> p.attestation]
  /\ p.msg \in DOMAIN ts /\ p.attestation \in Range(ts[p.msg]) /\ p.attestation[1] = 2

(* Promises and Blocks are the items of kinds 2 and 1. *)
LEMMA KindsOf ==
  ASSUME NEW ts
  PROVE  /\ Promises(ts) # {} <=> HasKind(ts, 2)
         /\ Blocks(ts) # {} <=> HasKind(ts, 1)
         /\ \A p : p \in Promises(ts) <=> IsPromiseOf(p, ts)
         /\ \A b : b \in Blocks(ts) <=>
              /\ b = [msg |-> b.msg, attestation |-> b.attestation]
              /\ b.msg \in DOMAIN ts /\ b.attestation \in Range(ts[b.msg]) /\ b.attestation[1] = 1
<1>1. Pending(0)[1] = 2 /\ Bitcoin(0)[1] = 1
  BY DEF Pending, Bitcoin
<1>2. \A a : a \in AllAttestations(ts) <=>
        \E m \in DOMAIN ts : \E x \in Range(ts[m]) : x[1] # 3 /\ a = [msg |-> m, attestation |-> x]
  BY DEF AllAttestations, IsOp
<1>3. ASSUME NEW k \in {1, 2}, NEW a
      PROVE  (a \in AllAttestations(ts) /\ a.attestation[1] = k) <=>
                /\ a = [msg |-> a.msg, attestation |-> a.attestation]
                /\ a.msg \in DOMAIN ts /\ a.attestation \in Range(ts[a.msg]) /\ a.attestation[1] = k
  <2>1. k # 3
    OBVIOUS
  <2>2. ASSUME a \in AllAttestations(ts), a.attestation[1] = k
        PROVE  /\ a = [msg |-> a.msg, attestation |-> a.attestation]
               /\ a.msg \in DOMAIN ts /\ a.attestation \in Range(ts[a.msg])
    <3>1. PICK m \in DOMAIN ts : \E x \in Range(ts[m]) : x[1] # 3 /\ a = [msg |-> m, attestation |-> x]
      BY <1>2, <2>2
    <3>2. PICK x \in Range(ts[m]) : a = [msg |-> m, attestation |-> x]
      BY <3>1
    <3>3. a.msg = m /\ a.attestation = x
      BY <3>2
    <3> QED
      BY <3>2, <3>3
  <2>3. ASSUME a = [msg |-> a.msg, attestation |-> a.attestation],
               a.msg \in DOMAIN ts, a.attestation \in Range(ts[a.msg]), a.attestation[1] = k
        PROVE  a \in AllAttestations(ts)
    BY <1>2, <2>1, <2>3
  <2> QED
    BY <2>2, <2>3
<1>4. \A p : p \in Promises(ts) <=> IsPromiseOf(p, ts)
  BY <1>1, <1>3 DEF Promises, IsPromiseOf, AllAttestations
<1>5. \A b : b \in Blocks(ts) <=>
              /\ b = [msg |-> b.msg, attestation |-> b.attestation]
              /\ b.msg \in DOMAIN ts /\ b.attestation \in Range(ts[b.msg]) /\ b.attestation[1] = 1
  BY <1>1, <1>3 DEF Blocks, AllAttestations
<1>6. Promises(ts) # {} <=> HasKind(ts, 2)
  <2>1. ASSUME NEW m \in DOMAIN ts, NEW x \in Range(ts[m]), x[1] = 2
        PROVE  Promises(ts) # {}
    <3> DEFINE p == [msg |-> m, attestation |-> x]
    <3>1. p = [msg |-> p.msg, attestation |-> p.attestation] /\ p.msg = m /\ p.attestation = x
      OBVIOUS
    <3> HIDE DEF p
    <3>2. IsPromiseOf(p, ts)
      BY <2>1, <3>1 DEF IsPromiseOf
    <3> QED
      BY <1>4, <3>2
  <2>2. ASSUME NEW p, IsPromiseOf(p, ts)
        PROVE  HasKind(ts, 2)
    BY <2>2 DEF IsPromiseOf, HasKind
  <2> QED
    BY <1>4, <2>1, <2>2 DEF HasKind
<1>7. Blocks(ts) # {} <=> HasKind(ts, 1)
  <2>1. ASSUME NEW m \in DOMAIN ts, NEW x \in Range(ts[m]), x[1] = 1
        PROVE  Blocks(ts) # {}
    <3> DEFINE b == [msg |-> m, attestation |-> x]
    <3>1. b = [msg |-> b.msg, attestation |-> b.attestation] /\ b.msg = m /\ b.attestation = x
      OBVIOUS
    <3> HIDE DEF b
    <3>2. b \in Blocks(ts)
      BY <1>5, <2>1, <3>1
    <3> QED
      BY <3>2
  <2>2. ASSUME NEW b, b \in Blocks(ts)
        PROVE  HasKind(ts, 1)
    BY <1>5, <2>2 DEF HasKind
  <2> QED
    BY <2>1, <2>2 DEF HasKind
<1> QED
  BY <1>4, <1>5, <1>6, <1>7

(* It stands as more digests are taken and more blocks are found. *)
Extends(held, chain, more, longer) ==
  held \subseteq more /\ \A h \in DOMAIN chain : h \in DOMAIN longer /\ longer[h] = chain[h]

LEMMA StandsStill ==
  ASSUME NEW ts, NEW held, NEW chain, NEW more, NEW longer, Extends(held, chain, more, longer)
  PROVE  /\ Stands(ts, held, chain) => Stands(ts, more, longer)
         /\ Fresh(ts, held) => Fresh(ts, more)
<1>1. Stands(ts, held, chain) => Stands(ts, more, longer)
  BY DEF Stands, Extends
<1>2. Fresh(ts, held) => Fresh(ts, more)
  BY DEF Fresh, Extends
<1> QED
  BY <1>1, <1>2

(* A receipt: a file of a tree, in order, at the level its status names. *)
IsReceipt(r, held, chain) ==
  LET read == Parse(r.proof, Root)
      ts == read.stamp
  IN /\ read.ok /\ WriteTimestamp(ts, Root) = r.proof
     /\ IsTimestamp(ts, Root) /\ IsFull(ts) /\ \A m \in DOMAIN ts : Ascending(ts[m], Len(ts[m]))
     /\ HasKind(ts, 2) /\ Stands(ts, held, chain)
     /\ \/ r.status = "pending" /\ Fresh(ts, held)
        \/ r.status = "final" /\ HasKind(ts, 1)

(* A full tree with a promise makes a receipt. *)
LEMMA Receipted ==
  ASSUME NEW ts, IsTimestamp(ts, Root), IsFull(ts), NEW held, NEW chain,
         HasKind(ts, 2), Stands(ts, held, chain), NEW status,
         (status = "pending" /\ Fresh(ts, held)) \/ (status = "final" /\ HasKind(ts, 1))
  PROVE  IsReceipt([status |-> status, proof |-> WriteTimestamp(ts, Root)], held, chain)
<1> DEFINE file == WriteTimestamp(ts, Root)
           us == Canonical(ts)
           read == Parse(file, Root)
<1>1. read = Reading(us, <<>>, FALSE) /\ WriteTimestamp(us, Root) = file
  BY FilesReadBack
<1>2. read.ok /\ read.stamp = us
  BY <1>1 DEF Reading
<1>3. DOMAIN us = DOMAIN ts /\ \A m \in DOMAIN ts : us[m] = Sorted(ts[m])
  BY DEF Canonical
<1>4. IsTimestamp(us, Root)
  BY CanonicalTree
<1> HIDE DEF us, file
<1>5. \A m \in DOMAIN ts : /\ Range(us[m]) = Range(ts[m]) /\ Ascending(us[m], Len(us[m]))
                           /\ (Len(us[m]) > 0 <=> Len(ts[m]) > 0)
  BY <1>3, SortedNode
<1>6. IsFull(us)
  BY <1>3, <1>5 DEF IsFull
<1>7. HasKind(us, 2) /\ (HasKind(ts, 1) => HasKind(us, 1))
  BY <1>3, <1>5 DEF HasKind
<1>8. Stands(us, held, chain) /\ (Fresh(ts, held) => Fresh(us, held))
  <2>1. Stands(us, held, chain)
    BY <1>3, <1>5 DEF Stands
  <2>2. Fresh(ts, held) => Fresh(us, held)
    BY <1>3, <1>5 DEF Fresh
  <2> QED
    BY <2>1, <2>2
<1> DEFINE r == [status |-> status, proof |-> file]
<1>9. r.status = status /\ r.proof = file
  OBVIOUS
<1> HIDE DEF r
<1>10. IsReceipt(r, held, chain)
  BY <1>1, <1>2, <1>3, <1>4, <1>5, <1>6, <1>7, <1>8, <1>9 DEF IsReceipt
<1> QED
  BY <1>10 DEF r, file

-------------------------------------------------------------------------------
(* anchor collects the answers of the calendars under a digest.            *)

HashedTree(n) == AddOp(AddOp(Node(Root), Root, Nonce(n)), ApplyOp(Nonce(n), Root), Sha256)

(* What is collected: only the digest may have nothing below it. *)
IsCollected(ts, held, n) ==
  /\ IsTimestamp(ts, Root) /\ Digest(n) \in DOMAIN ts /\ Fresh(ts, held)
  /\ \A m \in DOMAIN ts : Len(ts[m]) > 0 \/ m = Digest(n)

(* What anchor starts from: the nonce and its hash. *)
LEMMA HashedIs ==
  ASSUME NEW n \in Nat, NEW held
  PROVE  IsCollected(HashedTree(n), held, n)
<1> DEFINE a == Node(Root)
           u == ApplyOp(Nonce(n), Root)
           b == AddOp(a, Root, Nonce(n))
           v == ApplyOp(Sha256, u)
           d == AddOp(b, u, Sha256)
<1>1. /\ IsSeq(Root) /\ Len(Root) = 1 /\ IsSeq(u) /\ Len(u) = 2 /\ v = Digest(n) /\ Len(v) = 3
      /\ Nonce(n) \in Nat /\ Sha256 \in Nat
  BY RootFacts, DigestFacts DEF Digest
<1>2. DOMAIN a = {Root} /\ a[Root] = <<>>
  BY DEF Node
<1> HIDE DEF a
<1>3. IsTimestamp(a, Root)
  <2>1. IsItems(a[Root]) /\ DOMAIN a[Root] = {}
    BY <1>2, NothingIsSeq DEF IsItems
  <2>2. Len(Root) - Len(Root) < MaxRecursion
    BY <1>1, FormatAssumption
  <2>3. IsNode(a, Root, Root)
    BY <1>1, <2>1, <2>2 DEF IsNode
  <2> QED
    BY <1>1, <1>2, <2>3 DEF IsTimestamp
<1>4. u # Root /\ v # u /\ v # Root
  <2> HIDE DEF u, v
  <2> QED
    BY <1>1
<1>5. Len(u) - Len(Root) < MaxRecursion /\ Len(v) - Len(Root) < MaxRecursion
  <2> HIDE DEF u, v
  <2> QED
    BY <1>1, FormatAssumption, ConstantsAssumption
<1>6. /\ Grown(a, b, Root, Nonce(n), u) /\ b[u] = ItemsAt(a, u)
  BY <1>2, <1>4, AddOpGrows
<1> HIDE DEF b
<1>7. /\ IsTimestamp(b, Root)
      /\ \A m \in DOMAIN b : \A x \in Range(b[m]) :
           (m \in DOMAIN a /\ x \in Range(a[m])) \/ (m = Root /\ x = Op(Nonce(n))) \/ (m = u /\ x \in {})
      /\ \A m \in DOMAIN a : Len(a[m]) > 0 \/ m = Root => Len(b[m]) > 0
  <2> DEFINE E == {}
             o == Nonce(n)
  <2>1. /\ IsTimestamp(a, Root) /\ Root \in DOMAIN a /\ o \in Nat /\ u = ApplyOp(o, Root)
        /\ Len(u) - Len(Root) < MaxRecursion /\ Grown(a, b, Root, o, u) /\ Hangs(a, b, u, E)
    BY <1>1, <1>2, <1>3, <1>5, <1>6 DEF Hangs
  <2> HIDE DEF E, o, u
  <2>2. StaysTree(a, Root, b, Root, o, u, E)
    BY ONLY <2>1, GrownTree
  <2> QED
    BY <2>2 DEF StaysTree, E, o
<1>8. DOMAIN b = {Root, u}
  BY <1>2, <1>6 DEF Grown
<1>9. /\ Grown(b, d, u, Sha256, v) /\ d[v] = ItemsAt(b, v)
  BY <1>4, <1>8, AddOpGrows
<1> HIDE DEF d
<1>10. /\ IsTimestamp(d, Root)
       /\ \A m \in DOMAIN d : \A x \in Range(d[m]) :
            (m \in DOMAIN b /\ x \in Range(b[m])) \/ (m = u /\ x = Op(Sha256)) \/ (m = v /\ x \in {})
       /\ \A m \in DOMAIN b : Len(b[m]) > 0 \/ m = u => Len(d[m]) > 0
  <2> DEFINE E == {}
             o == Sha256
  <2>1. /\ IsTimestamp(b, Root) /\ u \in DOMAIN b /\ o \in Nat /\ v = ApplyOp(o, u)
        /\ Len(v) - Len(Root) < MaxRecursion /\ Grown(b, d, u, o, v) /\ Hangs(b, d, v, E)
    BY <1>1, <1>5, <1>7, <1>8, <1>9 DEF Hangs
  <2> HIDE DEF E, o, u, v
  <2>2. StaysTree(b, Root, d, u, o, v, E)
    BY ONLY <2>1, GrownTree
  <2> QED
    BY <2>2 DEF StaysTree, E, o
<1>11. DOMAIN d = {Root, u, v}
  BY <1>8, <1>9 DEF Grown
<1>12. \A m \in DOMAIN d : \A x \in Range(d[m]) : x[1] = 3
  <2>1. Range(<<>>) = {}
    BY DEF Range
  <2>2. Op(Nonce(n))[1] = 3 /\ Op(Sha256)[1] = 3
    BY DEF Op
  <2> QED
    BY <1>2, <1>7, <1>10, <2>1, <2>2
<1>13. Fresh(d, held)
  <2>1. 3 # 1 /\ 3 # 2
    OBVIOUS
  <2> QED
    BY <1>12, <2>1 DEF Fresh
<1>14. \A m \in DOMAIN d : Len(d[m]) > 0 \/ m = Digest(n)
  BY <1>1, <1>2, <1>7, <1>8, <1>10, <1>11
<1>15. Digest(n) \in DOMAIN d
  BY <1>1, <1>11
<1> QED
  BY <1>10, <1>13, <1>14, <1>15 DEF IsCollected, HashedTree, d, b, a

(* The answer of a pool: none, or a promise of its calendar, which holds   *)
(* the digest.                                                             *)
IsAnswer(answer, c, held, n) ==
  \/ answer = Failed
  \/ /\ answer = Reading(Branch(Digest(n), ToCalendar(c), Pending(c)), <<>>, FALSE)
     /\ <<c, Digest(n)>> \in held

LEMMA PromiseIsItem ==
  ASSUME NEW c \in Nat
  PROVE  /\ IsAttestation(Pending(c)) /\ Pending(c)[1] = 2 /\ Pending(c)[2] = c
         /\ ToCalendar(c) \in Nat /\ ToPromise \in Nat
BY DEF Pending, IsAttestation, IsItem, IsOp, Readable, Token, Bitcoin, ToCalendar, ToPromise

(* One answer merged in. *)
LEMMA CollectOne ==
  ASSUME NEW ts, NEW n \in Nat, NEW held, IsCollected(ts, held, n),
         NEW c \in Nat, <<c, Digest(n)>> \in held
  PROVE  LET us == MergeTimestamp(ts, Branch(Digest(n), ToCalendar(c), Pending(c)))
         IN IsCollected(us, held, n) /\ Len(us[Digest(n)]) > 0 /\ HasKind(us, 2)
<1> DEFINE msg == Digest(n)
           k == Commitment(c, msg)
           us == MergeTimestamp(ts, Branch(msg, ToCalendar(c), Pending(c)))
<1>1. /\ IsSeq(msg) /\ Len(msg) = 3 /\ IsSeq(k) /\ Len(k) = 4 /\ Len(Root) = 1
      /\ k = ApplyOp(ToCalendar(c), msg)
  BY DigestFacts, RootFacts DEF Commitment
<1>2. IsAttestation(Pending(c)) /\ Pending(c)[1] = 2 /\ Pending(c)[2] = c /\ ToCalendar(c) \in Nat
  BY PromiseIsItem
<1>3. IsTimestamp(ts, Root) /\ msg \in DOMAIN ts /\ Fresh(ts, held) /\ \A m \in DOMAIN ts : Len(ts[m]) > 0 \/ m = msg
  BY DEF IsCollected
<1> HIDE DEF msg, k
<1>4. k # msg /\ Len(k) - Len(Root) < MaxRecursion
  <2>1. MaxRecursion \in Nat /\ MaxRecursion > 4
    BY FormatAssumption, ConstantsAssumption
  <2>2. Len(k) - Len(Root) < MaxRecursion
    BY ONLY <1>1, <2>1
  <2> QED
    BY <1>1, <2>2
<1>5. Grown(ts, us, msg, ToCalendar(c), k) /\ us[k] = AddItem(ItemsAt(ts, k), Pending(c))
  BY <1>1, <1>3, <1>4, MergeGrows
<1> HIDE DEF us
<1> DEFINE A == {Pending(c)}
<1>6. \E a : IsAttestation(a) /\ A = {a} /\ us[k] = AddItem(ItemsAt(ts, k), a)
  BY <1>2, <1>5
<1> HIDE DEF A
<1>7. /\ IsTimestamp(us, Root) /\ A \subseteq Range(us[k])
      /\ \A m \in DOMAIN us : \A x \in Range(us[m]) :
           (m \in DOMAIN ts /\ x \in Range(ts[m])) \/ (m = msg /\ x = Op(ToCalendar(c))) \/ (m = k /\ x \in A)
      /\ \A m \in DOMAIN ts : Len(ts[m]) > 0 \/ m = msg => Len(us[m]) > 0
  <2> DEFINE o == ToCalendar(c)
  <2>1. /\ IsTimestamp(ts, Root) /\ msg \in DOMAIN ts /\ o \in Nat /\ k = ApplyOp(o, msg)
        /\ Len(k) - Len(Root) < MaxRecursion /\ Grown(ts, us, msg, o, k)
        /\ Hangs(ts, us, k, A)
    BY <1>1, <1>2, <1>3, <1>4, <1>5, <1>6 DEF Hangs
  <2> HIDE DEF o
  <2>2. StaysTree(ts, Root, us, msg, o, k, A)
    BY ONLY <2>1, GrownTree
  <2> QED
    BY <2>2 DEF StaysTree, o
<1>8. DOMAIN us = DOMAIN ts \cup {k}
  BY <1>5 DEF Grown
<1>9. Len(us[k]) > 0
  <2>1. IsNode(us, Root, k) /\ Pending(c) \in Range(us[k])
    BY <1>7, <1>8 DEF IsTimestamp, A
  <2>2. IsSeq(us[k])
    BY <2>1 DEF IsNode, IsItems
  <2>3. PICK i \in DOMAIN us[k] : TRUE
    BY <2>1 DEF Range
  <2>4. i \in 1..Len(us[k]) /\ Len(us[k]) \in Nat
    BY <2>2, SeqFacts
  <2> QED
    BY <2>4
<1>10. Fresh(us, held)
  <2> SUFFICES ASSUME NEW m \in DOMAIN us, NEW x \in Range(us[m])
               PROVE  /\ x[1] # 1
                      /\ x[1] = 2 => \E t \in held : t[1] = x[2] /\ m = Commitment(t[1], t[2])
    BY DEF Fresh
  <2>1. CASE m \in DOMAIN ts /\ x \in Range(ts[m])
    BY <1>3, <2>1 DEF Fresh
  <2>2. CASE x = Op(ToCalendar(c))
    <3>1. x[1] = 3 /\ 3 # 1 /\ 3 # 2
      BY <2>2 DEF Op
    <3> QED
      BY <3>1
  <2>3. CASE m = k /\ x \in A
    <3>1. x[1] = 2 /\ x[2] = c /\ 2 # 1
      BY <1>2, <2>3 DEF A
    <3> DEFINE t == <<c, msg>>
    <3>2. t \in held /\ t[1] = x[2] /\ m = Commitment(t[1], t[2])
      BY <2>3, <3>1 DEF msg, k
    <3> QED
      BY <3>1, <3>2
  <2> QED
    BY <1>7, <2>1, <2>2, <2>3
<1>11. msg \in DOMAIN us /\ \A m \in DOMAIN us : Len(us[m]) > 0
  BY <1>3, <1>7, <1>8, <1>9
<1>12. HasKind(us, 2)
  <2>1. Pending(c) \in Range(us[k]) /\ k \in DOMAIN us
    BY <1>7, <1>8 DEF A
  <2> QED
    BY <1>2, <2>1 DEF HasKind
<1> QED
  BY <1>3, <1>7, <1>10, <1>11, <1>12 DEF IsCollected, us, msg

IsMerged(g, first, A, answers, k) ==
  g = [i \in 0..k |-> IF i = 0 THEN first ELSE IF i \in A THEN MergeTimestamp(g[i - 1], answers[i].stamp) ELSE g[i - 1]]

(* The recursive function AnchorTree is defined by exists, for every length. *)
LEMMA MergedUpTo ==
  ASSUME NEW first, NEW A, NEW answers, NEW k \in Nat
  PROVE  \E g : IsMerged(g, first, A, answers, k)
<1> DEFINE S == {n \in Nat : \E g : IsMerged(g, first, A, answers, n)}
<1>1. 0 \in S
  <2> DEFINE g == [i \in 0..0 |-> first]
  <2>1. IsMerged(g, first, A, answers, 0)
    BY DEF IsMerged
  <2> QED
    BY <2>1
<1>2. ASSUME NEW n \in 1..k, n - 1 \in S
      PROVE  n \in S
  <2>1. PICK g : IsMerged(g, first, A, answers, n - 1)
    BY <1>2
  <2> DEFINE h == [i \in 0..n |-> IF i = n THEN
                      IF n \in A THEN MergeTimestamp(g[n - 1], answers[n].stamp) ELSE g[n - 1] ELSE g[i]]
  <2>2. \A i \in 0..n : h[i] = IF i = 0 THEN first ELSE
                  IF i \in A THEN MergeTimestamp(h[i - 1], answers[i].stamp) ELSE h[i - 1]
    <3> SUFFICES ASSUME NEW i \in 0..n
                 PROVE  h[i] = IF i = 0 THEN first ELSE
                                 IF i \in A THEN MergeTimestamp(h[i - 1], answers[i].stamp) ELSE h[i - 1]
      OBVIOUS
    <3>1. CASE i = n
      <4>1. n - 1 \in 0..n /\ n - 1 # n /\ n # 0
        OBVIOUS
      <4>2. h[n - 1] = g[n - 1]
        BY <4>1
      <4> QED
        BY <3>1, <4>1, <4>2
    <3>2. CASE i # n
      <4>1. i \in 0..(n - 1)
        BY <3>2
      <4>2. g[i] = IF i = 0 THEN first ELSE IF i \in A THEN MergeTimestamp(g[i - 1], answers[i].stamp) ELSE g[i - 1]
        BY <2>1, <4>1 DEF IsMerged
      <4>3. h[i] = g[i] /\ (i # 0 => h[i - 1] = g[i - 1])
        BY <3>2, <4>1
      <4> QED
        BY <4>2, <4>3
    <3> QED
      BY <3>1, <3>2
  <2>3. h = [i \in 0..n |-> IF i = 0 THEN first ELSE
                IF i \in A THEN MergeTimestamp(h[i - 1], answers[i].stamp) ELSE h[i - 1]]
    BY <2>2
  <2>4. IsMerged(h, first, A, answers, n)
    BY <2>3 DEF IsMerged
  <2> QED
    BY <2>4
<1>3. 0..k \subseteq S
  <2> HIDE DEF S
  <2> QED
    BY <1>1, <1>2, UpTo
<1> QED
  BY <1>3

(* All answers merged in: with at least one, the tree is full and has a    *)
(* promise.                                                                *)
LEMMA CollectedIs ==
  ASSUME NEW n \in Nat, NEW held, NEW answers, NEW A, NEW l \in Nat,
         \A i \in 1..l : \E c \in Nat : IsAnswer(answers[i], c, held, n),
         A = {i \in 1..l : answers[i].ok}, A # {},
         NEW g, IsMerged(g, HashedTree(n), A, answers, l)
  PROVE  IsTimestamp(g[l], Root) /\ IsFull(g[l]) /\ HasKind(g[l], 2) /\ Fresh(g[l], held)
<1> DEFINE Ok(i) == /\ IsCollected(g[i], held, n)
                    /\ (\E j \in 1..i : j \in A) => Len(g[i][Digest(n)]) > 0 /\ HasKind(g[i], 2)
           S == {i \in 0..l : Ok(i)}
<1>1. /\ g[0] = HashedTree(n)
      /\ \A i \in 1..l : g[i] = IF i \in A THEN MergeTimestamp(g[i - 1], answers[i].stamp) ELSE g[i - 1]
  <2>1. 0 \in 0..l /\ \A i \in 1..l : i \in 0..l /\ i # 0
    OBVIOUS
  <2> QED
    BY <2>1 DEF IsMerged
<1>2. 0 \in S
  <2>1. IsCollected(g[0], held, n)
    BY <1>1, HashedIs
  <2>2. ~\E j \in 1..0 : j \in A
    OBVIOUS
  <2> QED
    BY <2>1, <2>2
<1>3. ASSUME NEW i \in 1..l, i - 1 \in S
      PROVE  i \in S
  <2>1. i \in 0..l /\ \A j \in 1..i : j = i \/ j \in 1..(i - 1)
    OBVIOUS
  <2>2. CASE i \notin A
    <3>1. g[i] = g[i - 1]
      BY <1>1, <2>2
    <3>2. (\E j \in 1..i : j \in A) => \E j \in 1..(i - 1) : j \in A
      BY <2>1, <2>2
    <3> QED
      BY <1>3, <2>1, <3>1, <3>2
  <2>3. CASE i \in A
    <3>1. answers[i].ok
      BY <2>3
    <3>2. PICK c \in Nat : IsAnswer(answers[i], c, held, n)
      OBVIOUS
    <3>3. /\ answers[i] = Reading(Branch(Digest(n), ToCalendar(c), Pending(c)), <<>>, FALSE)
          /\ <<c, Digest(n)>> \in held
      <4>1. ~Failed.ok
        BY DEF Failed
      <4> QED
        BY <3>1, <3>2, <4>1 DEF IsAnswer
    <3>4. answers[i].stamp = Branch(Digest(n), ToCalendar(c), Pending(c))
      BY <3>3 DEF Reading
    <3>5. g[i] = MergeTimestamp(g[i - 1], Branch(Digest(n), ToCalendar(c), Pending(c)))
      BY <1>1, <2>3, <3>4
    <3>6. IsCollected(g[i - 1], held, n)
      BY <1>3
    <3>7. IsCollected(g[i], held, n) /\ Len(g[i][Digest(n)]) > 0 /\ HasKind(g[i], 2)
      BY <3>3, <3>5, <3>6, CollectOne
    <3> QED
      BY <2>1, <3>7
  <2> QED
    BY <2>2, <2>3
<1>4. l \in S
  <2> HIDE DEF S
  <2>1. 0..l \subseteq S
    BY <1>2, <1>3, UpTo
  <2> QED
    BY <2>1
<1>5. \E j \in 1..l : j \in A
  OBVIOUS
<1>6. IsCollected(g[l], held, n) /\ Len(g[l][Digest(n)]) > 0 /\ HasKind(g[l], 2)
  BY <1>4, <1>5
<1> QED
  BY <1>6 DEF IsCollected, IsFull

-------------------------------------------------------------------------------
(* upgrade merges an answer where its promise hangs.                       *)

(* An upgrade's answer leaves a full tree that stands, with all its        *)
(* promises.                                                               *)
LEMMA MergeAnswer ==
  ASSUME NEW ts, IsTimestamp(ts, Root), IsFull(ts), NEW held, NEW chain, Stands(ts, held, chain),
         HasKind(ts, 2), NEW msg \in DOMAIN ts, Len(msg) = 4, NEW o \in Nat, NEW a, IsAttestation(a),
         a[1] = 2 => \E t \in held : t[1] = a[2] /\ ApplyOp(o, msg) = ApplyOp(ToPromise, Commitment(t[1], t[2])),
         a[1] = 1 => a[2] \in DOMAIN chain /\ ApplyOp(o, msg) = ApplyOp(ToBlock(a[2]), chain[a[2]])
  PROVE  LET us == MergeTimestamp(ts, Branch(msg, o, a))
         IN /\ IsTimestamp(us, Root) /\ IsFull(us) /\ Stands(us, held, chain) /\ HasKind(us, 2)
            /\ \A p : IsPromiseOf(p, ts) => IsPromiseOf(p, us)
<1> DEFINE c == ApplyOp(o, msg)
           us == MergeTimestamp(ts, Branch(msg, o, a))
           A == {a}
<1>1. IsSeq(msg) /\ Len(Root) = 1
  BY RootFacts DEF IsTimestamp, IsNode
<1>2. IsSeq(c) /\ Len(c) = Len(msg) + 1
  BY <1>1, ApplyOpFacts
<1>3. c # msg
  <2> HIDE DEF c
  <2> QED
    BY <1>2
<1>4. Grown(ts, us, msg, o, c) /\ us[c] = AddItem(ItemsAt(ts, c), a)
  BY <1>3, MergeGrows
<1>5. Len(c) - Len(Root) < MaxRecursion
  <2>1. MaxRecursion \in Nat /\ MaxRecursion > 4 /\ Len(c) = 5
    BY <1>2, FormatAssumption, ConstantsAssumption
  <2> HIDE DEF c
  <2> QED
    BY ONLY <1>1, <2>1
<1>6. Hangs(ts, us, c, A)
  <2> HIDE DEF us, c
  <2> QED
    BY <1>4 DEF Hangs
<1>7. c = ApplyOp(o, msg)
  OBVIOUS
<1> HIDE DEF us, c, A
<1>8. StaysTree(ts, Root, us, msg, o, c, A)
  BY <1>4, <1>5, <1>6, <1>7, GrownTree
<1>9. DOMAIN us = DOMAIN ts \cup {c}
  BY <1>4 DEF Grown
<1>10. /\ IsTimestamp(us, Root) /\ A \subseteq Range(us[c])
       /\ \A m \in DOMAIN us : \A x \in Range(us[m]) :
            (m \in DOMAIN ts /\ x \in Range(ts[m])) \/ (m = msg /\ x = Op(o)) \/ (m = c /\ x \in A)
       /\ \A m \in DOMAIN ts : Range(ts[m]) \subseteq Range(us[m])
       /\ \A m \in DOMAIN ts : Len(ts[m]) > 0 => Len(us[m]) > 0
  BY <1>8 DEF StaysTree
<1>11. Len(us[c]) > 0
  <2>1. IsNode(us, Root, c) /\ a \in Range(us[c])
    BY <1>9, <1>10 DEF IsTimestamp, A
  <2>2. IsSeq(us[c])
    BY <2>1 DEF IsNode, IsItems
  <2>3. PICK i \in DOMAIN us[c] : TRUE
    BY <2>1 DEF Range
  <2>4. i \in 1..Len(us[c]) /\ Len(us[c]) \in Nat
    BY <2>2, SeqFacts
  <2> QED
    BY <2>4
<1>12. IsFull(us)
  BY <1>9, <1>10, <1>11 DEF IsFull
<1>13. HasKind(us, 2)
  BY <1>9, <1>10 DEF HasKind
<1>14. \A p : IsPromiseOf(p, ts) => IsPromiseOf(p, us)
  BY <1>9, <1>10 DEF IsPromiseOf
<1>15. Stands(us, held, chain)
  <2> SUFFICES ASSUME NEW m \in DOMAIN us, NEW x \in Range(us[m])
               PROVE  /\ x[1] = 2 => \E t \in held :
                           t[1] = x[2] /\ (m = Commitment(t[1], t[2]) \/ m = ApplyOp(ToPromise, Commitment(t[1], t[2])))
                      /\ x[1] = 1 => x[2] \in DOMAIN chain /\ m = ApplyOp(ToBlock(x[2]), chain[x[2]])
    BY DEF Stands
  <2>1. CASE m \in DOMAIN ts /\ x \in Range(ts[m])
    BY <2>1 DEF Stands
  <2>2. CASE x = Op(o)
    <3>1. x[1] = 3 /\ 3 # 1 /\ 3 # 2
      BY <2>2 DEF Op
    <3> QED
      BY <3>1
  <2>3. CASE m = c /\ x \in A
    <3>1. x = a /\ m = ApplyOp(o, msg)
      BY <1>7, <2>3 DEF A
    <3> QED
      BY <3>1
  <2> QED
    BY <1>10, <2>1, <2>2, <2>3
<1> QED
  BY <1>10, <1>12, <1>13, <1>14, <1>15 DEF us

-------------------------------------------------------------------------------
(* The invariant.                                                          *)

IsChain(chain, held) ==
  IsSeq(chain) /\ \A h \in DOMAIN chain : \E t \in held : chain[h] = Commitment(t[1], t[2])

IsRow(r, held, chain) == r = <<>> \/ (r = <<r[1]>> /\ IsReceipt(r[1], held, chain))

(* A promise upgrade asks about is one of a digest, not a newer one. *)
IsAsked(p, ts, held) ==
  IsPromiseOf(p, ts) /\ \E t \in held : t[1] = p.attestation[2] /\ p.msg = Commitment(t[1], t[2])

IsCall(c, held, chain, n, r) ==
  /\ c = [at |-> c.at, waiting |-> c.waiting, answers |-> c.answers, merged |-> c.merged, tree |-> c.tree]
  /\ c.merged \in BOOLEAN
  /\ \/ c.at = "idle" /\ c.waiting = {}
     \/ /\ c.at = "anchor" /\ n > 0 /\ c.waiting \subseteq DOMAIN Pools
        /\ c.answers = [i \in DOMAIN Pools |-> c.answers[i]]
        /\ \A i \in DOMAIN Pools : IsAnswer(c.answers[i], Pools[i], held, n)
     \/ /\ c.at = "upgrade" /\ r # <<>>
        /\ IsTimestamp(c.tree, Root) /\ IsFull(c.tree) /\ HasKind(c.tree, 2) /\ Stands(c.tree, held, chain)
        /\ \A p \in c.waiting : IsAsked(p, c.tree, held)

(* Blocks hold commitments to digests calendars hold; the row is none or a *)
(* receipt; and a call in progress has what it collected so far.           *)
OtsInv ==
  /\ attempts \in 0..MaxAttempts
  /\ taken \subseteq Calendars \X {Digest(n) : n \in 1..MaxAttempts}
  /\ IsChain(block, taken)
  /\ IsRow(receipt, taken, block)
  /\ IsCall(call, taken, block, attempts, receipt)

(* A digest a calendar holds is one of an attempt. *)
LEMMA HeldFacts ==
  ASSUME OtsInv, NEW t \in taken
  PROVE  /\ t = <<t[1], t[2]>> /\ t[1] \in Calendars /\ \E n \in 1..MaxAttempts : t[2] = Digest(n)
         /\ IsSeq(Commitment(t[1], t[2])) /\ Len(Commitment(t[1], t[2])) = 4
<1>1. t = <<t[1], t[2]>> /\ t[1] \in Calendars /\ t[2] \in {Digest(n) : n \in 1..MaxAttempts}
  BY DEF OtsInv
<1>2. PICK n \in 1..MaxAttempts : t[2] = Digest(n)
  BY <1>1
<1>3. n \in Nat
  BY ConstantsAssumption
<1>4. \A c : IsSeq(Commitment(c, Digest(n))) /\ Len(Commitment(c, Digest(n))) = 4
  BY <1>3, DigestFacts
<1> QED
  BY <1>1, <1>2, <1>4

(* Rows and calls stand as more digests are taken and more blocks are      *)
(* found.                                                                  *)
LEMMA StillHolds ==
  ASSUME NEW held, NEW chain, NEW more, NEW longer, Extends(held, chain, more, longer)
  PROVE  /\ \A r : IsRow(r, held, chain) => IsRow(r, more, longer)
         /\ \A c, n, r : IsCall(c, held, chain, n, r) => IsCall(c, more, longer, n, r)
<1>1. \A ts : (Stands(ts, held, chain) => Stands(ts, more, longer)) /\ (Fresh(ts, held) => Fresh(ts, more))
  BY StandsStill
<1>2. held \subseteq more
  BY DEF Extends
<1>3. \A r : IsReceipt(r, held, chain) => IsReceipt(r, more, longer)
  BY <1>1 DEF IsReceipt
<1>4. \A r : IsRow(r, held, chain) => IsRow(r, more, longer)
  BY <1>3 DEF IsRow
<1>5. \A answer, c, n : IsAnswer(answer, c, held, n) => IsAnswer(answer, c, more, n)
  BY <1>2 DEF IsAnswer
<1>6. \A p, ts : IsAsked(p, ts, held) => IsAsked(p, ts, more)
  BY <1>2 DEF IsAsked
<1>7. \A c, n, r : IsCall(c, held, chain, n, r) => IsCall(c, more, longer, n, r)
  BY <1>1, <1>5, <1>6 DEF IsCall
<1> QED
  BY <1>4, <1>7

LEMMA IdleIs ==
  ASSUME NEW held, NEW chain, NEW n, NEW r
  PROVE  IsCall(Idle, held, chain, n, r)
BY DEF Idle, IsCall

LEMMA InitInv == Init => OtsInv
<1> SUFFICES ASSUME Init
             PROVE  OtsInv
  OBVIOUS
<1>1. attempts = 0 /\ taken = {} /\ block = <<>> /\ receipt = <<>> /\ call = Idle
  BY DEF Init
<1>2. IsChain(block, taken)
  <2>1. IsSeq(block) /\ DOMAIN block = {}
    BY <1>1, NothingIsSeq
  <2> QED
    BY <2>1 DEF IsChain
<1>3. IsCall(call, taken, block, attempts, receipt)
  BY <1>1, IdleIs
<1>4. IsRow(receipt, taken, block)
  BY <1>1 DEF IsRow
<1>5. attempts \in 0..MaxAttempts
  BY <1>1, ConstantsAssumption
<1> QED
  BY <1>1, <1>2, <1>3, <1>4, <1>5 DEF OtsInv

LEMMA ConfirmKeeps ==
  ASSUME OtsInv, NEW c, NEW digest, Confirm(c, digest)
  PROVE  OtsInv'
<1> DEFINE k == Commitment(c, digest)
<1>1. /\ <<c, digest>> \in taken /\ block' = Append(block, k)
      /\ attempts' = attempts /\ taken' = taken /\ receipt' = receipt /\ call' = call
  BY DEF Confirm
<1>2. IsChain(block, taken)
  BY DEF OtsInv
<1>3. IsSeq(block) /\ Len(block) \in Nat /\ DOMAIN block = 1..Len(block)
  BY <1>2, SeqFacts DEF IsChain
<1> HIDE DEF k
<1>4. /\ IsSeq(block') /\ DOMAIN block' = 1..(Len(block) + 1)
      /\ (\A h \in DOMAIN block : block'[h] = block[h]) /\ block'[Len(block) + 1] = k
  BY <1>1, <1>3, AppendSeq
<1>5. Extends(taken, block, taken', block')
  <2>1. \A h \in 1..Len(block) : h \in 1..(Len(block) + 1)
    BY <1>3
  <2> QED
    BY <1>1, <1>3, <1>4, <2>1 DEF Extends
<1>6. IsChain(block', taken')
  <2> SUFFICES ASSUME NEW h \in DOMAIN block'
               PROVE  \E t \in taken : block'[h] = Commitment(t[1], t[2])
    BY <1>1, <1>4 DEF IsChain
  <2>1. h = Len(block) + 1 \/ h \in 1..Len(block)
    BY <1>3, <1>4
  <2>2. CASE h = Len(block) + 1
    <3> DEFINE t == <<c, digest>>
    <3>1. t \in taken /\ block'[h] = Commitment(t[1], t[2])
      BY <1>1, <1>4, <2>2 DEF k
    <3> QED
      BY <3>1
  <2>3. CASE h \in 1..Len(block)
    BY <1>2, <1>3, <1>4, <2>3 DEF IsChain
  <2> QED
    BY <2>1, <2>2, <2>3
<1>7. IsRow(receipt, taken', block') /\ IsCall(call, taken', block', attempts, receipt)
  BY <1>5, StillHolds DEF OtsInv
<1> QED
  BY <1>1, <1>6, <1>7 DEF OtsInv

LEMMA StartAnchorKeeps ==
  ASSUME OtsInv, StartAnchor
  PROVE  OtsInv'
<1>1. /\ attempts < MaxAttempts /\ attempts' = attempts + 1
      /\ call' = [Idle EXCEPT !.at = "anchor", !.waiting = DOMAIN Pools, !.answers = [i \in DOMAIN Pools |-> Failed]]
      /\ taken' = taken /\ block' = block /\ receipt' = receipt
  BY DEF StartAnchor
<1>2. attempts \in 0..MaxAttempts /\ MaxAttempts \in Nat
  BY ConstantsAssumption DEF OtsInv
<1>3. attempts' \in 0..MaxAttempts /\ attempts' > 0
  BY <1>1, <1>2
<1>4. /\ call' = [at |-> "anchor", waiting |-> DOMAIN Pools, answers |-> [i \in DOMAIN Pools |-> Failed],
                  merged |-> FALSE, tree |-> Node(Root)]
  BY <1>1 DEF Idle
<1>5. IsCall(call', taken, block, attempts', receipt)
  BY <1>3, <1>4 DEF IsCall, IsAnswer
<1> QED
  BY <1>1, <1>3, <1>5 DEF OtsInv

LEMMA InAnchor ==
  ASSUME OtsInv, call.at = "anchor"
  PROVE  /\ attempts \in 1..MaxAttempts /\ call.waiting \subseteq DOMAIN Pools /\ call.merged \in BOOLEAN
         /\ call = [at |-> "anchor", waiting |-> call.waiting, answers |-> call.answers,
                    merged |-> call.merged, tree |-> call.tree]
         /\ call.answers = [i \in DOMAIN Pools |-> call.answers[i]]
         /\ \A i \in DOMAIN Pools : IsAnswer(call.answers[i], Pools[i], taken, attempts)
<1>1. IsCall(call, taken, block, attempts, receipt) /\ attempts \in 0..MaxAttempts
  BY DEF OtsInv
<1>2. "anchor" # "idle" /\ "anchor" # "upgrade"
  OBVIOUS
<1>3. /\ attempts > 0 /\ call.waiting \subseteq DOMAIN Pools /\ call.merged \in BOOLEAN
      /\ call = [at |-> "anchor", waiting |-> call.waiting, answers |-> call.answers,
                 merged |-> call.merged, tree |-> call.tree]
      /\ call.answers = [i \in DOMAIN Pools |-> call.answers[i]]
      /\ \A i \in DOMAIN Pools : IsAnswer(call.answers[i], Pools[i], taken, attempts)
  BY <1>1, <1>2 DEF IsCall
<1>4. attempts \in 1..MaxAttempts
  BY <1>1, <1>3
<1> QED
  BY <1>3, <1>4

LEMMA PoolFacts ==
  /\ Len(Pools) \in Nat /\ DOMAIN Pools = 1..Len(Pools)
  /\ \A i \in DOMAIN Pools : Pools[i] \in Nat /\ Pools[i] \in Calendars
<1>1. Pools \in Seq(Nat)
  BY ConstantsAssumption
<1>2. Len(Pools) \in Nat /\ DOMAIN Pools = 1..Len(Pools) /\ \A i \in 1..Len(Pools) : Pools[i] \in Nat
  BY <1>1
<1> QED
  BY <1>2 DEF Calendars, Range

(* A pool's answer is a promise of its calendar, whose digest it now       *)
(* holds.                                                                  *)
LEMMA SubmitKeeps ==
  ASSUME OtsInv, NEW i \in DOMAIN Pools, NEW answered, Submit(i, answered)
  PROVE  OtsInv'
<1> DEFINE c == Pools[i]
           answer == IF answered THEN Parse(SubmitAnswer(c), Tip) ELSE Failed
           t == <<c, Tip>>
<1>1. /\ call.at = "anchor" /\ taken' = taken \cup {t}
      /\ call' = [call EXCEPT !.waiting = @ \ {i}, !.answers[i] = answer]
      /\ attempts' = attempts /\ block' = block /\ receipt' = receipt
  BY DEF Submit
<1>2. /\ attempts \in 1..MaxAttempts /\ call.waiting \subseteq DOMAIN Pools /\ call.merged \in BOOLEAN
      /\ call = [at |-> "anchor", waiting |-> call.waiting, answers |-> call.answers,
                 merged |-> call.merged, tree |-> call.tree]
      /\ call.answers = [j \in DOMAIN Pools |-> call.answers[j]]
      /\ \A j \in DOMAIN Pools : IsAnswer(call.answers[j], Pools[j], taken, attempts)
  BY <1>1, InAnchor
<1>3. c \in Nat /\ c \in Calendars /\ attempts \in Nat /\ attempts > 0 /\ Tip = Digest(attempts)
  BY <1>2, PoolFacts, ConstantsAssumption DEF Tip
<1> HIDE DEF t
<1>4. taken' \subseteq Calendars \X {Digest(n) : n \in 1..MaxAttempts}
  <2>1. Tip \in {Digest(n) : n \in 1..MaxAttempts}
    BY <1>2, <1>3
  <2> QED
    BY <1>1, <1>3, <2>1 DEF OtsInv, t
<1>5. Extends(taken, block, taken', block')
  BY <1>1 DEF Extends
<1>6. IsChain(block', taken') /\ IsRow(receipt', taken', block')
  <2>1. IsRow(receipt, taken', block')
    BY <1>5, StillHolds DEF OtsInv
  <2>2. IsChain(block, taken')
    BY <1>1 DEF OtsInv, IsChain
  <2> QED
    BY <1>1, <2>1, <2>2
<1>7. IsAnswer(answer, c, taken', attempts)
  <2>1. CASE ~answered
    BY <2>1 DEF IsAnswer
  <2>2. CASE answered
    <3>1. IsSeq(Digest(attempts)) /\ IsAttestation(Pending(c)) /\ ToCalendar(c) \in Nat
      BY <1>3, DigestFacts, PromiseIsItem
    <3>2. IsItem(Pending(c)) /\ ~IsOp(Pending(c)) /\ Readable(Token(Pending(c)))
      BY <3>1 DEF IsAttestation
    <3>3. Parse(<<Token(Op(ToCalendar(c))), Token(Pending(c))>>, Digest(attempts))
            = Reading(Branch(Digest(attempts), ToCalendar(c), Pending(c)), <<>>, FALSE)
      BY <3>1, <3>2, AnswerReads
    <3>4. answer = Reading(Branch(Digest(attempts), ToCalendar(c), Pending(c)), <<>>, FALSE)
      BY <1>3, <2>2, <3>3 DEF SubmitAnswer
    <3>5. <<c, Digest(attempts)>> \in taken'
      BY <1>1, <1>3 DEF t
    <3> QED
      BY <3>4, <3>5 DEF IsAnswer
  <2> QED
    BY <2>1, <2>2
<1> HIDE DEF answer
<1> DEFINE answers == [j \in DOMAIN Pools |-> IF j = i THEN answer ELSE call.answers[j]]
<1>8. call' = [at |-> "anchor", waiting |-> call.waiting \ {i}, answers |-> answers,
               merged |-> call.merged, tree |-> call.tree]
  <2>1. [call.answers EXCEPT ![i] = answer] = answers
    BY <1>2
  <2> HIDE DEF answers
  <2> QED
    BY <1>1, <1>2, <2>1
<1>9. \A j \in DOMAIN Pools : IsAnswer(answers[j], Pools[j], taken', attempts)
  <2>1. \A j \in DOMAIN Pools : IsAnswer(call.answers[j], Pools[j], taken', attempts)
    BY <1>1, <1>2 DEF IsAnswer
  <2> QED
    BY <1>7, <2>1
<1>10. answers = [j \in DOMAIN Pools |-> answers[j]]
  OBVIOUS
<1> HIDE DEF answers
<1>11. IsCall(call', taken', block', attempts', receipt')
  <2>1. /\ call'.at = "anchor" /\ call'.answers = answers /\ call'.waiting = call.waiting \ {i}
        /\ call'.merged = call.merged /\ call'.tree = call.tree
    BY <1>8
  <2>2. /\ call' = [at |-> call'.at, waiting |-> call'.waiting, answers |-> call'.answers,
                    merged |-> call'.merged, tree |-> call'.tree]
        /\ call'.waiting \subseteq DOMAIN Pools
    BY <1>2, <1>8, <2>1
  <2> QED
    BY <1>1, <1>2, <1>3, <1>9, <1>10, <2>1, <2>2 DEF IsCall
<1>12. attempts' \in 0..MaxAttempts
  BY <1>1 DEF OtsInv
<1> QED
  BY <1>4, <1>6, <1>11, <1>12 DEF OtsInv

(* A request that brought nothing changes only what is waited for. *)
LEMMA WaitingLess ==
  ASSUME NEW c, NEW held, NEW chain, NEW n, NEW r, IsCall(c, held, chain, n, r), NEW i
  PROVE  IsCall([c EXCEPT !.waiting = @ \ {i}], held, chain, n, r)
<1> DEFINE d == [c EXCEPT !.waiting = @ \ {i}]
<1>1. c = [at |-> c.at, waiting |-> c.waiting, answers |-> c.answers, merged |-> c.merged, tree |-> c.tree]
  BY DEF IsCall
<1>2. d = [at |-> c.at, waiting |-> c.waiting \ {i}, answers |-> c.answers, merged |-> c.merged, tree |-> c.tree]
  BY <1>1
<1> HIDE DEF d
<1>3. /\ d.at = c.at /\ d.waiting = c.waiting \ {i} /\ d.answers = c.answers
      /\ d.merged = c.merged /\ d.tree = c.tree
  BY <1>2
<1>4. IsCall(d, held, chain, n, r)
  BY <1>2, <1>3 DEF IsCall
<1> QED
  BY <1>4 DEF d

LEMMA SubmitFailsKeeps ==
  ASSUME OtsInv, NEW i, SubmitFails(i)
  PROVE  OtsInv'
BY WaitingLess DEF SubmitFails, OtsInv

LEMMA NotUpgradedKeeps ==
  ASSUME OtsInv, NEW p, NotUpgraded(p)
  PROVE  OtsInv'
BY WaitingLess DEF NotUpgraded, OtsInv

LEMMA CrashKeeps ==
  ASSUME OtsInv, Crash
  PROVE  OtsInv'
BY IdleIs DEF Crash, OtsInv

LEMMA StutterKeeps ==
  ASSUME OtsInv, UNCHANGED vars
  PROVE  OtsInv'
BY DEF vars, OtsInv

(* With enough answers the tree is full and has a promise: a pending       *)
(* receipt.                                                                *)
LEMMA FinishAnchorKeeps ==
  ASSUME OtsInv, FinishAnchor
  PROVE  OtsInv'
<1>1. /\ call.at = "anchor" /\ call' = Idle /\ attempts' = attempts /\ taken' = taken /\ block' = block
      /\ receipt' = IF Cardinality(Accepted) < MinCalendars THEN receipt
                    ELSE <<[status |-> "pending", proof |-> WriteTimestamp(AnchorTree, Root)]>>
  BY DEF FinishAnchor
<1>2. /\ attempts \in 1..MaxAttempts
      /\ \A i \in DOMAIN Pools : IsAnswer(call.answers[i], Pools[i], taken, attempts)
  BY <1>1, InAnchor
<1>3. IsCall(call', taken, block, attempts, receipt')
  BY <1>1, IdleIs
<1>4. IsRow(receipt', taken, block)
  <2>1. CASE Cardinality(Accepted) < MinCalendars
    BY <1>1, <2>1 DEF OtsInv
  <2>2. CASE ~(Cardinality(Accepted) < MinCalendars)
    <3>1. Accepted # {}
      <4>1. Cardinality({}) = 0
        BY FS_EmptySet
      <4>2. 0 < MinCalendars
        BY ConstantsAssumption
      <4> QED
        BY <2>2, <4>1, <4>2
    <3> DEFINE A == Accepted
               answers == call.answers
               l == Len(Pools)
               n == attempts
               g == CHOOSE g : IsMerged(g, HashedTree(n), A, answers, l)
    <3>2. l \in Nat /\ n \in Nat /\ A = {i \in 1..l : answers[i].ok} /\ A # {}
          /\ \A i \in 1..l : \E c \in Nat : IsAnswer(answers[i], c, taken, n)
      BY <1>2, <3>1, PoolFacts, ConstantsAssumption DEF Accepted
    <3>3. AnchorTree = g[l]
      BY DEF AnchorTree, IsMerged, HashedTree
    <3> HIDE DEF A, answers, l, n
    <3>4. IsMerged(g, HashedTree(n), A, answers, l)
      BY <3>2, MergedUpTo
    <3> HIDE DEF g
    <3>5. IsTimestamp(g[l], Root) /\ IsFull(g[l]) /\ HasKind(g[l], 2) /\ Fresh(g[l], taken)
      BY <3>2, <3>4, CollectedIs
    <3> DEFINE ts == g[l]
               r == [status |-> "pending", proof |-> WriteTimestamp(ts, Root)]
    <3>6. Stands(ts, taken, block)
      BY <3>5 DEF Stands, Fresh
    <3>7. IsReceipt(r, taken, block)
      <4>1. IsTimestamp(ts, Root) /\ IsFull(ts) /\ HasKind(ts, 2) /\ Fresh(ts, taken) /\ Stands(ts, taken, block)
        BY <3>5, <3>6
      <4> HIDE DEF ts
      <4> QED
        BY <4>1, Receipted
    <3>8. receipt' = <<r>>
      BY <1>1, <2>2, <3>3
    <3> HIDE DEF r
    <3>9. receipt'[1] = r
      BY <3>8
    <3> QED
      BY <3>7, <3>8, <3>9 DEF IsRow
  <2> QED
    BY <2>1, <2>2
<1> QED
  BY <1>1, <1>3, <1>4 DEF OtsInv

-------------------------------------------------------------------------------
(* upgrade.                                                                *)

LEMMA InUpgrade ==
  ASSUME OtsInv, call.at = "upgrade"
  PROVE  /\ call = [at |-> "upgrade", waiting |-> call.waiting, answers |-> call.answers,
                    merged |-> call.merged, tree |-> call.tree]
         /\ call.merged \in BOOLEAN /\ receipt # <<>>
         /\ IsTimestamp(call.tree, Root) /\ IsFull(call.tree) /\ HasKind(call.tree, 2)
         /\ Stands(call.tree, taken, block)
         /\ \A p \in call.waiting : IsAsked(p, call.tree, taken)
<1>1. IsCall(call, taken, block, attempts, receipt)
  BY DEF OtsInv
<1>2. "upgrade" # "idle" /\ "upgrade" # "anchor"
  OBVIOUS
<1> QED
  BY <1>1, <1>2 DEF IsCall

(* The promises of a pending receipt are all of digests. *)
LEMMA StartUpgradeKeeps ==
  ASSUME OtsInv, StartUpgrade
  PROVE  OtsInv'
<1> DEFINE tree == Parse(receipt[1].proof, Root).stamp
           waiting == {p \in Promises(tree) : p.attestation[2] \in Whitelist}
<1>1. /\ receipt # <<>> /\ receipt[1].status = "pending"
      /\ call' = [Idle EXCEPT !.at = "upgrade", !.tree = tree, !.waiting = waiting]
      /\ attempts' = attempts /\ taken' = taken /\ block' = block /\ receipt' = receipt
  BY DEF StartUpgrade
<1>2. IsReceipt(receipt[1], taken, block)
  BY <1>1 DEF OtsInv, IsRow
<1>3. /\ IsTimestamp(tree, Root) /\ IsFull(tree) /\ HasKind(tree, 2) /\ Stands(tree, taken, block)
      /\ Fresh(tree, taken)
  <2>1. receipt[1].status # "final"
    BY <1>1
  <2> QED
    BY <1>2, <2>1 DEF IsReceipt
<1> HIDE DEF tree
<1>4. ASSUME NEW p \in waiting
      PROVE  IsAsked(p, tree, taken)
  <2>1. IsPromiseOf(p, tree)
    BY KindsOf
  <2>2. p.msg \in DOMAIN tree /\ p.attestation \in Range(tree[p.msg]) /\ p.attestation[1] = 2
    BY <2>1 DEF IsPromiseOf
  <2>3. \E t \in taken : t[1] = p.attestation[2] /\ p.msg = Commitment(t[1], t[2])
    BY <1>3, <2>2 DEF Fresh
  <2> QED
    BY <2>1, <2>3 DEF IsAsked
<1> HIDE DEF waiting
<1>5. call' = [at |-> "upgrade", waiting |-> waiting, answers |-> <<>>, merged |-> FALSE, tree |-> tree]
  BY <1>1 DEF Idle
<1>6. IsCall(call', taken, block, attempts, receipt)
  <2>1. call'.at = "upgrade" /\ call'.waiting = waiting /\ call'.merged = FALSE /\ call'.tree = tree
    BY <1>5
  <2>2. call' = [at |-> call'.at, waiting |-> call'.waiting, answers |-> call'.answers,
                 merged |-> call'.merged, tree |-> call'.tree]
    BY <1>5
  <2> QED
    BY <1>1, <1>3, <1>4, <2>1, <2>2 DEF IsCall
<1> QED
  BY <1>1, <1>6 DEF OtsInv

(* The attestation an answer ends in, and the operation it hangs off. *)
IsUpdate(o, a, msg, c) ==
  /\ o \in Nat /\ IsItem(a) /\ ~IsOp(a)
  /\ \/ o = ToPromise /\ a = Pending(c)
     \/ \E h \in DOMAIN block : block[h] = msg /\ o = ToBlock(h) /\ a = Bitcoin(h)

(* A calendar answers with one operation and one attestation. *)
LEMMA UpdateIs ==
  ASSUME OtsInv, NEW c \in Nat, NEW msg, NEW tokens \in TimestampAnswers(c, msg)
  PROVE  \E o, a : IsUpdate(o, a, msg, c) /\ tokens = <<Token(Op(o)), Token(a)>>
<1>1. CASE Confirmations(msg) = {}
  <2> DEFINE o == ToPromise
             a == Pending(c)
  <2>1. tokens = <<Token(Op(o)), Token(a)>>
    BY <1>1 DEF TimestampAnswers
  <2>2. o \in Nat /\ IsItem(a) /\ ~IsOp(a)
    BY PromiseIsItem DEF IsAttestation
  <2>3. IsUpdate(o, a, msg, c)
    BY <2>2 DEF IsUpdate
  <2> QED
    BY <2>1, <2>3
<1>2. CASE Confirmations(msg) # {}
  <2>1. PICK h \in Confirmations(msg) : tokens = <<Token(Op(ToBlock(h))), Token(Bitcoin(h))>>
    BY <1>2 DEF TimestampAnswers
  <2>2. h \in DOMAIN block /\ block[h] = msg
    BY DEF Confirmations
  <2>3. h \in Nat
    <3>1. IsSeq(block)
      BY DEF OtsInv, IsChain
    <3>2. h \in 1..Len(block) /\ Len(block) \in Nat
      BY <2>2, <3>1, SeqFacts
    <3> QED
      BY <3>2
  <2> DEFINE o == ToBlock(h)
             a == Bitcoin(h)
  <2>4. o \in Nat
    BY <2>3 DEF ToBlock
  <2>5. IsItem(a) /\ ~IsOp(a)
    BY <2>3 DEF Bitcoin, IsItem, IsOp
  <2>6. IsUpdate(o, a, msg, c)
    BY <2>2, <2>4, <2>5 DEF IsUpdate
  <2> QED
    BY <2>1, <2>6
<1> QED
  BY <1>1, <1>2

(* Three fields of a call replaced. *)
LEMMA RecordUpdate ==
  ASSUME NEW q, NEW w, NEW b, NEW n,
         q = [at |-> "upgrade", waiting |-> q.waiting, answers |-> q.answers, merged |-> q.merged, tree |-> q.tree]
  PROVE  [q EXCEPT !.waiting = w, !.merged = b, !.tree = n]
           = [at |-> "upgrade", waiting |-> w, answers |-> q.answers, merged |-> b, tree |-> n]
<1>1. PICK x, y, z, u : q = [at |-> "upgrade", waiting |-> x, answers |-> y, merged |-> z, tree |-> u]
  OBVIOUS
<1> DEFINE q1 == [q EXCEPT !.waiting = w]
           q2 == [q1 EXCEPT !.merged = b]
           q3 == [q2 EXCEPT !.tree = n]
<1>2. q.answers = y
  BY <1>1
<1>3. [q EXCEPT !.waiting = w, !.merged = b, !.tree = n] = q3
  OBVIOUS
<1>4. q1 = [at |-> "upgrade", waiting |-> w, answers |-> y, merged |-> z, tree |-> u]
  BY ONLY <1>1
<1> HIDE DEF q1
<1>5. q2 = [at |-> "upgrade", waiting |-> w, answers |-> y, merged |-> b, tree |-> u]
  BY ONLY <1>4
<1> HIDE DEF q2
<1>6. q3 = [at |-> "upgrade", waiting |-> w, answers |-> y, merged |-> b, tree |-> n]
  BY ONLY <1>5
<1> HIDE DEF q3
<1> QED
  BY <1>2, <1>3, <1>6

(* An answer that parsed is merged where its promise hangs. *)
LEMMA UpgradedKeeps ==
  ASSUME OtsInv, NEW p \in call.waiting, Upgraded(p)
  PROVE  OtsInv'
<1> DEFINE c == p.attestation[2]
           msg == p.msg
           ts == call.tree
<1>1. /\ call.at = "upgrade"
      /\ attempts' = attempts /\ taken' = taken /\ block' = block /\ receipt' = receipt
  BY DEF Upgraded
<1>2. PICK tokens \in TimestampAnswers(c, msg) :
        /\ Parse(tokens, msg).ok
        /\ call' = [call EXCEPT !.waiting = @ \ {p}, !.merged = TRUE,
                      !.tree = MergeTimestamp(@, Parse(tokens, msg).stamp)]
  BY DEF Upgraded
<1>3. /\ call = [at |-> "upgrade", waiting |-> call.waiting, answers |-> call.answers,
                 merged |-> call.merged, tree |-> ts]
      /\ receipt # <<>>
      /\ IsTimestamp(ts, Root) /\ IsFull(ts) /\ HasKind(ts, 2) /\ Stands(ts, taken, block)
      /\ \A q \in call.waiting : IsAsked(q, ts, taken)
  BY <1>1, InUpgrade
<1>4. PICK t \in taken : t[1] = c /\ msg = Commitment(t[1], t[2])
  BY <1>3 DEF IsAsked
<1>5. IsSeq(msg) /\ Len(msg) = 4 /\ msg \in DOMAIN ts
  BY <1>3, <1>4, HeldFacts DEF IsAsked, IsPromiseOf
<1>6. c \in Nat
  <2>1. t[1] \in Calendars
    BY HeldFacts
  <2>2. \A i \in DOMAIN Pools : Pools[i] \in Nat
    BY PoolFacts
  <2> QED
    BY <1>4, <2>1, <2>2 DEF Calendars, Range
<1> HIDE DEF c, msg
<1>7. PICK o, a : IsUpdate(o, a, msg, c) /\ tokens = <<Token(Op(o)), Token(a)>>
  BY <1>2, <1>6, UpdateIs
<1>8. o \in Nat /\ IsItem(a) /\ ~IsOp(a)
  BY <1>7 DEF IsUpdate
<1>9. Parse(tokens, msg) = IF Readable(Token(a)) THEN Reading(Branch(msg, o, a), <<>>, FALSE) ELSE Failed
  BY <1>5, <1>7, <1>8, AnswerReads
<1>10. Readable(Token(a)) /\ Parse(tokens, msg).stamp = Branch(msg, o, a)
  <2>1. ~Failed.ok
    BY DEF Failed
  <2>2. Readable(Token(a))
    BY <1>2, <1>9, <2>1
  <2> QED
    BY <1>9, <2>2 DEF Reading
<1> DEFINE us == MergeTimestamp(ts, Branch(msg, o, a))
<1>11. call' = [at |-> "upgrade", waiting |-> call.waiting \ {p}, answers |-> call.answers,
                merged |-> TRUE, tree |-> us]
  <2>1. call' = [call EXCEPT !.waiting = call.waiting \ {p}, !.merged = TRUE, !.tree = us]
    BY <1>2, <1>10
  <2> HIDE DEF us
  <2> QED
    BY <1>3, <2>1, RecordUpdate
<1>12. IsAttestation(a)
  BY <1>8, <1>10 DEF IsAttestation
<1>13. a[1] = 2 => \E s \in taken : s[1] = a[2] /\ ApplyOp(o, msg) = ApplyOp(ToPromise, Commitment(s[1], s[2]))
  <2>1. ASSUME a[1] = 2
        PROVE  o = ToPromise /\ a = Pending(c)
    <3>1. \A h : Bitcoin(h)[1] # 2
      BY DEF Bitcoin
    <3> QED
      BY <1>7, <2>1, <3>1 DEF IsUpdate
  <2>2. Pending(c)[2] = c
    BY DEF Pending
  <2> QED
    BY <1>4, <2>1, <2>2 DEF msg
<1>14. a[1] = 1 => a[2] \in DOMAIN block /\ ApplyOp(o, msg) = ApplyOp(ToBlock(a[2]), block[a[2]])
  <2>1. ASSUME a[1] = 1
        PROVE  \E h \in DOMAIN block : block[h] = msg /\ o = ToBlock(h) /\ a = Bitcoin(h)
    <3>1. Pending(c)[1] # 1
      BY DEF Pending
    <3> QED
      BY <1>7, <2>1, <3>1 DEF IsUpdate
  <2>2. \A h : Bitcoin(h)[2] = h
    BY DEF Bitcoin
  <2> QED
    BY <2>1, <2>2
<1>15. /\ IsTimestamp(us, Root) /\ IsFull(us) /\ Stands(us, taken, block) /\ HasKind(us, 2)
       /\ \A q : IsPromiseOf(q, ts) => IsPromiseOf(q, us)
  <2> HIDE DEF ts
  <2> QED
    BY <1>3, <1>5, <1>8, <1>12, <1>13, <1>14, MergeAnswer
<1> HIDE DEF us
<1>16. \A q \in call.waiting : IsAsked(q, us, taken)
  BY <1>3, <1>15 DEF IsAsked
<1>17. IsCall(call', taken, block, attempts, receipt)
  <2>1. call'.at = "upgrade" /\ call'.waiting = call.waiting \ {p} /\ call'.merged = TRUE /\ call'.tree = us
    BY <1>11
  <2>2. call' = [at |-> call'.at, waiting |-> call'.waiting, answers |-> call'.answers,
                 merged |-> call'.merged, tree |-> call'.tree]
    BY <1>11
  <2> QED
    BY <1>3, <1>15, <1>16, <2>1, <2>2 DEF IsCall
<1> QED
  BY <1>1, <1>17 DEF OtsInv

(* A tree with an attestation makes a final receipt. *)
LEMMA FinishUpgradeKeeps ==
  ASSUME OtsInv, FinishUpgrade
  PROVE  OtsInv'
<1> DEFINE ts == call.tree
           r == [status |-> "final", proof |-> WriteTimestamp(ts, Root)]
<1>1. /\ call.at = "upgrade" /\ call' = Idle /\ attempts' = attempts /\ taken' = taken /\ block' = block
      /\ receipt' = IF call.merged /\ Blocks(ts) # {} THEN <<r>> ELSE receipt
  BY DEF FinishUpgrade
<1>2. IsTimestamp(ts, Root) /\ IsFull(ts) /\ HasKind(ts, 2) /\ Stands(ts, taken, block)
  BY <1>1, InUpgrade
<1>3. IsCall(call', taken, block, attempts, receipt')
  BY <1>1, IdleIs
<1>4. IsRow(receipt', taken, block)
  <2>1. CASE ~(call.merged /\ Blocks(ts) # {})
    BY <1>1, <2>1 DEF OtsInv
  <2>2. CASE call.merged /\ Blocks(ts) # {}
    <3>1. HasKind(ts, 1)
      BY <2>2, KindsOf
    <3>2. IsReceipt(r, taken, block)
      <4> HIDE DEF ts
      <4> QED
        BY <1>2, <3>1, Receipted
    <3>3. receipt' = <<r>>
      BY <1>1, <2>2
    <3> HIDE DEF r
    <3>4. receipt'[1] = r
      BY <3>3
    <3> QED
      BY <3>2, <3>3, <3>4 DEF IsRow
  <2> QED
    BY <2>1, <2>2
<1> QED
  BY <1>1, <1>3, <1>4 DEF OtsInv

(* Every step keeps the invariant. *)
LEMMA NextKeeps == OtsInv /\ [Next]_vars => OtsInv'
<1> SUFFICES ASSUME OtsInv, [Next]_vars
             PROVE  OtsInv'
  OBVIOUS
<1>1. CASE StartAnchor
  BY <1>1, StartAnchorKeeps
<1>2. CASE FinishAnchor
  BY <1>2, FinishAnchorKeeps
<1>3. ASSUME NEW i \in DOMAIN Pools, NEW answered \in BOOLEAN, Submit(i, answered)
      PROVE  OtsInv'
  BY <1>3, SubmitKeeps
<1>4. ASSUME NEW i \in DOMAIN Pools, SubmitFails(i)
      PROVE  OtsInv'
  BY <1>4, SubmitFailsKeeps
<1>5. CASE StartUpgrade
  BY <1>5, StartUpgradeKeeps
<1>6. CASE FinishUpgrade
  BY <1>6, FinishUpgradeKeeps
<1>7. ASSUME NEW p \in call.waiting, Upgraded(p)
      PROVE  OtsInv'
  BY <1>7, UpgradedKeeps
<1>8. ASSUME NEW p \in call.waiting, NotUpgraded(p)
      PROVE  OtsInv'
  BY <1>8, NotUpgradedKeeps
<1>9. CASE Crash
  BY <1>9, CrashKeeps
<1>10. ASSUME NEW c \in Calendars, NEW n \in 1..MaxAttempts, Confirm(c, Digest(n))
       PROVE  OtsInv'
  BY <1>10, ConfirmKeeps
<1>11. CASE UNCHANGED vars
  BY <1>11, StutterKeeps
<1>12. CASE Done
  <2>1. UNCHANGED vars
    BY <1>12 DEF Done
  <2> QED
    BY <2>1, StutterKeeps
<1>13. CASE \E i \in DOMAIN Pools : (\E answered \in BOOLEAN : Submit(i, answered)) \/ SubmitFails(i)
  BY <1>3, <1>4, <1>13
<1>14. CASE \E p \in call.waiting : Upgraded(p) \/ NotUpgraded(p)
  BY <1>7, <1>8, <1>14
<1>15. CASE \E c \in Calendars, n \in 1..MaxAttempts : Confirm(c, Digest(n))
  BY <1>10, <1>15
<1> QED
  BY <1>1, <1>2, <1>5, <1>6, <1>9, <1>11, <1>12, <1>13, <1>14, <1>15 DEF Next

(* OtsInv holds of every state anchor, upgrade, the calendars and Bitcoin  *)
(* can reach, for any number of pools, calendars and attempts.             *)
THEOREM OtsInvariant == Spec => []OtsInv
<1>1. Init => OtsInv
  BY InitInv
<1>2. OtsInv /\ [Next]_vars => OtsInv'
  BY NextKeeps
<1> QED
  BY <1>1, <1>2, PTL DEF Spec

-------------------------------------------------------------------------------
(* What the runs check.                                                    *)

(* Each checked invariant follows from OtsInv. *)
LEMMA TypedOts == OtsInv => TypeOK
<1> SUFFICES ASSUME OtsInv
             PROVE  TypeOK
  OBVIOUS
<1>1. /\ attempts \in 0..MaxAttempts
      /\ taken \subseteq Calendars \X {Digest(n) : n \in 1..MaxAttempts}
      /\ \A h \in DOMAIN block : \E t \in taken : block[h] = Commitment(t[1], t[2])
  BY DEF OtsInv, IsChain
<1>2. /\ Len(receipt) <= 1
      /\ \A i \in DOMAIN receipt : receipt[i].status \in {"pending", "final"} /\ Parse(receipt[i].proof, Root).ok
  <2>1. CASE receipt = <<>>
    BY <2>1
  <2>2. CASE receipt # <<>>
    <3>1. receipt = <<receipt[1]>> /\ IsReceipt(receipt[1], taken, block)
      BY <2>2 DEF OtsInv, IsRow
    <3>2. receipt[1].status \in {"pending", "final"} /\ Parse(receipt[1].proof, Root).ok
      BY <3>1 DEF IsReceipt
    <3>3. Len(receipt) = 1 /\ DOMAIN receipt = {1}
      BY <3>1
    <3> QED
      BY <3>2, <3>3
  <2> QED
    BY <2>1, <2>2
<1>3. /\ call.at \in {"idle", "anchor", "upgrade"}
      /\ call.waiting \subseteq (IF call.at = "anchor" THEN DOMAIN Pools ELSE Promises(call.tree))
      /\ call.merged \in BOOLEAN
  <2>1. IsCall(call, taken, block, attempts, receipt)
    BY DEF OtsInv
  <2>2. CASE call.at = "idle"
    BY <2>1, <2>2 DEF IsCall
  <2>3. CASE call.at = "anchor"
    BY <2>3, InAnchor
  <2>4. CASE call.at = "upgrade"
    <3>1. call.merged \in BOOLEAN /\ \A p \in call.waiting : IsAsked(p, call.tree, taken)
      BY <2>4, InUpgrade
    <3>2. call.waiting \subseteq Promises(call.tree)
      BY <3>1, KindsOf DEF IsAsked
    <3> QED
      BY <2>4, <3>1, <3>2
  <2> QED
    BY <2>1, <2>2, <2>3, <2>4 DEF IsCall
<1> QED
  BY <1>1, <1>2, <1>3 DEF TypeOK

LEMMA RowIs ==
  ASSUME OtsInv, NEW i \in DOMAIN receipt
  PROVE  receipt # <<>> /\ i = 1 /\ IsReceipt(receipt[i], taken, block)
<1>1. receipt # <<>>
  OBVIOUS
<1>2. receipt = <<receipt[1]>> /\ IsReceipt(receipt[1], taken, block)
  BY <1>1 DEF OtsInv, IsRow
<1>3. DOMAIN receipt = {1}
  BY <1>2
<1> QED
  BY <1>1, <1>2, <1>3

LEMMA CanonicalRow == OtsInv => ProofCanonical
<1> SUFFICES ASSUME OtsInv, NEW i \in DOMAIN receipt
             PROVE  LET tree == Parse(receipt[i].proof, Root).stamp
                    IN /\ \A m \in DOMAIN tree : \A j, k \in DOMAIN tree[m] :
                            j < k => ItemBefore(tree[m][j], tree[m][k])
                       /\ WriteTimestamp(tree, Root) = receipt[i].proof
  BY DEF ProofCanonical
<1> DEFINE tree == Parse(receipt[i].proof, Root).stamp
<1>1. receipt # <<>> /\ i = 1 /\ IsReceipt(receipt[1], taken, block)
  BY RowIs
<1>2. /\ IsTimestamp(tree, Root) /\ WriteTimestamp(tree, Root) = receipt[i].proof
      /\ \A m \in DOMAIN tree : Ascending(tree[m], Len(tree[m]))
  BY <1>1 DEF IsReceipt
<1> HIDE DEF tree
<1>3. ASSUME NEW m \in DOMAIN tree, NEW j \in DOMAIN tree[m], NEW k \in DOMAIN tree[m], j < k
      PROVE  ItemBefore(tree[m][j], tree[m][k])
  <2>1. IsSeq(tree[m])
    BY <1>2 DEF IsTimestamp, IsNode, IsItems
  <2>2. DOMAIN tree[m] = 1..Len(tree[m])
    BY <2>1, SeqFacts
  <2> QED
    BY <1>2, <1>3, <2>2 DEF Ascending
<1> QED
  BY <1>2, <1>3 DEF tree

(* Among the attestations there is one of the lowest height. *)
LEMMA LowestBlock ==
  ASSUME NEW ts, IsTimestamp(ts, Root), Blocks(ts) # {}
  PROVE  \E b \in Blocks(ts) : \A c \in Blocks(ts) : b.attestation[2] <= c.attestation[2]
<1> DEFINE S == {b.attestation[2] : b \in Blocks(ts)}
<1>1. ASSUME NEW b \in Blocks(ts)
      PROVE  b.attestation[2] \in Nat
  <2>1. b.msg \in DOMAIN ts /\ b.attestation \in Range(ts[b.msg])
    BY KindsOf
  <2>2. IsItems(ts[b.msg])
    BY <2>1 DEF IsTimestamp, IsNode
  <2>3. IsItem(b.attestation)
    BY <2>1, <2>2 DEF IsItems, Range
  <2> QED
    BY <2>3 DEF IsItem
<1>2. S \subseteq Nat /\ S # {}
  BY <1>1
<1> HIDE DEF S
<1>3. PICK h \in S : \A x \in S : h <= x
  BY <1>2, LeastNumber
<1> QED
  BY <1>3 DEF S

LEMMA PrefixIs ==
  ASSUME NEW s, IsSeq(s), NEW o
  PROVE  IsPrefix(s, s) /\ IsPrefix(s, ApplyOp(o, s))
<1> DEFINE t == ApplyOp(o, s)
<1>1. IsSeq(t) /\ Len(t) = Len(s) + 1 /\ Len(s) \in Nat /\ \A i \in 1..Len(s) : t[i] = s[i]
  BY ApplyOpFacts
<1> HIDE DEF t
<1>2. SubSeq(s, 1, Len(s)) = SubSeq(t, 1, Len(s))
  BY <1>1
<1>3. Len(s) <= Len(s) /\ Len(s) <= Len(t)
  BY <1>1
<1> QED
  BY <1>2, <1>3 DEF IsPrefix, t

(* verify's verdict of a receipt, with and without block headers. *)
LEMMA VerdictIs ==
  ASSUME OtsInv, NEW r, IsReceipt(r, taken, block)
  PROVE  Verify(r, "answers") = r.status /\ Verify(r, "none") = "pending"
<1> DEFINE read == Parse(r.proof, Root)
           ts == read.stamp
           blocks == Blocks(ts)
           promised == Promises(ts) # {}
           lowest == CHOOSE b \in blocks : \A c \in blocks : b.attestation[2] <= c.attestation[2]
           height == lowest.attestation[2]
<1>1. /\ read.ok /\ IsTimestamp(ts, Root) /\ HasKind(ts, 2) /\ Stands(ts, taken, block)
      /\ (r.status = "pending" /\ Fresh(ts, taken)) \/ (r.status = "final" /\ HasKind(ts, 1))
  BY DEF IsReceipt
<1>2. promised /\ (blocks # {} <=> HasKind(ts, 1))
  <2> HIDE DEF ts
  <2> QED
    BY <1>1, KindsOf
<1>3. r.status = "pending" => blocks = {}
  <2>1. Fresh(ts, taken) => ~HasKind(ts, 1)
    BY DEF Fresh, HasKind
  <2> QED
    BY <1>1, <1>2, <2>1
<1>4. \A source : Verify(r, source) =
        IF ~read.ok \/ (blocks = {} /\ ~promised) THEN "fails"
        ELSE IF blocks # {} /\ source # "none"
        THEN IF source = "answers" /\ height \in DOMAIN block /\ lowest.msg = MerkleRoot(height)
             THEN "final" ELSE "fails"
        ELSE IF (r.status = "final" /\ blocks = {}) \/ ~promised THEN "fails"
        ELSE "pending"
  BY DEF Verify
<1>5. blocks # {} => height \in DOMAIN block /\ lowest.msg = MerkleRoot(height)
  <2> HAVE blocks # {}
  <2>1. \E b \in blocks : \A c \in blocks : b.attestation[2] <= c.attestation[2]
    <3> HIDE DEF ts
    <3> QED
      BY <1>1, LowestBlock
  <2>2. lowest \in blocks
    BY <2>1
  <2> HIDE DEF lowest, ts
  <2>3. lowest.msg \in DOMAIN ts /\ lowest.attestation \in Range(ts[lowest.msg]) /\ lowest.attestation[1] = 1
    BY <2>2, KindsOf
  <2> QED
    BY <1>1, <2>3 DEF Stands, MerkleRoot
<1> HIDE DEF read, ts, blocks, promised, lowest, height
<1>6. CASE r.status = "pending"
  BY <1>1, <1>2, <1>3, <1>4, <1>6
<1>7. CASE r.status = "final"
  <2>1. r.status # "pending" /\ "answers" # "none"
    BY <1>7
  <2>2. blocks # {}
    BY <1>1, <1>2, <2>1
  <2> QED
    BY <1>1, <1>2, <1>4, <1>5, <1>7, <2>1, <2>2
<1> QED
  BY <1>1, <1>6, <1>7

(* A promise extends the commitment to a digest its calendar holds. *)
LEMMA PromiseStands ==
  ASSUME OtsInv, NEW ts, IsTimestamp(ts, Root), Stands(ts, taken, block), NEW p \in Promises(ts)
  PROVE  \E t \in taken : p.attestation = Pending(t[1]) /\ IsPrefix(Commitment(t[1], t[2]), p.msg)
<1>1. p.msg \in DOMAIN ts /\ p.attestation \in Range(ts[p.msg]) /\ p.attestation[1] = 2
  BY KindsOf DEF IsPromiseOf
<1>2. PICK t \in taken : /\ t[1] = p.attestation[2]
                         /\ p.msg = Commitment(t[1], t[2]) \/ p.msg = ApplyOp(ToPromise, Commitment(t[1], t[2]))
  BY <1>1 DEF Stands
<1>3. IsItem(p.attestation)
  <2>1. IsItems(ts[p.msg])
    BY <1>1 DEF IsTimestamp, IsNode
  <2> QED
    BY <1>1, <2>1 DEF IsItems, Range
<1>4. p.attestation = Pending(t[1])
  BY <1>1, <1>2, <1>3 DEF IsItem, Pending
<1>5. IsSeq(Commitment(t[1], t[2]))
  BY HeldFacts
<1>6. IsPrefix(Commitment(t[1], t[2]), p.msg)
  BY <1>2, <1>5, PrefixIs
<1> QED
  BY <1>4, <1>6

LEMMA VerifiedRow == OtsInv => ReceiptVerifies
<1> SUFFICES ASSUME OtsInv, NEW i \in DOMAIN receipt
             PROVE  LET r == receipt[i]
                        promises == Promises(Parse(r.proof, Root).stamp)
                    IN /\ promises # {}
                       /\ Verify(r, "answers") = r.status
                       /\ Verify(r, "none") = "pending"
                       /\ \A p \in promises : \E t \in taken :
                            p.attestation = Pending(t[1]) /\ IsPrefix(Commitment(t[1], t[2]), p.msg)
  BY DEF ReceiptVerifies
<1> DEFINE r == receipt[i]
           ts == Parse(r.proof, Root).stamp
<1>1. IsReceipt(r, taken, block)
  BY RowIs
<1> HIDE DEF r
<1>2. IsTimestamp(ts, Root) /\ HasKind(ts, 2) /\ Stands(ts, taken, block)
  BY <1>1 DEF IsReceipt
<1>3. Verify(r, "answers") = r.status /\ Verify(r, "none") = "pending"
  BY <1>1, VerdictIs
<1> HIDE DEF ts
<1>4. Promises(ts) # {}
  BY <1>2, KindsOf
<1>5. \A p \in Promises(ts) : \E t \in taken :
        p.attestation = Pending(t[1]) /\ IsPrefix(Commitment(t[1], t[2]), p.msg)
  BY <1>2, PromiseStands
<1> QED
  BY <1>3, <1>4, <1>5 DEF r, ts

(* Every variable has its type, and a stored proof is a file that parses   *)
(* (ots.ts parseDetached).                                                 *)
THEOREM TypeCorrectOts == Spec => []TypeOK
BY OtsInvariant, TypedOts, PTL

(* A stored proof is canonical, in whatever order the calendars answered:  *)
(* sorted, without duplicates, and unchanged by reading and writing it     *)
(* again (anchor.ts anchor, upgrade; ots.ts writeTimestamp).               *)
THEOREM ProofsAlwaysCanonical == Spec => []ProofCanonical
BY OtsInvariant, CanonicalRow, PTL

(* A stored receipt verifies at the level its status names, whatever       *)
(* calendars failed, answered late or crashed on the way (anchor.ts        *)
(* verify).                                                                *)
THEOREM ReceiptsAlwaysVerify == Spec => []ReceiptVerifies
BY OtsInvariant, VerifiedRow, PTL

===============================================================================
