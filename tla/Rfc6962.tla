-------------------------------- MODULE Rfc6962 --------------------------------
(***************************************************************************)
(* The Merkle trees of a transparency log (packages/anchor-rekor/src/      *)
(* rfc6962.ts): how a log computes a tree head and an inclusion proof, as  *)
(* RFC 6962 section 2.1 defines them by splitting at a power of two, and   *)
(* how the verifier recomputes the head with arithmetic on the index.      *)
(* Leaf and node hashes are those of Merkle: the code has them twice,      *)
(* alike.                                                                  *)
(***************************************************************************)
EXTENDS Merkle

-------------------------------------------------------------------------------
(* The log's side.                                                         *)

Power(n) == LET two[i \in 0..n] == IF i = 0 THEN 1 ELSE 2 * two[i - 1] IN two[n]

(* The largest power of two below the size. *)
Split(size) == CHOOSE k \in {Power(i) : i \in 0..size} : k < size /\ size <= 2 * k

(* The heads of n leaves on end, by the index of the first of them. *)
Heads(leaves) ==
  LET head[n \in 1..Len(leaves)] ==
        [at \in 0..(Len(leaves) - n) |->
           IF n = 1 THEN LeafHash(leaves[at + 1])
           ELSE NodeHash(head[Split(n)][at], head[n - Split(n)][at + Split(n)])]
  IN head
TreeHead(leaves) == Heads(leaves)[Len(leaves)][0]

(* The siblings of the leaf of an index (from 0), leaf to head. *)
InclusionProof(index, leaves) ==
  LET path[n \in 1..Len(leaves)] ==
        [at \in 0..(Len(leaves) - n) |->
           IF n = 1 THEN <<>>
           ELSE IF index < at + Split(n)
           THEN Append(path[Split(n)][at], Heads(leaves)[n - Split(n)][at + Split(n)])
           ELSE Append(path[n - Split(n)][at + Split(n)], Heads(leaves)[Split(n)][at])]
  IN path[Len(leaves)][0]

-------------------------------------------------------------------------------
(* The verifier's side.                                                    *)

Shift(n, i) == LET high[k \in 0..i] == IF k = 0 THEN n ELSE high[k - 1] \div 2 IN high[i]
Bit(n, i) == Shift(n, i) % 2

(* bitLen of the exclusive or: what has to go for the rest to be equal. *)
BitLenOfXor(x, y) ==
  CHOOSE k \in 0..(x + y) : /\ Shift(x, k) = Shift(y, k)
                            /\ \A j \in 0..(k - 1) : Shift(x, j) # Shift(y, j)

PopCount(n) ==
  LET count[m \in 0..n] == IF m = 0 THEN 0 ELSE (m % 2) + count[m \div 2] IN count[n]

(* Mutant: the size itself in place of its last index. *)
InnerOfSize(index, size) == BitLenOfXor(index, size)

Inner(index, size) == BitLenOfXor(index, size - 1)
Border(index, size) == PopCount(Shift(index, Inner(index, size)))

(* From the leaf up; beyond the inner part every sibling is on the left.   *)
Rehash(leaf, index, inner, hashes) ==
  LET acc[i \in 0..Len(hashes)] ==
        IF i = 0 THEN leaf
        ELSE IF i > inner \/ Bit(index, i - 1) = 1
        THEN NodeHash(hashes[i], acc[i - 1]) ELSE NodeHash(acc[i - 1], hashes[i])
  IN acc[Len(hashes)]

(* The empty tuple stands for a proof of the wrong shape.                  *)
RootFromInclusionProof(leaf, index, size, hashes) ==
  IF index \notin 0..(size - 1) \/ Len(hashes) # Inner(index, size) + Border(index, size)
  THEN <<>> ELSE Rehash(leaf, index, Inner(index, size), hashes)
=================================================================================
