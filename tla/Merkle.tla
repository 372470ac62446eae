--------------------------------- MODULE Merkle ---------------------------------
(***************************************************************************)
(* Merkle trees over hashes (packages/core/src/merkle.ts).  Hashes are     *)
(* ideal: a hash is the term that was hashed, tagged as merkle.ts prefixes *)
(* leaves with 00 and interior nodes with 01.  Indices are counted from 0. *)
(***************************************************************************)
EXTENDS Integers, Sequences, SequencesExt

LeafHash(h) == <<"leaf", h>>
NodeHash(left, right) == <<"node", left, right>>

(* Mutant: the odd node is paired with itself. *)
NextLevelDuplicated(level) ==
  [i \in 1..((Len(level) + 1) \div 2) |->
     NodeHash(level[2 * i - 1], level[IF 2 * i <= Len(level) THEN 2 * i ELSE 2 * i - 1])]

(* Pairs are hashed; an odd last node is carried up as it is. *)
NextLevel(level) ==
  [i \in 1..((Len(level) + 1) \div 2) |->
     IF 2 * i <= Len(level) THEN NodeHash(level[2 * i - 1], level[2 * i])
                            ELSE level[2 * i - 1]]

(* The levels of the tree over a non-empty sequence, leaves first, until   *)
(* there is a level of one.                                                *)
Levels(hashes) ==
  LET level[n \in 0..Len(hashes)] ==
        IF n = 0 THEN [i \in DOMAIN hashes |-> LeafHash(hashes[i])]
                 ELSE NextLevel(level[n - 1])
      top == CHOOSE n \in 0..Len(hashes) :
               Len(level[n]) = 1 /\ \A m \in 0..(n - 1) : Len(level[m]) > 1
  IN [n \in 1..(top + 1) |-> level[n - 1]]

TreeRoot(hashes) == LET levels == Levels(hashes) IN levels[Len(levels)][1]

Sibling(i) == IF i % 2 = 1 THEN i - 1 ELSE i + 1

(* One round of the loop of proofFor: the sibling at i, where there is one, *)
(* and up to the next layer.                                                *)
Climb(layer, at) ==
  [i |-> at.i \div 2,
   steps |-> IF Sibling(at.i) < Len(layer)
             THEN Append(at.steps, [hash |-> layer[Sibling(at.i) + 1],
                                    side |-> IF at.i % 2 = 1 THEN "left" ELSE "right"])
             ELSE at.steps]

(* The audit path of leaf "index". *)
ProofFor(hashes, index) ==
  LET levels == Levels(hashes)
      at[n \in 0..(Len(levels) - 1)] ==
        IF n = 0 THEN [i |-> index, steps |-> <<>>] ELSE Climb(levels[n], at[n - 1])
  IN at[Len(levels) - 1].steps

Hashed(h, step) == IF step.side = "left" THEN NodeHash(step.hash, h) ELSE NodeHash(h, step.hash)

(* Where the path leads from a leaf. *)
Walk(hash, proof) ==
  LET h[n \in 0..Len(proof)] ==
        IF n = 0 THEN LeafHash(hash) ELSE Hashed(h[n - 1], proof[n])
  IN h[Len(proof)]

VerifyProof(hash, proof, root) == Walk(hash, proof) = root
=================================================================================
