-------------------------------- MODULE OtsAnchor --------------------------------
(***************************************************************************)
(* The OpenTimestamps anchor (packages/anchor-ots: anchor.ts, calendar.ts) *)
(* for one global root: anchor submits a nonced digest to every calendar   *)
(* at once and keeps the promises of those that answered; upgrade asks the *)
(* calendars for the Bitcoin attestations their promises have turned into; *)
(* verify judges what the proof is worth.  The calls come from the anchor  *)
(* loop's tick and maintain, one at a time (see AnchorLoop).               *)
(*                                                                         *)
(* A pool forwards to a calendar, whose name its promise carries; several  *)
(* pools may forward to the same one.  A calendar commits a digest to a    *)
(* Bitcoin block of its own; the header of that block is the message the   *)
(* path to it ends in.  A request may fail, before or after the pool took  *)
(* the digest.                                                             *)
(***************************************************************************)
EXTENDS OtsTimestamp

CONSTANTS
  Pools,        \* opts.calendars: a sequence of calendar numbers, one per pool
  Whitelist,    \* the calendars upgrade may contact
  MinCalendars, \* how many must accept the digest
  MaxAttempts   \* bound: calls of anchor

ASSUME ConstantsAssumption ==
  /\ Pools \in Seq(Nat) /\ Pools # <<>>
  /\ Whitelist \subseteq Nat /\ MinCalendars \in Nat \ {0}
  /\ MaxAttempts \in Nat
  /\ MaxRecursion > 4   \* the deepest timestamp here has four operations

VARIABLES
  attempts,  \* calls of anchor so far, each with a nonce of its own
  taken,     \* the digests the calendars hold: set of <<calendar, digest>>
  block,     \* the commitments in Bitcoin blocks; the height is the index
  receipt,   \* the anchor row: a sequence of at most one receipt
  call       \* the call in progress, with the tree it works on

vars == <<attempts, taken, block, receipt, call>>

Root == <<0>>
Sha256 == 1
Nonce(n) == 10 + n
ToCalendar(c) == 20 + c   \* the operations a calendar's aggregator answers with
ToBlock(h) == 30 + h      \* the path from a commitment to a block's Merkle root
ToPromise == 40           \* the path to a further promise
Digest(n) == ApplyOp(Sha256, ApplyOp(Nonce(n), Root))
Commitment(c, digest) == ApplyOp(ToCalendar(c), digest)

Calendars == Range(Pools)
Idle == [at |-> "idle", waiting |-> {}, answers |-> <<>>, merged |-> FALSE, tree |-> Node(Root)]

Init ==
  /\ attempts = 0 /\ taken = {} /\ block = <<>>
  /\ receipt = <<>> /\ call = Idle

-------------------------------------------------------------------------------
(* The calendars.                                                          *)

Confirmations(commitment) == {h \in DOMAIN block : block[h] = commitment}

(* A calendar's next Bitcoin transaction is buried deep enough.  Bound: the *)
(* digest of an attempt that was given up is not confirmed later.          *)
Confirm(c, digest) ==
  /\ <<c, digest>> \in taken /\ digest = Digest(attempts)
  /\ Confirmations(Commitment(c, digest)) = {}
  /\ block' = Append(block, Commitment(c, digest))
  /\ UNCHANGED <<attempts, taken, receipt, call>>

MerkleRoot(h) == ApplyOp(ToBlock(h), block[h])

SubmitAnswer(c) == <<Token(Op(ToCalendar(c))), Token(Pending(c))>>
(* A calendar answers with the block there is, or with a newer promise. *)
TimestampAnswers(c, commitment) ==
  IF Confirmations(commitment) = {}
  THEN {<<Token(Op(ToPromise)), Token(Pending(c))>>}
  ELSE {<<Token(Op(ToBlock(h))), Token(Bitcoin(h))>> : h \in Confirmations(commitment)}

-------------------------------------------------------------------------------
(* anchor(root).                                                           *)

StartAnchor ==
  /\ call.at = "idle" /\ receipt = <<>>
  /\ attempts < MaxAttempts /\ attempts' = attempts + 1
  /\ call' = [Idle EXCEPT !.at = "anchor", !.waiting = DOMAIN Pools,
                          !.answers = [i \in DOMAIN Pools |-> Failed]]
  /\ UNCHANGED <<taken, block, receipt>>

Tip == Digest(attempts)

(* Pool i has taken the digest; its answer arrives, or does not. *)
Submit(i, answered) ==
  /\ call.at = "anchor" /\ i \in call.waiting
  /\ taken' = taken \cup {<<Pools[i], Tip>>}
  /\ call' = [call EXCEPT !.waiting = @ \ {i},
       !.answers[i] = IF answered THEN Parse(SubmitAnswer(Pools[i]), Tip) ELSE Failed]
  /\ UNCHANGED <<attempts, block, receipt>>

SubmitFails(i) ==
  /\ call.at = "anchor" /\ i \in call.waiting
  /\ call' = [call EXCEPT !.waiting = @ \ {i}]
  /\ UNCHANGED <<attempts, taken, block, receipt>>

(* The answers in the order of the pools, merged under the nonce and its   *)
(* hash; too few, and the call throws.                                     *)
Accepted == {i \in DOMAIN Pools : call.answers[i].ok}
AnchorTree ==
  LET hashed == AddOp(AddOp(Node(Root), Root, Nonce(attempts)), ApplyOp(Nonce(attempts), Root), Sha256)
      merged[i \in 0..Len(Pools)] ==
        IF i = 0 THEN hashed
        ELSE IF i \in Accepted THEN MergeTimestamp(merged[i - 1], call.answers[i].stamp)
        ELSE merged[i - 1]
  IN merged[Len(Pools)]

FinishAnchor ==
  /\ call.at = "anchor" /\ call.waiting = {}
  /\ receipt' = IF Cardinality(Accepted) < MinCalendars THEN receipt
                ELSE <<[status |-> "pending", proof |-> WriteTimestamp(AnchorTree, Root)]>>
  /\ call' = Idle
  /\ UNCHANGED <<attempts, taken, block>>

-------------------------------------------------------------------------------
(* upgrade(receipt).                                                       *)

Promises(ts) == {a \in AllAttestations(ts) : a.attestation[1] = Pending(0)[1]}
Blocks(ts) == {a \in AllAttestations(ts) : a.attestation[1] = Bitcoin(0)[1]}

(* Promises of calendars that are not listed are settled at once.          *)
StartUpgrade ==
  LET tree == Parse(receipt[1].proof, Root).stamp
  IN /\ call.at = "idle" /\ receipt # <<>> /\ receipt[1].status = "pending"
     /\ call' = [Idle EXCEPT !.at = "upgrade", !.tree = tree,
          !.waiting = {p \in Promises(tree) : p.attestation[2] \in Whitelist}]
     /\ UNCHANGED <<attempts, taken, block, receipt>>

(* The calendar of promise p answers, and the answer is merged where the   *)
(* promise hangs; an answer that does not parse counts as none.            *)
Upgraded(p) ==
  /\ call.at = "upgrade" /\ p \in call.waiting
  /\ \E tokens \in TimestampAnswers(p.attestation[2], p.msg) :
       /\ Parse(tokens, p.msg).ok
       /\ call' = [call EXCEPT !.waiting = @ \ {p}, !.merged = TRUE,
                     !.tree = MergeTimestamp(@, Parse(tokens, p.msg).stamp)]
  /\ UNCHANGED <<attempts, taken, block, receipt>>

(* 404, or the request fails. *)
NotUpgraded(p) ==
  /\ call.at = "upgrade" /\ p \in call.waiting
  /\ call' = [call EXCEPT !.waiting = @ \ {p}]
  /\ UNCHANGED <<attempts, taken, block, receipt>>

(* Mutant: a receipt is final once any calendar had an answer. *)
FinishUpgradeAnyMerge ==
  /\ call.at = "upgrade" /\ call.waiting = {}
  /\ receipt' = IF call.merged
                THEN <<[status |-> "final", proof |-> WriteTimestamp(call.tree, Root)]>> ELSE receipt
  /\ call' = Idle
  /\ UNCHANGED <<attempts, taken, block>>

(* Mutant: every promise has to be redeemed. *)
FinishUpgradeAll ==
  /\ call.at = "upgrade" /\ call.waiting = {}
  /\ receipt' = IF call.merged /\ Cardinality(Blocks(call.tree)) = Cardinality(Promises(Parse(receipt[1].proof, Root).stamp))
                THEN <<[status |-> "final", proof |-> WriteTimestamp(call.tree, Root)]>> ELSE receipt
  /\ call' = Idle
  /\ UNCHANGED <<attempts, taken, block>>

FinishUpgrade ==
  /\ call.at = "upgrade" /\ call.waiting = {}
  /\ receipt' = IF call.merged /\ Blocks(call.tree) # {}
                THEN <<[status |-> "final", proof |-> WriteTimestamp(call.tree, Root)]>> ELSE receipt
  /\ call' = Idle
  /\ UNCHANGED <<attempts, taken, block>>

(* The server goes down before the receipt is stored; the next tick tries   *)
(* again.  In an upgrade this leaves what an upgrade that merged nothing   *)
(* leaves.                                                                 *)
Crash ==
  /\ call.at = "anchor" /\ attempts < MaxAttempts
  /\ call' = Idle
  /\ UNCHANGED <<attempts, taken, block, receipt>>

-------------------------------------------------------------------------------
(* verify(root, receipt), with a source of block headers that is missing,  *)
(* failing or answering: only the attestation of the lowest height is      *)
(* looked at.                                                              *)

Verify(r, source) ==
  LET read == Parse(r.proof, Root)
      blocks == Blocks(read.stamp)
      promised == Promises(read.stamp) # {}
      lowest == CHOOSE b \in blocks : \A c \in blocks : b.attestation[2] <= c.attestation[2]
      height == lowest.attestation[2]
  IN IF ~read.ok \/ (blocks = {} /\ ~promised) THEN "fails"
     ELSE IF blocks # {} /\ source # "none"
     THEN IF source = "answers" /\ height \in DOMAIN block /\ lowest.msg = MerkleRoot(height)
          THEN "final" ELSE "fails"
     ELSE IF (r.status = "final" /\ blocks = {}) \/ ~promised THEN "fails"
     ELSE "pending"

-------------------------------------------------------------------------------
Done ==
  /\ call.at = "idle" /\ (IF receipt = <<>> THEN attempts = MaxAttempts ELSE receipt[1].status = "final")
  /\ UNCHANGED vars

Next ==
  \/ StartAnchor \/ FinishAnchor
  \/ \E i \in DOMAIN Pools : (\E answered \in BOOLEAN : Submit(i, answered)) \/ SubmitFails(i)
  \/ StartUpgrade \/ FinishUpgrade
  \/ \E p \in call.waiting : Upgraded(p) \/ NotUpgraded(p)
  \/ Crash
  \/ \E c \in Calendars, n \in 1..MaxAttempts : Confirm(c, Digest(n))
  \/ Done

(* Calls return: every request has a timeout.  (The weak fairness of the    *)
(* steps that end one, spelled out so that TLC need not evaluate whether   *)
(* they are enabled.)  Nothing else is assumed here: not that calendars    *)
(* answer, and not that maintain asks for this receipt, of which it takes  *)
(* fifty at a time, in no order.                                           *)
Fairness == []<>(call.at = "idle")

Spec == Init /\ [][Next]_vars /\ Fairness

-------------------------------------------------------------------------------
(* Properties.                                                             *)

(* The type of every variable; a stored proof is a file that reads back.   *)
TypeOK ==
  /\ attempts \in 0..MaxAttempts
  /\ taken \subseteq Calendars \X {Digest(n) : n \in 1..MaxAttempts}
  /\ \A h \in DOMAIN block : \E t \in taken : block[h] = Commitment(t[1], t[2])
  /\ Len(receipt) <= 1
  /\ \A i \in DOMAIN receipt :
       receipt[i].status \in {"pending", "final"} /\ Parse(receipt[i].proof, Root).ok
  /\ call.at \in {"idle", "anchor", "upgrade"}
  /\ call.waiting \subseteq (IF call.at = "anchor" THEN DOMAIN Pools ELSE Promises(call.tree))
  /\ call.merged \in BOOLEAN

(* A stored proof is canonical: it does not depend on the order in which   *)
(* the calendars answered (anchor.ts awaits them all at once and merges    *)
(* upgrades as they come), holds no attestation twice, and reading and     *)
(* writing it again gives the same file.                                   *)
ProofCanonical ==
  \A i \in DOMAIN receipt :
    LET tree == Parse(receipt[i].proof, Root).stamp
    IN /\ \A m \in DOMAIN tree : \A j, k \in DOMAIN tree[m] :
            j < k => ItemBefore(tree[m][j], tree[m][k])
       /\ WriteTimestamp(tree, Root) = receipt[i].proof

(* A stored receipt verifies at the level its status names, whatever       *)
(* calendars failed, answered late or crashed on the way: a pending one    *)
(* rests on promises calendars made for a digest they hold, a final one on *)
(* a block that commits to the root; without headers a final one is still  *)
(* accepted as pending (anchor.ts verify).                                 *)
ReceiptVerifies ==
  \A i \in DOMAIN receipt :
    LET r == receipt[i]
        promises == Promises(Parse(r.proof, Root).stamp)
    IN /\ promises # {}
       /\ Verify(r, "answers") = r.status
       /\ Verify(r, "none") = "pending"
       /\ \A p \in promises : \E t \in taken :
            p.attestation = Pending(t[1]) /\ IsPrefix(Commitment(t[1], t[2]), p.msg)

Final == receipt # <<>> /\ receipt[1].status = "final"

(* maintain keeps selecting the receipt while it is pending, which its     *)
(* LIMIT 50 grants when no more than fifty are.                            *)
AskedAgain == []<>(call.at = "upgrade" \/ receipt = <<>> \/ Final)

(* A calendar works: it confirms what it took, and does not fail for ever  *)
(* to answer an upgrade that asks for its promise.                         *)
AskedOf(c) ==
  IF call.at = "upgrade" THEN {p \in call.waiting : p.attestation = Pending(c)} ELSE {}
Confirms(c) ==
  []<>(<<c, Tip>> \in taken => Confirmations(Commitment(c, Tip)) # {})
Works(c) ==
  /\ Confirms(c)
  /\ <>[](AskedOf(c) = {}) \/ []<><<\E p \in AskedOf(c) : Upgraded(p)>>_vars

PromisedBy(c) ==
  receipt # <<>> /\ \E p \in Promises(Parse(receipt[1].proof, Root).stamp) : p.attestation = Pending(c)

(* One calendar is enough: if it may be contacted and works, a receipt     *)
(* that holds its promise becomes final, whether the others are down,      *)
(* unknown or slow, provided that maintain keeps asking for the receipt    *)
(* (anchor.ts upgrade; anchorLoop.ts:122 promises no receipt a turn).      *)
EventuallyFinal ==
  \A c \in Calendars \cap Whitelist :
    AskedAgain /\ Works(c) => (PromisedBy(c) ~> Final)
=================================================================================
