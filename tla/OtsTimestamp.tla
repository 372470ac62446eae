------------------------------ MODULE OtsTimestamp ------------------------------
(***************************************************************************)
(* OpenTimestamps proofs (packages/anchor-ots/src/ots.ts): the tree of     *)
(* operations from a digest down to its attestations, the way it is        *)
(* merged, and the way it is written to a file and read back.              *)
(*                                                                         *)
(* A message is ideal: the digest followed by the operations applied to    *)
(* it, which is also the way to its node.  So a timestamp is a function    *)
(* from the messages of its nodes to what hangs off each, in the order it  *)
(* was added: attestations and operations, whose nodes are those of the    *)
(* messages they lead to.  An operation is its rank in the order           *)
(* compareOps gives, and a calendar its rank in the order of the URIs.  A  *)
(* file is a sequence of tokens, one for the fork marker 0xff, for an      *)
(* operation with its argument, and for an attestation with its payload,   *)
(* whose number is spelled out as writeVaruint spells it.                  *)
(***************************************************************************)
EXTENDS Integers, Sequences, FiniteSets, SequencesExt

CONSTANTS
  Base,         \* of a varuint's digits: 128
  MaxDigits,    \* the most digits a varuint may have
  MaxRecursion  \* 256

ASSUME FormatAssumption ==
  Base \in Nat \ {0, 1} /\ MaxDigits \in Nat \ {0} /\ MaxRecursion \in Nat \ {0}

ApplyOp(op, msg) == Append(msg, op)

(* What may hang off a node, in the order in which it is written: the      *)
(* attestation of a Bitcoin block, the promise of a calendar, and after    *)
(* all attestations the operations.                                        *)
Bitcoin(height) == <<1, height>>
Pending(uri) == <<2, uri>>
Op(op) == <<3, op>>
IsOp(item) == item[1] = 3
ItemBefore(a, b) == a[1] < b[1] \/ (a[1] = b[1] /\ a[2] < b[2])

Node(msg) == [m \in {msg} |-> <<>>]
ItemsAt(ts, msg) == IF msg \in DOMAIN ts THEN ts[msg] ELSE <<>>
WithNode(ts, msg) == [m \in DOMAIN ts \cup {msg} |-> ItemsAt(ts, m)]

-------------------------------------------------------------------------------
(* Numbers: digits of Base, lowest first, all but the last marked.         *)
WriteVaruint(n) ==
  LET digits[k \in 0..n] ==
        IF k < Base THEN <<[digit |-> k, more |-> FALSE]>>
        ELSE <<[digit |-> k % Base, more |-> TRUE]>> \o digits[k \div Base]
  IN digits[n]

ReadVaruint(digits) ==
  LET value[i \in 0..Len(digits)] ==
        IF i = 0 THEN 0 ELSE digits[Len(digits) + 1 - i].digit + Base * value[i - 1]
  IN value[Len(digits)]

WellFormed(digits) ==
  /\ digits # <<>> /\ Len(digits) <= MaxDigits
  /\ \A i \in DOMAIN digits : digits[i].more = (i # Len(digits))

Fork == [tag |-> "fork"]
Token(item) ==
  [tag |-> "item", kind |-> item[1],
   payload |-> IF item[1] = Bitcoin(0)[1] THEN WriteVaruint(item[2]) ELSE item[2]]
Readable(token) == token.kind = Bitcoin(0)[1] => WellFormed(token.payload)
ReadItem(token) ==
  <<token.kind, IF token.kind = Bitcoin(0)[1] THEN ReadVaruint(token.payload) ELSE token.payload>>

-------------------------------------------------------------------------------
(* Reading, token by token.  "open" is the stack of the recursion: the     *)
(* nodes with items to come, the innermost last; an item that is not       *)
(* marked as a fork is its node's last.                                    *)
Failed == [ok |-> FALSE, stamp |-> <<>>, open |-> <<>>, fork |-> FALSE]
Reading(ts, open, fork) == [ok |-> TRUE, stamp |-> ts, open |-> open, fork |-> fork]

(* One item, and for an operation the node below.                          *)
ReadOne(read, item, root) ==
  LET msg == Last(read.open)
      rest == IF read.fork THEN read.open ELSE Front(read.open)
      below == ApplyOp(item[2], msg)
      ts == [read.stamp EXCEPT ![msg] = Append(@, item)]
  IN IF ~IsOp(item) THEN Reading(ts, rest, FALSE)
     ELSE IF Len(below) - Len(root) >= MaxRecursion THEN Failed
     ELSE Reading(WithNode(ts, below), Append(rest, below), FALSE)

ReadToken(read, token, root) ==
  IF read.open = <<>> THEN Failed
  ELSE IF token.tag = "fork"
  THEN IF read.fork THEN Failed ELSE Reading(read.stamp, read.open, TRUE)
  ELSE IF Readable(token) THEN ReadOne(read, ReadItem(token), root) ELSE Failed

ReadTimestamp(start, tokens, root) ==
  LET read[i \in 0..Len(tokens)] ==
        IF i = 0 THEN start ELSE ReadToken(read[i - 1], tokens[i], root)
  IN read[Len(tokens)]

(* parseTimestamp, parseDetached: nothing may be left over. *)
Parse(tokens, msg) ==
  LET read == ReadTimestamp(Reading(Node(msg), <<msg>>, FALSE), tokens, msg)
  IN IF read.ok /\ read.open = <<>> THEN read ELSE Failed

-------------------------------------------------------------------------------
(* Writing.  Every item but a node's last is marked as a fork, and items   *)
(* are sorted, so equal trees are equal files.  A node has no item twice.  *)
Sorted(items) ==
  LET S == Range(items)
  IN CHOOSE s \in [1..Cardinality(S) -> S] :
       \A i, j \in 1..Cardinality(S) : i < j => ItemBefore(s[i], s[j])

(* The items of a node with the files of the nodes below them.             *)
Joined(items, below) ==
  LET out[i \in 0..Len(items)] ==
        IF i = 0 THEN <<>>
        ELSE out[i - 1] \o (IF i < Len(items) THEN <<Fork, Token(items[i])>> ELSE <<Token(items[i])>>)
               \o below[i]
  IN out[Len(items)]

Below(written, items, msg) ==
  [i \in DOMAIN items |-> IF IsOp(items[i]) THEN written[ApplyOp(items[i][2], msg)] ELSE <<>>]

(* Mutant: items are written in the order they were added. *)
WriteTimestampUnsorted(ts, msg) ==
  LET written[m \in DOMAIN ts] == Joined(ts[m], Below(written, ts[m], m))
  IN written[msg]

(* Mutant: the last attestation is not marked as a fork when operations    *)
(* follow it.                                                              *)
JoinedUnmarked(items, below) ==
  LET out[i \in 0..Len(items)] ==
        IF i = 0 THEN <<>>
        ELSE out[i - 1] \o (IF i < Len(items) /\ IsOp(items[i]) = IsOp(items[i + 1])
                            THEN <<Fork, Token(items[i])>> ELSE <<Token(items[i])>>)
               \o below[i]
  IN out[Len(items)]
WriteTimestampUnmarked(ts, msg) ==
  LET written[m \in DOMAIN ts] == JoinedUnmarked(Sorted(ts[m]), Below(written, Sorted(ts[m]), m))
  IN written[msg]

WriteTimestamp(ts, msg) ==
  LET written[m \in DOMAIN ts] == Joined(Sorted(ts[m]), Below(written, Sorted(ts[m]), m))
  IN written[msg]

-------------------------------------------------------------------------------
(* Merging: an item is added where it is missing.                          *)
AddItem(items, item) == IF item \in Range(items) THEN items ELSE Append(items, item)
AddItems(items, others) ==
  LET sum[i \in 0..Len(others)] == IF i = 0 THEN items ELSE AddItem(sum[i - 1], others[i])
  IN sum[Len(others)]

AddOp(ts, msg, op) ==
  WithNode([ts EXCEPT ![msg] = AddItem(@, Op(op))], ApplyOp(op, msg))

(* The merge of a timestamp whose message is that of a node.               *)
MergeTimestamp(ts, other) ==
  [m \in DOMAIN ts \cup DOMAIN other |-> AddItems(ItemsAt(ts, m), ItemsAt(other, m))]

(* Every attestation with the message it is over. *)
AllAttestations(ts) ==
  UNION {{[msg |-> m, attestation |-> a] : a \in {x \in Range(ts[m]) : ~IsOp(x)}} : m \in DOMAIN ts}
=================================================================================
