------------------------------- MODULE RekorAnchor -------------------------------
(***************************************************************************)
(* The Rekor anchor (packages/anchor-rekor): anchor posts a signed entry   *)
(* for a global root to a v2 log, retrying, then falls back to a v1 log,   *)
(* and keeps the log's answer only if it verifies offline; verify judges a *)
(* receipt from what it carries and, online, from what the log says now.   *)
(*                                                                         *)
(* A log takes the entries of others too.  Its answer may be late, lost,   *)
(* or faulty, after it took the entry or before.  A v2 log appends an      *)
(* entry every time it is posted; a v1 log refuses one it has, and what it *)
(* says then holds no entry.  Its inclusion proofs count from the start of *)
(* the shard, its log indices from the start of the log.                   *)
(***************************************************************************)
EXTENDS Integers, Sequences, FiniteSets, Rfc6962

CONSTANTS
  MaxPosts,    \* attempts of postJsonWithRetry: 4
  ShardStart,  \* the log index of the v1 shard's first entry
  MaxCalls,    \* bound: calls of anchor
  MaxOthers    \* bound: entries of others in a log

ASSUME ConstantsAssumption ==
  /\ MaxPosts \in Nat \ {0} /\ ShardStart \in Nat
  /\ MaxCalls \in Nat /\ MaxOthers \in Nat

Apis == {1, 2}
Targets == <<2, 1>>
OurKey == "anchor key"
LogKey(api) == IF api = 2 THEN "v2 log key" ELSE "v1 log key"
KnownKeys == {LogKey(api) : api \in Apis}

VARIABLES
  log,       \* by api, the sequence of entry bodies
  calls,     \* calls of anchor so far; each is for a root of its own
  call,      \* the call in progress
  receipts   \* by call, the receipt it returned, as a sequence of at most one

vars == <<log, calls, call, receipts>>

(* A hashedrekord body: the digest names the root; a signature is new with *)
(* every call, so bodies of different calls differ.                        *)
Body(n, api) ==
  [version |-> api, digest |-> n, signature |-> <<OurKey, n>>, publicKey |-> OurKey]
OthersBody(i, api) ==
  [version |-> api, digest |-> 0, signature |-> <<"other", i>>, publicKey |-> "other"]

Idle == [at |-> "idle", target |-> 1, post |-> 1]

Init ==
  /\ log = [api \in Apis |-> <<>>]
  /\ calls = 0 /\ call = Idle
  /\ receipts = [n \in 1..MaxCalls |-> <<>>]

-------------------------------------------------------------------------------
(* The logs.                                                               *)

Others(api) == {i \in DOMAIN log[api] : log[api][i].publicKey = "other"}

OtherEntry(api) ==
  /\ Cardinality(Others(api)) < MaxOthers
  /\ log' = [log EXCEPT ![api] = Append(@, OthersBody(Cardinality(Others(api)), api))]
  /\ UNCHANGED <<calls, call, receipts>>

LogStart(api) == IF api = 1 THEN ShardStart ELSE 0

Checkpoint(api, size) ==
  [origin |-> LogKey(api), size |-> size,
   root |-> TreeHead(SubSeq(log[api], 1, size)), signer |-> LogKey(api)]

(* What a log says of the entry at an index, under a checkpoint that       *)
(* covers it.                                                              *)
Response(api, index, size) ==
  [api |-> api, logIndex |-> LogStart(api) + index, proofIndex |-> index, size |-> size,
   root |-> Checkpoint(api, size).root,
   hashes |-> InclusionProof(index, SubSeq(log[api], 1, size)),
   checkpoint |-> Checkpoint(api, size), keyId |-> LogKey(api), version |-> api,
   body |-> log[api][index + 1]]

(* The faults of a log: the answer is for another entry, its proof is for  *)
(* an older tree than its checkpoint or names another place, its log index *)
(* is missing (-1) or that of another place, or the checkpoint is signed   *)
(* by a key that is not known.                                             *)
Faulty(api, index, size) ==
  LET good == Response(api, index, size)
  IN {[good EXCEPT !.checkpoint.signer = "new shard key"]}
     \cup {[good EXCEPT !.logIndex = i] : i \in
               ({-1} \cup LogStart(api)..LogStart(api) + size) \ {good.logIndex}}
     \cup {Response(api, i, size) : i \in 0..(size - 1) \ {index}}
     \cup {[good EXCEPT !.proofIndex = i] : i \in 0..size \ {index}}
     \cup {[good EXCEPT !.checkpoint = Checkpoint(api, n)] : n \in index + 1..size - 1}

-------------------------------------------------------------------------------
(* verifyRekorReceipt, offline and online.                                 *)

(* The receipt's document has all its fields; -1 stands for a missing one. *)
Decodes(p) == p.logIndex >= 0 /\ p.proofIndex >= 0

(* Our key signed an entry of the version the receipt claims. *)
EntrySigned(p) ==
  /\ p.body.version = p.version
  /\ p.body.signature = <<p.body.publicKey, p.body.digest>> /\ p.body.publicKey = OurKey

(* A known log signed the checkpoint. *)
CheckpointSigned(p) ==
  /\ p.checkpoint.signer \in KnownKeys
  /\ p.api = 2 => p.checkpoint.origin = p.checkpoint.signer
  /\ p.keyId = p.checkpoint.signer

(* The proof leads from the entry to the tree of the checkpoint. *)
Included(p) ==
  /\ p.size = p.checkpoint.size
  /\ RootFromInclusionProof(LeafHash(p.body), p.proofIndex, p.checkpoint.size, p.hashes)
       = p.checkpoint.root
  /\ p.root = p.checkpoint.root

(* Mutant: the entry's digest is not compared with the root.               *)
VerifyOfflineAnyRoot(n, p) ==
  Decodes(p) /\ EntrySigned(p) /\ CheckpointSigned(p) /\ Included(p)

VerifyOffline(n, p) ==
  /\ Decodes(p)
  /\ p.body.digest = n /\ EntrySigned(p)
  /\ CheckpointSigned(p) /\ Included(p)

(* The log is asked too: v1 for the entry, v2 for its current checkpoint.  *)
CheckOnline(p) ==
  IF p.api = 1
  THEN \E i \in DOMAIN log[1] : LogStart(1) + i - 1 = p.logIndex /\ log[1][i] = p.body
  ELSE Len(log[2]) >= p.checkpoint.size

-------------------------------------------------------------------------------
(* anchor(root).                                                           *)

Api == Targets[call.target]
OurEntries(n, api) == {i \in DOMAIN log[api] : log[api][i] = Body(n, api)}
LastOf(is) == CHOOSE i \in is : \A j \in is : j <= i

StartAnchor ==
  /\ call.at = "idle" /\ calls < MaxCalls
  /\ calls' = calls + 1 /\ call' = [Idle EXCEPT !.at = "posting"]
  /\ UNCHANGED <<log, receipts>>

(* The next target, or the call throws. *)
NextTarget ==
  IF call.target < Len(Targets)
  THEN [Idle EXCEPT !.at = "posting", !.target = call.target + 1] ELSE Idle

(* The log takes the entry, which a v1 log does once. *)
Take ==
  /\ call.at = "posting"
  /\ Api = 2 \/ OurEntries(calls, 1) = {}
  /\ log' = [log EXCEPT ![Api] = Append(@, Body(calls, Api))]
  /\ call' = [call EXCEPT !.at = "taken"]
  /\ UNCHANGED <<calls, receipts>>

(* The answer is made into a receipt, verified, and returned. *)
Answer(response) ==
  /\ IF VerifyOffline(calls, response)
     THEN call' = Idle /\ receipts' = [receipts EXCEPT ![calls] = <<response>>]
     ELSE call' = NextTarget /\ UNCHANGED receipts
  /\ UNCHANGED <<log, calls>>

Answered ==
  /\ call.at = "taken"
  /\ LET index == LastOf(OurEntries(calls, Api)) - 1
     IN \E size \in (index + 1)..Len(log[Api]) :
          \E response \in {Response(Api, index, size)} \cup Faulty(Api, index, size) :
            Answer(response)

(* A 4xx, or the 409 of a v1 log that has the entry, whose document is not *)
(* an entry: the target has failed.                                        *)
Refused ==
  /\ call.at = "posting"
  /\ call' = NextTarget
  /\ UNCHANGED <<log, calls, receipts>>

(* Mutant: attempts are not counted. *)
RetryForever ==
  /\ call.at \in {"posting", "taken"}
  /\ call' = [call EXCEPT !.at = "posting"]
  /\ UNCHANGED <<log, calls, receipts>>

(* 429, 5xx, no connection, or an answer that is lost or too late: retried *)
(* while attempts are left.                                                *)
Retry ==
  /\ call.at \in {"posting", "taken"}
  /\ call' = IF call.post < MaxPosts
             THEN [call EXCEPT !.at = "posting", !.post = @ + 1] ELSE NextTarget
  /\ UNCHANGED <<log, calls, receipts>>

-------------------------------------------------------------------------------
Done == call.at = "idle" /\ calls = MaxCalls /\ UNCHANGED vars

Next ==
  \/ StartAnchor \/ Take \/ Answered \/ Refused \/ Retry
  \/ \E api \in Apis : OtherEntry(api)
  \/ Done

(* Every request has a timeout. *)
Spec == Init /\ [][Next]_vars /\ WF_vars(Retry)

-------------------------------------------------------------------------------
(* Properties.                                                             *)

Kept == {n \in 1..MaxCalls : receipts[n] # <<>>}

(* The type of every variable.  A log holds an entry of a call at most as  *)
(* often as it was posted, and a v1 log once.                              *)
TypeOK ==
  /\ calls \in 0..MaxCalls
  /\ call.at \in {"idle", "posting", "taken"}
  /\ call.target \in DOMAIN Targets /\ call.post \in 1..MaxPosts
  /\ \A n \in 1..MaxCalls : Len(receipts[n]) <= 1
  /\ \A api \in Apis :
       /\ \A i \in DOMAIN log[api] : log[api][i].version = api
       /\ \A n \in 1..MaxCalls :
            Cardinality(OurEntries(n, api)) <= (IF api = 1 THEN 1 ELSE MaxPosts)

(* The log index is the place that the proof is for; only v1 uses it. *)
Numbered(p) == p.api = 1 => p.logIndex = LogStart(1) + p.proofIndex

(* A receipt that anchor returned proves the entry of its root at its      *)
(* place in the log and verifies offline, then and ever after, while the   *)
(* log grows, whichever of Faulty's faults the answer had (rekor.ts anchor *)
(* verifies the answer before it returns it; verify.ts).  Its log index is *)
(* taken from the answer unchecked (rekor.ts:144), and nothing offline     *)
(* looks at it: a v1 receipt verifies online exactly when the log had      *)
(* numbered the entry right, a v2 receipt always.                          *)
ReceiptsProve ==
  \A n \in Kept :
    LET p == receipts[n][1]
    IN /\ p.proofIndex + 1 \in OurEntries(n, p.api)
       /\ VerifyOffline(n, p)
       /\ CheckOnline(p) <=> Numbered(p)

(* Of all inclusion proofs a log could hand out, for any entry and size,   *)
(* the verifier takes at each place the entry that is there with the proof *)
(* for that place, and nothing else (rfc6962.ts rootFromInclusionProof:    *)
(* the split into an inner and a border part is right for every size).     *)
ProofsAreExact ==
  \A api \in Apis : \A size \in 1..Len(log[api]) :
    LET leaves == SubSeq(log[api], 1, size)
    IN \A i, j, k \in 0..(size - 1) :
         (RootFromInclusionProof(LeafHash(leaves[i + 1]), j, size, InclusionProof(k, leaves))
            = TreeHead(leaves))
         <=> (leaves[i + 1] = leaves[j + 1]
               /\ InclusionProof(k, leaves) = InclusionProof(j, leaves))

(* anchor returns or throws, whatever the logs do: it gives up on a log    *)
(* after its attempts, and on the anchor after the last log (http.ts       *)
(* postJsonWithRetry, rekor.ts anchor).                                    *)
AnchorReturns == call.at # "idle" ~> call.at = "idle"
=================================================================================
