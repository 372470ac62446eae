----------------------------- MODULE ExportVerifier -----------------------------
(***************************************************************************)
(* The offline verifier (packages/verify/src/index.ts): what it says of an *)
(* export file, given only the file.                                       *)
(*                                                                         *)
(* A file is its lines, in order but sorted by type as verifyExport sorts  *)
(* them: the manifest (at most one is written, before everything else),    *)
(* the events, the roots; torn says that what is left of a line that was   *)
(* not written to its end closes the file.                                 *)
(* Hashes and commitments are ideal (terms), so are signatures (the signed *)
(* hash with the key).  The client signatures are left out: their check    *)
(* has no part in the verdict.  Coverage is computed on sets of positions  *)
(* where the code sweeps over sorted intervals.                            *)
(***************************************************************************)
EXTENDS Integers, Sequences, Merkle

GENESIS == <<>>
NoHash == <<"empty">>  \* the empty string where a hash is expected

Commit(salt, data) == <<"commit", salt, data>>
EventHash(e) ==
  <<"event", e.id, e.position, e.action, e.target, e.payload_commit, e.prev_hash>>
Sign(key, hash) == <<"sig", key, hash>>

(* What the person who runs the verifier pins and allows. *)
Options == [pinnedServerKey: STRING, pinnedAnchorKey: BOOLEAN, online: BOOLEAN]

NoLines == [manifest |-> <<>>, events |-> <<>>, roots |-> <<>>, torn |-> FALSE]

-------------------------------------------------------------------------------
(* 1. The manifest, and the shape of every line.                           *)

ParseLines(lines) == ~lines.torn

ShapeOk(manifest, roots) ==
  /\ manifest.from_position \in Nat /\ manifest.to_position \in Nat
  /\ manifest.from_position <= manifest.to_position
  /\ manifest.prev_hash # NoHash
  /\ \A i \in DOMAIN roots : /\ roots[i].global_root # NoHash
                            /\ roots[i].from_position <= roots[i].to_position

ManifestOk(lines) ==
  /\ ParseLines(lines)
  /\ Len(lines.manifest) = 1
  /\ ShapeOk(lines.manifest[1], lines.roots)

(* 2. The chain. *)
VerifyChain(events, prev) ==
  \A i \in DOMAIN events :
    /\ events[i].position = events[1].position + i - 1
    /\ events[i].prev_hash = IF i = 1 THEN prev ELSE events[i - 1].event_hash
    /\ events[i].event_hash = EventHash(events[i])

(* Mutant: where the chain ends is not compared with the manifest. *)
CheckChainNoEnd(manifest, events) ==
  /\ events # <<>> /\ events[1].position = manifest.from_position
  /\ VerifyChain(events, manifest.prev_hash)

CheckChain(manifest, events) ==
  /\ events # <<>> /\ events[1].position = manifest.from_position
  /\ VerifyChain(events, manifest.prev_hash)
  /\ events[Len(events)].position = manifest.to_position
  /\ \A i \in DOMAIN events : events[i].tenant_id = manifest.tenant_id

(* 3. The server's signatures. *)
CheckSignatures(manifest, events, opts) ==
  /\ opts.pinnedServerKey \in {"none", manifest.server_public_key}
  /\ \A i \in DOMAIN events :
       events[i].server_sig = Sign(manifest.server_public_key, events[i].event_hash)

(* 4. Payloads: each one opens its commitment, or the chain says why it is *)
(* gone.  A shred record whose own payload is gone names no position.      *)
ErasureRecorded(e, events) ==
  \E i \in DOMAIN events :
    LET r == events[i]
    IN /\ r.position > e.position
       /\ \/ r.action = "payload.erased" /\ r.target = e.id
          \/ r.action = "payload.retention_shred" /\ r.payload # <<>>
             /\ r.payload[1].data >= e.position

CheckPayloads(events) ==
  \A i \in DOMAIN events :
    LET e == events[i]
    IN IF e.payload = <<>> THEN ErasureRecorded(e, events)
       ELSE Commit(e.payload[1].salt, e.payload[1].data) = e.payload_commit

(* 6. Roots, up to the first that cannot be rebuilt. *)
RootOk(manifest, events, r) ==
  /\ manifest.from_position <= r.from_position /\ r.to_position <= manifest.to_position
  /\ \A p \in r.from_position..r.to_position : \E i \in DOMAIN events : events[i].position = p
  /\ TreeRoot([k \in 1..(r.to_position - r.from_position + 1) |->
       events[CHOOSE i \in DOMAIN events :
                events[i].position = r.from_position + k - 1].event_hash]) = r.tenant_root
  /\ VerifyProof(r.tenant_root, r.path_to_project, r.project_root)
  /\ VerifyProof(r.project_root, r.path_to_global, r.global_root)

Rebuilt(manifest, events, roots) ==
  {i \in DOMAIN roots : \A j \in 1..i : RootOk(manifest, events, roots[j])}
CheckRoots(manifest, events, roots) == Rebuilt(manifest, events, roots) = DOMAIN roots

(* Mutant: a calendar's promise counts as an anchor. *)
AnchorStatusPending(receipt, opts, bound) ==
  CASE receipt.kind = "rekor" -> IF bound THEN "verified" ELSE "unverified"
    [] receipt.kind = "ots" -> "verified"
    [] OTHER -> "no_verifier"

(* 7. Anchors.  A Rekor entry counts if a key binds its signer; a timestamp *)
(* only once it holds a Bitcoin attestation, and the block headers can be   *)
(* asked for.                                                               *)
AnchorStatus(receipt, opts, bound) ==
  CASE receipt.kind = "rekor" -> IF bound THEN "verified" ELSE "unverified"
    [] receipt.kind = "ots" ->
         IF receipt.status = "final" /\ opts.online THEN "verified" ELSE "pending"
    [] OTHER -> "no_verifier"

AnchoredRoots(manifest, roots, rebuilt, opts) ==
  LET bound == opts.pinnedAnchorKey \/ manifest.anchor_public_key
  IN {i \in rebuilt : \E a \in roots[i].anchors : AnchorStatus(a, opts, bound) = "verified"}

(* 8. Coverage. *)
Positions(roots, S) == UNION {roots[i].from_position..roots[i].to_position : i \in S}
FullyAnchored(manifest, roots, rebuilt, anchored) ==
  /\ anchored # {} /\ anchored = rebuilt
  /\ manifest.from_position..manifest.to_position \subseteq Positions(roots, rebuilt)

-------------------------------------------------------------------------------
(* The verdict. *)
HardChecks(manifest, events, roots, opts) ==
  /\ CheckChain(manifest, events)
  /\ CheckSignatures(manifest, events, opts)
  /\ CheckPayloads(events)
  /\ CheckRoots(manifest, events, roots)

Anchored(manifest, events, roots, opts) ==
  LET rebuilt == Rebuilt(manifest, events, roots)
  IN FullyAnchored(manifest, roots, rebuilt, AnchoredRoots(manifest, roots, rebuilt, opts))

VerifyExport(lines, opts) ==
  IF ~ManifestOk(lines) THEN "INVALID"
  ELSE LET manifest == lines.manifest[1]
       IN IF ~HardChecks(manifest, lines.events, lines.roots, opts) THEN "INVALID"
          ELSE IF Anchored(manifest, lines.events, lines.roots, opts) THEN "VALID"
          ELSE "VALID_UNANCHORED"
=================================================================================
