------------------------------ MODULE ExportStream ------------------------------
(***************************************************************************)
(* What a reader is given of one tenant's chain while the server goes on   *)
(* (packages/server: exportLines and verifyRange of events.ts, verifyRoots *)
(* and proofForEvent of anchorLoop.ts, ndjsonResponse of app.ts).          *)
(*                                                                         *)
(* An export is a generator that the response pulls one line at a time: it *)
(* reads the tenant and its batches for the manifest, all events at the    *)
(* second pull, all roots once the events are out, and a root's receipts   *)
(* when its line is due.  Whatever else the server does may run between    *)
(* two pulls, and the connection may be lost at any of them.               *)
(*                                                                         *)
(* The database is what AuditChain and AnchorLoop describe in detail, here *)
(* with real Merkle trees and one step per request or tick.  Other tenants *)
(* and projects are leaves beside this one's in the project and global     *)
(* trees.  Salts are the ids of their events, which are unique.            *)
(***************************************************************************)
EXTENDS Integers, Sequences, FiniteSets, ExportVerifier

CONSTANTS
  MaxEvents,  \* bound: events ever appended
  MaxTicks,   \* bound: ticks that root something
  MaxResets,  \* bound: demo resets
  MaxFaults,  \* bound: ticks cut off after rootProject, retention runs after the DELETE
  Requests,   \* <<from, to>> of the exports asked for; to = -1: not given
  Kinds,      \* the configured public logs: rekor, ots
  AnchorKey   \* whether the server has a key for its Rekor entries

ASSUME ConstantsAssumption ==
  /\ MaxEvents \in Nat /\ MaxTicks \in Nat /\ MaxResets \in Nat /\ MaxFaults \in Nat
  /\ AnchorKey \in BOOLEAN /\ Kinds \subseteq {"rekor", "ots"} /\ Requests \subseteq Nat \X Int

ServerKey == "server_key"
Unlinked == 0

VARIABLES
  era,      \* how often the demo reset has emptied the project
  chain,    \* the tenant's event rows; position i is chain[i + 1]
  payload,  \* the positions whose payload row exists
  silent,   \* (a history variable) the positions whose payload a retention run
            \* deleted without a record, and no later record covers
  batches,  \* the tenant's tenant_root rows, with their project_root's columns
  globals,  \* the registry's global roots, oldest first, and (a history
            \* variable) the hashes of this tenant's events under each
  receipts, \* the registry's anchor rows
  appended, faults,  \* bounds
  stream,   \* the response of the export
  file      \* the lines the reader has received

database == <<era, chain, payload, silent, batches>>
registry == <<globals, receipts>>
vars == <<database, registry, appended, faults, stream, file>>

NoStream == [at |-> "none", tenant |-> 0, from |-> 0, to |-> 0,
             rows |-> <<>>, roots |-> <<>>, quiet |-> TRUE]

Init ==
  /\ era = 0 /\ chain = <<>> /\ payload = {} /\ silent = {} /\ batches = <<>>
  /\ globals = <<>> /\ receipts = {}
  /\ appended = 0 /\ faults = 0
  /\ stream = NoStream /\ file = NoLines

Streaming == stream.at \in {"manifest", "events", "roots"}
(* The rows the rest of an export reads have changed since its manifest. *)
Disturb == stream' = [stream EXCEPT !.quiet = FALSE]

-------------------------------------------------------------------------------
(* The rest of the server.                                                 *)

HeadPosition == Len(chain) - 1
HeadHash == IF chain = <<>> THEN GENESIS ELSE chain[Len(chain)].event_hash

NewRow(action, target, data) ==
  LET id == <<era, Len(chain)>>
      header == [id |-> id, position |-> Len(chain), action |-> action, target |-> target,
                 payload_commit |-> Commit(id, data), prev_hash |-> HeadHash]
  IN [id |-> id, position |-> Len(chain), action |-> action, target |-> target,
      payload_commit |-> header.payload_commit, prev_hash |-> HeadHash,
      event_hash |-> EventHash(header), data |-> data]

AppendEvent(action, target, data) ==
  /\ appended < MaxEvents /\ appended' = appended + 1
  /\ chain' = Append(chain, NewRow(action, target, data))

Ingest ==
  /\ AppendEvent("app", <<>>, 0)
  /\ payload' = payload \cup {Len(chain)}
  /\ UNCHANGED <<era, silent, batches, registry, faults, stream, file>>

Erase(p) ==
  /\ p \in payload
  /\ AppendEvent("payload.erased", <<era, p>>, 0)
  /\ payload' = (payload \ {p}) \cup {Len(chain)}
  /\ Disturb
  /\ UNCHANGED <<era, silent, batches, registry, faults, file>>

(* The retention job: the payloads up to position p are past the cutoff.   *)
(* The DELETE commits by itself; the record is a call of ingest after it.  *)
Expired(p) == {q \in payload : q <= p}

ApplyRetention(p) ==
  /\ p \in payload
  /\ AppendEvent("payload.retention_shred", <<>>, p)
  /\ payload' = (payload \ Expired(p)) \cup {Len(chain)}
  /\ silent' = {q \in silent : q > p}
  /\ Disturb
  /\ UNCHANGED <<era, batches, registry, faults, file>>

(* ingest refuses the records of all tenants, for one that demands client  *)
(* signatures, or the process dies before it commits them (and then the    *)
(* response is lost as well): the payloads are gone all the same.          *)
ShredUnrecorded(p) ==
  /\ p \in payload
  /\ faults < MaxFaults /\ faults' = faults + 1
  /\ payload' = payload \ Expired(p)
  /\ silent' = silent \cup Expired(p)
  /\ Disturb
  /\ UNCHANGED <<era, chain, batches, registry, appended, file>>

(* Mutant: the reset forgets the payload table. *)
ResetProjectKeepsPayloads ==
  /\ era < MaxResets /\ chain # <<>>
  /\ era' = era + 1 /\ chain' = <<>> /\ batches' = <<>>
  /\ Disturb
  /\ UNCHANGED <<payload, silent, registry, appended, faults, file>>

ResetProject ==
  /\ era < MaxResets /\ chain # <<>>
  /\ era' = era + 1 /\ chain' = <<>> /\ payload' = {} /\ silent' = {} /\ batches' = <<>>
  /\ Disturb
  /\ UNCHANGED <<registry, appended, faults, file>>

RootedThrough == IF batches = <<>> THEN -1 ELSE batches[Len(batches)].to_position
Hashes(from, to) == [i \in 1..(to - from + 1) |-> chain[from + i].event_hash]

(* rootProject: a batch of all unrooted events, after another tenant's in  *)
(* the project's tree.                                                     *)
NewBatch ==
  LET from == RootedThrough + 1
      root == TreeRoot(Hashes(from, HeadPosition))
      leaves == <<<<"other", Len(globals)>>, root>>
  IN [from_position |-> from, to_position |-> HeadPosition, tenant_root |-> root,
      path_to_project |-> ProofFor(leaves, Len(leaves) - 1), project_root |-> TreeRoot(leaves),
      global_root_id |-> Unlinked, path_to_global |-> <<>>, global_root |-> NoHash]

(* A tick that dies between rootProject and the global root. *)
TickCutOff ==
  /\ RootedThrough < HeadPosition
  /\ faults < MaxFaults /\ faults' = faults + 1
  /\ batches' = Append(batches, NewBatch)
  /\ Disturb
  /\ UNCHANGED <<era, chain, payload, silent, registry, appended, file>>

(* tick up to its first await: the fresh project root, then the dangling   *)
(* ones, beside the previous global root and another project's root.       *)
Dangling ==
  LET scan[i \in 0..Len(batches)] ==
        IF i = 0 THEN <<>>
        ELSE IF batches[i].global_root_id = Unlinked THEN Append(scan[i - 1], i) ELSE scan[i - 1]
  IN scan[Len(batches)]
GlobalLeaves(all) ==
  LET prev == IF globals = <<>> THEN GENESIS ELSE globals[Len(globals)].root
      rooted == <<Len(all)>> \o Dangling
  IN <<prev, <<"other", Len(globals)>>>> \o [i \in DOMAIN rooted |-> all[rooted[i]].project_root]
PathToGlobal(all, b) ==
  LET rooted == <<Len(all)>> \o Dangling
  IN ProofFor(GlobalLeaves(all), 1 + CHOOSE i \in DOMAIN rooted : rooted[i] = b)

ToLink(all) == {b \in DOMAIN all : all[b].global_root_id = Unlinked}
Covered(all) == UNION {all[b].from_position..all[b].to_position : b \in ToLink(all)}

Tick ==
  /\ RootedThrough < HeadPosition /\ Len(globals) < MaxTicks
  /\ LET all == Append(batches, NewBatch)
         hash == TreeRoot(GlobalLeaves(all))
     IN /\ globals' = Append(globals, [root |-> hash,
                                       covers |-> {chain[p + 1].event_hash : p \in Covered(all)}])
        /\ batches' = [b \in DOMAIN all |->
             IF b \notin ToLink(all) THEN all[b]
             ELSE [all[b] EXCEPT !.global_root_id = Len(globals) + 1, !.global_root = hash,
                                 !.path_to_global = PathToGlobal(all, b)]]
  /\ Disturb
  /\ UNCHANGED <<era, chain, payload, silent, receipts, appended, faults, file>>

Receipts(g) == {[kind |-> r.kind, status |-> r.status] : r \in {s \in receipts : s.root = g}}

RecordReceipt(g, kind) ==
  /\ g \in DOMAIN globals /\ ~\E r \in receipts : r.root = g /\ r.kind = kind
  /\ receipts' = receipts \cup
       {[root |-> g, kind |-> kind, status |-> IF kind = "ots" THEN "pending" ELSE "final"]}
  /\ UNCHANGED <<database, globals, appended, faults, stream, file>>

UpgradeReceipt(g) ==
  LET pending == [root |-> g, kind |-> "ots", status |-> "pending"]
  IN /\ pending \in receipts
     /\ receipts' = (receipts \ {pending}) \cup {[pending EXCEPT !.status = "final"]}
     /\ UNCHANGED <<database, globals, appended, faults, stream, file>>

-------------------------------------------------------------------------------
(* GET /v1/export.                                                         *)

(* The batches that touch a range are neighbours: batches have no gaps.    *)
Overlapping(from, to) ==
  LET found == {i \in DOMAIN batches : /\ batches[i].to_position >= from
                                       /\ batches[i].from_position <= to}
  IN IF found = {} THEN <<>> ELSE SubSeq(batches, Min(found), Max(found))
AtMost(a, b) == IF a <= b THEN a ELSE b
AtLeast(a, b) == IF a <= b THEN b ELSE a
End(requested) == IF requested = -1 THEN HeadPosition ELSE AtMost(requested, HeadPosition)

(* Mutant: the range is not widened to whole batches. *)
WidenNot(from, to) == [from |-> from, to |-> to]

Widen(from, to) ==
  LET found == Overlapping(from, to)
  IN IF found = <<>> THEN [from |-> from, to |-> to]
     ELSE [from |-> AtMost(from, found[1].from_position),
           to |-> AtLeast(to, found[Len(found)].to_position)]

(* The event before the range must exist, or the request ends with a 500. *)
PrevExists(from) == from = 0 \/ from - 1 \in 0..HeadPosition
PrevHash(from) == IF from = 0 THEN GENESIS ELSE chain[from].event_hash

Manifest(range, from, to) ==
  [tenant_id |-> era, from_position |-> range.from,
   to_position |-> range.to, requested_from |-> from, requested_to |-> to,
   prev_hash |-> PrevHash(range.from), server_public_key |-> ServerKey,
   anchor_public_key |-> AnchorKey]

(* ndjsonResponse draws the first line before it answers.  -1: no "to" given. *)
StartExport(from, to) ==
  LET range == Widen(from, End(to))
  IN /\ ~Streaming
     /\ appended > 0 \* a tenant that was never written to answers 400
     /\ PrevExists(range.from)
     /\ file' = [NoLines EXCEPT !.manifest = <<Manifest(range, from, End(to))>>]
     /\ stream' = [NoStream EXCEPT !.at = "manifest", !.tenant = era,
                                   !.from = range.from, !.to = range.to]
     /\ UNCHANGED <<database, registry, appended, faults>>

EventLine(row) ==
  [tenant_id |-> era, id |-> row.id, position |-> row.position,
   action |-> row.action, target |-> row.target, payload_commit |-> row.payload_commit,
   prev_hash |-> row.prev_hash, event_hash |-> row.event_hash,
   server_sig |-> Sign(ServerKey, row.event_hash),
   payload |-> IF row.position \in payload THEN <<[salt |-> row.id, data |-> row.data]>> ELSE <<>>]

RootLine(b) ==
  [tenant_root |-> b.tenant_root, from_position |-> b.from_position,
   to_position |-> b.to_position, path_to_project |-> b.path_to_project,
   project_root |-> b.project_root, path_to_global |-> b.path_to_global,
   global_root |-> b.global_root, anchors |-> Receipts(b.global_root_id)]

(* The queries find nothing once a reset has dropped the tenant. *)
ChainRows(from, to) ==
  IF stream.tenant # era THEN <<>>
  ELSE [i \in 1..(AtMost(to, HeadPosition) - from + 1) |-> EventLine(chain[from + i])]
RootRows(from, to) == IF stream.tenant # era THEN <<>> ELSE Overlapping(from, to)

RowsLeft == IF stream.at = "manifest" THEN ChainRows(stream.from, stream.to) ELSE stream.rows
RootsLeft == IF stream.at = "roots" THEN stream.roots ELSE RootRows(stream.from, stream.to)

PullEvent ==
  /\ Streaming /\ RowsLeft # <<>>
  /\ file' = [file EXCEPT !.events = Append(file.events, Head(RowsLeft))]
  /\ stream' = [stream EXCEPT !.at = "events", !.rows = Tail(RowsLeft)]
  /\ UNCHANGED <<database, registry, appended, faults>>

PullRoot ==
  /\ Streaming /\ RowsLeft = <<>> /\ RootsLeft # <<>>
  /\ file' = [file EXCEPT !.roots = Append(file.roots, RootLine(Head(RootsLeft)))]
  /\ stream' = [stream EXCEPT !.at = "roots", !.rows = <<>>, !.roots = Tail(RootsLeft)]
  /\ UNCHANGED <<database, registry, appended, faults>>

EndExport ==
  /\ Streaming /\ RowsLeft = <<>> /\ RootsLeft = <<>>
  /\ stream' = [stream EXCEPT !.at = "done"]
  /\ UNCHANGED <<database, registry, appended, faults, file>>

(* The connection is lost, between two lines or inside one. *)
LoseConnection(torn) ==
  /\ Streaming
  /\ stream' = [stream EXCEPT !.at = "lost", !.rows = <<>>, !.roots = <<>>]
  /\ file' = [file EXCEPT !.torn = torn]
  /\ UNCHANGED <<database, registry, appended, faults>>

-------------------------------------------------------------------------------
Database ==
  \/ Ingest \/ ResetProject
  \/ \E p \in 0..HeadPosition : Erase(p) \/ ApplyRetention(p) \/ ShredUnrecorded(p)
Anchoring ==
  \/ Tick \/ TickCutOff
  \/ \E g \in 1..MaxTicks : UpgradeReceipt(g) \/ \E k \in Kinds : RecordReceipt(g, k)
Export ==
  \/ \E r \in Requests : StartExport(r[1], r[2])
  \/ PullEvent \/ PullRoot \/ EndExport
  \/ \E torn \in BOOLEAN : LoseConnection(torn)

Next == Database \/ Anchoring \/ Export
Spec == Init /\ [][Next]_vars

-------------------------------------------------------------------------------
(* GET /v1/verify and GET /v1/events/:id/proof.                            *)

RegistryRoot(g) == IF g \in DOMAIN globals THEN globals[g].root ELSE NoHash

VerifyRoots(from, to) ==
  \A i \in DOMAIN Overlapping(from, to) :
    LET b == Overlapping(from, to)[i]
    IN /\ b.to_position <= HeadPosition
       /\ TreeRoot(Hashes(b.from_position, b.to_position)) = b.tenant_root
       /\ VerifyProof(b.tenant_root, b.path_to_project, b.project_root)
       /\ b.global_root_id # Unlinked =>
            /\ VerifyProof(b.project_root, b.path_to_global, b.global_root)
            /\ RegistryRoot(b.global_root_id) = b.global_root

(* The payloads that are still there open their commitments. *)
VerifyPayloads(from, to) ==
  \A p \in payload \cap (from..to) : chain[p + 1].payload_commit = Commit(chain[p + 1].id, chain[p + 1].data)

VerifyRange(from, to) ==
  /\ PrevExists(from)
  /\ LET rows == SubSeq(chain, from + 1, to + 1)
     IN /\ VerifyChain(rows, PrevHash(from))
        /\ to = HeadPosition =>
             HeadHash = IF rows = <<>> THEN PrevHash(from) ELSE rows[Len(rows)].event_hash
  /\ VerifyPayloads(from, to)
  /\ VerifyRoots(from, to)

(* The ends of the batches whose global root has any receipt at all. *)
AnchoredEnds ==
  {batches[i].to_position : i \in {j \in DOMAIN batches :
     batches[j].global_root_id # Unlinked /\ Receipts(batches[j].global_root_id) # {}}}

(* Mutant: the lowest of them. *)
FirstAnchoredPosition == IF AnchoredEnds = {} THEN -1 ELSE Min(AnchoredEnds)

LastAnchoredPosition == IF AnchoredEnds = {} THEN -1 ELSE Max(AnchoredEnds)

BatchOf(p) == CHOOSE b \in {batches[i] : i \in DOMAIN batches} :
                b.from_position <= p /\ p <= b.to_position

(* The three paths of proofForEvent, followed as its caller would. *)
EventProofHolds(p) ==
  LET b == BatchOf(p)
      leaves == Hashes(b.from_position, b.to_position)
  IN /\ VerifyProof(chain[p + 1].event_hash, ProofFor(leaves, p - b.from_position), b.tenant_root)
     /\ VerifyProof(b.tenant_root, b.path_to_project, b.project_root)
     /\ VerifyProof(b.project_root, b.path_to_global, b.global_root)

-------------------------------------------------------------------------------
(* Properties.                                                             *)

(* The type of every variable; positions have no gap, and a payload is of  *)
(* an event that is there (the demo reset empties all tables at once).     *)
TypeOK ==
  /\ era \in 0..MaxResets /\ appended \in 0..MaxEvents /\ faults \in 0..MaxFaults
  /\ payload \subseteq 0..HeadPosition /\ silent \subseteq 0..HeadPosition
  /\ \A i \in DOMAIN chain : chain[i].position = i - 1 /\ chain[i].id = <<era, i - 1>>
  /\ \A i \in DOMAIN batches : batches[i].global_root_id \in 0..Len(globals)
  /\ receipts \subseteq [root: DOMAIN globals, kind: {"rekor", "ots"}, status: {"pending", "final"}]
  /\ stream.at \in {"none", "manifest", "events", "roots", "done", "lost"}
  /\ stream.tenant \in 0..era /\ stream.from \in Nat /\ stream.to \in Int
  /\ stream.quiet \in BOOLEAN
  /\ Len(file.manifest) = (IF stream.at = "none" THEN 0 ELSE 1) /\ file.torn \in BOOLEAN

Auditors == [pinnedServerKey: {ServerKey}, pinnedAnchorKey: {FALSE}, online: BOOLEAN]

(* The records that explain a missing payload are in the exported range,   *)
(* and none of the retention job's was itself erased.                      *)
RecordsExported ==
  /\ \A i \in DOMAIN chain : chain[i].action # "app" => chain[i].position <= file.manifest[1].to_position
  /\ \A i, j \in DOMAIN chain :
       chain[i].target = chain[j].id => chain[j].action # "payload.retention_shred"

(* No batch of the exported range is still without its global root. *)
BatchesLinked ==
  \A i \in DOMAIN batches :
    /\ batches[i].to_position >= file.manifest[1].from_position
    /\ batches[i].from_position <= file.manifest[1].to_position
    => batches[i].global_root_id # Unlinked

(* No payload of the exported range went without a record. *)
NoSilentLoss ==
  silent \cap (file.manifest[1].from_position..file.manifest[1].to_position) = {}

(* An export the server finished, of a range that exists, during which     *)
(* nothing but new events and receipts happened, is called INVALID for one *)
(* of three reasons at most: a batch of the range is still without its     *)
(* global root, a retention run deleted a payload of it without a record,  *)
(* or the record of a loss is not to be read in it (past its end, or       *)
(* erased).  Nothing else fails: the widened range closes over whole       *)
(* batches, every stored path leads to its global root, and every other    *)
(* loss is accounted for, however records cover each other (events.ts      *)
(* exportLines, anchorLoop.ts applyRetention; verify/src/index.ts          *)
(* verifyExport).                                                          *)
HonestExportVerifies ==
  /\ stream.at = "done" /\ stream.quiet
  /\ file.manifest[1].requested_from <= file.manifest[1].requested_to
  /\ BatchesLinked /\ NoSilentLoss /\ RecordsExported
  => \A opts \in Auditors : VerifyExport(file, opts) # "INVALID"

(* Whatever ran between the lines, and wherever the file was cut off: if   *)
(* it is called VALID, each event in it was put under a global root that a *)
(* public log has confirmed, not merely promised, to hold (verifyExport,   *)
(* its checks of roots, anchors and coverage).                             *)
ValidMeansPublished ==
  \A opts \in Auditors :
    VerifyExport(file, opts) = "VALID" =>
      \A i \in DOMAIN file.events : \E g \in DOMAIN globals :
        /\ file.events[i].event_hash \in globals[g].covers
        /\ \E r \in receipts : r.root = g /\ r.status = "final"

(* A file that lost its tail with the connection, or a reset in its middle *)
(* cost its rows, is not mistaken for the range its manifest announces     *)
(* (checkChain compares both ends of the chain with it).                   *)
ShortFileRejected ==
  \A opts \in Auditors :
    VerifyExport(file, opts) # "INVALID" =>
      {file.events[i].position : i \in DOMAIN file.events}
        = file.manifest[1].from_position..file.manifest[1].to_position

(* The server's own answers hold at any moment, for every range of the     *)
(* chain and every event under a linked root, whatever was erased, reset   *)
(* or cut off before, and however odd the trees (events.ts verifyRange,    *)
(* anchorLoop.ts verifyRoots and proofForEvent).                           *)
ServerAnswersHold ==
  /\ \A from, to \in 0..HeadPosition : from <= to => VerifyRange(from, to)
  /\ \A p \in 0..RootedThrough :
       BatchOf(p).global_root_id # Unlinked => EventProofHolds(p)

(* What the offline verifier calls VALID the server calls anchored: its    *)
(* anchored_through is at least the end of the file's range (events.ts     *)
(* lastAnchoredPosition).  This bounds anchored_through from below only:   *)
(* it also counts batches the verifier would not (a pending receipt, an    *)
(* earlier batch without one), and no line of the code says otherwise.     *)
VerdictsAgree ==
  \A opts \in Auditors :
    /\ stream.at = "done" /\ stream.tenant = era
    /\ VerifyExport(file, opts) = "VALID"
    => LastAnchoredPosition >= file.manifest[1].to_position

(* What the comment on the widening says: "Widen to whole root batches so  *)
(* the verifier can rebuild every root it is handed."                      *)
EveryRootRebuilds ==
  stream.at = "done" /\ file.manifest[1].requested_from <= file.manifest[1].requested_to =>
    \A i \in DOMAIN file.roots : RootOk(file.manifest[1], file.events, file.roots[i])
=================================================================================
