-------------------------- MODULE ExportStreamProofs --------------------------
(***************************************************************************)
(* Theorems about ExportStream, for any bounds, requests and logs.  First  *)
(* what the verdict on a file rests on besides the trees, which stay       *)
(* opaque; then what the server answers about its own chain, where the     *)
(* trees matter (MerkleProofs); last, that the file of an export nothing   *)
(* disturbed verifies.                                                     *)
(***************************************************************************)
EXTENDS ExportStream, MerkleProofs

(***************************************************************************)
(* The inductive invariant.  A file is put together over many steps, from  *)
(* rows read at three different moments, and what it is called VALID for   *)
(* may all be gone from the database by the time anybody asks.  So the     *)
(* invariant carries what was true of the rows when they were read to the  *)
(* registry, which forgets nothing.                                        *)
(***************************************************************************)

HasColumns(b) ==
  b = [from_position |-> b.from_position, to_position |-> b.to_position,
       tenant_root |-> b.tenant_root, path_to_project |-> b.path_to_project,
       project_root |-> b.project_root, global_root_id |-> b.global_root_id,
       path_to_global |-> b.path_to_global, global_root |-> b.global_root]
HasRange(b) == b.from_position \in Nat /\ b.to_position \in Nat
IsBatch(b) == HasColumns(b) /\ HasRange(b) /\ b.global_root_id \in 0..Len(globals)

StreamIsRecord ==
  stream = [at |-> stream.at, tenant |-> stream.tenant, from |-> stream.from,
            to |-> stream.to, rows |-> stream.rows, roots |-> stream.roots,
            quiet |-> stream.quiet]
FileIsRecord ==
  file = [manifest |-> file.manifest, events |-> file.events, roots |-> file.roots,
          torn |-> file.torn]

BatchesShape ==
  \A i \in DOMAIN batches : IsBatch(batches[i]) /\ batches[i].to_position <= HeadPosition
RootsShape == \A i \in DOMAIN stream.roots : IsBatch(stream.roots[i])

(* The rows and lines are there in sequence, and have their fields.        *)
Shapes ==
  /\ IsSeq(chain) /\ IsSeq(batches) /\ IsSeq(globals)
  /\ StreamIsRecord /\ IsSeq(stream.rows) /\ IsSeq(stream.roots)
  /\ FileIsRecord /\ IsSeq(file.events) /\ IsSeq(file.roots)
  /\ BatchesShape /\ RootsShape
  /\ \A i \in DOMAIN file.roots : HasRange(file.roots[i])

(* The events of a linked batch are under the root it is linked to. *)
LinkedCover ==
  \A i \in DOMAIN batches : batches[i].global_root_id # Unlinked =>
    \A p \in batches[i].from_position..batches[i].to_position :
      chain[p + 1].event_hash \in globals[batches[i].global_root_id].covers

(* While the tenant of the export lives, what was read of its chain is     *)
(* still what the chain says.                                              *)
OfChain(e) ==
  /\ e.position \in 0..HeadPosition
  /\ e.event_hash = chain[e.position + 1].event_hash
RowsOfChain ==
  stream.tenant = era => /\ \A i \in DOMAIN stream.rows : OfChain(stream.rows[i])
                         /\ \A i \in DOMAIN file.events : OfChain(file.events[i])

(* All events are out before the batches are read. *)
EventsFirst ==
  /\ stream.at \in {"roots", "done", "lost"} => stream.rows = <<>>
  /\ stream.at # "roots" => stream.roots = <<>>
  /\ stream.at \in {"none", "manifest"} => stream.rows = <<>> /\ file.events = <<>>
  /\ stream.at \in {"none", "manifest", "events"} => file.roots = <<>>

Under(e, b) == e.position \in b.from_position..b.to_position

(* The batches the response holds are about the events it has sent, even   *)
(* after a reset.                                                          *)
RootsCoverFile ==
  \A i \in DOMAIN stream.roots, j \in DOMAIN file.events :
    LET b == stream.roots[i]
        e == file.events[j]
    IN Under(e, b) /\ b.global_root_id # Unlinked
         => e.event_hash \in globals[b.global_root_id].covers

(* A root line that shows receipts is about the events of the file, and    *)
(* the registry holds what it shows, or better.                            *)
Backs(g, line) ==
  \A a \in line.anchors : \E r \in receipts : /\ r.root = g
                                              /\ a.status = "final" => r.status = "final"
LinesBacked ==
  \A i \in DOMAIN file.roots, j \in DOMAIN file.events :
    LET line == file.roots[i]
        e == file.events[j]
    IN Under(e, line) /\ line.anchors # {} =>
         \E g \in DOMAIN globals : e.event_hash \in globals[g].covers /\ Backs(g, line)

(* Only a timestamp can be a promise. *)
RekorFinal ==
  /\ \A r \in receipts : r.kind = "rekor" => r.status = "final"
  /\ \A i \in DOMAIN file.roots : \A a \in file.roots[i].anchors :
       a.kind = "rekor" => a.status = "final"

(* While the tenant lives its batches stay, and their links. *)
BatchesStay ==
  stream.tenant = era =>
    /\ \A i \in DOMAIN stream.roots : \E j \in DOMAIN batches :
         /\ batches[j].to_position = stream.roots[i].to_position
         /\ stream.roots[i].global_root_id # Unlinked
              => batches[j].global_root_id = stream.roots[i].global_root_id
    /\ \A i \in DOMAIN file.roots : file.roots[i].anchors # {} =>
         file.roots[i].to_position \in AnchoredEnds

ExportInv ==
  /\ TypeOK /\ Shapes /\ EventsFirst
  /\ LinkedCover /\ RowsOfChain /\ RootsCoverFile
  /\ LinesBacked /\ RekorFinal /\ BatchesStay

-------------------------------------------------------------------------------
(* Sequences, and the least and greatest of a set of numbers.              *)

LEMMA TailSeq ==
  ASSUME NEW s, IsSeq(s), s # <<>>
  PROVE  /\ IsSeq(Tail(s))
         /\ 1 \in DOMAIN s /\ Head(s) = s[1]
         /\ \A i \in DOMAIN Tail(s) : i + 1 \in DOMAIN s /\ Tail(s)[i] = s[i + 1]
<1>1. s \in Seq(Range(s))
  BY DEF IsSeq
<1>2. /\ Tail(s) \in Seq(Range(s)) /\ Len(Tail(s)) = Len(s) - 1
      /\ \A i \in 1..Len(Tail(s)) : Tail(s)[i] = s[i + 1]
  BY <1>1, HeadTailProperties
<1>3. IsSeq(Tail(s))
  BY <1>2, SeqIntro
<1>4. Len(s) \in Nat /\ DOMAIN s = 1..Len(s) /\ DOMAIN Tail(s) = 1..Len(Tail(s)) /\ Len(s) > 0
  BY <1>1, <1>3, SeqFacts
<1>5. 1 \in DOMAIN s /\ Head(s) = s[1]
  BY <1>1, <1>4
<1>6. \A i \in DOMAIN Tail(s) : i + 1 \in DOMAIN s
  BY <1>2, <1>4
<1> QED
  BY <1>2, <1>3, <1>4, <1>5, <1>6

LEMMA MinOfSome ==
  ASSUME NEW S \in SUBSET Nat, S # {}
  PROVE  Min(S) \in S /\ \A m \in S : Min(S) <= m
BY LeastNumber DEF Min

LEMMA MaxOfSome ==
  ASSUME NEW n \in Nat, NEW S \in SUBSET (0..n), S # {}
  PROVE  Max(S) \in S /\ \A m \in S : m <= Max(S)
<1> DEFINE T == {n - m : m \in S}
<1>1. T \in SUBSET Nat /\ T # {}
  <2>1. \A m \in S : n - m \in Nat
    OBVIOUS
  <2> QED
    BY <2>1
<1>2. PICK d \in T : \A e \in T : d <= e
  BY <1>1, LeastNumber
<1>3. PICK k \in S : d = n - k
  OBVIOUS
<1>4. \A m \in S : k >= m
  <2> SUFFICES ASSUME NEW m \in S
               PROVE  k >= m
    OBVIOUS
  <2>1. n - k <= n - m
    BY <1>2, <1>3
  <2>2. k \in Nat /\ m \in Nat
    OBVIOUS
  <2> HIDE DEF T
  <2> QED
    BY ONLY <2>1, <2>2, n \in Nat
<1>5. Max(S) \in S /\ \A m \in S : Max(S) >= m
  BY <1>4 DEF Max
<1> QED
  BY <1>5

-------------------------------------------------------------------------------
(* What a verdict says of the file.                                        *)

manifest == file.manifest[1]
rebuilt == Rebuilt(manifest, file.events, file.roots)

LEMMA NotInvalid ==
  ASSUME NEW opts, VerifyExport(file, opts) # "INVALID"
  PROVE  ManifestOk(file) /\ CheckChain(manifest, file.events)
<1>1. ManifestOk(file)
  BY DEF VerifyExport
<1>2. CheckChain(file.manifest[1], file.events)
  BY <1>1 DEF VerifyExport, HardChecks
<1> QED
  BY <1>1, <1>2 DEF manifest

LEMMA Valid ==
  ASSUME NEW opts, VerifyExport(file, opts) = "VALID"
  PROVE  /\ ManifestOk(file) /\ CheckChain(manifest, file.events)
         /\ FullyAnchored(manifest, file.roots, rebuilt,
                          AnchoredRoots(manifest, file.roots, rebuilt, opts))
<1> DEFINE anchored == AnchoredRoots(manifest, file.roots, rebuilt, opts)
<1>1. ManifestOk(file) /\ CheckChain(manifest, file.events)
  BY NotInvalid
<1>2. FullyAnchored(manifest, file.roots, rebuilt, anchored)
  BY <1>1 DEF VerifyExport, Anchored, manifest, rebuilt
<1> QED
  BY <1>1, <1>2

(* The events of a file that is not INVALID are the range its manifest     *)
(* announces, in order.                                                    *)
LEMMA WholeRange ==
  ASSUME IsSeq(file.events), ManifestOk(file), CheckChain(manifest, file.events)
  PROVE  /\ manifest.from_position \in Nat /\ manifest.to_position \in Nat
         /\ manifest.from_position <= manifest.to_position
         /\ Len(file.events) = manifest.to_position - manifest.from_position + 1
         /\ \A i \in DOMAIN file.events :
              file.events[i].position = manifest.from_position + i - 1
<1> DEFINE events == file.events
           from == manifest.from_position
           to == manifest.to_position
<1>1. from \in Nat /\ to \in Nat /\ from <= to
  BY DEF ManifestOk, ShapeOk, manifest
<1>2. Len(events) \in Nat /\ DOMAIN events = 1..Len(events)
  BY SeqFacts
<1>3. /\ events # <<>> /\ events[1].position = from
      /\ events[Len(events)].position = to
      /\ \A i \in DOMAIN events : events[i].position = events[1].position + i - 1
  BY Zenon DEF CheckChain, VerifyChain
<1>4. Len(events) # 0
  BY <1>3 DEF IsSeq
<1>5. \A i \in DOMAIN events : events[i].position = from + i - 1
  BY <1>3
<1>6. to = from + Len(events) - 1
  BY <1>2, <1>3, <1>4, <1>5
<1> HIDE DEF events, from, to
<1>7. Len(events) = to - from + 1
  BY <1>1, <1>2, <1>6
<1> QED
  BY <1>1, <1>5, <1>7 DEF events, from, to

LEMMA ShortIsRejected == ExportInv => ShortFileRejected
<1> SUFFICES ASSUME ExportInv, NEW opts \in Auditors, VerifyExport(file, opts) # "INVALID"
             PROVE  {file.events[i].position : i \in DOMAIN file.events}
                      = manifest.from_position..manifest.to_position
  BY DEF ShortFileRejected, manifest
<1> DEFINE events == file.events
           from == manifest.from_position
           to == manifest.to_position
<1>1. IsSeq(events)
  BY DEF ExportInv, Shapes
<1>2. /\ from \in Nat /\ to \in Nat /\ Len(events) = to - from + 1
      /\ \A i \in DOMAIN events : events[i].position = from + i - 1
  BY <1>1, NotInvalid, WholeRange
<1>3. DOMAIN events = 1..Len(events)
  BY <1>1, SeqFacts
<1> HIDE DEF events, from, to
<1>4. \A i \in DOMAIN events : events[i].position \in from..to
  BY <1>2, <1>3
<1>5. \A p \in from..to : p - from + 1 \in DOMAIN events /\ events[p - from + 1].position = p
  BY <1>2, <1>3
<1>6. {events[i].position : i \in DOMAIN events} = from..to
  BY <1>4, <1>5
<1> QED
  BY <1>6 DEF events, from, to

(* Each position of a VALID file lies in a line whose receipts count.      *)
LEMMA AnchoredLine ==
  ASSUME NEW opts, VerifyExport(file, opts) = "VALID",
         NEW p \in manifest.from_position..manifest.to_position
  PROVE  \E i \in DOMAIN file.roots :
           /\ p \in file.roots[i].from_position..file.roots[i].to_position
           /\ \E a \in file.roots[i].anchors : a.kind = "rekor" \/ a.status = "final"
<1> DEFINE anchored == AnchoredRoots(manifest, file.roots, rebuilt, opts)
<1>1. FullyAnchored(manifest, file.roots, rebuilt, anchored)
  BY Valid
<1>2. p \in Positions(file.roots, rebuilt) /\ anchored = rebuilt
  BY <1>1 DEF FullyAnchored
<1>3. PICK i \in rebuilt : p \in file.roots[i].from_position..file.roots[i].to_position
  BY <1>2 DEF Positions
<1>4. i \in DOMAIN file.roots
  BY <1>3 DEF rebuilt, Rebuilt
<1>5. i \in anchored
  BY <1>2, <1>3
<1>6. PICK a \in file.roots[i].anchors :
        AnchorStatus(a, opts, opts.pinnedAnchorKey \/ manifest.anchor_public_key) = "verified"
  BY <1>5 DEF AnchoredRoots
<1>7. a.kind = "rekor" \/ a.status = "final"
  BY <1>6 DEF AnchorStatus
<1> QED
  BY <1>3, <1>4, <1>7

LEMMA ValidIsPublished == ExportInv => ValidMeansPublished
<1> SUFFICES ASSUME ExportInv, NEW opts \in Auditors, VerifyExport(file, opts) = "VALID",
                    NEW j \in DOMAIN file.events
             PROVE  \E g \in DOMAIN globals :
                      /\ file.events[j].event_hash \in globals[g].covers
                      /\ \E r \in receipts : r.root = g /\ r.status = "final"
  BY DEF ValidMeansPublished
<1> DEFINE e == file.events[j]
<1>1. IsSeq(file.events) /\ LinesBacked /\ RekorFinal
  BY DEF ExportInv, Shapes
<1>2. e.position \in manifest.from_position..manifest.to_position
  <2>1. /\ manifest.from_position \in Nat /\ manifest.to_position \in Nat
        /\ Len(file.events) = manifest.to_position - manifest.from_position + 1
        /\ e.position = manifest.from_position + j - 1
    BY <1>1, Valid, WholeRange
  <2>2. j \in 1..Len(file.events)
    BY <1>1, SeqFacts
  <2> HIDE DEF e
  <2> QED
    BY <2>1, <2>2
<1>3. PICK i \in DOMAIN file.roots :
        /\ e.position \in file.roots[i].from_position..file.roots[i].to_position
        /\ \E a \in file.roots[i].anchors : a.kind = "rekor" \/ a.status = "final"
  BY <1>2, AnchoredLine
<1>4. PICK a \in file.roots[i].anchors : a.status = "final"
  BY <1>1, <1>3 DEF RekorFinal
<1>5. PICK g \in DOMAIN globals : e.event_hash \in globals[g].covers /\ Backs(g, file.roots[i])
  BY <1>1, <1>3, <1>4 DEF LinesBacked, Under
<1>6. \E r \in receipts : r.root = g /\ r.status = "final"
  BY <1>4, <1>5 DEF Backs
<1> QED
  BY <1>5, <1>6

LEMMA EndsAreBelow ==
  ASSUME TypeOK, Shapes
  PROVE  HeadPosition \in Int /\ AnchoredEnds \in SUBSET (0..HeadPosition)
<1>1. HeadPosition \in Int
  BY SeqFacts DEF Shapes, HeadPosition
<1>2. \A i \in DOMAIN batches : /\ batches[i].to_position \in Nat
                                /\ batches[i].to_position <= HeadPosition
  BY DEF Shapes, BatchesShape, IsBatch, HasRange
<1> QED
  BY <1>1, <1>2 DEF AnchoredEnds

LEMMA ValidIsAnchored == ExportInv => VerdictsAgree
<1> SUFFICES ASSUME ExportInv, NEW opts \in Auditors, stream.tenant = era,
                    VerifyExport(file, opts) = "VALID"
             PROVE  LastAnchoredPosition >= manifest.to_position
  BY DEF VerdictsAgree, manifest
<1>1. TypeOK /\ Shapes /\ BatchesStay /\ IsSeq(file.events)
  BY DEF ExportInv, Shapes
<1>2. /\ manifest.from_position \in Nat /\ manifest.to_position \in Nat
      /\ manifest.from_position <= manifest.to_position
  BY <1>1, Valid, WholeRange
<1>3. manifest.to_position \in manifest.from_position..manifest.to_position
  BY <1>2
<1>4. PICK i \in DOMAIN file.roots :
        /\ manifest.to_position \in file.roots[i].from_position..file.roots[i].to_position
        /\ file.roots[i].anchors # {}
  BY <1>3, AnchoredLine
<1>5. file.roots[i].to_position \in AnchoredEnds
  BY <1>1, <1>4 DEF BatchesStay
<1>6. /\ AnchoredEnds \in SUBSET (0..HeadPosition) /\ HeadPosition \in Nat
      /\ AnchoredEnds # {}
  <2>1. HeadPosition \in Int /\ AnchoredEnds \in SUBSET (0..HeadPosition)
    BY <1>1, EndsAreBelow
  <2>2. HeadPosition \in Nat
    <3>1. PICK p : p \in 0..HeadPosition
      BY <1>5, <2>1
    <3> QED
      BY <2>1, <3>1
  <2> QED
    BY <1>5, <2>1, <2>2
<1>7. LastAnchoredPosition = Max(AnchoredEnds)
  BY <1>6 DEF LastAnchoredPosition
<1>8. file.roots[i].to_position <= Max(AnchoredEnds) /\ Max(AnchoredEnds) \in AnchoredEnds
  BY <1>5, <1>6, MaxOfSome
<1>9. file.roots[i].to_position \in Nat /\ manifest.to_position <= file.roots[i].to_position
  BY <1>1, <1>2, <1>4 DEF Shapes, HasRange
<1>10. Max(AnchoredEnds) \in Nat
  <2>1. Max(AnchoredEnds) \in 0..HeadPosition
    BY <1>6, <1>8
  <2> QED
    BY <1>6, <2>1
<1> QED
  BY <1>2, <1>7, <1>8, <1>9, <1>10

-------------------------------------------------------------------------------
(* What the server does keeps what an export rests on: it appends to the   *)
(* chain and to the global roots, links a batch once, never takes a        *)
(* receipt back, and a reset leaves the export a tenant that is gone.      *)

ChainKept == \A i \in DOMAIN chain : i \in DOMAIN chain' /\ chain'[i] = chain[i]
GlobalsKept == \A g \in DOMAIN globals : g \in DOMAIN globals' /\ globals'[g] = globals[g]
ReceiptsKept ==
  /\ \A r \in receipts : \E s \in receipts' : /\ s.root = r.root
                                              /\ r.status = "final" => s.status = "final"
  /\ \A r \in receipts' : r.kind = "rekor" => r.status = "final"
BatchesKept ==
  \A i \in DOMAIN batches :
    /\ i \in DOMAIN batches' /\ batches'[i].to_position = batches[i].to_position
    /\ batches[i].global_root_id # Unlinked
         => batches'[i].global_root_id = batches[i].global_root_id
StreamKept ==
  /\ stream'.at = stream.at /\ stream'.tenant = stream.tenant
  /\ stream'.from = stream.from /\ stream'.to = stream.to
  /\ stream'.rows = stream.rows /\ stream'.roots = stream.roots
  /\ file' = file

LEMMA DisturbKeeps ==
  ASSUME Shapes, TypeOK, Disturb \/ stream' = stream, file' = file
  PROVE  /\ StreamKept /\ stream'.quiet \in BOOLEAN
         /\ StreamIsRecord'
<1> DEFINE S == [at |-> stream.at, tenant |-> stream.tenant, from |-> stream.from,
                 to |-> stream.to, rows |-> stream.rows, roots |-> stream.roots,
                 quiet |-> stream.quiet]
<1>1. stream = S /\ stream.quiet \in BOOLEAN
  BY DEF Shapes, StreamIsRecord, TypeOK
<1>2. CASE stream' = stream
  BY <1>1, <1>2 DEF StreamKept, StreamIsRecord
<1>3. CASE Disturb
  <2>1. stream' = [S EXCEPT !.quiet = FALSE]
    BY <1>1, <1>3 DEF Disturb
  <2>2. stream' = [at |-> stream.at, tenant |-> stream.tenant, from |-> stream.from,
                   to |-> stream.to, rows |-> stream.rows, roots |-> stream.roots,
                   quiet |-> FALSE]
    BY <2>1
  <2> QED
    BY <2>2 DEF StreamKept, StreamIsRecord
<1> QED
  BY <1>2, <1>3

(* A row stays what it is while the registry grows. *)
LEMMA BatchCarries ==
  ASSUME NEW b, IsBatch(b), IsSeq(globals), Len(globals') \in Nat, Len(globals) <= Len(globals')
  PROVE  IsBatch(b)'
<1>1. Len(globals) \in Nat
  BY SeqFacts
<1>2. b.global_root_id \in 0..Len(globals')
  BY <1>1 DEF IsBatch
<1> QED
  BY <1>2 DEF IsBatch, HasColumns, HasRange

LEMMA RootsCarry ==
  ASSUME Shapes, stream'.roots = stream.roots, Len(globals') \in Nat,
         Len(globals) <= Len(globals')
  PROVE  RootsShape'
<1>1. ASSUME NEW i \in DOMAIN stream.roots
      PROVE  IsBatch(stream.roots[i])'
  <2>1. PICK b : b = stream.roots[i]
    OBVIOUS
  <2>2. IsBatch(b)'
    BY <2>1, BatchCarries DEF Shapes, RootsShape
  <2>3. b = (stream.roots[i])'
    BY <2>1
  <2> QED
    BY <2>2, <2>3 DEF IsBatch, HasColumns, HasRange
<1> QED
  BY <1>1 DEF RootsShape

LEMMA AnchoredEndsKept ==
  ASSUME BatchesKept, ReceiptsKept, Shapes, TypeOK
  PROVE  AnchoredEnds \subseteq AnchoredEnds'
<1> SUFFICES ASSUME NEW i \in DOMAIN batches, batches[i].global_root_id # Unlinked,
                    Receipts(batches[i].global_root_id) # {}
             PROVE  batches[i].to_position \in AnchoredEnds'
  BY DEF AnchoredEnds
<1>0. PICK g : g = batches[i].global_root_id
  OBVIOUS
<1>1. PICK r \in receipts : r.root = g
  BY <1>0 DEF Receipts
<1>2. PICK s \in receipts' : s.root = g
  BY <1>1 DEF ReceiptsKept
<1>3. Receipts(g)' # {}
  <2>1. s \in {q \in receipts' : q.root = g}
    BY <1>2
  <2> QED
    BY <2>1 DEF Receipts
<1>4. /\ i \in DOMAIN batches' /\ batches'[i].to_position = batches[i].to_position
      /\ batches'[i].global_root_id = g
  BY <1>0 DEF BatchesKept
<1>5. /\ batches'[i].global_root_id # Unlinked
      /\ Receipts(batches[i].global_root_id)' # {}
  BY <1>0, <1>3, <1>4
<1> QED
  BY <1>4, <1>5 DEF AnchoredEnds

LEMMA ServerStep ==
  ASSUME ExportInv, TypeOK', Shapes', LinkedCover', StreamKept, GlobalsKept, ReceiptsKept,
         \/ era' = era /\ ChainKept /\ BatchesKept
         \/ era' = era + 1
  PROVE  ExportInv'
<1>1. /\ TypeOK /\ Shapes /\ EventsFirst /\ RowsOfChain /\ RootsCoverFile
      /\ LinesBacked /\ RekorFinal /\ BatchesStay
  BY DEF ExportInv
<1>2. EventsFirst'
  BY <1>1 DEF EventsFirst, StreamKept
<1>3. RowsOfChain'
  <2>1. CASE stream'.tenant = era' /\ era' = era /\ ChainKept
    <3>1. stream.tenant = era /\ stream'.rows = stream.rows /\ file'.events = file.events
      BY <2>1 DEF StreamKept
    <3>2. ASSUME NEW e, OfChain(e)
          PROVE  OfChain(e)'
      <4>1. /\ Len(chain) \in Nat /\ DOMAIN chain = 1..Len(chain)
            /\ Len(chain') \in Nat /\ DOMAIN chain' = 1..Len(chain')
        BY <1>1, SeqFacts DEF Shapes
      <4>2. e.position + 1 \in DOMAIN chain
        BY <3>2, <4>1 DEF OfChain, HeadPosition
      <4>3. e.position + 1 \in DOMAIN chain' /\ chain'[e.position + 1] = chain[e.position + 1]
        BY <2>1, <4>2 DEF ChainKept
      <4>4. e.position \in 0..HeadPosition'
        BY <3>2, <4>1, <4>3 DEF OfChain, HeadPosition
      <4> QED
        BY <3>2, <4>3, <4>4 DEF OfChain
    <3> QED
      BY <1>1, <3>1, <3>2 DEF RowsOfChain
  <2>2. CASE stream'.tenant # era'
    BY <2>2 DEF RowsOfChain
  <2>3. stream.tenant \in 0..era /\ era \in Nat
    BY <1>1 DEF TypeOK
  <2> QED
    BY <2>1, <2>2, <2>3 DEF StreamKept
<1>4. RootsCoverFile'
  <2> SUFFICES ASSUME NEW i \in DOMAIN stream.roots, NEW j \in DOMAIN file.events,
                      Under(file.events[j], stream.roots[i]),
                      stream.roots[i].global_root_id # Unlinked
               PROVE  file.events[j].event_hash
                        \in globals'[stream.roots[i].global_root_id].covers
    BY DEF RootsCoverFile, StreamKept, Under
  <2>1. stream.roots[i].global_root_id \in DOMAIN globals
    <3>1. Len(globals) \in Nat /\ DOMAIN globals = 1..Len(globals)
      BY <1>1, SeqFacts DEF Shapes
    <3>2. stream.roots[i].global_root_id \in 0..Len(globals)
      BY <1>1 DEF Shapes, BatchesShape, RootsShape, IsBatch, HasRange
    <3> QED
      BY <3>1, <3>2 DEF Unlinked
  <2> QED
    BY <1>1, <2>1 DEF RootsCoverFile, GlobalsKept
<1>5. LinesBacked'
  <2> SUFFICES ASSUME NEW i \in DOMAIN file.roots, NEW j \in DOMAIN file.events,
                      Under(file.events[j], file.roots[i]), file.roots[i].anchors # {}
               PROVE  \E g \in DOMAIN globals' :
                        /\ file.events[j].event_hash \in globals'[g].covers
                        /\ Backs(g, file.roots[i])'
    BY DEF LinesBacked, StreamKept, Under, Backs
  <2>1. PICK g \in DOMAIN globals : /\ file.events[j].event_hash \in globals[g].covers
                                    /\ Backs(g, file.roots[i])
    BY <1>1 DEF LinesBacked
  <2>2. Backs(g, file.roots[i])'
    BY <2>1 DEF Backs, ReceiptsKept, StreamKept
  <2> QED
    BY <2>1, <2>2 DEF GlobalsKept
<1>6. RekorFinal'
  BY <1>1 DEF RekorFinal, ReceiptsKept, StreamKept
<1>7. BatchesStay'
  <2>1. CASE era' = era /\ stream.tenant = era /\ BatchesKept
    <3>1. AnchoredEnds \subseteq AnchoredEnds'
      BY <1>1, <2>1, AnchoredEndsKept
    <3>2. ASSUME NEW i \in DOMAIN stream.roots
          PROVE  \E j \in DOMAIN batches' :
                   /\ batches'[j].to_position = stream.roots[i].to_position
                   /\ stream.roots[i].global_root_id # Unlinked
                        => batches'[j].global_root_id = stream.roots[i].global_root_id
      <4>1. PICK j \in DOMAIN batches :
              /\ batches[j].to_position = stream.roots[i].to_position
              /\ stream.roots[i].global_root_id # Unlinked
                   => batches[j].global_root_id = stream.roots[i].global_root_id
        BY <1>1, <2>1, <3>2 DEF BatchesStay
      <4> QED
        BY <2>1, <4>1 DEF BatchesKept
    <3> QED
      BY <1>1, <2>1, <3>1, <3>2 DEF BatchesStay, StreamKept
  <2>2. CASE stream.tenant # era'
    BY <2>2 DEF BatchesStay, StreamKept
  <2>3. stream.tenant \in 0..era /\ era \in Nat
    BY <1>1 DEF TypeOK
  <2> QED
    BY <2>1, <2>2, <2>3
<1> QED
  BY <1>2, <1>3, <1>4, <1>5, <1>6, <1>7 DEF ExportInv

LEMMA AppendKeeps ==
  ASSUME TypeOK, Shapes, NEW action, NEW target, NEW data,
         AppendEvent(action, target, data), era' = era
  PROVE  /\ IsSeq(chain') /\ ChainKept
         /\ HeadPosition \in Int /\ HeadPosition' = HeadPosition + 1 /\ Len(chain) = HeadPosition'
         /\ \A i \in DOMAIN chain' : chain'[i].position = i - 1 /\ chain'[i].id = <<era', i - 1>>
         /\ appended' \in 0..MaxEvents
<1> DEFINE row == NewRow(action, target, data)
<1>1. /\ IsSeq(chain) /\ Len(chain) \in Nat /\ DOMAIN chain = 1..Len(chain)
      /\ \A i \in DOMAIN chain : chain[i].position = i - 1 /\ chain[i].id = <<era, i - 1>>
  BY SeqFacts DEF Shapes, TypeOK
<1>2. row.position = Len(chain) /\ row.id = <<era, Len(chain)>>
  BY DEF NewRow
<1>3. chain' = Append(chain, row) /\ appended < MaxEvents /\ appended' = appended + 1
  BY DEF AppendEvent
<1> HIDE DEF row
<1>4. /\ IsSeq(chain') /\ Len(chain') = Len(chain) + 1 /\ DOMAIN chain' = 1..(Len(chain) + 1)
      /\ \A i \in DOMAIN chain : chain'[i] = chain[i]
      /\ chain'[Len(chain) + 1] = row
  BY <1>1, <1>3, AppendSeq
<1>5. ChainKept
  BY <1>1, <1>4 DEF ChainKept
<1>6. ASSUME NEW i \in DOMAIN chain'
      PROVE  chain'[i].position = i - 1 /\ chain'[i].id = <<era', i - 1>>
  <2>1. CASE i \in DOMAIN chain
    BY <1>1, <1>4, <2>1
  <2>2. CASE i \notin DOMAIN chain
    <3>1. i = Len(chain) + 1
      BY <1>1, <1>4, <2>2
    <3>2. chain'[i] = row /\ i - 1 = Len(chain)
      BY <1>1, <1>4, <3>1
    <3> QED
      BY <1>2, <3>2
  <2> QED
    BY <2>1, <2>2
<1>7. appended' \in 0..MaxEvents
  BY <1>3, ConstantsAssumption DEF TypeOK
<1>8. HeadPosition \in Int /\ HeadPosition' = HeadPosition + 1 /\ Len(chain) = HeadPosition'
  BY <1>1, <1>4 DEF HeadPosition
<1> QED
  BY <1>4, <1>5, <1>6, <1>7, <1>8

(* Any step that appends an event. *)
LEMMA EventStep ==
  ASSUME ExportInv, NEW action, NEW target, NEW data, AppendEvent(action, target, data),
         payload' \subseteq payload \cup {Len(chain)}, silent' \subseteq silent,
         UNCHANGED <<era, batches, registry, faults, file>>, Disturb \/ stream' = stream
  PROVE  ExportInv'
<1>1. TypeOK /\ Shapes /\ LinkedCover /\ RekorFinal
  BY DEF ExportInv
<1>2. /\ era' = era /\ batches' = batches /\ globals' = globals /\ receipts' = receipts
      /\ faults' = faults /\ file' = file
  BY DEF registry
<1>3. /\ IsSeq(chain') /\ ChainKept
      /\ HeadPosition \in Int /\ HeadPosition' = HeadPosition + 1 /\ Len(chain) = HeadPosition'
      /\ \A i \in DOMAIN chain' : chain'[i].position = i - 1 /\ chain'[i].id = <<era', i - 1>>
      /\ appended' \in 0..MaxEvents
  BY <1>1, <1>2, AppendKeeps
<1>4. /\ StreamKept /\ stream'.quiet \in BOOLEAN
      /\ StreamIsRecord'
  BY <1>1, <1>2, DisturbKeeps
<1>5. payload' \subseteq 0..HeadPosition' /\ silent' \subseteq 0..HeadPosition'
  <2>1. payload \subseteq 0..HeadPosition /\ silent \subseteq 0..HeadPosition /\ HeadPosition + 1 \in Nat
    BY <1>1, SeqFacts DEF TypeOK, Shapes, HeadPosition
  <2>2. \A q \in payload' : q \in 0..(HeadPosition + 1)
    BY <1>3, <2>1
  <2>3. \A q \in silent' : q \in 0..(HeadPosition + 1)
    BY <1>3, <2>1
  <2> QED
    BY <1>3, <2>2, <2>3
<1>6. TypeOK'
  BY <1>1, <1>2, <1>3, <1>4, <1>5 DEF TypeOK, StreamKept
<1>7. Shapes'
  <2>0. Len(globals) \in Nat
    BY <1>1, SeqFacts DEF Shapes
  <2>1. RootsShape'
    BY <1>1, <1>2, <1>4, <2>0, RootsCarry DEF StreamKept
  <2>2. BatchesShape'
    <3>1. \A i \in DOMAIN batches : /\ batches[i].to_position \in Nat
                                     /\ batches[i].to_position <= HeadPosition
      BY <1>1 DEF Shapes, BatchesShape, IsBatch, HasRange
    <3>2. \A i \in DOMAIN batches : batches[i].to_position <= HeadPosition'
      BY <1>3, <3>1
    <3>3. \A i \in DOMAIN batches : IsBatch(batches[i])
      BY <1>1 DEF Shapes, BatchesShape
    <3> QED
      BY <1>2, <3>2, <3>3 DEF BatchesShape, IsBatch
  <2> QED
    BY <1>1, <1>2, <1>3, <1>4, <2>1, <2>2 DEF Shapes, StreamKept, FileIsRecord
<1>8. LinkedCover'
  <2> SUFFICES ASSUME NEW i \in DOMAIN batches, batches[i].global_root_id # Unlinked,
                      NEW p \in batches[i].from_position..batches[i].to_position
               PROVE  chain'[p + 1].event_hash \in globals[batches[i].global_root_id].covers
    BY <1>2 DEF LinkedCover
  <2>1. /\ batches[i].from_position \in Nat /\ batches[i].to_position \in Nat
        /\ batches[i].to_position <= HeadPosition
    BY <1>1 DEF Shapes, BatchesShape, RootsShape, IsBatch, HasRange
  <2>2. p + 1 \in DOMAIN chain
    <3>1. Len(chain) \in Nat /\ DOMAIN chain = 1..Len(chain)
      BY <1>1, SeqFacts DEF Shapes
    <3> QED
      BY <2>1, <3>1 DEF HeadPosition
  <2>3. chain'[p + 1] = chain[p + 1]
    BY <1>3, <2>2 DEF ChainKept
  <2> QED
    BY <1>1, <2>3 DEF LinkedCover
<1>9. GlobalsKept /\ ReceiptsKept /\ BatchesKept
  BY <1>1, <1>2 DEF GlobalsKept, ReceiptsKept, BatchesKept, RekorFinal
<1> QED
  BY <1>2, <1>3, <1>4, <1>6, <1>7, <1>8, <1>9, ServerStep

(* Payloads that go without a record. *)
LEMMA ShredInv ==
  ASSUME ExportInv, NEW q, ShredUnrecorded(q)
  PROVE  ExportInv'
<1>1. TypeOK /\ Shapes /\ LinkedCover /\ RekorFinal
  BY DEF ExportInv
<1>2. /\ era' = era /\ chain' = chain /\ batches' = batches /\ globals' = globals
      /\ receipts' = receipts /\ appended' = appended /\ file' = file /\ Disturb
      /\ payload' \subseteq payload /\ silent' \subseteq silent \cup payload
      /\ faults < MaxFaults /\ faults' = faults + 1
  BY DEF ShredUnrecorded, Expired, registry
<1>3. /\ StreamKept /\ stream'.quiet \in BOOLEAN
      /\ StreamIsRecord'
  BY <1>1, <1>2, DisturbKeeps
<1>4. HeadPosition' = HeadPosition /\ Len(globals) \in Nat /\ Len(globals') = Len(globals)
  BY <1>1, <1>2, SeqFacts DEF HeadPosition, Shapes
<1>5. TypeOK'
  <2>1. faults' \in 0..MaxFaults
    BY <1>1, <1>2, ConstantsAssumption DEF TypeOK
  <2> QED
    BY <1>1, <1>2, <1>3, <1>4, <2>1 DEF TypeOK, StreamKept
<1>6. Shapes'
  <2>1. RootsShape'
    BY <1>1, <1>3, <1>4, RootsCarry DEF StreamKept
  <2>2. BatchesShape'
    BY <1>1, <1>2, <1>4 DEF Shapes, BatchesShape, IsBatch, HasColumns, HasRange
  <2> QED
    BY <1>1, <1>2, <1>3, <2>1, <2>2 DEF Shapes, StreamKept, FileIsRecord
<1>7. LinkedCover'
  BY <1>1, <1>2 DEF LinkedCover
<1>8. GlobalsKept /\ ReceiptsKept /\ BatchesKept /\ ChainKept
  BY <1>1, <1>2 DEF GlobalsKept, ReceiptsKept, BatchesKept, ChainKept, RekorFinal
<1> QED
  BY <1>2, <1>3, <1>5, <1>6, <1>7, <1>8, ServerStep

LEMMA DatabaseInv == ExportInv /\ Database => ExportInv'
<1> SUFFICES ASSUME ExportInv, Database
             PROVE  ExportInv'
  OBVIOUS
<1>1. CASE Ingest
  BY <1>1, EventStep DEF Ingest
<1>2. CASE \E p \in 0..HeadPosition : Erase(p) \/ ApplyRetention(p) \/ ShredUnrecorded(p)
  <2>1. ASSUME NEW p, Erase(p)
        PROVE  ExportInv'
    <3>1. payload' \subseteq payload \cup {Len(chain)} /\ silent' \subseteq silent
      BY <2>1 DEF Erase
    <3> QED
      BY <2>1, <3>1, EventStep DEF Erase
  <2>2. ASSUME NEW p, ApplyRetention(p)
        PROVE  ExportInv'
    <3>1. payload' \subseteq payload \cup {Len(chain)} /\ silent' \subseteq silent
      BY <2>2 DEF ApplyRetention
    <3> QED
      BY <2>2, <3>1, EventStep DEF ApplyRetention
  <2>3. ASSUME NEW p, ShredUnrecorded(p)
        PROVE  ExportInv'
    BY <2>3, ShredInv
  <2> QED
    BY <1>2, <2>1, <2>2, <2>3
<1>3. CASE ResetProject
  <2>1. TypeOK /\ Shapes /\ RekorFinal
    BY DEF ExportInv
  <2>2. /\ era' = era + 1 /\ era < MaxResets /\ chain' = <<>> /\ payload' = {} /\ silent' = {} /\ batches' = <<>>
        /\ globals' = globals /\ receipts' = receipts /\ appended' = appended
        /\ faults' = faults /\ file' = file /\ Disturb
    BY <1>3 DEF ResetProject, registry
  <2>3. /\ StreamKept /\ stream'.quiet \in BOOLEAN
        /\ StreamIsRecord'
    BY <2>1, <2>2, DisturbKeeps
  <2>4. /\ IsSeq(chain') /\ IsSeq(batches') /\ DOMAIN chain' = {} /\ DOMAIN batches' = {}
    BY <2>2, NothingIsSeq
  <2>5. era' \in 0..MaxResets /\ stream.tenant \in 0..era'
    BY <2>1, <2>2, ConstantsAssumption DEF TypeOK
  <2>6. TypeOK'
    BY <2>1, <2>2, <2>3, <2>4, <2>5 DEF TypeOK, StreamKept
  <2>7. Shapes'
    <3>0. Len(globals) \in Nat
      BY <2>1, SeqFacts DEF Shapes
    <3>1. RootsShape'
      BY <2>1, <2>2, <2>3, <3>0, RootsCarry DEF StreamKept
    <3>2. BatchesShape'
      BY <2>4 DEF BatchesShape
    <3> QED
      BY <2>1, <2>2, <2>3, <2>4, <3>1, <3>2 DEF Shapes, StreamKept, FileIsRecord
  <2>8. LinkedCover'
    BY <2>4 DEF LinkedCover
  <2>9. GlobalsKept /\ ReceiptsKept
    BY <2>1, <2>2 DEF GlobalsKept, ReceiptsKept, RekorFinal
  <2> QED
    BY <2>2, <2>3, <2>6, <2>7, <2>8, <2>9, ServerStep
<1> QED
  BY <1>1, <1>2, <1>3 DEF Database

(* The batch a tick makes takes the rows after the last batch. *)
LEMMA WithNewBatch ==
  ASSUME TypeOK, Shapes, RootedThrough < HeadPosition,
         NEW all, all = Append(batches, NewBatch)
  PROVE  /\ IsSeq(all)
         /\ \A i \in DOMAIN all : IsBatch(all[i]) /\ all[i].to_position <= HeadPosition
         /\ \A i \in DOMAIN batches : i \in DOMAIN all /\ all[i] = batches[i]
         /\ \A i \in DOMAIN all \ DOMAIN batches : all[i].global_root_id = Unlinked
<1>1. /\ IsSeq(batches) /\ Len(batches) \in Nat /\ DOMAIN batches = 1..Len(batches)
      /\ \A i \in DOMAIN batches : /\ IsBatch(batches[i]) /\ batches[i].to_position \in Nat
                                   /\ batches[i].to_position <= HeadPosition
  BY SeqFacts DEF Shapes, BatchesShape, IsBatch, HasRange
<1>2. HeadPosition \in Int /\ Len(globals) \in Nat
  BY SeqFacts DEF Shapes, HeadPosition
<1>3. RootedThrough \in Int /\ RootedThrough >= -1
  <2>1. CASE batches = <<>>
    BY <2>1 DEF RootedThrough
  <2>2. CASE batches # <<>>
    <3>1. Len(batches) # 0
      BY <1>1, <2>2 DEF IsSeq
    <3>2. Len(batches) \in DOMAIN batches
      BY <1>1, <3>1
    <3>3. batches[Len(batches)].to_position \in Nat
      BY <1>1, <3>2
    <3> QED
      BY <2>2, <3>3 DEF RootedThrough
  <2> QED
    BY <2>1, <2>2
<1> DEFINE new == NewBatch
<1>4. /\ HasColumns(new) /\ new.global_root_id = Unlinked
      /\ new.from_position = RootedThrough + 1 /\ new.to_position = HeadPosition
  BY DEF NewBatch, HasColumns
<1> HIDE DEF new
<1>5. HasRange(new)
  BY <1>2, <1>3, <1>4 DEF HasRange
<1>6. IsBatch(new) /\ new.to_position <= HeadPosition
  BY <1>2, <1>4, <1>5 DEF IsBatch, Unlinked
<1>7. all = Append(batches, new)
  BY DEF new
<1>8. /\ IsSeq(all) /\ DOMAIN all = 1..(Len(batches) + 1)
      /\ \A i \in DOMAIN batches : all[i] = batches[i]
      /\ all[Len(batches) + 1] = new
  BY <1>1, <1>7, AppendSeq
<1>9. \A i \in DOMAIN all : i \in DOMAIN batches \/ i = Len(batches) + 1
  BY <1>1, <1>8
<1>10. \A i \in DOMAIN batches : i \in DOMAIN all
  BY <1>1, <1>8
<1>11. Len(batches) + 1 \notin DOMAIN batches
  BY <1>1
<1> QED
  BY <1>1, <1>4, <1>6, <1>8, <1>9, <1>10, <1>11

LEMMA TickCutOffInv == ExportInv /\ TickCutOff => ExportInv'
<1> SUFFICES ASSUME ExportInv, TickCutOff
             PROVE  ExportInv'
  OBVIOUS
<1>1. TypeOK /\ Shapes /\ LinkedCover /\ RekorFinal
  BY DEF ExportInv
<1>2. /\ era' = era /\ chain' = chain /\ payload' = payload /\ silent' = silent /\ globals' = globals
      /\ receipts' = receipts /\ appended' = appended /\ file' = file /\ Disturb
      /\ RootedThrough < HeadPosition /\ faults < MaxFaults /\ faults' = faults + 1
  BY DEF TickCutOff, registry
<1>3. batches' = Append(batches, NewBatch)
  BY DEF TickCutOff
<1>4. /\ IsSeq(batches')
      /\ \A i \in DOMAIN batches' : /\ IsBatch(batches'[i])
                                    /\ batches'[i].to_position <= HeadPosition
      /\ \A i \in DOMAIN batches : i \in DOMAIN batches' /\ batches'[i] = batches[i]
      /\ \A i \in DOMAIN batches' \ DOMAIN batches : batches'[i].global_root_id = Unlinked
  BY <1>1, <1>2, <1>3, WithNewBatch
<1>5. /\ StreamKept /\ stream'.quiet \in BOOLEAN
      /\ StreamIsRecord'
  BY <1>1, <1>2, DisturbKeeps
<1>6. HeadPosition' = HeadPosition /\ Len(globals) \in Nat /\ Len(globals') = Len(globals)
  BY <1>1, <1>2, SeqFacts DEF HeadPosition, Shapes
<1>7. TypeOK'
  <2>1. \A i \in DOMAIN batches' : batches'[i].global_root_id \in 0..Len(globals')
    BY <1>4, <1>6 DEF IsBatch
  <2>2. faults' \in 0..MaxFaults
    BY <1>1, <1>2, ConstantsAssumption DEF TypeOK
  <2> QED
    BY <1>1, <1>2, <1>5, <1>6, <2>1, <2>2 DEF TypeOK, StreamKept
<1>8. Shapes'
  <2>1. RootsShape'
    BY <1>1, <1>5, <1>6, RootsCarry DEF StreamKept
  <2>2. BatchesShape'
    BY <1>4, <1>6 DEF BatchesShape, IsBatch, HasColumns, HasRange
  <2> QED
    BY <1>1, <1>2, <1>4, <1>5, <2>1, <2>2 DEF Shapes, StreamKept, FileIsRecord
<1>9. LinkedCover'
  BY <1>1, <1>2, <1>4 DEF LinkedCover
<1>10. GlobalsKept /\ ReceiptsKept /\ BatchesKept /\ ChainKept
  BY <1>1, <1>2, <1>4 DEF GlobalsKept, ReceiptsKept, BatchesKept, ChainKept, RekorFinal
<1> QED
  BY <1>2, <1>5, <1>7, <1>8, <1>9, <1>10, ServerStep

LEMMA TickInv == ExportInv /\ Tick => ExportInv'
<1> SUFFICES ASSUME ExportInv, Tick
             PROVE  ExportInv'
  OBVIOUS
<1>1. TypeOK /\ Shapes /\ LinkedCover /\ RekorFinal
  BY DEF ExportInv
<1> DEFINE all == Append(batches, NewBatch)
           hash == TreeRoot(GlobalLeaves(all))
           covers == {chain[p + 1].event_hash : p \in Covered(all)}
           root == [root |-> hash, covers |-> covers]
           Linked(b) == [all[b] EXCEPT !.global_root_id = Len(globals) + 1, !.global_root = hash,
                                       !.path_to_global = PathToGlobal(all, b)]
           next == [b \in DOMAIN all |-> IF b \notin ToLink(all) THEN all[b] ELSE Linked(b)]
<1>2. /\ era' = era /\ chain' = chain /\ payload' = payload /\ silent' = silent /\ receipts' = receipts
      /\ appended' = appended /\ faults' = faults /\ file' = file /\ Disturb
      /\ RootedThrough < HeadPosition
      /\ globals' = Append(globals, root) /\ batches' = next
  BY Zenon DEF Tick
<1>3. root.covers = covers
  OBVIOUS
<1>4. /\ IsSeq(all)
      /\ \A i \in DOMAIN all : IsBatch(all[i]) /\ all[i].to_position <= HeadPosition
      /\ \A i \in DOMAIN batches : i \in DOMAIN all /\ all[i] = batches[i]
      /\ \A i \in DOMAIN all \ DOMAIN batches : all[i].global_root_id = Unlinked
  BY <1>1, <1>2, WithNewBatch
<1>5. \A i \in DOMAIN all : /\ HasColumns(Linked(i)) /\ Linked(i).global_root_id = Len(globals) + 1
                            /\ Linked(i).from_position = all[i].from_position
                            /\ Linked(i).to_position = all[i].to_position
  <2> TAKE i \in DOMAIN all
  <2>1. HasColumns(all[i])
    BY <1>4 DEF IsBatch
  <2> DEFINE b == all[i]
             path == PathToGlobal(all, i)
             c == Linked(i)
             id == Len(globals) + 1
  <2>2. c = [b EXCEPT !.global_root_id = id, !.global_root = hash, !.path_to_global = path]
    OBVIOUS
  <2>3. HasColumns(b)
    BY <2>1
  <2> HIDE DEF all, hash, b, path, c, id, Linked
  <2>4. /\ HasColumns(c) /\ c.global_root_id = id
        /\ c.from_position = b.from_position /\ c.to_position = b.to_position
    BY <2>2, <2>3 DEF HasColumns
  <2> QED
    BY <2>4 DEF b, c, id
<1>6. \A i \in ToLink(all) : /\ i \in DOMAIN all
                             /\ \A p \in all[i].from_position..all[i].to_position :
                                  chain[p + 1].event_hash \in covers
  BY DEF ToLink, Covered
<1>7. \A i \in DOMAIN all \ ToLink(all) : i \in DOMAIN batches /\ all[i].global_root_id # Unlinked
  BY <1>4 DEF ToLink
<1>8. \A i \in ToLink(all) : all[i].global_root_id = Unlinked
  BY DEF ToLink
<1>9. /\ DOMAIN batches' = DOMAIN all
      /\ \A i \in DOMAIN all \ ToLink(all) : batches'[i] = all[i]
      /\ \A i \in DOMAIN all \cap ToLink(all) : batches'[i] = Linked(i)
  BY <1>2
<1>10. \A i \in DOMAIN all : batches'[i] = next[i]
  BY <1>2
<1> DEFINE links == ToLink(all)
<1> HIDE DEF links, all, root, covers, Linked, next
<1>11. IsSeq(globals) /\ Len(globals) \in Nat /\ DOMAIN globals = 1..Len(globals)
  BY <1>1, SeqFacts DEF Shapes
<1>12. /\ IsSeq(globals') /\ Len(globals') = Len(globals) + 1
       /\ DOMAIN globals' = 1..(Len(globals) + 1)
       /\ \A g \in DOMAIN globals : globals'[g] = globals[g]
       /\ globals'[Len(globals) + 1] = root
  BY <1>2, <1>11, AppendSeq
<1>13. \A i \in DOMAIN batches' : /\ batches'[i].from_position = all[i].from_position
                                  /\ batches'[i].to_position = all[i].to_position
                                  /\ HasColumns(batches'[i])
                                  /\ batches'[i].global_root_id \in 1..Len(globals')
  <2> SUFFICES ASSUME NEW i \in DOMAIN batches'
               PROVE  /\ batches'[i].from_position = all[i].from_position
                      /\ batches'[i].to_position = all[i].to_position
                      /\ HasColumns(batches'[i])
                      /\ batches'[i].global_root_id \in 1..Len(globals')
    OBVIOUS
  <2>1. CASE i \in links
    <3>1. batches'[i] = Linked(i) /\ i \in DOMAIN all
      BY <1>9, <2>1 DEF links
    <3> QED
      BY <1>5, <1>11, <1>12, <3>1
  <2>2. CASE i \notin links
    <3>1. batches'[i] = all[i] /\ i \in DOMAIN all /\ all[i].global_root_id # Unlinked
      BY <1>7, <1>9, <2>2 DEF links
    <3>2. IsBatch(all[i])
      BY <1>4, <3>1
    <3> QED
      BY <1>11, <1>12, <3>1, <3>2 DEF IsBatch, Unlinked
  <2> QED
    BY <2>1, <2>2
<1>14. /\ StreamKept /\ stream'.quiet \in BOOLEAN
       /\ StreamIsRecord'
  BY <1>1, <1>2, DisturbKeeps
<1>15. HeadPosition' = HeadPosition
  BY <1>2 DEF HeadPosition
<1>16. TypeOK'
  <2>1. \A i \in DOMAIN batches' : batches'[i].global_root_id \in 0..Len(globals')
    BY <1>11, <1>12, <1>13
  <2>2. receipts' \subseteq
          [root : DOMAIN globals', kind : {"rekor", "ots"}, status : {"pending", "final"}]
    BY <1>1, <1>2, <1>11, <1>12 DEF TypeOK
  <2> QED
    BY <1>1, <1>2, <1>14, <1>15, <2>1, <2>2 DEF TypeOK, StreamKept
<1>17. Shapes'
  <2>1. RootsShape'
    BY <1>1, <1>11, <1>12, <1>14, RootsCarry DEF StreamKept
  <2>2. BatchesShape'
    <3>1. \A i \in DOMAIN batches' : /\ HasColumns(batches'[i]) /\ HasRange(batches'[i])
                                     /\ batches'[i].global_root_id \in 0..Len(globals')
                                     /\ batches'[i].to_position <= HeadPosition'
      BY <1>4, <1>9, <1>11, <1>12, <1>13, <1>15 DEF IsBatch, HasRange
    <3> QED
      BY <3>1 DEF BatchesShape, IsBatch, HasColumns, HasRange
  <2>3. IsSeq(batches')
    <3> DEFINE n == Len(all)
               S == {batches'[i] : i \in 1..n}
    <3>1. n \in Int /\ DOMAIN batches' = 1..n
      BY <1>4, <1>9, SeqFacts
    <3>2. batches' = [i \in 1..n |-> batches'[i]]
      BY <1>2, <3>1 DEF next
    <3>3. \A i \in 1..n : batches'[i] \in S
      OBVIOUS
    <3> HIDE DEF n, S
    <3>4. batches' \in [1..n -> S]
      BY <3>2, <3>3
    <3> QED
      BY <3>1, <3>4, FunctionSeq
  <2> QED
    BY <1>1, <1>2, <1>12, <1>14, <2>1, <2>2, <2>3 DEF Shapes, StreamKept, FileIsRecord
<1>18. LinkedCover'
  <2> SUFFICES ASSUME NEW i \in DOMAIN batches',
                      NEW p \in batches'[i].from_position..batches'[i].to_position
               PROVE  chain[p + 1].event_hash \in globals'[batches'[i].global_root_id].covers
    BY <1>2 DEF LinkedCover
  <2>1. CASE i \in links
    <3>1. batches'[i].global_root_id = Len(globals) + 1 /\ i \in DOMAIN all
      BY <1>5, <1>9, <2>1 DEF links
    <3>2. chain[p + 1].event_hash \in covers
      BY <1>6, <1>13, <2>1, <3>1 DEF links
    <3> QED
      BY <1>3, <1>12, <3>1, <3>2
  <2>2. CASE i \notin links
    <3>1. /\ batches'[i] = batches[i] /\ i \in DOMAIN batches
          /\ batches[i].global_root_id # Unlinked
      BY <1>4, <1>7, <1>9, <2>2 DEF links
    <3>2. chain[p + 1].event_hash \in globals[batches[i].global_root_id].covers
      BY <1>1, <3>1 DEF LinkedCover
    <3>3. batches[i].global_root_id \in DOMAIN globals
      BY <1>1, <1>11, <3>1 DEF TypeOK, Unlinked
    <3> QED
      BY <1>12, <3>1, <3>2, <3>3
  <2> QED
    BY <2>1, <2>2
<1>19. GlobalsKept /\ ReceiptsKept /\ ChainKept
  BY <1>1, <1>2, <1>11, <1>12 DEF GlobalsKept, ReceiptsKept, ChainKept, RekorFinal
<1>20. BatchesKept
  <2> SUFFICES ASSUME NEW i \in DOMAIN batches
               PROVE  /\ i \in DOMAIN batches' /\ batches'[i].to_position = batches[i].to_position
                      /\ batches[i].global_root_id # Unlinked
                           => batches'[i].global_root_id = batches[i].global_root_id
    BY DEF BatchesKept
  <2>1. i \in DOMAIN batches' /\ all[i] = batches[i]
    BY <1>4, <1>9
  <2>2. batches'[i].to_position = batches[i].to_position
    BY <1>13, <2>1
  <2>3. batches[i].global_root_id # Unlinked => batches'[i] = all[i]
    BY <1>8, <1>9, <2>1 DEF links
  <2> QED
    BY <2>1, <2>2, <2>3
<1> QED
  BY <1>2, <1>14, <1>16, <1>17, <1>18, <1>19, <1>20, ServerStep

(* A step of the registry's receipts. *)
LEMMA ReceiptStep ==
  ASSUME ExportInv, UNCHANGED <<database, globals, appended, faults, stream, file>>,
         receipts' \subseteq
           [root : DOMAIN globals, kind : {"rekor", "ots"}, status : {"pending", "final"}],
         ReceiptsKept
  PROVE  ExportInv'
<1>1. TypeOK /\ Shapes /\ LinkedCover
  BY DEF ExportInv
<1>2. /\ era' = era /\ chain' = chain /\ payload' = payload /\ silent' = silent /\ batches' = batches
      /\ globals' = globals /\ appended' = appended /\ faults' = faults
      /\ stream' = stream /\ file' = file
  BY DEF database
<1>3. TypeOK'
  BY <1>1, <1>2 DEF TypeOK, HeadPosition
<1>4. Shapes'
  <2>1. BatchesShape' /\ RootsShape'
    BY <1>1, <1>2 DEF Shapes, BatchesShape, RootsShape, IsBatch, HasColumns, HasRange, HeadPosition
  <2> QED
    BY <1>1, <1>2, <2>1 DEF Shapes, StreamIsRecord, FileIsRecord
<1>5. LinkedCover'
  BY <1>1, <1>2 DEF LinkedCover
<1>6. StreamKept /\ GlobalsKept /\ ChainKept /\ BatchesKept
  BY <1>2 DEF StreamKept, GlobalsKept, ChainKept, BatchesKept
<1> QED
  BY <1>2, <1>3, <1>4, <1>5, <1>6, ServerStep

LEMMA RecordReceiptInv ==
  ASSUME ExportInv, NEW g, NEW kind \in Kinds, RecordReceipt(g, kind)
  PROVE  ExportInv'
<1> DEFINE new == [root |-> g, kind |-> kind,
                   status |-> IF kind = "ots" THEN "pending" ELSE "final"]
<1>1. /\ g \in DOMAIN globals /\ receipts' = receipts \cup {new}
      /\ UNCHANGED <<database, globals, appended, faults, stream, file>>
  BY DEF RecordReceipt
<1>2. /\ new \in [root : DOMAIN globals, kind : {"rekor", "ots"}, status : {"pending", "final"}]
      /\ new.kind = "rekor" => new.status = "final"
  BY <1>1, ConstantsAssumption
<1>3. /\ TypeOK /\ RekorFinal
  BY DEF ExportInv
<1> HIDE DEF new
<1>4. receipts' \subseteq
        [root : DOMAIN globals, kind : {"rekor", "ots"}, status : {"pending", "final"}]
  BY <1>1, <1>2, <1>3 DEF TypeOK
<1>5. ReceiptsKept
  BY <1>1, <1>2, <1>3 DEF ReceiptsKept, RekorFinal
<1> QED
  BY <1>1, <1>4, <1>5, ReceiptStep

LEMMA UpgradeReceiptInv ==
  ASSUME ExportInv, NEW g, UpgradeReceipt(g)
  PROVE  ExportInv'
<1> DEFINE old == [root |-> g, kind |-> "ots", status |-> "pending"]
           new == [old EXCEPT !.status = "final"]
<1>1. /\ old \in receipts /\ receipts' = (receipts \ {old}) \cup {new}
      /\ UNCHANGED <<database, globals, appended, faults, stream, file>>
  BY DEF UpgradeReceipt
<1>2. /\ TypeOK /\ RekorFinal
  BY DEF ExportInv
<1>3. /\ old.root = g /\ new.root = g /\ new.status = "final" /\ new.kind = "ots"
      /\ g \in DOMAIN globals
      /\ new \in [root : DOMAIN globals, kind : {"rekor", "ots"}, status : {"pending", "final"}]
  BY <1>1, <1>2 DEF TypeOK
<1> HIDE DEF old, new
<1>4. receipts' \subseteq
        [root : DOMAIN globals, kind : {"rekor", "ots"}, status : {"pending", "final"}]
  BY <1>1, <1>2, <1>3 DEF TypeOK
<1>5. ReceiptsKept
  <2>1. ASSUME NEW r \in receipts
        PROVE  \E s \in receipts' : s.root = r.root /\ (r.status = "final" => s.status = "final")
    BY <1>1, <1>3
  <2>2. \A r \in receipts' : r.kind = "rekor" => r.status = "final"
    BY <1>1, <1>2, <1>3 DEF RekorFinal
  <2> QED
    BY <2>1, <2>2 DEF ReceiptsKept
<1> QED
  BY <1>1, <1>4, <1>5, ReceiptStep

LEMMA AnchoringInv == ExportInv /\ Anchoring => ExportInv'
BY TickInv, TickCutOffInv, RecordReceiptInv, UpgradeReceiptInv DEF Anchoring

-------------------------------------------------------------------------------
(* What the response still has to send.                                    *)

LEMMA OverlappingRows ==
  ASSUME Shapes, NEW from, NEW to
  PROVE  /\ IsSeq(Overlapping(from, to))
         /\ \A i \in DOMAIN Overlapping(from, to) :
              \E j \in DOMAIN batches : Overlapping(from, to)[i] = batches[j]
<1> DEFINE found == {i \in DOMAIN batches : /\ batches[i].to_position >= from
                                            /\ batches[i].from_position <= to}
           rows == SubSeq(batches, Min(found), Max(found))
<1>1. IsSeq(batches) /\ Len(batches) \in Nat /\ DOMAIN batches = 1..Len(batches)
  BY SeqFacts DEF Shapes
<1>2. CASE found = {}
  <2>1. Overlapping(from, to) = <<>>
    BY <1>2 DEF Overlapping
  <2> QED
    BY <2>1, NothingIsSeq
<1>3. CASE found # {}
  <2>1. Overlapping(from, to) = rows
    BY <1>3 DEF Overlapping
  <2>2. found \in SUBSET (0..Len(batches)) /\ found \in SUBSET Nat
    BY <1>1
  <2>3. found \subseteq DOMAIN batches
    OBVIOUS
  <2>4. /\ Min(found) \in found /\ Max(found) \in found
    BY <1>1, <1>3, <2>2, MinOfSome, MaxOfSome
  <2> DEFINE m == Min(found)
             n == Max(found)
  <2>5. m \in 1..Len(batches) /\ n \in 1..Len(batches)
    BY <1>1, <2>3, <2>4
  <2> HIDE DEF m, n, found
  <2>6. \A i \in m..n : i \in DOMAIN batches /\ batches[i] \in Range(batches)
    BY <1>1, <2>5 DEF Range
  <2>7. /\ SubSeq(batches, m, n) \in Seq(Range(batches))
        /\ Len(SubSeq(batches, m, n)) = IF m <= n THEN n - m + 1 ELSE 0
        /\ \A i \in 1..(n - m + 1) : SubSeq(batches, m, n)[i] = batches[m + i - 1]
    BY <2>5, <2>6, SubSeqProperties
  <2>8. IsSeq(SubSeq(batches, m, n))
    BY <2>7, SeqIntro
  <2>9. ASSUME NEW i \in DOMAIN SubSeq(batches, m, n)
        PROVE  \E j \in DOMAIN batches : SubSeq(batches, m, n)[i] = batches[j]
    <3>1. i \in 1..(n - m + 1)
      BY <2>5, <2>7, <2>8, SeqFacts
    <3>2. m + i - 1 \in DOMAIN batches
      BY <2>5, <2>6, <3>1
    <3> QED
      BY <2>7, <3>1, <3>2
  <2>10. rows = SubSeq(batches, m, n)
    BY DEF m, n
  <2> QED
    BY <2>1, <2>8, <2>9, <2>10
<1> QED
  BY <1>2, <1>3

LEMMA RowsLeftFacts ==
  ASSUME ExportInv, Streaming
  PROVE  /\ IsSeq(RowsLeft)
         /\ stream.tenant = era => \A i \in DOMAIN RowsLeft : OfChain(RowsLeft[i])
<1>1. TypeOK /\ Shapes /\ RowsOfChain
  BY DEF ExportInv
<1>2. CASE stream.at # "manifest"
  BY <1>1, <1>2 DEF RowsLeft, Shapes, RowsOfChain
<1>3. CASE stream.at = "manifest" /\ stream.tenant # era
  <2>1. RowsLeft = <<>>
    BY <1>3 DEF RowsLeft, ChainRows
  <2> QED
    BY <1>3, <2>1, NothingIsSeq
<1>4. CASE stream.at = "manifest" /\ stream.tenant = era
  <2> DEFINE n == AtMost(stream.to, HeadPosition) - stream.from + 1
             rows == [i \in 1..n |-> EventLine(chain[stream.from + i])]
             S == {EventLine(chain[stream.from + i]) : i \in 1..n}
  <2>1. RowsLeft = rows
    BY <1>4 DEF RowsLeft, ChainRows
  <2>2. /\ Len(chain) \in Nat /\ DOMAIN chain = 1..Len(chain)
        /\ stream.from \in Nat /\ stream.to \in Int
    BY <1>1, SeqFacts DEF Shapes, TypeOK
  <2>3. n \in Int /\ n <= Len(chain) - stream.from
    BY <2>2 DEF AtMost, HeadPosition
  <2>4. \A i \in 1..n : rows[i] = EventLine(chain[stream.from + i]) /\ rows[i] \in S
    OBVIOUS
  <2>5. rows \in [1..n -> S] /\ DOMAIN rows = 1..n
    OBVIOUS
  <2>6. ASSUME NEW i \in 1..n
        PROVE  OfChain(rows[i])
    <3>1. stream.from + i \in DOMAIN chain
      <4> HIDE DEF n
      <4> QED
        BY <2>2, <2>3
    <3>2. chain[stream.from + i].position = stream.from + i - 1
      BY <1>1, <3>1 DEF TypeOK
    <3>3. /\ rows[i].position = stream.from + i - 1
          /\ rows[i].event_hash = chain[stream.from + i].event_hash
      BY <2>4, <3>2 DEF EventLine
    <3> HIDE DEF rows, n
    <3>4. stream.from + i - 1 \in 0..HeadPosition /\ (stream.from + i - 1) + 1 = stream.from + i
      BY <2>2, <2>3, <3>1 DEF HeadPosition
    <3> QED
      BY <3>3, <3>4 DEF OfChain
  <2> HIDE DEF n, rows, S
  <2>7. IsSeq(rows)
    BY <2>3, <2>5, FunctionSeq
  <2> QED
    BY <2>1, <2>5, <2>6, <2>7
<1> QED
  BY <1>2, <1>3, <1>4

(* What a root line may say of a batch. *)
Speaks(b) ==
  /\ IsBatch(b)
  /\ \A j \in DOMAIN file.events :
       Under(file.events[j], b) /\ b.global_root_id # Unlinked
         => file.events[j].event_hash \in globals[b.global_root_id].covers
  /\ stream.tenant = era =>
       \E j \in DOMAIN batches :
         /\ batches[j].to_position = b.to_position
         /\ b.global_root_id # Unlinked => batches[j].global_root_id = b.global_root_id

LEMMA RootsLeftFacts ==
  ASSUME ExportInv, Streaming
  PROVE  IsSeq(RootsLeft) /\ \A i \in DOMAIN RootsLeft : Speaks(RootsLeft[i])
<1>1. TypeOK /\ Shapes /\ RowsOfChain /\ LinkedCover /\ RootsCoverFile /\ BatchesStay
  BY DEF ExportInv
<1>2. CASE stream.at = "roots"
  <2>1. RootsLeft = stream.roots /\ IsSeq(stream.roots)
    BY <1>1, <1>2 DEF RootsLeft, Shapes
  <2>2. ASSUME NEW i \in DOMAIN stream.roots
        PROVE  Speaks(stream.roots[i])
    <3>1. IsBatch(stream.roots[i])
      BY <1>1 DEF Shapes, RootsShape
    <3>2. \A j \in DOMAIN file.events :
            Under(file.events[j], stream.roots[i]) /\ stream.roots[i].global_root_id # Unlinked
              => file.events[j].event_hash \in globals[stream.roots[i].global_root_id].covers
      BY <1>1 DEF RootsCoverFile
    <3>3. stream.tenant = era =>
            \E j \in DOMAIN batches :
              /\ batches[j].to_position = stream.roots[i].to_position
              /\ stream.roots[i].global_root_id # Unlinked
                   => batches[j].global_root_id = stream.roots[i].global_root_id
      BY <1>1 DEF BatchesStay
    <3> QED
      BY <3>1, <3>2, <3>3 DEF Speaks
  <2> QED
    BY <2>1, <2>2
<1>3. CASE stream.at # "roots" /\ stream.tenant # era
  <2>1. RootsLeft = <<>>
    BY <1>3 DEF RootsLeft, RootRows
  <2> QED
    BY <2>1, NothingIsSeq
<1>4. CASE stream.at # "roots" /\ stream.tenant = era
  <2>1. RootsLeft = Overlapping(stream.from, stream.to)
    BY <1>4 DEF RootsLeft, RootRows
  <2>2. /\ IsSeq(RootsLeft)
        /\ \A i \in DOMAIN RootsLeft : \E k \in DOMAIN batches : RootsLeft[i] = batches[k]
    BY <1>1, <2>1, OverlappingRows
  <2>3. ASSUME NEW k \in DOMAIN batches
        PROVE  Speaks(batches[k])
    <3>1. IsBatch(batches[k])
      BY <1>1 DEF Shapes, BatchesShape
    <3>2. ASSUME NEW j \in DOMAIN file.events, Under(file.events[j], batches[k]),
                 batches[k].global_root_id # Unlinked
          PROVE  file.events[j].event_hash \in globals[batches[k].global_root_id].covers
      <4>1. OfChain(file.events[j])
        BY <1>1, <1>4 DEF RowsOfChain
      <4> QED
        BY <1>1, <3>2, <4>1 DEF OfChain, LinkedCover, Under
    <3> QED
      BY <3>1, <3>2 DEF Speaks
  <2> QED
    BY <2>2, <2>3
<1> QED
  BY <1>2, <1>3, <1>4

-------------------------------------------------------------------------------
(* The steps of the response, which change nothing of the server.          *)

StreamTyped ==
  /\ stream.at \in {"none", "manifest", "events", "roots", "done", "lost"}
  /\ stream.tenant \in 0..era /\ stream.from \in Nat /\ stream.to \in Int
  /\ stream.quiet \in BOOLEAN
  /\ Len(file.manifest) = (IF stream.at = "none" THEN 0 ELSE 1) /\ file.torn \in BOOLEAN
StreamShaped ==
  /\ StreamIsRecord /\ IsSeq(stream.rows) /\ IsSeq(stream.roots) /\ RootsShape
  /\ FileIsRecord /\ IsSeq(file.events) /\ IsSeq(file.roots)
  /\ \A i \in DOMAIN file.roots : HasRange(file.roots[i])

LEMMA ExportStep ==
  ASSUME ExportInv, UNCHANGED <<database, registry, appended, faults>>,
         StreamTyped', StreamShaped',
         EventsFirst', RowsOfChain', RootsCoverFile', LinesBacked', RekorFinal', BatchesStay'
  PROVE  ExportInv'
<1>1. TypeOK /\ Shapes /\ LinkedCover
  BY DEF ExportInv
<1>2. /\ era' = era /\ chain' = chain /\ payload' = payload /\ silent' = silent /\ batches' = batches
      /\ globals' = globals /\ receipts' = receipts /\ appended' = appended /\ faults' = faults
  BY DEF database, registry
<1>3. TypeOK'
  BY <1>1, <1>2 DEF TypeOK, StreamTyped, HeadPosition
<1>4. Shapes'
  <2>1. BatchesShape'
    BY <1>1, <1>2 DEF Shapes, BatchesShape, IsBatch, HasColumns, HasRange, HeadPosition
  <2> QED
    BY <1>1, <1>2, <2>1 DEF Shapes, StreamShaped
<1>5. LinkedCover'
  BY <1>1, <1>2 DEF LinkedCover
<1> QED
  BY <1>3, <1>4, <1>5 DEF ExportInv

LEMMA WidenTypes ==
  ASSUME TypeOK, Shapes, NEW from \in Nat, NEW to \in Int
  PROVE  Widen(from, to).from \in Nat /\ Widen(from, to).to \in Int
<1> DEFINE found == Overlapping(from, to)
<1>1. /\ IsSeq(found)
      /\ \A i \in DOMAIN found : \E j \in DOMAIN batches : found[i] = batches[j]
  BY OverlappingRows
<1>2. \A i \in DOMAIN found : found[i].from_position \in Nat /\ found[i].to_position \in Nat
  BY <1>1 DEF Shapes, BatchesShape, IsBatch, HasRange
<1>3. CASE found = <<>>
  BY <1>3 DEF Widen
<1>4. CASE found # <<>>
  <2>1. Len(found) \in Nat /\ DOMAIN found = 1..Len(found) /\ Len(found) # 0
    BY <1>1, <1>4, SeqFacts DEF IsSeq
  <2>2. 1 \in DOMAIN found /\ Len(found) \in DOMAIN found
    BY <2>1
  <2>3. /\ Widen(from, to).from = AtMost(from, found[1].from_position)
        /\ Widen(from, to).to = AtLeast(to, found[Len(found)].to_position)
    BY <1>4 DEF Widen
  <2> QED
    BY <1>2, <2>2, <2>3 DEF AtMost, AtLeast
<1> QED
  BY <1>3, <1>4

LEMMA StartExportInv ==
  ASSUME ExportInv, NEW from \in Nat, NEW to \in Int, StartExport(from, to)
  PROVE  ExportInv'
<1> DEFINE range == Widen(from, End(to))
           line == Manifest(range, from, End(to))
<1>1. /\ file' = [NoLines EXCEPT !.manifest = <<line>>]
      /\ stream' = [NoStream EXCEPT !.at = "manifest", !.tenant = era,
                                    !.from = range.from, !.to = range.to]
      /\ UNCHANGED <<database, registry, appended, faults>>
  BY DEF StartExport
<1>2. TypeOK /\ Shapes /\ RekorFinal
  BY DEF ExportInv
<1>3. range.from \in Nat /\ range.to \in Int
  <2>1. End(to) \in Int
    BY <1>2, SeqFacts DEF End, AtMost, HeadPosition, Shapes
  <2> QED
    BY <1>2, <2>1, WidenTypes
<1> HIDE DEF range, line
<1>4. stream' = [at |-> "manifest", tenant |-> era, from |-> range.from, to |-> range.to,
                 rows |-> <<>>, roots |-> <<>>, quiet |-> TRUE]
  BY <1>1 DEF NoStream
<1>5. file' = [manifest |-> <<line>>, events |-> <<>>, roots |-> <<>>, torn |-> FALSE]
  BY <1>1 DEF NoLines
<1>6. /\ stream'.at = "manifest" /\ stream'.tenant = era /\ stream'.from = range.from
      /\ stream'.to = range.to /\ stream'.quiet = TRUE
      /\ stream'.rows = <<>> /\ stream'.roots = <<>> /\ StreamIsRecord'
  BY <1>4 DEF StreamIsRecord
<1>7. /\ Len(file'.manifest) = 1 /\ file'.events = <<>> /\ file'.roots = <<>>
      /\ file'.torn = FALSE /\ FileIsRecord'
  BY <1>5 DEF FileIsRecord
<1>8. /\ IsSeq(stream'.rows) /\ IsSeq(stream'.roots) /\ IsSeq(file'.events) /\ IsSeq(file'.roots)
      /\ DOMAIN stream'.rows = {} /\ DOMAIN stream'.roots = {}
      /\ DOMAIN file'.events = {} /\ DOMAIN file'.roots = {}
  <2>1. IsSeq(stream'.rows) /\ IsSeq(stream'.roots)
    BY <1>6, NothingIsSeq
  <2>2. IsSeq(file'.events) /\ IsSeq(file'.roots)
    BY <1>7, NothingIsSeq
  <2> QED
    BY <1>6, <1>7, <2>1, <2>2
<1>9. era' = era /\ receipts' = receipts
  BY <1>1 DEF database, registry
<1>10. StreamTyped'
  <2>1. era \in 0..era
    BY <1>2, ConstantsAssumption DEF TypeOK
  <2>2. /\ stream'.tenant \in 0..era' /\ stream'.from \in Nat /\ stream'.to \in Int
        /\ stream'.quiet \in BOOLEAN /\ file'.torn \in BOOLEAN
    BY <1>3, <1>6, <1>7, <1>9, <2>1
  <2> QED
    BY <1>6, <1>7, <2>2 DEF StreamTyped
<1>11. StreamShaped'
  BY <1>6, <1>7, <1>8 DEF StreamShaped, RootsShape
<1>12. EventsFirst'
  BY <1>6, <1>7 DEF EventsFirst
<1>13. RowsOfChain' /\ RootsCoverFile' /\ LinesBacked' /\ BatchesStay'
  BY <1>8 DEF RowsOfChain, RootsCoverFile, LinesBacked, BatchesStay
<1>14. RekorFinal'
  BY <1>2, <1>8, <1>9 DEF RekorFinal
<1> QED
  BY <1>1, <1>10, <1>11, <1>12, <1>13, <1>14, ExportStep

(* The response comes to its end, by itself or with the connection. *)
LEMMA LastStep ==
  ASSUME ExportInv, Streaming, UNCHANGED <<database, registry, appended, faults>>,
         NEW torn \in BOOLEAN, file' = [file EXCEPT !.torn = torn],
         NEW at \in {"done", "lost"},
         stream' = [stream EXCEPT !.at = at, !.rows = <<>>, !.roots = <<>>]
  PROVE  ExportInv'
<1>1. /\ TypeOK /\ Shapes /\ EventsFirst /\ RowsOfChain /\ LinesBacked /\ RekorFinal /\ BatchesStay
  BY DEF ExportInv
<1>2. stream' = [at |-> at, tenant |-> stream.tenant, from |-> stream.from, to |-> stream.to,
                 rows |-> <<>>, roots |-> <<>>, quiet |-> stream.quiet]
  BY <1>1 DEF Shapes, StreamIsRecord
<1>3. file' = [manifest |-> file.manifest, events |-> file.events, roots |-> file.roots,
               torn |-> torn]
  BY <1>1 DEF Shapes, FileIsRecord
<1>4. /\ stream'.at = at /\ stream'.tenant = stream.tenant /\ stream'.from = stream.from
      /\ stream'.to = stream.to /\ stream'.quiet = stream.quiet
      /\ stream'.rows = <<>> /\ stream'.roots = <<>> /\ StreamIsRecord'
  BY <1>2 DEF StreamIsRecord
<1>5. /\ file'.manifest = file.manifest /\ file'.events = file.events
      /\ file'.roots = file.roots /\ file'.torn = torn /\ FileIsRecord'
  BY <1>3 DEF FileIsRecord
<1>6. /\ IsSeq(stream'.rows) /\ IsSeq(stream'.roots)
      /\ DOMAIN stream'.rows = {} /\ DOMAIN stream'.roots = {}
  <2>1. IsSeq(stream'.rows) /\ IsSeq(stream'.roots)
    BY <1>4, NothingIsSeq
  <2> QED
    BY <1>4, <2>1
<1>7. /\ era' = era /\ receipts' = receipts /\ chain' = chain /\ batches' = batches
      /\ globals' = globals
  BY DEF database, registry
<1>8. StreamTyped'
  BY <1>1, <1>4, <1>5, <1>7 DEF StreamTyped, TypeOK, Streaming
<1>9. StreamShaped'
  BY <1>1, <1>4, <1>5, <1>6 DEF StreamShaped, RootsShape, Shapes, HasRange
<1>10. EventsFirst'
  BY <1>4 DEF EventsFirst
<1>11. RowsOfChain'
  BY <1>1, <1>4, <1>5, <1>6, <1>7 DEF RowsOfChain, OfChain, HeadPosition
<1>12. RootsCoverFile'
  BY <1>6 DEF RootsCoverFile
<1>13. LinesBacked'
  BY <1>1, <1>5, <1>7 DEF LinesBacked, Under, Backs
<1>14. RekorFinal'
  BY <1>1, <1>5, <1>7 DEF RekorFinal
<1>15. BatchesStay'
  BY <1>1, <1>4, <1>5, <1>6, <1>7 DEF BatchesStay, AnchoredEnds, Receipts
<1> QED
  BY <1>8, <1>9, <1>10, <1>11, <1>12, <1>13, <1>14, <1>15, ExportStep

LEMMA EndExportInv == ExportInv /\ EndExport => ExportInv'
<1> SUFFICES ASSUME ExportInv, EndExport
             PROVE  ExportInv'
  OBVIOUS
<1>1. TypeOK /\ Shapes /\ EventsFirst
  BY DEF ExportInv
<1>2. stream.rows = <<>> /\ stream.roots = <<>>
  BY <1>1 DEF EndExport, EventsFirst, RowsLeft, RootsLeft, Streaming
<1>3. stream' = [stream EXCEPT !.at = "done", !.rows = <<>>, !.roots = <<>>]
  BY <1>1, <1>2 DEF EndExport, Shapes, StreamIsRecord
<1>4. file' = [file EXCEPT !.torn = file.torn] /\ file.torn \in BOOLEAN
  BY <1>1 DEF EndExport, Shapes, FileIsRecord, TypeOK
<1> QED
  BY <1>3, <1>4, LastStep DEF EndExport

LEMMA LoseConnectionInv ==
  ASSUME ExportInv, NEW torn \in BOOLEAN, LoseConnection(torn)
  PROVE  ExportInv'
BY LastStep DEF LoseConnection

LEMMA PullEventInv == ExportInv /\ PullEvent => ExportInv'
<1> SUFFICES ASSUME ExportInv, PullEvent
             PROVE  ExportInv'
  OBVIOUS
<1> DEFINE rows == RowsLeft
           line == Head(rows)
<1>1. /\ TypeOK /\ Shapes /\ EventsFirst /\ RowsOfChain /\ RekorFinal /\ BatchesStay
  BY DEF ExportInv
<1>2. /\ Streaming /\ rows # <<>> /\ UNCHANGED <<database, registry, appended, faults>>
      /\ file' = [file EXCEPT !.events = Append(file.events, line)]
      /\ stream' = [stream EXCEPT !.at = "events", !.rows = Tail(rows)]
  BY DEF PullEvent
<1>3. IsSeq(rows) /\ (stream.tenant = era => \A i \in DOMAIN rows : OfChain(rows[i]))
  BY <1>2, RowsLeftFacts
<1>4. stream.at # "roots" /\ stream.roots = <<>> /\ file.roots = <<>>
  BY <1>1, <1>2 DEF EventsFirst, RowsLeft, Streaming
<1> HIDE DEF rows
<1>5. /\ IsSeq(Tail(rows)) /\ 1 \in DOMAIN rows /\ line = rows[1]
      /\ \A i \in DOMAIN Tail(rows) : i + 1 \in DOMAIN rows /\ Tail(rows)[i] = rows[i + 1]
  BY <1>2, <1>3, TailSeq
<1> HIDE DEF line
<1>6. stream' = [at |-> "events", tenant |-> stream.tenant, from |-> stream.from, to |-> stream.to,
                 rows |-> Tail(rows), roots |-> stream.roots, quiet |-> stream.quiet]
  BY <1>1, <1>2 DEF Shapes, StreamIsRecord
<1>7. file' = [manifest |-> file.manifest, events |-> Append(file.events, line),
               roots |-> file.roots, torn |-> file.torn]
  BY <1>1, <1>2 DEF Shapes, FileIsRecord
<1>8. /\ stream'.at = "events" /\ stream'.tenant = stream.tenant /\ stream'.from = stream.from
      /\ stream'.to = stream.to /\ stream'.quiet = stream.quiet
      /\ stream'.rows = Tail(rows) /\ stream'.roots = <<>> /\ StreamIsRecord'
  BY <1>4, <1>6 DEF StreamIsRecord
<1>9. /\ file'.manifest = file.manifest /\ file'.events = Append(file.events, line)
      /\ file'.roots = <<>> /\ file'.torn = file.torn /\ FileIsRecord'
  BY <1>4, <1>7 DEF FileIsRecord
<1>10. /\ IsSeq(stream'.roots) /\ IsSeq(file'.roots)
       /\ DOMAIN stream'.roots = {} /\ DOMAIN file'.roots = {}
  <2>1. IsSeq(stream'.roots) /\ IsSeq(file'.roots)
    BY <1>8, <1>9, NothingIsSeq
  <2> QED
    BY <1>8, <1>9, <2>1
<1>11. IsSeq(file.events) /\ Len(file.events) \in Nat /\ DOMAIN file.events = 1..Len(file.events)
  BY <1>1, SeqFacts DEF Shapes
<1>12. /\ IsSeq(file'.events) /\ DOMAIN file'.events = 1..(Len(file.events) + 1)
       /\ \A i \in DOMAIN file.events : file'.events[i] = file.events[i]
       /\ file'.events[Len(file.events) + 1] = line
  BY <1>9, <1>11, AppendSeq
<1>13. /\ era' = era /\ receipts' = receipts /\ chain' = chain /\ batches' = batches
       /\ globals' = globals
  BY <1>2 DEF database, registry
<1>14. StreamTyped'
  BY <1>1, <1>2, <1>8, <1>9, <1>13 DEF StreamTyped, TypeOK, Streaming
<1>15. StreamShaped'
  BY <1>5, <1>8, <1>9, <1>10, <1>12 DEF StreamShaped, RootsShape
<1>16. EventsFirst'
  BY <1>8, <1>9 DEF EventsFirst
<1>17. RowsOfChain'
  <2> SUFFICES ASSUME stream.tenant = era
               PROVE  /\ \A i \in DOMAIN stream'.rows : OfChain(stream'.rows[i])
                      /\ \A i \in DOMAIN file'.events : OfChain(file'.events[i])
    BY <1>8, <1>13 DEF RowsOfChain, OfChain, HeadPosition
  <2>1. \A i \in DOMAIN stream'.rows : OfChain(stream'.rows[i])
    BY <1>3, <1>5, <1>8
  <2>2. OfChain(line)
    BY <1>3, <1>5
  <2>3. \A i \in DOMAIN file.events : OfChain(file.events[i])
    BY <1>1 DEF RowsOfChain
  <2>4. \A i \in DOMAIN file'.events : i \in DOMAIN file.events \/ i = Len(file.events) + 1
    BY <1>11, <1>12
  <2>5. \A i \in DOMAIN file'.events : OfChain(file'.events[i])
    BY <1>12, <2>2, <2>3, <2>4
  <2> QED
    BY <2>1, <2>5
<1>18. RootsCoverFile' /\ LinesBacked'
  BY <1>10 DEF RootsCoverFile, LinesBacked
<1>19. RekorFinal'
  BY <1>1, <1>10, <1>13 DEF RekorFinal
<1>20. BatchesStay'
  BY <1>10 DEF BatchesStay
<1> QED
  BY <1>2, <1>14, <1>15, <1>16, <1>17, <1>18, <1>19, <1>20, ExportStep

LEMMA PullRootInv == ExportInv /\ PullRoot => ExportInv'
<1> SUFFICES ASSUME ExportInv, PullRoot
             PROVE  ExportInv'
  OBVIOUS
<1> DEFINE roots == RootsLeft
           b == Head(roots)
           line == RootLine(b)
<1>1. /\ TypeOK /\ Shapes /\ EventsFirst /\ RowsOfChain /\ LinesBacked /\ RekorFinal /\ BatchesStay
  BY DEF ExportInv
<1>2. /\ Streaming /\ roots # <<>> /\ UNCHANGED <<database, registry, appended, faults>>
      /\ file' = [file EXCEPT !.roots = Append(file.roots, line)]
      /\ stream' = [stream EXCEPT !.at = "roots", !.rows = <<>>, !.roots = Tail(roots)]
  BY DEF PullRoot
<1>3. IsSeq(roots) /\ \A i \in DOMAIN roots : Speaks(roots[i])
  BY <1>2, RootsLeftFacts
<1> HIDE DEF roots
<1>4. /\ IsSeq(Tail(roots)) /\ 1 \in DOMAIN roots /\ b = roots[1]
      /\ \A i \in DOMAIN Tail(roots) : i + 1 \in DOMAIN roots /\ Tail(roots)[i] = roots[i + 1]
  BY <1>2, <1>3, TailSeq
<1>5. Speaks(b) /\ \A i \in DOMAIN Tail(roots) : Speaks(Tail(roots)[i])
  BY <1>3, <1>4
<1> HIDE DEF b
<1>6. /\ line.from_position = b.from_position /\ line.to_position = b.to_position
      /\ line.anchors = Receipts(b.global_root_id)
  BY DEF RootLine
<1> HIDE DEF line
<1>7. stream' = [at |-> "roots", tenant |-> stream.tenant, from |-> stream.from, to |-> stream.to,
                 rows |-> <<>>, roots |-> Tail(roots), quiet |-> stream.quiet]
  BY <1>1, <1>2 DEF Shapes, StreamIsRecord
<1>8. file' = [manifest |-> file.manifest, events |-> file.events,
               roots |-> Append(file.roots, line), torn |-> file.torn]
  BY <1>1, <1>2 DEF Shapes, FileIsRecord
<1>9. /\ stream'.at = "roots" /\ stream'.tenant = stream.tenant /\ stream'.from = stream.from
      /\ stream'.to = stream.to /\ stream'.quiet = stream.quiet
      /\ stream'.rows = <<>> /\ stream'.roots = Tail(roots) /\ StreamIsRecord'
  BY <1>7 DEF StreamIsRecord
<1>10. /\ file'.manifest = file.manifest /\ file'.events = file.events
       /\ file'.roots = Append(file.roots, line) /\ file'.torn = file.torn /\ FileIsRecord'
  BY <1>8 DEF FileIsRecord
<1>11. IsSeq(file.roots) /\ Len(file.roots) \in Nat /\ DOMAIN file.roots = 1..Len(file.roots)
  BY <1>1, SeqFacts DEF Shapes
<1>12. /\ IsSeq(file'.roots)
       /\ \A i \in DOMAIN file'.roots :
            \/ i \in DOMAIN file.roots /\ file'.roots[i] = file.roots[i]
            \/ file'.roots[i] = line
  <2>1. /\ IsSeq(file'.roots) /\ DOMAIN file'.roots = 1..(Len(file.roots) + 1)
        /\ \A i \in DOMAIN file.roots : file'.roots[i] = file.roots[i]
        /\ file'.roots[Len(file.roots) + 1] = line
    BY <1>10, <1>11, AppendSeq
  <2>2. \A i \in DOMAIN file'.roots : i \in DOMAIN file.roots \/ i = Len(file.roots) + 1
    BY <1>11, <2>1
  <2> QED
    BY <2>1, <2>2
<1>13. IsSeq(stream'.rows) /\ DOMAIN stream'.rows = {}
  <2>1. IsSeq(stream'.rows)
    BY <1>9, NothingIsSeq
  <2> QED
    BY <1>9, <2>1
<1>14. /\ era' = era /\ receipts' = receipts /\ chain' = chain /\ batches' = batches
       /\ globals' = globals
  BY <1>2 DEF database, registry
<1>15. StreamTyped'
  BY <1>1, <1>2, <1>9, <1>10, <1>14 DEF StreamTyped, TypeOK, Streaming
<1>16. StreamShaped'
  <2>1. HasRange(line)
    BY <1>5, <1>6 DEF Speaks, IsBatch, HasRange
  <2>2. \A i \in DOMAIN file'.roots : HasRange(file'.roots[i])
    BY <1>1, <1>12, <2>1 DEF Shapes
  <2>3. \A i \in DOMAIN Tail(roots) : IsBatch(Tail(roots)[i])
    BY <1>5 DEF Speaks
  <2>4. RootsShape'
    BY <1>9, <1>14, <2>3 DEF RootsShape, IsBatch, HasColumns, HasRange
  <2> QED
    BY <1>1, <1>4, <1>9, <1>10, <1>12, <1>13, <2>2, <2>4 DEF StreamShaped, Shapes, HasRange
<1>17. EventsFirst'
  BY <1>9 DEF EventsFirst
<1>18. RowsOfChain'
  BY <1>1, <1>9, <1>10, <1>13, <1>14 DEF RowsOfChain, OfChain, HeadPosition
<1>19. RootsCoverFile'
  BY <1>5, <1>9, <1>10, <1>14 DEF RootsCoverFile, Speaks, Under
<1>20. LinesBacked'
  <2>1. ASSUME NEW j \in DOMAIN file.events, Under(file.events[j], line), line.anchors # {}
        PROVE  \E g \in DOMAIN globals : /\ file.events[j].event_hash \in globals[g].covers
                                         /\ Backs(g, line)
    <3> DEFINE g == b.global_root_id
    <3>1. PICK r \in receipts : r.root = g
      BY <1>6, <2>1 DEF Receipts
    <3>2. g \in DOMAIN globals /\ g # Unlinked
      <4>1. Len(globals) \in Nat /\ DOMAIN globals = 1..Len(globals)
        BY <1>1, SeqFacts DEF Shapes
      <4>2. g \in DOMAIN globals
        BY <1>1, <3>1 DEF TypeOK
      <4> QED
        BY <4>1, <4>2 DEF Unlinked
    <3>3. file.events[j].event_hash \in globals[g].covers
      BY <1>5, <1>6, <2>1, <3>2 DEF Speaks, Under
    <3>4. Backs(g, line)
      <4> SUFFICES ASSUME NEW a \in Receipts(g)
                   PROVE  \E s \in receipts : s.root = g /\ (a.status = "final" => s.status = "final")
        BY <1>6 DEF Backs
      <4>1. PICK s \in receipts : s.root = g /\ a = [kind |-> s.kind, status |-> s.status]
        BY DEF Receipts
      <4> QED
        BY <4>1
    <3> QED
      BY <3>2, <3>3, <3>4
  <2>2. ASSUME NEW i \in DOMAIN file'.roots, NEW j \in DOMAIN file.events,
               Under(file.events[j], file'.roots[i]), file'.roots[i].anchors # {}
        PROVE  \E g \in DOMAIN globals : /\ file.events[j].event_hash \in globals[g].covers
                                         /\ Backs(g, file'.roots[i])
    BY <1>1, <1>12, <2>1, <2>2 DEF LinesBacked
  <2> QED
    BY <1>10, <1>14, <2>2 DEF LinesBacked, Under, Backs
<1>21. RekorFinal'
  <2>1. \A a \in line.anchors : a.kind = "rekor" => a.status = "final"
    <3> SUFFICES ASSUME NEW a \in Receipts(b.global_root_id)
                 PROVE  a.kind = "rekor" => a.status = "final"
      BY <1>6
    <3>1. PICK s \in receipts : a = [kind |-> s.kind, status |-> s.status]
      BY DEF Receipts
    <3> QED
      BY <1>1, <3>1 DEF RekorFinal
  <2> QED
    BY <1>1, <1>12, <1>14, <2>1 DEF RekorFinal
<1>22. BatchesStay'
  <2> SUFFICES ASSUME stream.tenant = era
               PROVE  /\ \A i \in DOMAIN Tail(roots) : \E j \in DOMAIN batches :
                           /\ batches[j].to_position = Tail(roots)[i].to_position
                           /\ Tail(roots)[i].global_root_id # Unlinked
                                => batches[j].global_root_id = Tail(roots)[i].global_root_id
                      /\ \A i \in DOMAIN file'.roots : file'.roots[i].anchors # {} =>
                           file'.roots[i].to_position \in AnchoredEnds
    BY <1>9, <1>14 DEF BatchesStay, AnchoredEnds, Receipts
  <2>1. line.anchors # {} => line.to_position \in AnchoredEnds
    <3> SUFFICES ASSUME line.anchors # {}
                 PROVE  line.to_position \in AnchoredEnds
      OBVIOUS
    <3>1. PICK r \in receipts : r.root = b.global_root_id
      BY <1>6 DEF Receipts
    <3>2. b.global_root_id # Unlinked
      <4>1. Len(globals) \in Nat /\ DOMAIN globals = 1..Len(globals)
        BY <1>1, SeqFacts DEF Shapes
      <4>2. b.global_root_id \in DOMAIN globals
        BY <1>1, <3>1 DEF TypeOK
      <4> QED
        BY <4>1, <4>2 DEF Unlinked
    <3>3. PICK j \in DOMAIN batches : /\ batches[j].to_position = b.to_position
                                      /\ batches[j].global_root_id = b.global_root_id
      BY <1>5, <3>2 DEF Speaks
    <3> QED
      BY <1>6, <3>2, <3>3 DEF AnchoredEnds
  <2>2. \A i \in DOMAIN file'.roots : file'.roots[i].anchors # {} =>
          file'.roots[i].to_position \in AnchoredEnds
    BY <1>1, <1>12, <2>1 DEF BatchesStay
  <2> QED
    BY <1>5, <2>2 DEF Speaks
<1> QED
  BY <1>2, <1>15, <1>16, <1>17, <1>18, <1>19, <1>20, <1>21, <1>22, ExportStep

-------------------------------------------------------------------------------
(* The invariant, and what follows from it.                                *)

LEMMA InitInv == Init => ExportInv
<1> SUFFICES ASSUME Init
             PROVE  ExportInv
  OBVIOUS
<1>1. /\ era = 0 /\ chain = <<>> /\ payload = {} /\ silent = {} /\ batches = <<>> /\ globals = <<>>
      /\ receipts = {} /\ appended = 0 /\ faults = 0
  BY DEF Init
<1>2. /\ stream = [at |-> "none", tenant |-> 0, from |-> 0, to |-> 0,
                   rows |-> <<>>, roots |-> <<>>, quiet |-> TRUE]
      /\ file = [manifest |-> <<>>, events |-> <<>>, roots |-> <<>>, torn |-> FALSE]
  BY DEF Init, NoStream, NoLines
<1>3. /\ stream.at = "none" /\ stream.tenant = 0 /\ stream.from = 0 /\ stream.to = 0
      /\ stream.rows = <<>> /\ stream.roots = <<>> /\ stream.quiet = TRUE
      /\ file.manifest = <<>> /\ file.events = <<>> /\ file.roots = <<>> /\ file.torn = FALSE
  BY <1>2
<1>4. /\ IsSeq(chain) /\ DOMAIN chain = {} /\ IsSeq(batches) /\ DOMAIN batches = {}
      /\ IsSeq(globals)
  <2>1. IsSeq(chain) /\ IsSeq(batches) /\ IsSeq(globals)
    BY <1>1, NothingIsSeq
  <2> QED
    BY <1>1, <2>1
<1>5. /\ IsSeq(stream.rows) /\ IsSeq(stream.roots) /\ IsSeq(file.events) /\ IsSeq(file.roots)
      /\ DOMAIN stream.rows = {} /\ DOMAIN stream.roots = {}
      /\ DOMAIN file.events = {} /\ DOMAIN file.roots = {}
  <2>1. IsSeq(stream.rows) /\ IsSeq(stream.roots)
    BY <1>3, NothingIsSeq
  <2>2. IsSeq(file.events) /\ IsSeq(file.roots)
    BY <1>3, NothingIsSeq
  <2> QED
    BY <1>3, <2>1, <2>2
<1>6. TypeOK
  <2>1. era \in 0..MaxResets /\ appended \in 0..MaxEvents /\ faults \in 0..MaxFaults
    BY <1>1, ConstantsAssumption
  <2>2. /\ payload \subseteq 0..HeadPosition /\ silent \subseteq 0..HeadPosition
        /\ receipts \subseteq [root: DOMAIN globals, kind: {"rekor", "ots"},
                                status: {"pending", "final"}]
    BY <1>1
  <2>3. /\ \A i \in DOMAIN chain : chain[i].position = i - 1 /\ chain[i].id = <<era, i - 1>>
        /\ \A i \in DOMAIN batches : batches[i].global_root_id \in 0..Len(globals)
    BY <1>4
  <2>4. /\ stream.at \in {"none", "manifest", "events", "roots", "done", "lost"}
        /\ stream.tenant \in 0..era /\ stream.from \in Nat /\ stream.to \in Int
        /\ stream.quiet \in BOOLEAN
    <3>1. stream.at \in {"none", "manifest", "events", "roots", "done", "lost"}
      BY <1>3
    <3>2. 0 \in Nat /\ 0 \in Int /\ 0 \in 0..0
      OBVIOUS
    <3>3. stream.tenant \in 0..era
      BY ONLY <1>1, <1>3, <3>2
    <3>4. stream.from \in Nat /\ stream.to \in Int /\ stream.quiet \in BOOLEAN
      BY ONLY <1>3, <3>2
    <3> QED
      BY <3>1, <3>3, <3>4
  <2>5. Len(file.manifest) = 0 /\ file.torn \in BOOLEAN
    BY <1>3
  <2>6. Len(file.manifest) = (IF stream.at = "none" THEN 0 ELSE 1) /\ file.torn \in BOOLEAN
    BY <1>3, <2>5
  <2> QED
    BY <2>1, <2>2, <2>3, <2>4, <2>6 DEF TypeOK
<1>7. Shapes
  BY <1>2, <1>3, <1>4, <1>5
  DEF Shapes, StreamIsRecord, FileIsRecord, BatchesShape, RootsShape
<1>8. EventsFirst
  BY <1>3 DEF EventsFirst
<1>9. LinkedCover /\ RowsOfChain /\ RootsCoverFile /\ LinesBacked /\ BatchesStay
  BY <1>4, <1>5 DEF LinkedCover, RowsOfChain, RootsCoverFile, LinesBacked, BatchesStay
<1>10. RekorFinal
  BY <1>1, <1>5 DEF RekorFinal
<1> QED
  BY <1>6, <1>7, <1>8, <1>9, <1>10 DEF ExportInv

LEMMA StepInv == ExportInv /\ [Next]_vars => ExportInv'
<1> SUFFICES ASSUME ExportInv, [Next]_vars
             PROVE  ExportInv'
  OBVIOUS
<1>1. CASE Database
  BY <1>1, DatabaseInv
<1>2. CASE Anchoring
  BY <1>2, AnchoringInv
<1>3. CASE Export
  <2>1. CASE \E r \in Requests : StartExport(r[1], r[2])
    <3>1. PICK r \in Requests : StartExport(r[1], r[2])
      BY <2>1
    <3>2. r[1] \in Nat /\ r[2] \in Int
      BY ConstantsAssumption
    <3> QED
      BY <3>1, <3>2, StartExportInv
  <2> QED
    BY <1>3, <2>1, PullEventInv, PullRootInv, EndExportInv, LoseConnectionInv DEF Export
<1>4. CASE UNCHANGED vars
  <2>1. RekorFinal
    BY DEF ExportInv
  <2>2. /\ UNCHANGED <<database, globals, appended, faults, stream, file>>
        /\ receipts' = receipts
    BY <1>4 DEF vars, registry
  <2>3. ReceiptsKept
    BY <2>1, <2>2 DEF ReceiptsKept, RekorFinal
  <2>4. TypeOK
    BY DEF ExportInv
  <2> QED
    BY <2>2, <2>3, <2>4, ReceiptStep DEF TypeOK
<1> QED
  BY <1>1, <1>2, <1>3, <1>4 DEF Next

(* Whatever is exported, appended, erased, rooted, reset or lost, and in   *)
(* which order, the parts of a response fit together as ExportInv says.    *)
THEOREM ExportInvariant == Spec => []ExportInv
<1>1. Init => ExportInv
  BY InitInv
<1>2. ExportInv /\ [Next]_vars => ExportInv'
  BY StepInv
<1> QED
  BY <1>1, <1>2, PTL DEF Spec

(* Every variable keeps its type: positions have no gap, payloads are of   *)
(* events that are there, links lead to global roots of the registry.      *)
THEOREM TypeCorrect == Spec => []TypeOK
<1>1. ExportInv => TypeOK
  BY DEF ExportInv
<1> QED
  BY <1>1, ExportInvariant, PTL

(* A file that verifyExport calls VALID holds only events a public log has *)
(* confirmed to hold, though resets, ticks and erasures ran between its    *)
(* lines and its database may be gone.                                     *)
THEOREM ValidIsAlwaysPublished == Spec => []ValidMeansPublished
<1>1. ExportInv => ValidMeansPublished
  BY ValidIsPublished
<1> QED
  BY <1>1, ExportInvariant, PTL

(* A file cut short by the connection or by a reset is never taken for the *)
(* range its manifest announces (checkChain).                              *)
THEOREM ShortIsAlwaysRejected == Spec => []ShortFileRejected
<1>1. ExportInv => ShortFileRejected
  BY ShortIsRejected
<1> QED
  BY <1>1, ExportInvariant, PTL

(* What verifyExport calls VALID the server's lastAnchoredPosition covers. *)
THEOREM VerdictsAlwaysAgree == Spec => []VerdictsAgree
<1>1. ExportInv => VerdictsAgree
  BY ValidIsAnchored
<1> QED
  BY <1>1, ExportInvariant, PTL

-------------------------------------------------------------------------------
(* The second invariant: what the chain and its batches are made of.       *)

(* Every row commits to the one before. *)
ChainLinked ==
  \A i \in DOMAIN chain :
    /\ chain[i].prev_hash = PrevHash(i - 1)
    /\ chain[i].event_hash = EventHash(chain[i])
    /\ chain[i].payload_commit = Commit(chain[i].id, chain[i].data)

(* A batch is the root of its events, and its paths lead where they claim. *)
IsBuilt(b) ==
  /\ b.from_position \in 0..b.to_position
  /\ b.tenant_root = TreeRoot(Hashes(b.from_position, b.to_position))
  /\ VerifyProof(b.tenant_root, b.path_to_project, b.project_root)
IsLinked(b) ==
  b.global_root_id # Unlinked =>
    /\ VerifyProof(b.project_root, b.path_to_global, b.global_root)
    /\ b.global_root = globals[b.global_root_id].root
BatchesBuilt == \A i \in DOMAIN batches : IsBuilt(batches[i]) /\ IsLinked(batches[i])

(* No event up to the last root is without a batch. *)
BatchesCover ==
  \A p \in 0..RootedThrough : \E i \in DOMAIN batches :
    p \in batches[i].from_position..batches[i].to_position

ProofInv == ExportInv /\ ChainLinked /\ BatchesBuilt /\ BatchesCover

LEMMA HashesFacts ==
  ASSUME NEW from \in Nat, NEW to \in Nat, from <= to
  PROVE  /\ IsSeq(Hashes(from, to)) /\ Len(Hashes(from, to)) = to - from + 1
         /\ \A i \in 1..(to - from + 1) : Hashes(from, to)[i] = chain[from + i].event_hash
<1> DEFINE n == to - from + 1
           f == [i \in 1..n |-> chain[from + i].event_hash]
           S == {chain[from + i].event_hash : i \in 1..n}
<1>1. n \in Nat
  OBVIOUS
<1>2. Hashes(from, to) = f
  BY DEF Hashes
<1>3. f \in [1..n -> S] /\ DOMAIN f = 1..n /\ \A i \in 1..n : f[i] = chain[from + i].event_hash
  OBVIOUS
<1> HIDE DEF n, f, S
<1>4. IsSeq(f)
  <2>1. n \in Int
    BY <1>1
  <2> QED
    BY <1>3, <2>1, FunctionSeq
<1>5. Len(f) = n
  BY <1>1, <1>3, <1>4, SeqFacts, SameLength
<1> QED
  BY <1>2, <1>3, <1>4, <1>5 DEF n

LEMMA RangeVerifies ==
  ASSUME ProofInv, NEW from \in 0..HeadPosition, NEW to \in 0..HeadPosition, from <= to
  PROVE  VerifyRange(from, to)
<1> DEFINE rows == SubSeq(chain, from + 1, to + 1)
           n == to - from + 1
<1>1. /\ TypeOK /\ Shapes /\ ChainLinked /\ BatchesBuilt
      /\ IsSeq(chain) /\ Len(chain) \in Nat /\ DOMAIN chain = 1..Len(chain)
      /\ from + 1 \in 1..Len(chain) /\ to + 1 \in 1..Len(chain) /\ HeadPosition = Len(chain) - 1
  BY SeqFacts DEF ProofInv, ExportInv, Shapes, HeadPosition
<1>2. PrevExists(from)
  BY <1>1 DEF PrevExists
<1>3. n \in Nat /\ n > 0 /\ (to + 1) - (from + 1) + 1 = n
  BY <1>1
<1>4. /\ rows \in Seq(Range(chain)) /\ Len(rows) = n
      /\ \A i \in 1..n : rows[i] = chain[from + i]
  <2>1. \A i \in (from + 1)..(to + 1) : chain[i] \in Range(chain)
    BY <1>1 DEF Range
  <2> DEFINE a == from + 1
             z == to + 1
             s == SubSeq(chain, a, z)
  <2>2. a \in Int /\ z \in Int /\ a <= z /\ z - a + 1 = n /\ \A i \in a..z : chain[i] \in Range(chain)
    BY <1>1, <2>1
  <2> HIDE DEF a, z, s
  <2>3. /\ s \in Seq(Range(chain)) /\ Len(s) = z - a + 1
        /\ \A i \in 1..(z - a + 1) : s[i] = chain[a + i - 1]
    BY <2>2, SubSeqProperties DEF s
  <2>4. \A i \in 1..n : a + i - 1 = from + i
    BY <1>1 DEF a
  <2> QED
    BY <2>2, <2>3, <2>4 DEF s, a, z
<1>5. DOMAIN rows = 1..n
  BY <1>4
<1> HIDE DEF rows, n
<1>6. VerifyChain(rows, PrevHash(from))
  <2> SUFFICES ASSUME NEW i \in 1..n
               PROVE  /\ rows[i].position = rows[1].position + i - 1
                      /\ rows[i].prev_hash = IF i = 1 THEN PrevHash(from) ELSE rows[i - 1].event_hash
                      /\ rows[i].event_hash = EventHash(rows[i])
    BY <1>5 DEF VerifyChain
  <2>1. /\ from + i \in DOMAIN chain /\ from + 1 \in DOMAIN chain /\ 1 \in 1..n
        /\ rows[i] = chain[from + i] /\ rows[1] = chain[from + 1]
    BY <1>1, <1>3, <1>4 DEF n
  <2>2. chain[from + i].position = from + i - 1 /\ chain[from + 1].position = from
    <3>1. \A k \in DOMAIN chain : chain[k].position = k - 1
      BY <1>1 DEF TypeOK
    <3>2. chain[from + i].position = from + i - 1 /\ chain[from + 1].position = from + 1 - 1
      BY <2>1, <3>1
    <3>3. from + 1 - 1 = from
      BY <1>1
    <3> QED
      BY <3>2, <3>3
  <2>3. chain[from + i].prev_hash = PrevHash(from + i - 1) /\ chain[from + i].event_hash = EventHash(chain[from + i])
    BY <1>1, <2>1 DEF ChainLinked
  <2>4. CASE i = 1
    <3>1. from + i - 1 = from
      BY <1>1, <2>4
    <3> QED
      BY <1>1, <2>1, <2>2, <2>3, <2>4, <3>1
  <2>5. CASE i # 1
    <3>1. i - 1 \in 1..n /\ from + (i - 1) = from + i - 1 /\ from + i - 1 # 0
      BY <1>1, <1>3, <2>5
    <3>2. rows[i - 1] = chain[from + i - 1]
      BY <1>4, <3>1
    <3>3. PrevHash(from + i - 1) = chain[from + i - 1].event_hash
      BY <3>1 DEF PrevHash
    <3>4. from + i - 1 = from + i - 1 /\ from + (i - 1) = rows[1].position + i - 1
      BY <1>1, <2>1, <2>2, <3>1
    <3> QED
      BY <2>1, <2>2, <2>3, <2>5, <3>1, <3>2, <3>3, <3>4
  <2> QED
    BY <2>4, <2>5
<1>7. to = HeadPosition =>
        HeadHash = IF rows = <<>> THEN PrevHash(from) ELSE rows[Len(rows)].event_hash
  <2> SUFFICES ASSUME to = HeadPosition
               PROVE  HeadHash = IF rows = <<>> THEN PrevHash(from) ELSE rows[Len(rows)].event_hash
    OBVIOUS
  <2>1. n \in 1..n /\ from + n = Len(chain)
    BY <1>1, <1>3 DEF n
  <2>2. rows[Len(rows)] = chain[Len(chain)]
    BY <1>4, <2>1
  <2>3. rows # <<>> /\ chain # <<>>
    BY <1>1, <1>3, <1>4
  <2> QED
    BY <2>2, <2>3 DEF HeadHash
<1>8. VerifyPayloads(from, to)
  <2> SUFFICES ASSUME NEW p \in payload, p \in from..to
               PROVE  chain[p + 1].payload_commit = Commit(chain[p + 1].id, chain[p + 1].data)
    BY DEF VerifyPayloads
  <2>1. p + 1 \in DOMAIN chain
    BY <1>1
  <2> QED
    BY <1>1, <2>1 DEF ChainLinked
<1>9. VerifyRoots(from, to)
  <2> SUFFICES ASSUME NEW i \in DOMAIN Overlapping(from, to)
               PROVE  LET b == Overlapping(from, to)[i]
                      IN /\ b.to_position <= HeadPosition
                         /\ TreeRoot(Hashes(b.from_position, b.to_position)) = b.tenant_root
                         /\ VerifyProof(b.tenant_root, b.path_to_project, b.project_root)
                         /\ b.global_root_id # Unlinked =>
                              /\ VerifyProof(b.project_root, b.path_to_global, b.global_root)
                              /\ RegistryRoot(b.global_root_id) = b.global_root
    BY DEF VerifyRoots
  <2>1. PICK j \in DOMAIN batches : Overlapping(from, to)[i] = batches[j]
    BY <1>1, OverlappingRows
  <2> DEFINE b == batches[j]
  <2>2. IsBatch(b) /\ b.to_position <= HeadPosition /\ IsBuilt(b) /\ IsLinked(b)
    BY <1>1 DEF Shapes, BatchesShape, BatchesBuilt
  <2>3. b.global_root_id # Unlinked => b.global_root_id \in DOMAIN globals
    <3>1. b.global_root_id \in 0..Len(globals) /\ DOMAIN globals = 1..Len(globals) /\ Len(globals) \in Nat
      BY <1>1, <2>2, SeqFacts DEF Shapes, IsBatch
    <3> QED
      BY <3>1 DEF Unlinked
  <2> HIDE DEF b
  <2>4. b.global_root_id # Unlinked => RegistryRoot(b.global_root_id) = b.global_root
    BY <2>2, <2>3 DEF RegistryRoot, IsLinked
  <2> QED
    BY <2>1, <2>2, <2>4 DEF b, IsBuilt, IsLinked
<1> QED
  BY <1>2, <1>6, <1>7, <1>8, <1>9 DEF VerifyRange, rows

LEMMA ProofsHold ==
  ASSUME ProofInv, NEW p \in 0..RootedThrough, BatchOf(p).global_root_id # Unlinked
  PROVE  EventProofHolds(p)
<1> DEFINE b == BatchOf(p)
<1>1. b \in {batches[i] : i \in DOMAIN batches} /\ b.from_position <= p /\ p <= b.to_position
  <2>1. PICK i \in DOMAIN batches : p \in batches[i].from_position..batches[i].to_position
    BY DEF ProofInv, BatchesCover
  <2>2. batches[i].from_position <= p /\ p <= batches[i].to_position
    BY <2>1
  <2>3. \E c \in {batches[k] : k \in DOMAIN batches} : c.from_position <= p /\ p <= c.to_position
    BY <2>2
  <2> QED
    BY <2>3 DEF BatchOf
<1>2. PICK i \in DOMAIN batches : b = batches[i]
  BY <1>1
<1>3. IsBuilt(b) /\ IsLinked(b) /\ b.global_root_id # Unlinked
  BY <1>2 DEF ProofInv, BatchesBuilt
<1>4. b.from_position \in Nat /\ b.to_position \in Nat /\ p \in Nat
  BY <1>2 DEF ProofInv, ExportInv, Shapes, BatchesShape, IsBatch, HasRange
<1> DEFINE from == b.from_position
           to == b.to_position
           leaves == Hashes(from, to)
           index == p - from
<1>5. from \in Nat /\ to \in Nat /\ from <= p /\ p <= to /\ from <= to
  BY <1>1, <1>4
<1>6. b.tenant_root = TreeRoot(leaves)
  BY <1>3 DEF IsBuilt
<1> HIDE DEF b, from, to
<1>7. IsSeq(leaves) /\ Len(leaves) = to - from + 1
  BY <1>4, <1>5, HashesFacts
<1>8. leaves[index + 1] = chain[p + 1].event_hash
  <2>1. index + 1 \in 1..(to - from + 1) /\ from + (index + 1) = p + 1
    BY <1>4, <1>5
  <2>2. leaves[index + 1] = chain[from + (index + 1)].event_hash
    BY <1>4, <1>5, <2>1, HashesFacts
  <2> QED
    BY <2>1, <2>2
<1>9. VerifyProof(chain[p + 1].event_hash, ProofFor(leaves, p - from), b.tenant_root)
  <2>1. leaves \in Seq(Range(leaves)) /\ index \in 0..(Len(leaves) - 1)
    BY <1>4, <1>5, <1>7 DEF IsSeq
  <2>2. VerifyProof(leaves[index + 1], ProofFor(leaves, index), TreeRoot(leaves))
    <3> HIDE DEF leaves, index
    <3> QED
      BY <2>1, PathsLeadToRoot
  <2> QED
    BY <1>6, <1>8, <2>2
<1> QED
  BY <1>3, <1>9 DEF EventProofHolds, IsBuilt, IsLinked, b, from, to

LEMMA AnswersHold == ProofInv => ServerAnswersHold
BY RangeVerifies, ProofsHold DEF ServerAnswersHold

-------------------------------------------------------------------------------
(* Steps that leave the chain and its batches alone.                       *)

LEMMA LinkCarries ==
  ASSUME NEW b, IsBatch(b), IsLinked(b), IsSeq(globals), GlobalsKept
  PROVE  IsLinked(b)'
<1>1. b.global_root_id # Unlinked => b.global_root_id \in DOMAIN globals
  <2>1. b.global_root_id \in 0..Len(globals) /\ DOMAIN globals = 1..Len(globals) /\ Len(globals) \in Nat
    BY SeqFacts DEF IsBatch
  <2> QED
    BY <2>1 DEF Unlinked
<1> QED
  BY <1>1 DEF IsLinked, GlobalsKept

LEMMA QuietStep ==
  ASSUME ProofInv, ExportInv', chain' = chain, batches' = batches, GlobalsKept
  PROVE  ProofInv'
<1>1. ChainLinked /\ BatchesBuilt /\ BatchesCover /\ IsSeq(globals) /\ BatchesShape
  BY DEF ProofInv, ExportInv, Shapes
<1>2. ChainLinked'
  BY <1>1 DEF ChainLinked, PrevHash
<1>3. BatchesBuilt'
  <2> SUFFICES ASSUME NEW i \in DOMAIN batches
               PROVE  IsBuilt(batches[i])' /\ IsLinked(batches[i])'
    BY DEF BatchesBuilt
  <2>1. IsBatch(batches[i]) /\ IsBuilt(batches[i]) /\ IsLinked(batches[i])
    BY <1>1 DEF BatchesBuilt, BatchesShape
  <2>2. IsBuilt(batches[i])'
    BY <2>1 DEF IsBuilt, Hashes
  <2> DEFINE b == batches[i]
  <2>3. b' = b
    OBVIOUS
  <2>4. PICK c : c = b
    OBVIOUS
  <2>5. IsLinked(c)'
    BY <1>1, <2>1, <2>4, LinkCarries
  <2> QED
    BY <2>2, <2>3, <2>4, <2>5 DEF IsLinked
<1>4. BatchesCover'
  BY <1>1 DEF BatchesCover, RootedThrough
<1> QED
  BY <1>2, <1>3, <1>4 DEF ProofInv

-------------------------------------------------------------------------------
(* An event more.                                                          *)

LEMMA HashesKept ==
  ASSUME IsSeq(chain), ChainKept, NEW from \in Nat, NEW to \in Nat, to <= HeadPosition
  PROVE  Hashes(from, to)' = Hashes(from, to)
<1>1. Len(chain) \in Nat /\ DOMAIN chain = 1..Len(chain) /\ to <= Len(chain) - 1
  BY SeqFacts DEF HeadPosition
<1>2. \A i \in 1..(to - from + 1) : chain'[from + i] = chain[from + i]
  <2> TAKE i \in 1..(to - from + 1)
  <2>1. from + i \in DOMAIN chain
    BY <1>1
  <2> QED
    BY <2>1 DEF ChainKept
<1> QED
  BY <1>2 DEF Hashes

LEMMA EventProofStep ==
  ASSUME ProofInv, ExportInv', NEW action, NEW target, NEW data,
         AppendEvent(action, target, data), UNCHANGED <<era, batches, registry>>
  PROVE  ProofInv'
<1>1. /\ ChainLinked /\ BatchesBuilt /\ BatchesCover /\ TypeOK /\ Shapes /\ BatchesShape
      /\ IsSeq(chain) /\ IsSeq(globals)
      /\ Len(chain) \in Nat /\ DOMAIN chain = 1..Len(chain)
  BY SeqFacts DEF ProofInv, ExportInv, Shapes
<1>2. era' = era /\ batches' = batches /\ globals' = globals
  BY DEF registry
<1>3. ChainKept
  BY <1>1, <1>2, AppendKeeps
<1> DEFINE row == NewRow(action, target, data)
           n == Len(chain)
<1>4. /\ row.prev_hash = HeadHash /\ row.event_hash = EventHash(row)
      /\ row.payload_commit = Commit(row.id, row.data)
  BY DEF NewRow, EventHash
<1>5. chain' = Append(chain, row)
  BY DEF AppendEvent
<1> HIDE DEF row
<1>6. /\ DOMAIN chain' = 1..(n + 1) /\ chain'[n + 1] = row
      /\ \A i \in 1..n : chain'[i] = chain[i]
  BY <1>1, <1>5, AppendSeq
<1>7. HeadHash = IF n = 0 THEN GENESIS ELSE chain[n].event_hash
  <2>1. chain = <<>> <=> n = 0
    BY <1>1 DEF IsSeq
  <2> QED
    BY <2>1 DEF HeadHash
<1> HIDE DEF n
<1>8. ChainLinked'
  <2> SUFFICES ASSUME NEW i \in 1..(n + 1)
               PROVE  /\ chain'[i].prev_hash = IF i - 1 = 0 THEN GENESIS ELSE chain'[i - 1].event_hash
                      /\ chain'[i].event_hash = EventHash(chain'[i])
                      /\ chain'[i].payload_commit = Commit(chain'[i].id, chain'[i].data)
    BY <1>6 DEF ChainLinked, PrevHash
  <2>0. n \in Nat
    BY <1>1 DEF n
  <2>1. CASE i \in 1..n
    <3>1. chain'[i] = chain[i] /\ (i - 1 # 0 => chain'[i - 1] = chain[i - 1])
      BY <1>6, <2>0, <2>1
    <3>2. i \in DOMAIN chain
      BY <1>1, <2>1 DEF n
    <3> QED
      BY <1>1, <3>1, <3>2 DEF ChainLinked, PrevHash
  <2>2. CASE i = n + 1
    <3>1. i - 1 = n /\ chain'[i] = row
      BY <1>6, <2>0, <2>2
    <3>2. n # 0 => chain'[n] = chain[n]
      BY <1>6, <2>0
    <3> QED
      BY <1>4, <1>7, <3>1, <3>2
  <2> QED
    BY <2>0, <2>1, <2>2
<1>9. BatchesBuilt'
  <2> SUFFICES ASSUME NEW i \in DOMAIN batches
               PROVE  IsBuilt(batches[i])' /\ IsLinked(batches[i])'
    BY <1>2 DEF BatchesBuilt
  <2>1. /\ IsBuilt(batches[i]) /\ IsLinked(batches[i])
        /\ HasRange(batches[i]) /\ batches[i].to_position <= HeadPosition
    BY <1>1 DEF BatchesBuilt, BatchesShape, IsBatch
  <2>2. PICK b : b = batches[i]
    OBVIOUS
  <2>3. Hashes(b.from_position, b.to_position)' = Hashes(b.from_position, b.to_position)
    BY <1>1, <1>3, <2>1, <2>2, HashesKept DEF HasRange
  <2>4. IsBuilt(b)'
    BY <2>1, <2>2, <2>3 DEF IsBuilt
  <2>5. b = batches'[i]
    BY <1>2, <2>2
  <2> QED
    BY <1>2, <2>1, <2>2, <2>4, <2>5 DEF IsBuilt, IsLinked
<1>10. BatchesCover'
  BY <1>1, <1>2 DEF BatchesCover, RootedThrough
<1> QED
  BY <1>8, <1>9, <1>10 DEF ProofInv

LEMMA ResetProofStep == ProofInv /\ ResetProject /\ ExportInv' => ProofInv'
<1> SUFFICES ASSUME ProofInv, ResetProject, ExportInv'
             PROVE  ProofInv'
  OBVIOUS
<1>1. chain' = <<>> /\ batches' = <<>>
  BY DEF ResetProject
<1>2. DOMAIN chain' = {} /\ DOMAIN batches' = {}
  BY <1>1, NothingIsSeq
<1>3. RootedThrough' = -1
  BY <1>1 DEF RootedThrough
<1>4. ChainLinked' /\ BatchesBuilt'
  BY <1>2 DEF ChainLinked, BatchesBuilt
<1>5. BatchesCover'
  BY <1>3 DEF BatchesCover
<1> QED
  BY <1>4, <1>5 DEF ProofInv

-------------------------------------------------------------------------------
(* A batch more.                                                           *)

LEMMA EndsAreNumbers ==
  ASSUME Shapes
  PROVE  RootedThrough \in Int /\ HeadPosition \in Int
<1>1. IsSeq(batches) /\ Len(batches) \in Nat /\ DOMAIN batches = 1..Len(batches)
  BY SeqFacts DEF Shapes
<1>2. HeadPosition \in Int
  BY SeqFacts DEF Shapes, HeadPosition
<1>3. CASE batches = <<>>
  BY <1>2, <1>3 DEF RootedThrough
<1>4. CASE batches # <<>>
  <2>1. Len(batches) \in DOMAIN batches
    BY <1>1, <1>4 DEF IsSeq
  <2>2. batches[Len(batches)].to_position \in Nat
    BY <2>1 DEF Shapes, BatchesShape, IsBatch, HasRange
  <2> QED
    BY <1>2, <1>4, <2>2 DEF RootedThrough
<1> QED
  BY <1>3, <1>4

LEMMA NewBatchIsBuilt ==
  ASSUME TypeOK, Shapes, RootedThrough < HeadPosition
  PROVE  IsBuilt(NewBatch) /\ NewBatch.global_root_id = Unlinked
<1> DEFINE from == RootedThrough + 1
           root == TreeRoot(Hashes(from, HeadPosition))
           other == <<"other", Len(globals)>>
           leaves == <<other, root>>
<1>1. /\ NewBatch.from_position = from /\ NewBatch.to_position = HeadPosition
      /\ NewBatch.tenant_root = root /\ NewBatch.path_to_project = ProofFor(leaves, Len(leaves) - 1)
      /\ NewBatch.project_root = TreeRoot(leaves) /\ NewBatch.global_root_id = Unlinked
  BY DEF NewBatch
<1>2. PICK all : all = Append(batches, NewBatch)
  OBVIOUS
<1>3. NewBatch.from_position \in Nat /\ NewBatch.to_position \in Nat
  <2>1. \A i \in DOMAIN all : IsBatch(all[i])
    BY <1>2, WithNewBatch
  <2>2. IsSeq(batches)
    BY DEF Shapes
  <2>3. Len(batches) + 1 \in DOMAIN all /\ all[Len(batches) + 1] = NewBatch
    <3>1. /\ DOMAIN Append(batches, NewBatch) = 1..(Len(batches) + 1) /\ Len(batches) \in Nat
          /\ Append(batches, NewBatch)[Len(batches) + 1] = NewBatch
      BY <2>2, AppendSeq, SeqFacts
    <3> QED
      BY <1>2, <3>1
  <2> QED
    BY <2>1, <2>3 DEF IsBatch, HasRange
<1>4. NewBatch.from_position \in 0..NewBatch.to_position
  <2>1. RootedThrough \in Int /\ HeadPosition \in Int
    BY EndsAreNumbers
  <2>2. from \in Nat /\ HeadPosition \in Nat /\ from <= HeadPosition
    BY <1>1, <1>3, <2>1
  <2> QED
    BY <1>1, <2>2
<1>5. VerifyProof(root, ProofFor(leaves, Len(leaves) - 1), TreeRoot(leaves))
  <2> HIDE DEF root, other
  <2>1. leaves \in Seq({other, root}) /\ Len(leaves) = 2 /\ leaves[2] = root
    OBVIOUS
  <2>2. Len(leaves) - 1 \in 0..(Len(leaves) - 1) /\ Len(leaves) - 1 + 1 = 2
    BY <2>1
  <2> HIDE DEF leaves
  <2>3. VerifyProof(leaves[Len(leaves) - 1 + 1], ProofFor(leaves, Len(leaves) - 1), TreeRoot(leaves))
    BY <2>1, <2>2, PathsLeadToRoot
  <2> QED
    BY <2>1, <2>2, <2>3
<1> QED
  BY <1>1, <1>4, <1>5 DEF IsBuilt

(* With the new batch every event is in one. *)
LEMMA AllCovered ==
  ASSUME ProofInv, RootedThrough < HeadPosition, NEW all, all = Append(batches, NewBatch)
  PROVE  \A p \in 0..HeadPosition : \E i \in DOMAIN all :
           p \in all[i].from_position..all[i].to_position
<1>1. IsSeq(batches) /\ Len(batches) \in Nat /\ DOMAIN batches = 1..Len(batches) /\ BatchesCover
  BY SeqFacts DEF ProofInv, ExportInv, Shapes
<1>2. /\ DOMAIN all = 1..(Len(batches) + 1) /\ all[Len(batches) + 1] = NewBatch
      /\ \A i \in DOMAIN batches : all[i] = batches[i]
  BY <1>1, AppendSeq
<1>3. NewBatch.from_position = RootedThrough + 1 /\ NewBatch.to_position = HeadPosition
  BY DEF NewBatch
<1>4. RootedThrough \in Int /\ HeadPosition \in Int
  BY EndsAreNumbers DEF ProofInv, ExportInv
<1> TAKE p \in 0..HeadPosition
<1>5. CASE p <= RootedThrough
  <2>1. p \in 0..RootedThrough
    BY <1>4, <1>5
  <2>2. PICK i \in DOMAIN batches : p \in batches[i].from_position..batches[i].to_position
    BY <1>1, <2>1 DEF BatchesCover
  <2>3. i \in DOMAIN all /\ all[i] = batches[i]
    BY <1>1, <1>2
  <2> QED
    BY <2>2, <2>3
<1>6. CASE ~(p <= RootedThrough)
  <2>1. p \in (RootedThrough + 1)..HeadPosition
    BY <1>4, <1>6
  <2>2. Len(batches) + 1 \in DOMAIN all
    BY <1>1, <1>2
  <2> QED
    BY <1>2, <1>3, <2>1, <2>2
<1> QED
  BY <1>5, <1>6

LEMMA LastTo ==
  ASSUME TypeOK, Shapes, RootedThrough < HeadPosition, NEW all, all = Append(batches, NewBatch)
  PROVE  all # <<>> /\ Len(all) \in DOMAIN all /\ all[Len(all)].to_position = HeadPosition
<1>1. IsSeq(batches) /\ Len(batches) \in Nat
  BY SeqFacts DEF Shapes
<1>2. /\ DOMAIN all = 1..(Len(batches) + 1) /\ all[Len(batches) + 1] = NewBatch
      /\ Len(all) = Len(batches) + 1
  BY <1>1, AppendSeq
<1>3. NewBatch.to_position = HeadPosition
  BY DEF NewBatch
<1>4. all # <<>>
  BY <1>1, <1>2, NothingIsSeq
<1> QED
  BY <1>1, <1>2, <1>3, <1>4

LEMMA TickCutOffProofStep == ProofInv /\ TickCutOff /\ ExportInv' => ProofInv'
<1> SUFFICES ASSUME ProofInv, TickCutOff, ExportInv'
             PROVE  ProofInv'
  OBVIOUS
<1> DEFINE all == Append(batches, NewBatch)
<1>1. /\ ChainLinked /\ BatchesBuilt /\ TypeOK /\ Shapes /\ BatchesShape
      /\ IsSeq(batches) /\ Len(batches) \in Nat /\ DOMAIN batches = 1..Len(batches)
  BY SeqFacts DEF ProofInv, ExportInv, Shapes
<1>2. /\ chain' = chain /\ globals' = globals /\ batches' = all /\ RootedThrough < HeadPosition
  BY DEF TickCutOff, registry
<1>3. /\ DOMAIN all = 1..(Len(batches) + 1) /\ all[Len(batches) + 1] = NewBatch
      /\ \A i \in DOMAIN batches : all[i] = batches[i]
  BY <1>1, AppendSeq
<1>4. IsBuilt(NewBatch) /\ NewBatch.global_root_id = Unlinked
  BY <1>1, <1>2, NewBatchIsBuilt
<1>5. \A p \in 0..HeadPosition : \E i \in DOMAIN all : p \in all[i].from_position..all[i].to_position
  BY <1>2, AllCovered
<1>6. all # <<>> /\ all[Len(all)].to_position = HeadPosition
  BY <1>1, <1>2, LastTo
<1> HIDE DEF all
<1>7. ChainLinked'
  BY <1>1, <1>2 DEF ChainLinked, PrevHash
<1>8. BatchesBuilt'
  <2>1. \A i \in DOMAIN all : IsBuilt(all[i]) /\ IsLinked(all[i])
    <3> TAKE i \in DOMAIN all
    <3>1. CASE i \in DOMAIN batches
      BY <1>1, <1>3, <3>1 DEF BatchesBuilt
    <3>2. CASE i \notin DOMAIN batches
      <4>1. all[i] = NewBatch
        BY <1>1, <1>3, <3>2
      <4> QED
        BY <1>4, <4>1 DEF IsLinked
    <3> QED
      BY <3>1, <3>2
  <2>2. ASSUME NEW b, IsBuilt(b), IsLinked(b)
        PROVE  IsBuilt(b)' /\ IsLinked(b)'
    BY <1>2, <2>2 DEF IsBuilt, IsLinked, Hashes
  <2> QED
    BY <1>2, <2>1, <2>2 DEF BatchesBuilt
<1>9. BatchesCover'
  <2>1. RootedThrough' = HeadPosition
    BY <1>2, <1>6 DEF RootedThrough
  <2> QED
    BY <1>2, <1>5, <2>1 DEF BatchesCover
<1> QED
  BY <1>7, <1>8, <1>9 DEF ProofInv

-------------------------------------------------------------------------------
(* The global tree of a tick.                                              *)

IsJoin(u, s, t) ==
  /\ IsSeq(u) /\ Len(u) = Len(s) + Len(t)
  /\ \A i \in DOMAIN s : u[i] = s[i]
  /\ \A i \in DOMAIN t : u[Len(s) + i] = t[i]

LEMMA ConcatSeq ==
  ASSUME NEW s, IsSeq(s), NEW t, IsSeq(t)
  PROVE  IsJoin(s \o t, s, t)
<1> DEFINE S == Range(s) \cup Range(t)
<1>1. Len(s) \in Nat /\ DOMAIN s = 1..Len(s) /\ Len(t) \in Nat /\ DOMAIN t = 1..Len(t)
  BY SeqFacts
<1>2. s \in Seq(Range(s)) /\ t \in Seq(Range(t))
  BY DEF IsSeq
<1>3. s \in Seq(S) /\ t \in Seq(S)
  BY <1>2
<1> HIDE DEF S
<1>4. /\ s \o t \in Seq(S) /\ Len(s \o t) = Len(s) + Len(t)
      /\ \A i \in 1..(Len(s) + Len(t)) :
           (s \o t)[i] = IF i <= Len(s) THEN s[i] ELSE t[i - Len(s)]
  BY <1>3, ConcatProperties
<1>5. IsSeq(s \o t)
  BY <1>4, SeqIntro
<1>6. \A i \in DOMAIN s : (s \o t)[i] = s[i]
  BY <1>1, <1>4
<1>7. \A i \in DOMAIN t : (s \o t)[Len(s) + i] = t[i]
  <2> TAKE i \in DOMAIN t
  <2> DEFINE n == Len(s)
             at == n + i
  <2>1. at \in 1..(Len(s) + Len(t)) /\ ~(at <= Len(s)) /\ at - Len(s) = i
    BY <1>1
  <2> HIDE DEF at
  <2>2. (s \o t)[at] = t[i]
    BY <1>4, <2>1
  <2> QED
    BY <2>2 DEF at
<1> DEFINE u == s \o t
<1>8. /\ IsSeq(u) /\ Len(u) = Len(s) + Len(t)
      /\ \A i \in DOMAIN s : u[i] = s[i]
      /\ \A i \in DOMAIN t : u[Len(s) + i] = t[i]
  BY <1>4, <1>5, <1>6, <1>7
<1> HIDE DEF u
<1>9. IsJoin(u, s, t)
  BY <1>8 DEF IsJoin
<1> QED
  BY <1>9 DEF u

IsScan(g, k) ==
  g = [i \in 0..k |->
         IF i = 0 THEN <<>>
         ELSE IF batches[i].global_root_id = Unlinked THEN Append(g[i - 1], i) ELSE g[i - 1]]

LEMMA ScanUpTo ==
  ASSUME NEW k \in Nat
  PROVE  \E g : IsScan(g, k)
<1> DEFINE More(s, i) == IF batches[i].global_root_id = Unlinked THEN Append(s, i) ELSE s
           S == {n \in Nat : \E g : IsScan(g, n)}
<1>1. 0 \in S
  <2> DEFINE g == [n \in 0..0 |-> <<>>]
  <2>1. IsScan(g, 0)
    BY DEF IsScan
  <2> QED
    BY <2>1
<1>2. ASSUME NEW n \in 1..k, n - 1 \in S
      PROVE  n \in S
  <2>1. PICK g : IsScan(g, n - 1)
    BY <1>2
  <2> DEFINE h == [m \in 0..n |-> IF m = n THEN More(g[n - 1], n) ELSE g[m]]
  <2>2. \A m \in 0..n : h[m] = IF m = 0 THEN <<>> ELSE More(h[m - 1], m)
    <3> SUFFICES ASSUME NEW m \in 0..n
                 PROVE  h[m] = IF m = 0 THEN <<>> ELSE More(h[m - 1], m)
      OBVIOUS
    <3> HIDE DEF More
    <3>1. CASE m = n
      BY <3>1
    <3>2. CASE m # n
      <4>1. m \in 0..(n - 1)
        BY <3>2
      <4>2. g[m] = IF m = 0 THEN <<>> ELSE More(g[m - 1], m)
        BY <2>1, <4>1 DEF IsScan, More
      <4>3. h[m] = g[m] /\ (m # 0 => h[m - 1] = g[m - 1])
        BY <3>2, <4>1
      <4> QED
        BY <4>2, <4>3
    <3> QED
      BY <3>1, <3>2
  <2>3. h = [m \in 0..n |-> IF m = 0 THEN <<>> ELSE More(h[m - 1], m)]
    <3> HIDE DEF More
    <3> QED
      BY <2>2
  <2>4. IsScan(h, n)
    BY <2>3 DEF IsScan
  <2> QED
    BY <2>4
<1>3. 0..k \subseteq S
  <2> HIDE DEF S
  <2> QED
    BY <1>1, <1>2, UpTo
<1> QED
  BY <1>3

(* The scan for unlinked project roots misses none.                        *)
LEMMA DanglingFacts ==
  ASSUME IsSeq(batches)
  PROVE  /\ IsSeq(Dangling)
         /\ \A b \in DOMAIN batches : batches[b].global_root_id = Unlinked =>
              \E i \in DOMAIN Dangling : Dangling[i] = b
<1> DEFINE k == Len(batches)
           g == CHOOSE h : h = [i \in 0..k |->
                  IF i = 0 THEN <<>>
                  ELSE IF batches[i].global_root_id = Unlinked THEN Append(h[i - 1], i) ELSE h[i - 1]]
           Open(b) == batches[b].global_root_id = Unlinked
           Found(s, b) == \E i \in DOMAIN s : s[i] = b
           S == {n \in 0..k : IsSeq(g[n]) /\ \A b \in 1..n : Open(b) => Found(g[n], b)}
<1>1. k \in Nat /\ DOMAIN batches = 1..k
  BY SeqFacts
<1>2. Dangling = g[k]
  BY DEF Dangling
<1>3. IsScan(g, k)
  <2> HIDE DEF k
  <2>1. \E h : IsScan(h, k)
    BY <1>1, ScanUpTo
  <2> QED
    BY <2>1 DEF IsScan
<1> HIDE DEF g, k
<1>4. g[0] = <<>> /\ \A n \in 1..k : g[n] = IF Open(n) THEN Append(g[n - 1], n) ELSE g[n - 1]
  <2> DEFINE More(s, i) == IF Open(i) THEN Append(s, i) ELSE s
  <2>1. g = [i \in 0..k |-> IF i = 0 THEN <<>> ELSE More(g[i - 1], i)]
    BY <1>3 DEF IsScan
  <2> HIDE DEF More
  <2>2. g[0] = <<>> /\ \A n \in 1..k : g[n] = More(g[n - 1], n)
    BY <1>1, <2>1
  <2> QED
    BY <2>2 DEF More
<1>5. 0 \in S
  <2>1. IsSeq(g[0])
    BY <1>4, NothingIsSeq
  <2> QED
    BY <1>1, <2>1
<1>6. ASSUME NEW n \in 1..k, n - 1 \in S
      PROVE  n \in S
  <2> DEFINE s == g[n - 1]
  <2>1. IsSeq(s) /\ \A b \in 1..(n - 1) : Open(b) => Found(s, b)
    BY <1>6
  <2>2. g[n] = IF Open(n) THEN Append(s, n) ELSE s
    BY <1>4
  <2> HIDE DEF s, Open
  <2>3. \A b \in 1..n : b = n \/ b \in 1..(n - 1)
    BY <1>1
  <2>4. CASE Open(n)
    <3>1. /\ IsSeq(g[n]) /\ DOMAIN g[n] = 1..(Len(s) + 1) /\ g[n][Len(s) + 1] = n
          /\ \A i \in DOMAIN s : g[n][i] = s[i]
      BY <2>1, <2>2, <2>4, AppendSeq
    <3>2. Len(s) \in Nat /\ DOMAIN s = 1..Len(s)
      BY <2>1, SeqFacts
    <3>3. \A i \in DOMAIN s : i \in DOMAIN g[n]
      BY <3>1, <3>2
    <3>4. \A b \in 1..(n - 1) : Open(b) => Found(g[n], b)
      BY <2>1, <3>1, <3>3
    <3>5. Found(g[n], n)
      BY <3>1, <3>2
    <3> QED
      BY <2>3, <3>1, <3>4, <3>5
  <2>5. CASE ~Open(n)
    BY <2>1, <2>2, <2>3, <2>5
  <2> QED
    BY <2>4, <2>5
<1>7. 0..k \subseteq S
  <2> HIDE DEF S
  <2> QED
    BY <1>1, <1>5, <1>6, UpTo
<1>8. k \in S
  BY <1>1, <1>7
<1> QED
  BY <1>1, <1>2, <1>8

(* The path a tick stores with a project root leads to the global root.    *)
LEMMA GlobalPathLeads ==
  ASSUME IsSeq(batches), NEW all, all = Append(batches, NewBatch), NEW b \in ToLink(all)
  PROVE  VerifyProof(all[b].project_root, PathToGlobal(all, b), TreeRoot(GlobalLeaves(all)))
<1> DEFINE new == <<Len(all)>>
           rooted == new \o Dangling
           prev == IF globals = <<>> THEN GENESIS ELSE globals[Len(globals)].root
           first == <<prev, <<"other", Len(globals)>>>>
           roots == [i \in DOMAIN rooted |-> all[rooted[i]].project_root]
           leaves == first \o roots
           i == CHOOSE i \in DOMAIN rooted : rooted[i] = b
<1>1. GlobalLeaves(all) = leaves /\ PathToGlobal(all, b) = ProofFor(leaves, 1 + i)
  BY DEF GlobalLeaves, PathToGlobal
<1>2. /\ Len(batches) \in Nat /\ DOMAIN batches = 1..Len(batches)
      /\ Len(all) = Len(batches) + 1 /\ DOMAIN all = 1..(Len(batches) + 1)
      /\ \A c \in DOMAIN batches : all[c] = batches[c]
  BY AppendSeq, SeqFacts
<1>3. IsSeq(Dangling) /\ \A c \in DOMAIN batches : batches[c].global_root_id = Unlinked =>
                           \E j \in DOMAIN Dangling : Dangling[j] = c
  BY DanglingFacts
<1>4. IsSeq(new) /\ Len(new) = 1 /\ 1 \in DOMAIN new /\ new[1] = Len(all)
  <2> DEFINE n == Len(all)
             s == <<n>>
  <2>1. s \in Seq({n}) /\ Len(s) = 1 /\ 1 \in DOMAIN s /\ s[1] = n
    OBVIOUS
  <2> HIDE DEF s, n
  <2>2. IsSeq(s)
    BY <2>1, SeqIntro
  <2> QED
    BY <2>1, <2>2 DEF s, n
<1> HIDE DEF new
<1>5. /\ IsSeq(rooted) /\ Len(rooted) = 1 + Len(Dangling) /\ rooted[1] = Len(all)
      /\ \A j \in DOMAIN Dangling : rooted[1 + j] = Dangling[j]
  <2>1. IsJoin(rooted, new, Dangling)
    BY <1>3, <1>4, ConcatSeq
  <2> HIDE DEF rooted
  <2> QED
    BY <1>4, <2>1 DEF IsJoin
<1> HIDE DEF rooted
<1>6. /\ Len(rooted) \in Nat /\ DOMAIN rooted = 1..Len(rooted)
      /\ Len(Dangling) \in Nat /\ DOMAIN Dangling = 1..Len(Dangling)
  BY <1>3, <1>5, SeqFacts
<1>7. \E j \in DOMAIN rooted : rooted[j] = b
  <2>1. b \in DOMAIN all /\ all[b].global_root_id = Unlinked
    BY DEF ToLink
  <2>2. CASE b = Len(all)
    BY <1>5, <1>6, <2>2
  <2>3. CASE b # Len(all)
    <3>1. b \in DOMAIN batches /\ batches[b].global_root_id = Unlinked
      BY <1>2, <2>1, <2>3
    <3>2. PICK j \in DOMAIN Dangling : Dangling[j] = b
      BY <1>3, <3>1
    <3>3. 1 + j \in DOMAIN rooted
      BY <1>5, <1>6
    <3> QED
      BY <1>5, <3>2, <3>3
  <2> QED
    BY <2>2, <2>3
<1>8. i \in DOMAIN rooted /\ rooted[i] = b
  BY <1>7
<1> HIDE DEF i
<1>9. IsSeq(roots) /\ DOMAIN roots = DOMAIN rooted /\ roots[i] = all[b].project_root
  <2> DEFINE n == Len(rooted)
             S == {all[rooted[j]].project_root : j \in 1..n}
  <2>1. n \in Int /\ DOMAIN rooted = 1..n
    BY <1>6
  <2>2. roots \in [1..n -> S] /\ DOMAIN roots = 1..n
    BY <2>1
  <2>3. roots[i] = all[b].project_root
    BY <1>8
  <2> HIDE DEF n, S, roots
  <2>4. IsSeq(roots)
    BY <2>1, <2>2, FunctionSeq
  <2> QED
    BY <2>1, <2>2, <2>3, <2>4
<1>10. Len(roots) = Len(rooted)
  <2>1. Len(roots) \in Nat /\ 1..Len(roots) = 1..Len(rooted)
    BY <1>6, <1>9, SeqFacts
  <2> QED
    BY <1>6, <2>1, SameLength
<1>11. IsSeq(first) /\ Len(first) = 2
  <2> DEFINE other == <<"other", Len(globals)>>
             s == <<prev, other>>
  <2> HIDE DEF prev, other
  <2>1. s \in Seq({prev, other}) /\ Len(s) = 2
    OBVIOUS
  <2> HIDE DEF s
  <2>2. IsSeq(s)
    BY <2>1, SeqIntro
  <2> QED
    BY <2>1, <2>2 DEF s, prev, other
<1> HIDE DEF first, roots
<1>12. /\ IsSeq(leaves) /\ Len(leaves) = 2 + Len(roots)
       /\ \A j \in DOMAIN roots : leaves[2 + j] = roots[j]
  <2>1. IsJoin(leaves, first, roots)
    BY <1>9, <1>11, ConcatSeq
  <2> HIDE DEF leaves
  <2> QED
    BY <1>11, <2>1 DEF IsJoin
<1> HIDE DEF leaves
<1> DEFINE index == 1 + i
<1>13. /\ leaves \in Seq(Range(leaves)) /\ index \in 0..(Len(leaves) - 1)
       /\ leaves[index + 1] = all[b].project_root
  <2>1. index + 1 = 2 + i /\ i \in DOMAIN roots
    BY <1>6, <1>8, <1>9
  <2>2. index \in 0..(Len(leaves) - 1)
    BY <1>6, <1>8, <1>10, <1>12
  <2> HIDE DEF index
  <2> QED
    BY <1>9, <1>12, <2>1, <2>2 DEF IsSeq
<1> HIDE DEF index
<1>14. VerifyProof(leaves[index + 1], ProofFor(leaves, index), TreeRoot(leaves))
  BY <1>13, PathsLeadToRoot
<1> QED
  BY <1>1, <1>13, <1>14 DEF index

LEMMA TickProofStep == ProofInv /\ Tick /\ ExportInv' => ProofInv'
<1> SUFFICES ASSUME ProofInv, Tick, ExportInv'
             PROVE  ProofInv'
  OBVIOUS
<1> DEFINE all == Append(batches, NewBatch)
           hash == TreeRoot(GlobalLeaves(all))
           root == [root |-> hash, covers |-> {chain[p + 1].event_hash : p \in Covered(all)}]
           Linked(b) == [all[b] EXCEPT !.global_root_id = Len(globals) + 1, !.global_root = hash,
                                       !.path_to_global = PathToGlobal(all, b)]
           next == [b \in DOMAIN all |-> IF b \notin ToLink(all) THEN all[b] ELSE Linked(b)]
<1>1. /\ ChainLinked /\ BatchesBuilt /\ TypeOK /\ Shapes /\ IsSeq(globals)
      /\ IsSeq(batches) /\ Len(batches) \in Nat /\ DOMAIN batches = 1..Len(batches)
  BY SeqFacts DEF ProofInv, ExportInv, Shapes
<1>2. /\ chain' = chain /\ RootedThrough < HeadPosition
      /\ globals' = Append(globals, root) /\ batches' = next
  BY Zenon DEF Tick
<1>3. /\ DOMAIN all = 1..(Len(batches) + 1) /\ all[Len(batches) + 1] = NewBatch
      /\ IsSeq(all) /\ \A i \in DOMAIN batches : all[i] = batches[i]
  BY <1>1, AppendSeq
<1>4. \A i \in DOMAIN all : IsBatch(all[i])
  BY <1>1, <1>2, WithNewBatch
<1>5. IsBuilt(NewBatch) /\ NewBatch.global_root_id = Unlinked
  BY <1>1, <1>2, NewBatchIsBuilt
<1>6. \A p \in 0..HeadPosition : \E i \in DOMAIN all : p \in all[i].from_position..all[i].to_position
  BY <1>2, AllCovered
<1>7. all # <<>> /\ Len(all) \in DOMAIN all /\ all[Len(all)].to_position = HeadPosition
  BY <1>1, <1>2, LastTo
<1>8. \A i \in ToLink(all) :
        VerifyProof(all[i].project_root, PathToGlobal(all, i), hash)
  BY <1>1, GlobalPathLeads
<1>9. \A i \in DOMAIN all :
        /\ Linked(i).global_root_id = Len(globals) + 1 /\ Linked(i).global_root = hash
        /\ Linked(i).path_to_global = PathToGlobal(all, i)
        /\ Linked(i).from_position = all[i].from_position
        /\ Linked(i).to_position = all[i].to_position
        /\ Linked(i).tenant_root = all[i].tenant_root
        /\ Linked(i).path_to_project = all[i].path_to_project
        /\ Linked(i).project_root = all[i].project_root
  <2> TAKE i \in DOMAIN all
  <2>1. HasColumns(all[i])
    BY <1>4 DEF IsBatch
  <2> DEFINE b == all[i]
             path == PathToGlobal(all, i)
             c == Linked(i)
             id == Len(globals) + 1
  <2>2. c = [b EXCEPT !.global_root_id = id, !.global_root = hash, !.path_to_global = path]
    OBVIOUS
  <2>3. HasColumns(b)
    BY <2>1
  <2> HIDE DEF all, hash, b, path, c, id, Linked
  <2>4. /\ c.global_root_id = id /\ c.global_root = hash /\ c.path_to_global = path
        /\ c.from_position = b.from_position /\ c.to_position = b.to_position
        /\ c.tenant_root = b.tenant_root /\ c.path_to_project = b.path_to_project
        /\ c.project_root = b.project_root
    BY <2>2, <2>3 DEF HasColumns
  <2> QED
    BY <2>4 DEF b, c, id, path
<1>10. \A i \in DOMAIN all : IsBuilt(all[i]) /\ IsLinked(all[i])
  <2> TAKE i \in DOMAIN all
  <2> HIDE DEF all
  <2>1. CASE i \in DOMAIN batches
    BY <1>1, <1>3, <2>1 DEF BatchesBuilt
  <2>2. CASE i \notin DOMAIN batches
    <3>1. all[i] = NewBatch
      BY <1>1, <1>3, <2>2
    <3> QED
      BY <1>5, <3>1 DEF IsLinked
  <2> QED
    BY <2>1, <2>2
<1>11. /\ DOMAIN batches' = DOMAIN all
       /\ \A i \in DOMAIN all : batches'[i] = IF i \notin ToLink(all) THEN all[i] ELSE Linked(i)
  BY <1>2
<1>12. root.root = hash
  OBVIOUS
<1> DEFINE links == ToLink(all)
<1>13. batches' = <<>> => all = <<>>
  <2>1. batches' = <<>> => DOMAIN batches' = {}
    BY NothingIsSeq
  <2> QED
    BY <1>7, <1>11, <2>1
<1>14. Len(batches') = Len(all)
  <2>1. IsSeq(batches')
    BY DEF ExportInv, Shapes
  <2>2. Len(batches') \in Nat /\ DOMAIN batches' = 1..Len(batches')
    BY <2>1, SeqFacts
  <2>3. Len(all) \in Nat /\ DOMAIN all = 1..Len(all)
    BY <1>3, SeqFacts
  <2> QED
    BY <1>11, <2>2, <2>3, SameLength
<1> HIDE DEF all, hash, root, Linked, next, links
<1>15. /\ Len(globals) \in Nat /\ DOMAIN globals = 1..Len(globals)
       /\ globals'[Len(globals) + 1] = root
       /\ \A g \in DOMAIN globals : g \in DOMAIN globals' /\ globals'[g] = globals[g]
  <2>1. Len(globals) \in Nat /\ DOMAIN globals = 1..Len(globals)
    BY <1>1, SeqFacts
  <2>2. /\ DOMAIN globals' = 1..(Len(globals) + 1) /\ globals'[Len(globals) + 1] = root
        /\ \A g \in DOMAIN globals : globals'[g] = globals[g]
    BY <1>1, <1>2, AppendSeq
  <2> QED
    BY <2>1, <2>2
<1>16. GlobalsKept
  BY <1>15 DEF GlobalsKept
<1>17. ChainLinked'
  BY <1>1, <1>2 DEF ChainLinked, PrevHash
<1>18. \A i \in DOMAIN all : /\ batches'[i].from_position = all[i].from_position
                             /\ batches'[i].to_position = all[i].to_position
  BY <1>9, <1>11
<1>19. BatchesBuilt'
  <2>1. \A from, to : Hashes(from, to)' = Hashes(from, to)
    BY <1>2 DEF Hashes
  <2> SUFFICES ASSUME NEW i \in DOMAIN all
               PROVE  IsBuilt(batches[i])' /\ IsLinked(batches[i])'
    BY <1>11 DEF BatchesBuilt
  <2>2. PICK b : b = all[i]
    OBVIOUS
  <2>3. IsBatch(b) /\ IsBuilt(b) /\ IsLinked(b)
    BY <1>4, <1>10, <2>2
  <2>4. CASE i \in links
    <3>1. /\ batches'[i].global_root_id = Len(globals) + 1 /\ batches'[i].global_root = hash
          /\ batches'[i].path_to_global = PathToGlobal(all, i)
          /\ batches'[i].from_position = b.from_position /\ batches'[i].to_position = b.to_position
          /\ batches'[i].tenant_root = b.tenant_root
          /\ batches'[i].path_to_project = b.path_to_project
          /\ batches'[i].project_root = b.project_root
      BY <1>9, <1>11, <2>2, <2>4 DEF links
    <3>2. VerifyProof(b.project_root, PathToGlobal(all, i), hash)
      BY <1>8, <2>2, <2>4 DEF links
    <3>3. IsBuilt(batches[i])'
      BY <2>1, <2>3, <3>1 DEF IsBuilt
    <3>4. IsLinked(batches[i])'
      BY <1>12, <1>15, <3>1, <3>2 DEF IsLinked
    <3> QED
      BY <3>3, <3>4
  <2>5. CASE i \notin links
    <3>1. batches'[i] = b
      BY <1>11, <2>2, <2>5 DEF links
    <3>2. IsLinked(b)'
      BY <1>1, <1>16, <2>3, LinkCarries
    <3>3. IsBuilt(b)'
      BY <2>1, <2>3 DEF IsBuilt
    <3> QED
      BY <3>1, <3>2, <3>3 DEF IsBuilt, IsLinked
  <2> QED
    BY <2>4, <2>5
<1>20. BatchesCover'
  <2>1. RootedThrough' = HeadPosition
    BY <1>7, <1>13, <1>14, <1>18 DEF RootedThrough
  <2>2. \A p \in 0..HeadPosition : \E i \in DOMAIN batches' :
          p \in batches'[i].from_position..batches'[i].to_position
    BY <1>6, <1>11, <1>18
  <2> QED
    BY <2>1, <2>2 DEF BatchesCover
<1> QED
  BY <1>17, <1>19, <1>20 DEF ProofInv

-------------------------------------------------------------------------------
LEMMA InitProof == Init => ProofInv
<1> SUFFICES ASSUME Init
             PROVE  ProofInv
  OBVIOUS
<1>1. ExportInv
  BY InitInv
<1>2. chain = <<>> /\ batches = <<>>
  BY DEF Init
<1>3. DOMAIN chain = {} /\ DOMAIN batches = {}
  BY <1>2, NothingIsSeq
<1>4. RootedThrough = -1
  BY <1>2 DEF RootedThrough
<1> QED
  BY <1>1, <1>3, <1>4 DEF ProofInv, ChainLinked, BatchesBuilt, BatchesCover

LEMMA StepProof == ProofInv /\ [Next]_vars => ProofInv'
<1> SUFFICES ASSUME ProofInv, [Next]_vars
             PROVE  ProofInv'
  OBVIOUS
<1>1. ExportInv /\ RekorFinal /\ IsSeq(globals)
  BY DEF ProofInv, ExportInv, Shapes
<1>2. ExportInv'
  BY <1>1, StepInv
<1>3. ASSUME globals' = globals
      PROVE  GlobalsKept
  BY <1>3 DEF GlobalsKept
<1>4. CASE chain' = chain /\ batches' = batches /\ globals' = globals
  BY <1>2, <1>3, <1>4, QuietStep
<1>5. CASE Database
  <2>1. CASE Ingest
    BY <1>2, <2>1, EventProofStep DEF Ingest
  <2>2. CASE ResetProject
    BY <1>2, <2>2, ResetProofStep
  <2>3. ASSUME NEW p \in 0..HeadPosition, Erase(p)
        PROVE  ProofInv'
    BY <1>2, <2>3, EventProofStep DEF Erase
  <2>4. ASSUME NEW p \in 0..HeadPosition, ApplyRetention(p)
        PROVE  ProofInv'
    BY <1>2, <2>4, EventProofStep DEF ApplyRetention
  <2>5. ASSUME NEW p \in 0..HeadPosition, ShredUnrecorded(p)
        PROVE  ProofInv'
    BY <1>4, <2>5 DEF ShredUnrecorded, registry
  <2> QED
    BY <1>5, <2>1, <2>2, <2>3, <2>4, <2>5 DEF Database
<1>6. CASE Anchoring
  <2>1. ASSUME NEW g \in 1..MaxTicks, UpgradeReceipt(g) \/ \E k \in Kinds : RecordReceipt(g, k)
        PROVE  chain' = chain /\ batches' = batches /\ globals' = globals
    BY <2>1 DEF UpgradeReceipt, RecordReceipt, database
  <2> QED
    BY <1>2, <1>4, <1>6, <2>1, TickProofStep, TickCutOffProofStep DEF Anchoring
<1>7. CASE Export
  <2>1. UNCHANGED <<database, registry>>
    BY <1>7 DEF Export, StartExport, PullEvent, PullRoot, EndExport, LoseConnection
  <2> QED
    BY <1>4, <2>1 DEF database, registry
<1>8. CASE UNCHANGED vars
  BY <1>4, <1>8 DEF vars, database, registry
<1> QED
  BY <1>5, <1>6, <1>7, <1>8 DEF Next

(* At any moment the rows are chained, each batch is the root of its       *)
(* events, its stored paths lead where they claim, and no event up to the  *)
(* last root is without a batch.                                           *)
THEOREM ProofInvariant == Spec => []ProofInv
<1>1. Init => ProofInv
  BY InitProof
<1>2. ProofInv /\ [Next]_vars => ProofInv'
  BY StepProof
<1> QED
  BY <1>1, <1>2, PTL DEF Spec

(* The server's verify and proof answers hold at any moment, for every     *)
(* range and every event under a linked root (verifyRange, verifyRoots and *)
(* proofForEvent), whatever the sizes of the trees.                        *)
THEOREM AnswersAlwaysHold == Spec => []ServerAnswersHold
<1>1. ProofInv => ServerAnswersHold
  BY AnswersHold
<1> QED
  BY <1>1, ProofInvariant, PTL

-------------------------------------------------------------------------------
(* The third invariant: what an honest file is made of.                    *)

(* The batches of a tenant follow one another. *)
BatchesOrdered ==
  \A i, j \in DOMAIN batches : i < j => batches[i].to_position < batches[j].from_position

(* No root is the empty string. *)
RootsProper == \A g \in DOMAIN globals : globals[g].root # NoHash

(* A payload that is gone is explained by a later record, unless the run   *)
(* that deleted it left none.  The record may itself have been erased, but *)
(* not without a record that names it, or have gone silently.              *)
Named(i) == \E j \in DOMAIN chain : chain[j].target = chain[i].id
Explains(i, p) ==
  /\ i - 1 > p
  /\ \/ chain[i].action = "payload.erased" /\ chain[i].target = chain[p + 1].id
     \/ /\ chain[i].action = "payload.retention_shred" /\ chain[i].data >= p
        /\ i - 1 \in payload \/ i - 1 \in silent \/ Named(i)
LossesExplained ==
  \A p \in 0..HeadPosition : p \notin payload /\ p \notin silent
    => \E i \in DOMAIN chain : Explains(i, p)

(* An export nothing has disturbed, of a range that exists. *)
Honest ==
  /\ stream.quiet /\ stream.at \in {"manifest", "events", "roots", "done"}
  /\ manifest.requested_from <= manifest.requested_to

(* The manifest says what the stream was started with. *)
ManifestSays ==
  /\ stream.tenant = era /\ ~file.torn
  /\ manifest.tenant_id = era
  /\ manifest.from_position = stream.from /\ manifest.to_position = stream.to
  /\ manifest.prev_hash = PrevHash(stream.from) /\ manifest.server_public_key = ServerKey

(* The range is of whole batches. *)
Touches(b, from, to) == b.to_position >= from /\ b.from_position <= to
Inside(b) == stream.from <= b.from_position /\ b.to_position <= stream.to
RangeIsWhole ==
  /\ stream.from <= stream.to /\ stream.to <= HeadPosition
  /\ \A i \in DOMAIN batches : Touches(batches[i], stream.from, stream.to) => Inside(batches[i])

(* The event lines, sent and held, are the rows of the range, in order. *)
IsLine(e, p) ==
  LET row == chain[p + 1]
  IN /\ p \in 0..HeadPosition
     /\ e.tenant_id = era /\ e.id = row.id /\ e.position = p
     /\ e.action = row.action /\ e.target = row.target
     /\ e.payload_commit = row.payload_commit /\ e.prev_hash = row.prev_hash
     /\ e.event_hash = row.event_hash /\ e.server_sig = Sign(ServerKey, row.event_hash)
     /\ e.payload = IF p \in payload THEN <<[salt |-> row.id, data |-> row.data]>> ELSE <<>>
LinesSay ==
  stream.at # "manifest" =>
    /\ Len(file.events) + Len(stream.rows) = stream.to - stream.from + 1
    /\ \A i \in DOMAIN file.events : IsLine(file.events[i], stream.from + i - 1)
    /\ \A i \in DOMAIN stream.rows :
         IsLine(stream.rows[i], stream.from + Len(file.events) + i - 1)

(* The root lines, sent and held, are batches of the range. *)
Tells(r, b) ==
  /\ r.from_position = b.from_position /\ r.to_position = b.to_position
  /\ r.tenant_root = b.tenant_root /\ r.path_to_project = b.path_to_project
  /\ r.project_root = b.project_root /\ r.path_to_global = b.path_to_global
  /\ r.global_root = b.global_root
RootsSay ==
  /\ \A i \in DOMAIN file.roots : \E j \in DOMAIN batches :
       Inside(batches[j]) /\ Tells(file.roots[i], batches[j])
  /\ \A i \in DOMAIN stream.roots : \E j \in DOMAIN batches :
       Inside(batches[j]) /\ Tells(stream.roots[i], batches[j])

HonestStream == Honest => ManifestSays /\ RangeIsWhole /\ LinesSay /\ RootsSay

HonestInv == ProofInv /\ BatchesOrdered /\ RootsProper /\ LossesExplained /\ HonestStream

-------------------------------------------------------------------------------
(* What the verifier makes of an honest file.                              *)

LEMMA DoneFacts ==
  ASSUME HonestInv, Honest, stream.at = "done"
  PROVE  /\ TypeOK /\ Shapes /\ ChainLinked /\ BatchesBuilt /\ ManifestSays /\ RangeIsWhole
         /\ stream.from \in Nat /\ stream.to \in Nat
         /\ stream.from <= stream.to /\ stream.to <= HeadPosition
         /\ IsSeq(chain) /\ Len(chain) \in Nat /\ DOMAIN chain = 1..Len(chain)
         /\ HeadPosition = Len(chain) - 1
         /\ Len(file.events) = stream.to - stream.from + 1
         /\ DOMAIN file.events = 1..Len(file.events)
         /\ \A i \in DOMAIN file.events : IsLine(file.events[i], stream.from + i - 1)
         /\ \A i \in DOMAIN file.roots : \E j \in DOMAIN batches :
              Inside(batches[j]) /\ Tells(file.roots[i], batches[j])
<1>1. /\ TypeOK /\ Shapes /\ EventsFirst /\ ChainLinked /\ BatchesBuilt
      /\ ManifestSays /\ RangeIsWhole /\ LinesSay /\ RootsSay
  BY DEF HonestInv, HonestStream, ProofInv, ExportInv
<1>2. /\ IsSeq(chain) /\ Len(chain) \in Nat /\ DOMAIN chain = 1..Len(chain)
      /\ HeadPosition = Len(chain) - 1
      /\ Len(file.events) \in Nat /\ DOMAIN file.events = 1..Len(file.events)
  BY <1>1, SeqFacts DEF Shapes, HeadPosition
<1>3. /\ stream.from \in Nat /\ stream.to \in Int
      /\ stream.from <= stream.to /\ stream.to <= HeadPosition
  BY <1>1 DEF TypeOK, RangeIsWhole
<1>4. stream.to \in Nat
  BY <1>3
<1>5. Len(stream.rows) = 0
  <2>1. stream.rows = <<>>
    BY <1>1 DEF EventsFirst
  <2> QED
    BY <2>1
<1>6. Len(file.events) = stream.to - stream.from + 1
  <2>1. Len(file.events) + Len(stream.rows) = stream.to - stream.from + 1
    BY <1>1 DEF LinesSay
  <2> QED
    BY <1>2, <1>5, <2>1
<1>7. \A i \in DOMAIN file.events : IsLine(file.events[i], stream.from + i - 1)
  BY <1>1 DEF LinesSay
<1>8. \A i \in DOMAIN file.roots : \E j \in DOMAIN batches :
        Inside(batches[j]) /\ Tells(file.roots[i], batches[j])
  BY <1>1 DEF RootsSay
<1> QED
  BY <1>1, <1>2, <1>3, <1>4, <1>6, <1>7, <1>8

(* A line at its place. *)
LEMMA LineAt ==
  ASSUME HonestInv, Honest, stream.at = "done", NEW i \in DOMAIN file.events
  PROVE  /\ stream.from + i \in DOMAIN chain /\ i \in 1..(stream.to - stream.from + 1)
         /\ IsLine(file.events[i], stream.from + i - 1)
         /\ file.events[i].position = stream.from + i - 1
         /\ file.events[i].prev_hash = PrevHash(stream.from + i - 1)
         /\ file.events[i].event_hash = chain[stream.from + i].event_hash
         /\ file.events[i].event_hash = EventHash(file.events[i])
         /\ file.events[i].payload_commit
              = Commit(chain[stream.from + i].id, chain[stream.from + i].data)
<1> DEFINE p == stream.from + i - 1
           e == file.events[i]
<1>1. /\ ChainLinked /\ stream.from \in Nat /\ stream.to \in Nat /\ stream.to <= HeadPosition
      /\ Len(chain) \in Nat /\ DOMAIN chain = 1..Len(chain) /\ HeadPosition = Len(chain) - 1
      /\ i \in 1..(stream.to - stream.from + 1) /\ IsLine(e, p) /\ TypeOK
  BY DoneFacts
<1>2. stream.from + i \in DOMAIN chain /\ p + 1 = stream.from + i /\ (stream.from + i) - 1 = p
  BY <1>1
<1> HIDE DEF p, e
<1>3. /\ e.id = chain[p + 1].id /\ e.position = p /\ e.action = chain[p + 1].action
      /\ e.target = chain[p + 1].target /\ e.payload_commit = chain[p + 1].payload_commit
      /\ e.prev_hash = chain[p + 1].prev_hash /\ e.event_hash = chain[p + 1].event_hash
  BY <1>1 DEF IsLine
<1>4. /\ chain[p + 1].prev_hash = PrevHash((p + 1) - 1)
      /\ chain[p + 1].event_hash = EventHash(chain[p + 1])
      /\ chain[p + 1].payload_commit = Commit(chain[p + 1].id, chain[p + 1].data)
  BY <1>1, <1>2 DEF ChainLinked
<1>5. chain[p + 1].position = p
  BY <1>1, <1>2 DEF TypeOK
<1>6. e.event_hash = EventHash(e)
  BY <1>3, <1>4, <1>5 DEF EventHash
<1> QED
  BY <1>1, <1>2, <1>3, <1>4, <1>6 DEF p, e

LEMMA HonestChain ==
  ASSUME HonestInv, Honest, stream.at = "done"
  PROVE  CheckChain(manifest, file.events)
<1> DEFINE events == file.events
           from == stream.from
           n == stream.to - stream.from + 1
<1>1. /\ ManifestSays /\ from \in Nat /\ stream.to \in Nat /\ from <= stream.to
      /\ n \in Nat /\ n >= 1 /\ Len(events) = n /\ DOMAIN events = 1..n
  BY DoneFacts
<1>2. \A i \in 1..n : /\ events[i].position = from + i - 1
                      /\ events[i].prev_hash = PrevHash(from + i - 1)
                      /\ events[i].event_hash = chain[from + i].event_hash
                      /\ events[i].event_hash = EventHash(events[i])
                      /\ events[i].tenant_id = era
  <2>1. \A i \in DOMAIN events : events[i].tenant_id = era
    BY DoneFacts DEF IsLine
  <2> QED
    BY <1>1, <2>1, LineAt
<1>3. /\ manifest.from_position = from /\ manifest.to_position = stream.to
      /\ manifest.prev_hash = PrevHash(from) /\ manifest.tenant_id = era
  BY <1>1 DEF ManifestSays
<1>4. from + n - 1 = stream.to
  BY <1>1
<1> HIDE DEF events, from, n
<1>5. events # <<>> /\ 1 \in 1..n /\ n \in 1..n
  BY <1>1
<1>6. events[1].position = from /\ events[n].position = stream.to
  BY <1>1, <1>2, <1>4, <1>5
<1>7. VerifyChain(events, PrevHash(from))
  <2> SUFFICES ASSUME NEW i \in 1..n
               PROVE  /\ events[i].position = events[1].position + i - 1
                      /\ events[i].prev_hash = IF i = 1 THEN PrevHash(from) ELSE events[i - 1].event_hash
                      /\ events[i].event_hash = EventHash(events[i])
    BY <1>1 DEF VerifyChain
  <2>1. CASE i = 1
    <3>1. from + i - 1 = from
      BY <1>1, <2>1
    <3> QED
      BY <1>1, <1>2, <1>6, <2>1, <3>1
  <2>2. CASE i # 1
    <3>1. i - 1 \in 1..n /\ from + (i - 1) = from + i - 1 /\ from + i - 1 # 0
      BY <1>1, <2>2
    <3>2. PrevHash(from + i - 1) = chain[from + i - 1].event_hash
      BY <3>1 DEF PrevHash
    <3>3. events[i - 1].event_hash = chain[from + (i - 1)].event_hash
      BY <1>2, <3>1
    <3> QED
      BY <1>2, <1>6, <2>2, <3>1, <3>2, <3>3
  <2> QED
    BY <2>1, <2>2
<1>8. events[Len(events)].position = stream.to /\ \A i \in DOMAIN events : events[i].tenant_id = era
  BY <1>1, <1>2, <1>6
<1> QED
  BY <1>3, <1>5, <1>6, <1>7, <1>8 DEF CheckChain, events

LEMMA HonestSignatures ==
  ASSUME HonestInv, Honest, stream.at = "done", NEW opts \in Auditors
  PROVE  CheckSignatures(manifest, file.events, opts)
<1>1. opts.pinnedServerKey = ServerKey /\ manifest.server_public_key = ServerKey
  BY DoneFacts DEF Auditors, ManifestSays
<1>2. \A i \in DOMAIN file.events : file.events[i].server_sig = Sign(ServerKey, file.events[i].event_hash)
  BY DoneFacts DEF IsLine
<1> QED
  BY <1>1, <1>2 DEF CheckSignatures

(* The record that explains a missing payload is in the file, with its own *)
(* payload if it needs one.                                                *)
LEMMA HonestPayloads ==
  ASSUME HonestInv, Honest, stream.at = "done", RecordsExported, NoSilentLoss
  PROVE  CheckPayloads(file.events)
<1> DEFINE events == file.events
           from == stream.from
           n == stream.to - stream.from + 1
<1>1. /\ ManifestSays /\ TypeOK /\ from \in Nat /\ stream.to \in Nat /\ from <= stream.to
      /\ stream.to <= HeadPosition /\ HeadPosition = Len(chain) - 1 /\ Len(chain) \in Nat
      /\ DOMAIN chain = 1..Len(chain)
      /\ n \in Nat /\ Len(events) = n /\ DOMAIN events = 1..n
  BY DoneFacts
<1>2. \A i \in 1..n : IsLine(events[i], from + i - 1)
  BY DoneFacts
<1>3. manifest.to_position = stream.to
  BY <1>1 DEF ManifestSays
<1>4. LossesExplained /\ silent \cap (from..stream.to) = {}
  <2>1. manifest.from_position = from /\ file.manifest[1] = manifest
    BY <1>1 DEF ManifestSays, manifest
  <2> QED
    BY <1>3, <2>1 DEF HonestInv, NoSilentLoss
<1>5. \A i \in DOMAIN chain : chain[i].position = i - 1 /\ chain[i].id = <<era, i - 1>>
  BY <1>1 DEF TypeOK
<1> SUFFICES ASSUME NEW i \in 1..n
             PROVE  IF events[i].payload = <<>> THEN ErasureRecorded(events[i], events)
                    ELSE Commit(events[i].payload[1].salt, events[i].payload[1].data)
                           = events[i].payload_commit
  BY <1>1 DEF CheckPayloads
<1> DEFINE p == from + i - 1
<1>6. p \in 0..HeadPosition /\ p + 1 = from + i /\ p <= stream.to /\ p >= from
  BY <1>1
<1>7. /\ events[i].position = p /\ events[i].id = chain[p + 1].id
      /\ events[i].payload = IF p \in payload
                             THEN <<[salt |-> chain[p + 1].id, data |-> chain[p + 1].data]>> ELSE <<>>
  BY <1>2 DEF IsLine
<1>8. events[i].payload_commit = Commit(chain[p + 1].id, chain[p + 1].data)
  BY <1>1, <1>6, LineAt
<1> HIDE DEF p, events, n, from
<1>0. p \notin silent /\ \A q \in silent : ~(q >= from /\ q <= stream.to)
  <2>1. silent \subseteq 0..HeadPosition
    BY <1>1 DEF TypeOK
  <2>2. \A q \in silent : q \in Int
    BY <1>1, <2>1
  <2>3. p \in Int
    BY <1>6
  <2>4. from \in Nat /\ stream.to \in Nat
    BY <1>1
  <2> QED
    BY <1>4, <1>6, <2>2, <2>3, <2>4
<1>9. CASE p \in payload
  <2> DEFINE held == [salt |-> chain[p + 1].id, data |-> chain[p + 1].data]
  <2>1. events[i].payload = <<held>> /\ held.salt = chain[p + 1].id /\ held.data = chain[p + 1].data
    BY <1>7, <1>9
  <2> HIDE DEF held
  <2>2. events[i].payload # <<>> /\ events[i].payload[1] = held
    BY <2>1
  <2> QED
    BY <1>8, <2>1, <2>2
<1>10. CASE p \notin payload
  <2>1. PICK q \in DOMAIN chain : Explains(q, p)
    BY <1>0, <1>4, <1>6, <1>10 DEF LossesExplained
  <2>2. q - 1 > p /\ chain[q].position = q - 1 /\ chain[q].action # "app"
    BY <1>5, <2>1 DEF Explains
  <2>3. q - 1 <= stream.to
    <3>1. file.manifest[1].to_position = stream.to
      BY <1>3 DEF manifest
    <3> QED
      BY <2>2, <3>1 DEF RecordsExported
  <2> DEFINE k == q - from
             r == events[k]
  <2>4. k \in 1..n /\ from + k - 1 = q - 1 /\ (q - 1) + 1 = q
    <3> DEFINE to == stream.to
    <3>1. /\ from \in Nat /\ to \in Nat /\ p \in Int /\ q \in Int
          /\ p >= from /\ q - 1 > p /\ q - 1 <= to /\ n = to - from + 1 /\ k = q - from
      <4>1. n = to - from + 1
        BY DEF n, from
      <4>2. p \in Int /\ q \in Int
        BY <1>1, <1>6
      <4> QED
        BY <1>1, <1>6, <2>2, <2>3, <4>1, <4>2
    <3> HIDE DEF to, k
    <3> QED
      BY ONLY <3>1
  <2>5. IsLine(r, q - 1)
    BY <1>2, <2>4
  <2>6. /\ r.position = q - 1 /\ r.action = chain[q].action /\ r.target = chain[q].target
        /\ r.payload = IF q - 1 \in payload
                       THEN <<[salt |-> chain[q].id, data |-> chain[q].data]>> ELSE <<>>
    BY <2>4, <2>5 DEF IsLine
  <2> HIDE DEF k
  <2>7. CASE chain[q].action = "payload.erased" /\ chain[q].target = chain[p + 1].id
    <3>1. r.position > events[i].position /\ r.action = "payload.erased" /\ r.target = events[i].id
      BY <1>7, <2>2, <2>6, <2>7
    <3>2. ErasureRecorded(events[i], events)
      BY <1>1, <2>4, <3>1 DEF ErasureRecorded
    <3> QED
      BY <1>7, <1>10, <3>2
  <2>8. CASE ~(chain[q].action = "payload.erased" /\ chain[q].target = chain[p + 1].id)
    <3>1. chain[q].action = "payload.retention_shred" /\ chain[q].data >= p
          /\ (q - 1 \in payload \/ q - 1 \in silent \/ Named(q))
      BY <2>1, <2>8 DEF Explains
    <3>2. ~Named(q) /\ q - 1 \notin silent
      <4>1. q \in Int /\ p \in Int /\ from \in Int
        BY <1>1, <1>6
      <4>2. q - 1 >= from
        BY <1>6, <2>2, <4>1
      <4> QED
        BY <1>0, <2>3, <3>1, <4>2 DEF RecordsExported, Named
    <3> DEFINE held == [salt |-> chain[q].id, data |-> chain[q].data]
    <3>3. r.payload = <<held>> /\ held.data = chain[q].data
      BY <2>6, <3>1, <3>2
    <3> HIDE DEF held
    <3>4. r.payload # <<>> /\ r.payload[1] = held
      BY <3>3
    <3>5. /\ r.position > events[i].position /\ r.action = "payload.retention_shred"
          /\ r.payload # <<>> /\ r.payload[1].data >= events[i].position
      BY <1>7, <2>2, <2>6, <3>1, <3>3, <3>4
    <3>6. ErasureRecorded(events[i], events)
      BY <1>1, <2>4, <3>5 DEF ErasureRecorded
    <3> QED
      BY <1>7, <1>10, <3>6
  <2> QED
    BY <2>7, <2>8
<1> QED
  BY <1>9, <1>10

-------------------------------------------------------------------------------
AllLinked ==
  \A i \in DOMAIN batches : Inside(batches[i]) => batches[i].global_root_id # Unlinked

(* The lines of a batch of the range give its leaves again. *)
LEMMA HonestTree ==
  ASSUME HonestInv, Honest, stream.at = "done", NEW b, HasRange(b),
         b.from_position <= b.to_position, Inside(b)
  PROVE  /\ \A p \in b.from_position..b.to_position :
              \E i \in DOMAIN file.events : file.events[i].position = p
         /\ [k \in 1..(b.to_position - b.from_position + 1) |->
               file.events[CHOOSE i \in DOMAIN file.events :
                             file.events[i].position = b.from_position + k - 1].event_hash]
              = Hashes(b.from_position, b.to_position)
<1> DEFINE events == file.events
           from == stream.from
           to == stream.to
           n == to - from + 1
           bf == b.from_position
           bt == b.to_position
           At(p) == CHOOSE i \in DOMAIN events : events[i].position = p
<1>1. /\ from \in Nat /\ to \in Nat /\ from <= to
      /\ DOMAIN events = 1..n /\ bf \in Nat /\ bt \in Nat
      /\ from <= bf /\ bf <= bt /\ bt <= to
  BY DoneFacts DEF HasRange, Inside
<1>2. \A i \in 1..n : /\ events[i].position = from + i - 1
                      /\ events[i].event_hash = chain[from + i].event_hash
  BY <1>1, LineAt
<1> HIDE DEF events, from, to, bf, bt
<1>3. ASSUME NEW p \in bf..bt
      PROVE  \E i \in DOMAIN events : events[i].position = p
  <2>1. p - from + 1 \in 1..n /\ from + (p - from + 1) - 1 = p
    BY <1>1
  <2>2. events[p - from + 1].position = from + (p - from + 1) - 1
    BY <1>2, <2>1
  <2> QED
    BY <1>1, <2>1, <2>2
<1>4. ASSUME NEW k \in 1..(bt - bf + 1)
      PROVE  events[At(bf + k - 1)].event_hash = chain[bf + k].event_hash
  <2> DEFINE i == At(bf + k - 1)
  <2>1. bf + k - 1 \in bf..bt
    BY <1>1
  <2>2. i \in DOMAIN events /\ events[i].position = bf + k - 1
    BY <1>3, <2>1
  <2> HIDE DEF i
  <2>3. i \in 1..n /\ from + i - 1 = bf + k - 1
    BY <1>1, <1>2, <2>2
  <2>4. from + i = bf + k
    BY <1>1, <2>3
  <2>5. events[i].event_hash = chain[from + i].event_hash
    BY <1>2, <2>3
  <2> QED
    BY <2>4, <2>5 DEF i
<1>5. [k \in 1..(bt - bf + 1) |-> events[At(bf + k - 1)].event_hash] = Hashes(bf, bt)
  BY <1>4 DEF Hashes
<1> QED
  BY <1>3, <1>5 DEF events, bf, bt

LEMMA HonestRoots ==
  ASSUME HonestInv, Honest, stream.at = "done", AllLinked
  PROVE  CheckRoots(manifest, file.events, file.roots)
<1>1. /\ Shapes /\ BatchesBuilt /\ ManifestSays /\ IsSeq(file.roots)
      /\ \A i \in DOMAIN file.roots : \E j \in DOMAIN batches :
           Inside(batches[j]) /\ Tells(file.roots[i], batches[j])
  BY DoneFacts DEF Shapes
<1>2. ASSUME NEW i \in DOMAIN file.roots
      PROVE  RootOk(manifest, file.events, file.roots[i])
  <2> DEFINE r == file.roots[i]
  <2>1. PICK j \in DOMAIN batches : Inside(batches[j]) /\ Tells(r, batches[j])
    BY <1>1
  <2> DEFINE b == batches[j]
  <2>2. /\ HasRange(b) /\ IsBuilt(b) /\ IsLinked(b) /\ b.global_root_id # Unlinked
    BY <1>1, <2>1 DEF Shapes, BatchesShape, IsBatch, BatchesBuilt, AllLinked
  <2>3. Inside(b) /\ Tells(r, b)
    BY <2>1
  <2> HIDE DEF r, b
  <2>4. b.from_position <= b.to_position
    BY <2>2 DEF IsBuilt, HasRange
  <2>5. /\ \A p \in b.from_position..b.to_position :
             \E k \in DOMAIN file.events : file.events[k].position = p
        /\ [k \in 1..(b.to_position - b.from_position + 1) |->
              file.events[CHOOSE h \in DOMAIN file.events :
                            file.events[h].position = b.from_position + k - 1].event_hash]
             = Hashes(b.from_position, b.to_position)
    BY <2>2, <2>3, <2>4, HonestTree
  <2>6. manifest.from_position <= b.from_position /\ b.to_position <= manifest.to_position
    BY <1>1, <2>3 DEF ManifestSays, Inside
  <2>7. /\ b.tenant_root = TreeRoot(Hashes(b.from_position, b.to_position))
        /\ VerifyProof(b.tenant_root, b.path_to_project, b.project_root)
        /\ VerifyProof(b.project_root, b.path_to_global, b.global_root)
    BY <2>2 DEF IsBuilt, IsLinked
  <2>8. RootOk(manifest, file.events, r)
    BY <2>3, <2>5, <2>6, <2>7 DEF RootOk, Tells
  <2> QED
    BY <2>8 DEF r
<1>3. \A i \in DOMAIN file.roots : \A j \in 1..i : j \in DOMAIN file.roots
  BY <1>1, SeqFacts
<1> QED
  BY <1>2, <1>3 DEF CheckRoots, Rebuilt

LEMMA NotEmpty == \A h : IsHash(h) => h # NoHash
BY DEF IsHash, LeafHash, NodeHash, NoHash

LEMMA HonestShape ==
  ASSUME HonestInv, Honest, stream.at = "done", AllLinked
  PROVE  ManifestOk(file)
<1>1. /\ TypeOK /\ Shapes /\ ChainLinked /\ BatchesBuilt /\ ManifestSays /\ RangeIsWhole
      /\ stream.from \in Nat /\ stream.to \in Nat
      /\ stream.from <= stream.to /\ stream.to <= HeadPosition
      /\ DOMAIN chain = 1..Len(chain) /\ Len(chain) \in Nat /\ HeadPosition = Len(chain) - 1
      /\ \A i \in DOMAIN file.roots : \E j \in DOMAIN batches :
           Inside(batches[j]) /\ Tells(file.roots[i], batches[j])
      /\ RootsProper
  BY DoneFacts DEF HonestInv
<1>2. ~file.torn /\ Len(file.manifest) = 1
  BY <1>1 DEF ManifestSays, TypeOK
<1>3. /\ manifest.from_position \in Nat /\ manifest.to_position \in Nat
      /\ manifest.from_position <= manifest.to_position
  BY <1>1 DEF ManifestSays
<1>4. manifest.prev_hash # NoHash
  <2>1. PrevHash(stream.from) # NoHash
    <3>1. CASE stream.from = 0
      BY <3>1 DEF PrevHash, GENESIS, NoHash
    <3>2. CASE stream.from # 0
      <4>1. stream.from \in DOMAIN chain
        BY <1>1, <3>2
      <4>2. PrevHash(stream.from) = EventHash(chain[stream.from])
        BY <1>1, <3>2, <4>1 DEF PrevHash, ChainLinked
      <4> QED
        BY <4>2 DEF EventHash, NoHash
    <3> QED
      BY <3>1, <3>2
  <2> QED
    BY <1>1, <2>1 DEF ManifestSays
<1>5. ASSUME NEW i \in DOMAIN file.roots
      PROVE  /\ file.roots[i].global_root # NoHash
             /\ file.roots[i].from_position <= file.roots[i].to_position
  <2> DEFINE r == file.roots[i]
  <2>1. PICK j \in DOMAIN batches : Inside(batches[j]) /\ Tells(r, batches[j])
    BY <1>1
  <2> DEFINE b == batches[j]
  <2>2. /\ IsBatch(b) /\ IsBuilt(b) /\ IsLinked(b) /\ b.global_root_id # Unlinked
    BY <1>1, <2>1 DEF Shapes, BatchesShape, BatchesBuilt, AllLinked
  <2>3. Tells(r, b)
    BY <2>1
  <2> HIDE DEF r, b
  <2>4. b.from_position <= b.to_position
    BY <2>2 DEF IsBuilt, IsBatch, HasRange
  <2>5. b.global_root_id \in DOMAIN globals
    <3>1. b.global_root_id \in 0..Len(globals) /\ DOMAIN globals = 1..Len(globals) /\ Len(globals) \in Nat
      BY <1>1, <2>2, SeqFacts DEF Shapes, IsBatch
    <3> QED
      BY <2>2, <3>1 DEF Unlinked
  <2>6. b.global_root # NoHash
    BY <1>1, <2>2, <2>5 DEF IsLinked, RootsProper
  <2> QED
    BY <2>3, <2>4, <2>6 DEF Tells, r
<1>6. file.manifest[1] = manifest
  BY DEF manifest
<1> QED
  BY <1>2, <1>3, <1>4, <1>5, <1>6 DEF ManifestOk, ParseLines, ShapeOk

LEMMA HonestHolds == HonestInv => HonestExportVerifies
<1> SUFFICES ASSUME HonestInv, stream.at = "done", stream.quiet,
                    manifest.requested_from <= manifest.requested_to,
                    RecordsExported, BatchesLinked, NoSilentLoss, NEW opts \in Auditors
             PROVE  VerifyExport(file, opts) # "INVALID"
  BY DEF HonestExportVerifies, manifest
<1>1. Honest
  BY DEF Honest
<1>0. AllLinked
  <2>1. /\ BatchesBuilt /\ ManifestSays /\ Shapes
        /\ stream.from \in Nat /\ stream.to \in Nat
    BY <1>1, DoneFacts DEF HonestInv, ProofInv, ExportInv
  <2> SUFFICES ASSUME NEW i \in DOMAIN batches, Inside(batches[i])
               PROVE  batches[i].global_root_id # Unlinked
    BY DEF AllLinked
  <2>2. HasRange(batches[i]) /\ batches[i].from_position <= batches[i].to_position
    BY <2>1 DEF Shapes, BatchesShape, IsBatch, BatchesBuilt, IsBuilt, HasRange
  <2>3. /\ batches[i].to_position >= stream.from
        /\ batches[i].from_position <= stream.to
    BY <2>1, <2>2 DEF Inside, HasRange
  <2>4. file.manifest[1].from_position = stream.from /\ file.manifest[1].to_position = stream.to
    BY <2>1 DEF ManifestSays, manifest
  <2> QED
    BY <2>3, <2>4 DEF BatchesLinked
<1>2. ManifestOk(file)
  BY <1>0, <1>1, HonestShape
<1>3. HardChecks(manifest, file.events, file.roots, opts)
  BY <1>0, <1>1, HonestChain, HonestSignatures, HonestPayloads, HonestRoots DEF HardChecks
<1> QED
  BY <1>2, <1>3 DEF VerifyExport, manifest

-------------------------------------------------------------------------------
(* What the server does keeps the three parts about it.                    *)

LEMMA OrderedAppend ==
  ASSUME ProofInv, BatchesOrdered, RootedThrough < HeadPosition,
         NEW all, all = Append(batches, NewBatch)
  PROVE  \A i, j \in DOMAIN all : i < j => all[i].to_position < all[j].from_position
<1>1. /\ IsSeq(batches) /\ Len(batches) \in Nat /\ DOMAIN batches = 1..Len(batches)
      /\ \A i \in DOMAIN batches : /\ batches[i].from_position \in Nat
                                   /\ batches[i].to_position \in Nat
                                   /\ batches[i].from_position <= batches[i].to_position
  <2>1. Shapes /\ BatchesShape /\ BatchesBuilt
    BY DEF ProofInv, ExportInv, Shapes
  <2>2. ASSUME NEW i \in DOMAIN batches
        PROVE  /\ batches[i].from_position \in Nat /\ batches[i].to_position \in Nat
               /\ batches[i].from_position <= batches[i].to_position
    <3>1. HasRange(batches[i]) /\ IsBuilt(batches[i])
      BY <2>1 DEF BatchesShape, IsBatch, BatchesBuilt
    <3> QED
      BY <3>1 DEF HasRange, IsBuilt
  <2> QED
    BY <2>1, <2>2, SeqFacts DEF Shapes
<1>2. /\ DOMAIN all = 1..(Len(batches) + 1) /\ all[Len(batches) + 1] = NewBatch
      /\ \A i \in DOMAIN batches : all[i] = batches[i]
  BY <1>1, AppendSeq
<1>3. NewBatch.from_position = RootedThrough + 1
  BY DEF NewBatch
<1> DEFINE n == Len(batches)
<1> SUFFICES ASSUME NEW i \in DOMAIN all, NEW j \in DOMAIN all, i < j
             PROVE  all[i].to_position < all[j].from_position
  OBVIOUS
<1>4. i \in 1..n /\ all[i] = batches[i]
  BY <1>1, <1>2
<1>5. CASE j \in 1..n
  BY <1>1, <1>2, <1>4, <1>5 DEF BatchesOrdered
<1>6. CASE j \notin 1..n
  <2>1. all[j] = NewBatch
    BY <1>1, <1>2, <1>6
  <2>2. n \in DOMAIN batches /\ batches # <<>>
    BY <1>1, <1>4, NothingIsSeq
  <2>3. RootedThrough = batches[n].to_position
    BY <2>2 DEF RootedThrough
  <2>4. batches[i].to_position <= batches[n].to_position
    <3>1. CASE i = n
      BY <1>1, <2>2, <3>1
    <3>2. CASE i # n
      <4>1. batches[i].to_position < batches[n].from_position
        BY <1>1, <1>4, <2>2, <3>2 DEF BatchesOrdered
      <4>2. /\ batches[n].from_position \in Nat /\ batches[n].to_position \in Nat
            /\ batches[n].from_position <= batches[n].to_position /\ batches[i].to_position \in Nat
        BY <1>1, <1>4, <2>2
      <4> QED
        BY <4>1, <4>2
    <3> QED
      BY <3>1, <3>2
  <2>5. batches[n].to_position \in Nat /\ batches[i].to_position \in Nat
    BY <1>1, <1>4, <2>2
  <2> QED
    BY <1>3, <1>4, <2>1, <2>3, <2>4, <2>5
<1> QED
  BY <1>5, <1>6

(* A tick links batches and leaves their ranges. *)
LEMMA TickFacts ==
  ASSUME TypeOK, Shapes, Tick, NEW all, all = Append(batches, NewBatch)
  PROVE  /\ RootedThrough < HeadPosition /\ DOMAIN batches' = DOMAIN all
         /\ \A i \in DOMAIN all : /\ batches'[i].from_position = all[i].from_position
                                  /\ batches'[i].to_position = all[i].to_position
         /\ \E root : globals' = Append(globals, root) /\ root.root = TreeRoot(GlobalLeaves(all))
<1> DEFINE hash == TreeRoot(GlobalLeaves(all))
           root == [root |-> hash, covers |-> {chain[p + 1].event_hash : p \in Covered(all)}]
           Linked(b) == [all[b] EXCEPT !.global_root_id = Len(globals) + 1, !.global_root = hash,
                                       !.path_to_global = PathToGlobal(all, b)]
           next == [b \in DOMAIN all |-> IF b \notin ToLink(all) THEN all[b] ELSE Linked(b)]
<1>1. RootedThrough < HeadPosition /\ globals' = Append(globals, root) /\ batches' = next
  BY Zenon DEF Tick
<1>2. root.root = hash
  OBVIOUS
<1>3. \A i \in DOMAIN all : IsBatch(all[i])
  BY <1>1, WithNewBatch
<1>4. \A i \in DOMAIN all : /\ Linked(i).from_position = all[i].from_position
                            /\ Linked(i).to_position = all[i].to_position
  <2> TAKE i \in DOMAIN all
  <2>1. HasColumns(all[i])
    BY <1>3 DEF IsBatch
  <2> DEFINE b == all[i]
             path == PathToGlobal(all, i)
             c == Linked(i)
             id == Len(globals) + 1
  <2>2. c = [b EXCEPT !.global_root_id = id, !.global_root = hash, !.path_to_global = path]
    OBVIOUS
  <2>3. HasColumns(b)
    BY <2>1
  <2> HIDE DEF hash, b, path, c, id, Linked
  <2>4. c.from_position = b.from_position /\ c.to_position = b.to_position
    BY <2>2, <2>3 DEF HasColumns
  <2> QED
    BY <2>4 DEF b, c
<1>5. /\ DOMAIN batches' = DOMAIN all
      /\ \A i \in DOMAIN all : batches'[i] = IF i \notin ToLink(all) THEN all[i] ELSE Linked(i)
  BY <1>1
<1> HIDE DEF root, Linked, next
<1> QED
  BY <1>1, <1>2, <1>4, <1>5

LEMMA GlobalLeavesSeq ==
  ASSUME IsSeq(batches), NEW all
  PROVE  IsSeq(GlobalLeaves(all)) /\ Len(GlobalLeaves(all)) > 0
<1> DEFINE new == <<Len(all)>>
           rooted == new \o Dangling
           prev == IF globals = <<>> THEN GENESIS ELSE globals[Len(globals)].root
           first == <<prev, <<"other", Len(globals)>>>>
           roots == [i \in DOMAIN rooted |-> all[rooted[i]].project_root]
           leaves == first \o roots
<1>1. GlobalLeaves(all) = leaves
  BY DEF GlobalLeaves
<1>2. IsSeq(rooted)
  <2> DEFINE n == Len(all)
             s == <<n>>
  <2>1. s \in Seq({n})
    OBVIOUS
  <2> HIDE DEF s, n
  <2>2. IsSeq(s) /\ IsSeq(Dangling)
    BY <2>1, SeqIntro, DanglingFacts
  <2>3. IsJoin(s \o Dangling, s, Dangling)
    BY <2>2, ConcatSeq
  <2>4. IsSeq(s \o Dangling)
    BY <2>3 DEF IsJoin
  <2> QED
    BY <2>4 DEF s, n
<1> HIDE DEF rooted
<1>3. IsSeq(roots)
  <2> DEFINE n == Len(rooted)
             S == {all[rooted[j]].project_root : j \in 1..n}
  <2>1. n \in Int /\ DOMAIN rooted = 1..n
    BY <1>2, SeqFacts
  <2>2. roots \in [1..n -> S]
    BY <2>1
  <2> HIDE DEF n, S, roots
  <2> QED
    BY <2>1, <2>2, FunctionSeq
<1>4. IsSeq(first) /\ Len(first) = 2
  <2> DEFINE other == <<"other", Len(globals)>>
             s == <<prev, other>>
  <2> HIDE DEF prev, other
  <2>1. s \in Seq({prev, other}) /\ Len(s) = 2
    OBVIOUS
  <2> HIDE DEF s
  <2>2. IsSeq(s)
    BY <2>1, SeqIntro
  <2> QED
    BY <2>1, <2>2 DEF s, prev, other
<1> HIDE DEF first, roots
<1>5. IsSeq(leaves) /\ Len(leaves) = 2 + Len(roots)
  <2>1. IsJoin(leaves, first, roots)
    BY <1>3, <1>4, ConcatSeq
  <2> HIDE DEF leaves
  <2> QED
    BY <1>4, <2>1 DEF IsJoin
<1>6. Len(roots) \in Nat
  BY <1>3, SeqFacts
<1> HIDE DEF leaves
<1> QED
  BY <1>1, <1>5, <1>6

LEMMA OrderedStep ==
  ASSUME ProofInv, BatchesOrdered,
         batches' = batches \/ batches' = <<>> \/ TickCutOff \/ Tick
  PROVE  BatchesOrdered'
<1>1. TypeOK /\ Shapes
  BY DEF ProofInv, ExportInv
<1>2. CASE batches' = batches
  BY <1>2 DEF BatchesOrdered
<1>3. CASE batches' = <<>>
  <2>1. DOMAIN batches' = {}
    BY <1>3, NothingIsSeq
  <2> QED
    BY <2>1 DEF BatchesOrdered
<1>4. PICK all : all = Append(batches, NewBatch)
  OBVIOUS
<1>5. ASSUME RootedThrough < HeadPosition, DOMAIN batches' = DOMAIN all,
             \A i \in DOMAIN all : /\ batches'[i].from_position = all[i].from_position
                                   /\ batches'[i].to_position = all[i].to_position
      PROVE  BatchesOrdered'
  <2>1. \A i, j \in DOMAIN all : i < j => all[i].to_position < all[j].from_position
    BY <1>4, <1>5, OrderedAppend
  <2> QED
    BY <1>5, <2>1 DEF BatchesOrdered
<1>6. CASE TickCutOff
  <2>1. batches' = all /\ RootedThrough < HeadPosition
    BY <1>4, <1>6 DEF TickCutOff
  <2> QED
    BY <1>5, <2>1
<1>7. CASE Tick
  <2>1. /\ RootedThrough < HeadPosition /\ DOMAIN batches' = DOMAIN all
        /\ \A i \in DOMAIN all : /\ batches'[i].from_position = all[i].from_position
                                 /\ batches'[i].to_position = all[i].to_position
    BY <1>1, <1>4, <1>7, TickFacts
  <2> QED
    BY <1>5, <2>1
<1> QED
  BY <1>2, <1>3, <1>6, <1>7

LEMMA ProperStep ==
  ASSUME ProofInv, RootsProper, globals' = globals \/ Tick
  PROVE  RootsProper'
<1>1. TypeOK /\ Shapes /\ IsSeq(globals) /\ IsSeq(batches)
  BY DEF ProofInv, ExportInv, Shapes
<1>2. CASE globals' = globals
  BY <1>2 DEF RootsProper
<1>3. CASE Tick
  <2>1. PICK all : all = Append(batches, NewBatch)
    OBVIOUS
  <2>2. PICK root : globals' = Append(globals, root) /\ root.root = TreeRoot(GlobalLeaves(all))
    BY <1>1, <1>3, <2>1, TickFacts
  <2>3. root.root # NoHash
    <3>1. IsSeq(GlobalLeaves(all)) /\ Len(GlobalLeaves(all)) > 0
      BY <1>1, GlobalLeavesSeq
    <3>2. IsHash(TreeRoot(GlobalLeaves(all)))
      BY <3>1, RootIsHash
    <3> QED
      BY <2>2, <3>2, NotEmpty
  <2>4. /\ Len(globals) \in Nat /\ DOMAIN globals = 1..Len(globals)
        /\ DOMAIN globals' = 1..(Len(globals) + 1) /\ globals'[Len(globals) + 1] = root
        /\ \A g \in DOMAIN globals : globals'[g] = globals[g]
    BY <1>1, <2>2, AppendSeq, SeqFacts
  <2>5. \A g \in DOMAIN globals' : g \in DOMAIN globals \/ g = Len(globals) + 1
    BY <2>4
  <2> QED
    BY <2>3, <2>4, <2>5 DEF RootsProper
<1> QED
  BY <1>2, <1>3

-------------------------------------------------------------------------------
(* A record more, and perhaps payloads less: what is gone is explained by  *)
(* the new record, and so is what only a record that is gone explained.    *)
LEMMA LossesStep ==
  ASSUME ProofInv, LossesExplained, NEW action, NEW target, NEW data,
         AppendEvent(action, target, data), era' = era,
         NEW n, n = Len(chain) + 1, NEW gone,
         payload' = (payload \ gone) \cup {Len(chain)},
         \A q \in gone \cap payload :
           /\ Explains(n, q)'
           /\ \/ chain'[n].target = chain[q + 1].id
              \/ \A p \in 0..q : Explains(n, p)',
         silent' \subseteq silent,
         \A q \in silent \ silent' : \A p \in 0..q : Explains(n, p)'
  PROVE  LossesExplained'
<1>1. /\ TypeOK /\ Shapes /\ payload \subseteq 0..HeadPosition
      /\ IsSeq(chain) /\ Len(chain) \in Nat /\ DOMAIN chain = 1..Len(chain)
      /\ HeadPosition = Len(chain) - 1
  BY SeqFacts DEF ProofInv, ExportInv, TypeOK, Shapes, HeadPosition
<1>2. ChainKept /\ HeadPosition' = HeadPosition + 1
  BY <1>1, AppendKeeps
<1>3. DOMAIN chain' = 1..n
  <2>1. DOMAIN chain' = 1..(Len(chain) + 1)
    BY <1>1, AppendSeq DEF AppendEvent
  <2> QED
    BY <2>1
<1>4. n \in Nat /\ n \in 1..n
  BY <1>1
<1> SUFFICES ASSUME NEW p \in 0..HeadPosition', p \notin payload', p \notin silent'
             PROVE  \E i \in DOMAIN chain' : Explains(i, p)'
  BY DEF LossesExplained
<1>5. p \in 0..HeadPosition /\ p + 1 \in DOMAIN chain
  <2>1. p # Len(chain)
    OBVIOUS
  <2>2. p \in 0..(HeadPosition + 1)
    BY <1>2
  <2> DEFINE m == Len(chain)
  <2>3. p # m /\ p \in 0..(m - 1 + 1) /\ m \in Nat
    BY <1>1, <2>1, <2>2
  <2> HIDE DEF m
  <2>4. p \in 0..(m - 1) /\ p + 1 \in 1..m
    BY ONLY <2>3
  <2> QED
    BY <1>1, <2>4 DEF m
<1>6. CASE p \in payload
  <2>1. p \in gone \cap payload
    BY <1>6
  <2> QED
    BY <1>3, <1>4, <2>1
<1>8. CASE p \in silent
  <2>1. p \in silent \ silent' /\ p \in 0..p
    BY <1>5, <1>8
  <2> QED
    BY <1>3, <1>4, <2>1
<1>7. CASE p \notin payload /\ p \notin silent
  <2>1. PICK i \in DOMAIN chain : Explains(i, p)
    BY <1>5, <1>7 DEF LossesExplained
  <2>2. /\ i \in DOMAIN chain' /\ chain'[i] = chain[i] /\ chain'[p + 1] = chain[p + 1]
        /\ i - 1 > p /\ (i - 1) + 1 = i /\ i - 1 \in Nat
    <3>1. i - 1 > p
      BY <2>1 DEF Explains
    <3>2. /\ i \in DOMAIN chain' /\ chain'[i] = chain[i] /\ chain'[p + 1] = chain[p + 1]
      BY <1>2, <1>5 DEF ChainKept
    <3>3. i \in Nat /\ i >= 1
      <4> DEFINE m == Len(chain)
      <4>1. i \in 1..m /\ m \in Nat
        BY <1>1
      <4> HIDE DEF m
      <4> QED
        BY ONLY <4>1
    <3>4. (i - 1) + 1 = i /\ i - 1 \in Nat
      BY ONLY <3>3
    <3> QED
      BY <3>1, <3>2, <3>4
  <2>3. ASSUME Named(i)
        PROVE  Named(i)'
    <3>1. PICK j \in DOMAIN chain : chain[j].target = chain[i].id
      BY <2>3 DEF Named
    <3>2. j \in DOMAIN chain' /\ chain'[j] = chain[j]
      BY <1>2, <3>1 DEF ChainKept
    <3> QED
      BY <2>2, <3>1, <3>2 DEF Named
  <2>4. CASE i - 1 \in payload' \/ i - 1 \in silent' \/ Named(i) \/ chain[i].action = "payload.erased"
    <3>2. Explains(i, p)'
      BY <2>1, <2>2, <2>3, <2>4 DEF Explains
    <3> QED
      BY <2>2, <3>2
  <2>5. CASE ~(i - 1 \in payload' \/ i - 1 \in silent' \/ Named(i) \/ chain[i].action = "payload.erased")
    <3> DEFINE q == i - 1
    <3>1. /\ q \in gone \cap payload \/ q \in silent \ silent'
          /\ chain[i].action = "payload.retention_shred" /\ chain[i].data >= p
      BY <2>1, <2>5 DEF Explains
    <3>0. p \in 0..q
      BY <1>5, <2>2
    <3>4. CASE q \in silent \ silent'
      BY <1>3, <1>4, <3>0, <3>4
    <3>2. CASE chain'[n].target = chain[q + 1].id
      <4>1. Named(i)'
        BY <1>3, <1>4, <2>2, <3>2 DEF Named
      <4>2. Explains(i, p)'
        BY <2>2, <3>1, <4>1 DEF Explains
      <4> QED
        BY <2>2, <4>2
    <3>3. CASE \A r \in 0..q : Explains(n, r)'
      BY <1>3, <1>4, <3>0, <3>3
    <3> QED
      BY <3>1, <3>2, <3>3, <3>4
  <2> QED
    BY <2>4, <2>5
<1> QED
  BY <1>6, <1>7, <1>8

LEMMA NewRowIs ==
  ASSUME ProofInv, NEW action, NEW target, NEW data, AppendEvent(action, target, data),
         NEW n, n = Len(chain) + 1
  PROVE  /\ chain'[n].action = action /\ chain'[n].target = target /\ chain'[n].data = data
         /\ n - 1 = Len(chain) /\ n \in Nat
<1> DEFINE row == NewRow(action, target, data)
<1>1. row.action = action /\ row.target = target /\ row.data = data
  BY DEF NewRow
<1>2. IsSeq(chain) /\ Len(chain) \in Nat
  BY SeqFacts DEF ProofInv, ExportInv, Shapes
<1>3. chain' = Append(chain, row)
  BY DEF AppendEvent
<1> HIDE DEF row
<1>4. chain'[Len(chain) + 1] = row
  BY <1>2, <1>3, AppendSeq
<1> QED
  BY <1>1, <1>2, <1>4

LEMMA LossesKept ==
  ASSUME ProofInv, LossesExplained,
         \/ chain' = chain /\ payload' = payload /\ silent' = silent
         \/ chain' = <<>>
         \/ Ingest
         \/ \E p \in 0..HeadPosition : Erase(p) \/ ApplyRetention(p) \/ ShredUnrecorded(p)
  PROVE  LossesExplained'
<1>1. PICK n : n = Len(chain) + 1
  OBVIOUS
<1>2. /\ IsSeq(chain) /\ Len(chain) \in Nat /\ DOMAIN chain = 1..Len(chain)
      /\ HeadPosition = Len(chain) - 1 /\ payload \subseteq 0..HeadPosition
      /\ silent \subseteq 0..HeadPosition
      /\ \A i \in DOMAIN chain : chain[i].id = <<era, i - 1>>
  BY SeqFacts DEF ProofInv, ExportInv, TypeOK, Shapes, HeadPosition
<1>3. CASE chain' = chain /\ payload' = payload /\ silent' = silent
  BY <1>3 DEF LossesExplained, Explains, Named, HeadPosition
<1>4. CASE chain' = <<>>
  <2>1. HeadPosition' = -1
    BY <1>4 DEF HeadPosition
  <2> QED
    BY <2>1 DEF LossesExplained
<1>5. CASE Ingest
  <2>1. /\ AppendEvent("app", <<>>, 0) /\ era' = era /\ payload' = (payload \ {}) \cup {Len(chain)}
        /\ silent' = silent
    BY <1>5 DEF Ingest
  <2>2. PICK gone : gone = {}
    OBVIOUS
  <2>3. \A r \in gone \cap payload :
         /\ Explains(n, r)'
         /\ \/ chain'[n].target = chain[r + 1].id
            \/ \A p \in 0..r : Explains(n, p)'
    BY <2>2
  <2> QED
    BY <1>1, <2>1, <2>2, <2>3, LossesStep
<1>6. ASSUME NEW q \in 0..HeadPosition, Erase(q)
      PROVE  LossesExplained'
  <2>1. PICK gone : gone = {q}
    OBVIOUS
  <2>2. /\ AppendEvent("payload.erased", <<era, q>>, 0) /\ era' = era /\ silent' = silent
        /\ payload' = (payload \ gone) \cup {Len(chain)}
    BY <1>6, <2>1 DEF Erase
  <2>3. /\ chain'[n].action = "payload.erased" /\ chain'[n].target = <<era, q>>
        /\ n - 1 = Len(chain)
    BY <1>1, <2>2, NewRowIs
  <2>4. q + 1 \in DOMAIN chain /\ n - 1 > q
    BY <1>2, <2>3
  <2>5. chain[q + 1].id = <<era, q>>
    <3>1. chain[q + 1].id = <<era, (q + 1) - 1>> /\ (q + 1) - 1 = q
      BY <1>2, <2>4
    <3> QED
      BY <3>1
  <2>6. chain'[q + 1] = chain[q + 1]
    BY <2>2, <2>4, AppendKeeps DEF ChainKept, ProofInv, ExportInv
  <2>7. Explains(n, q)' /\ chain'[n].target = chain[q + 1].id
    BY <2>3, <2>4, <2>5, <2>6 DEF Explains
  <2>8. \A r \in gone \cap payload :
         /\ Explains(n, r)'
         /\ \/ chain'[n].target = chain[r + 1].id
            \/ \A p \in 0..r : Explains(n, p)'
    BY <2>1, <2>7
  <2> QED
    BY <1>1, <2>2, <2>8, LossesStep
<1>7. ASSUME NEW q \in 0..HeadPosition, ApplyRetention(q)
      PROVE  LossesExplained'
  <2>1. PICK gone : gone = {p \in payload : p <= q}
    OBVIOUS
  <2>2. /\ AppendEvent("payload.retention_shred", <<>>, q) /\ era' = era
        /\ payload' = (payload \ gone) \cup {Len(chain)}
        /\ silent' = {r \in silent : r > q}
    BY <1>7, <2>1 DEF ApplyRetention, Expired
  <2>3. /\ chain'[n].action = "payload.retention_shred" /\ chain'[n].data = q
        /\ n - 1 = Len(chain)
    BY <1>1, <2>2, NewRowIs
  <2>4. n - 1 \in payload'
    BY <2>2, <2>3
  <2>5. ASSUME NEW r \in gone \cup (silent \ silent'), NEW p \in 0..r
        PROVE  Explains(n, p)'
    <3>0. r \in 0..HeadPosition /\ q \in Nat /\ Len(chain) \in Nat
      BY <1>2, <2>1
    <3>1. r \in 0..HeadPosition /\ r <= q /\ p \in Nat /\ p <= r /\ q \in Nat
      BY <2>1, <2>2, <2>5, <3>0
    <3>2. q >= p /\ n - 1 > p
      BY <1>2, <2>3, <3>1
    <3> QED
      BY <2>3, <2>4, <3>2 DEF Explains
  <2>6. \A r \in gone : r \in 0..r
    BY <1>2, <2>1
  <2>7. \A r \in gone \cap payload :
         /\ Explains(n, r)'
         /\ \/ chain'[n].target = chain[r + 1].id
            \/ \A p \in 0..r : Explains(n, p)'
    BY <2>5, <2>6
  <2>8. silent' \subseteq silent /\ \A r \in silent \ silent' : \A p \in 0..r : Explains(n, p)'
    BY <2>2, <2>5
  <2> QED
    BY <1>1, <2>2, <2>7, <2>8, LossesStep
<1>8. ASSUME NEW q \in 0..HeadPosition, ShredUnrecorded(q)
      PROVE  LossesExplained'
  <2>1. /\ chain' = chain /\ payload' = payload \ Expired(q)
        /\ silent' = silent \cup Expired(q) /\ HeadPosition' = HeadPosition
    BY <1>8 DEF ShredUnrecorded, HeadPosition
  <2>2. ASSUME NEW i \in DOMAIN chain, NEW p, Explains(i, p)
        PROVE  Explains(i, p)'
    BY <2>1, <2>2 DEF Explains, Named
  <2> QED
    BY <2>1, <2>2 DEF LossesExplained
<1> QED
  BY <1>3, <1>4, <1>5, <1>6, <1>7, <1>8

-------------------------------------------------------------------------------
(* Steps that leave an export nothing has disturbed as it is.              *)

HonestParts == ManifestSays /\ RangeIsWhole /\ LinesSay /\ RootsSay

(* The lines of an export stay what they say while each of them does. *)
LEMMA LinesCarry ==
  ASSUME LinesSay, stream' = stream, file' = file,
         \A e, p : IsLine(e, p) => IsLine(e, p)'
  PROVE  LinesSay'
<1> SUFFICES ASSUME stream.at # "manifest"
             PROVE  /\ Len(file.events) + Len(stream.rows) = stream.to - stream.from + 1
                    /\ \A i \in DOMAIN file.events : IsLine(file.events[i], stream.from + i - 1)'
                    /\ \A i \in DOMAIN stream.rows :
                         IsLine(stream.rows[i], stream.from + Len(file.events) + i - 1)'
  BY DEF LinesSay
<1>1. \A i \in DOMAIN file.events : IsLine(file.events[i], stream.from + i - 1)'
  <2> TAKE i \in DOMAIN file.events
  <2>1. PICK e, p : e = file.events[i] /\ p = stream.from + i - 1
    OBVIOUS
  <2>2. IsLine(e, p)'
    BY <2>1 DEF LinesSay
  <2>3. e = file'.events[i] /\ p = stream'.from + i - 1
    BY <2>1
  <2> QED
    BY <2>2, <2>3 DEF IsLine
<1>2. \A i \in DOMAIN stream.rows :
        IsLine(stream.rows[i], stream.from + Len(file.events) + i - 1)'
  <2> TAKE i \in DOMAIN stream.rows
  <2>1. PICK e, p : e = stream.rows[i] /\ p = stream.from + Len(file.events) + i - 1
    OBVIOUS
  <2>2. IsLine(e, p)'
    BY <2>1 DEF LinesSay
  <2>3. e = stream'.rows[i] /\ p = stream'.from + Len(file'.events) + i - 1
    BY <2>1
  <2> QED
    BY <2>2, <2>3 DEF IsLine
<1> QED
  BY <1>1, <1>2 DEF LinesSay

LEMMA SameStream ==
  ASSUME HonestStream, UNCHANGED <<era, chain, payload, batches, stream, file>>
  PROVE  HonestStream'
<1> SUFFICES ASSUME Honest'
             PROVE  HonestParts'
  BY DEF HonestStream, HonestParts
<1>1. /\ era' = era /\ chain' = chain /\ payload' = payload /\ batches' = batches
      /\ stream' = stream /\ file' = file
  OBVIOUS
<1>2. Honest
  BY <1>1 DEF Honest, manifest
<1>3. ManifestSays /\ RangeIsWhole /\ LinesSay /\ RootsSay
  BY <1>2 DEF HonestStream
<1>4. ManifestSays'
  BY <1>1, <1>3 DEF ManifestSays, manifest, PrevHash
<1>5. RangeIsWhole'
  BY <1>1, <1>3 DEF RangeIsWhole, Touches, Inside, HeadPosition
<1>6. LinesSay'
  <2>1. ASSUME NEW e, NEW p, IsLine(e, p)
        PROVE  IsLine(e, p)'
    BY <1>1, <2>1 DEF IsLine, HeadPosition
  <2> QED
    BY <1>1, <1>3, <2>1, LinesCarry
<1>7. RootsSay'
  BY <1>1, <1>3 DEF RootsSay, Inside, Tells
<1> QED
  BY <1>4, <1>5, <1>6, <1>7 DEF HonestParts

(* A step that touches the rows of an export ends its honesty. *)
LEMMA DisturbedStream ==
  ASSUME Shapes, Disturb
  PROVE  HonestStream'
<1> DEFINE S == [at |-> stream.at, tenant |-> stream.tenant, from |-> stream.from,
                 to |-> stream.to, rows |-> stream.rows, roots |-> stream.roots,
                 quiet |-> stream.quiet]
<1>1. stream = S
  BY DEF Shapes, StreamIsRecord
<1>2. stream' = [S EXCEPT !.quiet = FALSE]
  BY <1>1 DEF Disturb
<1>3. stream'.quiet = FALSE
  BY <1>2
<1> QED
  BY <1>3 DEF HonestStream, Honest

LEMMA IngestStream ==
  ASSUME ProofInv, HonestStream, Ingest
  PROVE  HonestStream'
<1>1. /\ TypeOK /\ Shapes /\ IsSeq(chain) /\ Len(chain) \in Nat /\ DOMAIN chain = 1..Len(chain)
      /\ HeadPosition = Len(chain) - 1 /\ stream.from \in Nat /\ stream.to \in Int
  BY SeqFacts DEF ProofInv, ExportInv, Shapes, HeadPosition, TypeOK
<1>2. /\ era' = era /\ batches' = batches /\ stream' = stream /\ file' = file
      /\ payload' = payload \cup {Len(chain)} /\ AppendEvent("app", <<>>, 0)
  BY DEF Ingest
<1>3. ChainKept /\ HeadPosition' = HeadPosition + 1
  BY <1>1, <1>2, AppendKeeps
<1> SUFFICES ASSUME Honest'
             PROVE  HonestParts'
  BY DEF HonestStream, HonestParts
<1>4. Honest
  BY <1>2 DEF Honest, manifest
<1>5. ManifestSays /\ RangeIsWhole /\ LinesSay /\ RootsSay
  BY <1>4 DEF HonestStream
<1>6. stream.from <= stream.to /\ stream.to <= HeadPosition
  BY <1>5 DEF RangeIsWhole
<1>7. PrevHash(stream.from)' = PrevHash(stream.from)
  <2>1. CASE stream.from = 0
    BY <1>2, <2>1 DEF PrevHash
  <2>2. CASE stream.from # 0
    <3>1. stream.from \in DOMAIN chain
      BY <1>1, <1>6, <2>2
    <3> QED
      BY <1>2, <1>3, <2>2, <3>1 DEF PrevHash, ChainKept
  <2> QED
    BY <2>1, <2>2
<1>8. ManifestSays'
  BY <1>2, <1>5, <1>7 DEF ManifestSays, manifest
<1>9. RangeIsWhole'
  <2>1. stream.to <= HeadPosition'
    BY <1>1, <1>3, <1>6
  <2> QED
    BY <1>2, <1>5, <2>1 DEF RangeIsWhole, Touches, Inside
<1>10. ASSUME NEW e, NEW p, IsLine(e, p)
       PROVE  IsLine(e, p)'
  <2>1. p \in 0..HeadPosition
    BY <1>10 DEF IsLine
  <2>2. p + 1 \in DOMAIN chain /\ p # Len(chain) /\ p \in 0..HeadPosition'
    <3> DEFINE m == Len(chain)
    <3>1. m \in Nat /\ p \in 0..(m - 1)
      BY <1>1, <2>1
    <3>2. HeadPosition' = m - 1 + 1 /\ DOMAIN chain = 1..m
      BY <1>1, <1>3
    <3> HIDE DEF m
    <3>3. p + 1 \in 1..m /\ p # m /\ p \in 0..(m - 1 + 1)
      BY ONLY <3>1
    <3> QED
      BY <3>2, <3>3 DEF m
  <2>3. chain'[p + 1] = chain[p + 1]
    BY <1>3, <2>2 DEF ChainKept
  <2>4. p \in payload' <=> p \in payload
    BY <1>2, <2>2
  <2> QED
    BY <1>2, <1>10, <2>2, <2>3, <2>4 DEF IsLine
<1>11. LinesSay'
  BY <1>2, <1>5, <1>10, LinesCarry
<1>12. RootsSay'
  BY <1>2, <1>5 DEF RootsSay, Inside, Tells
<1> QED
  BY <1>8, <1>9, <1>11, <1>12 DEF HonestParts

-------------------------------------------------------------------------------
(* The range an export is widened to.                                      *)

Found(from, to) == {i \in DOMAIN batches : Touches(batches[i], from, to)}

LEMMA OverlappingEnds ==
  ASSUME Shapes, NEW from, NEW to, Found(from, to) # {}
  PROVE  LET found == Overlapping(from, to)
         IN \E m, n \in Found(from, to) :
              /\ \A i \in Found(from, to) : m <= i /\ i <= n
              /\ found # <<>> /\ found[1] = batches[m] /\ found[Len(found)] = batches[n]
              /\ \A i \in DOMAIN found : \E k \in m..n : found[i] = batches[k]
<1> DEFINE F == Found(from, to)
           m == Min(F)
           n == Max(F)
           rows == SubSeq(batches, m, n)
<1>1. IsSeq(batches) /\ Len(batches) \in Nat /\ DOMAIN batches = 1..Len(batches)
  BY SeqFacts DEF Shapes
<1>2. F = {i \in DOMAIN batches : /\ batches[i].to_position >= from
                                  /\ batches[i].from_position <= to}
  BY DEF Found, Touches
<1>3. Overlapping(from, to) = rows
  BY <1>2 DEF Overlapping
<1>4. F \in SUBSET (0..Len(batches)) /\ F \in SUBSET Nat /\ F \subseteq 1..Len(batches)
  BY <1>1, <1>2
<1>5. m \in F /\ n \in F /\ \A i \in F : m <= i /\ i <= n
  BY <1>1, <1>4, MinOfSome, MaxOfSome
<1> HIDE DEF m, n, F
<1>6. m \in 1..Len(batches) /\ n \in 1..Len(batches) /\ m <= n
  BY <1>4, <1>5
<1>7. \A i \in m..n : i \in DOMAIN batches /\ batches[i] \in Range(batches)
  BY <1>1, <1>6 DEF Range
<1> DEFINE d == n - m + 1
<1>8. /\ rows \in Seq(Range(batches)) /\ Len(rows) = d
      /\ \A i \in 1..d : rows[i] = batches[m + i - 1]
  BY <1>6, <1>7, SubSeqProperties
<1>9. d \in Nat /\ 1 \in 1..d /\ d \in 1..d /\ m + 1 - 1 = m /\ m + d - 1 = n
  BY <1>6
<1>10. \A i \in 1..d : m + i - 1 \in m..n
  BY <1>6
<1> HIDE DEF d, rows
<1>11. IsSeq(rows) /\ DOMAIN rows = 1..d
  BY <1>8, SeqIntro, SeqFacts
<1>12. rows # <<>>
  BY <1>9, <1>11, NothingIsSeq
<1>13. rows[1] = batches[m] /\ rows[Len(rows)] = batches[n]
  BY <1>8, <1>9
<1>14. \A i \in DOMAIN rows : \E k \in m..n : rows[i] = batches[k]
  BY <1>8, <1>10, <1>11
<1>15. m \in Found(from, to) /\ n \in Found(from, to) /\ \A i \in Found(from, to) : m <= i /\ i <= n
  BY <1>5 DEF F
<1> QED
  BY <1>3, <1>12, <1>13, <1>14, <1>15

(* The positions of neighbours are in order. *)
LEMMA InOrder ==
  ASSUME ProofInv, BatchesOrdered
  PROVE  /\ \A i \in DOMAIN batches :
              /\ batches[i].from_position \in Nat /\ batches[i].to_position \in Nat
              /\ batches[i].from_position <= batches[i].to_position
              /\ batches[i].to_position <= HeadPosition
         /\ \A i, j \in DOMAIN batches : i <= j =>
              /\ batches[i].from_position <= batches[j].from_position
              /\ batches[i].to_position <= batches[j].to_position
<1>1. Shapes /\ BatchesShape /\ BatchesBuilt
  BY DEF ProofInv, ExportInv, Shapes
<1>2. ASSUME NEW i \in DOMAIN batches
      PROVE  /\ batches[i].from_position \in Nat /\ batches[i].to_position \in Nat
             /\ batches[i].from_position <= batches[i].to_position
             /\ batches[i].to_position <= HeadPosition
  <2>1. HasRange(batches[i]) /\ IsBuilt(batches[i]) /\ batches[i].to_position <= HeadPosition
    BY <1>1 DEF BatchesShape, IsBatch, BatchesBuilt
  <2> QED
    BY <2>1 DEF HasRange, IsBuilt
<1>3. ASSUME NEW i \in DOMAIN batches, NEW j \in DOMAIN batches, i <= j
      PROVE  /\ batches[i].from_position <= batches[j].from_position
             /\ batches[i].to_position <= batches[j].to_position
  <2>1. CASE i = j
    BY <1>2, <2>1
  <2>2. CASE i # j
    <3>1. i < j
      <4>1. i \in Nat /\ j \in Nat
        BY <1>1, SeqFacts DEF Shapes
      <4> QED
        BY <1>3, <2>2, <4>1
    <3>2. batches[i].to_position < batches[j].from_position
      BY <3>1 DEF BatchesOrdered
    <3> DEFINE a == batches[i].from_position
               b == batches[i].to_position
               c == batches[j].from_position
               e == batches[j].to_position
    <3>3. a \in Nat /\ b \in Nat /\ c \in Nat /\ e \in Nat /\ a <= b /\ b < c /\ c <= e
      BY <1>2, <3>2
    <3> HIDE DEF a, b, c, e
    <3>4. a <= c /\ b <= e
      BY ONLY <3>3
    <3> QED
      BY <3>4 DEF a, b, c, e
  <2> QED
    BY <2>1, <2>2
<1> QED
  BY <1>2, <1>3

LEMMA WidenedIsWhole ==
  ASSUME ProofInv, BatchesOrdered, NEW from \in Nat, NEW to \in Int,
         from <= to, to <= HeadPosition, NEW range, range = Widen(from, to)
  PROVE  /\ range.from <= range.to /\ range.to <= HeadPosition
         /\ \A i \in DOMAIN batches : Touches(batches[i], range.from, range.to) =>
              range.from <= batches[i].from_position /\ batches[i].to_position <= range.to
<1>1. Shapes /\ HeadPosition \in Int /\ DOMAIN batches \subseteq Nat
  BY SeqFacts, EndsAreNumbers DEF ProofInv, ExportInv, Shapes
<1>2. CASE Found(from, to) = {}
  <2>1. {i \in DOMAIN batches : /\ batches[i].to_position >= from
                                /\ batches[i].from_position <= to} = {}
    BY <1>2 DEF Found, Touches
  <2>2. Overlapping(from, to) = <<>>
    BY <2>1 DEF Overlapping
  <2>3. range.from = from /\ range.to = to
    BY <2>2 DEF Widen
  <2> QED
    BY <1>2, <2>3 DEF Found
<1>3. CASE Found(from, to) # {}
  <2>1. PICK m \in Found(from, to), n \in Found(from, to) :
          /\ \A i \in Found(from, to) : m <= i /\ i <= n
          /\ Overlapping(from, to) # <<>> /\ Overlapping(from, to)[1] = batches[m]
          /\ Overlapping(from, to)[Len(Overlapping(from, to))] = batches[n]
    BY <1>1, <1>3, OverlappingEnds
  <2>2. /\ range.from = AtMost(from, batches[m].from_position)
        /\ range.to = AtLeast(to, batches[n].to_position)
    BY <2>1 DEF Widen
  <2>3. m \in DOMAIN batches /\ n \in DOMAIN batches /\ m <= n
    BY <2>1 DEF Found
  <2> DEFINE f(i) == batches[i].from_position
             t(i) == batches[i].to_position
  <2>4. /\ \A i \in DOMAIN batches : /\ f(i) \in Nat /\ t(i) \in Nat
                                     /\ f(i) <= t(i) /\ t(i) <= HeadPosition
        /\ \A i, j \in DOMAIN batches : i <= j => f(i) <= f(j) /\ t(i) <= t(j)
    BY InOrder
  <2>5. \A i, j \in DOMAIN batches : i < j => t(i) < f(j)
    BY DEF BatchesOrdered
  <2>6. \A i \in DOMAIN batches : t(i) >= from /\ f(i) <= to => m <= i /\ i <= n
    BY <2>1 DEF Found, Touches
  <2>7. t(m) >= from /\ f(m) <= to /\ t(n) >= from /\ f(n) <= to
    BY <2>1 DEF Found, Touches
  <2>8. range.from = AtMost(from, f(m)) /\ range.to = AtLeast(to, t(n))
    BY <2>2
  <2>9. ASSUME NEW i \in DOMAIN batches, Touches(batches[i], range.from, range.to)
        PROVE  range.from <= f(i) /\ t(i) <= range.to
    <3>1. t(i) >= range.from /\ f(i) <= range.to
      BY <2>9 DEF Touches
    <3> HIDE DEF f, t
    <3>2. /\ f(i) \in Nat /\ t(i) \in Nat /\ f(m) \in Nat /\ t(m) \in Nat
          /\ f(n) \in Nat /\ t(n) \in Nat /\ f(i) <= t(i) /\ f(m) <= t(m) /\ f(n) <= t(n)
          /\ i \in Nat /\ m \in Nat /\ n \in Nat
      BY <1>1, <2>3, <2>4
    <3>3. range.from <= f(i)
      <4>1. CASE m <= i
        <5>1. f(m) <= f(i)
          BY <2>3, <2>4, <4>1
        <5> QED
          BY <2>8, <3>2, <5>1 DEF AtMost
      <4>2. CASE i < m
        <5>1. t(i) < f(m)
          BY <2>3, <2>5, <4>2
        <5>2. ~(t(i) >= from /\ f(i) <= to)
          BY <2>6, <3>2, <4>2
        <5> QED
          BY <2>7, <2>8, <3>1, <3>2, <5>1, <5>2 DEF AtMost
      <4> QED
        BY <3>2, <4>1, <4>2
    <3>4. t(i) <= range.to
      <4>1. CASE i <= n
        <5>1. t(i) <= t(n)
          BY <2>3, <2>4, <4>1
        <5> QED
          BY <2>8, <3>2, <5>1 DEF AtLeast
      <4>2. CASE n < i
        <5>1. t(n) < f(i)
          BY <2>3, <2>5, <4>2
        <5>2. ~(t(i) >= from /\ f(i) <= to)
          BY <2>6, <3>2, <4>2
        <5> QED
          BY <2>7, <2>8, <3>1, <3>2, <5>1, <5>2 DEF AtLeast
      <4> QED
        BY <3>2, <4>1, <4>2
    <3> QED
      BY <3>3, <3>4
  <2>10. range.from <= range.to /\ range.to <= HeadPosition
    BY <1>1, <2>3, <2>4, <2>8 DEF AtMost, AtLeast
  <2> QED
    BY <2>9, <2>10
<1> QED
  BY <1>2, <1>3

-------------------------------------------------------------------------------
(* The steps of the response.                                              *)

LEMMA StartStream ==
  ASSUME ProofInv, BatchesOrdered, NEW from \in Nat, NEW to \in Int, StartExport(from, to)
  PROVE  HonestStream'
<1> DEFINE range == Widen(from, End(to))
           line == Manifest(range, from, End(to))
<1>1. /\ file' = [NoLines EXCEPT !.manifest = <<line>>]
      /\ stream' = [NoStream EXCEPT !.at = "manifest", !.tenant = era,
                                    !.from = range.from, !.to = range.to]
      /\ UNCHANGED <<database, registry>>
  BY DEF StartExport
<1>2. TypeOK /\ Shapes /\ HeadPosition \in Int
  BY EndsAreNumbers DEF ProofInv, ExportInv
<1>3. End(to) \in Int /\ (from <= End(to) => End(to) <= HeadPosition)
  BY <1>2 DEF End, AtMost
<1>4. /\ line.tenant_id = era /\ line.from_position = range.from /\ line.to_position = range.to
      /\ line.requested_from = from /\ line.requested_to = End(to)
      /\ line.prev_hash = PrevHash(range.from) /\ line.server_public_key = ServerKey
  BY DEF Manifest
<1>5. PICK w : w = range
  OBVIOUS
<1>6. from <= End(to) =>
        /\ w.from <= w.to /\ w.to <= HeadPosition
        /\ \A i \in DOMAIN batches : Touches(batches[i], w.from, w.to) =>
             w.from <= batches[i].from_position /\ batches[i].to_position <= w.to
  BY <1>3, <1>5, WidenedIsWhole
<1> HIDE DEF range, line
<1>7. /\ stream'.at = "manifest" /\ stream'.tenant = era /\ stream'.from = w.from
      /\ stream'.to = w.to /\ stream'.roots = <<>>
  BY <1>1, <1>5 DEF NoStream
<1>8. /\ file'.manifest = <<line>> /\ file'.roots = <<>> /\ file'.torn = FALSE
  BY <1>1 DEF NoLines
<1>9. manifest' = line
  BY <1>8 DEF manifest
<1>10. DOMAIN stream'.roots = {} /\ DOMAIN file'.roots = {}
  BY <1>7, <1>8, NothingIsSeq
<1>11. era' = era /\ chain' = chain /\ payload' = payload /\ batches' = batches
  BY <1>1 DEF database
<1> SUFFICES ASSUME Honest'
             PROVE  HonestParts'
  BY DEF HonestStream, HonestParts
<1>12. from <= End(to)
  BY <1>4, <1>9 DEF Honest
<1>13. ManifestSays'
  BY <1>4, <1>5, <1>7, <1>8, <1>9, <1>11 DEF ManifestSays, PrevHash
<1>14. RangeIsWhole'
  BY <1>6, <1>7, <1>11, <1>12 DEF RangeIsWhole, Inside, Touches, HeadPosition
<1>15. LinesSay'
  BY <1>7 DEF LinesSay
<1>16. RootsSay'
  BY <1>10 DEF RootsSay
<1> QED
  BY <1>13, <1>14, <1>15, <1>16 DEF HonestParts

(* What is still to be sent of the chain. *)
LEMMA RowsLeftSay ==
  ASSUME ProofInv, HonestStream, Honest, Streaming
  PROVE  /\ Len(file.events) + Len(RowsLeft) = stream.to - stream.from + 1
         /\ \A i \in DOMAIN file.events : IsLine(file.events[i], stream.from + i - 1)
         /\ \A i \in DOMAIN RowsLeft :
              IsLine(RowsLeft[i], stream.from + Len(file.events) + i - 1)
<1>1. /\ ManifestSays /\ RangeIsWhole /\ LinesSay /\ TypeOK /\ Shapes /\ EventsFirst
      /\ Len(chain) \in Nat /\ DOMAIN chain = 1..Len(chain) /\ HeadPosition = Len(chain) - 1
      /\ stream.from \in Nat /\ stream.to \in Int
  BY SeqFacts DEF HonestStream, ProofInv, ExportInv, Shapes, TypeOK, HeadPosition
<1>2. stream.from <= stream.to /\ stream.to <= HeadPosition
  BY <1>1 DEF RangeIsWhole
<1>3. CASE stream.at # "manifest"
  BY <1>1, <1>3 DEF RowsLeft, LinesSay
<1>4. CASE stream.at = "manifest"
  <2> DEFINE n == AtMost(stream.to, HeadPosition) - stream.from + 1
             rows == [i \in 1..n |-> EventLine(chain[stream.from + i])]
             S == {EventLine(chain[stream.from + i]) : i \in 1..n}
  <2>1. RowsLeft = rows
    BY <1>1, <1>4 DEF RowsLeft, ChainRows, ManifestSays
  <2>2. AtMost(stream.to, HeadPosition) = stream.to
    BY <1>2 DEF AtMost
  <2>3. n = stream.to - stream.from + 1 /\ n \in Nat
    <3>1. n = stream.to - stream.from + 1
      BY <2>2
    <3> HIDE DEF n
    <3> QED
      BY <1>1, <1>2, <3>1
  <2>4. file.events = <<>>
    BY <1>1, <1>4 DEF EventsFirst
  <2>5. Len(file.events) = 0 /\ DOMAIN file.events = {}
    BY <2>4, NothingIsSeq
  <2>6. rows \in [1..n -> S] /\ DOMAIN rows = 1..n
    OBVIOUS
  <2>7. \A i \in 1..n : rows[i] = EventLine(chain[stream.from + i])
    OBVIOUS
  <2> HIDE DEF n, rows, S
  <2>8. IsSeq(rows)
    <3>1. n \in Int
      BY <2>3
    <3> QED
      BY <2>6, <3>1, FunctionSeq
  <2>9. Len(rows) = n
    <3>1. Len(rows) \in Nat /\ 1..Len(rows) = 1..n
      BY <2>6, <2>8, SeqFacts
    <3> QED
      BY <2>3, <3>1, SameLength
  <2>10. ASSUME NEW i \in 1..n
         PROVE  IsLine(rows[i], stream.from + Len(file.events) + i - 1)
    <3> DEFINE p == stream.from + i - 1
               at == stream.from + i
               row == chain[at]
               e == EventLine(row)
    <3>1. at \in DOMAIN chain /\ p \in 0..HeadPosition /\ p + 1 = at /\ at - 1 = p
      BY <1>1, <1>2, <2>3
    <3>2. stream.from + Len(file.events) + i - 1 = p
      BY <1>1, <2>5
    <3> HIDE DEF at, p
    <3>3. row.position = p
      BY <1>1, <3>1 DEF TypeOK
    <3>4. /\ e.tenant_id = era /\ e.id = row.id /\ e.position = row.position
          /\ e.action = row.action /\ e.target = row.target
          /\ e.payload_commit = row.payload_commit /\ e.prev_hash = row.prev_hash
          /\ e.event_hash = row.event_hash /\ e.server_sig = Sign(ServerKey, row.event_hash)
          /\ e.payload = IF row.position \in payload
                         THEN <<[salt |-> row.id, data |-> row.data]>> ELSE <<>>
      BY DEF EventLine
    <3>5. rows[i] = e
      BY <2>7 DEF at
    <3> HIDE DEF e
    <3>6. IsLine(e, p)
      BY <3>1, <3>3, <3>4 DEF IsLine
    <3> QED
      BY <3>2, <3>5, <3>6
  <2> QED
    BY <2>1, <2>3, <2>5, <2>6, <2>9, <2>10
<1> QED
  BY <1>3, <1>4

(* And of its batches. *)
LEMMA RootsLeftSay ==
  ASSUME ProofInv, BatchesOrdered, HonestStream, Honest, Streaming
  PROVE  \A i \in DOMAIN RootsLeft : \E j \in DOMAIN batches :
           Inside(batches[j]) /\ Tells(RootsLeft[i], batches[j])
<1>1. /\ ManifestSays /\ RangeIsWhole /\ RootsSay /\ TypeOK /\ Shapes
      /\ IsSeq(batches) /\ Len(batches) \in Nat /\ DOMAIN batches = 1..Len(batches)
      /\ stream.from \in Nat /\ stream.to \in Int
  BY SeqFacts DEF HonestStream, ProofInv, ExportInv, Shapes, TypeOK
<1>2. CASE stream.at = "roots"
  BY <1>1, <1>2 DEF RootsLeft, RootsSay
<1>3. CASE stream.at # "roots"
  <2>1. RootsLeft = Overlapping(stream.from, stream.to)
    BY <1>1, <1>3 DEF RootsLeft, RootRows, ManifestSays
  <2>2. PICK from, to : from = stream.from /\ to = stream.to
    OBVIOUS
  <2>3. CASE Found(from, to) = {}
    <3>1. {i \in DOMAIN batches : /\ batches[i].to_position >= from
                                  /\ batches[i].from_position <= to} = {}
      BY <2>3 DEF Found, Touches
    <3>2. Overlapping(from, to) = <<>>
      BY <3>1 DEF Overlapping
    <3>3. DOMAIN RootsLeft = {}
      BY <2>1, <2>2, <3>2, NothingIsSeq
    <3> QED
      BY <3>3
  <2>4. CASE Found(from, to) # {}
    <3>1. PICK m \in Found(from, to), n \in Found(from, to) :
            \A i \in DOMAIN Overlapping(from, to) :
              \E k \in m..n : Overlapping(from, to)[i] = batches[k]
      BY <1>1, <2>4, OverlappingEnds
    <3>2. m \in DOMAIN batches /\ n \in DOMAIN batches /\ Inside(batches[m]) /\ Inside(batches[n])
      BY <1>1, <2>2 DEF Found, RangeIsWhole
    <3>3. ASSUME NEW k \in m..n
          PROVE  k \in DOMAIN batches /\ Inside(batches[k])
      <4>1. k \in DOMAIN batches /\ m <= k /\ k <= n
        BY <1>1, <3>2
      <4>2. /\ batches[m].from_position <= batches[k].from_position
            /\ batches[k].to_position <= batches[n].to_position
            /\ batches[m].from_position \in Nat /\ batches[k].from_position \in Nat
            /\ batches[k].to_position \in Nat /\ batches[n].to_position \in Nat
        BY <3>2, <4>1, InOrder
      <4>3. stream.from <= batches[m].from_position /\ batches[n].to_position <= stream.to
        BY <3>2 DEF Inside
      <4>4. stream.from <= batches[k].from_position /\ batches[k].to_position <= stream.to
        BY <1>1, <4>2, <4>3
      <4> QED
        BY <4>1, <4>4 DEF Inside
    <3>4. \A b : Tells(b, b)
      BY DEF Tells
    <3> QED
      BY <2>1, <2>2, <3>1, <3>3, <3>4
  <2> QED
    BY <2>3, <2>4
<1> QED
  BY <1>2, <1>3

LEMMA PullEventStream ==
  ASSUME ProofInv, HonestStream, PullEvent
  PROVE  HonestStream'
<1> DEFINE rows == RowsLeft
           line == Head(rows)
           sent == Len(file.events)
<1>1. TypeOK /\ Shapes
  BY DEF ProofInv, ExportInv
<1>2. /\ Streaming /\ rows # <<>> /\ UNCHANGED <<database, registry>>
      /\ file' = [file EXCEPT !.events = Append(file.events, line)]
      /\ stream' = [stream EXCEPT !.at = "events", !.rows = Tail(rows)]
  BY DEF PullEvent
<1>3. IsSeq(rows)
  BY <1>2, RowsLeftFacts DEF ProofInv
<1>4. Honest /\ Streaming =>
        /\ sent + Len(rows) = stream.to - stream.from + 1
        /\ \A i \in DOMAIN file.events : IsLine(file.events[i], stream.from + i - 1)
        /\ \A i \in DOMAIN rows : IsLine(rows[i], stream.from + sent + i - 1)
  BY RowsLeftSay
<1> HIDE DEF rows
<1>5. /\ IsSeq(Tail(rows)) /\ 1 \in DOMAIN rows /\ line = rows[1]
      /\ \A i \in DOMAIN Tail(rows) : i + 1 \in DOMAIN rows /\ Tail(rows)[i] = rows[i + 1]
      /\ Len(Tail(rows)) = Len(rows) - 1 /\ Len(rows) \in Nat
      /\ DOMAIN Tail(rows) = 1..Len(Tail(rows)) /\ DOMAIN rows = 1..Len(rows)
  <2>1. Len(Tail(rows)) = Len(rows) - 1
    BY <1>2, <1>3, HeadTailProperties DEF IsSeq
  <2> QED
    BY <1>2, <1>3, <2>1, TailSeq, SeqFacts
<1> HIDE DEF line
<1>6. stream' = [at |-> "events", tenant |-> stream.tenant, from |-> stream.from, to |-> stream.to,
                 rows |-> Tail(rows), roots |-> stream.roots, quiet |-> stream.quiet]
  BY <1>1, <1>2 DEF Shapes, StreamIsRecord
<1>7. file' = [manifest |-> file.manifest, events |-> Append(file.events, line),
               roots |-> file.roots, torn |-> file.torn]
  BY <1>1, <1>2 DEF Shapes, FileIsRecord
<1>8. /\ stream'.at = "events" /\ stream'.tenant = stream.tenant /\ stream'.from = stream.from
      /\ stream'.to = stream.to /\ stream'.quiet = stream.quiet
      /\ stream'.rows = Tail(rows) /\ stream'.roots = stream.roots
  BY <1>6
<1>9. /\ file'.manifest = file.manifest /\ file'.events = Append(file.events, line)
      /\ file'.roots = file.roots /\ file'.torn = file.torn
  BY <1>7
<1>10. IsSeq(file.events) /\ sent \in Nat /\ DOMAIN file.events = 1..sent
  BY <1>1, SeqFacts DEF Shapes
<1>11. /\ Len(file'.events) = sent + 1 /\ DOMAIN file'.events = 1..(sent + 1)
       /\ \A i \in DOMAIN file.events : file'.events[i] = file.events[i]
       /\ file'.events[sent + 1] = line
  BY <1>9, <1>10, AppendSeq
<1>12. era' = era /\ chain' = chain /\ payload' = payload /\ batches' = batches
  BY <1>2 DEF database
<1>13. manifest' = manifest
  BY <1>9 DEF manifest
<1> SUFFICES ASSUME Honest'
             PROVE  HonestParts'
  BY DEF HonestStream, HonestParts
<1>14. Honest
  BY <1>2, <1>8, <1>13 DEF Honest, Streaming
<1>15. ManifestSays /\ RangeIsWhole /\ RootsSay
  BY <1>14 DEF HonestStream
<1>16. ManifestSays'
  BY <1>8, <1>9, <1>12, <1>13, <1>15 DEF ManifestSays, PrevHash
<1>17. RangeIsWhole'
  BY <1>8, <1>12, <1>15 DEF RangeIsWhole, Touches, Inside, HeadPosition
<1>18. RootsSay'
  BY <1>8, <1>9, <1>12, <1>15 DEF RootsSay, Inside, Tells
<1>19. ASSUME NEW e, NEW p, IsLine(e, p)
       PROVE  IsLine(e, p)'
  BY <1>12, <1>19 DEF IsLine, HeadPosition
<1>20. PICK from, n : from = stream.from /\ n = sent
  OBVIOUS
<1>21. /\ from \in Nat /\ n \in Nat
       /\ n + Len(rows) = stream.to - from + 1
       /\ \A i \in 1..n : IsLine(file.events[i], from + i - 1)
       /\ \A i \in DOMAIN rows : IsLine(rows[i], from + n + i - 1)
  BY <1>1, <1>2, <1>4, <1>10, <1>14, <1>20 DEF TypeOK
<1> HIDE DEF sent
<1>22. ASSUME NEW i \in 1..(n + 1)
       PROVE  IsLine(file'.events[i], from + i - 1)
  <2>1. CASE i \in 1..n
    BY <1>10, <1>11, <1>20, <1>21, <2>1
  <2>2. CASE i \notin 1..n
    <3>1. i = n + 1 /\ from + i - 1 = from + n + 1 - 1
      BY <1>21, <2>2
    <3>2. file'.events[i] = rows[1]
      BY <1>5, <1>11, <1>20, <3>1
    <3>3. IsLine(rows[1], from + n + 1 - 1)
      BY <1>5, <1>21
    <3> QED
      BY <3>1, <3>2, <3>3
  <2> QED
    BY <2>1, <2>2
<1>23. ASSUME NEW i \in DOMAIN Tail(rows)
       PROVE  IsLine(Tail(rows)[i], from + (n + 1) + i - 1)
  <2>1. i + 1 \in DOMAIN rows /\ Tail(rows)[i] = rows[i + 1] /\ i \in Nat
    BY <1>5
  <2>2. IsLine(rows[i + 1], from + n + (i + 1) - 1)
    BY <1>21, <2>1
  <2>3. from + n + (i + 1) - 1 = from + (n + 1) + i - 1
    BY <1>21, <2>1
  <2> QED
    BY <2>1, <2>2, <2>3
<1>24. (n + 1) + Len(Tail(rows)) = stream.to - from + 1
  <2>1. PICK k, m, d : k = Len(rows) /\ m = Len(Tail(rows)) /\ d = stream.to - from + 1
    OBVIOUS
  <2>2. k \in Nat /\ m = k - 1
    BY <1>5, <2>1
  <2>3. n \in Nat /\ n + k = d
    BY <1>21, <2>1
  <2>4. (n + 1) + m = d
    BY ONLY <2>2, <2>3
  <2> QED
    BY ONLY <2>1, <2>4
<1>25. LinesSay'
  <2>1. /\ Len(file'.events) = n + 1 /\ DOMAIN file'.events = 1..(n + 1)
        /\ stream'.from = from /\ stream'.to = stream.to /\ stream'.rows = Tail(rows)
    BY <1>8, <1>11, <1>20
  <2>2. \A i \in DOMAIN file'.events : IsLine(file.events[i], stream.from + i - 1)'
    <3> TAKE i \in DOMAIN file'.events
    <3>1. PICK e, p : e = file'.events[i] /\ p = from + i - 1
      OBVIOUS
    <3>2. IsLine(e, p)'
      BY <1>19, <1>22, <2>1, <3>1
    <3>3. e = file'.events[i] /\ p = stream'.from + i - 1
      BY <2>1, <3>1
    <3> QED
      BY <3>2, <3>3 DEF IsLine
  <2>3. \A i \in DOMAIN stream'.rows :
          IsLine(stream.rows[i], stream.from + Len(file.events) + i - 1)'
    <3> TAKE i \in DOMAIN stream'.rows
    <3>1. PICK e, p : e = stream'.rows[i] /\ p = from + (n + 1) + i - 1
      OBVIOUS
    <3>2. IsLine(e, p)'
      BY <1>19, <1>23, <2>1, <3>1
    <3>3. e = stream'.rows[i] /\ p = stream'.from + Len(file'.events) + i - 1
      BY <2>1, <3>1
    <3> QED
      BY <3>2, <3>3 DEF IsLine
  <2> QED
    BY <1>24, <2>1, <2>2, <2>3 DEF LinesSay
<1> QED
  BY <1>16, <1>17, <1>18, <1>25 DEF HonestParts

(* The events are out: they are the whole range. *)
LEMMA EventsOut ==
  ASSUME ProofInv, HonestStream, Honest, Streaming, RowsLeft = <<>>
  PROVE  /\ Len(file.events) = stream.to - stream.from + 1
         /\ \A i \in DOMAIN file.events : IsLine(file.events[i], stream.from + i - 1)
<1>1. /\ Len(file.events) + Len(RowsLeft) = stream.to - stream.from + 1
      /\ \A i \in DOMAIN file.events : IsLine(file.events[i], stream.from + i - 1)
  BY RowsLeftSay
<1>2. Len(RowsLeft) = 0
  OBVIOUS
<1>3. Len(file.events) \in Nat
  BY SeqFacts DEF ProofInv, ExportInv, Shapes
<1> QED
  BY <1>1, <1>2, <1>3

(* After that the lines of the events stay.                                *)
LEMMA EventsStay ==
  ASSUME ProofInv, HonestStream, Honest, Streaming, RowsLeft = <<>>,
         UNCHANGED <<era, chain, payload>>,
         stream'.from = stream.from, stream'.to = stream.to, stream'.rows = <<>>,
         file'.events = file.events
  PROVE  LinesSay'
<1>1. /\ Len(file.events) = stream.to - stream.from + 1
      /\ \A i \in DOMAIN file.events : IsLine(file.events[i], stream.from + i - 1)
  BY EventsOut
<1>2. DOMAIN stream'.rows = {} /\ Len(stream'.rows) = 0 /\ Len(file.events) \in Nat
  BY NothingIsSeq, SeqFacts DEF ProofInv, ExportInv, Shapes
<1>3. \A i \in DOMAIN file.events : IsLine(file.events[i], stream.from + i - 1)'
  <2> TAKE i \in DOMAIN file.events
  <2>1. PICK e, p : e = file.events[i] /\ p = stream.from + i - 1
    OBVIOUS
  <2>2. IsLine(e, p)
    BY <1>1, <2>1
  <2>3. IsLine(e, p)'
    BY <2>2 DEF IsLine, HeadPosition
  <2>4. e = file'.events[i] /\ p = stream'.from + i - 1
    BY <2>1
  <2> QED
    BY <2>3, <2>4 DEF IsLine
<1>4. Len(file'.events) + Len(stream'.rows) = stream'.to - stream'.from + 1
  BY <1>1, <1>2
<1> QED
  BY <1>2, <1>3, <1>4 DEF LinesSay

LEMMA PullRootStream ==
  ASSUME ProofInv, BatchesOrdered, HonestStream, PullRoot
  PROVE  HonestStream'
<1> DEFINE roots == RootsLeft
           b == Head(roots)
           line == RootLine(b)
<1>1. TypeOK /\ Shapes
  BY DEF ProofInv, ExportInv
<1>2. /\ Streaming /\ roots # <<>> /\ RowsLeft = <<>> /\ UNCHANGED <<database, registry>>
      /\ file' = [file EXCEPT !.roots = Append(file.roots, line)]
      /\ stream' = [stream EXCEPT !.at = "roots", !.rows = <<>>, !.roots = Tail(roots)]
  BY DEF PullRoot
<1>3. IsSeq(roots)
  BY <1>2, RootsLeftFacts DEF ProofInv
<1>4. Honest => \A i \in DOMAIN roots : \E j \in DOMAIN batches :
                  Inside(batches[j]) /\ Tells(roots[i], batches[j])
  BY <1>2, RootsLeftSay
<1> HIDE DEF roots
<1>5. /\ 1 \in DOMAIN roots /\ b = roots[1]
      /\ \A i \in DOMAIN Tail(roots) : i + 1 \in DOMAIN roots /\ Tail(roots)[i] = roots[i + 1]
  BY <1>2, <1>3, TailSeq
<1> HIDE DEF b
<1>6. Tells(line, b)
  BY DEF RootLine, Tells
<1> HIDE DEF line
<1>7. stream' = [at |-> "roots", tenant |-> stream.tenant, from |-> stream.from, to |-> stream.to,
                 rows |-> <<>>, roots |-> Tail(roots), quiet |-> stream.quiet]
  BY <1>1, <1>2 DEF Shapes, StreamIsRecord
<1>8. file' = [manifest |-> file.manifest, events |-> file.events,
               roots |-> Append(file.roots, line), torn |-> file.torn]
  BY <1>1, <1>2 DEF Shapes, FileIsRecord
<1>9. /\ stream'.at = "roots" /\ stream'.tenant = stream.tenant /\ stream'.from = stream.from
      /\ stream'.to = stream.to /\ stream'.quiet = stream.quiet
      /\ stream'.rows = <<>> /\ stream'.roots = Tail(roots)
  BY <1>7
<1>10. /\ file'.manifest = file.manifest /\ file'.events = file.events
       /\ file'.roots = Append(file.roots, line) /\ file'.torn = file.torn
  BY <1>8
<1>11. \A i \in DOMAIN file'.roots :
         \/ i \in DOMAIN file.roots /\ file'.roots[i] = file.roots[i]
         \/ file'.roots[i] = line
  <2>1. IsSeq(file.roots) /\ Len(file.roots) \in Nat /\ DOMAIN file.roots = 1..Len(file.roots)
    BY <1>1, SeqFacts DEF Shapes
  <2>2. /\ DOMAIN file'.roots = 1..(Len(file.roots) + 1)
        /\ \A i \in DOMAIN file.roots : file'.roots[i] = file.roots[i]
        /\ file'.roots[Len(file.roots) + 1] = line
    BY <1>10, <2>1, AppendSeq
  <2>3. \A i \in DOMAIN file'.roots : i \in DOMAIN file.roots \/ i = Len(file.roots) + 1
    BY <2>1, <2>2
  <2> QED
    BY <2>2, <2>3
<1>12. era' = era /\ chain' = chain /\ payload' = payload /\ batches' = batches
  BY <1>2 DEF database
<1>13. manifest' = manifest
  BY <1>10 DEF manifest
<1> SUFFICES ASSUME Honest'
             PROVE  HonestParts'
  BY DEF HonestStream, HonestParts
<1>14. Honest
  BY <1>2, <1>9, <1>13 DEF Honest, Streaming
<1>15. ManifestSays /\ RangeIsWhole /\ RootsSay
  BY <1>14 DEF HonestStream
<1>16. ManifestSays'
  BY <1>9, <1>10, <1>12, <1>13, <1>15 DEF ManifestSays, PrevHash
<1>17. RangeIsWhole'
  BY <1>9, <1>12, <1>15 DEF RangeIsWhole, Touches, Inside, HeadPosition
<1>18. LinesSay'
  BY <1>2, <1>9, <1>10, <1>12, <1>14, EventsStay
<1>19. RootsSay'
  <2>1. PICK k \in DOMAIN batches : Inside(batches[k]) /\ Tells(b, batches[k])
    BY <1>4, <1>5, <1>14
  <2>2. Tells(line, batches[k])
    BY <1>6, <2>1 DEF Tells
  <2>3. \A i \in DOMAIN file'.roots : \E j \in DOMAIN batches :
          Inside(batches[j]) /\ Tells(file'.roots[i], batches[j])
    <3> TAKE i \in DOMAIN file'.roots
    <3>1. CASE i \in DOMAIN file.roots /\ file'.roots[i] = file.roots[i]
      BY <1>15, <3>1 DEF RootsSay
    <3>2. CASE file'.roots[i] = line
      BY <2>1, <2>2, <3>2
    <3> QED
      BY <1>11, <3>1, <3>2
  <2>4. \A i \in DOMAIN Tail(roots) : \E j \in DOMAIN batches :
          Inside(batches[j]) /\ Tells(Tail(roots)[i], batches[j])
    BY <1>4, <1>5, <1>14
  <2> QED
    BY <1>9, <1>12, <2>3, <2>4 DEF RootsSay, Inside, Tells
<1> QED
  BY <1>16, <1>17, <1>18, <1>19 DEF HonestParts

LEMMA EndStream ==
  ASSUME ProofInv, HonestStream, EndExport
  PROVE  HonestStream'
<1>1. TypeOK /\ Shapes /\ EventsFirst
  BY DEF ProofInv, ExportInv
<1>2. /\ Streaming /\ RowsLeft = <<>> /\ UNCHANGED <<database, file>>
      /\ stream' = [stream EXCEPT !.at = "done"]
  BY DEF EndExport
<1>3. stream.rows = <<>>
  BY <1>1, <1>2 DEF EventsFirst, RowsLeft, Streaming
<1>4. stream' = [at |-> "done", tenant |-> stream.tenant, from |-> stream.from, to |-> stream.to,
                 rows |-> stream.rows, roots |-> stream.roots, quiet |-> stream.quiet]
  BY <1>1, <1>2 DEF Shapes, StreamIsRecord
<1>5. /\ stream'.at = "done" /\ stream'.tenant = stream.tenant /\ stream'.from = stream.from
      /\ stream'.to = stream.to /\ stream'.quiet = stream.quiet
      /\ stream'.rows = <<>> /\ stream'.roots = stream.roots
  BY <1>3, <1>4
<1>6. era' = era /\ chain' = chain /\ payload' = payload /\ batches' = batches /\ file' = file
  BY <1>2 DEF database
<1> SUFFICES ASSUME Honest'
             PROVE  HonestParts'
  BY DEF HonestStream, HonestParts
<1>7. Honest
  BY <1>2, <1>5, <1>6 DEF Honest, Streaming, manifest
<1>8. ManifestSays /\ RangeIsWhole /\ RootsSay
  BY <1>7 DEF HonestStream
<1>9. ManifestSays'
  BY <1>5, <1>6, <1>8 DEF ManifestSays, PrevHash, manifest
<1>10. RangeIsWhole'
  BY <1>5, <1>6, <1>8 DEF RangeIsWhole, Touches, Inside, HeadPosition
<1>11. LinesSay'
  BY <1>2, <1>5, <1>6, <1>7, EventsStay
<1>12. RootsSay'
  BY <1>5, <1>6, <1>8 DEF RootsSay, Inside, Tells
<1> QED
  BY <1>9, <1>10, <1>11, <1>12 DEF HonestParts

LEMMA LostStream ==
  ASSUME ProofInv, NEW torn, LoseConnection(torn)
  PROVE  HonestStream'
<1> DEFINE S == [at |-> stream.at, tenant |-> stream.tenant, from |-> stream.from,
                 to |-> stream.to, rows |-> stream.rows, roots |-> stream.roots,
                 quiet |-> stream.quiet]
<1>1. stream = S
  BY DEF ProofInv, ExportInv, Shapes, StreamIsRecord
<1>2. stream' = [S EXCEPT !.at = "lost", !.rows = <<>>, !.roots = <<>>]
  BY <1>1 DEF LoseConnection
<1>3. stream'.at = "lost"
  BY <1>2
<1> QED
  BY <1>3 DEF HonestStream, Honest

-------------------------------------------------------------------------------
(* The third invariant, and what follows from it.                          *)

LEMMA InitHonest == Init => HonestInv
<1> SUFFICES ASSUME Init
             PROVE  HonestInv
  OBVIOUS
<1>1. ProofInv
  BY InitProof
<1>2. chain = <<>> /\ batches = <<>> /\ globals = <<>> /\ stream = NoStream
  BY DEF Init
<1>3. DOMAIN chain = {} /\ DOMAIN batches = {} /\ DOMAIN globals = {} /\ HeadPosition = -1
  BY <1>2, NothingIsSeq DEF HeadPosition
<1>4. stream.at = "none"
  BY <1>2 DEF NoStream
<1>5. HonestStream
  BY <1>4 DEF HonestStream, Honest
<1>6. BatchesOrdered /\ RootsProper /\ LossesExplained
  BY <1>3 DEF BatchesOrdered, RootsProper, LossesExplained
<1> QED
  BY <1>1, <1>5, <1>6 DEF HonestInv

LEMMA StepHonest == HonestInv /\ [Next]_vars => HonestInv'
<1> SUFFICES ASSUME HonestInv, [Next]_vars
             PROVE  HonestInv'
  OBVIOUS
<1>1. /\ ProofInv /\ BatchesOrdered /\ RootsProper /\ LossesExplained /\ HonestStream
      /\ Shapes
  BY DEF HonestInv, ProofInv, ExportInv
<1>2. ProofInv'
  BY <1>1, StepProof
<1> SUFFICES BatchesOrdered' /\ RootsProper' /\ LossesExplained' /\ HonestStream'
  BY <1>2 DEF HonestInv
<1>3. CASE UNCHANGED database /\ UNCHANGED <<globals, stream, file>>
  BY <1>1, <1>3, OrderedStep, ProperStep, LossesKept, SameStream DEF database
<1>4. CASE Database
  <2>1. CASE Ingest
    <3>1. batches' = batches /\ globals' = globals
      BY <2>1 DEF Ingest, registry
    <3> QED
      BY <1>1, <2>1, <3>1, OrderedStep, ProperStep, LossesKept, IngestStream
  <2>2. CASE ResetProject
    <3>1. batches' = <<>> /\ globals' = globals /\ chain' = <<>> /\ Disturb
      BY <2>2 DEF ResetProject, registry
    <3> QED
      BY <1>1, <3>1, OrderedStep, ProperStep, LossesKept, DisturbedStream
  <2>3. ASSUME NEW p \in 0..HeadPosition, Erase(p) \/ ApplyRetention(p) \/ ShredUnrecorded(p)
        PROVE  BatchesOrdered' /\ RootsProper' /\ LossesExplained' /\ HonestStream'
    <3>1. batches' = batches /\ globals' = globals /\ Disturb
      BY <2>3 DEF Erase, ApplyRetention, ShredUnrecorded, registry
    <3> QED
      BY <1>1, <2>3, <3>1, OrderedStep, ProperStep, LossesKept, DisturbedStream
  <2> QED
    BY <1>4, <2>1, <2>2, <2>3 DEF Database
<1>5. CASE Anchoring
  <2>1. CASE Tick
    <3>1. chain' = chain /\ payload' = payload /\ silent' = silent /\ Disturb
      BY <2>1 DEF Tick
    <3> QED
      BY <1>1, <2>1, <3>1, OrderedStep, ProperStep, LossesKept, DisturbedStream
  <2>2. CASE TickCutOff
    <3>1. chain' = chain /\ payload' = payload /\ silent' = silent /\ globals' = globals /\ Disturb
      BY <2>2 DEF TickCutOff, registry
    <3> QED
      BY <1>1, <2>2, <3>1, OrderedStep, ProperStep, LossesKept, DisturbedStream
  <2>3. ASSUME NEW g \in 1..MaxTicks, UpgradeReceipt(g) \/ \E k \in Kinds : RecordReceipt(g, k)
        PROVE  UNCHANGED database /\ UNCHANGED <<globals, stream, file>>
    BY <2>3 DEF UpgradeReceipt, RecordReceipt
  <2> QED
    BY <1>3, <1>5, <2>1, <2>2, <2>3 DEF Anchoring
<1>6. CASE Export
  <2>1. UNCHANGED <<database, registry>>
    BY <1>6 DEF Export, StartExport, PullEvent, PullRoot, EndExport, LoseConnection
  <2>2. BatchesOrdered' /\ RootsProper' /\ LossesExplained'
    BY <1>1, <2>1, OrderedStep, ProperStep, LossesKept DEF database, registry
  <2>3. ASSUME NEW r \in Requests, StartExport(r[1], r[2])
        PROVE  HonestStream'
    <3>1. r[1] \in Nat /\ r[2] \in Int
      BY ConstantsAssumption
    <3> QED
      BY <1>1, <2>3, <3>1, StartStream
  <2> QED
    BY <1>1, <1>6, <2>2, <2>3, PullEventStream, PullRootStream, EndStream, LostStream DEF Export
<1>7. CASE UNCHANGED vars
  BY <1>3, <1>7 DEF vars, database, registry
<1> QED
  BY <1>4, <1>5, <1>6, <1>7 DEF Next

(* At any moment the batches of the tenant follow one another, every loss  *)
(* of a payload but those of a retention run that left no record is        *)
(* explained by a record, and an export nothing has disturbed has sent,    *)
(* and holds, the rows of its range and batches that lie in it.            *)
THEOREM HonestInvariant == Spec => []HonestInv
<1>1. Init => HonestInv
  BY InitHonest
<1>2. HonestInv /\ [Next]_vars => HonestInv'
  BY StepHonest
<1> QED
  BY <1>1, <1>2, PTL DEF Spec

(* An export the server finished undisturbed, of a range that exists, is   *)
(* called INVALID only for a batch in it without a global root, a payload  *)
(* in it that went without a record, or the record of a loss that is not   *)
(* to be read in it, however large it is and whatever was erased before    *)
(* (exportLines, applyRetention, verifyExport).                            *)
THEOREM HonestAlwaysVerify == Spec => []HonestExportVerifies
<1>1. HonestInv => HonestExportVerifies
  BY HonestHolds
<1> QED
  BY <1>1, HonestInvariant, PTL
===============================================================================
