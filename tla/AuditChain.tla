------------------------------ MODULE AuditChain ------------------------------
(***************************************************************************)
(* One project's SQLite database (packages/server: events.ts,              *)
(* tenantKeys.ts, applyRetention of anchorLoop.ts): the per-tenant hash    *)
(* chains, their payloads, the idempotency keys and the client-signature   *)
(* policy, and every handler that writes them.                             *)
(*                                                                         *)
(* The server is one Node process and node:sqlite is synchronous, so two   *)
(* handlers never interleave; what can come between two statements of a    *)
(* handler is the death of the process.  `work' is the database as the     *)
(* connection sees it, `disk' what a restart finds.  A statement inside a  *)
(* transaction changes work alone, COMMIT copies it to disk, ROLLBACK and  *)
(* a crash copy disk back; a statement outside one changes both.           *)
(*                                                                         *)
(* Hashes are ideal: event_hash is identified with the run of headers it   *)
(* commits to, payload_commit with the payload (a salt per event makes it  *)
(* hiding), GENESIS with the empty run.  Ids are drawn in insertion order, *)
(* which stands both for the random ids and for the order of received_at.  *)
(***************************************************************************)
EXTENDS Integers, Sequences, FiniteSets, SequencesExt

CONSTANTS
  Tenant,     \* external tenant ids
  Body,       \* what else a caller sends: actor, occurred_at, payload
  Malformed,  \* the bodies whose occurred_at is not ISO 8601
  Key,        \* idempotency keys
  EmptyKey,   \* the key "": falsy in JavaScript, a value like any other in SQLite
  ClientKey,  \* registrations of customer-held signing keys
  NoKey, NoSig, NoBody,
  Request,    \* the single-event inputs callers send
  Administered, \* bound: the tenants whose keys and policy change
  MaxBatch,   \* bound: inputs in one bulk call
  MaxEvents   \* bound: rows the callers and the jobs may add

ASSUME ConstantsAssumption ==
  /\ Malformed \subseteq Body
  /\ NoBody \notin Body
  /\ EmptyKey \in Key /\ NoKey \notin Key
  /\ NoSig \notin ClientKey
  /\ Administered \subseteq Tenant
  /\ MaxBatch \in Nat /\ MaxEvents \in Nat

(* "app" stands for every action the server and the verifier ignore. *)
Action == {"app", "payload.erased", "payload.retention_shred"}

(* A payload: the caller's body, or for the server's own events the id of  *)
(* the erased event or the last position a retention run went through.     *)
Data == [body: Body \cup {NoBody}, ref: Nat]
NoData == [body |-> NoBody, ref |-> 0]

(* What an idempotency key is tied to, and what stands for none. *)
Hashed == [action: Action, target: Nat, data: Data]
NoHash == [action |-> "app", target |-> 0, data |-> NoData]

Input == [tenant: Tenant, action: Action, target: Nat, data: Data,
          key: Key \cup {NoKey}, sig: ClientKey \cup {NoSig}]

(* The action of a request is any string, the server's own included. *)
ASSUME RequestAssumption == Request \subseteq Input

Header == [id: Nat, tenant: Tenant, position: Nat, action: Action,
           target: Nat, payload_commit: Data]
Hash == Seq(Header)
GENESIS == <<>>

Row == [header: Header, prev_hash: Hash, event_hash: Hash,
        key: Key \cup {NoKey}, idem_hash: Hashed, client_sig: ClientKey \cup {NoSig}]
Receipt == [tenant: Tenant, id: Nat, position: Nat, event_hash: Hash,
            prev_hash: Hash, duplicate: BOOLEAN]

\* head_hash and head_position, -1 before the first event
TenantHead == [hash: Hash, position: Nat \cup {-1}]

Database == [
  tenant: SUBSET Tenant,              \* external ids that have a row
  head: [Tenant -> TenantHead],
  event: [Tenant -> Seq(Row)],        \* rows in position order
  payload: SUBSET Nat,                \* event ids that still have a payload row
  tenant_key: [Tenant -> SUBSET ClientKey],   \* not revoked
  require_client_sig: SUBSET Tenant,
  rows: Nat]                          \* rows inserted so far, the last id

VARIABLES
  disk,       \* the committed database
  work,       \* the database with the open transaction's writes
  call,       \* the handler that is running
  delivered,  \* receipts that reached a caller (history)
  aged        \* ids whose payload a retention run deleted (history)

vars == <<disk, work, call, delivered, aged>>

(* What the running handler has still to insert, and what it will answer:  *)
(* "tx" is a caller's transaction and "job" the retention job's, between   *)
(* BEGIN and COMMIT; "retention" is between the job's DELETE and its       *)
(* BEGIN; "reply" is between COMMIT and the response.                      *)
Call == [at: {"idle", "tx", "retention", "job", "reply"},
         todo: Seq(Input), receipts: Seq(Receipt)]
Idle == [at |-> "idle", todo |-> <<>>, receipts |-> <<>>]

EmptyDatabase ==
  [tenant |-> {},
   head |-> [t \in Tenant |-> [hash |-> GENESIS, position |-> -1]],
   event |-> [t \in Tenant |-> <<>>],
   payload |-> {},
   tenant_key |-> [t \in Tenant |-> {}],
   require_client_sig |-> {},
   rows |-> 0]

Init ==
  /\ disk = EmptyDatabase
  /\ work = EmptyDatabase
  /\ call = Idle
  /\ delivered = {}
  /\ aged = {}

-------------------------------------------------------------------------------
(* Statements and helpers, over the database the connection sees.          *)

(* A statement outside any transaction commits at once. *)
Autocommit(db) == work' = db /\ disk' = db

GetOrCreateTenant(db, t) ==
  IF t \in db.tenant THEN db
  ELSE [db EXCEPT !.tenant = @ \cup {t},
                  !.head[t] = [hash |-> GENESIS, position |-> -1]]

Truthy(key) == key \notin {NoKey, EmptyKey}
BodyHash(in) ==
  IF Truthy(in.key) THEN [action |-> in.action, target |-> in.target, data |-> in.data]
  ELSE NoHash

RowsWithKey(db, t, key) ==
  {i \in DOMAIN db.event[t] : db.event[t][i].key = key}

(* The earlier row an idempotency key answers for. *)
IsDuplicate(db, in) == Truthy(in.key) /\ RowsWithKey(db, in.tenant, in.key) # {}
Original(db, in) ==
  db.event[in.tenant][CHOOSE i \in RowsWithKey(db, in.tenant, in.key) : TRUE]
IsConflict(db, in) ==
  /\ IsDuplicate(db, in)
  /\ Original(db, in).idem_hash \notin {NoHash, BodyHash(in)}

(* Mutant: the index is partial and leaves out the key "". *)
BreaksUniqueTruthy(db, in) == Truthy(in.key) /\ RowsWithKey(db, in.tenant, in.key) # {}

(* The INSERT fails on UNIQUE (tenant_id, idempotency_key). *)
BreaksUnique(db, in) == in.key # NoKey /\ RowsWithKey(db, in.tenant, in.key) # {}

(* Mutant: the event takes the head's position instead of the next one. *)
ChainEventOffByOne(db, in) ==
  LET head == db.head[in.tenant]
      prev == IF head.position < 0 THEN GENESIS ELSE head.hash
      header == [id |-> db.rows + 1, tenant |-> in.tenant,
                 position |-> head.position, action |-> in.action,
                 target |-> in.target, payload_commit |-> in.data]
  IN [header |-> header, prev_hash |-> prev, event_hash |-> Append(prev, header),
      key |-> in.key, idem_hash |-> BodyHash(in), client_sig |-> in.sig]

(* chainEvent: the row that extends the chain whose cached head is in db.  *)
ChainEvent(db, in) ==
  LET head == db.head[in.tenant]
      prev == IF head.position < 0 THEN GENESIS ELSE head.hash
      header == [id |-> db.rows + 1, tenant |-> in.tenant,
                 position |-> head.position + 1, action |-> in.action,
                 target |-> in.target, payload_commit |-> in.data]
  IN [header |-> header, prev_hash |-> prev, event_hash |-> Append(prev, header),
      key |-> in.key, idem_hash |-> BodyHash(in), client_sig |-> in.sig]

(* Mutant: the tenant's cached head_hash is left as it was. *)
InsertRowStaleHead(db, row) ==
  LET t == row.header.tenant
  IN [db EXCEPT !.event[t] = Append(@, row),
                !.payload = @ \cup {row.header.id},
                !.head[t].position = row.header.position,
                !.rows = @ + 1]

(* The event, its payload and the tenant's new head. *)
InsertRow(db, row) ==
  LET t == row.header.tenant
  IN [db EXCEPT !.event[t] = Append(@, row),
                !.payload = @ \cup {row.header.id},
                !.head[t] = [hash |-> row.event_hash, position |-> row.header.position],
                !.rows = @ + 1]

ReceiptOf(row, dup) ==
  [tenant |-> row.header.tenant, id |-> row.header.id,
   position |-> row.header.position, event_hash |-> row.event_hash,
   prev_hash |-> row.prev_hash, duplicate |-> dup]

(* checkClientSigs on one input: an unsigned event passes where no         *)
(* signature is required, a signed one where an unrevoked key verifies it. *)
SigAccepted(db, in) ==
  IF in.sig = NoSig THEN in.tenant \notin db.require_client_sig
  ELSE in.tenant \in db.tenant /\ in.sig \in db.tenant_key[in.tenant]

(* Mutant: only the first input of a bulk call is looked at. *)
CheckFirstSig(db, inputs) == inputs = <<>> \/ SigAccepted(db, inputs[1])

CheckClientSigs(db, inputs) ==
  \A i \in DOMAIN inputs : SigAccepted(db, inputs[i])

-------------------------------------------------------------------------------
(* POST /v1/events and /v1/events/bulk: the signature checks, then BEGIN.  *)
(* A batch that fails them changes nothing.                                *)
Ingest(batch) ==
  /\ call.at = "idle"
  /\ batch # <<>>
  /\ work.rows + Len(batch) <= MaxEvents
  /\ CheckClientSigs(work, batch)
  /\ call' = [Idle EXCEPT !.at = "tx", !.todo = batch]
  /\ UNCHANGED <<disk, work, delivered, aged>>

(* One round of ingest's loop, for the input at the head of todo. *)
InTransaction == call.at \in {"tx", "job"} /\ call.todo # <<>>

Advance(receipt) ==
  call' = [call EXCEPT !.todo = Tail(@), !.receipts = Append(@, receipt)]

InsertNext ==
  /\ InTransaction
  /\ LET in == Head(call.todo)
         db == GetOrCreateTenant(work, in.tenant)
         row == ChainEvent(db, in)
     IN /\ ~IsDuplicate(work, in)
        /\ ~BreaksUnique(work, in)
        /\ in.data.body \notin Malformed
        /\ work' = InsertRow(db, row)
        /\ Advance(ReceiptOf(row, FALSE))
  /\ UNCHANGED <<disk, delivered, aged>>

ReplayNext ==
  /\ InTransaction
  /\ LET in == Head(call.todo)
     IN /\ IsDuplicate(work, in)
        /\ ~IsConflict(work, in)
        /\ Advance(ReceiptOf(Original(work, in), TRUE))
  /\ UNCHANGED <<disk, work, delivered, aged>>

(* A key used with another body, a timestamp that is not ISO 8601 or a     *)
(* failing INSERT rolls the whole batch back.                              *)
AbortBatch ==
  /\ InTransaction
  /\ LET in == Head(call.todo)
     IN \/ IsConflict(work, in)
        \/ /\ ~IsDuplicate(work, in)
           /\ in.data.body \in Malformed \/ BreaksUnique(work, in)
  /\ work' = disk
  /\ call' = Idle
  /\ UNCHANGED <<disk, delivered, aged>>

(* Mutant: the answer leaves before COMMIT. *)
AnswerBeforeCommit ==
  /\ call.at \in {"tx", "job"} /\ call.todo = <<>>
  /\ call' = IF call.at = "tx" THEN [call EXCEPT !.at = "reply"] ELSE Idle
  /\ UNCHANGED <<disk, work, delivered, aged>>

Commit ==
  /\ call.at \in {"tx", "job"} /\ call.todo = <<>>
  /\ disk' = work
  /\ call' = IF call.at = "tx" THEN [call EXCEPT !.at = "reply"] ELSE Idle
  /\ UNCHANGED <<work, delivered, aged>>

(* The response reaches the caller; Crash stands for one that does not.    *)
Reply ==
  /\ call.at = "reply"
  /\ delivered' = delivered \cup Range(call.receipts)
  /\ call' = Idle
  /\ UNCHANGED <<disk, work, aged>>

(* The event a handler of the server's own appends to tenant t. *)
OwnEvent(t, action, target, ref) ==
  [tenant |-> t, action |-> action, target |-> target,
   data |-> [body |-> NoBody, ref |-> ref], key |-> NoKey, sig |-> NoSig]

ErasureRecord(t, id) == OwnEvent(t, "payload.erased", id, id)

HoldsEvent(db, t, id) == \E i \in DOMAIN db.event[t] : db.event[t][i].header.id = id

(* Mutant: the payload is deleted before the savepoint is opened. *)
EraseOutsideSavepoint(t, id) ==
  /\ call.at = "idle"
  /\ HoldsEvent(work, t, id) /\ id \in work.payload
  /\ work.rows < MaxEvents
  /\ SigAccepted(work, ErasureRecord(t, id))
  /\ Autocommit([work EXCEPT !.payload = @ \ {id}])
  /\ call' = [Idle EXCEPT !.at = "tx", !.todo = <<ErasureRecord(t, id)>>]
  /\ UNCHANGED <<delivered, aged>>

(* POST /v1/erase/:id: SAVEPOINT, DELETE, and ingest of the record inside  *)
(* it.  Where the policy refuses the unsigned record, all is rolled back.  *)
Erase(t, id) ==
  /\ call.at = "idle"
  /\ HoldsEvent(work, t, id) /\ id \in work.payload
  /\ work.rows < MaxEvents
  /\ SigAccepted(work, ErasureRecord(t, id))
  /\ work' = [work EXCEPT !.payload = @ \ {id}]
  /\ call' = [Idle EXCEPT !.at = "tx", !.todo = <<ErasureRecord(t, id)>>]
  /\ UNCHANGED <<disk, delivered, aged>>

-------------------------------------------------------------------------------
(* applyRetention, the job's pass over this project.                       *)

(* The rows of t received before the cutoff that still have a payload. *)
Expired(db, t, cutoff) ==
  {i \in DOMAIN db.event[t] :
     db.event[t][i].header.id <= cutoff /\ db.event[t][i].header.id \in db.payload}

(* One record per tenant with expired payloads, naming the last position   *)
(* (counted from 0) among them.                                            *)
LastExpired(db, t, cutoff) ==
  {i \in Expired(db, t, cutoff) : \A j \in Expired(db, t, cutoff) : j <= i}

ShredRecords(db, cutoff) ==
  UNION {{OwnEvent(t, "payload.retention_shred", 0, i - 1) :
            i \in LastExpired(db, t, cutoff)} : t \in Tenant}

(* The orders GROUP BY may return them in. *)
Orders(S) ==
  {s \in UNION {[1..n -> S] : n \in 1..MaxEvents} : IsInjective(s) /\ Range(s) = S}

(* The DELETE is a transaction of its own. *)
RetentionDelete(cutoff) ==
  /\ call.at = "idle"
  /\ \E todo \in Orders(ShredRecords(work, cutoff)) :
       /\ work.rows + Len(todo) <= MaxEvents
       /\ call' = [Idle EXCEPT !.at = "retention", !.todo = todo]
  /\ Autocommit([work EXCEPT !.payload = @ \ (1..cutoff)])
  /\ aged' = aged \cup (work.payload \cap 1..cutoff)
  /\ UNCHANGED delivered

RetentionIngest ==
  /\ call.at = "retention"
  /\ CheckClientSigs(work, call.todo)
  /\ call' = [call EXCEPT !.at = "job"]
  /\ UNCHANGED <<disk, work, delivered, aged>>

(* checkClientSigs throws: nobody catches it, and the timer callback ends  *)
(* the process with the payloads already gone.                             *)
RetentionRefused ==
  /\ call.at = "retention"
  /\ ~CheckClientSigs(work, call.todo)
  /\ call' = Idle
  /\ UNCHANGED <<disk, work, delivered, aged>>

-------------------------------------------------------------------------------
(* Tenant administration: single statements outside any transaction.       *)

CreateTenant(t) ==
  /\ call.at = "idle"
  /\ t \notin work.tenant
  /\ Autocommit(GetOrCreateTenant(work, t))
  /\ UNCHANGED <<call, delivered, aged>>

AddTenantKey(t, k) ==
  /\ call.at = "idle"
  /\ k \notin work.tenant_key[t]
  /\ Autocommit([GetOrCreateTenant(work, t) EXCEPT !.tenant_key[t] = @ \cup {k}])
  /\ UNCHANGED <<call, delivered, aged>>

RevokeTenantKey(t, k) ==
  /\ call.at = "idle"
  /\ k \in work.tenant_key[t]
  /\ Autocommit([work EXCEPT !.tenant_key[t] = @ \ {k}])
  /\ UNCHANGED <<call, delivered, aged>>

SetRequireClientSig(t, required) ==
  /\ call.at = "idle"
  /\ required # (t \in work.require_client_sig)
  /\ Autocommit([GetOrCreateTenant(work, t) EXCEPT
        !.require_client_sig = IF required THEN @ \cup {t} ELSE @ \ {t}])
  /\ UNCHANGED <<call, delivered, aged>>

(* The process dies, or only the response is lost: SQLite rolls an open    *)
(* transaction back when the file is next opened.                          *)
Crash ==
  /\ call.at # "idle"
  /\ work' = disk
  /\ call' = Idle
  /\ UNCHANGED <<disk, delivered, aged>>

-------------------------------------------------------------------------------
Batches == UNION {[1..n -> Request] : n \in 1..MaxBatch}

Handlers ==
  \/ \E batch \in Batches : Ingest(batch)
  \/ InsertNext \/ ReplayNext \/ AbortBatch \/ Commit \/ Reply
  \/ \E t \in Tenant, id \in 1..work.rows : Erase(t, id)
  \/ \E cutoff \in 1..work.rows : RetentionDelete(cutoff)
  \/ RetentionIngest \/ RetentionRefused
  \/ \E t \in Tenant : CreateTenant(t)
  \/ \E t \in Administered, k \in ClientKey : AddTenantKey(t, k) \/ RevokeTenantKey(t, k)
  \/ \E t \in Administered, required \in BOOLEAN : SetRequireClientSig(t, required)

Next == Handlers \/ Crash

Spec == Init /\ [][Next]_vars
SpecWithoutCrash == Init /\ [][Handlers]_vars
-------------------------------------------------------------------------------
(* What an export of the whole chain is checked against (core's            *)
(* verifyChain, verify's erasureRecorded).                                 *)

VerifyChain(rows, expectedPrev) ==
  \A i \in DOMAIN rows :
    /\ rows[i].header.position = rows[1].header.position + i - 1
    /\ rows[i].prev_hash = (IF i = 1 THEN expectedPrev ELSE rows[i - 1].event_hash)
    /\ rows[i].event_hash = Append(rows[i].prev_hash, rows[i].header)

(* A later record names the event, or a later shred record, its own        *)
(* payload still readable, went through the event's position.              *)
ErasureRecorded(db, t, i) ==
  \E j \in i+1..Len(db.event[t]) :
    LET r == db.event[t][j].header
    IN \/ /\ r.action = "payload.erased"
          /\ r.target = db.event[t][i].header.id
       \/ /\ r.action = "payload.retention_shred"
          /\ r.id \in db.payload
          /\ r.payload_commit.ref >= db.event[t][i].header.position

Missing(db, t) == {i \in DOMAIN db.event[t] : db.event[t][i].header.id \notin db.payload}

-------------------------------------------------------------------------------
(* Properties.                                                             *)

TypeOK ==
  /\ disk \in Database
  /\ work \in Database
  /\ call \in Call
  /\ delivered \subseteq Receipt
  /\ aged \subseteq Nat

(* The run of headers up to position n - 1. *)
HistoryOf(rows, n) == [j \in 1..n |-> rows[j].header]

(* On disk every tenant's rows form one chain from GENESIS: positions have *)
(* no gap, each event_hash commits to the whole run of headers before and  *)
(* at it, verifyChain accepts the chain, and the head cached in the tenant *)
(* row is the last event's.  Batches that roll back half way, savepoints   *)
(* and crashes must not separate the rows from the cached head.            *)
ChainIntact ==
  \A t \in Tenant :
    LET rows == disk.event[t]
        n == Len(rows)
    IN /\ \A i \in 1..n :
            /\ rows[i].header.tenant = t
            /\ rows[i].header.position = i - 1
            /\ rows[i].event_hash = HistoryOf(rows, i)
       /\ VerifyChain(rows, GENESIS)
       /\ disk.head[t] = [hash |-> HistoryOf(rows, n), position |-> n - 1]

(* A receipt in a caller's hands, first or replayed, describes the row     *)
(* that is on disk at its position, whatever crashed since.                *)
ReceiptsDurable ==
  \A r \in delivered :
    LET rows == disk.event[r.tenant]
    IN /\ r.position + 1 \in DOMAIN rows
       /\ rows[r.position + 1].header.id = r.id
       /\ rows[r.position + 1].event_hash = r.event_hash
       /\ rows[r.position + 1].prev_hash = r.prev_hash

(* However often a caller retries and wherever the server dies, a tenant   *)
(* has at most one event per idempotency key, the key "" included.         *)
OncePerKey ==
  \A t \in Tenant : \A i, j \in DOMAIN disk.event[t] :
    disk.event[t][i].key = disk.event[t][j].key /\ i # j
      => disk.event[t][i].key = NoKey

(* POST /v1/erase leaves no trace-less hole: a payload missing on disk is  *)
(* named by a later record of its chain, unless the retention job took it. *)
EraseNeverSilent ==
  \A t \in Tenant : \A i \in Missing(disk, t) :
    \/ disk.event[t][i].header.id \in aged
    \/ ErasureRecorded(disk, t, i)

(* While a tenant's policy demands client signatures, no row without one   *)
(* is committed to its chain, by a bulk call, an erasure or a job.         *)
SignedOnlyHonoured ==
  [][\A t \in disk.require_client_sig \cap disk'.require_client_sig :
       \A i \in DOMAIN disk'.event[t] \ DOMAIN disk.event[t] :
         disk'.event[t][i].client_sig # NoSig]_vars

(* The database, its transactions and its crashes implement the log that   *)
(* callers are promised: nothing acknowledged is ever lost or changed.     *)
Log == INSTANCE AppendOnlyLog WITH
  log <- [t \in Tenant |-> HistoryOf(disk.event[t], Len(disk.event[t]))],
  receipts <- {[tenant |-> r.tenant, history |-> r.event_hash] : r \in delivered}

ImplementsLog == Log!Spec

(* What the comment on erase and the README say of every shred: a payload  *)
(* that is gone is named by a record of its chain once no handler runs.    *)
NoSilentShred ==
  call.at = "idle" =>
    \A t \in Tenant : \A i \in Missing(disk, t) : ErasureRecorded(disk, t, i)

===============================================================================
