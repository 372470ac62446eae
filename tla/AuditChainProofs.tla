--------------------------- MODULE AuditChainProofs ---------------------------
(***************************************************************************)
(* Theorems about AuditChain, for any tenants, bodies, keys and bounds:    *)
(* its types, then the inductive invariant behind ChainIntact,             *)
(* ReceiptsDurable and OncePerKey, and those three.                        *)
(*                                                                         *)
(* Then what it promises over time.  It implements AppendOnlyLog: the      *)
(* initial states map to initial states and every step of the database     *)
(* maps to Commit, Acknowledge or a stutter.  And two promises about what  *)
(* the chains hold: no unsigned row in a tenant whose policy demands       *)
(* signatures (SignedOnlyHonoured), and no erased payload without its      *)
(* record (EraseNeverSilent).  Each of these has an inductive invariant of *)
(* its own on top of Inv.                                                  *)
(***************************************************************************)
EXTENDS AuditChain, SequenceTheorems, TLAPS

-------------------------------------------------------------------------------
(* Types of the operators the handlers are built from.                     *)

(* The fields of an input. *)
LEMMA InputType ==
  ASSUME NEW in \in Input
  PROVE  /\ in.tenant \in Tenant /\ in.action \in Action /\ in.target \in Nat
         /\ in.data \in Data /\ in.key \in Key \cup {NoKey}
         /\ in.sig \in ClientKey \cup {NoSig}
BY DEF Input

(* What the server itself appends is an input like any other. *)
LEMMA OwnEventType ==
  ASSUME NEW t \in Tenant, NEW action \in Action, NEW target \in Nat, NEW ref \in Nat
  PROVE  OwnEvent(t, action, target, ref) \in Input
BY DEF OwnEvent, Input, Data

(* getOrCreateTenant yields a database. *)
LEMMA GetOrCreateTenantType ==
  ASSUME NEW db \in Database, NEW t \in Tenant
  PROVE  GetOrCreateTenant(db, t) \in Database
<1> DEFINE h == [hash |-> GENESIS, position |-> -1]
<1>1. h \in TenantHead
  BY DEF GENESIS, Hash, TenantHead
<1> HIDE DEF h
<1>2. [db EXCEPT !.tenant = @ \cup {t}, !.head[t] = h] \in Database
  BY <1>1 DEF Database
<1> QED
  BY <1>2 DEF GetOrCreateTenant, h

(* chainEvent yields a row. *)
LEMMA ChainEventType ==
  ASSUME NEW db \in Database, NEW in \in Input
  PROVE  ChainEvent(db, in) \in Row
<1> DEFINE head == db.head[in.tenant]
           prev == IF head.position < 0 THEN GENESIS ELSE head.hash
           header == [id |-> db.rows + 1, tenant |-> in.tenant,
                      position |-> head.position + 1, action |-> in.action,
                      target |-> in.target, payload_commit |-> in.data]
<1>0. head \in TenantHead /\ db.rows + 1 \in Nat
  BY InputType DEF Database
<1>1. head.hash \in Hash /\ head.position + 1 \in Nat
  <2> HIDE DEF head
  <2> QED BY <1>0 DEF TenantHead
<1>2. header \in Header
  BY <1>0, <1>1, InputType DEF Header
<1>3. prev \in Seq(Header)
  BY <1>1 DEF GENESIS, Hash
<1>4. Append(prev, header) \in Seq(Header)
  BY <1>2, <1>3
<1>5. BodyHash(in) \in Hashed
  BY InputType DEF BodyHash, Hashed, NoHash, NoData, Data, Action
<1> QED
  BY <1>2, <1>3, <1>4, <1>5, InputType DEF ChainEvent, Row, Hash

(* The INSERTs and the UPDATE of the head yield a database. *)
LEMMA InsertRowType ==
  ASSUME NEW db \in Database, NEW row \in Row
  PROVE  InsertRow(db, row) \in Database
<1> DEFINE t == row.header.tenant
           h == [hash |-> row.event_hash, position |-> row.header.position]
           rows == Append(db.event[t], row)
<1>1. /\ t \in Tenant /\ row.header.id \in Nat
      /\ h \in TenantHead
  BY DEF Row, Header, TenantHead
<1>2. rows \in Seq(Row)
  BY <1>1 DEF Database
<1>3. /\ db.rows + 1 \in Nat
      /\ db.payload \cup {row.header.id} \in SUBSET Nat
  BY <1>1 DEF Database
<1> HIDE DEF h, t, rows
<1>4. [db EXCEPT !.event[t] = rows, !.payload = db.payload \cup {row.header.id},
                 !.head[t] = h, !.rows = db.rows + 1] \in Database
  BY <1>1, <1>2, <1>3 DEF Database
<1> QED
  BY <1>4 DEF InsertRow, t, h, rows

(* A receipt of a row is a receipt. *)
LEMMA ReceiptOfType ==
  ASSUME NEW row \in Row, NEW dup \in BOOLEAN
  PROVE  ReceiptOf(row, dup) \in Receipt
BY DEF Row, Header, Receipt, ReceiptOf

(* The row a duplicate is answered from is one of its tenant's. *)
LEMMA OriginalType ==
  ASSUME NEW db \in Database, NEW in \in Input, IsDuplicate(db, in)
  PROVE  \E i \in 1..Len(db.event[in.tenant]) : Original(db, in) = db.event[in.tenant][i]
<1>1. db.event[in.tenant] \in Seq(Row)
  BY InputType DEF Database
<1>2. PICK j : j = CHOOSE i \in RowsWithKey(db, in.tenant, in.key) : TRUE
  OBVIOUS
<1>3. j \in RowsWithKey(db, in.tenant, in.key)
  BY <1>2 DEF IsDuplicate
<1>4. j \in 1..Len(db.event[in.tenant])
  BY <1>1, <1>3 DEF RowsWithKey
<1> QED
  BY <1>2, <1>4 DEF Original

(* Batches and the retention job's records are sequences of inputs. *)
LEMMA BatchType ==
  ASSUME NEW batch \in Batches
  PROVE  batch \in Seq(Input)
<1>1. PICK n \in 1..MaxBatch : batch \in [1..n -> Request]
  BY DEF Batches
<1>2. n \in Nat
  BY ConstantsAssumption
<1>3. Request \subseteq Input
  BY RequestAssumption
<1> QED
  BY <1>1, <1>2, <1>3

LEMMA ShredRecordType ==
  ASSUME NEW db \in Database, NEW cutoff \in Nat
  PROVE  ShredRecords(db, cutoff) \subseteq Input
<1> SUFFICES ASSUME NEW t \in Tenant, NEW i \in LastExpired(db, t, cutoff)
             PROVE  OwnEvent(t, "payload.retention_shred", 0, i - 1) \in Input
  BY DEF ShredRecords
<1>1. i \in DOMAIN db.event[t]
  BY DEF LastExpired, Expired
<1>2. i - 1 \in Nat
  BY <1>1 DEF Database
<1> QED
  BY <1>2, OwnEventType DEF Action

LEMMA OrdersType ==
  ASSUME NEW S, S \subseteq Input, NEW todo \in Orders(S)
  PROVE  todo \in Seq(Input)
<1>1. PICK n \in 1..MaxEvents : todo \in [1..n -> S]
  BY DEF Orders
<1> QED
  BY <1>1, ConstantsAssumption

-------------------------------------------------------------------------------
(* What ingest's loop does to a database for one input that is neither a   *)
(* duplicate nor refused: the row it builds and the database it leaves.    *)
NewRow(db, in) == ChainEvent(GetOrCreateTenant(db, in.tenant), in)
Inserted(db, in) == InsertRow(GetOrCreateTenant(db, in.tenant), NewRow(db, in))

LEMMA InsertedType ==
  ASSUME NEW db \in Database, NEW in \in Input
  PROVE  /\ Inserted(db, in) \in Database
         /\ NewRow(db, in) \in Row
<1>1. GetOrCreateTenant(db, in.tenant) \in Database
  BY InputType, GetOrCreateTenantType
<1>2. NewRow(db, in) \in Row
  BY <1>1, ChainEventType DEF NewRow
<1> QED
  BY <1>1, <1>2, InsertRowType DEF Inserted

(* InsertNext in terms of Inserted. *)
LEMMA InsertNextIs ==
  ASSUME InsertNext, NEW in, in = Head(call.todo)
  PROVE  /\ InTransaction
         /\ ~IsDuplicate(work, in) /\ ~BreaksUnique(work, in)
         /\ work' = Inserted(work, in)
         /\ call' = [call EXCEPT !.todo = Tail(call.todo),
               !.receipts = Append(call.receipts,
                                     ReceiptOf(NewRow(work, in), FALSE))]
         /\ UNCHANGED <<disk, delivered, aged>>
BY DEF InsertNext, Inserted, NewRow, Advance

(* The input the loop is at, and the state of the handler after the round. *)
LEMMA HeadType ==
  ASSUME call \in Call, InTransaction
  PROVE  Head(call.todo) \in Input
<1>1. call.todo \in Seq(Input) /\ call.todo # <<>>
  BY DEF Call, InTransaction
<1> QED
  BY <1>1

LEMMA AdvanceType ==
  ASSUME call \in Call, InTransaction, NEW receipt \in Receipt
  PROVE  [call EXCEPT !.todo = Tail(call.todo),
                      !.receipts = Append(call.receipts, receipt)] \in Call
<1>1. /\ call.todo \in Seq(Input) /\ call.todo # <<>>
      /\ call.receipts \in Seq(Receipt)
  BY DEF Call, InTransaction
<1>2. /\ Tail(call.todo) \in Seq(Input)
      /\ Append(call.receipts, receipt) \in Seq(Receipt)
  BY <1>1
<1> QED
  BY <1>2 DEF Call

(* Idle, with the state, the work list and the receipts of a handler. *)
LEMMA CallType ==
  /\ Idle \in Call
  /\ \A at \in {"idle", "tx", "retention", "job", "reply"}, todo \in Seq(Input) :
       [Idle EXCEPT !.at = at, !.todo = todo] \in Call
  /\ call \in Call => \A at \in {"idle", "tx", "retention", "job", "reply"} :
       [call EXCEPT !.at = at] \in Call
<1>1. <<>> \in Seq(Input) /\ <<>> \in Seq(Receipt)
  OBVIOUS
<1>2. Idle \in Call
  BY <1>1 DEF Idle, Call
<1> QED
  BY <1>2 DEF Call

-------------------------------------------------------------------------------
(* Type correctness: every handler, every statement of it and every crash  *)
(* keeps the database, the running handler and the receipts well formed;   *)
(* in particular positions and ids stay naturals.                          *)

LEMMA InitType == Init => TypeOK
<1> SUFFICES ASSUME Init PROVE TypeOK
  OBVIOUS
<1>1. [hash |-> GENESIS, position |-> -1] \in TenantHead
  BY DEF TenantHead, GENESIS, Hash
<1>2. EmptyDatabase \in Database
  BY <1>1 DEF EmptyDatabase, Database
<1> QED
  BY <1>2, CallType DEF Init, TypeOK

LEMMA NextType == TypeOK /\ [Next]_vars => TypeOK'
<1> SUFFICES ASSUME TypeOK, [Next]_vars PROVE TypeOK'
  OBVIOUS
<1> USE DEF TypeOK
<1>1. ASSUME NEW batch \in Batches, Ingest(batch) PROVE TypeOK'
  BY <1>1, BatchType, CallType DEF Ingest
<1>2. CASE InsertNext
  <2> DEFINE in == Head(call.todo)
             row == NewRow(work, in)
  <2>1. in \in Input
    BY <1>2, HeadType DEF InsertNext
  <2>2. row \in Row /\ Inserted(work, in) \in Database
    BY <2>1, InsertedType
  <2>3. ReceiptOf(row, FALSE) \in Receipt
    BY <2>2, ReceiptOfType
  <2> HIDE DEF in
  <2> QED
    BY <1>2, <2>2, <2>3, InsertNextIs, AdvanceType DEF in
<1>3. CASE ReplayNext
  <2> DEFINE in == Head(call.todo)
  <2>1. in \in Input /\ IsDuplicate(work, in)
    BY <1>3, HeadType DEF ReplayNext
  <2>2. work.event[in.tenant] \in Seq(Row)
    BY <2>1, InputType DEF Database
  <2>3. Original(work, in) \in Row
    BY <2>1, <2>2, OriginalType
  <2>4. ReceiptOf(Original(work, in), TRUE) \in Receipt
    BY <2>3, ReceiptOfType
  <2> QED
    BY <1>3, <2>4, AdvanceType DEF ReplayNext, Advance
<1>4. CASE AbortBatch
  BY <1>4, CallType DEF AbortBatch
<1>5. CASE Commit
  BY <1>5, CallType DEF Commit
<1>6. CASE Reply
  <2>1. Range(call.receipts) \subseteq Receipt
    BY DEF Range, Call
  <2> QED
    BY <1>6, <2>1, CallType DEF Reply
<1>7. ASSUME NEW t \in Tenant, NEW id \in 1..work.rows, Erase(t, id) PROVE TypeOK'
  <2>1. id \in Nat
    BY DEF Database
  <2>2. ErasureRecord(t, id) \in Input
    BY <2>1, OwnEventType DEF ErasureRecord, Action
  <2>3. [work EXCEPT !.payload = @ \ {id}] \in Database
    BY DEF Database
  <2>4. <<ErasureRecord(t, id)>> \in Seq(Input)
    BY <2>2
  <2>5. [Idle EXCEPT !.at = "tx", !.todo = <<ErasureRecord(t, id)>>] \in Call
    BY <2>4, CallType
  <2> QED
    BY <1>7, <2>3, <2>5 DEF Erase
<1>8. ASSUME NEW cutoff \in 1..work.rows, RetentionDelete(cutoff) PROVE TypeOK'
  <2>1. cutoff \in Nat /\ work.payload \subseteq Nat
    BY DEF Database
  <2>2. [work EXCEPT !.payload = @ \ (1..cutoff)] \in Database
    BY DEF Database
  <2>3. PICK todo \in Orders(ShredRecords(work, cutoff)) :
          call' = [Idle EXCEPT !.at = "retention", !.todo = todo]
    BY <1>8 DEF RetentionDelete
  <2>4. todo \in Seq(Input)
    BY <2>1, <2>3, ShredRecordType, OrdersType
  <2>5. call' \in Call
    BY <2>3, <2>4, CallType
  <2> QED
    BY <1>8, <2>1, <2>2, <2>5 DEF RetentionDelete, Autocommit
<1>9. CASE RetentionIngest
  BY <1>9, CallType DEF RetentionIngest
<1>10. CASE RetentionRefused
  BY <1>10, CallType DEF RetentionRefused
<1>11. ASSUME NEW t \in Tenant, CreateTenant(t) PROVE TypeOK'
  BY <1>11, GetOrCreateTenantType DEF CreateTenant, Autocommit
<1>12. ASSUME NEW t \in Administered, NEW k \in ClientKey,
              AddTenantKey(t, k) \/ RevokeTenantKey(t, k)
       PROVE  TypeOK'
  <2>1. t \in Tenant
    BY ConstantsAssumption
  <2> DEFINE db == GetOrCreateTenant(work, t)
  <2>2. db \in Database
    BY <2>1, GetOrCreateTenantType
  <2> HIDE DEF db
  <2>3. /\ [db EXCEPT !.tenant_key[t] = @ \cup {k}] \in Database
        /\ [work EXCEPT !.tenant_key[t] = @ \ {k}] \in Database
    BY <2>1, <2>2 DEF Database
  <2> QED
    BY <1>12, <2>3 DEF AddTenantKey, RevokeTenantKey, Autocommit, db
<1>13. ASSUME NEW t \in Administered, NEW required \in BOOLEAN,
              SetRequireClientSig(t, required)
       PROVE  TypeOK'
  <2>1. t \in Tenant
    BY ConstantsAssumption
  <2> DEFINE db == GetOrCreateTenant(work, t)
  <2>2. db \in Database
    BY <2>1, GetOrCreateTenantType
  <2> HIDE DEF db
  <2>3. [db EXCEPT !.require_client_sig = IF required THEN @ \cup {t} ELSE @ \ {t}]
          \in Database
    BY <2>1, <2>2 DEF Database
  <2> QED
    BY <1>13, <2>3 DEF SetRequireClientSig, Autocommit, db
<1>14. CASE Crash
  BY <1>14, CallType DEF Crash
<1>15. CASE UNCHANGED vars
  BY <1>15 DEF vars
<1> QED
  BY <1>1, <1>2, <1>3, <1>4, <1>5, <1>6, <1>7, <1>8, <1>9, <1>10, <1>11, <1>12,
     <1>13, <1>14, <1>15 DEF Next, Handlers

(* Type correctness of the specification, for every value of the constants. *)
THEOREM TypeCorrect == Spec => []TypeOK
<1> QED
  BY InitType, NextType, PTL DEF Spec

-------------------------------------------------------------------------------
(* The rows of tenant t and its cached head, as inserting leaves them. *)
RowChained(db, t, i) ==
  LET rows == db.event[t]
  IN /\ rows[i].header.tenant = t
     /\ rows[i].header.position = i - 1
     /\ rows[i].prev_hash = HistoryOf(rows, i - 1)
     /\ rows[i].event_hash = HistoryOf(rows, i)

HeadCached(db, t) ==
  LET n == Len(db.event[t])
  IN db.head[t] = [hash |-> HistoryOf(db.event[t], n), position |-> n - 1]

(* A tenant has rows only once it has a tenant row, so that creating the   *)
(* tenant row never overwrites a head.                                     *)
WellChained(db) ==
  \A t \in Tenant :
    /\ t \notin db.tenant => db.event[t] = <<>>
    /\ \A i \in 1..Len(db.event[t]) : RowChained(db, t, i)
    /\ HeadCached(db, t)

KeysUnique(db) ==
  \A t \in Tenant : \A i, j \in 1..Len(db.event[t]) :
    db.event[t][i].key = db.event[t][j].key /\ i # j => db.event[t][i].key = NoKey

(* Every row of db is in later, at the same place. *)
Grown(db, later) ==
  \A t \in Tenant :
    /\ Len(db.event[t]) <= Len(later.event[t])
    /\ \A i \in 1..Len(db.event[t]) : later.event[t][i] = db.event[t][i]

(* The receipt describes the row at its position. *)
Matches(db, r) ==
  LET rows == db.event[r.tenant]
  IN /\ r.position + 1 \in 1..Len(rows)
     /\ rows[r.position + 1].header.id = r.id
     /\ rows[r.position + 1].event_hash = r.event_hash
     /\ rows[r.position + 1].prev_hash = r.prev_hash

Inv ==
  /\ WellChained(disk) /\ WellChained(work)
  /\ KeysUnique(disk) /\ KeysUnique(work)
  /\ Grown(disk, work)
  /\ call.at \notin {"tx", "job"} => work = disk
  /\ \A i \in 1..Len(call.receipts) : Matches(work, call.receipts[i])
  /\ \A r \in delivered : Matches(disk, r)

-------------------------------------------------------------------------------
(* Histories.                                                              *)

LEMMA HistoryType ==
  ASSUME NEW rows \in Seq(Row), NEW n \in 0..Len(rows)
  PROVE  /\ HistoryOf(rows, n) \in Seq(Header)
         /\ Len(HistoryOf(rows, n)) = n
         /\ \A i \in 1..n : HistoryOf(rows, n)[i] = rows[i].header
<1>1. \A i \in 1..n : rows[i] \in Row
  OBVIOUS
<1>2. \A i \in 1..n : rows[i].header \in Header
  BY <1>1 DEF Row
<1> QED
  BY <1>2 DEF HistoryOf

LEMMA HistoryEmpty ==
  ASSUME NEW rows \in Seq(Row)
  PROVE  HistoryOf(rows, 0) = <<>>
<1>1. 0 \in 0..Len(rows)
  OBVIOUS
<1>2. HistoryOf(rows, 0) \in Seq(Header) /\ Len(HistoryOf(rows, 0)) = 0
  BY <1>1, HistoryType
<1> QED
  BY <1>2

(* Appending a row leaves the histories before it, and adds one.           *)
LEMMA HistoryAppend ==
  ASSUME NEW rows \in Seq(Row), NEW row \in Row
  PROVE  /\ \A n \in 0..Len(rows) :
              HistoryOf(Append(rows, row), n) = HistoryOf(rows, n)
         /\ HistoryOf(Append(rows, row), Len(rows) + 1)
              = Append(HistoryOf(rows, Len(rows)), row.header)
<1> DEFINE more == Append(rows, row)
<1>1. /\ more \in Seq(Row) /\ Len(more) = Len(rows) + 1
      /\ \A i \in 1..Len(rows) : more[i] = rows[i]
      /\ more[Len(rows) + 1] = row
  OBVIOUS
<1> HIDE DEF more
<1>2. ASSUME NEW n \in 0..Len(rows) PROVE HistoryOf(more, n) = HistoryOf(rows, n)
  <2>1. \A i \in 1..n : more[i] = rows[i]
    BY <1>1
  <2> QED
    BY <2>1 DEF HistoryOf
<1>3. HistoryOf(more, Len(rows) + 1) = Append(HistoryOf(rows, Len(rows)), row.header)
  <2> DEFINE left == HistoryOf(more, Len(rows) + 1)
             right == Append(HistoryOf(rows, Len(rows)), row.header)
  <2>1. /\ left \in Seq(Header) /\ Len(left) = Len(rows) + 1
        /\ \A i \in 1..Len(rows) + 1 : left[i] = more[i].header
    BY <1>1, HistoryType
  <2>2. row.header \in Header
    BY DEF Row
  <2>3. /\ HistoryOf(rows, Len(rows)) \in Seq(Header)
        /\ Len(HistoryOf(rows, Len(rows))) = Len(rows)
        /\ \A i \in 1..Len(rows) : HistoryOf(rows, Len(rows))[i] = rows[i].header
    BY HistoryType
  <2>4. /\ right \in Seq(Header) /\ Len(right) = Len(rows) + 1
        /\ \A i \in 1..Len(rows) : right[i] = rows[i].header
        /\ right[Len(rows) + 1] = row.header
    BY <2>2, <2>3
  <2>5. \A i \in 1..Len(rows) + 1 : left[i] = right[i]
    BY <1>1, <2>1, <2>4
  <2> HIDE DEF left, right
  <2>6. left = right
    BY <2>1, <2>4, <2>5, SeqEqual
  <2> QED
    BY <2>6 DEF left, right
<1> QED
  BY <1>2, <1>3 DEF more

-------------------------------------------------------------------------------
(* One insertion.                                                          *)

(* In a well-chained database getOrCreateTenant changes the tenant rows alone. *)
LEMMA CreateKeepsHeads ==
  ASSUME NEW db \in Database, NEW t \in Tenant, WellChained(db)
  PROVE  /\ GetOrCreateTenant(db, t).event = db.event
         /\ GetOrCreateTenant(db, t).head = db.head
         /\ GetOrCreateTenant(db, t).rows = db.rows
         /\ GetOrCreateTenant(db, t).payload = db.payload
         /\ GetOrCreateTenant(db, t).tenant = db.tenant \cup {t}
<1>1. CASE t \in db.tenant
  BY <1>1 DEF GetOrCreateTenant
<1>2. CASE t \notin db.tenant
  <2>1. db.event \in [Tenant -> Seq(Row)] /\ db.head \in [Tenant -> TenantHead]
    BY DEF Database
  <2>2. db.event[t] = <<>>
    BY <1>2 DEF WellChained
  <2>3. db.head[t] = [hash |-> GENESIS, position |-> -1]
    <3>1. HistoryOf(db.event[t], 0) = <<>>
      BY <2>1, HistoryEmpty
    <3>2. Len(db.event[t]) = 0
      BY <2>2
    <3>3. HeadCached(db, t)
      BY DEF WellChained
    <3> QED
      BY <3>1, <3>2, <3>3 DEF HeadCached, GENESIS
  <2> DEFINE h == [hash |-> GENESIS, position |-> -1]
  <2> HIDE DEF h
  <2>4. [db.head EXCEPT ![t] = h] = db.head
    BY <2>1, <2>3 DEF h
  <2>5. [db EXCEPT !.tenant = @ \cup {t}, !.head[t] = h].head = [db.head EXCEPT ![t] = h]
    BY DEF Database
  <2> QED
    BY <1>2, <2>4, <2>5 DEF GetOrCreateTenant, Database, h
<1> QED
  BY <1>1, <1>2

(* The inserted row and the database after it, in terms of the one before. *)
LEMMA InsertedEffect ==
  ASSUME NEW db \in Database, NEW in \in Input, WellChained(db)
  PROVE  LET row == NewRow(db, in) IN
         /\ row \in Row
         /\ row.header.tenant = in.tenant
         /\ row.header.id = db.rows + 1
         /\ row.header.position = Len(db.event[in.tenant])
         /\ row.header.action = in.action /\ row.header.target = in.target
         /\ row.key = in.key /\ row.client_sig = in.sig
         /\ row.prev_hash = HistoryOf(db.event[in.tenant], Len(db.event[in.tenant]))
         /\ row.event_hash = Append(row.prev_hash, row.header)
         /\ Inserted(db, in).event = [db.event EXCEPT ![in.tenant] = Append(@, row)]
         /\ Inserted(db, in).head = [db.head EXCEPT ![in.tenant] =
              [hash |-> row.event_hash, position |-> row.header.position]]
         /\ Inserted(db, in).tenant = db.tenant \cup {in.tenant}
         /\ Inserted(db, in).payload = db.payload \cup {db.rows + 1}
         /\ Inserted(db, in).rows = db.rows + 1
<1> DEFINE t == in.tenant
           row == NewRow(db, in)
           made == GetOrCreateTenant(db, t)
           rows == db.event[t]
<1>1. t \in Tenant
  BY InputType
<1>2. made \in Database /\ row \in Row
  BY <1>1, GetOrCreateTenantType, InsertedType
<1>3. /\ made.event = db.event /\ made.head = db.head /\ made.rows = db.rows
      /\ made.payload = db.payload /\ made.tenant = db.tenant \cup {t}
  BY <1>1, CreateKeepsHeads
<1>4. rows \in Seq(Row) /\ Len(rows) \in Nat
  BY <1>1 DEF Database
<1>5. db.head[t] = [hash |-> HistoryOf(rows, Len(rows)), position |-> Len(rows) - 1]
  BY <1>1 DEF WellChained, HeadCached
<1> HIDE DEF made, rows
<1>6. (IF made.head[t].position < 0 THEN GENESIS ELSE made.head[t].hash)
        = HistoryOf(rows, Len(rows))
  <2>1. CASE Len(rows) = 0
    <3>1. HistoryOf(rows, Len(rows)) = GENESIS
      BY <1>4, <2>1, HistoryEmpty DEF GENESIS
    <3>2. made.head[t].hash = GENESIS
      BY <1>3, <1>5, <3>1
    <3> QED
      BY <3>1, <3>2
  <2>2. CASE Len(rows) # 0
    BY <1>3, <1>4, <1>5, <2>2
  <2> QED
    BY <2>1, <2>2
<1>7. /\ row.header.tenant = t /\ row.header.id = db.rows + 1
      /\ row.header.position = Len(rows)
      /\ row.header.action = in.action /\ row.header.target = in.target
      /\ row.key = in.key /\ row.client_sig = in.sig
  BY <1>3, <1>4, <1>5 DEF ChainEvent, NewRow, made
<1>8. /\ row.prev_hash = HistoryOf(rows, Len(rows))
      /\ row.event_hash = Append(row.prev_hash, row.header)
  BY <1>6 DEF ChainEvent, NewRow, made
<1>9. Inserted(db, in) = InsertRow(made, row)
  BY DEF Inserted, made
<1> DEFINE h == [hash |-> row.event_hash, position |-> row.header.position]
<1> HIDE DEF h
<1>10. InsertRow(made, row)
         = [made EXCEPT !.event[row.header.tenant] = Append(@, row),
                        !.payload = @ \cup {row.header.id},
                        !.head[row.header.tenant] = h,
                        !.rows = @ + 1]
  BY DEF InsertRow, h
<1>11. /\ InsertRow(made, row).event = [made.event EXCEPT ![t] = Append(@, row)]
       /\ InsertRow(made, row).head = [made.head EXCEPT ![t] = h]
       /\ InsertRow(made, row).tenant = made.tenant
       /\ InsertRow(made, row).payload = made.payload \cup {row.header.id}
       /\ InsertRow(made, row).rows = made.rows + 1
  BY <1>2, <1>7, <1>10 DEF Database
<1> QED
  BY <1>2, <1>3, <1>7, <1>8, <1>9, <1>11 DEF h, rows
-------------------------------------------------------------------------------
(* How the parts of the invariant pass from a database to a later one.     *)

(* The named tenant's rows after an insertion; the others are untouched. *)
LEMMA InsertedRows ==
  ASSUME NEW db \in Database, NEW in \in Input, WellChained(db)
  PROVE  LET row == NewRow(db, in)
             rows == db.event[in.tenant]
             more == Inserted(db, in).event[in.tenant]
         IN /\ rows \in Seq(Row) /\ more \in Seq(Row)
            /\ more = Append(rows, row)
            /\ Len(more) = Len(rows) + 1
            /\ \A i \in 1..Len(rows) : more[i] = rows[i]
            /\ more[Len(rows) + 1] = row
            /\ \A t \in Tenant \ {in.tenant} :
                 /\ Inserted(db, in).event[t] = db.event[t]
                 /\ Inserted(db, in).head[t] = db.head[t]
            /\ Inserted(db, in).head[in.tenant]
                 = [hash |-> row.event_hash, position |-> row.header.position]
<1> DEFINE t == in.tenant
           rows == db.event[t]
           more == Inserted(db, in).event[t]
           row == NewRow(db, in)
<1>1. /\ t \in Tenant /\ db.event \in [Tenant -> Seq(Row)]
      /\ db.head \in [Tenant -> TenantHead]
  BY InputType DEF Database
<1>2. /\ row \in Row
      /\ Inserted(db, in).event = [db.event EXCEPT ![t] = Append(@, row)]
      /\ Inserted(db, in).head = [db.head EXCEPT ![t] =
              [hash |-> row.event_hash, position |-> row.header.position]]
  BY InsertedEffect
<1>3. rows \in Seq(Row) /\ more = Append(rows, row)
  BY <1>1, <1>2
<1>4. /\ more \in Seq(Row) /\ Len(more) = Len(rows) + 1
      /\ \A i \in 1..Len(rows) : more[i] = rows[i]
      /\ more[Len(rows) + 1] = row
  <2> HIDE DEF rows, more
  <2> QED BY <1>2, <1>3
<1>5. /\ \A u \in Tenant \ {t} : /\ Inserted(db, in).event[u] = db.event[u]
                                 /\ Inserted(db, in).head[u] = db.head[u]
      /\ Inserted(db, in).head[t]
           = [hash |-> row.event_hash, position |-> row.header.position]
  BY <1>1, <1>2
<1> QED
  BY <1>3, <1>4, <1>5

LEMMA InsertedWellChained ==
  ASSUME NEW db \in Database, NEW in \in Input, WellChained(db)
  PROVE  WellChained(Inserted(db, in))
<1> DEFINE t == in.tenant
           later == Inserted(db, in)
           rows == db.event[t]
           more == later.event[t]
           n == Len(rows)
<1> DEFINE row == NewRow(db, in)
<1>1. /\ row \in Row /\ row.header.tenant = t /\ row.header.position = n
      /\ row.prev_hash = HistoryOf(rows, n)
      /\ row.event_hash = Append(row.prev_hash, row.header)
      /\ later.tenant = db.tenant \cup {t}
  BY InsertedEffect
<1>2. /\ rows \in Seq(Row) /\ more \in Seq(Row)
      /\ more = Append(rows, row)
      /\ Len(more) = n + 1
      /\ \A i \in 1..n : more[i] = rows[i]
      /\ more[n + 1] = row
      /\ \A u \in Tenant \ {t} : later.event[u] = db.event[u] /\ later.head[u] = db.head[u]
      /\ later.head[t] = [hash |-> row.event_hash, position |-> row.header.position]
  BY InsertedRows
<1>3. t \in Tenant
  BY InputType
<1> HIDE DEF t, later, rows, more
<1>4. /\ \A i \in 0..n : HistoryOf(more, i) = HistoryOf(rows, i)
      /\ HistoryOf(more, n + 1) = Append(HistoryOf(rows, n), row.header)
  BY <1>1, <1>2, HistoryAppend
<1>5. n \in Nat
  BY <1>2
<1> HIDE DEF n
<1>6. row.event_hash = HistoryOf(more, n + 1) /\ row.prev_hash = HistoryOf(more, n)
  BY <1>1, <1>4, <1>5
<1>7. ASSUME NEW i \in 1..n + 1 PROVE RowChained(later, t, i)
  <2>1. CASE i = n + 1
    <3>1. /\ i - 1 = n /\ more[i] = row
      BY <1>2, <1>5, <2>1
    <3> QED
      BY <1>1, <1>6, <2>1, <3>1 DEF RowChained, more
  <2>2. CASE i # n + 1
    <3>1. /\ i \in 1..n /\ i \in 0..n /\ i - 1 \in 0..n
      BY <1>5, <2>2
    <3>2. RowChained(db, t, i)
      BY <1>3, <3>1 DEF WellChained, n, rows
    <3> QED
      BY <1>2, <1>4, <3>1, <3>2 DEF RowChained, rows, more
  <2> QED
    BY <2>1, <2>2
<1>8. HeadCached(later, t)
  <2>1. later.head[t] = [hash |-> HistoryOf(more, n + 1), position |-> n]
    BY <1>1, <1>2, <1>6
  <2>2. Len(more) = n + 1 /\ Len(more) - 1 = n
    BY <1>2, <1>5
  <2> QED
    BY <2>1, <2>2 DEF HeadCached, more
<1>9. ASSUME NEW u \in Tenant \ {t}
      PROVE  /\ u \notin later.tenant => later.event[u] = <<>>
             /\ \A i \in 1..Len(later.event[u]) : RowChained(later, u, i)
             /\ HeadCached(later, u)
  <2>1. /\ later.event[u] = db.event[u] /\ later.head[u] = db.head[u]
        /\ u \in later.tenant <=> u \in db.tenant
    BY <1>1, <1>2
  <2>2. /\ u \notin db.tenant => db.event[u] = <<>>
        /\ \A i \in 1..Len(db.event[u]) : RowChained(db, u, i)
        /\ HeadCached(db, u)
    BY DEF WellChained
  <2> QED
    BY <2>1, <2>2 DEF RowChained, HeadCached
<1>10. /\ t \in later.tenant
       /\ \A i \in 1..Len(later.event[t]) : RowChained(later, t, i)
       /\ HeadCached(later, t)
  BY <1>1, <1>2, <1>7, <1>8 DEF more
<1> QED
  BY <1>9, <1>10 DEF WellChained, later

LEMMA InsertedKeysUnique ==
  ASSUME NEW db \in Database, NEW in \in Input, WellChained(db), KeysUnique(db),
         ~BreaksUnique(db, in)
  PROVE  KeysUnique(Inserted(db, in))
<1> DEFINE t == in.tenant
           later == Inserted(db, in)
           rows == db.event[t]
           more == later.event[t]
           n == Len(rows)
<1> DEFINE row == NewRow(db, in)
<1>1. row.key = in.key
  BY InsertedEffect
<1>2. /\ rows \in Seq(Row) /\ Len(more) = n + 1
      /\ \A i \in 1..n : more[i] = rows[i]
      /\ more[n + 1] = row
      /\ \A u \in Tenant \ {t} : later.event[u] = db.event[u]
  BY InsertedRows
<1>3. t \in Tenant
  BY InputType
<1> HIDE DEF later, rows, more
<1>4. in.key # NoKey => \A i \in 1..n : rows[i].key # in.key
  BY <1>2 DEF BreaksUnique, RowsWithKey, rows
<1>5. n \in Nat
  BY <1>2
<1> HIDE DEF n, t
<1>6. ASSUME NEW i \in 1..n + 1, NEW j \in 1..n + 1, more[i].key = more[j].key, i # j
      PROVE  more[i].key = NoKey
  <2>1. CASE i \in 1..n /\ j \in 1..n
    BY <1>2, <1>3, <1>6, <2>1 DEF KeysUnique, n, rows
  <2>2. CASE i \notin 1..n
    <3>1. i = n + 1 /\ j \in 1..n
      BY <1>5, <1>6, <2>2
    <3> QED
      BY <1>1, <1>2, <1>4, <1>6, <3>1
  <2>3. CASE j \notin 1..n
    <3>1. j = n + 1 /\ i \in 1..n
      BY <1>5, <1>6, <2>3
    <3> QED
      BY <1>1, <1>2, <1>4, <1>6, <3>1
  <2> QED
    BY <2>1, <2>2, <2>3
<1>7. ASSUME NEW u \in Tenant, NEW i \in 1..Len(later.event[u]),
             NEW j \in 1..Len(later.event[u]),
             later.event[u][i].key = later.event[u][j].key, i # j
      PROVE  later.event[u][i].key = NoKey
  <2>1. CASE u = t
    BY <1>2, <1>6, <1>7, <2>1 DEF more
  <2>2. CASE u # t
    BY <1>2, <1>7, <2>2 DEF KeysUnique
  <2> QED
    BY <2>1, <2>2
<1> QED
  BY <1>7 DEF KeysUnique, later

LEMMA InsertedGrows ==
  ASSUME NEW db \in Database, NEW in \in Input, WellChained(db)
  PROVE  Grown(db, Inserted(db, in))
<1> DEFINE row == NewRow(db, in)
<1>2. /\ db.event[in.tenant] \in Seq(Row)
      /\ Len(Inserted(db, in).event[in.tenant]) = Len(db.event[in.tenant]) + 1
      /\ \A i \in 1..Len(db.event[in.tenant]) :
           Inserted(db, in).event[in.tenant][i] = db.event[in.tenant][i]
      /\ \A t \in Tenant \ {in.tenant} : Inserted(db, in).event[t] = db.event[t]
  BY InsertedRows
<1>3. in.tenant \in Tenant /\ \A t \in Tenant : Len(db.event[t]) \in Nat
  BY InputType DEF Database
<1> DEFINE later == Inserted(db, in)
<1> HIDE DEF row, later
<1>4. ASSUME NEW t \in Tenant
      PROVE  /\ Len(db.event[t]) <= Len(later.event[t])
             /\ \A i \in 1..Len(db.event[t]) : later.event[t][i] = db.event[t][i]
  <2>1. CASE t = in.tenant
    <3>1. Len(later.event[t]) = Len(db.event[t]) + 1 /\ Len(db.event[t]) \in Nat
      BY <1>2, <1>3, <2>1 DEF later
    <3>2. \A i \in 1..Len(db.event[t]) : later.event[t][i] = db.event[t][i]
      BY <1>2, <2>1 DEF later
    <3> QED
      BY <3>1, <3>2
  <2>2. CASE t # in.tenant
    <3>1. later.event[t] = db.event[t]
      BY <1>2, <2>2 DEF later
    <3> QED
      BY <1>3, <3>1
  <2> QED
    BY <2>1, <2>2
<1> QED
  BY <1>4 DEF Grown, later

(* The receipt of an inserted row, and of the row a duplicate names. *)
LEMMA InsertedMatches ==
  ASSUME NEW db \in Database, NEW in \in Input, WellChained(db)
  PROVE  Matches(Inserted(db, in),
                 ReceiptOf(NewRow(db, in), FALSE))
<1> DEFINE row == NewRow(db, in)
<1>1. row.header.tenant = in.tenant /\ row.header.position = Len(db.event[in.tenant])
  BY InsertedEffect
<1>2. /\ db.event[in.tenant] \in Seq(Row)
      /\ Len(Inserted(db, in).event[in.tenant]) = Len(db.event[in.tenant]) + 1
      /\ Inserted(db, in).event[in.tenant][Len(db.event[in.tenant]) + 1] = row
  BY InsertedRows
<1> DEFINE r == ReceiptOf(row, FALSE)
<1>3. /\ r.tenant = in.tenant /\ r.position = Len(db.event[in.tenant])
      /\ r.id = row.header.id /\ r.event_hash = row.event_hash
      /\ r.prev_hash = row.prev_hash
  BY <1>1 DEF ReceiptOf
<1> HIDE DEF row, r
<1>4. r.position + 1 \in 1..Len(Inserted(db, in).event[r.tenant])
  <2> DEFINE n == Len(db.event[in.tenant])
  <2>1. n \in Nat /\ r.position = n
    BY <1>2, <1>3
  <2>2. Len(Inserted(db, in).event[r.tenant]) = n + 1
    BY <1>2, <1>3
  <2> HIDE DEF n
  <2> QED
    BY <2>1, <2>2
<1>5. Matches(Inserted(db, in), r)
  BY <1>2, <1>3, <1>4 DEF Matches
<1> QED
  BY <1>5 DEF r, row

LEMMA OriginalMatches ==
  ASSUME NEW db \in Database, NEW in \in Input, WellChained(db), IsDuplicate(db, in)
  PROVE  Matches(db, ReceiptOf(Original(db, in), TRUE))
<1> DEFINE rows == db.event[in.tenant]
<1>1. in.tenant \in Tenant /\ rows \in Seq(Row)
  BY InputType DEF Database
<1>2. PICK i \in 1..Len(rows) : Original(db, in) = rows[i]
  BY OriginalType
<1>3. rows[i].header.tenant = in.tenant /\ rows[i].header.position = i - 1
  BY <1>1 DEF WellChained, RowChained
<1>4. i - 1 + 1 = i
  OBVIOUS
<1> QED
  BY <1>1, <1>2, <1>3, <1>4 DEF Matches, ReceiptOf

LEMMA MatchesGrown ==
  ASSUME NEW db \in Database, NEW later \in Database, NEW r \in Receipt,
         Grown(db, later), Matches(db, r)
  PROVE  Matches(later, r)
<1>1. r.tenant \in Tenant /\ r.position + 1 \in 1..Len(db.event[r.tenant])
  BY DEF Receipt, Matches
<1>2. /\ db.event[r.tenant] \in Seq(Row) /\ later.event[r.tenant] \in Seq(Row)
  BY <1>1 DEF Database
<1>3. /\ Len(db.event[r.tenant]) <= Len(later.event[r.tenant])
      /\ later.event[r.tenant][r.position + 1] = db.event[r.tenant][r.position + 1]
  BY <1>1 DEF Grown
<1>4. r.position + 1 \in 1..Len(later.event[r.tenant])
  BY <1>1, <1>2, <1>3
<1> QED
  BY <1>3, <1>4 DEF Matches

LEMMA GrownTransitive ==
  ASSUME NEW a \in Database, NEW b \in Database, NEW c \in Database,
         Grown(a, b), Grown(b, c)
  PROVE  Grown(a, c)
<1>1. \A t \in Tenant : /\ Len(a.event[t]) \in Nat /\ Len(b.event[t]) \in Nat
                        /\ Len(c.event[t]) \in Nat
  BY DEF Database
<1> QED
  BY <1>1 DEF Grown

LEMMA GrownReflexive ==
  ASSUME NEW db \in Database
  PROVE  Grown(db, db)
<1>1. \A t \in Tenant : Len(db.event[t]) \in Nat
  BY DEF Database
<1> QED
  BY <1>1 DEF Grown

(* Statements that touch neither the rows nor the heads, and drop no tenant. *)
SameRows(db, later) ==
  later.event = db.event /\ later.head = db.head /\ db.tenant \subseteq later.tenant

LEMMA SameRowsKeep ==
  ASSUME NEW db \in Database, NEW later \in Database, SameRows(db, later)
  PROVE  /\ WellChained(db) => WellChained(later)
         /\ KeysUnique(db) => KeysUnique(later)
         /\ Grown(db, later)
         /\ \A r : Matches(db, r) => Matches(later, r)
<1>1. Grown(db, later)
  BY GrownReflexive DEF SameRows, Grown
<1>2. WellChained(db) => WellChained(later)
  BY DEF SameRows, WellChained, RowChained, HeadCached
<1>3. KeysUnique(db) => KeysUnique(later)
  BY DEF SameRows, KeysUnique
<1>4. \A r : Matches(db, r) => Matches(later, r)
  BY DEF SameRows, Matches
<1> QED
  BY <1>1, <1>2, <1>3, <1>4

-------------------------------------------------------------------------------
(* The invariant is inductive.                                             *)

LEMMA InvInit == Init => Inv
<1> SUFFICES ASSUME Init PROVE Inv
  OBVIOUS
<1>1. \A t \in Tenant : /\ EmptyDatabase.event[t] = <<>>
                        /\ EmptyDatabase.head[t] = [hash |-> GENESIS, position |-> -1]
  BY DEF EmptyDatabase
<1>2. <<>> \in Seq(Row) /\ Len(<<>>) = 0
  OBVIOUS
<1>3. HistoryOf(<<>>, 0) = GENESIS
  BY <1>2, HistoryEmpty DEF GENESIS
<1>4. WellChained(EmptyDatabase)
  BY <1>1, <1>2, <1>3 DEF WellChained, HeadCached
<1>5. KeysUnique(EmptyDatabase)
  BY <1>1, <1>2 DEF KeysUnique
<1>6. Grown(EmptyDatabase, EmptyDatabase)
  BY <1>1, <1>2 DEF Grown
<1>7. Len(call.receipts) = 0
  BY <1>2 DEF Init, Idle
<1> QED
  BY <1>4, <1>5, <1>6, <1>7 DEF Init, Inv

(* A handler that starts or ends without having written. *)
LEMMA InvSameDatabases ==
  ASSUME TypeOK, Inv, UNCHANGED <<disk, work, delivered>>,
         call'.receipts = call.receipts \/ call'.receipts = <<>>,
         call'.at \notin {"tx", "job"} => work = disk
  PROVE  Inv'
<1>1. \A i \in 1..Len(call'.receipts) : Matches(work, call'.receipts[i])
  BY DEF Inv
<1> QED
  BY <1>1 DEF Inv

(* A statement that commits at once and leaves the rows alone.  It runs    *)
(* where nothing is uncommitted.                                           *)
LEMMA InvAutocommit ==
  ASSUME TypeOK, Inv, NEW later \in Database, Autocommit(later), work = disk,
         SameRows(work, later), UNCHANGED delivered,
         call'.receipts = call.receipts \/ call'.receipts = <<>>
  PROVE  Inv'
<1>1. work \in Database
  BY DEF TypeOK
<1>2. /\ WellChained(later) /\ KeysUnique(later)
      /\ \A r : Matches(work, r) => Matches(later, r)
  BY <1>1, SameRowsKeep DEF Inv
<1>3. Grown(later, later)
  BY GrownReflexive
<1>4. \A i \in 1..Len(call'.receipts) : Matches(later, call'.receipts[i])
  BY <1>2 DEF Inv
<1>5. \A r \in delivered : Matches(later, r)
  BY <1>2 DEF Inv
<1> QED
  BY <1>2, <1>3, <1>4, <1>5 DEF Autocommit, Inv

(* ROLLBACK, or the death of the process. *)
LEMMA InvRollback ==
  ASSUME TypeOK, Inv, work' = disk, call' = Idle, UNCHANGED <<disk, delivered>>
  PROVE  Inv'
<1>1. Grown(disk, disk)
  BY GrownReflexive DEF TypeOK
<1>2. Len(call'.receipts) = 0
  BY DEF Idle
<1> QED
  BY <1>1, <1>2 DEF Inv
LEMMA InvNext == TypeOK /\ Inv /\ [Next]_vars => Inv'
<1> SUFFICES ASSUME TypeOK, Inv, [Next]_vars PROVE Inv'
  OBVIOUS
<1>0. /\ work \in Database /\ disk \in Database /\ call \in Call
      /\ delivered \subseteq Receipt
  BY DEF TypeOK
<1>1. ASSUME NEW batch \in Batches, Ingest(batch) PROVE Inv'
  <2>1. call'.receipts = <<>>
    BY <1>1 DEF Ingest, Idle
  <2>2. work = disk
    BY <1>1 DEF Ingest, Inv
  <2> QED
    BY <1>1, <2>1, <2>2, InvSameDatabases DEF Ingest
<1>2. CASE InsertNext
  <2> DEFINE in == Head(call.todo)
             receipt == ReceiptOf(NewRow(work, in), FALSE)
             later == Inserted(work, in)
  <2>1. in \in Input
    BY <1>0, <1>2, HeadType DEF InsertNext
  <2>2. /\ InTransaction /\ ~BreaksUnique(work, in)
        /\ work' = later
        /\ call' = [call EXCEPT !.todo = Tail(call.todo),
                                !.receipts = Append(call.receipts, receipt)]
        /\ UNCHANGED <<disk, delivered, aged>>
    BY <1>2, InsertNextIs
  <2>3. later \in Database /\ receipt \in Receipt
    BY <1>0, <2>1, InsertedType, ReceiptOfType
  <2>4. WellChained(later) /\ KeysUnique(later) /\ Grown(work, later)
    BY <1>0, <2>1, <2>2, InsertedWellChained, InsertedKeysUnique, InsertedGrows DEF Inv
  <2>5. Matches(later, receipt)
    BY <1>0, <2>1, InsertedMatches DEF Inv
  <2> HIDE DEF in, receipt, later
  <2>6. Grown(disk, later)
    BY <1>0, <2>3, <2>4, GrownTransitive DEF Inv
  <2>7. call.receipts \in Seq(Receipt)
    BY <1>0 DEF Call
  <2>8. ASSUME NEW i \in 1..Len(call'.receipts)
        PROVE  Matches(later, call'.receipts[i])
    <3>1. call'.receipts = Append(call.receipts, receipt)
      BY <1>0, <2>2 DEF Call
    <3>2. CASE i \in 1..Len(call.receipts)
      <4>1. call'.receipts[i] = call.receipts[i] /\ call.receipts[i] \in Receipt
        BY <2>3, <2>7, <3>1, <3>2
      <4> QED
        BY <1>0, <2>3, <2>4, <3>2, <4>1, MatchesGrown DEF Inv
    <3>3. CASE i \notin 1..Len(call.receipts)
      <4>1. call'.receipts[i] = receipt
        BY <2>3, <2>7, <3>1, <3>3
      <4> QED
        BY <2>5, <4>1
    <3> QED
      BY <3>2, <3>3
  <2>9. call'.at = call.at /\ call.at \in {"tx", "job"}
    BY <1>0, <2>2 DEF Call, InTransaction
  <2> QED
    BY <2>2, <2>4, <2>6, <2>8, <2>9 DEF Inv
<1>3. CASE ReplayNext
  <2> DEFINE in == Head(call.todo)
             receipt == ReceiptOf(Original(work, in), TRUE)
  <2>1. in \in Input /\ IsDuplicate(work, in)
    BY <1>0, <1>3, HeadType DEF ReplayNext
  <2>2. work.event[in.tenant] \in Seq(Row)
    BY <1>0, <2>1, InputType DEF Database
  <2>3. receipt \in Receipt
    <3>1. Original(work, in) \in Row
      BY <1>0, <2>1, <2>2, OriginalType
    <3> QED
      BY <3>1, ReceiptOfType
  <2>4. Matches(work, receipt)
    BY <1>0, <2>1, OriginalMatches DEF Inv
  <2>5. /\ InTransaction
        /\ call' = [call EXCEPT !.todo = Tail(call.todo),
                                !.receipts = Append(call.receipts, receipt)]
        /\ UNCHANGED <<disk, work, delivered, aged>>
    BY <1>3 DEF ReplayNext, Advance
  <2> HIDE DEF in, receipt
  <2>6. /\ call.receipts \in Seq(Receipt)
        /\ call'.receipts = Append(call.receipts, receipt)
        /\ call'.at = call.at /\ call.at \in {"tx", "job"}
    BY <1>0, <2>5 DEF Call, InTransaction
  <2>7. \A i \in 1..Len(call'.receipts) :
           \/ call'.receipts[i] = receipt
           \/ /\ i \in 1..Len(call.receipts)
              /\ call'.receipts[i] = call.receipts[i]
    BY <2>3, <2>6
  <2> QED
    BY <2>4, <2>5, <2>6, <2>7 DEF Inv
<1>4. CASE AbortBatch
  BY <1>4, InvRollback DEF AbortBatch
<1>5. CASE Commit
  <2>1. /\ disk' = work /\ work' = work /\ delivered' = delivered
        /\ call'.receipts = call.receipts \/ call'.receipts = <<>>
    BY <1>0, <1>5 DEF Commit, Idle, Call
  <2>2. \A i \in 1..Len(call'.receipts) : Matches(work, call'.receipts[i])
    BY <2>1 DEF Inv
  <2>3. \A r \in delivered : Matches(work, r)
    BY <1>0, MatchesGrown DEF Inv
  <2>4. Grown(work, work)
    BY <1>0, GrownReflexive
  <2> QED
    BY <2>1, <2>2, <2>3, <2>4 DEF Inv
<1>6. CASE Reply
  <2>1. /\ work = disk /\ UNCHANGED <<disk, work>> /\ call' = Idle
        /\ delivered' = delivered \cup Range(call.receipts)
    BY <1>6 DEF Reply, Inv
  <2>2. \A r \in Range(call.receipts) : Matches(disk, r)
    <3>1. call.receipts \in Seq(Receipt)
      BY <1>0 DEF Call
    <3> QED
      BY <2>1, <3>1 DEF Range, Inv
  <2>3. Len(call'.receipts) = 0
    BY <2>1 DEF Idle
  <2> QED
    BY <2>1, <2>2, <2>3 DEF Inv
<1>7. ASSUME NEW t \in Tenant, NEW id \in 1..work.rows, Erase(t, id) PROVE Inv'
  <2> DEFINE later == [work EXCEPT !.payload = @ \ {id}]
  <2>1. later \in Database
    BY <1>0 DEF Database
  <2>2. SameRows(work, later)
    BY <1>0 DEF SameRows, Database
  <2>3. /\ work = disk /\ work' = later /\ UNCHANGED <<disk, delivered>>
        /\ call'.at = "tx" /\ call'.receipts = <<>>
    BY <1>7 DEF Erase, Inv, Idle
  <2> HIDE DEF later
  <2>4. WellChained(later) /\ KeysUnique(later) /\ Grown(disk, later)
    BY <1>0, <2>1, <2>2, <2>3, SameRowsKeep DEF Inv
  <2>5. Len(call'.receipts) = 0
    BY <2>3
  <2> QED
    BY <2>3, <2>4, <2>5 DEF Inv
<1>8. ASSUME NEW cutoff \in 1..work.rows, RetentionDelete(cutoff) PROVE Inv'
  <2> DEFINE later == [work EXCEPT !.payload = @ \ (1..cutoff)]
  <2>1. later \in Database
    BY <1>0 DEF Database
  <2>2. SameRows(work, later)
    BY <1>0 DEF SameRows, Database
  <2>3. /\ work = disk /\ Autocommit(later) /\ UNCHANGED delivered
        /\ call'.receipts = <<>>
    BY <1>8 DEF RetentionDelete, Inv, Idle
  <2> QED
    BY <2>1, <2>2, <2>3, InvAutocommit
<1>9. CASE RetentionIngest
  <2>1. call'.at = "job" /\ call'.receipts = call.receipts
    BY <1>0, <1>9 DEF RetentionIngest, Call
  <2> QED
    BY <1>9, <2>1, InvSameDatabases DEF RetentionIngest
<1>10. CASE RetentionRefused
  <2>1. call'.receipts = <<>> /\ work = disk
    BY <1>10 DEF RetentionRefused, Idle, Inv
  <2> QED
    BY <1>10, <2>1, InvSameDatabases DEF RetentionRefused
<1>11. ASSUME NEW t \in Tenant, CreateTenant(t) PROVE Inv'
  <2>1. GetOrCreateTenant(work, t) \in Database
    BY <1>0, GetOrCreateTenantType
  <2>2. SameRows(work, GetOrCreateTenant(work, t))
    BY <1>0, CreateKeepsHeads DEF SameRows, Inv
  <2>3. work = disk
    BY <1>11 DEF CreateTenant, Inv
  <2> QED
    BY <1>11, <2>1, <2>2, <2>3, InvAutocommit DEF CreateTenant
<1>12. ASSUME NEW t \in Administered, NEW k \in ClientKey,
              AddTenantKey(t, k) \/ RevokeTenantKey(t, k)
       PROVE  Inv'
  <2> DEFINE made == GetOrCreateTenant(work, t)
             added == [made EXCEPT !.tenant_key[t] = @ \cup {k}]
             revoked == [work EXCEPT !.tenant_key[t] = @ \ {k}]
  <2>1. t \in Tenant
    BY ConstantsAssumption
  <2>2. made \in Database /\ SameRows(work, made)
    BY <1>0, <2>1, GetOrCreateTenantType, CreateKeepsHeads DEF SameRows, Inv
  <2> HIDE DEF made
  <2>3. /\ added \in Database /\ revoked \in Database
        /\ SameRows(work, added) /\ SameRows(work, revoked)
    BY <1>0, <2>1, <2>2 DEF Database, SameRows
  <2>4. /\ work = disk /\ UNCHANGED <<call, delivered>>
        /\ Autocommit(added) \/ Autocommit(revoked)
    BY <1>12 DEF AddTenantKey, RevokeTenantKey, Inv, made
  <2> HIDE DEF added, revoked
  <2> QED
    BY <2>3, <2>4, InvAutocommit
<1>13. ASSUME NEW t \in Administered, NEW required \in BOOLEAN,
              SetRequireClientSig(t, required)
       PROVE  Inv'
  <2> DEFINE made == GetOrCreateTenant(work, t)
             later == [made EXCEPT !.require_client_sig =
                         IF required THEN @ \cup {t} ELSE @ \ {t}]
  <2>1. t \in Tenant
    BY ConstantsAssumption
  <2>2. made \in Database /\ SameRows(work, made)
    BY <1>0, <2>1, GetOrCreateTenantType, CreateKeepsHeads DEF SameRows, Inv
  <2> HIDE DEF made
  <2>3. later \in Database /\ SameRows(work, later)
    BY <1>0, <2>1, <2>2 DEF Database, SameRows
  <2>4. work = disk /\ UNCHANGED <<call, delivered>> /\ Autocommit(later)
    BY <1>13 DEF SetRequireClientSig, Inv, made
  <2> HIDE DEF later
  <2> QED
    BY <2>3, <2>4, InvAutocommit
<1>14. CASE Crash
  BY <1>14, InvRollback DEF Crash
<1>15. CASE UNCHANGED vars
  BY <1>15 DEF vars, Inv
<1> QED
  BY <1>1, <1>2, <1>3, <1>4, <1>5, <1>6, <1>7, <1>8, <1>9, <1>10, <1>11, <1>12,
     <1>13, <1>14, <1>15 DEF Next, Handlers

(* The chains, keys and receipts are as the invariant says in every        *)
(* reachable state.                                                        *)
THEOREM InvHolds == Spec => []Inv
<1> QED
  BY TypeCorrect, InvInit, InvNext, PTL DEF Spec
-------------------------------------------------------------------------------
(* What the invariant means for the properties of the runs.                *)

(* Every tenant's committed rows form one chain from GENESIS and the head  *)
(* cached in the tenant row is its end, whatever was rolled back or cut    *)
(* off.                                                                    *)
THEOREM ChainsStayIntact == Spec => []ChainIntact
<1>1. TypeOK /\ Inv => ChainIntact
  <2> SUFFICES ASSUME TypeOK, Inv, NEW t \in Tenant
               PROVE  LET rows == disk.event[t]
                          n == Len(rows)
                      IN /\ \A i \in 1..n :
                              /\ rows[i].header.tenant = t
                              /\ rows[i].header.position = i - 1
                              /\ rows[i].event_hash = HistoryOf(rows, i)
                         /\ VerifyChain(rows, GENESIS)
                         /\ disk.head[t] = [hash |-> HistoryOf(rows, n), position |-> n - 1]
    BY DEF ChainIntact
  <2> DEFINE rows == disk.event[t]
             n == Len(rows)
  <2>1. rows \in Seq(Row) /\ n \in Nat /\ DOMAIN rows = 1..n
    BY DEF TypeOK, Database
  <2>2. /\ \A i \in 1..n : RowChained(disk, t, i)
        /\ disk.head[t] = [hash |-> HistoryOf(rows, n), position |-> n - 1]
    BY DEF Inv, WellChained, HeadCached
  <2>3. \A i \in 1..n :
           /\ rows[i] \in Row /\ rows[i].header.tenant = t
           /\ rows[i].header.position = i - 1
           /\ rows[i].prev_hash = HistoryOf(rows, i - 1)
           /\ rows[i].event_hash = HistoryOf(rows, i)
    BY <2>1, <2>2 DEF RowChained
  <2> HIDE DEF n
  <2>4. ASSUME NEW i \in 1..n
        PROVE  /\ rows[i].header.position = rows[1].header.position + i - 1
               /\ rows[i].prev_hash = IF i = 1 THEN GENESIS ELSE rows[i - 1].event_hash
    <3>1. 1 \in 1..n /\ (i # 1 => i - 1 \in 1..n)
      BY <2>1
    <3>2. HistoryOf(rows, 0) = GENESIS
      BY <2>1, HistoryEmpty DEF GENESIS
    <3> HIDE DEF rows
    <3> QED
      BY <2>1, <2>3, <3>1, <3>2
  <2>5. ASSUME NEW i \in 1..n
        PROVE  rows[i].event_hash = Append(rows[i].prev_hash, rows[i].header)
    <3>1. i - 1 \in 0..Len(rows) /\ i \in 0..Len(rows) /\ rows[i].header \in Header
      BY <2>1, <2>3 DEF Row, n
    <3> DEFINE before == HistoryOf(rows, i - 1)
               after == HistoryOf(rows, i)
    <3>2. /\ before \in Seq(Header) /\ Len(before) = i - 1
          /\ \A j \in 1..i - 1 : before[j] = rows[j].header
          /\ after \in Seq(Header) /\ Len(after) = i
          /\ \A j \in 1..i : after[j] = rows[j].header
      BY <2>1, <3>1, HistoryType
    <3> HIDE DEF rows, before, after
    <3>3. after = Append(before, rows[i].header)
      <4>1. /\ Append(before, rows[i].header) \in Seq(Header)
            /\ Len(Append(before, rows[i].header)) = i
            /\ \A j \in 1..i : Append(before, rows[i].header)[j] = rows[j].header
        BY <3>1, <3>2
      <4> QED
        BY <3>2, <4>1, SeqEqual
    <3> QED
      BY <2>3, <3>3 DEF before, after
  <2>6. VerifyChain(rows, GENESIS)
    BY <2>1, <2>4, <2>5 DEF VerifyChain
  <2> QED
    BY <2>2, <2>3, <2>6 DEF n
<1> QED
  BY <1>1, TypeCorrect, InvHolds, PTL

(* A receipt that reached a caller describes the committed row at its      *)
(* position for ever.                                                      *)
THEOREM ReceiptsStayTrue == Spec => []ReceiptsDurable
<1>1. TypeOK /\ Inv => ReceiptsDurable
  <2> SUFFICES ASSUME TypeOK, Inv, NEW r \in delivered
               PROVE  LET rows == disk.event[r.tenant]
                      IN /\ r.position + 1 \in DOMAIN rows
                         /\ rows[r.position + 1].header.id = r.id
                         /\ rows[r.position + 1].event_hash = r.event_hash
                         /\ rows[r.position + 1].prev_hash = r.prev_hash
    BY DEF ReceiptsDurable
  <2>1. r.tenant \in Tenant
    BY DEF TypeOK, Receipt
  <2>2. DOMAIN disk.event[r.tenant] = 1..Len(disk.event[r.tenant])
    BY <2>1 DEF TypeOK, Database
  <2> QED
    BY <2>2 DEF Inv, Matches
<1> QED
  BY <1>1, TypeCorrect, InvHolds, PTL

(* However often a caller retries, a tenant has at most one committed      *)
(* event per idempotency key.                                              *)
THEOREM KeysStayUnique == Spec => []OncePerKey
<1>1. TypeOK /\ Inv => OncePerKey
  <2> SUFFICES ASSUME TypeOK, Inv, NEW t \in Tenant PROVE
        \A i, j \in DOMAIN disk.event[t] :
          disk.event[t][i].key = disk.event[t][j].key /\ i # j
            => disk.event[t][i].key = NoKey
    BY DEF OncePerKey
  <2>1. DOMAIN disk.event[t] = 1..Len(disk.event[t])
    BY DEF TypeOK, Database
  <2> QED
    BY <2>1 DEF Inv, KeysUnique
<1> QED
  BY <1>1, TypeCorrect, InvHolds, PTL

-------------------------------------------------------------------------------
(* The refinement: AuditChain implements AppendOnlyLog.                    *)

(* The mapping's value for a database: its logs. *)
LogOf(db) == [t \in Tenant |-> HistoryOf(db.event[t], Len(db.event[t]))]
ReceiptsOf(R) == {[tenant |-> r.tenant, history |-> r.event_hash] : r \in R}

(* A history is a prefix of every history of a sequence of rows that has   *)
(* the same first rows.                                                    *)
LEMMA HistoryPrefix ==
  ASSUME NEW rows \in Seq(Row), NEW later \in Seq(Row),
         NEW n \in 0..Len(rows), NEW m \in 0..Len(later), n <= m,
         \A i \in 1..n : later[i] = rows[i]
  PROVE  IsPrefix(HistoryOf(rows, n), HistoryOf(later, m))
<1> DEFINE short == HistoryOf(rows, n)
           long == HistoryOf(later, m)
<1>1. /\ short \in Seq(Header) /\ Len(short) = n
      /\ \A i \in 1..n : short[i] = rows[i].header
  BY HistoryType
<1>2. /\ long \in Seq(Header) /\ Len(long) = m
      /\ \A i \in 1..m : long[i] = later[i].header
  BY HistoryType
<1> HIDE DEF short, long
<1>3. n \in Nat /\ m \in Nat
  OBVIOUS
<1>4. \A i \in 1..n : short[i] = long[i]
  BY <1>1, <1>2, <1>3
<1>5. /\ SubSeq(short, 1, n) \in Seq(Header) /\ Len(SubSeq(short, 1, n)) = n
      /\ \A i \in 1..n : SubSeq(short, 1, n)[i] = short[i]
  BY <1>1, <1>3
<1>6. /\ SubSeq(long, 1, n) \in Seq(Header) /\ Len(SubSeq(long, 1, n)) = n
      /\ \A i \in 1..n : SubSeq(long, 1, n)[i] = long[i]
  BY <1>2, <1>3
<1>7. SubSeq(short, 1, n) = SubSeq(long, 1, n)
  BY <1>4, <1>5, <1>6, SeqEqual
<1> QED
  BY <1>1, <1>2, <1>7 DEF IsPrefix, short, long

(* Only COMMIT adds committed rows: the other statements that commit, each *)
(* on its own, leave all rows and heads as they are.                       *)
LEMMA OnlyCommitAppends == TypeOK /\ Inv /\ [Next]_vars => Commit \/ SameRows(disk, disk')
<1> SUFFICES ASSUME TypeOK, Inv, [Next]_vars, ~Commit PROVE SameRows(disk, disk')
  OBVIOUS
<1>0. work \in Database /\ disk \in Database
  BY DEF TypeOK
<1>1. ASSUME NEW later \in Database, Autocommit(later), SameRows(work, later), work = disk
      PROVE  SameRows(disk, disk')
  BY <1>1 DEF Autocommit
<1>2. CASE disk' = disk
  BY <1>2 DEF SameRows
<1>3. ASSUME NEW cutoff \in 1..work.rows, RetentionDelete(cutoff) PROVE SameRows(disk, disk')
  <2> DEFINE later == [work EXCEPT !.payload = @ \ (1..cutoff)]
  <2>1. later \in Database /\ SameRows(work, later)
    BY <1>0 DEF Database, SameRows
  <2>2. work = disk /\ Autocommit(later)
    BY <1>3 DEF RetentionDelete, Inv
  <2> QED
    BY <1>1, <2>1, <2>2
<1>4. ASSUME NEW t \in Tenant
      PROVE  /\ GetOrCreateTenant(work, t) \in Database
             /\ SameRows(work, GetOrCreateTenant(work, t))
  BY <1>0, GetOrCreateTenantType, CreateKeepsHeads DEF SameRows, Inv
<1>5. ASSUME NEW t \in Tenant, CreateTenant(t) PROVE SameRows(disk, disk')
  <2>1. work = disk
    BY <1>5 DEF CreateTenant, Inv
  <2> QED
    BY <1>1, <1>4, <1>5, <2>1 DEF CreateTenant
<1>6. ASSUME NEW t \in Administered, NEW k \in ClientKey,
             AddTenantKey(t, k) \/ RevokeTenantKey(t, k)
      PROVE  SameRows(disk, disk')
  <2> DEFINE made == GetOrCreateTenant(work, t)
             added == [made EXCEPT !.tenant_key[t] = @ \cup {k}]
             revoked == [work EXCEPT !.tenant_key[t] = @ \ {k}]
  <2>1. made \in Database /\ SameRows(work, made)
    BY <1>4, ConstantsAssumption
  <2> HIDE DEF made
  <2>2. /\ added \in Database /\ revoked \in Database
        /\ SameRows(work, added) /\ SameRows(work, revoked)
    BY <1>0, <2>1, ConstantsAssumption DEF Database, SameRows
  <2>3. work = disk /\ (Autocommit(added) \/ Autocommit(revoked))
    BY <1>6 DEF AddTenantKey, RevokeTenantKey, Inv, made
  <2> HIDE DEF added, revoked
  <2> QED
    BY <1>1, <2>2, <2>3
<1>7. ASSUME NEW t \in Administered, NEW required \in BOOLEAN, SetRequireClientSig(t, required)
      PROVE  SameRows(disk, disk')
  <2> DEFINE made == GetOrCreateTenant(work, t)
             later == [made EXCEPT !.require_client_sig =
                         IF required THEN @ \cup {t} ELSE @ \ {t}]
  <2>1. made \in Database /\ SameRows(work, made)
    BY <1>4, ConstantsAssumption
  <2> HIDE DEF made
  <2>2. later \in Database /\ SameRows(work, later)
    BY <1>0, <2>1, ConstantsAssumption DEF Database, SameRows
  <2>3. work = disk /\ Autocommit(later)
    BY <1>7 DEF SetRequireClientSig, Inv, made
  <2> HIDE DEF later
  <2> QED
    BY <1>1, <2>2, <2>3
<1>8. \/ disk' = disk
       \/ \E cutoff \in 1..work.rows : RetentionDelete(cutoff)
      \/ \E t \in Tenant : CreateTenant(t)
      \/ \E t \in Administered, k \in ClientKey : AddTenantKey(t, k) \/ RevokeTenantKey(t, k)
      \/ \E t \in Administered, required \in BOOLEAN : SetRequireClientSig(t, required)
  BY DEF Next, Handlers, Ingest, InsertNext, ReplayNext, AbortBatch, Reply, Erase,
         RetentionIngest, RetentionRefused, Crash, vars
<1> QED
  BY <1>2, <1>3, <1>5, <1>6, <1>7, <1>8

(* What is committed is never taken back or changed, by any statement. *)
LEMMA DiskGrows == TypeOK /\ Inv /\ [Next]_vars => Grown(disk, disk')
<1> SUFFICES ASSUME TypeOK, Inv, [Next]_vars PROVE Grown(disk, disk')
  OBVIOUS
<1>1. CASE Commit
  BY <1>1 DEF Commit, Inv
<1>2. CASE SameRows(disk, disk')
  <2>1. disk \in Database
    BY DEF TypeOK
  <2>2. Grown(disk, disk)
    BY <2>1, GrownReflexive
  <2> QED
    BY <1>2, <2>2 DEF SameRows, Grown
<1> QED
  BY <1>1, <1>2, OnlyCommitAppends

-------------------------------------------------------------------------------
(* The two abstract steps.                                                 *)

(* A database that grew is a Commit of the log. *)
LEMMA GrownCommits ==
  ASSUME NEW db \in Database, NEW later \in Database, Grown(db, later)
  PROVE  /\ DOMAIN LogOf(later) = Tenant
         /\ \A t \in Tenant : IsPrefix(LogOf(db)[t], LogOf(later)[t])
<1>1. ASSUME NEW t \in Tenant PROVE IsPrefix(LogOf(db)[t], LogOf(later)[t])
  <2> DEFINE rows == db.event[t]
             more == later.event[t]
  <2>1. rows \in Seq(Row) /\ more \in Seq(Row)
    BY DEF Database
  <2>2. Len(rows) <= Len(more) /\ \A i \in 1..Len(rows) : more[i] = rows[i]
    BY DEF Grown
  <2> HIDE DEF rows, more
  <2>3. Len(rows) \in 0..Len(rows) /\ Len(more) \in 0..Len(more)
    BY <2>1
  <2>4. IsPrefix(HistoryOf(rows, Len(rows)), HistoryOf(more, Len(more)))
    BY <2>1, <2>2, <2>3, HistoryPrefix
  <2> QED
    BY <2>4 DEF LogOf, rows, more
<1> QED
  BY <1>1 DEF LogOf

(* A receipt that matches a row names a history its log already has. *)
LEMMA MatchesAcknowledges ==
  ASSUME NEW db \in Database, WellChained(db), NEW r \in Receipt, Matches(db, r)
  PROVE  r.event_hash # <<>> /\ IsPrefix(r.event_hash, LogOf(db)[r.tenant])
<1> DEFINE rows == db.event[r.tenant]
           n == r.position + 1
<1>1. r.tenant \in Tenant /\ r.position \in Nat
  BY DEF Receipt
<1>2. rows \in Seq(Row)
  BY <1>1 DEF Database
<1>3. n \in 1..Len(rows) /\ rows[n].event_hash = r.event_hash
  BY DEF Matches
<1>4. rows[n].event_hash = HistoryOf(rows, n)
  BY <1>1, <1>3 DEF WellChained, RowChained
<1> HIDE DEF rows, n
<1>5. /\ n \in 0..Len(rows) /\ Len(rows) \in 0..Len(rows) /\ n <= Len(rows) /\ n # 0
  BY <1>2, <1>3
<1>6. Len(HistoryOf(rows, n)) = n
  BY <1>2, <1>5, HistoryType
<1>7. IsPrefix(HistoryOf(rows, n), HistoryOf(rows, Len(rows)))
  BY <1>2, <1>5, HistoryPrefix
<1>8. HistoryOf(rows, n) # <<>>
  BY <1>5, <1>6
<1>9. LogOf(db)[r.tenant] = HistoryOf(rows, Len(rows))
  BY <1>1 DEF LogOf, rows
<1> QED
  BY <1>3, <1>4, <1>7, <1>8, <1>9

(* Every statement of the database, every answer and every crash is a step *)
(* of the abstract log: what was acknowledged is never lost or changed.    *)
THEOREM ImplementsAppendOnlyLog == Spec => ImplementsLog
<1>1. Init => Log!Init
  <2> SUFFICES ASSUME Init PROVE Log!Init
    OBVIOUS
  <2>1. \A t \in Tenant : disk.event[t] = <<>>
    BY DEF Init, EmptyDatabase
  <2>2. <<>> \in Seq(Row) /\ Len(<<>>) = 0
    OBVIOUS
  <2>3. HistoryOf(<<>>, 0) = <<>>
    BY <2>2, HistoryEmpty
  <2>4. \A t \in Tenant : HistoryOf(disk.event[t], Len(disk.event[t])) = <<>>
    BY <2>1, <2>2, <2>3
  <2>5. delivered = {}
    BY DEF Init
  <2> QED
    BY <2>4, <2>5 DEF Log!Init
<1>2. TypeOK /\ Inv /\ TypeOK' /\ [Next]_vars => [Log!Next]_(Log!vars)
  <2> SUFFICES ASSUME TypeOK, Inv, TypeOK', [Next]_vars PROVE [Log!Next]_(Log!vars)
    OBVIOUS
  <2>0. disk \in Database /\ disk' \in Database /\ delivered \subseteq Receipt
    BY DEF TypeOK
  <2>1. CASE Reply
    <3>1. /\ disk' = disk /\ work = disk /\ delivered \subseteq delivered'
          /\ delivered' = delivered \cup Range(call.receipts)
      BY <2>1 DEF Reply, Inv
    <3>2. ASSUME NEW r \in delivered'
          PROVE  r.event_hash # <<>> /\ IsPrefix(r.event_hash, LogOf(disk)[r.tenant])
      <4>1. r \in Receipt
        BY DEF TypeOK
      <4>2. call.receipts \in Seq(Receipt)
        BY DEF TypeOK, Call
      <4>3. Matches(disk, r)
        BY <3>1, <4>2 DEF Range, Inv
      <4> QED
        BY <2>0, <4>1, <4>3, MatchesAcknowledges DEF Inv
    <3>3. ReceiptsOf(delivered) \subseteq ReceiptsOf(delivered')
      BY <3>1 DEF ReceiptsOf
    <3>4. ASSUME NEW r \in ReceiptsOf(delivered')
          PROVE  r.history # <<>> /\ IsPrefix(r.history, LogOf(disk)[r.tenant])
      BY <3>2 DEF ReceiptsOf
    <3>5. Log!Acknowledge
      BY <3>1, <3>3, <3>4 DEF Log!Acknowledge, Log!IsPrefix, IsPrefix, LogOf, ReceiptsOf
    <3> QED
      BY <3>5 DEF Log!Next
  <2>2. CASE ~Reply
    <3>1. delivered' = delivered
      BY <2>2 DEF Next, Handlers, Ingest, InsertNext, ReplayNext, AbortBatch, Commit, Erase,
         RetentionDelete, RetentionIngest, RetentionRefused, CreateTenant, AddTenantKey,
         RevokeTenantKey, SetRequireClientSig, Crash, vars
    <3>2. Grown(disk, disk')
      BY DiskGrows
    <3>3. /\ DOMAIN LogOf(disk') = Tenant
          /\ \A t \in Tenant : IsPrefix(LogOf(disk)[t], LogOf(disk')[t])
      BY <2>0, <3>2, GrownCommits
    <3>4. Log!Commit
      BY <3>1, <3>3 DEF Log!Commit, Log!IsPrefix, IsPrefix, LogOf
    <3> QED
      BY <3>4 DEF Log!Next
  <2> QED
    BY <2>1, <2>2
<1> QED
  BY <1>1, <1>2, TypeCorrect, InvHolds, PTL DEF Spec, ImplementsLog, Log!Spec

-------------------------------------------------------------------------------
(* The rows of tenant t that the open transaction has added. *)
Uncommitted(t) == Len(disk.event[t]) + 1..Len(work.event[t])

(* checkClientSigs ran before BEGIN; since then the policy has not changed *)
(* and no input has joined the batch.                                      *)
SignedInv ==
  /\ work.require_client_sig = disk.require_client_sig
  /\ call.at \in {"tx", "job"} =>
       \A i \in 1..Len(call.todo) :
         call.todo[i].sig = NoSig => call.todo[i].tenant \notin work.require_client_sig
  /\ \A t \in work.require_client_sig : \A i \in Uncommitted(t) :
       work.event[t][i].client_sig # NoSig

(* Ids are drawn once. *)
IdsFresh(db) ==
  \A t \in Tenant : \A i \in 1..Len(db.event[t]) :
    db.event[t][i].header.id \in 1..db.rows

IdsUnique(db) ==
  \A t, u \in Tenant : \A i \in 1..Len(db.event[t]), j \in 1..Len(db.event[u]) :
    db.event[t][i].header.id = db.event[u][j].header.id => t = u /\ i = j

Gone(db, t, i) == db.event[t][i].header.id \notin db.payload

(* A later erasure record of the chain names row i.  Unlike a retention    *)
(* record it says so in its header, which nothing can erase.               *)
Named(db, t, i) ==
  \E j \in i + 1..Len(db.event[t]) :
    /\ db.event[t][j].header.action = "payload.erased"
    /\ db.event[t][j].header.target = db.event[t][i].header.id

(* The running erase has deleted row i's payload and not yet appended its  *)
(* record.                                                                 *)
BeingErased(t, i) ==
  /\ call.at = "tx"
  /\ call.todo = <<ErasureRecord(t, work.event[t][i].header.id)>>

(* Every payload missing from db is in A or has its record. *)
Accounted(db, A) ==
  \A t \in Tenant : \A i \in 1..Len(db.event[t]) :
    Gone(db, t, i) => db.event[t][i].header.id \in A \/ Named(db, t, i)

EraseInv ==
  /\ IdsFresh(disk) /\ IdsFresh(work)
  /\ IdsUnique(disk) /\ IdsUnique(work)
  /\ Accounted(disk, aged)
  /\ \A t \in Tenant : \A i \in 1..Len(work.event[t]) :
       Gone(work, t, i) =>
         \/ work.event[t][i].header.id \in aged
         \/ Named(work, t, i)
         \/ BeingErased(t, i)

-------------------------------------------------------------------------------
(* The signature policy.                                                   *)

(* Inserting an event changes neither the keys nor the policy. *)
LEMMA InsertedKeepsPolicy ==
  ASSUME NEW db \in Database, NEW in \in Input
  PROVE  Inserted(db, in).require_client_sig = db.require_client_sig
<1> DEFINE made == GetOrCreateTenant(db, in.tenant)
           row == NewRow(db, in)
<1>1. in.tenant \in Tenant
  BY InputType
<1>2. made \in Database
  BY <1>1, GetOrCreateTenantType
<1>3. made.require_client_sig = db.require_client_sig
  BY DEF GetOrCreateTenant, Database
<1> HIDE DEF made, row
<1>4. InsertRow(made, row).require_client_sig = made.require_client_sig
  BY <1>2 DEF InsertRow, Database
<1> QED
  BY <1>3, <1>4 DEF Inserted, made, row

LEMMA AcceptedBatch ==
  ASSUME NEW db, NEW inputs \in Seq(Input), CheckClientSigs(db, inputs)
  PROVE  \A i \in 1..Len(inputs) :
           inputs[i].sig = NoSig => inputs[i].tenant \notin db.require_client_sig
BY DEF CheckClientSigs, SigAccepted

(* Where nothing is uncommitted and no batch is running, nothing is owed. *)
LEMMA SignedAtRest ==
  ASSUME TypeOK', work' = disk', call'.at \notin {"tx", "job"}
  PROVE  SignedInv'
<1>1. \A t \in work'.require_client_sig : t \in Tenant
  BY DEF TypeOK, Database
<1>2. \A t \in Tenant : Len(work'.event[t]) \in Nat
  BY DEF TypeOK, Database
<1>3. \A t \in Tenant : Uncommitted(t)' = {}
  BY <1>2 DEF Uncommitted
<1> QED
  BY <1>1, <1>3 DEF SignedInv

LEMMA SignedInit == Init => SignedInv
BY DEF Init, SignedInv, EmptyDatabase, Idle

LEMMA SignedNext == TypeOK /\ Inv /\ SignedInv /\ TypeOK' /\ [Next]_vars => SignedInv'
<1> SUFFICES ASSUME TypeOK, Inv, SignedInv, TypeOK', [Next]_vars PROVE SignedInv'
  OBVIOUS
<1>0. work \in Database /\ disk \in Database /\ call \in Call
  BY DEF TypeOK
<1>1. \A t \in Tenant : Len(work.event[t]) \in Nat /\ Len(disk.event[t]) \in Nat
  BY <1>0 DEF Database
<1>2. work.require_client_sig \subseteq Tenant
  BY <1>0 DEF Database
<1>3. work = disk => \A t \in Tenant : Uncommitted(t) = {}
  BY <1>1 DEF Uncommitted
<1>4. ASSUME NEW batch \in Batches, Ingest(batch) PROVE SignedInv'
  <2>1. work = disk /\ UNCHANGED <<disk, work>>
    BY <1>4 DEF Ingest, Inv
  <2>2. call'.todo = batch /\ CheckClientSigs(work, batch)
    BY <1>4 DEF Ingest, Idle
  <2>3. \A i \in 1..Len(batch) :
          batch[i].sig = NoSig => batch[i].tenant \notin work.require_client_sig
    BY <2>2, BatchType, AcceptedBatch
  <2>4. \A t \in Tenant : Uncommitted(t)' = {}
    BY <1>3, <2>1 DEF Uncommitted
  <2> QED
    BY <1>2, <2>1, <2>2, <2>3, <2>4 DEF SignedInv
<1>5. CASE InsertNext
  <2> DEFINE in == Head(call.todo)
             row == NewRow(work, in)
             later == Inserted(work, in)
  <2>1. in \in Input /\ in.tenant \in Tenant
    BY <1>0, <1>5, HeadType, InputType DEF InsertNext
  <2>2. /\ InTransaction /\ work' = later /\ disk' = disk
        /\ call' = [call EXCEPT !.todo = Tail(call.todo),
                                !.receipts = Append(call.receipts, ReceiptOf(row, FALSE))]
    BY <1>5, InsertNextIs
  <2>3. later.require_client_sig = work.require_client_sig
    BY <1>0, <2>1, InsertedKeepsPolicy
  <2>4. /\ work.event[in.tenant] \in Seq(Row)
        /\ Len(later.event[in.tenant]) = Len(work.event[in.tenant]) + 1
        /\ \A i \in 1..Len(work.event[in.tenant]) :
             later.event[in.tenant][i] = work.event[in.tenant][i]
        /\ later.event[in.tenant][Len(work.event[in.tenant]) + 1] = row
        /\ \A t \in Tenant \ {in.tenant} : later.event[t] = work.event[t]
    BY <1>0, <2>1, InsertedRows DEF Inv
  <2>5. row.client_sig = in.sig
    BY <1>0, <2>1, InsertedEffect DEF Inv
  <2>6. /\ call.todo \in Seq(Input) /\ call.todo # <<>> /\ call.at \in {"tx", "job"}
        /\ call'.todo = Tail(call.todo)
    BY <1>0, <2>2 DEF Call, InTransaction
  <2>7. /\ in = call.todo[1] /\ 1 \in 1..Len(call.todo)
        /\ \A i \in 1..Len(Tail(call.todo)) :
             Tail(call.todo)[i] = call.todo[i + 1] /\ i + 1 \in 1..Len(call.todo)
    BY <2>6
  <2>8. in.sig = NoSig => in.tenant \notin work.require_client_sig
    BY <2>6, <2>7 DEF SignedInv
  <2>9. \A i \in 1..Len(call'.todo) :
          call'.todo[i].sig = NoSig => call'.todo[i].tenant \notin work.require_client_sig
    BY <2>6, <2>7 DEF SignedInv
  <2> HIDE DEF in, row, later
  <2>10. ASSUME NEW t \in work.require_client_sig, NEW i \in Uncommitted(t)'
         PROVE  later.event[t][i].client_sig # NoSig
    <3>1. t \in Tenant
      BY <1>2
    <3>2. i \in Len(disk.event[t]) + 1..Len(later.event[t])
      BY <2>2 DEF Uncommitted
    <3>3. CASE t # in.tenant
      <4>1. later.event[t] = work.event[t]
        BY <2>4, <3>1, <3>3
      <4> QED
        BY <3>2, <4>1 DEF SignedInv, Uncommitted
    <3>4. CASE t = in.tenant /\ i <= Len(work.event[t])
      <4>1. i \in Uncommitted(t) /\ i \in 1..Len(work.event[t])
        BY <1>1, <3>1, <3>2, <3>4 DEF Uncommitted
      <4>2. later.event[t][i] = work.event[t][i]
        BY <2>4, <3>4, <4>1
      <4> QED
        BY <4>1, <4>2 DEF SignedInv
    <3>5. CASE t = in.tenant /\ ~(i <= Len(work.event[t]))
      <4>1. Len(later.event[t]) = Len(work.event[t]) + 1
        BY <2>4, <3>5
      <4>2. i = Len(work.event[t]) + 1
        BY <1>1, <3>1, <3>2, <3>5, <4>1
      <4>3. later.event[t][i] = row
        BY <2>4, <3>5, <4>2
      <4> QED
        BY <2>5, <2>8, <3>5, <4>3
    <3> QED
      BY <3>3, <3>4, <3>5
  <2> QED
    BY <2>2, <2>3, <2>9, <2>10 DEF SignedInv
<1>6. CASE ReplayNext
  <2>1. /\ UNCHANGED <<disk, work>> /\ InTransaction
        /\ call'.todo = Tail(call.todo) /\ call'.at = call.at
    BY <1>0, <1>6 DEF ReplayNext, Advance, Call
  <2>2. call.todo \in Seq(Input) /\ call.todo # <<>> /\ call.at \in {"tx", "job"}
    BY <1>0, <2>1 DEF Call, InTransaction
  <2>3. \A i \in 1..Len(Tail(call.todo)) :
          Tail(call.todo)[i] = call.todo[i + 1] /\ i + 1 \in 1..Len(call.todo)
    BY <2>2
  <2>4. \A t \in Tenant : Uncommitted(t)' = Uncommitted(t)
    BY <2>1 DEF Uncommitted
  <2> QED
    BY <1>2, <2>1, <2>2, <2>3, <2>4 DEF SignedInv
<1>7. CASE AbortBatch
  BY <1>7, SignedAtRest DEF AbortBatch, Idle
<1>8. CASE Commit
  <2>1. /\ disk' = work /\ work' = work /\ call.todo = <<>>
        /\ call'.at \notin {"tx", "job"}
    BY <1>0, <1>8 DEF Commit, Idle, Call
  <2> QED
    BY <2>1, SignedAtRest
<1>9. CASE Reply
  BY <1>9, SignedAtRest DEF Reply, Idle, Inv
<1>10. ASSUME NEW t \in Tenant, NEW id \in 1..work.rows, Erase(t, id) PROVE SignedInv'
  <2> DEFINE record == ErasureRecord(t, id)
             later == [work EXCEPT !.payload = @ \ {id}]
  <2>1. /\ work = disk /\ disk' = disk /\ work' = later
        /\ call'.todo = <<record>> /\ SigAccepted(work, record)
    BY <1>10 DEF Erase, Inv, Idle
  <2>2. later.event = work.event /\ later.require_client_sig = work.require_client_sig
    BY <1>0 DEF Database
  <2>3. record.sig = NoSig => record.tenant \notin work.require_client_sig
    BY <2>1 DEF SigAccepted
  <2> HIDE DEF record, later
  <2>4. \A i \in 1..Len(<<record>>) : <<record>>[i] = record
    OBVIOUS
  <2>5. \A u \in Tenant : Uncommitted(u)' = {}
    BY <1>3, <2>1, <2>2 DEF Uncommitted
  <2> QED
    BY <1>2, <2>1, <2>2, <2>3, <2>4, <2>5 DEF SignedInv
<1>11. ASSUME NEW cutoff \in 1..work.rows, RetentionDelete(cutoff) PROVE SignedInv'
  <2>1. work' = disk' /\ call'.at = "retention"
    BY <1>11 DEF RetentionDelete, Autocommit, Idle
  <2> QED
    BY <2>1, SignedAtRest
<1>12. CASE RetentionIngest
  <2>1. /\ work = disk /\ UNCHANGED <<disk, work>> /\ call'.todo = call.todo
        /\ CheckClientSigs(work, call.todo) /\ call.todo \in Seq(Input)
    BY <1>0, <1>12 DEF RetentionIngest, Inv, Call
  <2>2. \A i \in 1..Len(call.todo) :
          call.todo[i].sig = NoSig => call.todo[i].tenant \notin work.require_client_sig
    BY <2>1, AcceptedBatch
  <2>3. \A t \in Tenant : Uncommitted(t)' = {}
    BY <1>3, <2>1 DEF Uncommitted
  <2> QED
    BY <1>2, <2>1, <2>2, <2>3 DEF SignedInv
<1>13. CASE RetentionRefused
  BY <1>13, SignedAtRest DEF RetentionRefused, Idle, Inv
<1>14. CASE /\ call.at = "idle" /\ call' = call
            /\ \E later \in Database : Autocommit(later)
  BY <1>14, SignedAtRest DEF Autocommit
<1>15. CASE Crash
  BY <1>15, SignedAtRest DEF Crash, Idle
<1>16. CASE UNCHANGED vars
  <2>1. UNCHANGED <<disk, work, call>>
    BY <1>16 DEF vars
  <2>2. \A t \in Tenant : Uncommitted(t)' = Uncommitted(t)
    BY <2>1 DEF Uncommitted
  <2> QED
    BY <1>2, <2>1, <2>2 DEF SignedInv
<1>17. ASSUME \/ \E t \in Tenant : CreateTenant(t)
              \/ \E t \in Administered, k \in ClientKey :
                   AddTenantKey(t, k) \/ RevokeTenantKey(t, k)
              \/ \E t \in Administered, required \in BOOLEAN :
                   SetRequireClientSig(t, required)
       PROVE  /\ call.at = "idle" /\ call' = call
              /\ \E later \in Database : Autocommit(later)
  <2>1. call.at = "idle" /\ call' = call /\ work' = disk'
    BY <1>17 DEF CreateTenant, AddTenantKey, RevokeTenantKey, SetRequireClientSig, Autocommit
  <2>2. work' \in Database
    BY DEF TypeOK
  <2> QED
    BY <2>1, <2>2 DEF Autocommit
<1> QED
  BY <1>4, <1>5, <1>6, <1>7, <1>8, <1>9, <1>10, <1>11, <1>12, <1>13, <1>14, <1>15,
     <1>16, <1>17 DEF Next, Handlers

(* While a tenant's policy demands client signatures, no handler, erasure  *)
(* or job commits a row without one to its chain.                          *)
THEOREM OnlySignedRows == Spec => SignedOnlyHonoured
<1>1. TypeOK /\ Inv /\ SignedInv /\ TypeOK' /\ [Next]_vars =>
        [\A t \in disk.require_client_sig \cap disk'.require_client_sig :
           \A i \in DOMAIN disk'.event[t] \ DOMAIN disk.event[t] :
             disk'.event[t][i].client_sig # NoSig]_vars
  <2> SUFFICES ASSUME TypeOK, Inv, SignedInv, TypeOK', [Next]_vars,
                      NEW t \in disk.require_client_sig,
                      NEW i \in DOMAIN disk'.event[t] \ DOMAIN disk.event[t]
               PROVE  disk'.event[t][i].client_sig # NoSig
    OBVIOUS
  <2>1. t \in Tenant
    BY DEF TypeOK, Database
  <2>2. ~SameRows(disk, disk')
    BY DEF SameRows
  <2>3. disk' = work
    BY <2>2, OnlyCommitAppends DEF Commit
  <2>4. work.event[t] \in Seq(Row) /\ disk.event[t] \in Seq(Row)
    BY <2>1 DEF TypeOK, Database
  <2>5. i \in 1..Len(work.event[t]) /\ i \notin 1..Len(disk.event[t])
    BY <2>3, <2>4
  <2>6. i \in Uncommitted(t)
    BY <2>4, <2>5 DEF Uncommitted
  <2> QED
    BY <2>3, <2>6 DEF SignedInv
<1> QED
  BY <1>1, TypeCorrect, InvHolds, SignedInit, SignedNext, PTL DEF Spec, SignedOnlyHonoured

-------------------------------------------------------------------------------
(* Erasures.                                                               *)

(* A row after an insertion was there before, or is the inserted one. *)
LEMMA OldOrNew ==
  ASSUME NEW db \in Database, NEW in \in Input, WellChained(db), NEW t \in Tenant,
         NEW i \in 1..Len(Inserted(db, in).event[t])
  PROVE  \/ /\ i \in 1..Len(db.event[t])
            /\ Inserted(db, in).event[t][i] = db.event[t][i]
         \/ /\ t = in.tenant /\ i = Len(db.event[t]) + 1
            /\ Inserted(db, in).event[t][i] = NewRow(db, in)
<1> DEFINE row == NewRow(db, in)
           later == Inserted(db, in)
<1>1. /\ db.event[in.tenant] \in Seq(Row)
      /\ Len(later.event[in.tenant]) = Len(db.event[in.tenant]) + 1
      /\ \A k \in 1..Len(db.event[in.tenant]) :
           later.event[in.tenant][k] = db.event[in.tenant][k]
      /\ later.event[in.tenant][Len(db.event[in.tenant]) + 1] = row
      /\ \A u \in Tenant \ {in.tenant} : later.event[u] = db.event[u]
  BY InsertedRows
<1> HIDE DEF row, later
<1>2. CASE t # in.tenant
  <2>1. later.event[t] = db.event[t]
    BY <1>1, <1>2
  <2> QED
    BY <2>1 DEF later
<1>3. CASE t = in.tenant
  <2>1. Len(db.event[t]) \in Nat /\ i \in 1..Len(db.event[t]) + 1
    BY <1>1, <1>3 DEF later
  <2>2. CASE i \in 1..Len(db.event[t])
    BY <1>1, <1>3, <2>2 DEF later
  <2>3. CASE i = Len(db.event[t]) + 1
    BY <1>1, <1>3, <2>3 DEF later, row
  <2> QED
    BY <2>1, <2>2, <2>3
<1> QED
  BY <1>2, <1>3

LEMMA InsertedIds ==
  ASSUME NEW db \in Database, NEW in \in Input, WellChained(db),
         IdsFresh(db), IdsUnique(db)
  PROVE  IdsFresh(Inserted(db, in)) /\ IdsUnique(Inserted(db, in))
<1> DEFINE row == NewRow(db, in)
           later == Inserted(db, in)
<1>1. row.header.id = db.rows + 1 /\ later.rows = db.rows + 1
  BY InsertedEffect
<1>2. db.rows \in Nat
  BY DEF Database
<1>3. \A t \in Tenant : \A i \in 1..Len(later.event[t]) :
         \/ i \in 1..Len(db.event[t]) /\ later.event[t][i] = db.event[t][i]
         \/ t = in.tenant /\ i = Len(db.event[t]) + 1 /\ later.event[t][i] = row
  BY OldOrNew
<1> HIDE DEF row, later
<1>4. \A t \in Tenant : \A i \in 1..Len(db.event[t]) :
         db.event[t][i].header.id \in 1..db.rows
  BY DEF IdsFresh
<1>5. ASSUME NEW t \in Tenant, NEW i \in 1..Len(later.event[t])
      PROVE  later.event[t][i].header.id \in 1..later.rows
  <2>1. CASE i \in 1..Len(db.event[t]) /\ later.event[t][i] = db.event[t][i]
    <3>1. later.event[t][i].header.id \in 1..db.rows
      BY <1>4, <2>1
    <3> QED
      BY <1>1, <1>2, <3>1
  <2>2. CASE later.event[t][i] = row
    BY <1>1, <1>2, <2>2
  <2> QED
    BY <1>3, <2>1, <2>2
<1>6. ASSUME NEW t \in Tenant, NEW u \in Tenant,
             NEW i \in 1..Len(later.event[t]), NEW j \in 1..Len(later.event[u]),
             later.event[t][i].header.id = later.event[u][j].header.id
      PROVE  t = u /\ i = j
  <2> DEFINE Old(v, k) == k \in 1..Len(db.event[v]) /\ later.event[v][k] = db.event[v][k]
             New(v, k) == v = in.tenant /\ k = Len(db.event[v]) + 1 /\ later.event[v][k] = row
  <2>1. (Old(t, i) \/ New(t, i)) /\ (Old(u, j) \/ New(u, j))
    BY <1>3
  <2>2. \A v \in Tenant : \A k \in 1..Len(later.event[v]) :
           /\ Old(v, k) => later.event[v][k].header.id \in 1..db.rows
           /\ New(v, k) => later.event[v][k].header.id = db.rows + 1
    BY <1>1, <1>4
  <2>3. \A n \in 1..db.rows : n # db.rows + 1
    BY <1>2
  <2>4. CASE Old(t, i) /\ Old(u, j)
    BY <1>6, <2>4 DEF IdsUnique
  <2>5. CASE New(t, i) /\ New(u, j)
    BY <2>5
  <2> HIDE DEF Old, New
  <2> QED
    BY <1>6, <2>1, <2>2, <2>3, <2>4, <2>5
<1> QED
  BY <1>5, <1>6 DEF IdsFresh, IdsUnique, later

(* A record stays where it is. *)
LEMMA NamedGrown ==
  ASSUME NEW db \in Database, NEW later \in Database, Grown(db, later),
         NEW t \in Tenant, NEW i \in 1..Len(db.event[t]), Named(db, t, i)
  PROVE  Named(later, t, i)
<1>1. Len(db.event[t]) \in Nat /\ Len(later.event[t]) \in Nat
  BY DEF Database
<1>2. /\ Len(db.event[t]) <= Len(later.event[t])
      /\ \A k \in 1..Len(db.event[t]) : later.event[t][k] = db.event[t][k]
  BY DEF Grown
<1>3. PICK j \in i + 1..Len(db.event[t]) :
        /\ db.event[t][j].header.action = "payload.erased"
        /\ db.event[t][j].header.target = db.event[t][i].header.id
  BY DEF Named
<1>4. j \in 1..Len(db.event[t]) /\ j \in i + 1..Len(later.event[t])
  BY <1>1, <1>2
<1> QED
  BY <1>2, <1>3, <1>4 DEF Named

(* Statements that touch neither the rows nor their payloads. *)
LEMMA SamePayloadsKeep ==
  ASSUME NEW db, NEW later, NEW A, later.event = db.event,
         later.payload = db.payload, later.rows = db.rows
  PROVE  /\ IdsFresh(db) => IdsFresh(later)
         /\ IdsUnique(db) => IdsUnique(later)
         /\ Accounted(db, A) => Accounted(later, A)
BY DEF IdsFresh, IdsUnique, Accounted, Gone, Named

(* Where nothing is uncommitted, the committed database says it all. *)
LEMMA ErasedAtRest ==
  ASSUME work' = disk', IdsFresh(disk'), IdsUnique(disk'), Accounted(disk', aged')
  PROVE  EraseInv'
BY DEF EraseInv, Accounted

LEMMA ErasedUnchanged ==
  ASSUME EraseInv, work = disk, work' = disk', UNCHANGED <<disk, aged>>
  PROVE  EraseInv'
BY ErasedAtRest DEF EraseInv

LEMMA ErasedRollback ==
  ASSUME EraseInv, work' = disk, UNCHANGED <<disk, aged>>
  PROVE  EraseInv'
BY ErasedAtRest DEF EraseInv

LEMMA EraseInit == Init => EraseInv
<1>1. Init => \A t \in Tenant : disk.event[t] = <<>> /\ work.event[t] = <<>>
  BY DEF Init, EmptyDatabase
<1>2. Len(<<>>) = 0
  OBVIOUS
<1> QED
  BY <1>1, <1>2 DEF EraseInv, IdsFresh, IdsUnique, Accounted

LEMMA EraseNext == TypeOK /\ Inv /\ EraseInv /\ TypeOK' /\ [Next]_vars => EraseInv'
<1> SUFFICES ASSUME TypeOK, Inv, EraseInv, TypeOK', [Next]_vars PROVE EraseInv'
  OBVIOUS
<1>0. work \in Database /\ disk \in Database /\ call \in Call
  BY DEF TypeOK
<1>1. ASSUME NEW batch \in Batches, Ingest(batch) PROVE EraseInv'
  BY <1>1, ErasedUnchanged DEF Ingest, Inv
<1>2. CASE InsertNext
  <2> DEFINE in == Head(call.todo)
             row == NewRow(work, in)
             later == Inserted(work, in)
  <2>1. in \in Input /\ WellChained(work)
    BY <1>0, <1>2, HeadType DEF InsertNext, Inv
  <2>2. InTransaction /\ work' = later /\ UNCHANGED <<disk, aged>>
    BY <1>2, InsertNextIs
  <2>3. IdsFresh(later) /\ IdsUnique(later)
    BY <1>0, <2>1, InsertedIds DEF EraseInv
  <2>4. /\ row.header.id = work.rows + 1
        /\ row.header.action = in.action /\ row.header.target = in.target
        /\ later.payload = work.payload \cup {work.rows + 1}
    BY <1>0, <2>1, InsertedEffect
  <2>5. later \in Database /\ Grown(work, later)
    BY <1>0, <2>1, InsertedType, InsertedGrows
  <2>6. /\ Len(work.event[in.tenant]) \in Nat
        /\ Len(later.event[in.tenant]) = Len(work.event[in.tenant]) + 1
        /\ later.event[in.tenant][Len(work.event[in.tenant]) + 1] = row
    <3>1. /\ work.event[in.tenant] \in Seq(Row)
          /\ Len(later.event[in.tenant]) = Len(work.event[in.tenant]) + 1
          /\ \A k \in 1..Len(work.event[in.tenant]) :
               later.event[in.tenant][k] = work.event[in.tenant][k]
          /\ later.event[in.tenant][Len(work.event[in.tenant]) + 1] = row
          /\ \A u \in Tenant \ {in.tenant} : later.event[u] = work.event[u]
      BY <1>0, <2>1, InsertedRows
    <3> HIDE DEF in, row, later
    <3> QED
      BY <3>1
  <2>7. \A t \in Tenant : \A i \in 1..Len(later.event[t]) :
           \/ i \in 1..Len(work.event[t]) /\ later.event[t][i] = work.event[t][i]
           \/ later.event[t][i] = row
    BY <1>0, <2>1, OldOrNew
  <2>8. call.todo \in Seq(Input) /\ call.todo # <<>>
    BY <1>0, <2>2 DEF Call, InTransaction
  <2>9. ASSUME NEW r, call.todo = <<r>> PROVE in = r
    BY <2>8, <2>9
  <2> HIDE DEF in, row, later
  <2>10. ASSUME NEW t \in Tenant, NEW i \in 1..Len(later.event[t]), Gone(later, t, i)
         PROVE  later.event[t][i].header.id \in aged \/ Named(later, t, i)
    <3>1. later.event[t][i] # row
      BY <2>4, <2>10 DEF Gone
    <3>2. i \in 1..Len(work.event[t]) /\ later.event[t][i] = work.event[t][i]
      BY <2>7, <3>1
    <3>3. Gone(work, t, i)
      BY <2>4, <2>10, <3>2 DEF Gone
    <3>4. CASE work.event[t][i].header.id \in aged
      BY <3>2, <3>4
    <3>5. CASE Named(work, t, i)
      BY <1>0, <2>5, <3>2, <3>5, NamedGrown
    <3>6. CASE BeingErased(t, i)
      <4>1. in = ErasureRecord(t, work.event[t][i].header.id)
        BY <2>9, <3>6 DEF BeingErased
      <4>2. /\ in.tenant = t /\ in.action = "payload.erased"
            /\ in.target = work.event[t][i].header.id
        BY <4>1 DEF ErasureRecord, OwnEvent
      <4> DEFINE j == Len(work.event[t]) + 1
      <4>3. j \in i + 1..Len(later.event[t]) /\ later.event[t][j] = row
        BY <2>6, <3>2, <4>2
      <4> HIDE DEF j
      <4> QED
        BY <2>4, <3>2, <4>2, <4>3 DEF Named
    <3> QED
      BY <3>2, <3>3, <3>4, <3>5, <3>6 DEF EraseInv
  <2> QED
    BY <2>2, <2>3, <2>10 DEF EraseInv
<1>3. CASE ReplayNext
  <2>1. UNCHANGED <<disk, work, aged>> /\ InTransaction /\ IsDuplicate(work, Head(call.todo))
    BY <1>3 DEF ReplayNext
  <2>2. call.todo \in Seq(Input) /\ call.todo # <<>>
    BY <1>0, <2>1 DEF Call, InTransaction
  <2>3. ASSUME NEW t \in Tenant, NEW i \in 1..Len(work.event[t]) PROVE ~BeingErased(t, i)
    <3> DEFINE record == ErasureRecord(t, work.event[t][i].header.id)
    <3> SUFFICES ASSUME call.todo = <<record>> PROVE FALSE
      BY DEF BeingErased
    <3>1. Head(call.todo) = record
      BY <2>2
    <3>2. record.key = NoKey
      BY DEF ErasureRecord, OwnEvent
    <3> QED
      BY <2>1, <3>1, <3>2 DEF IsDuplicate, Truthy
  <2>4. \A t \in Tenant : \A i \in 1..Len(work.event[t]) :
          Gone(work, t, i) => work.event[t][i].header.id \in aged \/ Named(work, t, i)
    BY <2>3 DEF EraseInv
  <2> QED
    BY <2>1, <2>4 DEF EraseInv
<1>4. CASE AbortBatch
  BY <1>4, ErasedRollback DEF AbortBatch
<1>5. CASE Commit
  <2>1. disk' = work /\ work' = work /\ aged' = aged /\ call.todo = <<>>
    BY <1>5 DEF Commit
  <2>2. \A r : <<r>> # <<>>
    OBVIOUS
  <2>3. Accounted(work, aged)
    BY <2>1, <2>2 DEF EraseInv, Accounted, BeingErased
  <2> QED
    BY <2>1, <2>3, ErasedAtRest DEF EraseInv
<1>6. CASE Reply
  BY <1>6, ErasedUnchanged DEF Reply, Inv
<1>7. ASSUME NEW t \in Tenant, NEW id \in 1..work.rows, Erase(t, id) PROVE EraseInv'
  <2> DEFINE later == [work EXCEPT !.payload = @ \ {id}]
  <2>1. /\ work = disk /\ work' = later /\ UNCHANGED <<disk, aged>>
        /\ call'.at = "tx" /\ call'.todo = <<ErasureRecord(t, id)>>
    BY <1>7 DEF Erase, Inv, Idle
  <2>2. /\ later.event = work.event /\ later.rows = work.rows
        /\ later.payload = work.payload \ {id}
    BY <1>0 DEF Database
  <2>3. PICK k \in 1..Len(work.event[t]) : work.event[t][k].header.id = id
    <3>1. DOMAIN work.event[t] = 1..Len(work.event[t])
      BY <1>0 DEF Database
    <3> QED
      BY <1>7, <3>1 DEF Erase, HoldsEvent
  <2> HIDE DEF later
  <2>4. IdsFresh(later) /\ IdsUnique(later)
    BY <2>2 DEF EraseInv, IdsFresh, IdsUnique
  <2>5. ASSUME NEW u \in Tenant, NEW i \in 1..Len(later.event[u]), Gone(later, u, i)
        PROVE  \/ later.event[u][i].header.id \in aged
               \/ Named(later, u, i)
               \/ BeingErased(u, i)'
    <3>1. i \in 1..Len(work.event[u])
      BY <2>2
    <3>2. CASE work.event[u][i].header.id = id
      <4>1. u = t
        BY <2>3, <3>1, <3>2 DEF EraseInv, IdsUnique
      <4> QED
        BY <2>1, <2>2, <3>2, <4>1 DEF BeingErased
    <3>3. CASE work.event[u][i].header.id # id
      <4>1. Gone(disk, u, i) /\ i \in 1..Len(disk.event[u])
        BY <2>1, <2>2, <2>5, <3>1, <3>3 DEF Gone
      <4>2. disk.event[u][i].header.id \in aged \/ Named(disk, u, i)
        BY <4>1 DEF EraseInv, Accounted
      <4> QED
        BY <2>1, <2>2, <4>2 DEF Named
    <3> QED
      BY <3>2, <3>3
  <2> QED
    BY <2>1, <2>4, <2>5 DEF EraseInv
<1>8. ASSUME NEW cutoff \in 1..work.rows, RetentionDelete(cutoff) PROVE EraseInv'
  <2> DEFINE later == [work EXCEPT !.payload = @ \ (1..cutoff)]
  <2>1. /\ work = disk /\ work' = later /\ disk' = later
        /\ aged' = aged \cup (work.payload \cap 1..cutoff)
    BY <1>8 DEF RetentionDelete, Autocommit, Inv
  <2>2. /\ later.event = work.event /\ later.rows = work.rows
        /\ later.payload = work.payload \ (1..cutoff)
    BY <1>0 DEF Database
  <2> HIDE DEF later
  <2>3. IdsFresh(later) /\ IdsUnique(later)
    BY <2>2 DEF EraseInv, IdsFresh, IdsUnique
  <2>4. ASSUME NEW t \in Tenant, NEW i \in 1..Len(later.event[t]), Gone(later, t, i)
        PROVE  later.event[t][i].header.id \in aged' \/ Named(later, t, i)
    <3>1. CASE Gone(disk, t, i)
      <4>1. disk.event[t][i].header.id \in aged \/ Named(disk, t, i)
        BY <2>1, <2>2, <3>1 DEF EraseInv, Accounted
      <4> QED
        BY <2>1, <2>2, <4>1 DEF Named
    <3>2. CASE ~Gone(disk, t, i)
      BY <2>1, <2>2, <2>4, <3>2 DEF Gone
    <3> QED
      BY <3>1, <3>2
  <2>5. Accounted(later, aged')
    BY <2>4 DEF Accounted
  <2> QED
    BY <2>1, <2>3, <2>5, ErasedAtRest
<1>9. CASE RetentionIngest
  BY <1>9, ErasedUnchanged DEF RetentionIngest, Inv
<1>10. CASE RetentionRefused
  BY <1>10, ErasedUnchanged DEF RetentionRefused, Inv
<1>11. ASSUME NEW later \in Database, Autocommit(later), work = disk, aged' = aged,
              later.event = work.event, later.payload = work.payload,
              later.rows = work.rows
       PROVE  EraseInv'
  <2>1. IdsFresh(later) /\ IdsUnique(later) /\ Accounted(later, aged)
    BY <1>11, SamePayloadsKeep DEF EraseInv
  <2> QED
    BY <1>11, <2>1, ErasedAtRest DEF Autocommit
<1>12. ASSUME NEW t \in Tenant
       PROVE  /\ GetOrCreateTenant(work, t) \in Database
              /\ GetOrCreateTenant(work, t).event = work.event
              /\ GetOrCreateTenant(work, t).payload = work.payload
              /\ GetOrCreateTenant(work, t).rows = work.rows
  BY <1>0, GetOrCreateTenantType, CreateKeepsHeads DEF Inv
<1>13. ASSUME NEW t \in Tenant, CreateTenant(t) PROVE EraseInv'
  <2>1. work = disk /\ aged' = aged /\ Autocommit(GetOrCreateTenant(work, t))
    BY <1>13 DEF CreateTenant, Inv
  <2> QED
    BY <1>11, <1>12, <2>1
<1>14. ASSUME NEW t \in Administered, NEW k \in ClientKey,
              AddTenantKey(t, k) \/ RevokeTenantKey(t, k)
       PROVE  EraseInv'
  <2> DEFINE made == GetOrCreateTenant(work, t)
             added == [made EXCEPT !.tenant_key[t] = @ \cup {k}]
             revoked == [work EXCEPT !.tenant_key[t] = @ \ {k}]
  <2>1. /\ made \in Database /\ made.event = work.event
        /\ made.payload = work.payload /\ made.rows = work.rows
    BY <1>12, ConstantsAssumption
  <2> HIDE DEF made
  <2>2. /\ added \in Database /\ added.event = made.event
        /\ added.payload = made.payload /\ added.rows = made.rows
    BY <2>1, ConstantsAssumption DEF Database
  <2>3. /\ revoked \in Database /\ revoked.event = work.event
        /\ revoked.payload = work.payload /\ revoked.rows = work.rows
    BY <1>0, ConstantsAssumption DEF Database
  <2>4. work = disk /\ aged' = aged /\ (Autocommit(added) \/ Autocommit(revoked))
    BY <1>14 DEF AddTenantKey, RevokeTenantKey, Inv, made
  <2> HIDE DEF added, revoked
  <2> QED
    BY <1>11, <2>1, <2>2, <2>3, <2>4
<1>15. ASSUME NEW t \in Administered, NEW required \in BOOLEAN,
              SetRequireClientSig(t, required)
       PROVE  EraseInv'
  <2> DEFINE made == GetOrCreateTenant(work, t)
             later == [made EXCEPT !.require_client_sig =
                         IF required THEN @ \cup {t} ELSE @ \ {t}]
  <2>1. /\ made \in Database /\ made.event = work.event
        /\ made.payload = work.payload /\ made.rows = work.rows
    BY <1>12, ConstantsAssumption
  <2> HIDE DEF made
  <2>2. /\ later \in Database /\ later.event = made.event
        /\ later.payload = made.payload /\ later.rows = made.rows
    BY <2>1, ConstantsAssumption DEF Database
  <2>3. work = disk /\ aged' = aged /\ Autocommit(later)
    BY <1>15 DEF SetRequireClientSig, Inv, made
  <2> HIDE DEF later
  <2> QED
    BY <1>11, <2>1, <2>2, <2>3
<1>16. CASE Crash
  BY <1>16, ErasedRollback DEF Crash
<1>17. CASE UNCHANGED vars
  <2>1. UNCHANGED <<disk, work, call, aged>>
    BY <1>17 DEF vars
  <2>2. \A t \in Tenant : \A i \in 1..Len(work.event[t]) :
          BeingErased(t, i) => BeingErased(t, i)'
    BY <2>1 DEF BeingErased
  <2> QED
    BY <2>1, <2>2 DEF EraseInv
<1> QED
  BY <1>1, <1>2, <1>3, <1>4, <1>5, <1>6, <1>7, <1>8, <1>9, <1>10, <1>13, <1>14,
     <1>15, <1>16, <1>17 DEF Next, Handlers

(* A payload missing from the committed database is named by a later       *)
(* record of its chain, unless the retention job took it: erase is one     *)
(* transaction with its record, whatever fails or dies in between.         *)
THEOREM ErasuresRecorded == Spec => []EraseNeverSilent
<1>1. TypeOK /\ EraseInv => EraseNeverSilent
  <2> SUFFICES ASSUME TypeOK, EraseInv, NEW t \in Tenant, NEW i \in Missing(disk, t)
               PROVE  \/ disk.event[t][i].header.id \in aged
                      \/ ErasureRecorded(disk, t, i)
    BY DEF EraseNeverSilent
  <2>1. DOMAIN disk.event[t] = 1..Len(disk.event[t])
    BY DEF TypeOK, Database
  <2>2. i \in 1..Len(disk.event[t]) /\ Gone(disk, t, i)
    BY <2>1 DEF Missing, Gone
  <2>3. disk.event[t][i].header.id \in aged \/ Named(disk, t, i)
    BY <2>2 DEF EraseInv, Accounted
  <2>4. Named(disk, t, i) => ErasureRecorded(disk, t, i)
    BY DEF Named, ErasureRecorded
  <2> QED
    BY <2>3, <2>4
<1> QED
  BY <1>1, TypeCorrect, InvHolds, EraseInit, EraseNext, PTL DEF Spec
===============================================================================
