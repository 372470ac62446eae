------------------------------ MODULE AnchorLoop ------------------------------
(***************************************************************************)
(* The anchor loop (packages/server: anchorLoop.ts and the interval timer  *)
(* of main.ts): a tick builds tenant roots and a project root in every     *)
(* project database that is due, one global root over them in the          *)
(* registry, links the projects back to it and submits it to every public  *)
(* log; a maintenance pass then retries missing submissions and upgrades   *)
(* pending receipts.                                                       *)
(*                                                                         *)
(* A tick runs without yielding up to its first await, so requests         *)
(* interleave with it only while it waits for a public log; but each       *)
(* database statement of it commits on its own, in two kinds of files, and *)
(* a fault can fall between any two of them.                               *)
(*                                                                         *)
(* Merkle roots are ideal: a root is identified with the row that stores   *)
(* it, a global root with its rank in the registry.                        *)
(***************************************************************************)
EXTENDS Integers, Sequences, FiniteSets, Functions

CONSTANTS
  Project,     \* projects in the registry
  Tenant,      \* tenants of each project
  Anchors,     \* the configured public logs (rekor, ots), in their order
  Deferred,    \* the kinds whose receipts start out pending (ots)
  Interval,    \* [Project -> Nat]: the plan's anchor interval
  Demo,        \* the projects that are wiped nightly
  Self, SelfTenant,  \* the project and tenant of the server's own audit log
  RetryLimit, UpgradeLimit,  \* LIMIT 20 and LIMIT 50 of maintain's queries
  MaxEvents,   \* bound: events ever ingested
  MaxFaults    \* bound: crashes and failing statements

Kind == Range(Anchors)

ASSUME ConstantsAssumption ==
  /\ IsFiniteSet(Project) /\ IsFiniteSet(Tenant)
  /\ Anchors \in Seq(Kind) /\ IsInjective(Anchors)
  /\ Deferred \subseteq Kind /\ Demo \subseteq Project \ {Self}
  /\ Interval \in [Project -> Nat]
  /\ RetryLimit \in Nat \ {0} /\ UpgradeLimit \in Nat \ {0}
  /\ Self \in Project /\ SelfTenant \in Tenant
  /\ MaxEvents \in Nat /\ MaxFaults \in Nat

None == 0  \* the empty global_root_id, the NULL root_id

VARIABLES
  ingested,    \* events ever ingested (bounds the instance)
  event,       \* [Project -> [Tenant -> Seq(root_id)]], by position
  tenantRoot,  \* [Project -> set of tenant_root rows]
  projectRoot, \* [Project -> set of project_root rows]
  roots,       \* project roots ever created, the last id
  globalRoot,  \* the registry's global_root rows, oldest first
  index,       \* the registry's project_root_index rows
  anchor,      \* the registry's anchor rows
  published,   \* what the public logs hold: set of <<kind, global root>>
  loop,        \* the timer callback's progress
  faults       \* crashes and failing statements so far

projectVars == <<ingested, event, tenantRoot, projectRoot, roots>>
registryVars == <<globalRoot, index, anchor>>
vars == <<projectVars, registryVars, published, loop, faults>>

TenantRoot == [tenant: Tenant, from: Nat, to: Nat, project_root: Nat]
ProjectRoot == [id: Nat, global: Nat, age: Nat]
\* prev is leaf 0, leaves are the project roots after it
GlobalRoot == [prev: Nat, leaves: SUBSET (Project \X Nat)]
AnchorRow == [root: Nat, kind: Kind, status: {"pending", "final"}]

Loop == [at: {"idle", "scan", "link", "anchor", "maintain", "retry", "upgrade"},
         projects: SUBSET Project,          \* still to scan
         rooted: SUBSET (Project \X Nat),   \* project roots to put under the global root
         kinds: Seq(Kind),                  \* logs still to serve, the current one first
         linking: SUBSET (Project \X Nat),  \* indexed, its row not yet updated
         root: Nat,                         \* this tick's global root
         queue: SUBSET Nat,                 \* global roots its query returned
         sent: SUBSET (Kind \X Nat)]        \* the submission the log has, not yet recorded
Idle == [at |-> "idle", projects |-> {}, rooted |-> {}, linking |-> {}, kinds |-> <<>>,
         root |-> None, queue |-> {}, sent |-> {}]

Init ==
  /\ ingested = 0
  /\ event = [p \in Project |-> [t \in Tenant |-> <<>>]]
  /\ tenantRoot = [p \in Project |-> {}]
  /\ projectRoot = [p \in Project |-> {}]
  /\ roots = 0
  /\ globalRoot = <<>> /\ index = {} /\ anchor = {}
  /\ published = {}
  /\ loop = Idle
  /\ faults = 0

-------------------------------------------------------------------------------
(* The rest of the server, whenever the loop does not hold the thread.     *)

Synchronous == loop.at \in {"scan", "link"}

AddEvent(p, t) ==
  /\ ingested < MaxEvents
  /\ ingested' = ingested + 1
  /\ event' = [event EXCEPT ![p][t] = Append(@, None)]

Ingest(p, t) ==
  /\ ~Synchronous
  /\ AddEvent(p, t)
  /\ UNCHANGED <<tenantRoot, projectRoot, roots, registryVars, published, loop, faults>>

(* Mutant: the reset forgets the tables of the roots. *)
ResetProjectKeepsRoots(p) ==
  /\ ~Synchronous
  /\ event[p] # [t \in Tenant |-> <<>>]
  /\ ingested < MaxEvents /\ ingested' = ingested + 1
  /\ LET wiped == [event EXCEPT ![p] = [t \in Tenant |-> <<>>]]
     IN event' = [wiped EXCEPT ![Self][SelfTenant] = Append(@, None)]
  /\ UNCHANGED <<tenantRoot, projectRoot, roots, registryVars, published, loop, faults>>

(* The nightly demo reset: every table of the project, none of the         *)
(* registry, and then demo.reset in the server's own log.                  *)
ResetProject(p) ==
  /\ ~Synchronous
  /\ event[p] # [t \in Tenant |-> <<>>]
  /\ ingested < MaxEvents /\ ingested' = ingested + 1
  /\ LET wiped == [event EXCEPT ![p] = [t \in Tenant |-> <<>>]]
     IN event' = [wiped EXCEPT ![Self][SelfTenant] = Append(@, None)]
  /\ tenantRoot' = [tenantRoot EXCEPT ![p] = {}]
  /\ projectRoot' = [projectRoot EXCEPT ![p] = {}]
  /\ UNCHANGED <<roots, registryVars, published, loop, faults>>

(* Time passes between two ticks; ages beyond the longest interval are all alike. *)
MaxInterval == CHOOSE n \in {Interval[p] : p \in Project} :
                 \A p \in Project : Interval[p] <= n
Older(rows) ==
  {[r EXCEPT !.age = IF r.age < MaxInterval THEN @ + 1 ELSE @] : r \in rows}
Elapse ==
  /\ loop.at = "idle"
  /\ projectRoot' = [p \in Project |-> Older(projectRoot[p])]
  /\ projectRoot' # projectRoot
  /\ UNCHANGED <<ingested, event, tenantRoot, roots, registryVars, published, loop, faults>>

-------------------------------------------------------------------------------
(* tick, up to its first await.                                            *)

StartTick ==
  /\ loop.at = "idle"
  /\ loop' = [Idle EXCEPT !.at = "scan", !.projects = Project]
  /\ UNCHANGED <<projectVars, registryVars, published, faults>>

Unrooted(p, t) == {i \in DOMAIN event[p][t] : event[p][t][i] = None}
HasUnrooted(p) == \E t \in Tenant : Unrooted(p, t) # {}

(* Mutant: the comparison with the interval is turned round. *)
DueTooEarly(p) == \A r \in projectRoot[p] : r.global # None => r.age <= Interval[p]

(* The project's plan allows another root; only linked roots count. *)
Due(p) == \A r \in projectRoot[p] : r.global # None => r.age >= Interval[p]

First(S) == CHOOSE i \in S : \A j \in S : i <= j
Last(S) == CHOOSE i \in S : \A j \in S : j <= i

(* Mutant: the batch starts at the position before its first event. *)
BatchesFromOffByOne(p, id) ==
  {[tenant |-> t, from |-> First(Unrooted(p, t)) - 2,
    to |-> Last(Unrooted(p, t)) - 1, project_root |-> id] :
      t \in {u \in Tenant : Unrooted(p, u) # {}}}

(* Batches from the first to the last unrooted position, counted from 0.   *)
Batches(p, id) ==
  {[tenant |-> t, from |-> First(Unrooted(p, t)) - 1,
    to |-> Last(Unrooted(p, t)) - 1, project_root |-> id] :
      t \in {u \in Tenant : Unrooted(p, u) # {}}}

(* Mutant: the events keep their empty root_id. *)
RootProjectUnmarked(p) ==
  /\ loop.at = "scan" /\ p \in loop.projects
  /\ Due(p) /\ HasUnrooted(p)
  /\ LET id == roots + 1
     IN /\ roots' = id
        /\ tenantRoot' = [tenantRoot EXCEPT ![p] = @ \cup Batches(p, id)]
        /\ projectRoot' = [projectRoot EXCEPT ![p] = @ \cup
             {[id |-> id, global |-> None, age |-> 0]}]
        /\ loop' = [loop EXCEPT !.projects = @ \ {p}, !.rooted = @ \cup {<<p, id>>}]
  /\ UNCHANGED <<ingested, event, registryVars, published, faults>>

(* rootProject, one transaction: a batch per tenant with unrooted events.  *)
RootProject(p) ==
  /\ loop.at = "scan" /\ p \in loop.projects
  /\ Due(p) /\ HasUnrooted(p)
  /\ LET id == roots + 1
     IN /\ roots' = id
        /\ tenantRoot' = [tenantRoot EXCEPT ![p] = @ \cup Batches(p, id)]
        /\ event' = [event EXCEPT ![p] = [t \in Tenant |->
             [i \in DOMAIN event[p][t] |->
                IF i \in Unrooted(p, t) THEN id ELSE event[p][t][i]]]]
        /\ projectRoot' = [projectRoot EXCEPT ![p] = @ \cup
             {[id |-> id, global |-> None, age |-> 0]}]
        /\ loop' = [loop EXCEPT !.projects = @ \ {p}, !.rooted = @ \cup {<<p, id>>}]
  /\ UNCHANGED <<ingested, registryVars, published, faults>>

SkipProject(p) ==
  /\ loop.at = "scan" /\ p \in loop.projects
  /\ ~Due(p) \/ ~HasUnrooted(p)
  /\ loop' = [loop EXCEPT !.projects = @ \ {p}]
  /\ UNCHANGED <<projectVars, registryVars, published, faults>>

(* Mutant: a tick that roots nothing does not run maintain either. *)
NothingRootedNoMaintain ==
  /\ loop.at = "scan" /\ loop.projects = {} /\ loop.rooted = {}
  /\ loop' = Idle
  /\ UNCHANGED <<projectVars, registryVars, published, faults>>

(* Nothing was rooted: tick returns null, and only maintain runs. *)
NothingRooted ==
  /\ loop.at = "scan" /\ loop.projects = {} /\ loop.rooted = {}
  /\ loop' = [Idle EXCEPT !.at = "maintain", !.kinds = Anchors]
  /\ UNCHANGED <<projectVars, registryVars, published, faults>>

(* Mutant: no sweep. *)
InsertGlobalRootNoSweep ==
  /\ loop.at = "scan" /\ loop.projects = {} /\ loop.rooted # {}
  /\ globalRoot' = Append(globalRoot, [prev |-> Len(globalRoot), leaves |-> loop.rooted])
  /\ loop' = [loop EXCEPT !.at = "link", !.root = Len(globalRoot) + 1]
  /\ UNCHANGED <<projectVars, index, anchor, published, faults>>

(* Mutant: project roots that have a global root are swept up with them. *)
DanglingOrNot ==
  UNION {{<<p, r.id>> : r \in projectRoot[p]} : p \in Project}

(* Project roots an earlier tick created and never linked. *)
Dangling ==
  UNION {{<<p, r.id>> : r \in {s \in projectRoot[p] : s.global = None}} : p \in Project}

(* The sweep for dangling roots and the INSERT into global_root. *)
InsertGlobalRoot ==
  /\ loop.at = "scan" /\ loop.projects = {} /\ loop.rooted # {}
  /\ LET all == loop.rooted \cup Dangling
     IN /\ globalRoot' = Append(globalRoot, [prev |-> Len(globalRoot), leaves |-> all])
        /\ loop' = [loop EXCEPT !.at = "link", !.rooted = all,
                                !.root = Len(globalRoot) + 1]
  /\ UNCHANGED <<projectVars, index, anchor, published, faults>>

(* Mutant: the index is unique on the project alone. *)
IndexRootOncePerProject(p, id) ==
  /\ loop.at = "link" /\ loop.linking = {} /\ <<p, id>> \in loop.rooted
  /\ index' = IF \E g \in DOMAIN globalRoot : <<g, p>> \in index
              THEN index ELSE index \cup {<<loop.root, p>>}
  /\ loop' = [loop EXCEPT !.rooted = @ \ {<<p, id>>}, !.linking = {<<p, id>>}]
  /\ UNCHANGED <<projectVars, globalRoot, anchor, published, faults>>

(* For each of them: INSERT OR IGNORE INTO project_root_index, then the    *)
(* UPDATE of its project_root row.                                         *)
IndexRoot(p, id) ==
  /\ loop.at = "link" /\ loop.linking = {} /\ <<p, id>> \in loop.rooted
  /\ index' = index \cup {<<loop.root, p>>}
  /\ loop' = [loop EXCEPT !.rooted = @ \ {<<p, id>>}, !.linking = {<<p, id>>}]
  /\ UNCHANGED <<projectVars, globalRoot, anchor, published, faults>>

LinkRoot(p, id) ==
  /\ loop.at = "link" /\ <<p, id>> \in loop.linking
  /\ projectRoot' = [projectRoot EXCEPT ![p] =
       {IF r.id = id THEN [r EXCEPT !.global = loop.root] ELSE r : r \in @}]
  /\ loop' = [loop EXCEPT !.linking = {}]
  /\ UNCHANGED <<ingested, event, tenantRoot, roots, registryVars, published, faults>>

StartAnchoring ==
  /\ loop.at = "link" /\ loop.rooted = {} /\ loop.linking = {}
  /\ loop' = [loop EXCEPT !.at = "anchor", !.kinds = Anchors]
  /\ UNCHANGED <<projectVars, registryVars, published, faults>>
-------------------------------------------------------------------------------
(* The awaits: submissions to the public logs, by tick for its own global  *)
(* root and by maintain for the roots its query returned.                  *)

(* anchor(root) of log k is the call the loop is in. *)
Calling(k, g) ==
  /\ loop.kinds # <<>> /\ k = Head(loop.kinds)
  /\ \/ loop.at = "anchor" /\ g = loop.root
     \/ loop.at = "retry" /\ g \in loop.queue

NextCall(k, g) ==
  loop' = IF loop.at = "anchor"
          THEN [loop EXCEPT !.kinds = Tail(@), !.sent = {}]
          ELSE [loop EXCEPT !.queue = @ \ {g}, !.sent = {}]

(* The log takes the root; the answer is still on its way. *)
Publish(k, g) ==
  /\ Calling(k, g) /\ loop.sent = {}
  /\ published' = published \cup {<<k, g>>}
  /\ loop' = [loop EXCEPT !.sent = {<<k, g>>}]
  /\ UNCHANGED <<projectVars, registryVars, faults>>

(* Mutant: the receipt is inserted without awaiting the answer. *)
RecordReceiptUnawaited(k, g) ==
  /\ Calling(k, g)
  /\ anchor' = anchor \cup
       {[root |-> g, kind |-> k, status |-> IF k \in Deferred THEN "pending" ELSE "final"]}
  /\ NextCall(k, g)
  /\ UNCHANGED <<projectVars, globalRoot, index, published, faults>>

(* The answer arrives and the receipt is inserted. *)
RecordReceipt(k, g) ==
  /\ Calling(k, g) /\ loop.sent = {<<k, g>>}
  /\ anchor' = anchor \cup
       {[root |-> g, kind |-> k, status |-> IF k \in Deferred THEN "pending" ELSE "final"]}
  /\ NextCall(k, g)
  /\ UNCHANGED <<projectVars, globalRoot, index, published, faults>>

(* The call fails, before or after the log took the root, or the INSERT    *)
(* does; the error is caught and logged.                                   *)
CallFails(k, g) ==
  /\ Calling(k, g) /\ loop.sent \subseteq {<<k, g>>}
  /\ NextCall(k, g)
  /\ UNCHANGED <<projectVars, registryVars, published, faults>>

StartMaintenance ==
  /\ loop.at = "anchor" /\ loop.kinds = <<>>
  /\ loop' = [Idle EXCEPT !.at = "maintain", !.kinds = Anchors]
  /\ UNCHANGED <<projectVars, registryVars, published, faults>>

(* The oldest global roots without a receipt of kind k, at most RetryLimit. *)
MissingAnchor(k) ==
  {g \in DOMAIN globalRoot : ~\E a \in anchor : a.root = g /\ a.kind = k}
OldestMissing(k) ==
  {g \in MissingAnchor(k) :
     Cardinality({h \in MissingAnchor(k) : h < g}) < RetryLimit}

MaintainKind ==
  /\ loop.at = "maintain" /\ loop.kinds # <<>>
  /\ loop' = [loop EXCEPT !.at = "retry", !.queue = OldestMissing(Head(loop.kinds))]
  /\ UNCHANGED <<projectVars, registryVars, published, faults>>

PendingRoots(k) ==
  {a.root : a \in {b \in anchor : b.kind = k /\ b.status = "pending"}}

(* At most UpgradeLimit of them, in no particular order. *)
StartUpgrades ==
  /\ loop.at = "retry" /\ loop.queue = {}
  /\ \E queue \in SUBSET PendingRoots(Head(loop.kinds)) :
       /\ \/ queue = PendingRoots(Head(loop.kinds))
          \/ Cardinality(queue) = UpgradeLimit
       /\ Cardinality(queue) <= UpgradeLimit
       /\ loop' = [loop EXCEPT !.at = "upgrade", !.queue = queue]
  /\ UNCHANGED <<projectVars, registryVars, published, faults>>

(* upgrade(receipt): still pending or failing, or final by now. *)
Upgrade(g, final) ==
  /\ loop.at = "upgrade" /\ g \in loop.queue
  /\ anchor' = IF final
               THEN {IF a.root = g /\ a.kind = Head(loop.kinds)
                     THEN [a EXCEPT !.status = "final"] ELSE a : a \in anchor}
               ELSE anchor
  /\ loop' = [loop EXCEPT !.queue = @ \ {g}]
  /\ UNCHANGED <<projectVars, globalRoot, index, published, faults>>

EndMaintainKind ==
  /\ loop.at = "upgrade" /\ loop.queue = {}
  /\ loop' = [loop EXCEPT !.at = "maintain", !.kinds = Tail(@)]
  /\ UNCHANGED <<projectVars, registryVars, published, faults>>

EndRound ==
  /\ loop.at = "maintain" /\ loop.kinds = <<>>
  /\ loop' = Idle
  /\ UNCHANGED <<projectVars, registryVars, published, faults>>

-------------------------------------------------------------------------------
(* Faults.                                                                 *)

(* A statement outside the calls' try blocks throws (disk full, busy       *)
(* file): the promise rejects, the rest of the round is skipped and the    *)
(* timer starts a new tick later.                                          *)
RoundThrows ==
  /\ Synchronous \/ loop.at = "maintain" \/ (loop.at = "retry" /\ loop.queue = {})
  /\ faults < MaxFaults /\ faults' = faults + 1
  /\ loop' = Idle
  /\ UNCHANGED <<projectVars, registryVars, published>>

(* The process dies; the next one logs platform.start to its own project.  *)
Restart ==
  /\ faults < MaxFaults /\ faults' = faults + 1
  /\ loop' = Idle
  /\ AddEvent(Self, SelfTenant)
  /\ UNCHANGED <<tenantRoot, projectRoot, roots, registryVars, published>>

-------------------------------------------------------------------------------
Roots == DOMAIN globalRoot

Tick ==
  \/ StartTick \/ NothingRooted \/ InsertGlobalRoot \/ StartAnchoring
  \/ \E p \in Project : RootProject(p) \/ SkipProject(p)
  \/ \E p \in Project, id \in 1..roots : IndexRoot(p, id) \/ LinkRoot(p, id)

Maintain ==
  \/ StartMaintenance \/ MaintainKind \/ StartUpgrades \/ EndMaintainKind \/ EndRound
  \/ \E g \in Roots, final \in BOOLEAN : Upgrade(g, final)

Submit ==
  \E k \in Kind, g \in Roots : Publish(k, g) \/ RecordReceipt(k, g) \/ CallFails(k, g)

Environment ==
  \/ \E p \in Project, t \in Tenant : Ingest(p, t)
  \/ \E p \in Demo : ResetProject(p)
  \/ Elapse

Next == Tick \/ Maintain \/ Submit \/ Environment \/ RoundThrows \/ Restart

Spec == Init /\ [][Next]_vars

(* The timer fires for ever and Node runs what is ready, time passes, and  *)
(* a submission that is tried again and again is taken and recorded some   *)
(* day.  Requests, faults and resets are not fair.                         *)
FairSpec ==
  /\ Spec
  /\ WF_vars(Tick) /\ WF_vars(Maintain) /\ WF_vars(Submit) /\ SF_vars(Elapse)
  /\ \A k \in Kind, g \in 1..MaxEvents :
       SF_vars(Publish(k, g)) /\ SF_vars(RecordReceipt(k, g))

-------------------------------------------------------------------------------
(* What the server and an auditor read.                                    *)

(* verifyRoots on the whole chain of tenant t: every batch has its events, *)
(* they are the ones it was built from, and a linked batch's global root   *)
(* is in the registry and contains its project root.                       *)
VerifyRoots(p, t) ==
  \A tr \in {r \in tenantRoot[p] : r.tenant = t} :
    \E pr \in projectRoot[p] :
      /\ pr.id = tr.project_root
      /\ tr.to < Len(event[p][t])
      /\ \A i \in tr.from..tr.to : event[p][t][i + 1] = tr.project_root
      /\ pr.global # None =>
           /\ pr.global \in Roots
           /\ <<p, pr.id>> \in globalRoot[pr.global].leaves

-------------------------------------------------------------------------------
(* Properties.                                                             *)

TypeOK ==
  /\ ingested \in Nat /\ roots \in Nat /\ faults \in Nat
  /\ event \in [Project -> [Tenant -> Seq(Nat)]]
  /\ tenantRoot \in [Project -> SUBSET TenantRoot]
  /\ projectRoot \in [Project -> SUBSET ProjectRoot]
  /\ globalRoot \in Seq(GlobalRoot)
  /\ index \subseteq Nat \X Project
  /\ anchor \subseteq AnchorRow
  /\ published \subseteq Kind \X Nat
  /\ loop \in Loop

(* The batches of a tenant cut a prefix of its chain into consecutive      *)
(* ranges: every rooted event lies in exactly one batch, the one its       *)
(* root_id names, and events not yet rooted come after all of them.  This  *)
(* is what lets rootProject take its range from the first and last row.    *)
BatchesPartition ==
  \A p \in Project, t \in Tenant :
    LET batches == {r \in tenantRoot[p] : r.tenant = t}
    IN /\ \A i \in DOMAIN event[p][t] :
            {b.project_root : b \in {c \in batches : i - 1 \in c.from..c.to}}
              = {event[p][t][i]} \ {None}
       /\ \A i, j \in DOMAIN event[p][t] :
            i < j /\ event[p][t][i] = None => event[p][t][j] = None
       /\ \A b, c \in batches :
            b # c => b.to < c.from \/ c.to < b.from

(* GET verify, answered at any moment the loop does not hold the thread,   *)
(* accepts every tenant's roots, wherever a tick was cut off before.       *)
RootsVerify ==
  ~Synchronous => \A p \in Project, t \in Tenant : VerifyRoots(p, t)

(* A receipt in the registry is backed by the public log it names, and by  *)
(* a global root of the registry; there is one per root and log.           *)
ReceiptsBacked ==
  /\ \A a \in anchor : <<a.kind, a.root>> \in published /\ a.root \in Roots
  /\ \A a, b \in anchor : a.root = b.root /\ a.kind = b.kind => a = b

(* A tick that reaches its anchors leaves no project root without a global *)
(* root, however many earlier ticks were cut off.                          *)
SweepComplete ==
  loop.at = "anchor" => Dangling = {}

(* Once a project root is linked, the proof handed out for its events      *)
(* stays true: its row is never linked again or dropped, short of a reset  *)
(* of the project.                                                         *)
LinkedForGood ==
  [][\A p \in Project : \A r \in projectRoot[p] :
       r.global # None =>
         \/ \E s \in projectRoot'[p] : s.id = r.id /\ s.global = r.global
         \/ p \in Demo /\ projectRoot'[p] = {}]_vars

(* A project a customer sees as anchored under a global root is listed     *)
(* under that root on the public page: index rows are written first.       *)
LinkedIsIndexed ==
  \A p \in Project : \A r \in projectRoot[p] :
    r.global # None => <<r.global, p>> \in index

(* Every ingested event is put under a root some day, whatever its plan's  *)
(* interval, however the submissions go and wherever a tick is cut off.    *)
EventsGetRooted ==
  \A p \in Project, t \in Tenant, i \in 1..MaxEvents :
    i \in Unrooted(p, t) ~> i \notin Unrooted(p, t)

(* Every global root gets its receipt from every public log in the end:    *)
(* what tick failed to submit, or lost the answer of, maintain submits     *)
(* again, at most RetryLimit roots a round.                                *)
RootsGetAnchored ==
  \A k \in Kind, g \in 1..MaxEvents :
    g \in Roots ~> \E a \in anchor : a.root = g /\ a.kind = k

(* What the comments on the sweep and in verifyRoots, and the reason       *)
(* proofForEvent answers with, say of a project root that was created and  *)
(* not linked: the next tick puts it under a global root.                  *)
DanglingRecovered ==
  \A p \in Project, id \in 1..MaxEvents :
    <<p, id>> \in Dangling ~> <<p, id>> \notin Dangling

===============================================================================
