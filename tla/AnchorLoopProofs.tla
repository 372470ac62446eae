--------------------------- MODULE AnchorLoopProofs ---------------------------
(***************************************************************************)
(* Theorems about AnchorLoop, for any projects, tenants, logs, plans,      *)
(* limits and bounds.                                                      *)
(***************************************************************************)
EXTENDS AnchorLoop, SequenceTheorems, WellFoundedInduction, TLAPS

(***************************************************************************)
(* The inductive invariant.  The properties the runs check are not         *)
(* inductive by themselves: that a batch's events are still the ones it    *)
(* was built from rests on the ids being drawn from one counter, that the  *)
(* next batch may be cut from the first and last unrooted row rests on the *)
(* unrooted rows being a suffix, that a tick's anchors leave nothing       *)
(* dangling rests on what it has still to link being exactly what dangles, *)
(* and that a receipt is inserted once rests on the call asking only for   *)
(* receipts the registry has not.                                          *)
(***************************************************************************)

(* The ids of project roots come from one counter; a row keeps its own.    *)
IdsDrawn ==
  /\ \A p \in Project : \A r \in projectRoot[p] : r.id \in 1..roots
  /\ \A p \in Project : \A r, s \in projectRoot[p] : r.id = s.id => r = s

(* Batches against the chain they were cut from: what rootProject may rely *)
(* on when it takes the next batch from the first and last unrooted row.   *)
Cover(chain, batches) ==
  /\ \A i \in DOMAIN chain : chain[i] # None => \E b \in batches : i - 1 \in b.from..b.to
  /\ \A i, j \in DOMAIN chain : i < j /\ chain[i] = None => chain[j] = None
  /\ \A b \in batches : /\ b.from <= b.to /\ b.to < Len(chain)
                        /\ \A i \in b.from..b.to : chain[i + 1] = b.project_root
  /\ \A b, c \in batches : b.project_root = c.project_root => b = c

BatchesOf(p, t) == {b \in tenantRoot[p] : b.tenant = t}

ChainsRooted == \A p \in Project, t \in Tenant : Cover(event[p][t], BatchesOf(p, t))

(* A batch hangs under a project root that is there. *)
BatchesHang ==
  \A p \in Project : \A b \in tenantRoot[p] : \E r \in projectRoot[p] : r.id = b.project_root

(* A link leads to a global root that has the project root as a leaf and   *)
(* lists the project.                                                      *)
LinksHold ==
  \A p \in Project : \A r \in projectRoot[p] :
    r.global # None => /\ r.global \in Roots
                       /\ <<p, r.id>> \in globalRoot[r.global].leaves
                       /\ <<r.global, p>> \in index

(* What a tick still has to link is what dangles. *)
TickLinks ==
  /\ loop.at = "scan" => loop.rooted \subseteq Dangling /\ loop.linking = {}
  /\ loop.at = "link" =>
       /\ loop.rooted \cup loop.linking = Dangling
       /\ loop.rooted \cap loop.linking = {}
       /\ \A x, y \in loop.linking : x = y
       /\ loop.root \in Roots
       /\ Dangling \subseteq globalRoot[loop.root].leaves
       /\ \A x \in loop.linking : <<loop.root, x[1]>> \in index
  /\ loop.at = "anchor" => Dangling = {}

(* No log is asked for a receipt the registry has, and what the loop takes *)
(* for sent the log has.                                                   *)
CallsMissing ==
  /\ loop.sent \subseteq published
  /\ IsInjective(loop.kinds)
  /\ loop.at \in {"scan", "link"} => loop.kinds = <<>>
  /\ loop.at = "link" => \A a \in anchor : a.root # loop.root
  /\ loop.at = "anchor" => \A a \in anchor : a.root = loop.root => a.kind \notin Range(loop.kinds)
  /\ loop.at \in {"retry", "upgrade"} => loop.kinds # <<>>
  /\ loop.at = "retry" => \A a \in anchor : a.root \in loop.queue => a.kind # Head(loop.kinds)

(* All of it. *)
LoopInv ==
  /\ TypeOK
  /\ IdsDrawn /\ ChainsRooted /\ BatchesHang /\ LinksHold
  /\ TickLinks /\ CallsMissing /\ ReceiptsBacked

-------------------------------------------------------------------------------
(* Types.                                                                  *)

LEMMA IdleType == Idle \in Loop
BY DEF Idle, Loop, None

LEMMA LoopFields ==
  ASSUME loop \in Loop
  PROVE  /\ loop.at \in {"idle", "scan", "link", "anchor", "maintain", "retry", "upgrade"}
         /\ loop.projects \subseteq Project
         /\ loop.rooted \subseteq Project \X Nat
         /\ loop.kinds \in Seq(Kind)
         /\ loop.linking \subseteq Project \X Nat
         /\ loop.root \in Nat
         /\ loop.queue \subseteq Nat
         /\ loop.sent \subseteq Kind \X Nat
BY DEF Loop

(* The least-number principle. *)
LEMMA LeastNatural ==
  ASSUME NEW S \in SUBSET Nat, S # {}
  PROVE  \E m \in S : \A n \in S : m <= n
<1> DEFINE less == OpToRel(<, Nat)
<1>1. \A m, n \in Nat : m < n => <<m, n>> \in less
  BY DEF OpToRel
<1>2. IsWellFoundedOn(less, Nat)
  BY NatLessThanWellFounded
<1> HIDE DEF less
<1>3. PICK m \in S : \A n \in S : ~ <<n, m>> \in less
  BY <1>2, WFMin
<1>4. ASSUME NEW n \in S
      PROVE  m <= n
  <2>1. m \in Nat /\ n \in Nat /\ ~ n < m
    BY <1>1, <1>3
  <2> QED
    BY <2>1
<1> QED
  BY <1>4

LEMMA AnchorsType == Anchors \in Seq(Kind) /\ IsInjective(Anchors)
BY ConstantsAssumption


LEMMA InitType == Init => TypeOK
BY IdleType, ConstantsAssumption DEF Init, TypeOK, TenantRoot, ProjectRoot

LEMMA IngestType ==
  ASSUME TypeOK, NEW p \in Project, NEW t \in Tenant, Ingest(p, t)
  PROVE  TypeOK'
<1>1. event[p][t] \in Seq(Nat)
  BY DEF TypeOK
<1>2. Append(event[p][t], None) \in Seq(Nat)
  BY <1>1 DEF None
<1>3. event' \in [Project -> [Tenant -> Seq(Nat)]]
  BY <1>2 DEF TypeOK, Ingest, AddEvent
<1> QED
  BY <1>3 DEF TypeOK, Ingest, AddEvent, registryVars

LEMMA ResetProjectType ==
  ASSUME TypeOK, NEW p \in Demo, ResetProject(p)
  PROVE  TypeOK'
<1>0. p \in Project /\ p # Self /\ Self \in Project /\ SelfTenant \in Tenant
  BY ConstantsAssumption
<1>1. event[Self][SelfTenant] \in Seq(Nat)
  BY <1>0 DEF TypeOK
<1>2. Append(event[Self][SelfTenant], None) \in Seq(Nat)
  BY <1>1 DEF None
<1> DEFINE wiped == [event EXCEPT ![p] = [t \in Tenant |-> <<>>]]
<1>3. wiped \in [Project -> [Tenant -> Seq(Nat)]] /\ wiped[Self] = event[Self]
  <2>1. [t \in Tenant |-> <<>>] \in [Tenant -> Seq(Nat)]
    OBVIOUS
  <2> QED
    BY <1>0, <2>1 DEF TypeOK
<1>4. event' = [wiped EXCEPT ![Self][SelfTenant] = Append(@, None)]
  BY DEF ResetProject
<1>5. event' \in [Project -> [Tenant -> Seq(Nat)]]
  <2> HIDE DEF wiped
  <2> QED
    BY <1>0, <1>2, <1>3, <1>4
<1>6. /\ tenantRoot' \in [Project -> SUBSET TenantRoot]
      /\ projectRoot' \in [Project -> SUBSET ProjectRoot]
      /\ ingested' \in Nat
  <2>1. /\ tenantRoot' = [tenantRoot EXCEPT ![p] = {}]
        /\ projectRoot' = [projectRoot EXCEPT ![p] = {}]
        /\ ingested' = ingested + 1
    BY DEF ResetProject
  <2>2. /\ tenantRoot \in [Project -> SUBSET TenantRoot]
        /\ projectRoot \in [Project -> SUBSET ProjectRoot]
        /\ ingested \in Nat
    BY DEF TypeOK
  <2>3. {} \in SUBSET TenantRoot /\ {} \in SUBSET ProjectRoot
    OBVIOUS
  <2>4. tenantRoot' \in [Project -> SUBSET TenantRoot]
    BY <2>1, <2>2, <2>3
  <2>5. projectRoot' \in [Project -> SUBSET ProjectRoot]
    BY <2>1, <2>2, <2>3
  <2>6. ingested' \in Nat
    BY <2>1, <2>2
  <2> QED
    BY <2>4, <2>5, <2>6
<1> QED
  BY <1>5, <1>6 DEF TypeOK, ResetProject, registryVars

LEMMA ElapseType == TypeOK /\ Elapse => TypeOK'
<1> SUFFICES ASSUME TypeOK, Elapse
             PROVE  TypeOK'
  OBVIOUS
<1>1. ASSUME NEW p \in Project
      PROVE  Older(projectRoot[p]) \subseteq ProjectRoot
  <2>1. ASSUME NEW r \in ProjectRoot
        PROVE  [r EXCEPT !.age = IF r.age < MaxInterval THEN @ + 1 ELSE @] \in ProjectRoot
    BY <2>1 DEF ProjectRoot
  <2>2. projectRoot[p] \subseteq ProjectRoot
    BY <1>1 DEF TypeOK
  <2> QED
    BY <2>1, <2>2 DEF Older
<1> QED
  BY <1>1 DEF TypeOK, Elapse, registryVars

LEMMA StartTickType == TypeOK /\ StartTick => TypeOK'
<1> SUFFICES ASSUME TypeOK, StartTick
             PROVE  TypeOK'
  OBVIOUS
<1>1. loop' \in Loop
  BY IdleType DEF StartTick, Loop
<1> QED
  BY <1>1 DEF TypeOK, StartTick, projectVars, registryVars

(* The positions without a root are numbers, and have a least and a        *)
(* greatest where there are any.                                           *)
LEMMA UnrootedType ==
  ASSUME TypeOK, NEW p \in Project, NEW t \in Tenant
  PROVE  Unrooted(p, t) \subseteq 1..Len(event[p][t])
BY DEF TypeOK, Unrooted

LEMMA FirstOfSome ==
  ASSUME NEW S \in SUBSET Nat, S # {}
  PROVE  /\ First(S) \in S
         /\ \A n \in S : First(S) <= n
BY LeastNatural DEF First

LEMMA LastOfSome ==
  ASSUME NEW S, NEW n \in Nat, S \subseteq 1..n, S # {}
  PROVE  /\ Last(S) \in S
         /\ \A m \in S : m <= Last(S)
<1> DEFINE T == {n - m : m \in S}
<1>1. T \in SUBSET Nat /\ T # {}
  <2>1. \A m \in S : n - m \in Nat
    OBVIOUS
  <2> QED
    BY <2>1
<1>2. PICK d \in T : \A e \in T : d <= e
  BY <1>1, LeastNatural
<1>3. PICK k \in S : d = n - k
  OBVIOUS
<1>4. \A m \in S : m <= k
  <2> SUFFICES ASSUME NEW m \in S
               PROVE  m <= k
    OBVIOUS
  <2>1. n - m \in T
    OBVIOUS
  <2>2. d <= n - m
    BY <1>2, <2>1
  <2>3. n - k <= n - m /\ k \in Nat /\ m \in Nat
    BY <1>3, <2>2
  <2> HIDE DEF T
  <2> QED
    BY ONLY <2>3, n \in Nat
<1> QED
  BY <1>4 DEF Last

LEMMA BatchesType ==
  ASSUME TypeOK, NEW p \in Project, NEW id \in Nat
  PROVE  Batches(p, id) \subseteq TenantRoot
<1> SUFFICES ASSUME NEW t \in Tenant, Unrooted(p, t) # {}
             PROVE  /\ First(Unrooted(p, t)) - 1 \in Nat
                    /\ Last(Unrooted(p, t)) - 1 \in Nat
  BY DEF Batches, TenantRoot
<1>1. Unrooted(p, t) \subseteq 1..Len(event[p][t]) /\ Len(event[p][t]) \in Nat
  BY UnrootedType DEF TypeOK
<1>2. First(Unrooted(p, t)) \in Unrooted(p, t)
  BY <1>1, FirstOfSome
<1>3. Last(Unrooted(p, t)) \in Unrooted(p, t)
  BY <1>1, LastOfSome
<1> QED
  BY <1>1, <1>2, <1>3

(* The chains after rootProject. *)
Marked(p, t, id) ==
  [i \in DOMAIN event[p][t] |-> IF i \in Unrooted(p, t) THEN id ELSE event[p][t][i]]

LEMMA MarkedType ==
  ASSUME TypeOK, NEW p \in Project, NEW t \in Tenant, NEW id \in Nat
  PROVE  /\ Marked(p, t, id) \in Seq(Nat)
         /\ Len(Marked(p, t, id)) = Len(event[p][t])
         /\ \A i \in 1..Len(event[p][t]) :
              Marked(p, t, id)[i] = IF i \in Unrooted(p, t) THEN id ELSE event[p][t][i]
<1>1. event[p][t] \in Seq(Nat)
  BY DEF TypeOK
<1> QED
  BY <1>1 DEF Marked

LEMMA RootProjectEffect ==
  ASSUME TypeOK, NEW p \in Project, RootProject(p)
  PROVE  /\ roots' = roots + 1
         /\ event' = [event EXCEPT ![p] = [t \in Tenant |-> Marked(p, t, roots + 1)]]
         /\ tenantRoot' = [tenantRoot EXCEPT ![p] = @ \cup Batches(p, roots + 1)]
         /\ projectRoot' = [projectRoot EXCEPT ![p] = @ \cup
              {[id |-> roots + 1, global |-> None, age |-> 0]}]
         /\ loop' = [loop EXCEPT !.projects = @ \ {p}, !.rooted = @ \cup {<<p, roots + 1>>}]
BY DEF RootProject, Marked

LEMMA RootProjectType ==
  ASSUME TypeOK, NEW p \in Project, RootProject(p)
  PROVE  TypeOK'
<1>e. /\ roots' = roots + 1
      /\ event' = [event EXCEPT ![p] = [t \in Tenant |-> Marked(p, t, roots + 1)]]
      /\ tenantRoot' = [tenantRoot EXCEPT ![p] = @ \cup Batches(p, roots + 1)]
      /\ projectRoot' = [projectRoot EXCEPT ![p] = @ \cup
           {[id |-> roots + 1, global |-> None, age |-> 0]}]
      /\ loop' = [loop EXCEPT !.projects = @ \ {p}, !.rooted = @ \cup {<<p, roots + 1>>}]
  BY RootProjectEffect
<1>0. roots + 1 \in Nat
  BY DEF TypeOK
<1>1. event' \in [Project -> [Tenant -> Seq(Nat)]]
  <2>1. [t \in Tenant |-> Marked(p, t, roots + 1)] \in [Tenant -> Seq(Nat)]
    BY <1>0, MarkedType
  <2> QED
    BY <1>e, <2>1 DEF TypeOK
<1>2. tenantRoot' \in [Project -> SUBSET TenantRoot]
  BY <1>0, <1>e, BatchesType DEF TypeOK
<1>3. projectRoot' \in [Project -> SUBSET ProjectRoot]
  BY <1>0, <1>e DEF TypeOK, ProjectRoot, None
<1>4. loop' \in Loop
  <2>1. {<<p, roots + 1>>} \in SUBSET (Project \X Nat) /\ loop \in Loop
    BY <1>0 DEF TypeOK
  <2> QED
    BY <1>e, <2>1 DEF Loop
<1> QED
  BY <1>0, <1>e, <1>1, <1>2, <1>3, <1>4 DEF TypeOK, RootProject, registryVars

LEMMA SkipProjectType ==
  ASSUME TypeOK, NEW p \in Project, SkipProject(p)
  PROVE  TypeOK'
<1>1. loop' \in Loop
  BY LoopFields, IdleType DEF TypeOK, SkipProject, Loop
<1> QED
  BY <1>1 DEF TypeOK, SkipProject, projectVars, registryVars

LEMMA NothingRootedType == TypeOK /\ NothingRooted => TypeOK'
<1> SUFFICES ASSUME TypeOK, NothingRooted
             PROVE  TypeOK'
  OBVIOUS
<1>1. loop' \in Loop
  BY LoopFields, IdleType, AnchorsType DEF TypeOK, NothingRooted, Loop
<1> QED
  BY <1>1 DEF TypeOK, NothingRooted, projectVars, registryVars

LEMMA DanglingType ==
  ASSUME TypeOK
  PROVE  /\ Dangling \subseteq Project \X Nat
         /\ \A p \in Project : \A id :
              <<p, id>> \in Dangling <=> \E r \in projectRoot[p] : r.id = id /\ r.global = None
<1>1. \A p \in Project : \A r \in projectRoot[p] : r.id \in Nat
  BY DEF TypeOK, ProjectRoot
<1> QED
  BY <1>1 DEF Dangling

LEMMA InsertGlobalRootType == TypeOK /\ InsertGlobalRoot => TypeOK'
<1> SUFFICES ASSUME TypeOK, InsertGlobalRoot
             PROVE  TypeOK'
  OBVIOUS
<1>0. loop.rooted \cup Dangling \subseteq Project \X Nat /\ Len(globalRoot) \in Nat
  BY DanglingType, LoopFields DEF TypeOK
<1> DEFINE all == loop.rooted \cup Dangling
<1>e. loop' = [loop EXCEPT !.at = "link", !.rooted = all, !.root = Len(globalRoot) + 1]
  BY DEF InsertGlobalRoot
<1>1. loop' \in Loop
  <2> HIDE DEF all
  <2>1. all \in SUBSET (Project \X Nat) /\ Len(globalRoot) + 1 \in Nat
    BY <1>0 DEF all
  <2>2. loop \in Loop
    BY DEF TypeOK
  <2> QED
    BY <1>e, <2>1, <2>2 DEF Loop
<1>2. [prev |-> Len(globalRoot), leaves |-> loop.rooted \cup Dangling] \in GlobalRoot
  BY <1>0 DEF GlobalRoot
<1>3. globalRoot' \in Seq(GlobalRoot)
  BY <1>2 DEF TypeOK, InsertGlobalRoot
<1> QED
  BY <1>1, <1>3 DEF TypeOK, InsertGlobalRoot, projectVars

LEMMA IndexRootType ==
  ASSUME TypeOK, NEW p \in Project, NEW id, IndexRoot(p, id)
  PROVE  TypeOK'
<1>1. loop' \in Loop
  BY LoopFields DEF TypeOK, IndexRoot, Loop
<1>2. index' \subseteq Nat \X Project
  BY LoopFields DEF TypeOK, IndexRoot
<1> QED
  BY <1>1, <1>2 DEF TypeOK, IndexRoot, projectVars

LEMMA LinkRootType ==
  ASSUME TypeOK, NEW p \in Project, NEW id, LinkRoot(p, id)
  PROVE  TypeOK'
<1>1. loop' \in Loop
  BY LoopFields DEF TypeOK, LinkRoot, Loop
<1>2. {IF r.id = id THEN [r EXCEPT !.global = loop.root] ELSE r : r \in projectRoot[p]}
        \subseteq ProjectRoot
  <2>1. ASSUME NEW r \in ProjectRoot
        PROVE  [r EXCEPT !.global = loop.root] \in ProjectRoot
    BY LoopFields DEF TypeOK, ProjectRoot
  <2>2. projectRoot[p] \subseteq ProjectRoot
    BY DEF TypeOK
  <2> QED
    BY <2>1, <2>2
<1>3. projectRoot' \in [Project -> SUBSET ProjectRoot]
  BY <1>2 DEF TypeOK, LinkRoot
<1> QED
  BY <1>1, <1>3 DEF TypeOK, LinkRoot, registryVars

LEMMA StartAnchoringType == TypeOK /\ StartAnchoring => TypeOK'
<1> SUFFICES ASSUME TypeOK, StartAnchoring
             PROVE  TypeOK'
  OBVIOUS
<1>1. loop' \in Loop
  BY LoopFields, IdleType, AnchorsType DEF TypeOK, StartAnchoring, Loop
<1> QED
  BY <1>1 DEF TypeOK, StartAnchoring, projectVars, registryVars

LEMMA NextCallType ==
  ASSUME loop \in Loop, NEW k, NEW g, loop.kinds # <<>>, NextCall(k, g)
  PROVE  loop' \in Loop
<1>1. Tail(loop.kinds) \in Seq(Kind)
  BY LoopFields
<1> QED
  BY <1>1, LoopFields DEF NextCall, Loop

LEMMA PublishType ==
  ASSUME TypeOK, NEW k \in Kind, NEW g \in Roots, Publish(k, g)
  PROVE  TypeOK'
<1>0. g \in Nat
  BY DEF TypeOK, Roots
<1>1. loop' \in Loop
  <2>1. {<<k, g>>} \in SUBSET (Kind \X Nat)
    BY <1>0
  <2>2. loop \in Loop /\ loop' = [loop EXCEPT !.sent = {<<k, g>>}]
    BY DEF TypeOK, Publish
  <2> QED
    BY <2>1, <2>2 DEF Loop
<1> QED
  BY <1>0, <1>1 DEF TypeOK, Publish, projectVars, registryVars

Receipt(k, g) == [root |-> g, kind |-> k, status |-> IF k \in Deferred THEN "pending" ELSE "final"]

LEMMA RecordReceiptType ==
  ASSUME TypeOK, NEW k \in Kind, NEW g \in Roots, RecordReceipt(k, g)
  PROVE  TypeOK'
<1>0. g \in Nat
  BY DEF TypeOK, Roots
<1>1. loop' \in Loop
  BY NextCallType DEF TypeOK, RecordReceipt, Calling
<1>2. anchor' = anchor \cup {Receipt(k, g)}
  BY DEF RecordReceipt, Receipt
<1>3. Receipt(k, g) \in AnchorRow
  BY <1>0 DEF Receipt, AnchorRow
<1> QED
  BY <1>1, <1>2, <1>3 DEF TypeOK, RecordReceipt, projectVars

LEMMA CallFailsType ==
  ASSUME TypeOK, NEW k \in Kind, NEW g \in Roots, CallFails(k, g)
  PROVE  TypeOK'
<1>1. loop' \in Loop
  BY NextCallType DEF TypeOK, CallFails, Calling
<1> QED
  BY <1>1 DEF TypeOK, CallFails, projectVars, registryVars

LEMMA StartMaintenanceType == TypeOK /\ StartMaintenance => TypeOK'
<1> SUFFICES ASSUME TypeOK, StartMaintenance
             PROVE  TypeOK'
  OBVIOUS
<1>1. loop' \in Loop
  BY LoopFields, IdleType, AnchorsType DEF TypeOK, StartMaintenance, Loop
<1> QED
  BY <1>1 DEF TypeOK, StartMaintenance, projectVars, registryVars

LEMMA MaintainKindType == TypeOK /\ MaintainKind => TypeOK'
<1> SUFFICES ASSUME TypeOK, MaintainKind
             PROVE  TypeOK'
  OBVIOUS
<1>0. OldestMissing(Head(loop.kinds)) \subseteq Nat
  BY DEF TypeOK, OldestMissing, MissingAnchor
<1>1. loop' \in Loop
  BY <1>0, LoopFields DEF TypeOK, MaintainKind, Loop
<1> QED
  BY <1>1 DEF TypeOK, MaintainKind, projectVars, registryVars

LEMMA StartUpgradesType == TypeOK /\ StartUpgrades => TypeOK'
<1> SUFFICES ASSUME TypeOK, StartUpgrades
             PROVE  TypeOK'
  OBVIOUS
<1>0. PendingRoots(Head(loop.kinds)) \subseteq Nat
  BY DEF TypeOK, PendingRoots, AnchorRow
<1>1. loop' \in Loop
  BY <1>0, LoopFields DEF TypeOK, StartUpgrades, Loop
<1> QED
  BY <1>1 DEF TypeOK, StartUpgrades, projectVars, registryVars

LEMMA UpgradeType ==
  ASSUME TypeOK, NEW g \in Roots, NEW final \in BOOLEAN, Upgrade(g, final)
  PROVE  TypeOK'
<1>1. loop' \in Loop
  BY LoopFields DEF TypeOK, Upgrade, Loop
<1>2. anchor' \subseteq AnchorRow
  BY DEF TypeOK, Upgrade, AnchorRow
<1> QED
  BY <1>1, <1>2 DEF TypeOK, Upgrade, projectVars

LEMMA EndMaintainKindType ==
  ASSUME TypeOK, EndMaintainKind, loop.kinds # <<>>
  PROVE  TypeOK'
<1>0. Tail(loop.kinds) \in Seq(Kind)
  BY LoopFields DEF TypeOK
<1>1. loop' \in Loop
  BY <1>0, LoopFields DEF TypeOK, EndMaintainKind, Loop
<1> QED
  BY <1>1 DEF TypeOK, EndMaintainKind, projectVars, registryVars

LEMMA EndRoundType == TypeOK /\ EndRound => TypeOK'
BY IdleType DEF TypeOK, EndRound, projectVars, registryVars

LEMMA RoundThrowsType == TypeOK /\ RoundThrows => TypeOK'
BY IdleType DEF TypeOK, RoundThrows, projectVars, registryVars

LEMMA RestartType ==
  ASSUME TypeOK, Restart
  PROVE  TypeOK'
<1>0. Self \in Project /\ SelfTenant \in Tenant
  BY ConstantsAssumption
<1>1. event[Self][SelfTenant] \in Seq(Nat)
  BY <1>0 DEF TypeOK
<1>2. Append(event[Self][SelfTenant], None) \in Seq(Nat)
  BY <1>1 DEF None
<1>3. event' \in [Project -> [Tenant -> Seq(Nat)]]
  BY <1>0, <1>2 DEF TypeOK, Restart, AddEvent
<1> QED
  BY <1>3, IdleType DEF TypeOK, Restart, AddEvent, registryVars
-------------------------------------------------------------------------------
(* Frames: what an action that leaves certain variables alone preserves.   *)

(* The tables of the projects, and the links, of an action that writes     *)
(* none of them.                                                           *)
LEMMA TablesFrame ==
  ASSUME UNCHANGED <<event, tenantRoot, projectRoot, roots, globalRoot, index>>
  PROVE  /\ IdsDrawn => IdsDrawn'
         /\ ChainsRooted => ChainsRooted'
         /\ BatchesHang => BatchesHang'
         /\ LinksHold => LinksHold'
         /\ Dangling' = Dangling
         /\ Roots' = Roots
<1>1. IdsDrawn => IdsDrawn'
  BY DEF IdsDrawn
<1>2. ChainsRooted => ChainsRooted'
  BY DEF ChainsRooted, BatchesOf
<1>3. BatchesHang => BatchesHang'
  BY DEF BatchesHang
<1>4. LinksHold => LinksHold'
  BY DEF LinksHold, Roots
<1>5. Dangling' = Dangling /\ Roots' = Roots
  BY DEF Dangling, Roots
<1> QED
  BY <1>1, <1>2, <1>3, <1>4, <1>5

(* Receipts stay backed while the logs and the registry only grow. *)
LEMMA ReceiptsFrame ==
  ASSUME ReceiptsBacked, anchor' = anchor, published \subseteq published', Roots \subseteq Roots'
  PROVE  ReceiptsBacked'
BY DEF ReceiptsBacked

(* A loop that is neither scanning, linking nor anchoring owes no link. *)
LEMMA NoLinksOwed ==
  ASSUME loop'.at \notin {"scan", "link", "anchor"}
  PROVE  TickLinks'
BY DEF TickLinks

LEMMA IdleOwesNothing ==
  ASSUME loop' = Idle
  PROVE  TickLinks' /\ CallsMissing'
<1>1. /\ loop'.at = "idle" /\ loop'.sent = {} /\ loop'.kinds = <<>>
  BY DEF Idle
<1>2. IsInjective(<<>>)
  BY DEF IsInjective
<1> QED
  BY <1>1, <1>2, NoLinksOwed DEF CallsMissing

(* The dangling project roots, before and after a step. *)
LEMMA DanglingAfter ==
  ASSUME TypeOK'
  PROVE  /\ Dangling' \subseteq Project \X Nat
         /\ \A p \in Project : \A id :
              <<p, id>> \in Dangling' <=> \E r \in projectRoot'[p] : r.id = id /\ r.global = None
<1>1. \A p \in Project : \A r \in projectRoot'[p] : r.id \in Nat
  BY DEF TypeOK, ProjectRoot
<1> QED
  BY <1>1 DEF Dangling

-------------------------------------------------------------------------------
(* The chains.                                                             *)

(* Appending an event that has no root yet. *)
LEMMA AppendCover ==
  ASSUME NEW chain \in Seq(Nat), NEW batches \in SUBSET TenantRoot, Cover(chain, batches)
  PROVE  Cover(Append(chain, None), batches)
<1> DEFINE longer == Append(chain, None)
<1>1. /\ longer \in Seq(Nat) /\ Len(chain) \in Nat /\ Len(longer) = Len(chain) + 1
      /\ DOMAIN chain = 1..Len(chain) /\ DOMAIN longer = 1..Len(chain) + 1
      /\ longer[Len(chain) + 1] = None
      /\ \A i \in 1..Len(chain) : longer[i] = chain[i]
  BY DEF None
<1>2. \A b \in batches : b.from \in Nat /\ b.to \in Nat
  BY DEF TenantRoot
<1> HIDE DEF longer
<1>3. ASSUME NEW i \in DOMAIN longer, longer[i] # None
      PROVE  \E b \in batches : i - 1 \in b.from..b.to
  <2>1. i \in DOMAIN chain /\ chain[i] # None
    BY <1>1, <1>3
  <2> QED
    BY <2>1 DEF Cover
<1>4. ASSUME NEW i \in DOMAIN longer, NEW j \in DOMAIN longer, i < j, longer[i] = None
      PROVE  longer[j] = None
  <2>1. i \in 1..Len(chain)
    BY <1>1, <1>4
  <2>2. CASE j = Len(chain) + 1
    BY <1>1, <2>2
  <2>3. CASE j \in 1..Len(chain)
    BY <1>1, <1>4, <2>1, <2>3 DEF Cover
  <2> QED
    BY <1>1, <2>2, <2>3
<1>5. ASSUME NEW b \in batches
      PROVE  /\ b.from <= b.to /\ b.to < Len(longer)
             /\ \A i \in b.from..b.to : longer[i + 1] = b.project_root
  <2>1. b.from <= b.to /\ b.to < Len(chain)
    BY DEF Cover
  <2>2. ASSUME NEW i \in b.from..b.to
        PROVE  i + 1 \in 1..Len(chain) /\ chain[i + 1] = b.project_root
    <3>1. chain[i + 1] = b.project_root
      BY Zenon DEF Cover
    <3>2. b.from \in Nat /\ b.to \in Nat /\ Len(chain) \in Nat
      BY <1>1, <1>2
    <3>3. i + 1 \in 1..Len(chain)
      BY ONLY <2>1, <3>2, i \in b.from..b.to
    <3> QED
      BY <3>1, <3>3
  <2>3. \A i \in b.from..b.to : longer[i + 1] = b.project_root
    BY <1>1, <2>2
  <2>4. b.to < Len(longer)
    BY <1>1, <1>2, <2>1
  <2> QED
    BY <2>1, <2>3, <2>4
<1> QED
  BY <1>3, <1>4, <1>5 DEF Cover, longer

LEMMA EmptyCover == Cover(<<>>, {})
BY DEF Cover

(* The unrooted positions reach from the first of them to the end. *)
LEMMA UnrootedIsSuffix ==
  ASSUME TypeOK, ChainsRooted, NEW p \in Project, NEW t \in Tenant, Unrooted(p, t) # {}
  PROVE  /\ First(Unrooted(p, t)) \in 1..Len(event[p][t])
         /\ Last(Unrooted(p, t)) = Len(event[p][t])
         /\ Unrooted(p, t) = First(Unrooted(p, t))..Len(event[p][t])
<1> DEFINE chain == event[p][t]
           U == Unrooted(p, t)
<1>1. chain \in Seq(Nat) /\ Len(chain) \in Nat /\ DOMAIN chain = 1..Len(chain)
  BY DEF TypeOK
<1>2. U \subseteq 1..Len(chain) /\ \A i \in 1..Len(chain) : i \in U <=> chain[i] = None
  BY <1>1 DEF Unrooted
<1>3. \A i, j \in 1..Len(chain) : i < j /\ i \in U => j \in U
  BY <1>1, <1>2 DEF ChainsRooted, Cover
<1> HIDE DEF chain, U
<1>a. U \subseteq 1..Len(chain)
  BY <1>2
<1>4. First(U) \in U /\ \A j \in U : First(U) <= j
  BY <1>1, <1>2, FirstOfSome DEF U
<1>b. First(U) \in 1..Len(chain)
  BY <1>a, <1>4
<1>5. U = First(U)..Len(chain)
  <2>0. First(U) \in Nat /\ First(U) \in 1..Len(chain)
    BY <1>1, <1>b
  <2>1. ASSUME NEW i \in U
        PROVE  i \in First(U)..Len(chain)
    BY <1>1, <1>2, <1>4, <2>0
  <2>2. ASSUME NEW i \in First(U)..Len(chain)
        PROVE  i \in U
    <3>1. i \in 1..Len(chain) /\ First(U) <= i
      BY <1>1, <2>0
    <3>2. CASE i = First(U)
      BY <1>4, <3>2
    <3>3. CASE First(U) < i
      BY <1>3, <1>4, <2>0, <3>1, <3>3
    <3> QED
      BY <2>0, <3>1, <3>2, <3>3
  <2> QED
    BY <2>1, <2>2
<1>6. Last(U) \in U /\ \A j \in U : j <= Last(U)
  BY <1>1, <1>2, LastOfSome DEF U
<1>7. Last(U) = Len(chain)
  <2>1. Len(chain) \in U
    BY <1>1, <1>5, <1>b
  <2>2. Last(U) \in 1..Len(chain) /\ Len(chain) <= Last(U)
    BY <1>2, <1>6, <2>1
  <2> QED
    BY <1>1, <2>2
<1> QED
  BY <1>1, <1>2, <1>4, <1>5, <1>7 DEF chain, U

(* A batch over a whole suffix without roots, under an id no batch has. *)
LEMMA MarkCover ==
  ASSUME NEW chain \in Seq(Nat), NEW batches \in SUBSET TenantRoot, Cover(chain, batches),
         NEW first \in 1..Len(chain), NEW id \in Nat, NEW new \in TenantRoot, NEW after \in Seq(Nat),
         id # None, \A b \in batches : b.project_root \notin {None, id},
         \A i \in 1..Len(chain) : chain[i] = None <=> first <= i,
         new.from = first - 1, new.to = Len(chain) - 1, new.project_root = id,
         Len(after) = Len(chain),
         \A i \in 1..Len(chain) : after[i] = IF first <= i THEN id ELSE chain[i]
  PROVE  Cover(after, batches \cup {new})
<1>1. /\ Len(chain) \in Nat /\ DOMAIN chain = 1..Len(chain) /\ DOMAIN after = 1..Len(chain)
      /\ first \in Nat /\ first >= 1 /\ first <= Len(chain)
  OBVIOUS
<1>2. \A b \in batches : b.from \in Nat /\ b.to \in Nat
  BY DEF TenantRoot
<1>3. ASSUME NEW i \in DOMAIN after, after[i] # None
      PROVE  \E b \in batches \cup {new} : i - 1 \in b.from..b.to
  <2>1. CASE first <= i
    <3>1. i - 1 \in new.from..new.to
      BY <1>1, <2>1
    <3> QED
      BY <3>1
  <2>2. CASE ~ first <= i
    <3>1. i \in DOMAIN chain /\ chain[i] # None
      BY <1>1, <1>3, <2>2
    <3> QED
      BY <3>1 DEF Cover
  <2> QED
    BY <2>1, <2>2
<1>4. \A i \in DOMAIN after : after[i] # None
  BY <1>1
<1>5. ASSUME NEW b \in batches
      PROVE  /\ b.from <= b.to /\ b.to < Len(after)
             /\ \A i \in b.from..b.to : after[i + 1] = b.project_root
  <2>1. b.from <= b.to /\ b.to < Len(chain)
    BY DEF Cover
  <2>0. b.project_root # None
    OBVIOUS
  <2>2. ASSUME NEW i \in b.from..b.to
        PROVE  i + 1 \in 1..Len(chain) /\ chain[i + 1] = b.project_root
    <3>1. chain[i + 1] = b.project_root
      BY Zenon DEF Cover
    <3>2. b.from \in Nat /\ b.to \in Nat /\ Len(chain) \in Nat
      BY <1>1, <1>2
    <3>3. i + 1 \in 1..Len(chain)
      BY ONLY <2>1, <3>2, i \in b.from..b.to
    <3> QED
      BY <3>1, <3>3
  <2>3. ASSUME NEW i \in b.from..b.to
        PROVE  after[i + 1] = b.project_root
    <3>1. i + 1 \in 1..Len(chain) /\ chain[i + 1] = b.project_root
      BY <2>2
    <3>2. ~ first <= i + 1
      BY <2>0, <3>1
    <3> QED
      BY <3>1, <3>2
  <2> QED
    BY <2>1, <2>3
<1>6. /\ new.from <= new.to /\ new.to < Len(after)
      /\ \A i \in new.from..new.to : after[i + 1] = new.project_root
  BY <1>1
<1>7. \A b, c \in batches \cup {new} : b.project_root = c.project_root => b = c
  BY DEF Cover
<1> QED
  BY <1>3, <1>4, <1>5, <1>6, <1>7 DEF Cover
-------------------------------------------------------------------------------
(* The steps that only move the loop along.                                *)

(* A loop between its phases asks for nothing. *)
LEMMA NotCalling ==
  ASSUME loop'.at \in {"idle", "scan", "maintain"}, loop'.sent \subseteq published',
         IsInjective(loop'.kinds), loop'.at = "scan" => loop'.kinds = <<>>
  PROVE  CallsMissing'
BY DEF CallsMissing

LEMMA LoopOnly ==
  ASSUME LoopInv, TypeOK', UNCHANGED <<projectVars, registryVars, published>>,
         TickLinks', CallsMissing'
  PROVE  LoopInv'
<1>1. IdsDrawn' /\ ChainsRooted' /\ BatchesHang' /\ LinksHold' /\ Roots' = Roots
  BY TablesFrame DEF LoopInv, projectVars, registryVars
<1>2. ReceiptsBacked'
  BY <1>1, ReceiptsFrame DEF LoopInv, registryVars
<1> QED
  BY <1>1, <1>2 DEF LoopInv

LEMMA StartTickInv == LoopInv /\ StartTick => LoopInv'
<1> SUFFICES ASSUME LoopInv, StartTick
             PROVE  LoopInv'
  OBVIOUS
<1>1. /\ loop'.at = "scan" /\ loop'.rooted = {} /\ loop'.linking = {}
      /\ loop'.sent = {} /\ loop'.kinds = <<>>
  BY DEF StartTick, Idle
<1>2. TickLinks'
  BY <1>1 DEF TickLinks
<1>3. CallsMissing'
  BY <1>1, NotCalling DEF IsInjective
<1> QED
  BY <1>2, <1>3, LoopOnly, StartTickType DEF LoopInv, StartTick

LEMMA SkipProjectInv ==
  ASSUME LoopInv, NEW p \in Project, SkipProject(p)
  PROVE  LoopInv'
<1>1. /\ loop.at = "scan" /\ loop'.at = "scan" /\ loop'.rooted = loop.rooted
      /\ loop'.linking = loop.linking /\ loop'.sent = loop.sent /\ loop'.kinds = loop.kinds
  BY DEF SkipProject, LoopInv, TypeOK, Loop
<1>2. Dangling' = Dangling
  BY DEF SkipProject, projectVars, Dangling
<1>3. TickLinks'
  BY <1>1, <1>2 DEF TickLinks, LoopInv
<1>4. CallsMissing'
  BY <1>1, NotCalling DEF CallsMissing, LoopInv, SkipProject
<1> QED
  BY <1>3, <1>4, LoopOnly, SkipProjectType DEF LoopInv, SkipProject

(* A round that enters maintain, with all logs to serve. *)
LEMMA EnterMaintain ==
  ASSUME loop' = [Idle EXCEPT !.at = "maintain", !.kinds = Anchors]
  PROVE  TickLinks' /\ CallsMissing'
<1>1. loop'.at = "maintain" /\ loop'.kinds = Anchors /\ loop'.sent = {}
  BY DEF Idle
<1> QED
  BY <1>1, NoLinksOwed, NotCalling, AnchorsType

LEMMA NothingRootedInv == LoopInv /\ NothingRooted => LoopInv'
BY EnterMaintain, LoopOnly, NothingRootedType DEF LoopInv, NothingRooted

LEMMA StartMaintenanceInv == LoopInv /\ StartMaintenance => LoopInv'
BY EnterMaintain, LoopOnly, StartMaintenanceType DEF LoopInv, StartMaintenance

LEMMA EndRoundInv == LoopInv /\ EndRound => LoopInv'
BY IdleOwesNothing, LoopOnly, EndRoundType DEF LoopInv, EndRound

LEMMA RoundThrowsInv == LoopInv /\ RoundThrows => LoopInv'
BY IdleOwesNothing, LoopOnly, RoundThrowsType DEF LoopInv, RoundThrows

(* The logs still to serve stay distinct, and exclude the one just served. *)
LEMMA TailOfKinds ==
  ASSUME NEW s \in Seq(Kind), s # <<>>, IsInjective(s)
  PROVE  /\ IsInjective(Tail(s))
         /\ Head(s) \in Range(s)
         /\ Head(s) \notin Range(Tail(s))
         /\ Range(Tail(s)) \subseteq Range(s)
<1>1. /\ Len(s) \in Nat /\ Len(s) >= 1 /\ DOMAIN s = 1..Len(s) /\ Head(s) = s[1]
      /\ DOMAIN Tail(s) = 1..Len(s) - 1
      /\ \A i \in 1..Len(s) - 1 : Tail(s)[i] = s[i + 1]
  OBVIOUS
<1>2. \A i, j \in 1..Len(s) : s[i] = s[j] => i = j
  BY <1>1 DEF IsInjective
<1>3. \A i \in 1..Len(s) - 1 : i + 1 \in 1..Len(s) /\ i + 1 # 1
  BY <1>1
<1>4. IsInjective(Tail(s))
  BY <1>1, <1>2, <1>3 DEF IsInjective
<1>5. 1 \in 1..Len(s)
  BY <1>1
<1>6. Head(s) \in Range(s)
  BY <1>1, <1>5 DEF Range
<1>7. Head(s) \notin Range(Tail(s))
  BY <1>1, <1>2, <1>3, <1>5 DEF Range
<1>8. Range(Tail(s)) \subseteq Range(s)
  BY <1>1, <1>3 DEF Range
<1> QED
  BY <1>4, <1>6, <1>7, <1>8

LEMMA MaintainKindInv == LoopInv /\ MaintainKind => LoopInv'
<1> SUFFICES ASSUME LoopInv, MaintainKind
             PROVE  LoopInv'
  OBVIOUS
<1>1. /\ loop'.at = "retry" /\ loop'.kinds = loop.kinds /\ loop'.sent = loop.sent
      /\ loop'.queue = OldestMissing(Head(loop.kinds)) /\ loop.kinds # <<>>
  BY DEF MaintainKind, LoopInv, TypeOK, Loop
<1>2. \A a \in anchor : a.root \in OldestMissing(Head(loop.kinds)) => a.kind # Head(loop.kinds)
  BY DEF OldestMissing, MissingAnchor
<1>3. TickLinks'
  BY <1>1, NoLinksOwed
<1>4. CallsMissing'
  BY <1>1, <1>2 DEF CallsMissing, LoopInv, MaintainKind, registryVars
<1> QED
  BY <1>3, <1>4, LoopOnly, MaintainKindType DEF LoopInv, MaintainKind

LEMMA StartUpgradesInv == LoopInv /\ StartUpgrades => LoopInv'
<1> SUFFICES ASSUME LoopInv, StartUpgrades
             PROVE  LoopInv'
  OBVIOUS
<1>1. /\ loop.at = "retry" /\ loop'.at = "upgrade"
      /\ loop'.kinds = loop.kinds /\ loop'.sent = loop.sent
  BY DEF StartUpgrades, LoopInv, TypeOK, Loop
<1>2. TickLinks'
  BY <1>1, NoLinksOwed
<1>3. CallsMissing'
  BY <1>1 DEF CallsMissing, LoopInv, StartUpgrades
<1> QED
  BY <1>2, <1>3, LoopOnly, StartUpgradesType DEF LoopInv, StartUpgrades

LEMMA EndMaintainKindInv == LoopInv /\ EndMaintainKind => LoopInv'
<1> SUFFICES ASSUME LoopInv, EndMaintainKind
             PROVE  LoopInv'
  OBVIOUS
<1>0. loop.kinds # <<>> /\ loop.kinds \in Seq(Kind) /\ IsInjective(loop.kinds)
  BY LoopFields DEF EndMaintainKind, LoopInv, CallsMissing, TypeOK
<1>1. /\ loop'.at = "maintain" /\ loop'.kinds = Tail(loop.kinds) /\ loop'.sent = loop.sent
  BY DEF EndMaintainKind, LoopInv, TypeOK, Loop
<1>2. TickLinks'
  BY <1>1, NoLinksOwed
<1>3. CallsMissing'
  BY <1>0, <1>1, TailOfKinds, NotCalling DEF CallsMissing, LoopInv, EndMaintainKind
<1> QED
  BY <1>0, <1>2, <1>3, LoopOnly, EndMaintainKindType DEF LoopInv, EndMaintainKind

LEMMA StartAnchoringInv == LoopInv /\ StartAnchoring => LoopInv'
<1> SUFFICES ASSUME LoopInv, StartAnchoring
             PROVE  LoopInv'
  OBVIOUS
<1>1. /\ loop.at = "link" /\ loop'.at = "anchor" /\ loop'.kinds = Anchors
      /\ loop'.sent = loop.sent /\ loop'.root = loop.root
      /\ loop.rooted = {} /\ loop.linking = {}
  BY DEF StartAnchoring, LoopInv, TypeOK, Loop
<1>2. Dangling' = Dangling
  BY DEF StartAnchoring, projectVars, Dangling
<1>3. TickLinks'
  BY <1>1, <1>2 DEF TickLinks, LoopInv
<1>4. CallsMissing'
  BY <1>1, AnchorsType DEF CallsMissing, LoopInv, StartAnchoring, registryVars
<1> QED
  BY <1>3, <1>4, LoopOnly, StartAnchoringType DEF LoopInv, StartAnchoring

-------------------------------------------------------------------------------
(* The calls to the public logs.                                           *)

LEMMA CallFailsInv ==
  ASSUME LoopInv, NEW k \in Kind, NEW g \in Roots, CallFails(k, g)
  PROVE  LoopInv'
<1>1. /\ loop.kinds # <<>> /\ loop.kinds \in Seq(Kind) /\ IsInjective(loop.kinds)
      /\ loop.at \in {"anchor", "retry"}
  BY LoopFields DEF CallFails, Calling, LoopInv, TypeOK, CallsMissing
<1>2. /\ loop'.at = loop.at /\ loop'.sent = {} /\ loop'.root = loop.root
      /\ loop.at = "anchor" => loop'.kinds = Tail(loop.kinds)
      /\ loop.at = "retry" => loop'.kinds = loop.kinds /\ loop'.queue = loop.queue \ {g}
  BY <1>1 DEF CallFails, NextCall, LoopInv, TypeOK, Loop
<1>3. Dangling' = Dangling
  BY DEF CallFails, projectVars, Dangling
<1>4. TickLinks'
  BY <1>1, <1>2, <1>3 DEF TickLinks, LoopInv
<1>5. CallsMissing'
  <2>1. anchor' = anchor
    BY DEF CallFails, registryVars
  <2>2. CASE loop.at = "anchor"
    BY <1>1, <1>2, <2>1, <2>2, TailOfKinds DEF CallsMissing, LoopInv
  <2>3. CASE loop.at = "retry"
    BY <1>1, <1>2, <2>1, <2>3 DEF CallsMissing, LoopInv
  <2> QED
    BY <1>1, <2>2, <2>3
<1> QED
  BY <1>4, <1>5, LoopOnly, CallFailsType DEF LoopInv, CallFails

LEMMA PublishInv ==
  ASSUME LoopInv, NEW k \in Kind, NEW g \in Roots, Publish(k, g)
  PROVE  LoopInv'
<1>1. loop.at \in {"anchor", "retry"}
  BY DEF Publish, Calling
<1>2. /\ loop'.at = loop.at /\ loop'.sent = {<<k, g>>} /\ loop'.root = loop.root
      /\ loop'.kinds = loop.kinds /\ loop'.queue = loop.queue
  BY DEF Publish, LoopInv, TypeOK, Loop
<1>3. IdsDrawn' /\ ChainsRooted' /\ BatchesHang' /\ LinksHold' /\ Dangling' = Dangling /\ Roots' = Roots
  BY TablesFrame DEF LoopInv, Publish, projectVars, registryVars
<1>4. TickLinks'
  BY <1>1, <1>2, <1>3 DEF TickLinks, LoopInv
<1>5. CallsMissing'
  BY <1>1, <1>2 DEF CallsMissing, LoopInv, Publish, registryVars
<1>6. ReceiptsBacked'
  BY <1>3, ReceiptsFrame DEF LoopInv, Publish, registryVars
<1> QED
  BY <1>3, <1>4, <1>5, <1>6, PublishType DEF LoopInv

LEMMA RecordReceiptInv ==
  ASSUME LoopInv, NEW k \in Kind, NEW g \in Roots, RecordReceipt(k, g)
  PROVE  LoopInv'
<1>1. /\ loop.kinds # <<>> /\ loop.kinds \in Seq(Kind) /\ IsInjective(loop.kinds)
      /\ k = Head(loop.kinds) /\ loop.sent = {<<k, g>>}
      /\ loop.at \in {"anchor", "retry"}
      /\ loop.at = "anchor" => g = loop.root
      /\ loop.at = "retry" => g \in loop.queue
  BY LoopFields DEF RecordReceipt, Calling, LoopInv, TypeOK, CallsMissing
<1>2. /\ loop'.at = loop.at /\ loop'.sent = {} /\ loop'.root = loop.root
      /\ loop.at = "anchor" => loop'.kinds = Tail(loop.kinds)
      /\ loop.at = "retry" => loop'.kinds = loop.kinds /\ loop'.queue = loop.queue \ {g}
  BY <1>1 DEF RecordReceipt, NextCall, LoopInv, TypeOK, Loop
<1>3. IdsDrawn' /\ ChainsRooted' /\ BatchesHang' /\ LinksHold' /\ Dangling' = Dangling /\ Roots' = Roots
  BY TablesFrame DEF LoopInv, RecordReceipt, projectVars
<1>4. TickLinks'
  BY <1>1, <1>2, <1>3 DEF TickLinks, LoopInv
<1> DEFINE new == Receipt(k, g)
<1>5. anchor' = anchor \cup {new} /\ new.root = g /\ new.kind = k
  BY DEF RecordReceipt, Receipt
<1> HIDE DEF new
<1>6. \A a \in anchor : ~(a.root = g /\ a.kind = k)
  BY <1>1, TailOfKinds DEF CallsMissing, LoopInv
<1>7. CallsMissing'
  <2>1. CASE loop.at = "anchor"
    BY <1>1, <1>2, <1>5, <2>1, TailOfKinds DEF CallsMissing, LoopInv
  <2>2. CASE loop.at = "retry"
    BY <1>1, <1>2, <1>5, <2>2 DEF CallsMissing, LoopInv
  <2> QED
    BY <1>1, <2>1, <2>2
<1>8. ReceiptsBacked'
  <2>1. <<new.kind, new.root>> \in published /\ new.root \in Roots
    BY <1>1, <1>5 DEF CallsMissing, LoopInv
  <2>2. published' = published
    BY DEF RecordReceipt
  <2> QED
    BY <1>3, <1>5, <1>6, <2>1, <2>2 DEF ReceiptsBacked, LoopInv
<1> QED
  BY <1>3, <1>4, <1>7, <1>8, RecordReceiptType DEF LoopInv

(* A final receipt takes the place of the pending one of its log. *)
LEMMA UpgradeInv ==
  ASSUME LoopInv, NEW g \in Roots, NEW final \in BOOLEAN, Upgrade(g, final)
  PROVE  LoopInv'
<1>1. /\ loop.at = "upgrade" /\ loop'.at = "upgrade"
      /\ loop'.sent = loop.sent /\ loop'.kinds = loop.kinds
  BY DEF Upgrade, LoopInv, TypeOK, Loop
<1>2. IdsDrawn' /\ ChainsRooted' /\ BatchesHang' /\ LinksHold' /\ Roots' = Roots
  BY TablesFrame DEF LoopInv, Upgrade, projectVars
<1>3. TickLinks'
  BY <1>1, NoLinksOwed
<1>4. CallsMissing'
  BY <1>1 DEF CallsMissing, LoopInv, Upgrade
<1> DEFINE Upgraded(a) == IF a.root = g /\ a.kind = Head(loop.kinds)
                          THEN [a EXCEPT !.status = "final"] ELSE a
<1>5. \A a \in anchor : Upgraded(a).root = a.root /\ Upgraded(a).kind = a.kind
  BY DEF LoopInv, TypeOK, AnchorRow
<1>6. anchor' = {Upgraded(a) : a \in anchor} \/ anchor' = anchor
  BY DEF Upgrade
<1> HIDE DEF Upgraded
<1>7. ReceiptsBacked'
  <2>1. published' = published
    BY DEF Upgrade
  <2>2. CASE anchor' = anchor
    BY <1>2, <2>1, <2>2 DEF ReceiptsBacked, LoopInv
  <2>3. CASE anchor' = {Upgraded(a) : a \in anchor}
    <3>1. \A b \in anchor' : \E a \in anchor : b = Upgraded(a) /\ b.root = a.root /\ b.kind = a.kind
      BY <1>5, <2>3
    <3> QED
      BY <1>2, <2>1, <3>1 DEF ReceiptsBacked, LoopInv
  <2> QED
    BY <1>6, <2>2, <2>3
<1> QED
  BY <1>2, <1>3, <1>4, <1>7, UpgradeType DEF LoopInv
-------------------------------------------------------------------------------
(* The requests, resets and clock that interleave with the loop.           *)

(* Frames of an action that writes chains only. *)
LEMMA ChainsOnly ==
  ASSUME LoopInv, UNCHANGED <<projectRoot, roots, globalRoot, index, anchor, published>>
  PROVE  IdsDrawn' /\ LinksHold' /\ ReceiptsBacked' /\ Dangling' = Dangling /\ Roots' = Roots
<1>1. IdsDrawn'
  BY DEF LoopInv, IdsDrawn
<1>2. LinksHold'
  BY DEF LoopInv, LinksHold, Roots
<1>3. Dangling' = Dangling /\ Roots' = Roots
  BY DEF Dangling, Roots
<1>4. ReceiptsBacked'
  BY <1>3, ReceiptsFrame DEF LoopInv
<1> QED
  BY <1>1, <1>2, <1>3, <1>4

(* An event appended to one chain. *)
LEMMA AddEventInv ==
  ASSUME LoopInv, NEW p \in Project, NEW t \in Tenant, AddEvent(p, t), tenantRoot' = tenantRoot
  PROVE  ChainsRooted'
<1> SUFFICES ASSUME NEW q \in Project, NEW u \in Tenant
             PROVE  Cover(event'[q][u], BatchesOf(q, u))
  BY DEF ChainsRooted, BatchesOf
<1>1. /\ event[q][u] \in Seq(Nat) /\ BatchesOf(q, u) \in SUBSET TenantRoot
      /\ Cover(event[q][u], BatchesOf(q, u))
  BY DEF LoopInv, TypeOK, BatchesOf, ChainsRooted
<1>2. event'[q][u] = event[q][u] \/ event'[q][u] = Append(event[q][u], None)
  BY DEF AddEvent, LoopInv, TypeOK
<1> QED
  BY <1>1, <1>2, AppendCover

LEMMA IngestInv ==
  ASSUME LoopInv, NEW p \in Project, NEW t \in Tenant, Ingest(p, t)
  PROVE  LoopInv'
<1>1. IdsDrawn' /\ LinksHold' /\ ReceiptsBacked' /\ Dangling' = Dangling /\ Roots' = Roots
  BY ChainsOnly DEF Ingest, registryVars
<1>2. ChainsRooted'
  BY AddEventInv DEF Ingest
<1>3. BatchesHang'
  BY DEF BatchesHang, LoopInv, Ingest
<1>4. TickLinks'
  BY <1>1 DEF TickLinks, LoopInv, Ingest, registryVars
<1>5. CallsMissing'
  BY DEF CallsMissing, LoopInv, Ingest, registryVars
<1> QED
  BY <1>1, <1>2, <1>3, <1>4, <1>5, IngestType DEF LoopInv

LEMMA RestartInv == LoopInv /\ Restart => LoopInv'
<1> SUFFICES ASSUME LoopInv, Restart
             PROVE  LoopInv'
  OBVIOUS
<1>1. IdsDrawn' /\ LinksHold' /\ ReceiptsBacked'
  BY ChainsOnly DEF Restart, registryVars
<1>2. ChainsRooted'
  BY AddEventInv, ConstantsAssumption DEF Restart
<1>3. BatchesHang'
  BY DEF BatchesHang, LoopInv, Restart
<1>4. TickLinks' /\ CallsMissing'
  BY IdleOwesNothing DEF Restart
<1> QED
  BY <1>1, <1>2, <1>3, <1>4, RestartType DEF LoopInv

LEMMA ResetProjectInv ==
  ASSUME LoopInv, NEW p \in Demo, ResetProject(p)
  PROVE  LoopInv'
<1>0. p \in Project /\ p # Self /\ Self \in Project /\ SelfTenant \in Tenant
  BY ConstantsAssumption
<1> DEFINE wiped == [event EXCEPT ![p] = [t \in Tenant |-> <<>>]]
<1>1. /\ event' = [wiped EXCEPT ![Self][SelfTenant] = Append(@, None)]
      /\ tenantRoot' = [tenantRoot EXCEPT ![p] = {}]
      /\ projectRoot' = [projectRoot EXCEPT ![p] = {}]
      /\ UNCHANGED <<roots, globalRoot, index, anchor, published, loop>>
      /\ loop.at \notin {"scan", "link"}
  BY DEF ResetProject, registryVars, Synchronous
<1>2. /\ tenantRoot'[p] = {} /\ projectRoot'[p] = {}
      /\ \A q \in Project \ {p} : /\ tenantRoot'[q] = tenantRoot[q]
                                  /\ projectRoot'[q] = projectRoot[q]
  BY <1>0, <1>1 DEF LoopInv, TypeOK
<1>3. /\ wiped \in [Project -> [Tenant -> Seq(Nat)]]
      /\ \A u \in Tenant : wiped[p][u] = <<>>
      /\ \A q \in Project \ {p} : wiped[q] = event[q]
  <2>1. [t \in Tenant |-> <<>>] \in [Tenant -> Seq(Nat)]
    OBVIOUS
  <2> QED
    BY <1>0, <2>1 DEF LoopInv, TypeOK
<1> HIDE DEF wiped
<1>4. ASSUME NEW q \in Project, NEW u \in Tenant
      PROVE  event'[q][u] = wiped[q][u] \/ (q # p /\ event'[q][u] = Append(wiped[q][u], None))
  BY <1>0, <1>1, <1>3
<1>5. ChainsRooted'
  <2> SUFFICES ASSUME NEW q \in Project, NEW u \in Tenant
               PROVE  Cover(event'[q][u], BatchesOf(q, u)')
    BY DEF ChainsRooted
  <2>1. CASE q = p
    <3>1. event'[q][u] = <<>> /\ BatchesOf(q, u)' = {}
      BY <1>2, <1>3, <1>4, <2>1 DEF BatchesOf
    <3> QED
      BY <3>1, EmptyCover
  <2>2. CASE q # p
    <3>1. /\ event[q][u] \in Seq(Nat) /\ BatchesOf(q, u) \in SUBSET TenantRoot
          /\ Cover(event[q][u], BatchesOf(q, u))
      BY DEF LoopInv, TypeOK, BatchesOf, ChainsRooted
    <3>2. BatchesOf(q, u)' = BatchesOf(q, u)
      BY <1>2, <2>2 DEF BatchesOf
    <3>3. event'[q][u] = event[q][u] \/ event'[q][u] = Append(event[q][u], None)
      BY <1>3, <1>4, <2>2
    <3> QED
      BY <3>1, <3>2, <3>3, AppendCover
  <2> QED
    BY <2>1, <2>2
<1>6. \A q \in Project : projectRoot'[q] = projectRoot[q] \/ projectRoot'[q] = {}
  BY <1>2
<1>7. IdsDrawn'
  BY <1>1, <1>6 DEF IdsDrawn, LoopInv
<1>8. BatchesHang'
  BY <1>2 DEF BatchesHang, LoopInv
<1>9. LinksHold'
  BY <1>1, <1>6 DEF LinksHold, LoopInv, Roots
<1>10. Dangling' \subseteq Dangling
  BY <1>6 DEF Dangling
<1>11. TickLinks'
  BY <1>1, <1>10 DEF TickLinks, LoopInv
<1>12. CallsMissing' /\ ReceiptsBacked'
  BY <1>1 DEF CallsMissing, ReceiptsBacked, Roots, LoopInv
<1> QED
  BY <1>5, <1>7, <1>8, <1>9, <1>11, <1>12, ResetProjectType DEF LoopInv

(* A day older. *)
Aged(r) == [r EXCEPT !.age = IF r.age < MaxInterval THEN @ + 1 ELSE @]

(* Time changes the age of a project root and nothing else of it. *)
LEMMA ElapseInv == LoopInv /\ Elapse => LoopInv'
<1> SUFFICES ASSUME LoopInv, Elapse
             PROVE  LoopInv'
  OBVIOUS
<1>1. /\ \A q \in Project : projectRoot'[q] = {Aged(r) : r \in projectRoot[q]}
      /\ UNCHANGED <<event, tenantRoot, roots, globalRoot, index, anchor, published, loop>>
      /\ loop.at = "idle"
  BY DEF Elapse, Older, Aged, registryVars
<1>2. \A q \in Project : \A r \in projectRoot[q] : Aged(r).id = r.id /\ Aged(r).global = r.global
  BY DEF Aged, LoopInv, TypeOK, ProjectRoot
<1>3. \A q \in Project : \A s \in projectRoot'[q] :
        \E r \in projectRoot[q] : s = Aged(r) /\ s.id = r.id /\ s.global = r.global
  BY <1>1, <1>2
<1>4. IdsDrawn'
  BY <1>1, <1>3 DEF IdsDrawn, LoopInv
<1>5. BatchesHang'
  BY <1>1, <1>2 DEF BatchesHang, LoopInv
<1>6. LinksHold'
  <2> SUFFICES ASSUME NEW q \in Project, NEW s \in projectRoot'[q], s.global # None
               PROVE  /\ s.global \in Roots
                      /\ <<q, s.id>> \in globalRoot[s.global].leaves
                      /\ <<s.global, q>> \in index
    BY <1>1 DEF LinksHold, Roots
  <2> QED
    BY <1>3 DEF LinksHold, LoopInv
<1>7. ChainsRooted'
  BY <1>1 DEF ChainsRooted, BatchesOf, LoopInv
<1>8. TickLinks'
  BY <1>1 DEF TickLinks
<1>9. CallsMissing' /\ ReceiptsBacked'
  BY <1>1 DEF CallsMissing, ReceiptsBacked, Roots, LoopInv
<1> QED
  BY <1>4, <1>5, <1>6, <1>7, <1>8, <1>9, ElapseType DEF LoopInv
-------------------------------------------------------------------------------
(* The tick's transactions.                                                *)

(* rootProject gives tenant t one batch, over its unrooted events, if it   *)
(* has any.                                                                *)
LEMMA BatchOfTenant ==
  ASSUME NEW p, NEW t \in Tenant, NEW id
  PROVE  /\ Unrooted(p, t) = {} => {b \in Batches(p, id) : b.tenant = t} = {}
         /\ Unrooted(p, t) # {} =>
              {b \in Batches(p, id) : b.tenant = t} =
                {[tenant |-> t, from |-> First(Unrooted(p, t)) - 1,
                  to |-> Last(Unrooted(p, t)) - 1, project_root |-> id]}
BY DEF Batches

LEMMA RootProjectChains ==
  ASSUME LoopInv, NEW p \in Project, NEW t \in Tenant
  PROVE  Cover(Marked(p, t, roots + 1),
               BatchesOf(p, t) \cup {b \in Batches(p, roots + 1) : b.tenant = t})
<1> DEFINE chain == event[p][t]
           after == Marked(p, t, roots + 1)
           batches == BatchesOf(p, t)
           id == roots + 1
           first == First(Unrooted(p, t))
<1>1. /\ roots \in Nat /\ id \in Nat /\ id # None
      /\ chain \in Seq(Nat) /\ batches \in SUBSET TenantRoot /\ Cover(chain, batches)
  <2>1. roots \in Nat /\ chain \in Seq(Nat) /\ batches \in SUBSET TenantRoot
    BY DEF LoopInv, TypeOK, BatchesOf
  <2>2. Cover(chain, batches)
    BY DEF LoopInv, ChainsRooted
  <2> QED
    BY <2>1, <2>2 DEF None
<1>2. /\ after \in Seq(Nat) /\ Len(after) = Len(chain)
      /\ \A i \in 1..Len(chain) : after[i] = IF i \in Unrooted(p, t) THEN id ELSE chain[i]
  BY <1>1, MarkedType DEF LoopInv
<1>3. \A b \in batches : b.project_root \notin {None, id}
  <2> SUFFICES ASSUME NEW b \in batches
               PROVE  b.project_root \notin {None, id}
    OBVIOUS
  <2>1. PICK r \in projectRoot[p] : r.id = b.project_root
    BY DEF BatchesOf, BatchesHang, LoopInv
  <2>2. b.project_root \in 1..roots
    BY <2>1 DEF IdsDrawn, LoopInv
  <2> QED
    BY <1>1, <2>2 DEF None
<1>4. \A i \in 1..Len(chain) : chain[i] = None <=> i \in Unrooted(p, t)
  BY <1>1 DEF Unrooted
<1>5. CASE Unrooted(p, t) = {}
  <2>1. after = chain
    <3>1. \A i \in 1..Len(chain) : after[i] = chain[i]
      BY <1>2, <1>5
    <3> HIDE DEF after, chain
    <3> QED
      BY <1>1, <1>2, <3>1, SeqEqual
  <2> QED
    BY <1>1, <1>5, <2>1, BatchOfTenant
<1>6. CASE Unrooted(p, t) # {}
  <2> DEFINE new == [tenant |-> t, from |-> first - 1, to |-> Len(chain) - 1, project_root |-> id]
  <2>1. /\ first \in 1..Len(chain) /\ Last(Unrooted(p, t)) = Len(chain)
        /\ Unrooted(p, t) = first..Len(chain)
    BY <1>6, UnrootedIsSuffix DEF LoopInv
  <2>2. {b \in Batches(p, id) : b.tenant = t} = {new}
    BY <1>6, <2>1, BatchOfTenant
  <2>3. new \in TenantRoot
    BY <1>1, <2>1 DEF TenantRoot
  <2>4. /\ new.from = first - 1 /\ new.to = Len(chain) - 1 /\ new.project_root = id
    OBVIOUS
  <2>5. \A i \in 1..Len(chain) : i \in Unrooted(p, t) <=> first <= i
    BY <2>1
  <2> HIDE DEF chain, after, batches, id, first, new
  <2>6. \A i \in 1..Len(chain) : chain[i] = None <=> first <= i
    BY <1>4, <2>5
  <2>7. \A i \in 1..Len(chain) : after[i] = IF first <= i THEN id ELSE chain[i]
    BY <1>2, <2>5
  <2>8. Cover(after, batches \cup {new})
    BY <1>1, <1>2, <1>3, <2>1, <2>3, <2>4, <2>6, <2>7, MarkCover
  <2> QED
    BY <2>2, <2>8 DEF after, batches, id
<1> QED
  BY <1>5, <1>6

LEMMA RootProjectInv ==
  ASSUME LoopInv, NEW p \in Project, RootProject(p)
  PROVE  LoopInv'
<1> DEFINE id == roots + 1
           row == [id |-> id, global |-> None, age |-> 0]
<1>1. /\ roots' = id
      /\ event' = [event EXCEPT ![p] = [t \in Tenant |-> Marked(p, t, id)]]
      /\ tenantRoot' = [tenantRoot EXCEPT ![p] = @ \cup Batches(p, id)]
      /\ projectRoot' = [projectRoot EXCEPT ![p] = @ \cup {row}]
      /\ loop' = [loop EXCEPT !.projects = @ \ {p}, !.rooted = @ \cup {<<p, id>>}]
  BY RootProjectEffect DEF LoopInv
<1>2. /\ UNCHANGED <<globalRoot, index, anchor, published>>
      /\ loop.at = "scan"
  BY DEF RootProject, registryVars
<1>3. /\ roots \in Nat /\ id \in Nat /\ row.id = id /\ row.global = None
  BY DEF LoopInv, TypeOK
<1>4. /\ \A q \in Project \ {p} : event'[q] = event[q] /\ tenantRoot'[q] = tenantRoot[q]
                                  /\ projectRoot'[q] = projectRoot[q]
      /\ \A t \in Tenant : event'[p][t] = Marked(p, t, id)
      /\ tenantRoot'[p] = tenantRoot[p] \cup Batches(p, id)
      /\ projectRoot'[p] = projectRoot[p] \cup {row}
  BY <1>1 DEF LoopInv, TypeOK
<1>5. /\ loop'.at = "scan" /\ loop'.rooted = loop.rooted \cup {<<p, id>>}
      /\ loop'.linking = loop.linking /\ loop'.sent = loop.sent /\ loop'.kinds = loop.kinds
  BY <1>1, <1>2 DEF LoopInv, TypeOK, Loop
<1>6. TypeOK'
  BY RootProjectType DEF LoopInv
<1>7. ChainsRooted'
  <2> SUFFICES ASSUME NEW q \in Project, NEW t \in Tenant
               PROVE  Cover(event'[q][t], BatchesOf(q, t)')
    BY DEF ChainsRooted
  <2>1. CASE q = p
    <3>1. BatchesOf(q, t)' = BatchesOf(p, t) \cup {b \in Batches(p, id) : b.tenant = t}
      BY <1>4, <2>1 DEF BatchesOf
    <3> QED
      BY <1>4, <2>1, <3>1, RootProjectChains
  <2>2. CASE q # p
    BY <1>4, <2>2 DEF ChainsRooted, BatchesOf, LoopInv
  <2> QED
    BY <2>1, <2>2
<1> HIDE DEF id, row
<1>8. \A q \in Project : \A r \in projectRoot[q] : r.id \in 1..roots /\ r.id # id
  BY <1>3 DEF IdsDrawn, LoopInv, id
<1>9. IdsDrawn'
  <2>1. ASSUME NEW q \in Project, NEW r \in projectRoot'[q]
        PROVE  r.id \in 1..id
    BY <1>3, <1>4, <1>8 DEF id
  <2>2. ASSUME NEW q \in Project, NEW r \in projectRoot'[q], NEW s \in projectRoot'[q], r.id = s.id
        PROVE  r = s
    BY <1>3, <1>4, <1>8, <2>2 DEF IdsDrawn, LoopInv
  <2> QED
    BY <1>1, <2>1, <2>2 DEF IdsDrawn
<1>10. BatchesHang'
  <2> SUFFICES ASSUME NEW q \in Project, NEW b \in tenantRoot'[q]
               PROVE  \E r \in projectRoot'[q] : r.id = b.project_root
    BY DEF BatchesHang
  <2>1. CASE b \in tenantRoot[q]
    BY <1>4, <2>1 DEF BatchesHang, LoopInv
  <2>2. CASE q = p /\ b \in Batches(p, id)
    <3>1. b.project_root = id
      BY <2>2 DEF Batches
    <3> QED
      BY <1>3, <1>4, <2>2, <3>1
  <2> QED
    BY <1>4, <2>1, <2>2
<1>11. LinksHold'
  <2> SUFFICES ASSUME NEW q \in Project, NEW r \in projectRoot'[q], r.global # None
               PROVE  /\ r.global \in Roots
                      /\ <<q, r.id>> \in globalRoot[r.global].leaves
                      /\ <<r.global, q>> \in index
    BY <1>2 DEF LinksHold, Roots
  <2>1. r \in projectRoot[q]
    BY <1>3, <1>4
  <2> QED
    BY <2>1 DEF LinksHold, LoopInv
<1>12. TickLinks'
  <2>1. \A q \in Project : \A n : <<q, n>> \in Dangling => <<q, n>> \in Dangling'
    BY <1>4, <1>6, DanglingType, DanglingAfter DEF LoopInv
  <2>2. <<p, id>> \in Dangling'
    BY <1>3, <1>4, <1>6, DanglingAfter
  <2>3. loop.rooted \subseteq Dangling /\ loop.linking = {} /\ Dangling \subseteq Project \X Nat
    BY <1>2, DanglingType DEF TickLinks, LoopInv
  <2>4. loop.rooted \subseteq Dangling'
    BY <2>1, <2>3
  <2> QED
    BY <1>5, <2>2, <2>3, <2>4 DEF TickLinks
<1>13. CallsMissing'
  BY <1>2, <1>5, NotCalling DEF CallsMissing, LoopInv
<1>14. ReceiptsBacked'
  BY <1>2, ReceiptsFrame DEF Roots, LoopInv
<1> QED
  BY <1>6, <1>7, <1>9, <1>10, <1>11, <1>12, <1>13, <1>14 DEF LoopInv

LEMMA InsertGlobalRootInv == LoopInv /\ InsertGlobalRoot => LoopInv'
<1> SUFFICES ASSUME LoopInv, InsertGlobalRoot
             PROVE  LoopInv'
  OBVIOUS
<1> DEFINE all == loop.rooted \cup Dangling
           new == [prev |-> Len(globalRoot), leaves |-> all]
<1>1. /\ globalRoot' = Append(globalRoot, new)
      /\ loop' = [loop EXCEPT !.at = "link", !.rooted = all, !.root = Len(globalRoot) + 1]
      /\ UNCHANGED <<ingested, event, tenantRoot, projectRoot, roots, index, anchor, published>>
      /\ loop.at = "scan"
  BY DEF InsertGlobalRoot, projectVars
<1>2. loop.rooted \subseteq Dangling /\ loop.linking = {} /\ all = Dangling
  BY <1>1 DEF TickLinks, LoopInv
<1>3. new.leaves = Dangling
  BY <1>2
<1> HIDE DEF all, new
<1>4. /\ loop'.at = "link" /\ loop'.rooted = Dangling /\ loop'.linking = {}
      /\ loop'.root = Len(globalRoot) + 1 /\ loop'.kinds = loop.kinds /\ loop'.sent = loop.sent
  BY <1>1, <1>2 DEF LoopInv, TypeOK, Loop
<1>5. /\ globalRoot \in Seq(GlobalRoot) /\ Len(globalRoot) \in Nat /\ new \in GlobalRoot
  <2>1. Dangling \subseteq Project \X Nat
    BY DanglingType DEF LoopInv
  <2> QED
    BY <1>2, <2>1 DEF LoopInv, TypeOK, GlobalRoot, new
<1>6. /\ Roots = 1..Len(globalRoot) /\ Roots' = 1..Len(globalRoot) + 1
      /\ globalRoot'[Len(globalRoot) + 1] = new
      /\ \A g \in Roots : globalRoot'[g] = globalRoot[g]
  BY <1>1, <1>5 DEF Roots
<1>7. /\ Roots \subseteq Roots' /\ Len(globalRoot) + 1 \in Roots'
      /\ Len(globalRoot) + 1 \notin Roots
  BY <1>5, <1>6
<1>8. Dangling' = Dangling
  BY <1>1 DEF Dangling
<1>9. IdsDrawn'
  BY <1>1 DEF IdsDrawn, LoopInv
<1>10. ChainsRooted'
  BY <1>1 DEF ChainsRooted, BatchesOf, LoopInv
<1>11. BatchesHang'
  BY <1>1 DEF BatchesHang, LoopInv
<1>12. LinksHold'
  BY <1>1, <1>6, <1>7 DEF LinksHold, LoopInv
<1>13. TickLinks'
  BY <1>3, <1>4, <1>6, <1>7, <1>8 DEF TickLinks
<1>14. CallsMissing'
  <2>1. \A a \in anchor : a.root # Len(globalRoot) + 1
    BY <1>7 DEF ReceiptsBacked, LoopInv
  <2> QED
    BY <1>1, <1>4, <2>1 DEF CallsMissing, LoopInv
<1>15. ReceiptsBacked'
  BY <1>1, <1>7, ReceiptsFrame DEF LoopInv
<1> QED
  BY <1>9, <1>10, <1>11, <1>12, <1>13, <1>14, <1>15, InsertGlobalRootType DEF LoopInv

LEMMA IndexRootInv ==
  ASSUME LoopInv, NEW p \in Project, NEW id, IndexRoot(p, id)
  PROVE  LoopInv'
<1>1. /\ index' = index \cup {<<loop.root, p>>}
      /\ loop' = [loop EXCEPT !.rooted = @ \ {<<p, id>>}, !.linking = {<<p, id>>}]
      /\ UNCHANGED <<ingested, event, tenantRoot, projectRoot, roots, globalRoot, anchor, published>>
      /\ loop.at = "link" /\ loop.linking = {} /\ <<p, id>> \in loop.rooted
  BY DEF IndexRoot, projectVars
<1>2. /\ loop'.at = "link" /\ loop'.rooted = loop.rooted \ {<<p, id>>}
      /\ loop'.linking = {<<p, id>>} /\ loop'.root = loop.root
      /\ loop'.kinds = loop.kinds /\ loop'.sent = loop.sent
  BY <1>1 DEF LoopInv, TypeOK, Loop
<1>3. Dangling' = Dangling /\ Roots' = Roots
  BY <1>1 DEF Dangling, Roots
<1>4. IdsDrawn' /\ ChainsRooted' /\ BatchesHang'
  BY <1>1 DEF IdsDrawn, ChainsRooted, BatchesOf, BatchesHang, LoopInv
<1>5. LinksHold'
  BY <1>1, <1>3 DEF LinksHold, LoopInv
<1>6. TickLinks'
  <2>1. /\ loop.rooted = Dangling /\ loop.root \in Roots
        /\ Dangling \subseteq globalRoot[loop.root].leaves
    BY <1>1 DEF TickLinks, LoopInv
  <2>2. <<p, id>>[1] = p
    OBVIOUS
  <2> QED
    BY <1>1, <1>2, <1>3, <2>1, <2>2 DEF TickLinks
<1>7. CallsMissing'
  BY <1>1, <1>2 DEF CallsMissing, LoopInv
<1>8. ReceiptsBacked'
  BY <1>1, <1>3, ReceiptsFrame DEF LoopInv
<1> QED
  BY <1>4, <1>5, <1>6, <1>7, <1>8, IndexRootType DEF LoopInv

(* The row that LinkRoot updates is the one project root being linked. *)
LEMMA LinkRootEffect ==
  ASSUME LoopInv, NEW p \in Project, NEW id, LinkRoot(p, id)
  PROVE  \E row \in projectRoot[p] :
           /\ row.id = id /\ row.global = None
           /\ projectRoot'[p] = (projectRoot[p] \ {row}) \cup {[row EXCEPT !.global = loop.root]}
           /\ \A q \in Project \ {p} : projectRoot'[q] = projectRoot[q]
<1>1. /\ loop.at = "link" /\ <<p, id>> \in loop.linking
      /\ projectRoot' = [projectRoot EXCEPT ![p] =
           {IF r.id = id THEN [r EXCEPT !.global = loop.root] ELSE r : r \in @}]
  BY DEF LinkRoot
<1>2. <<p, id>> \in Dangling
  BY <1>1 DEF TickLinks, LoopInv
<1>3. PICK row \in projectRoot[p] : row.id = id /\ row.global = None
  BY <1>2, DanglingType DEF LoopInv
<1>4. \A r \in projectRoot[p] : r.id = id => r = row
  BY <1>3 DEF IdsDrawn, LoopInv
<1>5. /\ projectRoot'[p] = {IF r.id = id THEN [r EXCEPT !.global = loop.root] ELSE r : r \in projectRoot[p]}
      /\ \A q \in Project \ {p} : projectRoot'[q] = projectRoot[q]
  BY <1>1 DEF LoopInv, TypeOK
<1>6. projectRoot'[p] = (projectRoot[p] \ {row}) \cup {[row EXCEPT !.global = loop.root]}
  BY <1>3, <1>4, <1>5
<1> QED
  BY <1>3, <1>5, <1>6

LEMMA LinkRootInv ==
  ASSUME LoopInv, NEW p \in Project, NEW id, LinkRoot(p, id)
  PROVE  LoopInv'
<1>1. /\ UNCHANGED <<ingested, event, tenantRoot, roots, globalRoot, index, anchor, published>>
      /\ loop' = [loop EXCEPT !.linking = {}]
      /\ loop.at = "link" /\ <<p, id>> \in loop.linking
  BY DEF LinkRoot, registryVars
<1>2. /\ loop'.at = "link" /\ loop'.rooted = loop.rooted /\ loop'.linking = {}
      /\ loop'.root = loop.root /\ loop'.kinds = loop.kinds /\ loop'.sent = loop.sent
  BY <1>1 DEF LoopInv, TypeOK, Loop
<1>3. PICK row \in projectRoot[p] :
           /\ row.id = id /\ row.global = None
           /\ projectRoot'[p] = (projectRoot[p] \ {row}) \cup {[row EXCEPT !.global = loop.root]}
           /\ \A q \in Project \ {p} : projectRoot'[q] = projectRoot[q]
  BY LinkRootEffect
<1> DEFINE linked == [row EXCEPT !.global = loop.root]
<1>4. linked.id = id /\ linked.global = loop.root
  BY <1>3 DEF LoopInv, TypeOK, ProjectRoot
<1>5. /\ projectRoot'[p] = (projectRoot[p] \ {row}) \cup {linked}
      /\ \A q \in Project \ {p} : projectRoot'[q] = projectRoot[q]
  BY <1>3
<1> HIDE DEF linked
<1>6. TypeOK'
  BY LinkRootType DEF LoopInv
<1>7. /\ loop.linking = {<<p, id>>} /\ loop.rooted = Dangling \ {<<p, id>>}
      /\ Dangling \subseteq Project \X Nat
      /\ loop.root \in Roots /\ loop.root # None
      /\ <<p, id>> \in globalRoot[loop.root].leaves
      /\ Dangling \subseteq globalRoot[loop.root].leaves
      /\ <<loop.root, p>> \in index
  <2>1. /\ loop.rooted \cup loop.linking = Dangling
        /\ loop.rooted \cap loop.linking = {}
        /\ \A x, y \in loop.linking : x = y
        /\ loop.root \in Roots
        /\ Dangling \subseteq globalRoot[loop.root].leaves
        /\ \A x \in loop.linking : <<loop.root, x[1]>> \in index
    BY <1>1 DEF TickLinks, LoopInv
  <2>2. loop.linking = {<<p, id>>}
    BY <1>1, <2>1
  <2>3. <<loop.root, <<p, id>>[1]>> \in index
    BY <1>1, <2>1
  <2>4. loop.root # None
    BY <2>1 DEF Roots, None, LoopInv, TypeOK
  <2>5. Dangling \subseteq Project \X Nat
    BY DanglingType DEF LoopInv
  <2> QED
    BY <2>1, <2>2, <2>3, <2>4, <2>5
<1>8. \A q \in Project : \A r \in projectRoot'[q] :
        r \in projectRoot[q] \/ (q = p /\ r = linked)
  BY <1>5
<1>9. IdsDrawn'
  <2>1. ASSUME NEW q \in Project, NEW r \in projectRoot'[q]
        PROVE  r.id \in 1..roots
    BY <1>3, <1>4, <1>8 DEF IdsDrawn, LoopInv
  <2>2. ASSUME NEW q \in Project, NEW r \in projectRoot'[q], NEW s \in projectRoot'[q], r.id = s.id
        PROVE  r = s
    <3>1. CASE q # p
      BY <1>5, <2>2, <3>1 DEF IdsDrawn, LoopInv
    <3>2. CASE q = p
      <4>1. \A o \in projectRoot[p] : o.id = id => o = row
        BY <1>3 DEF IdsDrawn, LoopInv
      <4> QED
        BY <1>4, <1>5, <2>2, <3>2, <4>1 DEF IdsDrawn, LoopInv
    <3> QED
      BY <3>1, <3>2
  <2> QED
    BY <1>1, <2>1, <2>2 DEF IdsDrawn
<1>10. BatchesHang'
  <2> SUFFICES ASSUME NEW q \in Project, NEW b \in tenantRoot[q]
               PROVE  \E r \in projectRoot'[q] : r.id = b.project_root
    BY <1>1 DEF BatchesHang
  <2>1. PICK r \in projectRoot[q] : r.id = b.project_root
    BY DEF BatchesHang, LoopInv
  <2> QED
    BY <1>3, <1>4, <1>5, <2>1
<1>11. LinksHold'
  <2> SUFFICES ASSUME NEW q \in Project, NEW r \in projectRoot'[q], r.global # None
               PROVE  /\ r.global \in Roots
                      /\ <<q, r.id>> \in globalRoot[r.global].leaves
                      /\ <<r.global, q>> \in index
    BY <1>1 DEF LinksHold, Roots
  <2>1. CASE r \in projectRoot[q]
    BY <2>1 DEF LinksHold, LoopInv
  <2>2. CASE q = p /\ r = linked
    BY <1>4, <1>7, <2>2
  <2> QED
    BY <1>8, <2>1, <2>2
<1>12. ChainsRooted'
  BY <1>1 DEF ChainsRooted, BatchesOf, LoopInv
<1>13. Dangling' = loop.rooted
  <2>1. ASSUME NEW q \in Project, NEW n
        PROVE  <<q, n>> \in Dangling' <=> (<<q, n>> \in Dangling /\ <<q, n>> # <<p, id>>)
    <3>1. <<q, n>> \in Dangling' <=> \E r \in projectRoot'[q] : r.id = n /\ r.global = None
      BY <1>6, DanglingAfter
    <3>2. <<q, n>> \in Dangling <=> \E r \in projectRoot[q] : r.id = n /\ r.global = None
      BY DanglingType DEF LoopInv
    <3>3. CASE q # p
      BY <1>5, <3>1, <3>2, <3>3
    <3>4. CASE q = p
      <4>1. \A o \in projectRoot[p] : o.id = id => o = row
        BY <1>3 DEF IdsDrawn, LoopInv
      <4>2. \A r : r \in projectRoot'[p] /\ r.global = None <=>
                   r \in projectRoot[p] /\ r # row /\ r.global = None
        BY <1>4, <1>5, <1>7
      <4> QED
        BY <1>3, <3>1, <3>2, <3>4, <4>1, <4>2
    <3> QED
      BY <3>3, <3>4
  <2>2. Dangling' \subseteq Project \X Nat
    BY <1>6, DanglingAfter
  <2> QED
    BY <1>7, <2>1, <2>2
<1>14. TickLinks'
  <2>1. Roots' = Roots /\ loop.rooted \subseteq globalRoot[loop.root].leaves
    BY <1>1, <1>7 DEF Roots
  <2> QED
    BY <1>1, <1>2, <1>7, <1>13, <2>1 DEF TickLinks
<1>15. CallsMissing'
  BY <1>1, <1>2 DEF CallsMissing, LoopInv
<1>16. ReceiptsBacked'
  BY <1>1, ReceiptsFrame DEF Roots, LoopInv
<1> QED
  BY <1>6, <1>9, <1>10, <1>11, <1>12, <1>14, <1>15, <1>16 DEF LoopInv
-------------------------------------------------------------------------------
(* The theorems.                                                           *)

LEMMA InitInv == Init => LoopInv
<1> SUFFICES ASSUME Init
             PROVE  LoopInv
  OBVIOUS
<1>1. /\ \A p \in Project : projectRoot[p] = {} /\ tenantRoot[p] = {}
      /\ \A p \in Project, t \in Tenant : event[p][t] = <<>> /\ BatchesOf(p, t) = {}
      /\ loop.at = "idle" /\ loop.sent = {} /\ loop.kinds = <<>>
      /\ anchor = {}
  BY DEF Init, BatchesOf, Idle
<1>2. IdsDrawn /\ BatchesHang /\ LinksHold
  BY <1>1 DEF IdsDrawn, BatchesHang, LinksHold
<1>3. ChainsRooted
  BY <1>1, EmptyCover DEF ChainsRooted
<1>4. TickLinks /\ CallsMissing
  BY <1>1 DEF TickLinks, CallsMissing, IsInjective
<1>5. ReceiptsBacked
  BY <1>1 DEF ReceiptsBacked
<1> QED
  BY <1>2, <1>3, <1>4, <1>5, InitType DEF LoopInv

LEMMA StutterInv == LoopInv /\ UNCHANGED vars => LoopInv'
<1> SUFFICES ASSUME LoopInv, UNCHANGED vars
             PROVE  LoopInv'
  OBVIOUS
<1>1. IdsDrawn' /\ ChainsRooted' /\ BatchesHang' /\ LinksHold' /\ Dangling' = Dangling /\ Roots' = Roots
  BY TablesFrame DEF LoopInv, vars, projectVars, registryVars
<1>2. TypeOK'
  BY DEF LoopInv, TypeOK, vars, projectVars, registryVars
<1>3. TickLinks' /\ CallsMissing'
  BY <1>1 DEF TickLinks, CallsMissing, LoopInv, vars, projectVars, registryVars
<1>4. ReceiptsBacked'
  BY <1>1, ReceiptsFrame DEF LoopInv, vars, projectVars, registryVars
<1> QED
  BY <1>1, <1>2, <1>3, <1>4 DEF LoopInv

LEMMA StepInv == LoopInv /\ [Next]_vars => LoopInv'
<1> SUFFICES ASSUME LoopInv, [Next]_vars
             PROVE  LoopInv'
  OBVIOUS
<1>1. CASE Tick
  BY <1>1, StartTickInv, NothingRootedInv, InsertGlobalRootInv, StartAnchoringInv,
     RootProjectInv, SkipProjectInv, IndexRootInv, LinkRootInv DEF Tick
<1>2. CASE Maintain
  BY <1>2, StartMaintenanceInv, MaintainKindInv, StartUpgradesInv, EndMaintainKindInv,
     EndRoundInv, UpgradeInv DEF Maintain
<1>3. CASE Submit
  BY <1>3, PublishInv, RecordReceiptInv, CallFailsInv DEF Submit
<1>4. CASE Environment
  BY <1>4, IngestInv, ResetProjectInv, ElapseInv DEF Environment
<1>5. CASE RoundThrows
  BY <1>5, RoundThrowsInv
<1>6. CASE Restart
  BY <1>6, RestartInv
<1>7. CASE UNCHANGED vars
  BY <1>7, StutterInv
<1> QED
  BY <1>1, <1>2, <1>3, <1>4, <1>5, <1>6, <1>7 DEF Next

(* The inductive invariant holds of every behaviour. *)
THEOREM LoopInvariant == Spec => []LoopInv
BY InitInv, StepInv, PTL DEF Spec

(* Type correctness. *)
THEOREM TypeCorrect == Spec => []TypeOK
<1>1. LoopInv => TypeOK
  BY DEF LoopInv
<1> QED
  BY <1>1, LoopInvariant, PTL

(* Whatever interrupts the ticks, the batches of a tenant cut a prefix of  *)
(* its chain into consecutive ranges, each event in the batch its root_id  *)
(* names: rootProject's batches from the first to the last unrooted row    *)
(* never overlap and never leave an event out.                             *)
THEOREM BatchesPartitionChains == Spec => []BatchesPartition
<1>1. LoopInv => BatchesPartition
  <2> SUFFICES ASSUME LoopInv, NEW p \in Project, NEW t \in Tenant
               PROVE  LET batches == BatchesOf(p, t)
                      IN /\ \A i \in DOMAIN event[p][t] :
                              {b.project_root : b \in {c \in batches : i - 1 \in c.from..c.to}}
                                = {event[p][t][i]} \ {None}
                         /\ \A i, j \in DOMAIN event[p][t] :
                              i < j /\ event[p][t][i] = None => event[p][t][j] = None
                         /\ \A b, c \in batches :
                              b # c => b.to < c.from \/ c.to < b.from
    BY DEF BatchesPartition, BatchesOf
  <2> DEFINE chain == event[p][t]
             batches == BatchesOf(p, t)
  <2>1. /\ Cover(chain, batches) /\ chain \in Seq(Nat) /\ Len(chain) \in Nat
        /\ DOMAIN chain = 1..Len(chain)
    BY DEF LoopInv, ChainsRooted, TypeOK
  <2>2. \A b \in batches : b.from \in Nat /\ b.to \in Nat /\ b.project_root # None
    <3> SUFFICES ASSUME NEW b \in batches
                 PROVE  b.from \in Nat /\ b.to \in Nat /\ b.project_root # None
      OBVIOUS
    <3>1. b.from \in Nat /\ b.to \in Nat
      BY DEF BatchesOf, LoopInv, TypeOK, TenantRoot
    <3>2. PICK r \in projectRoot[p] : r.id = b.project_root
      BY DEF BatchesOf, BatchesHang, LoopInv
    <3>3. b.project_root \in 1..roots
      BY <3>2 DEF IdsDrawn, LoopInv
    <3> QED
      BY <3>1, <3>3 DEF None
  <2> HIDE DEF chain, batches
  <2>3. ASSUME NEW i \in DOMAIN chain, NEW b \in batches, i - 1 \in b.from..b.to
        PROVE  chain[i] = b.project_root
    <3>1. chain[(i - 1) + 1] = b.project_root
      BY <2>1, <2>3 DEF Cover
    <3> QED
      BY <2>1, <3>1
  <2>4. ASSUME NEW i \in DOMAIN chain
        PROVE  {b.project_root : b \in {c \in batches : i - 1 \in c.from..c.to}} = {chain[i]} \ {None}
    <3>1. CASE chain[i] = None
      BY <2>2, <2>3, <3>1
    <3>2. CASE chain[i] # None
      <4>1. PICK b \in batches : i - 1 \in b.from..b.to
        BY <2>1, <3>2 DEF Cover
      <4> QED
        BY <2>2, <2>3, <3>2, <4>1
    <3> QED
      BY <3>1, <3>2
  <2>5. ASSUME NEW b \in batches, NEW c \in batches, b # c
        PROVE  b.to < c.from \/ c.to < b.from
    <3> SUFFICES ASSUME c.from <= b.to, b.from <= c.to
                 PROVE  FALSE
      BY <2>2
    <3>1. b.from <= b.to /\ b.to < Len(chain) /\ c.from <= c.to /\ c.to < Len(chain)
      BY <2>1 DEF Cover
    <3>2. PICK n \in Nat : n \in b.from..b.to /\ n \in c.from..c.to
      <4>1. CASE b.from <= c.from
        BY <2>2, <3>1, <4>1
      <4>2. CASE c.from <= b.from
        BY <2>2, <3>1, <4>2
      <4> QED
        BY <2>2, <4>1, <4>2
    <3>3. chain[n + 1] = b.project_root /\ chain[n + 1] = c.project_root
      BY <2>1, <3>2 DEF Cover
    <3>4. b = c
      BY <2>1, <3>3 DEF Cover
    <3> QED
      BY <2>5, <3>4
  <2>6. \A i, j \in DOMAIN chain : i < j /\ chain[i] = None => chain[j] = None
    BY <2>1 DEF Cover
  <2> QED
    BY <2>4, <2>5, <2>6 DEF chain, batches
<1> QED
  BY <1>1, LoopInvariant, PTL

(* Every tenant's roots verify at every moment, also while the loop holds  *)
(* the thread: wherever a tick is cut off, a batch has its events, they    *)
(* name its root, and a link leads to a global root that contains it.      *)
THEOREM RootsAlwaysVerify == Spec => []RootsVerify
<1>1. LoopInv => RootsVerify
  <2> SUFFICES ASSUME LoopInv, NEW p \in Project, NEW t \in Tenant, NEW tr \in BatchesOf(p, t)
               PROVE  \E pr \in projectRoot[p] :
                        /\ pr.id = tr.project_root
                        /\ tr.to < Len(event[p][t])
                        /\ \A i \in tr.from..tr.to : event[p][t][i + 1] = tr.project_root
                        /\ pr.global # None =>
                             /\ pr.global \in Roots
                             /\ <<p, pr.id>> \in globalRoot[pr.global].leaves
    BY DEF RootsVerify, VerifyRoots, BatchesOf
  <2>1. PICK pr \in projectRoot[p] : pr.id = tr.project_root
    BY DEF BatchesOf, BatchesHang, LoopInv
  <2>2. Cover(event[p][t], BatchesOf(p, t))
    BY DEF ChainsRooted, LoopInv
  <2>3. /\ tr.to < Len(event[p][t])
        /\ \A i \in tr.from..tr.to : event[p][t][i + 1] = tr.project_root
    BY <2>2 DEF Cover
  <2>4. pr.global # None => pr.global \in Roots /\ <<p, pr.id>> \in globalRoot[pr.global].leaves
    BY DEF LinksHold, LoopInv
  <2> QED
    BY <2>1, <2>3, <2>4
<1> QED
  BY <1>1, LoopInvariant, PTL

(* A receipt is inserted only for a global root the log really took, and   *)
(* only once, whichever of tick and maintain asked for it.                 *)
THEOREM ReceiptsAreBacked == Spec => []ReceiptsBacked
<1>1. LoopInv => ReceiptsBacked
  BY DEF LoopInv
<1> QED
  BY <1>1, LoopInvariant, PTL

(* However many ticks were cut off before, one that reaches its anchors    *)
(* has linked every project root there is.                                 *)
THEOREM SweepIsComplete == Spec => []SweepComplete
<1>1. LoopInv => SweepComplete
  BY DEF LoopInv, TickLinks, SweepComplete
<1> QED
  BY <1>1, LoopInvariant, PTL

(* A linked project is listed under its global root on the public page. *)
THEOREM LinkedAreIndexed == Spec => []LinkedIsIndexed
<1>1. LoopInv => LinkedIsIndexed
  BY DEF LoopInv, LinksHold, LinkedIsIndexed
<1> QED
  BY <1>1, LoopInvariant, PTL

(* No step links a project root anew or drops it, short of the reset of    *)
(* its project: LinkRoot meets only the one dangling row of its id.        *)
THEOREM LinkedStays == Spec => LinkedForGood
<1> DEFINE Kept == \A p \in Project : \A r \in projectRoot[p] :
                     r.global # None =>
                       \/ \E s \in projectRoot'[p] : s.id = r.id /\ s.global = r.global
                       \/ p \in Demo /\ projectRoot'[p] = {}
<1>1. ASSUME LoopInv, [Next]_vars
      PROVE  Kept
  <2>1. ASSUME \A p \in Project : projectRoot[p] \subseteq projectRoot'[p]
        PROVE  Kept
    BY <2>1
  <2>2. CASE projectRoot' = projectRoot
    BY <2>1, <2>2
  <2>3. ASSUME NEW p \in Project, RootProject(p)
        PROVE  Kept
    <3>1. projectRoot' = [projectRoot EXCEPT ![p] = @ \cup
            {[id |-> roots + 1, global |-> None, age |-> 0]}]
      BY <2>3 DEF RootProject
    <3>2. \A q \in Project : projectRoot[q] \subseteq projectRoot'[q]
      BY <1>1, <3>1 DEF LoopInv, TypeOK
    <3> QED
      BY <2>1, <3>2
  <2>4. ASSUME NEW p \in Project, NEW id, LinkRoot(p, id)
        PROVE  Kept
    BY <1>1, <2>4, LinkRootEffect
  <2>5. ASSUME NEW p \in Demo, ResetProject(p)
        PROVE  Kept
    <3>1. projectRoot' = [projectRoot EXCEPT ![p] = {}]
      BY <2>5 DEF ResetProject
    <3> QED
      BY <1>1, <3>1 DEF LoopInv, TypeOK
  <2>6. CASE Elapse
    <3>1. \A q \in Project : projectRoot'[q] = {Aged(r) : r \in projectRoot[q]}
      BY <2>6 DEF Elapse, Older, Aged
    <3>2. \A q \in Project : \A r \in projectRoot[q] : Aged(r).id = r.id /\ Aged(r).global = r.global
      BY <1>1 DEF Aged, LoopInv, TypeOK, ProjectRoot
    <3> QED
      BY <3>1, <3>2
  <2>7. \/ projectRoot' = projectRoot \/ Elapse
        \/ \E p \in Project : RootProject(p)
        \/ \E p \in Project, id \in 1..roots : LinkRoot(p, id)
        \/ \E p \in Demo : ResetProject(p)
    <3>1. CASE Tick
      BY <3>1 DEF Tick, StartTick, NothingRooted, InsertGlobalRoot, StartAnchoring,
                  SkipProject, IndexRoot, projectVars
    <3>2. CASE Maintain
      BY <3>2 DEF Maintain, StartMaintenance, MaintainKind, StartUpgrades, EndMaintainKind,
                  EndRound, Upgrade, projectVars
    <3>3. CASE Submit
      BY <3>3 DEF Submit, Publish, RecordReceipt, CallFails, projectVars
    <3>4. CASE Environment
      BY <3>4 DEF Environment, Ingest
    <3>5. CASE RoundThrows \/ Restart \/ UNCHANGED vars
      BY <3>5 DEF RoundThrows, Restart, vars, projectVars
    <3> QED
      BY <1>1, <3>1, <3>2, <3>3, <3>4, <3>5 DEF Next
  <2> QED
    BY <2>2, <2>3, <2>4, <2>5, <2>6, <2>7
<1>2. LoopInv /\ [Next]_vars => [Kept]_vars
  BY <1>1
<1> QED
  BY <1>2, LoopInvariant, PTL DEF Spec, LinkedForGood

===============================================================================
