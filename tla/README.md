# AuditKit: a verification project

TLA+ models of the parts of AuditKit that carry its promises, the TLC runs that
check them on small instances, and the theorems TLAPS proves about them for all
instances. Paths below are relative to the repository (`packages/...`).

AuditKit is an audit log as a service. Customers append events per *tenant*; each
tenant's events form a hash chain; an anchor loop builds Merkle roots over the
chains and publishes them to public logs (Rekor, OpenTimestamps); an offline
verifier checks an export against all of this without trusting the server.

## 1. Inventory

The server is one Node process. `node:sqlite` is synchronous, so a handler is
atomic with respect to other handlers unless it awaits; what can fall between two
of its statements is an exception or the death of the process. There is one
registry file and one SQLite file per project, and no transaction spans two files.

| Component | State | Operations | What is hard | What makes it correct |
|---|---|---|---|---|
| Project database (`server/src/events.ts`, `tenantKeys.ts`, `db.ts`, `applyRetention` of `anchorLoop.ts`, `core/src/chain.ts`) | `tenant` with cached head, `event`, `payload`, `tenant_key`, policy | `ingest`, `erase`, `applyRetention`, `addTenantKey`, `revokeTenantKey`, `setRequireClientSig` | rollback of half a batch, savepoints, crash between statements, retries with idempotency keys, the job's two transactions | chains have no gap or fork and match the cached head; receipts stay true; one event per key; no payload vanishes without a record; the signature policy binds every writer |
| Anchor loop (`anchorLoop.ts`, timers of `main.ts`) | `tenant_root`, `project_root`, `event.root_id`; registry `global_root`, `project_root_index`, `anchor` | `tick`, `maintain`, `resetProjectData`, `verifyRoots`, `proofForEvent` | statements that commit one by one in several files, awaits on public logs, lost answers, exceptions that end a round, intervals per plan | batches partition a prefix of each chain; roots verify; receipts are backed; links are permanent and listed; events get rooted and roots get anchored |
| Export (`exportLines`, `ndjsonResponse`) and `verifyRange` | none; reads lazily | `GET /v1/export`, `/v1/verify` | the generator reads while others write; widening to root batches | an undisturbed export verifies, but for what the server itself lost or has not finished |
| Offline verifier (`verify/src`) | none | `verifyExport` | erasure records, pending anchors, coverage, verdict | what it calls VALID is a committed chain |
| Merkle trees (`core/src/merkle.ts`) | none | `buildTree`, `proofFor`, `verifyProof` | odd levels, index arithmetic | a proof verifies exactly for its leaf |
| SDKs (`sdk/src`, `sdk-python`) | the receipts kept | `log`, `logBulk`, `erase`, retries | a timeout racing a late answer | a resend never appends twice; a failure that is certain wrote nothing; every call ends |
| Billing (`billing.ts`) | `stripe_event`, `billing`, `project.plan` | `applyStripeEvent` | duplicated, reordered, half-applied webhooks | a paid plan was told of by Stripe; an older event does not undo a newer one |
| OAuth (`oauth.ts`) | `oauth_code`, `oauth_token` | authorize, token, refresh, revoke | replay of codes, rotation, crash between revoke and issue | a code starts one family; reuse ends it for good; tokens are backed by a membership |
| Login (`auth.ts`) | `login_token`, `user`, `membership`, `session` | create and redeem a magic link | statements of the first login | a token is used once; every user has a project |
| Rate limiter, plan limit (`auth.ts`, `app.ts`) | in-memory counters | `rateLimiter` | window boundary, eviction | at most `max` per window |
| Search (`search`) | none | pages with a cursor | ties in `occurred_at` | every event on exactly one page |
| API keys, viewer tokens (`keys.ts`, `viewer.ts`) | `api_key`, `viewer_token` | create, authenticate, revoke | - | a revoked token opens nothing |
| Rekor and OTS anchors (`anchor-rekor`, `anchor-ots`) | none | `anchor`, `upgrade`, `verify` | fallback between APIs, lost and wrong answers, several calendars in any order | a receipt verifies for its root only, and goes on doing so; a promise is redeemed |
| Backup (`server/scripts/backup.mjs`, `deploy/backup.sh`) | copies | one pass over the files | a tick between two files | a restored project is consistent with the registry |
| Self-audit, web site, MCP tools, routing | none of their own | - | - | best effort, or calls to the above |

Interactions: request handlers and both timers call `ingest`; `tick` reads what
`ingest` wrote and marks it with `root_id`; `verifyRoots` and `proofForEvent` read
both the project file and the registry; `maintain` sees only the registry;
`resetProjectData` empties a project file and leaves the registry alone.

`PROJECT.json` lists every hazard of the code at its line, with the properties
that cover it or the reason why none does.

## 2. Modules

| Module | Models |
|---|---|
| `AppendOnlyLog` | what clients are promised: per tenant a log that only grows, and receipts that stay true |
| `AuditChain` | one project's database and every handler that writes it |
| `MCAuditChain` | its small instance for TLC |
| `AuditChainProofs` | its types, the inductive invariant `Inv` and the properties it gives; the refinement, the signature policy and erasures |
| `AnchorLoop` | the anchor loop over several projects, the registry and the public logs |
| `MCAnchorLoop` | its small instances |
| `AnchorLoopProofs` | its types, the invariant `LoopInv`, and all its safety properties |
| `Merkle` | `core/src/merkle.ts`: trees, proofs and their verification, with ideal hashes |
| `MerkleProofs` | every path leads to its root, and a root is the hash of something, for trees of any size |
| `ExportVerifier` | the offline verifier: what `verifyExport` says of a file |
| `ExportStream` | an export pulled line by line while the server goes on, and the server's own verification; extends the two above |
| `MCExportStream` | its small instance |
| `ExportStreamProofs` | its types, the invariants `ExportInv`, `ProofInv` and `HonestInv`, and all its safety properties |
| `OtsTimestamp` | OpenTimestamps proofs: the tree, merging, writing and reading |
| `OtsAnchor` | `anchor`, `upgrade` and `verify` of the OpenTimestamps anchor, on top of it |
| `MCOtsAnchor` | its small instance |
| `OtsAnchorProofs` | files are read back as the trees they were written from, for trees of any shape; the types of `OtsAnchor`, the invariant `OtsInv`, and its safety properties |
| `Rfc6962` | `anchor-rekor/src/rfc6962.ts`: a log's trees by their definition and the verifier's arithmetic, over the hashes of `Merkle` |
| `RekorAnchor` | `anchor` and the two verifications of the Rekor anchor, on top of it |
| `MCRekorAnchor` | its small instance |
| `RekorAnchorProofs` | inclusion proofs and AuditKit's own trees against RFC 6962, for trees of any size; the types of `RekorAnchor`, the invariant `RekorInv`, and all its safety properties |
| `Identity` | sign-in, projects and memberships, and the OAuth server |
| `MCIdentity` | its small instance |
| `IdentityProofs` | its types, the invariant `IdentityInv`, and all its safety properties |
| `Billing` | Stripe's events and the plan they set |
| `Service` | the SDK's calls against the server's checks; extends `Billing` |
| `MCService` | its small instance |
| `ServiceProofs` | the invariants of both, their types and all safety properties |
| `Search` | pages of a search and their cursor |
| `MCSearch` | its small instance |

### AuditChain

`work` is the database as the connection sees it and `disk` what a restart would
find. A statement in a transaction changes `work` only, `COMMIT` copies it to
`disk`, `ROLLBACK` and `Crash` copy `disk` back; a statement outside a transaction
(`Autocommit`) changes both. `call` is the running handler: `todo` are the inputs
`ingest` has still to insert, `receipts` what it will answer.

| Action | Code |
|---|---|
| `Ingest` | the checks before `BEGIN` (`checkClientSigs`), for one event or a batch |
| `InsertNext`, `ReplayNext`, `AbortBatch` | one round of `ingest`'s loop: a new event, a replayed key, an exception |
| `Commit`, `Reply` | `COMMIT`; the response reaching the caller |
| `Erase` | `SAVEPOINT`, `DELETE`, then `ingest` of the record inside it |
| `RetentionDelete`, `RetentionIngest`, `RetentionRefused` | `applyRetention` for this project: the `DELETE`, a transaction of its own; `ingest`; its exception |
| `CreateTenant`, `AddTenantKey`, `RevokeTenantKey`, `SetRequireClientSig` | administration, single statements |
| `Crash` | the process dies, or the response is lost |

A refused call (no scope, unknown event, bad signature) changes nothing and is a
step not taken. Hashes are ideal: an `event_hash` *is* the run of headers it
commits to, so a fork or a gap is visible as a difference, and a collision cannot
happen. A payload commitment is the payload; a salted commitment of a shredded
payload tells nobody anything, which the model expresses by `payload` being a set
of ids. Ids are numbered in insertion order, which also stands for `received_at`.
The empty idempotency key is a key of its own, because the code's truthiness test
and the UNIQUE index treat it differently.

### AnchorLoop

`event[p][t]` is the sequence of `root_id`s of a tenant's events. A root is
identified with its row; global roots are numbered by insertion, so leaf 0 of the
next is the number before. `loop` is the program counter of the timer callback:
`scan` (the loop over projects), `link` (global root inserted, project roots being
indexed and linked), `anchor` (an await per public log), then for `maintain`
`maintain`, `retry` and `upgrade`. While `loop` is in `scan` or `link` the thread
is not released and no request can run (`Synchronous`).

| Action | Code |
|---|---|
| `Ingest`, `ResetProject`, `Elapse` | requests, the nightly demo reset, time between ticks |
| `StartTick` | the timer; `running` keeps rounds from overlapping |
| `RootProject`, `SkipProject` | the due check and `rootProject`, one transaction |
| `NothingRooted` | `return null`; `maintain` still runs |
| `InsertGlobalRoot` | the sweep for dangling roots and the INSERT |
| `IndexRoot`, `LinkRoot` | per project root: the index row, then the link in the project's file |
| `Publish`, `RecordReceipt`, `CallFails` | `await a.anchor(root)`: the log takes it; the answer arrives and is stored; or an error, which may come after the log took it |
| `MaintainKind`, `StartUpgrades`, `Upgrade`, `EndMaintainKind` | `maintain`, per log |
| `RoundThrows` | a statement outside a `try` throws: the rest of the round is skipped |
| `Restart` | the process dies; the next one logs `platform.start`, an event of the self project |

### Merkle, ExportVerifier, ExportStream

The one composition with real trees. `Merkle` writes the loops of `merkle.ts`
as recursive functions: `Levels` the layers of `buildTree` (an odd last node is promoted),
`Climb` one round of `proofFor`, with the side of each sibling, and `Walk` the loop of
`verifyProof`. `ExportVerifier` is a function of the file and of what its
reader pins and allows. A file is its lines sorted by their type, as `verifyExport` sorts
them before any check: the manifest (the generator's first line), the events, the roots,
and `torn` for what is left of a line the connection cut. Coverage is computed on sets of
positions where the code sweeps over sorted intervals.

`ExportStream` keeps the database as one step per request or tick leaves it (the steps
in between are `AuditChain`'s and `AnchorLoop`'s business) and the response as it is:
`stream` is the generator, `file` what the reader has. Other tenants and projects are
leaves beside this one's, so the paths have a side to be wrong about.

| Action | Code |
|---|---|
| `Ingest`, `Erase`, `ResetProject` | the handlers that change what an export reads |
| `ApplyRetention`, `ShredUnrecorded` | `applyRetention`: with its record, or only the `DELETE`, which commits on its own, when `ingest` refuses or the process dies |
| `Tick`, `TickCutOff` | `tick` up to its first await; one that dies after `rootProject` |
| `RecordReceipt`, `UpgradeReceipt` | `submit` and `maintain` storing a receipt |
| `StartExport` | `ndjsonResponse` draws the manifest: range, widening, previous hash |
| `PullEvent`, `PullRoot`, `EndExport` | the next line; events are read at the second pull, roots after the last event, a root's receipts with its line |
| `LoseConnection` | the stream ends, between two lines or inside one |

`VerifyRange`, `VerifyRoots`, `LastAnchoredPosition` and `EventProofHolds` are the
server's answers in any state. Three histories: `globals[g].covers` names the events
under a global root, `silent` the positions whose payload a retention run deleted without
a record, and `stream.quiet` says that nothing the rest of the export reads has changed.

### OtsTimestamp and OtsAnchor

A message is the run of operations applied to the root, so a merge of two proofs can go
wrong exactly where the code's can: at a node reached twice. It also names its node, so a
timestamp is a function from messages to what hangs off each of them, in the order it was
added: the code's tree without the pointers. A file is a sequence of tokens, written with
fork markers in sorted order and read back with its depth limit and varuints. Where the
code recurses, the model writes a function over the nodes, and keeps the reader's stack
(`open`, the nodes with items to come) as `readTimestamp` keeps it in its calls.

| Action | Code |
|---|---|
| `StartAnchor`, `Submit`, `SubmitFails`, `FinishAnchor` | `anchor`: all calendars at once, each answering, failing, or taking the digest without an answer; `minCalendars`; the merge |
| `StartUpgrade`, `Upgraded`, `NotUpgraded`, `FinishUpgrade` | `upgrade`: whitelisted promises asked at once, merged as they come; the receipt changes only with a Bitcoin attestation |
| `Confirm` | a calendar's block (external) |
| `Crash` | the process dies with the call |

### Rfc6962 and RekorAnchor

`TreeHead` and `InclusionProof` are the recursive definitions of RFC 6962, which the
log follows (external), written as functions of how many leaves a subtree has and where
it starts. `RootFromInclusionProof` is the code's split into an inner and a border part by
the bits of index and size. A shift to the right is repeated halving; the length of an
exclusive or is the least shift that makes the two numbers equal. The leaf and node hashes
are those of `Merkle`: the repository has them twice, with the same prefixes.

| Action | Code |
|---|---|
| `StartAnchor`, `Take` | `anchor`; the log takes the posted entry: v2 every time, v1 once |
| `Answered` | the answer, right or with one of the faults of `Faulty` (of another entry, a proof for another tree or place, a log index that is missing or wrong, an unknown key), made into a receipt and verified offline before it is returned; otherwise the next target |
| `Refused` | a 4xx, or v1's 409, whose document is not an entry |
| `Retry` | 429, 5xx, timeout, no connection: again while attempts are left |
| `OtherEntry` | the log grows (external) |

### Identity

The registry's tables as sets and sequences. A handler's statements commit one by one,
so an action takes the number `ran` of those that did before the process died; the
last value is the handler that returned. What may expire may do so at any moment, and a
client may present again whatever it was ever given.

| Action | Code |
|---|---|
| `RequestMagicLink`, `RedeemMagicLink`, `ExpireLink`, `EndSession` | `auth.ts` |
| `CreateProject` | `POST /api/app/projects` |
| `Authorize` | consent: a member of the project, its role's scopes |
| `RedeemCode`, `ReplayCode`, `ExpireCode` | the authorization-code grant; a used code revokes what it led to |
| `Refresh`, `ReuseOrRevoke`, `ExpireToken` | rotation; reuse of a rotated token or `/oauth/revoke` ends the family |

`interrupted` and `orphans` are histories of what a crash cut short.

### Billing and Service

`Billing` is `applyStripeEvent` over events that arrive in any order and any number of
times, with a crash after each of its four statements (`cut` remembers which events
that hit). `Service` puts the SDK and the server around it: a request is a message that
may arrive late, after its sender has given up. The server looks at the key, the limiter
and the scope, awaits the body (`admitted`), and only then at the plan, the policy and the
batch, so a key revoked meanwhile still writes; `PostEvents` is `ingest` as `AuditChain`
proves it, one step. A batch is a sequence of keys and data and may hold one key twice:
`ingest` answers the second from the first.

| Action | Code |
|---|---|
| `StartCall`, `Resend`, `TakeAnswer`, `TimeOut`, `LoseBody` | `#send` and `#json` of the SDK: attempts, backoff, the timeout of an attempt, which also covers the body |
| `Admit`, `TurnAway` | the checks before the body is read, in their order: key 401, limiter 429, scope 403 |
| `Refuse`, `PostEvents` | `POST /v1/events[/bulk]` after it: plan 429, signature 400, a key with other data 409; then `ingest` |
| `ServerError` | a statement fails, the transaction is rolled back: 500 |
| `GatewayError` | the proxy answers 504 for a server that may still get the request |
| `EndWindow`, `NewMonth`, `RevokeKey`, `SetRequireClientSig` | what may change between two attempts |
| `StripeEvent`, `ApplyStripeEvent` | Stripe (external); `POST /webhooks/stripe` |

### Search

`events` in the order of `rowid`, ids that are not in that order, and one reader:
`Log`, `Start`, `NextPage`. The filter by tenant stands for all filters, which only
choose rows.

## 3. Runs

| Run | Specification and bounds | Shows |
|---|---|---|
| `audit_chain` | `Spec`; 2 tenants (one with keys and policy changes), keys `k1` and `""`, two good bodies and a malformed one, batches of up to 2, 4 rows | all safety properties, the signature policy as an action property, and that the database implements `AppendOnlyLog` |
| `silent_shred` | without crashes; 3 rows | a **violation**, see below |
| `anchor_loop` | `Spec`; self and demo project, 2 logs, 3 events, 1 fault, retry and upgrade limits of 1 | all safety properties of the loop |
| `anchor_loop_fair` | `FairSpec`; 1 log, demo due every second tick, 2 events, 1 fault | both liveness properties |
| `dangling_root` | `FairSpec`; 1 event, 1 fault | a **violation**, see below |
| `export` | one export of the whole chain or of its second event; 3 events, 2 rooting ticks, 1 reset, 1 fault (a tick cut off or a retention run without its record); receipts that start as promises; 193,972 states | what is VALID is published, a short file is refused, an undisturbed export is INVALID for three reasons at most, the server's answers hold |
| `export_race` | the same without cut-off ticks, receipts final at once | a **violation**, see below |
| `ots` | three pools over three calendars, one of them not whitelisted, 2 needed, 2 calls of `anchor`; varuints of up to 3 digits to the base 2, depth 6; 47,659 states | stored proofs are canonical and verify at their level; the promise of a calendar that works is redeemed, if it is asked for |
| `rekor` | 2 calls, 2 posts each to v2 and v1, 1 entry of another per log, a v1 shard that starts at 1; 16,495 states | receipts prove their roots' entries for ever, online as far as their log index is right; inclusion proofs are exact; `anchor` ends |
| `identity` | 1 email, 1 client, 2 links, 2 projects, 2 codes, 6 tokens; forms that ask for more than there is | sign-in, grants and families survive every crash and repetition |
| `service` | `log` of key 1, `logBulk` of key 1 and twice key 2, `log` of key 2 with other data; 2 attempts, 2 requests a window, a limit of 3 or 6 events, 1 new month, 2 Stripe events of 3 kinds; 346,807 states | no event twice, short receipts explained, clean failures, calls that end, a plan that Stripe told of |
| `search_skips` | 3 ids, 2 times, 2 tenants, pages of 1 | a **violation**, see below |

Why the bounds suffice to be interesting. Four rows hold a batch, its retry, an
erasure record and a retention record; two tenants in one batch show a policy of
one refusing the other; the other tenant's request bears the server's own action
`payload.erased`; a batch of two has a first input to roll back when the
second aborts. In the anchor loop two projects are the least with which one can be
rooted when the other throws, or due when the other is not; three events allow a
second batch over the first and a third global root, so that a retry limit of one
really leaves roots waiting; two logs let one succeed where the other fails; one
fault per behaviour can fall at every statement.

Three events give an export a batch, a second batch over it, a range that has to be
widened at its upper end, an odd tree, and a record for what is erased; two ticks a
root that covers a dangling one; one reset a stream whose tenant is gone. The export is
judged in every state up to its end, for readers with and without the network; a second
one would read a database this one has already met. Three calendars let one be down, one
be slow and one be unknown; base 2 reaches the varuints of two and three digits that
heights above 127 have. Two calls of two posts put up to four entries of ours and one
of another in a v2 log, so all trees of up to five leaves occur. Two links and
two codes are what a replay of the first beside the second needs, six tokens a family
rotated twice or two families. Two calls that share a key are the least in which a
resend meets its own event or the other's, and a third one with other data the least for a
conflict; the smaller limit is met by a bulk call that resends.

What bounds more than a number: `UntilTheEnd` (a `CONSTRAINT`) follows no export
beyond its end. `Bounded` in `MCService` allows Stripe's two events together only
before the calls begin; otherwise one disturbance (an event, a month, a revocation, a
policy) beside the log and the bulk call, or none beside the bulk call and the other log. `Confirm` buries no digest of an attempt that was given up.

Properties of `AuditChain`:

- `ChainIntact`: rows, positions, hashes and cached head agree on disk.
- `ReceiptsDurable`: a delivered receipt describes the committed row for ever.
- `OncePerKey`: one event per idempotency key, `""` included.
- `EraseNeverSilent`: a missing payload is named by a later record, except for
  those the retention job took.
- `SignedOnlyHonoured` (action property): no unsigned row is committed to a tenant
  that requires signatures.
- `ImplementsLog`: `AuditChain` refines `AppendOnlyLog`.

Properties of `AnchorLoop`:

- `BatchesPartition`: each rooted event lies in exactly the batch its `root_id`
  names, and unrooted events come last.
- `RootsVerify`: `verifyRoots` accepts every chain whenever a request can run.
- `ReceiptsBacked`: every receipt is backed by its public log; one per root and log.
- `SweepComplete`: a tick that reaches its anchors leaves nothing dangling.
- `LinkedIsIndexed`, `LinkedForGood`: links are listed first and permanent.
- `EventsGetRooted`, `RootsGetAnchored`: liveness.

Properties of `ExportStream`:

- `HonestExportVerifies`: an export during which nothing but events and receipts
  arrived is INVALID for one of three reasons at most. `BatchesLinked` fails: a batch of
  the range is still without its global root (a dangling root is exported with an empty
  `global_root`, which the verifier refuses). `NoSilentLoss` fails: a retention run
  deleted a payload of the range and left no record, as `silent_shred` shows it can.
  `RecordsExported` fails: the record of a loss lies past the end of the range, or a
  retention record's own payload was erased.
- `ValidMeansPublished`: each event of a file called VALID is under a global root that
  a public log has confirmed, whatever ran between the lines.
- `ShortFileRejected`: a file that lost its tail, or its rows to a reset, is INVALID.
- `ServerAnswersHold`: `verifyRange` accepts every range and every event's proof
  leads to its global root, at any moment.
- `VerdictsAgree`: what a reader may call VALID the server calls anchored. The reverse is
  neither claimed nor true: `anchored_through` counts pending receipts, and batches above
  one that has none.

Properties of `OtsAnchor` and `RekorAnchor`:

- `ProofCanonical`: a stored proof does not depend on the order of the answers and
  survives being read and written.
- `ReceiptVerifies`: it verifies at the level its status names, on promises that were
  made and blocks that commit to them.
- `EventuallyFinal`: one calendar is enough. If `maintain` keeps asking for the receipt
  (`AskedAgain`) and a whitelisted calendar confirms and does not fail for ever to answer
  (`Works`), a receipt with a promise of that calendar becomes final, whatever the other
  calendars do.
- `ReceiptsProve`: a receipt of Rekor points at the entry of its own root and verifies
  offline, then and later. Online a v1 receipt verifies exactly if the log had named the
  right log index: `anchor` takes it unchecked (`rekor.ts:83-85`, `:144`) and nothing
  offline reads it. A v2 receipt always does.
- `ProofsAreExact`: the verifier takes a proof for its own place in its own tree only.
- `AnchorReturns`: every call of `anchor` ends.

Properties of `Identity`, `Billing` and `Service`:

- `SignInComplete`: who is signed in owns a project and every project has an owner,
  except where a crash cut the first sign-in or the creation short; a link signs in once.
- `GrantsBacked`: a live token names a member, and writes only for an owner. No code
  removes a membership; the day one does, this is the property that will break.
- `FamiliesRotate`, `DeadFamilyStaysDead`: one family per code, one live pair per
  family, and an ended family stays dead.
- `PlanFollowsStripe`: a paid plan is that of a subscription event handled to its end, and
  its customer is known; and the plan the newest event seen sets, if it was handled to its
  end, is not undone by an older one. The code keeps no more than this. Of two events of
  one second the later to arrive wins. An event whose handling a crash cut short is
  recorded as seen, and its redelivery ignored. And `checkout.session.completed` sets the
  customer but no plan, although `docs/web-api.md:41` lists it among the events that set
  `project.plan`: it raises the mark, and when it is seen first, an older subscription
  event is dropped and the paid plan does not begin. The states are in the `service` run.
- `CallsLogOnce`: no key is stored twice; a call that returns has a receipt for each event,
  stored with its data; and a receipt is short exactly if an earlier attempt, another call
  or an earlier place in the same batch stored the event. A short
  receipt has no `occurred_at`, `payload_commit` or `salt`, so `verifyReceipt` rejects it.
- `FailureIsClean`: a call that failed with an answer to each attempt, none of them a 5xx,
  wrote nothing, and a bulk call writes all or nothing. A 5xx, a timeout or a
  lost body leaves the caller in doubt, which `unsure` records.
- `CallsEnd`: every call ends.

Fairness. `setInterval` calls back for as long as the process lives and Node runs
whatever is ready: weak fairness of `Tick`, `Maintain` and `Submit`. Time passes
between ticks whatever else goes on: strong fairness of `Elapse`, which is only
enabled while the loop is idle. A public log that is asked again and again takes
the root and answers one day: strong fairness of `Publish` and `RecordReceipt` per
log and root; without it nothing can be anchored. Requests, resets and faults are
not fair. `Elapse` saturates ages at the longest interval; beyond it they are
indistinguishable to `Due`.

In `OtsAnchor` the only fairness is that calls return (every request has a timeout). That a
receipt is asked for again is not assumed: `maintain` takes 50 pending receipts in no
order, so more than 50 that never become final can starve the rest. It is a premise of
`EventuallyFinal`, like the calendar's answers. Premises and fairness are spelled out as
formulas because TLC is slow at deciding whether an action that merges trees is enabled. `RekorAnchor` needs only weak fairness of `Retry`, the timeout of a request,
and `Service` only that of the SDK's own steps: neither server nor network promises
anything.

Deadlock is checked where the system goes on for ever or a finished state says so
(`Done`): in `AuditChain` a policy can always be toggled, in `AnchorLoop` a tick can
always start. It is not in `export` (one export), `identity` (links and tokens are
used up), `service` (all calls have ended) and `search_skips` (the reader is done).

### What the four violations show

- `NoSilentShred`. `applyRetention` commits its `DELETE` before `ingest` appends
  the `payload.retention_shred` records. `ingest` refuses the unsigned records of
  the whole project if one tenant has `require_client_sig`; the payloads are gone
  and no chain says so, contrary to the comment on `erase` and `docs/web-api.md`.
  A crash between the two has the same effect, but the run does not need one.
- `DanglingRecovered`. A project root that a throwing tick left without a global
  root is only swept up by a tick that roots something new, since `tick` returns
  early otherwise; the comments promise the next tick.
- `EveryRootRebuilds`. The manifest's range is widened once, the roots are queried
  after the last event. If an event is logged and a tick falls in between, the new
  batch overlaps the range and reaches beyond it; its root is exported, cannot be
  rebuilt, and the file of an honest server is INVALID. The comment says the range is
  widened "so the verifier can rebuild every root it is handed".
- `NothingSkipped`. A cursor continues by `(occurred_at, id)`, pages are ordered by
  `(occurred_at, rowid)`. Of two events of one moment the one with the greater id is
  skipped when it comes second. The notes on testing say that nothing is.

## 4. Proofs

Each theorem holds for any values of its module's constants that meet the assumptions
named there, and rests on nothing else. `ConstantsAssumption` of `AuditChain` says that
the constants are of the right kind and that the "no such thing" values are not things;
its `RequestAssumption` that requests are inputs (their action may be any string, since
`eventSchema` of `app.ts` does not reserve the server's own names). That of `AnchorLoop`
says that projects and tenants are finite sets, that the configured logs are distinct and
that the demo project is not the self project; `BillingAssumption` that no price is named
like the free plan, and `ServiceAssumption` that a batch is a non-empty sequence (of
whatever keys and data, a key more than once included). `ConstantsAssumption` of `ExportStream` says that the logs are Rekor and
OpenTimestamps, and that a request names two positions; that of `RekorAnchor` that a log is
tried at least once. `FormatAssumption` of `OtsTimestamp` says that varuints have a base
above one and at least one digit; `ConstantsAssumption` of `OtsAnchor` that at least one
calendar must accept (`minCalendars`, 1 unless it is given; with 0 and no answer the code
throws at the empty timestamp) and that the reader follows more than four operations (it
follows 255). `Identity` only takes its bounds to be numbers. Bounds have no upper limit.

| Theorem | Establishes |
|---|---|
| `TypeCorrect` (`AuditChainProofs`) | `Spec => []TypeOK` |
| `InvHolds` | `Spec => []Inv`, the inductive invariant |
| `ChainsStayIntact`, `ReceiptsStayTrue`, `KeysStayUnique` | `Spec => []ChainIntact`, `[]ReceiptsDurable`, `[]OncePerKey` |
| `ImplementsAppendOnlyLog` | `Spec => ImplementsLog` |
| `OnlySignedRows` | `Spec => SignedOnlyHonoured` |
| `ErasuresRecorded` | `Spec => []EraseNeverSilent` |
| `LoopInvariant`, `TypeCorrect` (`AnchorLoopProofs`) | `Spec => []LoopInv`, `[]TypeOK` |
| `BatchesPartitionChains`, `RootsAlwaysVerify` | `Spec => []BatchesPartition`, `[]RootsVerify` |
| `SweepIsComplete`, `ReceiptsAreBacked` | `Spec => []SweepComplete`, `[]ReceiptsBacked` |
| `LinkedAreIndexed`, `LinkedStays` | `Spec => []LinkedIsIndexed`, `LinkedForGood` |
| `IdentityInvariant`, `TypeCorrect` (`IdentityProofs`) | `Spec => []IdentityInv`, `[]TypeOK` |
| `SignInIsComplete`, `GrantsAreBacked` | `Spec => []SignInComplete`, `[]GrantsBacked` |
| `FamiliesDoRotate`, `DeadFamiliesStayDead` | `Spec => []FamiliesRotate`, `DeadFamilyStaysDead` |
| `ServiceInvariant`, `TypeCorrect` (`ServiceProofs`) | `Spec => []ServiceInv`, `[]TypeOK` |
| `CallsDoLogOnce`, `FailuresAreClean` | `Spec => []CallsLogOnce`, `[]FailureIsClean` |
| `PlanAlwaysFollows` | `Spec => []PlanFollowsStripe` |
| `ExportInvariant`, `TypeCorrect` (`ExportStreamProofs`) | `Spec => []ExportInv`, `[]TypeOK` |
| `ValidIsAlwaysPublished`, `ShortIsAlwaysRejected` | `Spec => []ValidMeansPublished`, `[]ShortFileRejected` |
| `VerdictsAlwaysAgree` | `Spec => []VerdictsAgree` |
| `PathsLeadToRoot` (`MerkleProofs`) | `VerifyProof` accepts what `ProofFor` draws for any leaf of any tree |
| `ProofInvariant`, `AnswersAlwaysHold` | `Spec => []ProofInv`, `[]ServerAnswersHold` |
| `HonestInvariant`, `HonestAlwaysVerify` | `Spec => []HonestInv`, `[]HonestExportVerifies` |
| `InclusionIsExact` (`RekorAnchorProofs`) | of any leaf, index and hashes, `RootFromInclusionProof` computes the log's head exactly from an entry's leaf and its own inclusion proof |
| `TreesAreRfc6962`, `PathsAreRfc6962` | `TreeRoot` is RFC 6962's tree head, the hashes `ProofFor` draws its inclusion proof, for any tree |
| `TypeCorrect` (`RekorAnchorProofs`) | `Spec => []TypeOK` |
| `ReceiptsAlwaysProve`, `ProofsAlwaysExact` | `Spec => []ReceiptsProve`, `[]ProofsAreExact` |
| `FilesReadBack` (`OtsAnchorProofs`) | `Parse` reads the file of any tree back as that tree in order, whose file is the same |
| `OtsInvariant`, `TypeCorrectOts` | `Spec => []OtsInv`, `[]TypeOK` |
| `ProofsAlwaysCanonical`, `ReceiptsAlwaysVerify` | `Spec => []ProofCanonical`, `[]ReceiptVerifies` |

**`Inv`.** What the runs check of `disk` is not inductive: `Commit` makes `disk`
whatever `work` was. So `Inv` says of both databases that they are well chained
(positions, hashes, and the cached head, which `NewRow` trusts) and their keys
unique; that `work` only grew from `disk` (without it a commit could contradict a
receipt that is already out); that outside a transaction they are equal (without it
`Crash` could lose rows and an autocommitted statement could smuggle rows in); and
that the receipts still to be sent match rows of `work`, those delivered rows of
`disk`. The receipts of a batch move from one to the other in `Commit`, where
`work` becomes `disk`. The lemmas about operators come first: what `Inserted`
leaves alone, what it appends, and that a history is a prefix of the longer one.

**Refinement.** `OnlyCommitAppends`: every step but `Commit` leaves the committed
rows alone. `Commit` extends each log (`Grown`, from `Inv`), so it is the abstract
`Commit` or a stutter; `Reply` hands out receipts that `Matches` a committed row, so it
is the abstract `Acknowledge`; the rest are stutters.

**`SignedInv`** closes the distance between `checkClientSigs`, which runs before
`BEGIN`, and the inserts: the policy has not changed since, each input still to be
inserted was accepted under it, and the rows not yet committed obey it.

**`EraseInv`** says that ids are fresh and drawn once, and that a payload missing from
`work` was taken by the retention job, is named by a later `payload.erased` row, or is the
very payload that the open savepoint is erasing, in which case the record is the
one input left in `todo`; a commit needs `todo` empty. It names the record by
its header alone. `erasureRecorded` also accepts a `payload.retention_shred` record,
which lists the ids in its payload; but that payload can be erased in turn, so
being recorded in that sense is not stable and cannot be part of an invariant.

**`LoopInv`.** A tick writes several files one statement at a time and awaits public logs
in between, so what the runs check is true for reasons that span statements. `LoopInv`
names them. `ChainsRooted`: every rooted event of a chain lies in a batch, the unrooted
ones come last, each batch lies inside the chain and all its events carry its project
root, and no two batches of a chain share one; so the rows from the first unrooted one to
the end are a batch no other overlaps. `BatchesHang`: every batch hangs under a project root that exists, and ids are
drawn once (`IdsDrawn`), so a later root cannot take an old one's place. `LinksHold`: a
link names a global root that exists, whose leaves contain the project root, and stands
in the index. `TickLinks` is the part over the program counter: while linking, what is
still to be linked is exactly what dangles, so that nothing dangles when the loop gets to
its anchors. `CallsMissing`: a call to a log is only made for a receipt that is missing,
and no two calls of a round are for the same log. `RootsVerify` excludes the states in the middle
of a tick, in which no request can run; the proof does not need the exclusion.

**`IdentityInv`.** `GrantsBacked` speaks of live tokens, but a token is made from a code
or from another token, whether live or not: `AllBacked` says of all codes and tokens that
a membership backs them. Families are numbered as they start (`FamiliesNumbered`), so a new
family meets no old token; an open code has no token yet and all tokens of a code are of
one family (`CodesSpent`). A user in `users` owns a project or was cut short, whether
signed in or not. A family that died stays dead because only a live refresh token is
rotated, and a replayed code only revokes.

**`ServiceInv`.** What a request may still do after its sender gave up is what has to be
known. `Attempts`: a request or an event is of an attempt that was made, and a request on
its way, admitted or not, has stored nothing. So if `PostEvents` finds a key stored before
its batch, then an earlier attempt stored it, or another call; and if it finds it inside
the batch, the two have the same data, for otherwise it would have been refused (409).
`Clean`: as long as each attempt was answered, and not by a 5xx, a call that was refused
has no request left and nothing written, and one whose answer is outstanding has at most
the request of this attempt left. It is `~unsure` that makes this inductive: after one
timeout a request may be anywhere. `Answers` ties the receipts of a good answer to the
events while the answer waits, `BatchWhole` that events come with the rest of their batch.

**`BillingInv`**: the mark is at least the `created` of each event that was applied to its
end. An event that is not older than the mark is then at least as new as these, and an
event that is newest was fresh when it arrived. `PaidFor`: whoever set the plan has noted
the customer before, for these are statements of one handler in this order.

**`ExportInv`.** A response is made of rows read at three moments: the manifest at once, the
events at the second pull, the roots after the last event, and between any two lines the
database may be extended, erased or emptied. So the invariant speaks of the lines and of
the rows still held, and ties them to the registry, which forgets nothing.
`LinkedCover`: the events of a linked batch are among those its global root `covers`.
`RowsOfChain`: while the tenant lives, what was read of its chain is still what the chain
says. `EventsFirst` and `RootsCoverFile`: when the batches are read all events are out, so
a batch the response holds is about the events it has sent, and stays so after a reset.
`LinesBacked`: of a root line that shows receipts, the registry has a root that covers the
line's events and holds each receipt shown, or that receipt made final. With `RekorFinal`
(only a timestamp can be a promise) this gives `ValidMeansPublished`, since what the
verifier counts is never a promise. `BatchesStay` gives `VerdictsAgree` for a tenant that is
still there. Of `checkChain` `ShortFileRejected` needs both ends and that positions have no
gap. Trees and hashes stay opaque in all of `ExportInv`: for these
properties a root that cannot be rebuilt is only ever a root that does not count.

**Trees.** `PathsLeadToRoot` speaks of every non-empty sequence of hashes and every leaf of
it. The library's induction theorems take an operator as a parameter and cannot be
instantiated, so the proof is by the least counterexample (`LeastNumber`, `UpTo`): the
levels of a tree are what `NextLevel` makes of the level below, down to a level of one
(`LevelsAreATree`); a path of `n` rounds leads from leaf `i` to node `i \div 2^n` of level
`n`, where a round without a sibling is the odd node that was promoted (`ClimbOn`,
`WalkOn`). By the same argument each root is the hash of something (`RootIsHash`), which is
never the empty string the verifier's truthiness tests would take for "no root".

**`ProofInv`** adds to `ExportInv` what the paths and hashes in the database are.
`ChainLinked`: each row's hash is that of its header, over its predecessor's.
`BatchesBuilt`: a batch's root is that of its events, its first path leads to its project
root (`IsBuilt`) and, once it is linked, its second one to the global root it names
(`IsLinked`). `BatchesCover`: there is a batch for every event up to the last root. Erasures
touch none of this, and a tick preserves it because the paths it stores are those of the
trees it has just built (`PathsLeadToRoot`). With a third path, drawn on request from the
event to its batch, the three legs of `proofForEvent` lead to the global root:
`ServerAnswersHold`.

**`HonestInv`.** That an undisturbed export is never INVALID rests on every check of
`verifyExport` passing at once, so here the invariant says what an honest file is, line by
line, while it is being sent. `BatchesOrdered`: batches follow one another, so the widening
of the manifest's range stops at the border of a batch and cannot cut another one.
`LossesExplained`: a payload that is gone, unless a retention run left no record of it
(`silent`), is explained by a later record; a retention
record explains by the list in its payload, so either that is still there or another record
names the one that lost it. `HonestStream` speaks of a stream that is still `quiet`: the
manifest says what was asked and what precedes the range (`ManifestSays`); the range ends
within the chain and no batch reaches over its borders (`RangeIsWhole`); the lines sent and
those held are, in this order, the rows of the range with the payloads that are left
(`LinesSay`); and the root lines sent and held are batches inside the range (`RootsSay`).
New events and receipts do not disturb this: they come after the range, and a receipt
only grows more final. A tick, a reset or an erasure may, so each of them ends `quiet`; the
run `export_race` shows that a tick really does. The proof that the finished file
verifies then takes the checks one by one: chain, payloads, roots (rebuilt from the lines,
by `BatchesBuilt`), coverage and anchors.

**RFC 6962.** `rfc6962.ts` and `merkle.ts` both claim trees that RFC 6962 defines by
splitting at the largest power of two, and neither computes them that way: the verifier
reads the bits of index and size, `buildTree` pairs neighbours level by level and promotes
an odd last node. Both are related to the definition by one picture. At level `t` the
leaves lie in blocks of `2^t`, the last one shorter; the block of leaf `x` starts at
`Base(x, t)` and has `BlockSize` leaves. `BlockStep`: going up a level, either the block
has nothing behind it and stays as it is, or it is split in the middle, exactly where
`Split` splits it. `Climbed` is the verifier's loop at that level: what it has rehashed is
the head of the block, from as many hashes as bits of the index say; at the top this gives
the count the code demands and the head of the tree. That nothing else is accepted follows
backwards: hashes are injective, so hashes of the right number that give the right head are
the proof itself, and the leaf is the entry's. `Layered` says that level `t` of
`buildTree` holds the heads of the blocks, and `Drawn` that `proofFor` has drawn the
block's part of the proof. The repository tests its trees against a reference up to 64
leaves (`docs/qa/code-review-core.md:44`), and the small instance reaches five;
the theorems have no limit, and no induction theorem either: each goes by the least
counterexample.

**`RekorInv`.** `ReceiptsProve` speaks of receipts that were returned; what it
needs beyond them is how often a log can hold an entry of ours. A call that has not begun
has posted nothing (`Begun`, `Unposted`); v1 holds at most one entry of a call (`Once`); v2
at most as many as there were attempts (`Attempts`, `Posted`), where an attempt that is
still `posting` has not been taken; and one that is `taken` has its entry in the log
(`Took`), which is where the index of a right answer comes from. A receipt stays good
because logs only grow and keep what is below a checkpoint's size. That a document which
verifies is the entry's is `InclusionIsExact`, and so is `ProofsAlwaysExact`, which holds of
every log whatever was posted to it.

**Files.** `FilesReadBack` speaks of every tree (`IsTimestamp`): nodes of items that can be
read, each reached from the root by operations of the nodes above it, fewer than the reader
follows, and none of them empty (`IsFull`). `SortedIs`: the items of a node can be listed in
order in exactly one way, because `compareAttestations` and `compareOps` tell any two
apart. `VaruintReadsBack`: a number is what its digits say, whatever the base. The rest is
about one node at a time. The tokens of an item, with or without a fork marker, are read as
that item (`ReadWritten`). If the files of the nodes below a node are read back, so is its
own (`ReadNode`): with `i` items of it read (`Partly`), its node is on top of the reader's
stack, and the item that has no marker takes it off. `NodesRead` goes from the deepest nodes
up, by the least counterexample on how far a node is from the limit. So the reader does with
a stack and markers what the writer did with sorted lists, and `Sorted` of what is sorted
changes nothing, which makes the file canonical.

**`OtsInv`.** A receipt is judged by its file, and a file is written at the end of a call that
merged answers as they came; so the invariant speaks of trees, in calls and in files alike.
`Stands`: every promise in a tree was made by a calendar that holds the digest, and hangs
off the commitment to it or off the one operation a newer promise takes; every attestation
hangs off the Merkle root of its block. `Fresh` is the stronger form of a tree nothing was
redeemed of, the one a pending receipt has; `upgrade` needs it, since a promise it asks
about must be one of a digest (`IsAsked`), so that nothing it merges reaches deeper than the
reader follows. What `anchor` has collected is such a tree from the first answer on
(`IsCollected`), where only the tip may have nothing below it: that is why at least one
calendar must have accepted. `IsReceipt`: the file is that of a tree in order, with a promise,
and with an attestation if the receipt is final. `GrownTree` is the step all merges share: one more
operation off a node, one more attestation below it or none, and the tree is still one, with all it had.
With `FilesReadBack` a written tree is a receipt (`Receipted`), and `verify` says of
a receipt what its status says (`VerdictIs`).

Each of these invariants held of every state of its small instance before it was proved.

Only model-checked: liveness (`EventsGetRooted`, `RootsGetAnchored`, `EventuallyFinal`,
`AnchorReturns`, `CallsEnd`). Liveness under fairness and anything with ENABLED are out of
the prover's reach, and so is induction by the library's theorems, which take an operator as
a parameter. Recursive *functions* are within reach, by the least counterexample, as
`MerkleProofs`, `RekorAnchorProofs` and `OtsAnchorProofs` show; no module uses a RECURSIVE
operator.

## 5. What is not modelled, and the plan

Not modelled on purpose: formatting, HTTP, schemas, the web site (with its mock server),
canonical JSON and cryptography (taken as ideal), SQLite itself beyond transactions,
autocommit and UNIQUE.

Left out, with the reason:

- The backup copies the registry and the projects one after the other. The code says
  nothing of what the copies are worth together, and restores them nowhere.
- The clock behind the order of global roots (`created_at`). Global roots are numbered
  by insertion; nothing in the code reads their chain back, so only an outside observer
  could tell.
- Viewer tokens, client registration, PKCE and redirect URIs: single statements, and
  checks whose failure changes nothing.
- The remaining filters of a search, the SDK's other calls (the same sending routine
  around a read or an erase), the recomputation in `verifyReceipt`, and the Python SDK,
  which is built like the other.
- Client signatures in the offline verifier: reported, but not among the checks that
  decide its verdict.
- The self-audit log beyond the events the loop sees: it is best effort, and its
  failures are swallowed by design.

Not proved: liveness, which stays with TLC.
