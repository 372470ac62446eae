---------------------------- MODULE AppendOnlyLog -----------------------------
(***************************************************************************)
(* What one project's database promises its clients, with no SQLite, no    *)
(* transactions, no retries and no crashes: per tenant, a log that only    *)
(* grows at its end, and receipts that are true for ever.                  *)
(*                                                                         *)
(* A receipt names a tenant and a history, the run of headers its          *)
(* event_hash commits to.  AuditChain implements this specification under  *)
(* the mapping log <- the headers of the committed rows, receipts <- the   *)
(* receipts that reached a caller.                                         *)
(***************************************************************************)
EXTENDS Naturals, Sequences, SequencesExt

CONSTANTS
  Tenant,  \* external tenant ids
  Header   \* event headers

VARIABLES
  log,      \* [Tenant -> Seq(Header)], what is committed
  receipts  \* set of [tenant, history] that callers hold

vars == <<log, receipts>>

TypeOK ==
  /\ log \in [Tenant -> Seq(Header)]
  /\ receipts \subseteq [tenant: Tenant, history: Seq(Header)]

Init ==
  /\ log = [t \in Tenant |-> <<>>]
  /\ receipts = {}

(* One transaction: any number of tenants' logs grow at their ends. *)
Commit ==
  /\ DOMAIN log' = Tenant
  /\ \A t \in Tenant : IsPrefix(log[t], log'[t])
  /\ UNCHANGED receipts

(* A receipt is handed out only for a history the log already has. *)
Acknowledge ==
  /\ receipts \subseteq receipts'
  /\ \A r \in receipts' \ receipts :
       r.history # <<>> /\ IsPrefix(r.history, log[r.tenant])
  /\ UNCHANGED log

Next == Commit \/ Acknowledge

Spec == Init /\ [][Next]_vars
===============================================================================
