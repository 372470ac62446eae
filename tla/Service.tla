--------------------------------- MODULE Service ---------------------------------
(***************************************************************************)
(* A caller's log() and logBulk() from end to end: the SDK's attempts,     *)
(* timeouts and retries (packages/sdk/src/index.ts), the checks a request  *)
(* passes on the server, in their order (app.ts, keys.ts, auth.ts), and    *)
(* the events it leaves there.  How many a month may have depends on the   *)
(* plan that Billing sets.                                                 *)
(*                                                                         *)
(* A request that was sent arrives late, or never.  The server lets it in, *)
(* then waits for its body, and does not look at the key again.  An answer *)
(* reaches the caller unless the attempt has timed out before; the reverse *)
(* proxy may answer in the server's place, while the request is still on   *)
(* its way.  Bodies are under the size limit and fit the schema: any other *)
(* body is refused (413, 400) whatever the state.                          *)
(***************************************************************************)
EXTENDS Billing, FiniteSets, Functions

CONSTANTS
  Calls,        \* calls of the SDK
  KeyScopes,    \* the sets of scopes an API key may have
  Batch,        \* a call's events: [key: its idempotency key, data: the rest]
  MaxAttempts,  \* attempts per call
  MaxHits,      \* requests per key and window
  Limit,        \* events per month, by plan
  MaxMonths     \* bound: months that begin

ASSUME ServiceAssumption ==
  /\ MaxAttempts \in Nat \ {0} /\ MaxHits \in Nat /\ MaxMonths \in Nat
  /\ \A c \in Calls : Batch[c] \in Seq(Range(Batch[c])) /\ Batch[c] # <<>>

VARIABLES
  calls,     \* the SDK's side of each call
  requests,  \* requests on their way: [call, attempt]
  admitted,  \* those of them that the server has let in
  stored,    \* the project's events: set of [key, data, call, attempt]
  month,     \* [count: months begun, start: events received before this one]
  apiKey,    \* the caller's key: [live, scopes]
  hits,      \* requests counted in the key's window
  required   \* require_client_sig of the tenant; the caller does not sign

service == <<calls, requests, admitted, stored, month, apiKey, hits, required>>
vars == <<billing, service>>

NoAnswer == [status |-> 0, receipts |-> <<>>]
NewCall == [phase |-> "new", attempt |-> 0, answer |-> NoAnswer, unsure |-> FALSE]

Init ==
  /\ BillingInit
  /\ calls = [c \in Calls |-> NewCall]
  /\ requests = {} /\ admitted = {} /\ stored = {} /\ month = [count |-> 0, start |-> 0]
  /\ apiKey \in [live : {TRUE}, scopes : KeyScopes]
  /\ hits = 0 /\ required = FALSE

-------------------------------------------------------------------------------
(* The SDK.                                                                *)

Send(c, attempt) ==
  /\ requests' = requests \cup {[call |-> c, attempt |-> attempt]}
  /\ calls' = [calls EXCEPT ![c] = [phase |-> "waiting", attempt |-> attempt,
                                    answer |-> NoAnswer, unsure |-> calls[c].unsure]]
  /\ UNCHANGED <<billing, admitted, stored, month, apiKey, hits, required>>

StartCall(c) == calls[c].phase = "new" /\ Send(c, 1)
Resend(c) == calls[c].phase = "backoff" /\ Send(c, calls[c].attempt + 1)

IsOk(status) == status \in 200..299

(* Mutant: what is worth a retry is retried for ever. *)
AfterFailureForEver(c, status) ==
  IF status = 429 \/ status >= 500 \/ status = 0 THEN "backoff" ELSE "failed"

(* A timeout or network error has status 0. *)
AfterFailure(c, status) ==
  IF status \in {0, 429} \cup 500..599 /\ calls[c].attempt < MaxAttempts
    THEN "backoff" ELSE "failed"

TakeAnswer(c) ==
  LET status == calls[c].answer.status
  IN /\ calls[c].phase = "waiting" /\ status # 0
     /\ calls' = [calls EXCEPT ![c] =
          [phase |-> IF IsOk(status) THEN "returned" ELSE AfterFailure(c, status),
           attempt |-> calls[c].attempt, answer |-> calls[c].answer,
           unsure |-> calls[c].unsure \/ status \in 500..599]]
     /\ UNCHANGED <<billing, requests, admitted, stored, month, apiKey, hits, required>>

Lose(c, phase) ==
  /\ calls' = [calls EXCEPT ![c] = [phase |-> phase, attempt |-> calls[c].attempt,
                                    answer |-> NoAnswer, unsure |-> TRUE]]
  /\ UNCHANGED <<billing, requests, admitted, stored, month, apiKey, hits, required>>

(* The timeout also covers the reading of a good answer's body, which      *)
(* comes after the retries: the call fails at once.                        *)
LoseBody(c) ==
  /\ calls[c].phase = "waiting" /\ IsOk(calls[c].answer.status)
  /\ Lose(c, "failed")

(* Mutant: an attempt has no timeout of its own. *)
TimeOutNever(c) ==
  /\ calls[c].phase = "waiting" /\ calls[c].answer.status = 504
  /\ Lose(c, AfterFailure(c, 0))

TimeOut(c) == calls[c].phase = "waiting" /\ Lose(c, AfterFailure(c, 0))

-------------------------------------------------------------------------------
(* The server.                                                             *)

Usage == Cardinality(stored) - month.start
HasScope(scope) == apiKey.scopes \cap {"admin", scope} # {}

(* What may refuse a request before its body is awaited, in the order of   *)
(* the checks: the key, the limiter, the scope.                            *)
EntryChecks ==
  <<[fails |-> ~apiKey.live, status |-> 401],
    [fails |-> hits >= MaxHits, status |-> 429],
    [fails |-> ~HasScope("write"), status |-> 403]>>

Stored(key) == {e \in stored : e.key = key}
RepeatsKey(c, i) == \E j \in 1..(i - 1) : Batch[c][j].key = Batch[c][i].key

(* A key comes with other data than it was stored with, or than before in  *)
(* the batch.                                                              *)
Conflicts(c) ==
  \E i \in DOMAIN Batch[c] :
    \/ \E e \in Stored(Batch[c][i].key) : e.data # Batch[c][i].data
    \/ \E j \in DOMAIN Batch[c] :
         Batch[c][j].key = Batch[c][i].key /\ Batch[c][j].data # Batch[c][i].data

(* And what may refuse it after: the plan, the tenant's policy, a conflict. *)
EventChecks(c) ==
  <<[fails |-> Usage + Len(Batch[c]) > Limit[plan], status |-> 429],
    [fails |-> required, status |-> 400],
    [fails |-> Conflicts(c), status |-> 409]>>

(* The n-th check is the first that fails. *)
Refuses(checks, n) == checks[n].fails /\ \A m \in 1..(n - 1) : ~checks[m].fails
Passes(checks) == \A n \in 1..3 : ~checks[n].fails

(* ingest looks each event up when those before it in the batch are in.    *)
Receipt(c, i) ==
  [key |-> Batch[c][i].key, duplicate |-> Stored(Batch[c][i].key) # {} \/ RepeatsKey(c, i)]

NewEvent(r, event) ==
  [key |-> event.key, data |-> event.data, call |-> r.call, attempt |-> r.attempt]

(* Mutant: a replay is appended like any other event. *)
NewEventsAnyKey(r) == {NewEvent(r, event) : event \in Range(Batch[r.call])}

(* ingest: a key the tenant has is answered with a short receipt, the      *)
(* others are appended, in one transaction.                                *)
NewEvents(r) ==
  {NewEvent(r, event) : event \in {e \in Range(Batch[r.call]) : Stored(e.key) = {}}}

(* A replay by log() is answered 200, a new event and every bulk call 201. *)
Status(c) == IF Len(Batch[c]) = 1 /\ Receipt(c, 1).duplicate THEN 200 ELSE 201

IsAwaited(r) ==
  /\ calls[r.call].phase = "waiting" /\ calls[r.call].attempt = r.attempt
  /\ calls[r.call].answer = NoAnswer

(* An answer to an attempt that has timed out, or that the proxy has       *)
(* answered, reaches nobody.                                               *)
Answer(r, status, receipts) ==
  calls' = IF IsAwaited(r)
             THEN [calls EXCEPT ![r.call].answer = [status |-> status, receipts |-> receipts]]
             ELSE calls

(* The key, the limiter and the scope admit the request; the handler waits *)
(* for its body.                                                           *)
Admit(r) ==
  /\ r \notin admitted /\ Passes(EntryChecks)
  /\ admitted' = admitted \cup {r} /\ hits' = hits + 1
  /\ UNCHANGED <<billing, calls, requests, stored, month, apiKey, required>>

(* Or they do not; the limiter counts what it lets through. *)
TurnAway(r, n) ==
  /\ r \notin admitted /\ Refuses(EntryChecks, n)
  /\ requests' = requests \ {r}
  /\ hits' = IF n = 3 THEN hits + 1 ELSE hits
  /\ Answer(r, EntryChecks[n].status, <<>>)
  /\ UNCHANGED <<billing, admitted, stored, month, apiKey, required>>

(* Mutant: the events are appended before the checks have all passed. *)
RefuseLate(r, n) ==
  /\ r \in admitted /\ Refuses(EventChecks(r.call), n)
  /\ requests' = requests \ {r} /\ admitted' = admitted \ {r}
  /\ stored' = IF n = 1 THEN stored \cup NewEvents(r) ELSE stored
  /\ Answer(r, EventChecks(r.call)[n].status, <<>>)
  /\ UNCHANGED <<billing, month, apiKey, hits, required>>

Refuse(r, n) ==
  /\ r \in admitted /\ Refuses(EventChecks(r.call), n)
  /\ requests' = requests \ {r} /\ admitted' = admitted \ {r}
  /\ Answer(r, EventChecks(r.call)[n].status, <<>>)
  /\ UNCHANGED <<billing, stored, month, apiKey, hits, required>>

PostEvents(r) ==
  /\ r \in admitted /\ Passes(EventChecks(r.call))
  /\ requests' = requests \ {r} /\ admitted' = admitted \ {r}
  /\ stored' = stored \cup NewEvents(r)
  /\ Answer(r, Status(r.call), [i \in DOMAIN Batch[r.call] |-> Receipt(r.call, i)])
  /\ UNCHANGED <<billing, month, apiKey, hits, required>>

(* A statement fails: the transaction is rolled back. *)
ServerError(r) ==
  /\ r \in admitted
  /\ requests' = requests \ {r} /\ admitted' = admitted \ {r}
  /\ Answer(r, 500, <<>>)
  /\ UNCHANGED <<billing, stored, month, apiKey, hits, required>>

(* The proxy gives up on the server, which may still get the request. *)
GatewayError(r) ==
  /\ IsAwaited(r)
  /\ Answer(r, 504, <<>>)
  /\ UNCHANGED <<billing, requests, admitted, stored, month, apiKey, hits, required>>

(* The window ends, or the limiter's map is emptied, or the server restarts. *)
EndWindow ==
  /\ hits > 0 /\ hits' = 0
  /\ UNCHANGED <<billing, calls, requests, admitted, stored, month, apiKey, required>>

NewMonth ==
  /\ month.count < MaxMonths
  /\ month' = [count |-> month.count + 1, start |-> Cardinality(stored)]
  /\ UNCHANGED <<billing, calls, requests, admitted, stored, apiKey, hits, required>>

RevokeKey ==
  /\ apiKey.live /\ apiKey' = [apiKey EXCEPT !.live = FALSE]
  /\ UNCHANGED <<billing, calls, requests, admitted, stored, month, hits, required>>

SetRequireClientSig ==
  /\ ~required /\ required' = TRUE
  /\ UNCHANGED <<billing, calls, requests, admitted, stored, month, apiKey, hits>>

-------------------------------------------------------------------------------
Client(c) == Resend(c) \/ TakeAnswer(c) \/ TimeOut(c)

Next ==
  \/ \E c \in Calls : StartCall(c) \/ Resend(c) \/ TakeAnswer(c) \/ LoseBody(c) \/ TimeOut(c)
  \/ \E r \in requests :
       \/ Admit(r) \/ PostEvents(r) \/ ServerError(r) \/ GatewayError(r)
       \/ \E n \in 1..3 : TurnAway(r, n) \/ Refuse(r, n)
  \/ EndWindow \/ NewMonth \/ RevokeKey \/ SetRequireClientSig
  \/ BillingNext /\ UNCHANGED service

(* Only the SDK's own steps are fair: its timers fire and its promises      *)
(* settle.  The server and the network promise nothing.                    *)
Spec == Init /\ [][Next]_vars /\ \A c \in Calls : WF_vars(Client(c))

-------------------------------------------------------------------------------
(* Properties.                                                             *)

KeysOf(c) == {event.key : event \in Range(Batch[c])}
Keys == UNION {KeysOf(c) : c \in Calls}
AnswerRecord == [status : {0, 200, 201, 400, 401, 403, 409, 429, 500, 504},
                 receipts : Seq([key : Keys, duplicate : BOOLEAN])]
CallRecord == [phase : {"new", "waiting", "backoff", "returned", "failed"},
               attempt : 0..MaxAttempts, answer : AnswerRecord, unsure : BOOLEAN]

(* The type of every variable. *)
TypeOK ==
  /\ BillingTypeOK
  /\ calls \in [Calls -> CallRecord]
  /\ requests \subseteq [call : Calls, attempt : 1..MaxAttempts]
  /\ admitted \subseteq requests
  /\ \A e \in stored :
       /\ e.call \in Calls /\ e.attempt \in 1..MaxAttempts
       /\ \E event \in Range(Batch[e.call]) : e.key = event.key /\ e.data = event.data
  /\ month \in [count : 0..MaxMonths, start : 0..Cardinality(stored)]
  /\ apiKey \in [live : BOOLEAN, scopes : KeyScopes]
  /\ hits \in 0..MaxHits /\ required \in BOOLEAN

SharesKey(c, key) == \E d \in Calls \ {c} : key \in KeysOf(d)
WrittenBy(c) == {e.key : e \in {f \in stored : f.call = c}}

(* However often the SDK resends and however late a request arrives, no    *)
(* key is stored twice, and a call that returns holds a receipt for each   *)
(* of its events, in order, that is there with the data the call gave.     *)
(* The receipt is of the short kind, which verifyReceipt rejects, exactly  *)
(* when an earlier attempt or another call stored the event or the key is  *)
(* a second time in the batch (sdk log: "retries never double-log";        *)
(* events.ts ingest).                                                      *)
CallsLogOnce ==
  /\ \A e, f \in stored : e.key = f.key => e = f
  /\ \A c \in Calls : calls[c].phase = "returned" =>
       LET receipts == calls[c].answer.receipts
       IN /\ DOMAIN receipts = DOMAIN Batch[c]
          /\ \A i \in DOMAIN receipts : \E e \in stored :
               /\ e.key = receipts[i].key
               /\ e.key = Batch[c][i].key /\ e.data = Batch[c][i].data
               /\ receipts[i].duplicate <=>
                    e.call # c \/ e.attempt < calls[c].attempt \/ RepeatsKey(c, i)

(* A call that failed with an answer to each of its attempts, none of them *)
(* a 5xx, which may be the proxy's, wrote nothing, and a bulk call never   *)
(* writes a part of its events: the checks come before the first insert    *)
(* and the batch is one transaction (app.ts, events.ts ingest; sdk #send). *)
FailureIsClean ==
  \A c \in Calls :
    /\ calls[c].phase = "failed" /\ ~calls[c].unsure => WrittenBy(c) = {}
    /\ \/ WrittenBy(c) = {}
       \/ \A key \in KeysOf(c) : key \in WrittenBy(c) \/ SharesKey(c, key)

(* Every call ends, with its receipts or with an error, whatever the       *)
(* server and the network do (sdk #send: attempts, AbortSignal.timeout).   *)
CallsEnd ==
  \A c \in Calls : calls[c].phase = "waiting" ~> calls[c].phase \in {"returned", "failed"}
=================================================================================
