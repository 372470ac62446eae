------------------------------ MODULE ServiceProofs ------------------------------
(***************************************************************************)
(* Theorems about Service and the Billing it extends, for any calls,       *)
(* batches, keys, prices, limits and bounds.                               *)
(***************************************************************************)
EXTENDS Service, SequenceTheorems, FiniteSetTheorems, TLAPS

-------------------------------------------------------------------------------
(* Billing.                                                                *)

(* An event applied to its end is not newer than the mark: an event that   *)
(* is fresh by the mark is at least as new as all of them.                 *)
NewestDecides ==
  \A i \in seen \ cut :
    PlanSet(sent[i].kind) # {} /\ (\A j \in seen \ {i} : sent[j].created < sent[i].created)
      => plan \in PlanSet(sent[i].kind)
PaidFor ==
  plan # "free" => customer /\ \E i \in seen \ cut : plan \in PlanSet(sent[i].kind)

BillingInv ==
  /\ BillingTypeOK
  /\ \A i \in seen \ cut : sent[i].created <= mark
  /\ NewestDecides /\ PaidFor

LEMMA BillingInitInv == BillingInit => BillingInv
<1> SUFFICES ASSUME BillingInit
             PROVE  BillingInv
  OBVIOUS
<1>1. /\ sent = <<>> /\ seen = {} /\ cut = {} /\ mark = 0
      /\ customer = FALSE /\ plan = "free"
  BY DEF BillingInit
<1>2. sent \in Seq([kind : Kinds, created : Nat \ {0}])
  BY <1>1
<1>3. BillingTypeOK
  BY <1>1, <1>2 DEF BillingTypeOK
<1>4. NewestDecides /\ PaidFor /\ \A i \in seen \ cut : sent[i].created <= mark
  BY <1>1 DEF NewestDecides, PaidFor
<1> QED
  BY <1>3, <1>4 DEF BillingInv

LEMMA StripeEventInv ==
  ASSUME BillingInv, NEW kind \in Kinds, NEW later \in 0..1, StripeEvent(kind, later)
  PROVE  BillingInv'
<1> DEFINE Event == [kind : Kinds, created : Nat \ {0}]
           new == [kind |-> kind, created |-> Now + later]
<1>1. /\ sent' = Append(sent, new) /\ UNCHANGED <<seen, mark, customer, plan, cut>>
      /\ sent \in Seq(Event)
  BY DEF StripeEvent, BillingInv, BillingTypeOK
<1>2. Now \in Nat \ {0}
  <2>1. CASE sent = <<>>
    BY <2>1 DEF Now
  <2>2. CASE sent # <<>>
    <3>0. Len(sent) \in DOMAIN sent
      <4> HIDE DEF Event
      <4> QED
        BY <1>1, <2>2
    <3>1. sent[Len(sent)] \in Event
      <4> HIDE DEF Event
      <4> QED
        BY <1>1, <3>0
    <3> QED
      BY <2>2, <3>1 DEF Now
  <2> QED
    BY <2>1, <2>2
<1>3. new \in Event
  BY <1>2
<1> HIDE DEF new
<1>4. /\ sent' \in Seq(Event) /\ DOMAIN sent \subseteq DOMAIN sent'
      /\ \A i \in DOMAIN sent : sent'[i] = sent[i]
  BY <1>1, <1>3
<1>5. seen \subseteq DOMAIN sent
  BY DEF BillingInv, BillingTypeOK
<1>6. {sent'[i].created : i \in seen} = {sent[i].created : i \in seen}
  BY <1>4, <1>5
<1>7. BillingTypeOK'
  BY <1>1, <1>4, <1>5, <1>6 DEF BillingTypeOK, BillingInv
<1>8. \A i \in seen : sent'[i] = sent[i]
  BY <1>4, <1>5
<1>9. (\A i \in seen \ cut : sent[i].created <= mark)'
  BY <1>1, <1>8 DEF BillingInv
<1>10. NewestDecides'
  BY <1>1, <1>8 DEF NewestDecides, BillingInv
<1>11. PaidFor'
  BY <1>1, <1>8 DEF PaidFor, BillingInv
<1> QED
  BY <1>7, <1>9, <1>10, <1>11 DEF BillingInv

LEMMA ApplyStripeEventInv ==
  ASSUME BillingInv, NEW i \in DOMAIN sent, NEW ran \in 1..4, ApplyStripeEvent(i, ran)
  PROVE  BillingInv'
<1> DEFINE event == sent[i]
           fresh == event.created >= mark
           Event == [kind : Kinds, created : Nat \ {0}]
<1>1. /\ i \notin seen /\ seen' = seen \cup {i}
      /\ mark' = IF fresh /\ ran >= 2 /\ event.created > mark THEN event.created ELSE mark
      /\ customer' = (customer \/ (fresh /\ ran >= 3 /\ NamesCustomer(event.kind)))
      /\ fresh /\ ran = 4 /\ PlanSet(event.kind) # {} => plan' \in PlanSet(event.kind)
      /\ ~(fresh /\ ran = 4 /\ PlanSet(event.kind) # {}) => plan' = plan
      /\ cut' = IF ran < 4 THEN cut \cup {i} ELSE cut
      /\ sent' = sent
  BY DEF ApplyStripeEvent, IsFresh
<1>0. sent \in Seq(Event)
  BY DEF BillingInv, BillingTypeOK
<1>a. \A k \in DOMAIN sent : sent[k] \in Event
  <2> HIDE DEF Event
  <2> QED
    BY <1>0
<1>b. \A k \in DOMAIN sent : sent[k].created \in Nat \ {0}
  BY <1>a
<1>2. /\ sent \in Seq([kind : Kinds, created : Nat \ {0}])
      /\ \A k \in DOMAIN sent : sent[k].created \in Nat \ {0}
      /\ seen \subseteq DOMAIN sent /\ cut \subseteq seen
      /\ mark \in {0} \cup {sent[k].created : k \in seen}
      /\ plan \in Prices \cup {"free"} /\ customer \in BOOLEAN
  BY <1>0, <1>b DEF BillingInv, BillingTypeOK
<1>3. mark \in Nat /\ mark' \in Nat /\ event.created \in Nat \ {0}
  BY <1>1, <1>2
<1> HIDE DEF event
<1>4. /\ mark <= mark' /\ (ran = 4 => event.created <= mark')
      /\ mark' \in {mark, event.created}
  BY <1>1, <1>3
<1>5. BillingTypeOK'
  <2>1. mark' \in {0} \cup {sent[k].created : k \in seen'}
    BY <1>1, <1>2, <1>4 DEF event
  <2>2. plan' \in Prices \cup {"free"}
    BY <1>1, <1>2 DEF PlanSet
  <2>3. cut' \subseteq seen' /\ seen' \subseteq DOMAIN sent
    BY <1>1, <1>2
  <2>4. customer' \in BOOLEAN
    BY <1>1, <1>2
  <2> QED
    BY <1>1, <1>2, <2>1, <2>2, <2>3, <2>4 DEF BillingTypeOK
<1>6. \A k \in seen' \ cut' : k \in seen \ cut \/ (k = i /\ ran = 4)
  BY <1>1
<1>7. (\A k \in seen \ cut : sent[k].created <= mark)'
  <2> SUFFICES ASSUME NEW k \in seen' \ cut'
               PROVE  sent[k].created <= mark'
    BY <1>1
  <2>1. CASE k \in seen \ cut
    <3>1. sent[k].created <= mark /\ sent[k].created \in Nat
      BY <1>2, <2>1 DEF BillingInv
    <3> QED
      BY <1>3, <1>4, <3>1
  <2>2. CASE k = i /\ ran = 4
    BY <1>4, <2>2 DEF event
  <2> QED
    BY <1>6, <2>1, <2>2
<1>8. NewestDecides'
  <2> SUFFICES ASSUME NEW k \in seen' \ cut', PlanSet(sent[k].kind) # {},
                      \A j \in seen' \ {k} : sent[j].created < sent[k].created
               PROVE  plan' \in PlanSet(sent[k].kind)
    BY <1>1 DEF NewestDecides
  <2>1. CASE k \in seen \ cut
    <3>1. plan \in PlanSet(sent[k].kind)
      BY <1>1, <2>1 DEF NewestDecides, BillingInv
    <3>2. /\ event.created < sent[k].created /\ sent[k].created <= mark
          /\ sent[k].created \in Nat
      BY <1>1, <1>2, <2>1 DEF BillingInv, event
    <3>3. ~ fresh
      BY <1>3, <3>2
    <3> QED
      BY <1>1, <3>1, <3>3
  <2>2. CASE k = i /\ ran = 4
    <3>1. \A j \in seen : sent[j].created < event.created
      BY <1>1, <2>2 DEF event
    <3>2. fresh
      BY <1>2, <1>3, <3>1
    <3> QED
      BY <1>1, <2>2, <3>2 DEF event
  <2> QED
    BY <1>6, <2>1, <2>2
<1>9. PaidFor'
  <2> SUFFICES ASSUME plan' # "free"
               PROVE  customer' /\ \E k \in seen' \ cut' : plan' \in PlanSet(sent[k].kind)
    BY <1>1 DEF PaidFor
  <2>1. \A k \in seen \ cut : k \in seen' \ cut'
    BY <1>1
  <2>2. CASE fresh /\ ran = 4 /\ PlanSet(event.kind) # {}
    <3>1. plan' \in PlanSet(event.kind) /\ i \in seen' \ cut'
      BY <1>1, <1>2, <2>2
    <3>2. NamesCustomer(event.kind)
      BY <3>1 DEF PlanSet, NamesCustomer
    <3>3. fresh /\ ran >= 3 /\ NamesCustomer(event.kind)
      BY <2>2, <3>2
    <3>4. customer' = (customer \/ (fresh /\ ran >= 3 /\ NamesCustomer(event.kind)))
      BY <1>1
    <3>5. customer'
      BY ONLY <3>3, <3>4, Zenon
    <3>6. plan' \in PlanSet(sent[i].kind)
      BY <3>1 DEF event
    <3> QED
      BY <3>1, <3>5, <3>6
  <2>3. CASE ~(fresh /\ ran = 4 /\ PlanSet(event.kind) # {})
    <3>1. plan' = plan
      BY <1>1, <2>3
    <3>2. PaidFor
      BY DEF BillingInv
    <3> QED
      BY <1>1, <2>1, <3>1, <3>2 DEF PaidFor
  <2> QED
    BY <2>2, <2>3
<1> QED
  BY <1>5, <1>7, <1>8, <1>9 DEF BillingInv

LEMMA BillingStepInv ==
  ASSUME BillingInv, BillingNext \/ UNCHANGED billing
  PROVE  BillingInv'
<1>1. CASE UNCHANGED billing
  BY <1>1 DEF billing, BillingInv, BillingTypeOK, NewestDecides, PaidFor
<1>2. CASE BillingNext
  BY <1>2, StripeEventInv, ApplyStripeEventInv DEF BillingNext
<1> QED
  BY <1>1, <1>2

-------------------------------------------------------------------------------
(* The inductive invariant of Service.                                     *)

(* The SDK's side of a call: when it has attempts, and what its phase says *)
(* of the answer it holds.                                                 *)
Phases ==
  \A c \in Calls :
    /\ calls[c].phase = "new" <=> calls[c].attempt = 0
    /\ calls[c].phase = "backoff" => calls[c].attempt < MaxAttempts
    /\ calls[c].answer.status = 0 => calls[c].answer = NoAnswer
    /\ calls[c].phase = "returned" => IsOk(calls[c].answer.status)

(* A request or an event is of an attempt that was made, and a request     *)
(* still on its way has stored nothing.                                    *)
Attempts ==
  /\ \A r \in requests : r.attempt <= calls[r.call].attempt
  /\ \A e \in stored : e.attempt <= calls[e.call].attempt
  /\ \A r \in requests, e \in stored : ~(e.call = r.call /\ e.attempt = r.attempt)

(* A key is stored once, and with it all the keys of its batch.            *)
KeysOnce == \A e, f \in stored : e.key = f.key => e = f
IsStored(key) == \E e \in stored : e.key = key
BatchWhole == \A e \in stored : \A key \in KeysOf(e.call) : IsStored(key)

(* A good answer that waits for its caller holds a receipt for each event. *)
Stands(c, i, receipt, e) ==
  /\ e.key = receipt.key
  /\ e.key = Batch[c][i].key /\ e.data = Batch[c][i].data
  /\ receipt.duplicate <=>
       e.call # c \/ e.attempt < calls[c].attempt \/ RepeatsKey(c, i)
GoodReceipts(c) ==
  LET receipts == calls[c].answer.receipts
  IN /\ DOMAIN receipts = DOMAIN Batch[c]
     /\ \A i \in DOMAIN receipts : \E e \in stored : Stands(c, i, receipts[i], e)
Answers == \A c \in Calls : IsOk(calls[c].answer.status) => GoodReceipts(c)

(* While every attempt has been answered by the server, a call whose last  *)
(* answer was no success has written nothing and has no request left that  *)
(* could; the attempt under way has at most its own.                       *)
HasWritten(c) == \E e \in stored : e.call = c
Unanswered(c) == calls[c].phase = "waiting" /\ calls[c].answer.status = 0
Refused(c) ==
  \/ calls[c].phase \in {"new", "backoff", "failed"}
  \/ /\ calls[c].phase = "waiting"
     /\ calls[c].answer.status \notin {0} \cup 200..299 \cup 500..599
Clean ==
  \A c \in Calls : ~calls[c].unsure =>
    /\ Refused(c) \/ Unanswered(c) => ~HasWritten(c)
    /\ \A r \in requests : r.call = c =>
         /\ ~Refused(c)
         /\ Unanswered(c) => r.attempt = calls[c].attempt

ServiceInv ==
  /\ BillingInv /\ TypeOK /\ IsFiniteSet(stored)
  /\ Phases /\ Attempts /\ KeysOnce /\ BatchWhole /\ Answers /\ Clean

(* What the types of the variables say of a call, a request, an event.     *)
LEMMA CallTypes ==
  ASSUME TypeOK, NEW c \in Calls
  PROVE  /\ calls[c] \in CallRecord
         /\ calls[c].phase \in {"new", "waiting", "backoff", "returned", "failed"}
         /\ calls[c].attempt \in Nat /\ calls[c].attempt <= MaxAttempts
         /\ calls[c].answer \in AnswerRecord
         /\ calls[c].answer.status \in {0, 200, 201, 400, 401, 403, 409, 429, 500, 504}
         /\ calls[c].unsure \in BOOLEAN
<1>1. calls \in [Calls -> CallRecord]
  BY DEF TypeOK
<1>2. calls[c] \in CallRecord
  BY <1>1
<1>3. calls[c].answer \in AnswerRecord
  BY <1>2 DEF CallRecord
<1>4. calls[c].answer.status \in {0, 200, 201, 400, 401, 403, 409, 429, 500, 504}
  BY <1>3 DEF AnswerRecord
<1> QED
  BY <1>2, <1>3, <1>4, ServiceAssumption DEF CallRecord

LEMMA RequestTypes ==
  ASSUME TypeOK
  PROVE  /\ \A r \in requests :
              /\ r.call \in Calls /\ r.attempt \in Nat \ {0} /\ r.attempt <= MaxAttempts
              /\ r = [call |-> r.call, attempt |-> r.attempt]
         /\ \A e \in stored :
              /\ e.call \in Calls /\ e.key \in KeysOf(e.call)
              /\ e.attempt \in Nat \ {0} /\ e.attempt <= MaxAttempts
         /\ admitted \subseteq requests
BY ServiceAssumption DEF TypeOK, KeysOf

(* Initially nothing has been sent and nothing is stored.                  *)
LEMMA ServiceInitInv == Init => ServiceInv
<1> SUFFICES ASSUME Init
             PROVE  ServiceInv
  OBVIOUS
<1>1. BillingInv
  BY BillingInitInv DEF Init
<1>2. /\ calls = [c \in Calls |-> NewCall]
      /\ requests = {} /\ admitted = {} /\ stored = {} /\ month = [count |-> 0, start |-> 0]
      /\ apiKey \in [live : {TRUE}, scopes : KeyScopes]
      /\ hits = 0 /\ required = FALSE
  BY DEF Init
<1>3. \A c \in Calls : /\ calls[c].phase = "new" /\ calls[c].attempt = 0
                          /\ calls[c].answer = NoAnswer /\ calls[c].answer.status = 0
  BY <1>2 DEF NewCall, NoAnswer
<1>4. IsFiniteSet(stored) /\ Cardinality(stored) = 0
  BY <1>2, FS_EmptySet
<1>5. TypeOK
  <2>1. NoAnswer \in AnswerRecord
    BY DEF NoAnswer, AnswerRecord
  <2>2. NewCall \in CallRecord
    BY <2>1, ServiceAssumption DEF NewCall, CallRecord
  <2>3. calls \in [Calls -> CallRecord]
    BY <1>2, <2>2
  <2>4. month \in [count : 0..MaxMonths, start : 0..Cardinality(stored)]
    BY <1>2, <1>4, ServiceAssumption
  <2>5. hits \in 0..MaxHits
    BY <1>2, ServiceAssumption
  <2>7. required \in BOOLEAN
    BY <1>2
  <2>6. apiKey \in [live : BOOLEAN, scopes : KeyScopes]
    BY <1>2
  <2> QED
    BY <1>1, <1>2, <2>3, <2>4, <2>5, <2>6, <2>7 DEF TypeOK, BillingInv
<1>6. Phases
  BY <1>3 DEF Phases
<1>7. Attempts /\ KeysOnce /\ BatchWhole
  BY <1>2 DEF Attempts, KeysOnce, BatchWhole
<1>8. Answers
  BY <1>3 DEF Answers, IsOk
<1>9. Clean
  BY <1>2 DEF Clean, HasWritten
<1> QED
  BY <1>1, <1>4, <1>5, <1>6, <1>7, <1>8, <1>9 DEF ServiceInv

(* What is clean about a call stays so while its record, and what was      *)
(* stored and sent for it, stay.                                           *)
LEMMA CleanCarries ==
  ASSUME Clean, NEW d \in Calls, calls'[d] = calls[d], ~calls'[d].unsure,
         HasWritten(d)' => HasWritten(d),
         \A q \in requests' : q.call = d => q \in requests
  PROVE  /\ Refused(d)' \/ Unanswered(d)' => ~HasWritten(d)'
         /\ \A q \in requests' : q.call = d =>
              /\ ~Refused(d)'
              /\ Unanswered(d)' => q.attempt = calls'[d].attempt
<1>1. Refused(d)' <=> Refused(d)
  BY DEF Refused
<1>2. Unanswered(d)' <=> Unanswered(d)
  BY DEF Unanswered
<1>3. /\ Refused(d) \/ Unanswered(d) => ~HasWritten(d)
      /\ \A q \in requests : q.call = d =>
           /\ ~Refused(d)
           /\ Unanswered(d) => q.attempt = calls[d].attempt
  BY DEF Clean
<1> QED
  BY <1>1, <1>2, <1>3

-------------------------------------------------------------------------------
(* The SDK's steps.                                                        *)

(* A resend makes an attempt no request and no event has.                  *)
LEMMA SendInv ==
  ASSUME ServiceInv, NEW c \in Calls, calls[c].phase \in {"new", "backoff"},
         NEW attempt, attempt = calls[c].attempt + 1, Send(c, attempt)
  PROVE  ServiceInv'
<1> DEFINE rec == [phase |-> "waiting", attempt |-> attempt, answer |-> NoAnswer,
                   unsure |-> calls[c].unsure]
<1>1. /\ requests' = requests \cup {[call |-> c, attempt |-> attempt]}
      /\ calls' = [calls EXCEPT ![c] = rec]
      /\ UNCHANGED <<billing, admitted, stored, month, apiKey, hits, required>>
  BY DEF Send
<1>2. TypeOK /\ BillingInv /\ Phases /\ Attempts /\ Answers /\ Clean /\ calls \in [Calls -> CallRecord]
  BY DEF ServiceInv, TypeOK
<1>3. /\ calls[c] \in CallRecord /\ calls[c].attempt \in Nat
      /\ calls[c].attempt < MaxAttempts
      /\ calls[c].unsure \in BOOLEAN
  <2>1. calls[c] \in CallRecord /\ calls[c].attempt \in Nat /\ calls[c].unsure \in BOOLEAN
    BY <1>2, CallTypes
  <2> QED
    BY <1>2, <2>1, ServiceAssumption DEF Phases
<1>4. NoAnswer \in AnswerRecord
  BY DEF NoAnswer, AnswerRecord
<1>5. /\ rec \in CallRecord /\ rec.phase = "waiting" /\ rec.attempt = attempt
      /\ rec.answer = NoAnswer /\ rec.unsure = calls[c].unsure
  <2>1. attempt \in 0..MaxAttempts
    BY <1>3, ServiceAssumption
  <2> QED
    BY <1>3, <1>4, <2>1 DEF CallRecord
<1> HIDE DEF rec
<1>6. /\ calls' \in [Calls -> CallRecord] /\ calls'[c] = rec
      /\ \A d \in Calls \ {c} : calls'[d] = calls[d]
  BY <1>1, <1>2, <1>5
<1>7. attempt \in 1..MaxAttempts /\ attempt > calls[c].attempt
  BY <1>3, ServiceAssumption
<1>8. BillingInv'
  BY <1>1, <1>2, BillingStepInv
<1>9. TypeOK'
  BY <1>1, <1>2, <1>6, <1>7, <1>8 DEF TypeOK, BillingInv
<1>10. NoAnswer.status = 0 /\ ~IsOk(NoAnswer.status)
  BY DEF NoAnswer, IsOk
<1>11. Phases'
  BY <1>2, <1>5, <1>6, <1>7, <1>10 DEF Phases
<1>12. Attempts'
  <2> USE RequestTypes, <1>2
  <2>1. \A d \in Calls : calls[d].attempt <= calls'[d].attempt /\ calls[d].attempt \in Nat /\ calls'[d].attempt \in Nat
    BY <1>3, <1>5, <1>6, <1>7, CallTypes
  <2>2. (\A r \in requests : r.attempt <= calls[r.call].attempt)'
    <3> SUFFICES ASSUME NEW r \in requests'
                 PROVE  r.attempt <= calls'[r.call].attempt
      OBVIOUS
    <3>1. CASE r \in requests
      BY <2>1, <3>1 DEF Attempts
    <3>2. CASE r = [call |-> c, attempt |-> attempt]
      BY <1>5, <1>6, <1>7, <3>2
    <3> QED
      BY <1>1, <3>1, <3>2
  <2>3. (\A e \in stored : e.attempt <= calls[e.call].attempt)'
    BY <1>1, <2>1 DEF Attempts
  <2>4. (\A r \in requests, e \in stored : ~(e.call = r.call /\ e.attempt = r.attempt))'
    <3> SUFFICES ASSUME NEW r \in requests', NEW e \in stored
                 PROVE  ~(e.call = r.call /\ e.attempt = r.attempt)
      BY <1>1
    <3>1. CASE r \in requests
      BY <3>1 DEF Attempts
    <3>2. CASE r = [call |-> c, attempt |-> attempt]
      BY <1>3, <1>7, <3>2 DEF Attempts
    <3> QED
      BY <1>1, <3>1, <3>2
  <2> QED
    BY <2>2, <2>3, <2>4 DEF Attempts
<1>13. Answers'
  BY <1>1, <1>2, <1>5, <1>6, <1>10 DEF Answers, GoodReceipts, Stands
<1>14. Clean'
  <2> SUFFICES ASSUME NEW d \in Calls, ~calls'[d].unsure
               PROVE  /\ Refused(d)' \/ Unanswered(d)' => ~HasWritten(d)'
                      /\ \A r \in requests' : r.call = d =>
                           /\ ~Refused(d)'
                           /\ Unanswered(d)' => r.attempt = calls'[d].attempt
    BY DEF Clean
  <2>1. CASE d = c
    <3>1. ~HasWritten(c) /\ \A r \in requests : r.call # c
      BY <1>2, <1>5, <1>6, <2>1 DEF Clean, Refused
    <3>2. ~Refused(c)'
      BY <1>5, <1>6, <1>10 DEF Refused
    <3>3. ~HasWritten(c)'
      BY <1>1, <1>5, <1>6, <3>1 DEF HasWritten
    <3>4. \A r \in requests' : r.call = c => (Unanswered(c)' => r.attempt = calls'[c].attempt)
      BY <1>1, <1>5, <1>6, <3>1
    <3> QED
      BY <2>1, <3>2, <3>3, <3>4
  <2>2. CASE d # c
    <3>1. calls'[d] = calls[d]
      BY <1>6, <2>2
    <3>2. \A r \in requests' : r.call = d => r \in requests
      BY <1>1, <2>2
    <3>3. HasWritten(d)' => HasWritten(d)
      BY <1>1 DEF HasWritten
    <3> QED
      BY <1>2, <3>1, <3>2, <3>3, CleanCarries
  <2> QED
    BY <2>1, <2>2
<1> QED
  BY <1>1, <1>8, <1>9, <1>11, <1>12, <1>13, <1>14
  DEF ServiceInv, KeysOnce, BatchWhole, IsStored

(* What the SDK makes of an answer, or of none, changes its own side of    *)
(* the call only.                                                          *)
Settles(c, rec) ==
  /\ calls[c].phase = "waiting"
  /\ rec.phase \in {"backoff", "returned", "failed"} /\ rec.unsure \in BOOLEAN
  /\ rec = [phase |-> rec.phase, attempt |-> calls[c].attempt,
            answer |-> rec.answer, unsure |-> rec.unsure]
  /\ rec.answer \in {calls[c].answer, NoAnswer}
  /\ rec.phase = "backoff" => calls[c].attempt < MaxAttempts
  /\ rec.phase = "returned" => IsOk(rec.answer.status)
  /\ ~rec.unsure => ~calls[c].unsure /\ (rec.phase = "returned" \/ Refused(c))
  /\ calls' = [calls EXCEPT ![c] = rec]
  /\ UNCHANGED <<billing, requests, admitted, stored, month, apiKey, hits, required>>

LEMMA SettleInv ==
  ASSUME ServiceInv, NEW c \in Calls, NEW rec, Settles(c, rec)
  PROVE  ServiceInv'
<1> USE DEF Settles
<1>1. UNCHANGED <<billing, requests, admitted, stored, month, apiKey, hits, required>>
  OBVIOUS
<1>2. TypeOK /\ BillingInv /\ Phases /\ Attempts /\ Answers /\ Clean /\ calls \in [Calls -> CallRecord]
  BY DEF ServiceInv, TypeOK
<1>3. /\ calls[c].attempt \in Nat /\ calls[c].attempt <= MaxAttempts
      /\ calls[c].answer \in AnswerRecord /\ calls[c].unsure \in BOOLEAN
  BY <1>2, CallTypes
<1>4. NoAnswer \in AnswerRecord
  BY DEF NoAnswer, AnswerRecord
<1>5. rec.attempt = calls[c].attempt
  OBVIOUS
<1>6. rec \in CallRecord
  BY <1>3, <1>4, ServiceAssumption DEF CallRecord
<1>7. /\ calls' \in [Calls -> CallRecord] /\ calls'[c] = rec
      /\ \A d \in Calls \ {c} : calls'[d] = calls[d]
  BY <1>2, <1>6
<1>8. BillingInv'
  BY <1>1, <1>2, BillingStepInv
<1>9. TypeOK'
  BY <1>1, <1>2, <1>7, <1>8 DEF TypeOK, BillingInv
<1>10. NoAnswer.status = 0 /\ ~IsOk(NoAnswer.status)
  BY DEF NoAnswer, IsOk
<1>11. Phases'
  BY <1>2, <1>5, <1>7, <1>10 DEF Phases
<1>12. \A d \in Calls : calls'[d].attempt = calls[d].attempt
  BY <1>5, <1>7
<1>13. Attempts'
  BY <1>1, <1>2, <1>12, RequestTypes DEF Attempts
<1>14. Answers'
  <2> SUFFICES ASSUME NEW d \in Calls, IsOk(calls'[d].answer.status)
               PROVE  GoodReceipts(d)'
    BY DEF Answers
  <2>1. calls'[d].answer = calls[d].answer
    BY <1>7, <1>10
  <2> QED
    BY <1>1, <1>2, <1>12, <2>1 DEF Answers, GoodReceipts, Stands
<1>15. Clean'
  <2> SUFFICES ASSUME NEW d \in Calls, ~calls'[d].unsure
               PROVE  /\ Refused(d)' \/ Unanswered(d)' => ~HasWritten(d)'
                      /\ \A r \in requests' : r.call = d =>
                           /\ ~Refused(d)'
                           /\ Unanswered(d)' => r.attempt = calls'[d].attempt
    BY DEF Clean
  <2>1. CASE d = c /\ rec.phase = "returned"
    BY <1>7, <2>1 DEF Refused, Unanswered
  <2>2. CASE d = c /\ Refused(c)
    BY <1>1, <1>2, <1>7, <2>2 DEF Clean, HasWritten
  <2>3. CASE d # c
    <3>1. calls'[d] = calls[d] /\ (HasWritten(d)' => HasWritten(d))
      BY <1>1, <1>7, <2>3 DEF HasWritten
    <3> QED
      BY <1>1, <1>2, <3>1, CleanCarries
  <2> QED
    BY <1>7, <2>1, <2>2, <2>3
<1> QED
  BY <1>1, <1>8, <1>9, <1>11, <1>13, <1>14, <1>15
  DEF ServiceInv, KeysOnce, BatchWhole, IsStored

(* A refusal by the server leaves the call refused.                        *)
LEMMA TakeAnswerInv ==
  ASSUME ServiceInv, NEW c \in Calls, TakeAnswer(c)
  PROVE  ServiceInv'
<1> DEFINE status == calls[c].answer.status
           phase == IF IsOk(status) THEN "returned" ELSE AfterFailure(c, status)
           unsure == calls[c].unsure \/ status \in 500..599
           rec == [phase |-> phase, attempt |-> calls[c].attempt,
                   answer |-> calls[c].answer, unsure |-> unsure]
<1>1. /\ calls[c].phase = "waiting" /\ status # 0 /\ calls' = [calls EXCEPT ![c] = rec]
      /\ UNCHANGED <<billing, requests, admitted, stored, month, apiKey, hits, required>>
  BY DEF TakeAnswer
<1>2. phase \in {"backoff", "returned", "failed"} /\ unsure \in BOOLEAN
  BY DEF AfterFailure
<1>3. /\ phase = "backoff" => calls[c].attempt < MaxAttempts
      /\ phase = "returned" => IsOk(status)
  BY DEF AfterFailure
<1>4. ~unsure => ~calls[c].unsure /\ (phase = "returned" \/ Refused(c))
  BY <1>1 DEF Refused, IsOk
<1> HIDE DEF phase, unsure
<1>5. /\ rec.phase = phase /\ rec.unsure = unsure /\ rec.answer = calls[c].answer
      /\ rec = [phase |-> rec.phase, attempt |-> calls[c].attempt,
                answer |-> rec.answer, unsure |-> rec.unsure]
  OBVIOUS
<1> HIDE DEF rec
<1>6. Settles(c, rec)
  BY <1>1, <1>2, <1>3, <1>4, <1>5 DEF Settles
<1> QED
  BY <1>6, SettleInv

(* A lost answer leaves the caller unsure.                                 *)
LEMMA LoseInv ==
  ASSUME ServiceInv, NEW c \in Calls, LoseBody(c) \/ TimeOut(c)
  PROVE  ServiceInv'
<1>1. PICK phase \in {"backoff", "failed"} :
        /\ calls[c].phase = "waiting" /\ Lose(c, phase)
        /\ phase = "backoff" => calls[c].attempt < MaxAttempts
  BY DEF LoseBody, TimeOut, AfterFailure
<1> DEFINE rec == [phase |-> phase, attempt |-> calls[c].attempt,
                   answer |-> NoAnswer, unsure |-> TRUE]
<1>2. /\ calls' = [calls EXCEPT ![c] = rec]
      /\ UNCHANGED <<billing, requests, admitted, stored, month, apiKey, hits, required>>
  BY <1>1 DEF Lose
<1>3. /\ rec.phase = phase /\ rec.unsure = TRUE /\ rec.answer = NoAnswer
      /\ rec = [phase |-> rec.phase, attempt |-> calls[c].attempt,
                answer |-> rec.answer, unsure |-> rec.unsure]
  OBVIOUS
<1> HIDE DEF rec
<1>4. Settles(c, rec)
  BY <1>1, <1>2, <1>3 DEF Settles
<1> QED
  BY <1>4, SettleInv

-------------------------------------------------------------------------------
(* The server's steps.                                                     *)

(* A batch is a sequence, and its keys are keys.                           *)
LEMMA BatchKeys ==
  ASSUME NEW c \in Calls
  PROVE  /\ DOMAIN Batch[c] = 1..Len(Batch[c]) /\ Len(Batch[c]) \in Nat
         /\ \A i \in DOMAIN Batch[c] : /\ Batch[c][i] \in Range(Batch[c])
                                       /\ Batch[c][i].key \in KeysOf(c) /\ Batch[c][i].key \in Keys
         /\ \A event \in Range(Batch[c]) : \E i \in DOMAIN Batch[c] : event = Batch[c][i]
<1>1. KeysOf(c) \subseteq Keys
  BY DEF Keys
<1> DEFINE R == Range(Batch[c])
<1>2. Batch[c] \in Seq(R)
  BY ServiceAssumption
<1>3. \A i \in DOMAIN Batch[c] : Batch[c][i] \in R /\ Batch[c][i].key \in KeysOf(c)
  BY DEF Range, KeysOf
<1>4. \A event \in R : \E i \in DOMAIN Batch[c] : event = Batch[c][i]
  BY DEF Range
<1> HIDE DEF R
<1>5. DOMAIN Batch[c] = 1..Len(Batch[c]) /\ Len(Batch[c]) \in Nat
  BY <1>2
<1> QED
  BY <1>1, <1>3, <1>4, <1>5 DEF R

(* An answer changes only the answer of the call that awaits it.           *)
AnswerStatus == {200, 201, 400, 401, 403, 409, 429, 500, 504}
OnlyAnswers(r, status, receipts) ==
  /\ calls' \in [Calls -> CallRecord]
  /\ \A c \in Calls :
       \/ calls'[c] = calls[c] /\ ~(c = r.call /\ IsAwaited(r))
       \/ /\ c = r.call /\ IsAwaited(r)
          /\ calls'[c].phase = "waiting" /\ calls'[c].attempt = calls[c].attempt
          /\ calls'[c].unsure = calls[c].unsure
          /\ calls'[c].answer.status = status /\ calls'[c].answer.receipts = receipts

LEMMA AnswerTypes ==
  ASSUME TypeOK, NEW r \in requests, NEW status \in AnswerStatus,
         NEW receipts \in Seq([key : Keys, duplicate : BOOLEAN]), Answer(r, status, receipts)
  PROVE  OnlyAnswers(r, status, receipts)
<1> USE DEF OnlyAnswers
<1> USE DEF AnswerStatus
<1>1. calls \in [Calls -> CallRecord] /\ r.call \in Calls
  BY RequestTypes DEF TypeOK
<1> DEFINE c == r.call
           answer == [status |-> status, receipts |-> receipts]
           rec == [calls[c] EXCEPT !.answer = answer]
<1>2. answer \in AnswerRecord
  BY DEF AnswerRecord
<1>3. answer.status = status /\ answer.receipts = receipts
  OBVIOUS
<1> HIDE DEF answer
<1>4. calls[c] \in CallRecord
  BY <1>1
<1>5. rec \in CallRecord
  BY <1>2, <1>4 DEF CallRecord
<1>8. /\ rec.phase = calls[c].phase /\ rec.attempt = calls[c].attempt
      /\ rec.unsure = calls[c].unsure /\ rec.answer = answer
  BY <1>4 DEF CallRecord
<1> HIDE DEF rec
<1>6. CASE IsAwaited(r)
  <2>1. calls' = [calls EXCEPT ![c] = rec]
    BY <1>6 DEF Answer, answer, rec
  <2>2. calls[c].phase = "waiting"
    BY <1>6 DEF IsAwaited
  <2>3. calls' \in [Calls -> CallRecord] /\ calls'[c] = rec
        /\ \A d \in Calls \ {c} : calls'[d] = calls[d]
    BY <1>1, <1>5, <2>1
  <2> QED
    BY <1>3, <1>6, <1>8, <2>2, <2>3
<1>7. CASE ~IsAwaited(r)
  BY <1>1, <1>7 DEF Answer
<1> QED
  BY <1>6, <1>7

(* The statuses the checks answer with.                                    *)
LEMMA CheckStatus ==
  ASSUME NEW n \in 1..3
  PROVE  /\ EntryChecks[n].status \in {400, 401, 403, 409, 429}
         /\ \A c : EventChecks(c)[n].status \in {400, 401, 403, 409, 429}
         /\ EntryChecks[2].fails <=> hits >= MaxHits
<1>1. n = 1 \/ n = 2 \/ n = 3
  OBVIOUS
<1>2. EntryChecks[1].status = 401 /\ EntryChecks[2].status = 429 /\ EntryChecks[3].status = 403
  BY DEF EntryChecks
<1>3. \A c : /\ EventChecks(c)[1].status = 429 /\ EventChecks(c)[2].status = 400
             /\ EventChecks(c)[3].status = 409
  BY DEF EventChecks
<1>4. EntryChecks[2].fails <=> hits >= MaxHits
  BY DEF EntryChecks
<1> QED
  BY <1>1, <1>2, <1>3, <1>4

(* What an answer that is no success leaves of the phases, the attempts    *)
(* and the receipts.                                                       *)
LEMMA FailureAnswerInv ==
  ASSUME ServiceInv, NEW r \in requests, NEW status \in {400, 401, 403, 409, 429, 500, 504},
         Answer(r, status, <<>>), requests' \subseteq requests, stored' = stored
  PROVE  calls' \in [Calls -> CallRecord] /\ Phases' /\ Attempts' /\ Answers'
<1>1. TypeOK /\ Phases /\ Attempts /\ Answers
  BY DEF ServiceInv
<1> DEFINE receipts == <<>>
<1>2. receipts \in Seq([key : Keys, duplicate : BOOLEAN])
  OBVIOUS
<1>3. Answer(r, status, receipts)
  OBVIOUS
<1> HIDE DEF receipts
<1>9. status \in AnswerStatus
  BY DEF AnswerStatus
<1>4. OnlyAnswers(r, status, receipts)
  BY <1>1, <1>2, <1>3, <1>9, AnswerTypes
<1> USE DEF OnlyAnswers
<1>5. status # 0 /\ ~IsOk(status)
  BY DEF IsOk
<1>6. Phases'
  BY <1>1, <1>4, <1>5 DEF Phases, IsAwaited
<1>7. Attempts'
  BY <1>1, <1>4, RequestTypes DEF Attempts
<1>8. Answers'
  <2> SUFFICES ASSUME NEW c \in Calls, IsOk(calls'[c].answer.status)
               PROVE  GoodReceipts(c)'
    BY DEF Answers
  <2>1. calls'[c] = calls[c]
    BY <1>4, <1>5
  <2> QED
    BY <1>1, <2>1 DEF Answers, GoodReceipts, Stands
<1> QED
  BY <1>4, <1>6, <1>7, <1>8

(* A request that is answered with a failure is gone and has stored        *)
(* nothing.                                                                *)
LEMMA DropInv ==
  ASSUME ServiceInv, NEW r \in requests, NEW status \in {400, 401, 403, 409, 429, 500},
         Answer(r, status, <<>>), requests' = requests \ {r}, admitted' = admitted \ {r},
         hits' \in 0..MaxHits, UNCHANGED <<billing, stored, month, apiKey, required>>
  PROVE  ServiceInv'
<1>1. /\ requests' = requests \ {r} /\ admitted' = admitted \ {r}
      /\ UNCHANGED <<billing, stored, month, apiKey, required>>
  OBVIOUS
<1>2. TypeOK /\ BillingInv /\ Clean /\ r.call \in Calls
  BY RequestTypes DEF ServiceInv
<1>3. status \in {400, 401, 403, 409, 429, 500, 504} /\ Answer(r, status, <<>>)
  OBVIOUS
<1>5. calls' \in [Calls -> CallRecord] /\ Phases' /\ Attempts' /\ Answers'
  BY <1>1, <1>3, FailureAnswerInv
<1>6. BillingInv'
  BY <1>1, <1>2, BillingStepInv
<1>8. TypeOK'
  BY <1>1, <1>2, <1>5, <1>6 DEF TypeOK, BillingInv
<1>9. Clean'
  <2> SUFFICES ASSUME NEW c \in Calls, ~calls'[c].unsure
               PROVE  /\ Refused(c)' \/ Unanswered(c)' => ~HasWritten(c)'
                      /\ \A q \in requests' : q.call = c =>
                           /\ ~Refused(c)'
                           /\ Unanswered(c)' => q.attempt = calls'[c].attempt
    BY DEF Clean
  <2>1. CASE calls'[c] = calls[c]
    <3>1. HasWritten(c)' => HasWritten(c)
      BY <1>1 DEF HasWritten
    <3>2. \A q \in requests' : q.call = c => q \in requests
      BY <1>1
    <3> QED
      BY <1>2, <2>1, <3>1, <3>2, CleanCarries
  <2>2. CASE c = r.call /\ IsAwaited(r) /\ calls'[c].unsure = calls[c].unsure
    <3>1. Unanswered(c) /\ r.attempt = calls[c].attempt
      BY <2>2 DEF Unanswered, IsAwaited, NoAnswer
    <3>2. ~HasWritten(c) /\ \A q \in requests : q.call = c => q.attempt = r.attempt
      BY <1>2, <2>2, <3>1 DEF Clean
    <3>3. \A q \in requests : q.call = c => q = r
      BY <1>2, <2>2, <3>2, RequestTypes
    <3> QED
      BY <1>1, <3>2, <3>3 DEF HasWritten
  <2> DEFINE receipts == <<>>
  <2>3. receipts \in Seq([key : Keys, duplicate : BOOLEAN]) /\ Answer(r, status, receipts)
    BY <1>3
  <2> HIDE DEF receipts
  <2>6. status \in AnswerStatus
    BY DEF AnswerStatus
  <2>5. OnlyAnswers(r, status, receipts)
    BY <1>2, <2>3, <2>6, AnswerTypes
  <2>4. \/ calls'[c] = calls[c]
        \/ c = r.call /\ IsAwaited(r) /\ calls'[c].unsure = calls[c].unsure
    BY <2>5, Zenon DEF OnlyAnswers
  <2> QED
    BY <2>1, <2>2, <2>4
<1> QED
  BY <1>1, <1>5, <1>6, <1>8, <1>9
  DEF ServiceInv, KeysOnce, BatchWhole, IsStored

LEMMA RefusedInv ==
  ASSUME ServiceInv, NEW r \in requests, NEW n \in 1..3, TurnAway(r, n) \/ Refuse(r, n)
  PROVE  ServiceInv'
<1>0. hits \in 0..MaxHits /\ MaxHits \in Nat
  BY ServiceAssumption DEF ServiceInv, TypeOK
<1>1. CASE TurnAway(r, n)
  <2>1. /\ requests' = requests \ {r} /\ admitted' = admitted \ {r}
        /\ UNCHANGED <<billing, stored, month, apiKey, required>>
    BY <1>1 DEF TurnAway
  <2>2. hits' \in 0..MaxHits
    <3>1. CASE n = 3
      <4>1. ~EntryChecks[2].fails /\ hits' = hits + 1
        BY <1>1, <3>1 DEF TurnAway, Refuses
      <4> QED
        BY <1>0, <4>1, CheckStatus
    <3>2. CASE n # 3
      BY <1>0, <1>1, <3>2 DEF TurnAway
    <3> QED
      BY <3>1, <3>2
  <2>3. PICK status \in {400, 401, 403, 409, 429, 500} : Answer(r, status, <<>>)
    BY <1>1, CheckStatus DEF TurnAway
  <2> QED
    BY <2>1, <2>2, <2>3, DropInv
<1>2. CASE Refuse(r, n)
  <2>1. /\ requests' = requests \ {r} /\ admitted' = admitted \ {r}
        /\ UNCHANGED <<billing, stored, month, apiKey, required>> /\ hits' \in 0..MaxHits
    BY <1>0, <1>2 DEF Refuse
  <2>2. PICK status \in {400, 401, 403, 409, 429, 500} : Answer(r, status, <<>>)
    BY <1>2, CheckStatus DEF Refuse
  <2> QED
    BY <2>1, <2>2, DropInv
<1> QED
  BY <1>1, <1>2

LEMMA ServerErrorInv ==
  ASSUME ServiceInv, NEW r \in requests, ServerError(r)
  PROVE  ServiceInv'
<1>1. /\ requests' = requests \ {r} /\ admitted' = admitted \ {r}
      /\ UNCHANGED <<billing, stored, month, apiKey, required>>
      /\ hits' \in 0..MaxHits /\ Answer(r, 500, <<>>)
  BY DEF ServerError, ServiceInv, TypeOK
<1> QED
  BY <1>1, DropInv

(* The proxy's answer says nothing of what is stored.                      *)
LEMMA GatewayErrorInv ==
  ASSUME ServiceInv, NEW r \in requests, GatewayError(r)
  PROVE  ServiceInv'
<1>1. /\ Answer(r, 504, <<>>)
      /\ UNCHANGED <<billing, requests, admitted, stored, month, apiKey, hits, required>>
  BY DEF GatewayError
<1>2. TypeOK /\ BillingInv /\ Clean /\ r.call \in Calls
  BY RequestTypes DEF ServiceInv
<1>5. calls' \in [Calls -> CallRecord] /\ Phases' /\ Attempts' /\ Answers'
  BY <1>1, FailureAnswerInv
<1>6. BillingInv'
  BY <1>1, <1>2, BillingStepInv
<1>8. TypeOK'
  BY <1>1, <1>2, <1>5, <1>6 DEF TypeOK, BillingInv
<1>9. Clean'
  <2> SUFFICES ASSUME NEW c \in Calls, ~calls'[c].unsure
               PROVE  /\ Refused(c)' \/ Unanswered(c)' => ~HasWritten(c)'
                      /\ \A q \in requests' : q.call = c =>
                           /\ ~Refused(c)'
                           /\ Unanswered(c)' => q.attempt = calls'[c].attempt
    BY DEF Clean
  <2>1. CASE calls'[c] = calls[c]
    <3>1. HasWritten(c)' => HasWritten(c)
      BY <1>1 DEF HasWritten
    <3>2. \A q \in requests' : q.call = c => q \in requests
      BY <1>1
    <3> QED
      BY <1>2, <2>1, <3>1, <3>2, CleanCarries
  <2>2. CASE calls'[c].phase = "waiting" /\ calls'[c].answer.status = 504
    <3>1. ~Refused(c)' /\ ~Unanswered(c)'
      BY <2>2 DEF Refused, Unanswered
    <3> QED
      BY <3>1
  <2> DEFINE receipts == <<>>
             status == 504
  <2>3. receipts \in Seq([key : Keys, duplicate : BOOLEAN]) /\ Answer(r, status, receipts)
    BY <1>1
  <2>6. status \in AnswerStatus
    BY DEF AnswerStatus
  <2> HIDE DEF receipts, status
  <2>5. OnlyAnswers(r, status, receipts)
    BY <1>2, <2>3, <2>6, AnswerTypes, Zenon
  <2>4. \/ calls'[c] = calls[c]
        \/ calls'[c].phase = "waiting" /\ calls'[c].answer.status = 504
    <3>1. \/ calls'[c] = calls[c]
          \/ calls'[c].phase = "waiting" /\ calls'[c].answer.status = status
      BY <2>5, Zenon DEF OnlyAnswers
    <3> QED
      BY <3>1 DEF status
  <2> QED
    BY <2>1, <2>2, <2>4
<1> QED
  BY <1>1, <1>5, <1>6, <1>8, <1>9
  DEF ServiceInv, KeysOnce, BatchWhole, IsStored

(* The new events of a request are of its call and attempt, and bring what *)
(* its batch lacked.                                                       *)
LEMMA NewEventsHold ==
  ASSUME NEW r \in requests, r.call \in Calls
  PROVE  /\ \A e \in NewEvents(r) :
              /\ e.call = r.call /\ e.attempt = r.attempt /\ ~IsStored(e.key)
              /\ e = NewEvent(r, e)
              /\ \E i \in DOMAIN Batch[r.call] : /\ e.key = Batch[r.call][i].key
                                                /\ e.data = Batch[r.call][i].data
         /\ \A i \in DOMAIN Batch[r.call] :
              \/ IsStored(Batch[r.call][i].key)
              \/ \E e \in NewEvents(r) : /\ e.key = Batch[r.call][i].key
                                        /\ e.data = Batch[r.call][i].data
<1> DEFINE fresh == {event \in Range(Batch[r.call]) : Stored(event.key) = {}}
<1>0. \A key : Stored(key) = {} <=> ~IsStored(key)
  BY DEF Stored, IsStored
<1>1. \A event : /\ NewEvent(r, event).key = event.key /\ NewEvent(r, event).data = event.data
                 /\ NewEvent(r, event).call = r.call /\ NewEvent(r, event).attempt = r.attempt
                 /\ NewEvent(r, NewEvent(r, event)) = NewEvent(r, event)
  BY DEF NewEvent
<1>2. NewEvents(r) = {NewEvent(r, event) : event \in fresh}
  BY DEF NewEvents
<1>3. ASSUME NEW e \in NewEvents(r)
      PROVE  /\ e.call = r.call /\ e.attempt = r.attempt /\ ~IsStored(e.key)
             /\ e = NewEvent(r, e)
             /\ \E i \in DOMAIN Batch[r.call] : /\ e.key = Batch[r.call][i].key
                                               /\ e.data = Batch[r.call][i].data
  <2>1. PICK event \in fresh : e = NewEvent(r, event)
    BY <1>2, <1>3
  <2>2. PICK i \in DOMAIN Batch[r.call] : event = Batch[r.call][i]
    BY BatchKeys
  <2> QED
    BY <1>0, <1>1, <2>1, <2>2
<1>4. ASSUME NEW i \in DOMAIN Batch[r.call], ~IsStored(Batch[r.call][i].key)
      PROVE  \E e \in NewEvents(r) : /\ e.key = Batch[r.call][i].key
                                    /\ e.data = Batch[r.call][i].data
  <2>1. Batch[r.call][i] \in fresh
    BY <1>0, <1>4, BatchKeys
  <2>2. NewEvent(r, Batch[r.call][i]) \in NewEvents(r)
    BY <1>2, <2>1
  <2> QED
    BY <1>1, <2>2
<1> QED
  BY <1>3, <1>4

(* They are finitely many.                                                 *)
LEMMA NewEventsFinite ==
  ASSUME NEW r \in requests, r.call \in Calls
  PROVE  IsFiniteSet(NewEvents(r))
<1> DEFINE batch == Batch[r.call]
           f == [i \in 1..Len(batch) |-> NewEvent(r, batch[i])]
           T == {f[i] : i \in 1..Len(batch)}
<1>1. DOMAIN batch = 1..Len(batch) /\ Len(batch) \in Nat
  BY BatchKeys
<1>2. IsFiniteSet(1..Len(batch))
  BY <1>1, FS_Interval
<1>3. f \in Surjection(1..Len(batch), T)
  BY DEF Surjection
<1> HIDE DEF f, T
<1>4. IsFiniteSet(T)
  BY <1>2, <1>3, FS_Surjection
<1>5. NewEvents(r) \subseteq T
  BY <1>1 DEF NewEvents, Range, f, T
<1> QED
  BY <1>4, <1>5, FS_Subset

(* The answer to a request that passed has a receipt for each event: short *)
(* if its key is stored, or comes before it in the batch.                  *)
Receipts(r) == [i \in DOMAIN Batch[r.call] |-> Receipt(r.call, i)]

LEMMA ReceiptsHold ==
  ASSUME NEW r, r.call \in Calls
  PROVE  /\ Receipts(r) \in Seq([key : Keys, duplicate : BOOLEAN])
         /\ DOMAIN Receipts(r) = DOMAIN Batch[r.call]
         /\ \A i \in DOMAIN Batch[r.call] :
              /\ Receipts(r)[i].key = Batch[r.call][i].key
              /\ Receipts(r)[i].duplicate <=>
                   IsStored(Batch[r.call][i].key) \/ RepeatsKey(r.call, i)
<1> DEFINE receipts == Receipts(r)
           c == r.call
           n == Len(Batch[c])
           R == [key : Keys, duplicate : BOOLEAN]
<1>1. DOMAIN Batch[c] = 1..n /\ n \in Nat /\ \A i \in DOMAIN Batch[c] : Batch[c][i].key \in Keys
  BY BatchKeys
<1>2. \A i : /\ Receipt(c, i).key = Batch[c][i].key
             /\ Receipt(c, i).duplicate = (Stored(Batch[c][i].key) # {} \/ RepeatsKey(c, i))
             /\ Batch[c][i].key \in Keys => Receipt(c, i) \in R
  BY DEF Receipt
<1>3. \A key : Stored(key) # {} <=> IsStored(key)
  BY DEF Stored, IsStored
<1>4. DOMAIN receipts = 1..n /\ \A i \in 1..n : receipts[i] = Receipt(c, i)
  BY <1>1 DEF Receipts
<1>5. receipts = [i \in 1..n |-> receipts[i]]
  BY <1>1 DEF Receipts
<1> HIDE DEF receipts, R
<1>6. receipts \in [1..n -> R]
  BY <1>1, <1>2, <1>4, <1>5
<1>7. receipts \in Seq(R)
  BY <1>1, <1>6
<1> QED
  BY <1>1, <1>2, <1>3, <1>4, <1>7 DEF receipts, R

(* What the receipts of an attempt that is awaited say of the events that  *)
(* are there when it has been ingested.                                    *)
LEMMA ReceiptsStand ==
  ASSUME ServiceInv, NEW r \in requests, r.call \in Calls, IsAwaited(r), ~Conflicts(r.call),
         NEW i \in DOMAIN Batch[r.call],
         NEW receipt, receipt.key = Batch[r.call][i].key,
         receipt.duplicate <=> IsStored(Batch[r.call][i].key) \/ RepeatsKey(r.call, i)
  PROVE  \E e \in stored \cup NewEvents(r) : Stands(r.call, i, receipt, e)
<1> DEFINE c == r.call
           event == Batch[c][i]
<1>1. r.attempt = calls[c].attempt /\ r.attempt \in Nat /\ Attempts
  BY RequestTypes DEF IsAwaited, ServiceInv
<1>2. CASE IsStored(event.key)
  <2>1. PICK e \in stored : e.key = event.key
    BY <1>2 DEF IsStored
  <2>2. e.data = event.data
    BY <2>1 DEF Conflicts, Stored
  <2>3. e.call # c \/ e.attempt < calls[c].attempt
    <3>1. e.attempt \in Nat
      BY RequestTypes DEF ServiceInv
    <3>2. e.call = c => e.attempt <= calls[c].attempt /\ e.attempt # r.attempt
      BY <1>1 DEF Attempts
    <3> QED
      BY <1>1, <3>1, <3>2
  <2>4. receipt.duplicate
    BY <1>2
  <2>5. Stands(c, i, receipt, e)
    BY <2>1, <2>2, <2>3, <2>4 DEF Stands
  <2> QED
    BY <2>5
<1>3. CASE ~IsStored(event.key)
  <2>1. PICK e \in NewEvents(r) : e.key = event.key /\ e.data = event.data
    BY <1>3, NewEventsHold
  <2>2. e.call = c /\ e.attempt = r.attempt
    BY <2>1, NewEventsHold
  <2>3. ~(e.call # c \/ e.attempt < calls[c].attempt)
    BY <1>1, <2>2
  <2>4. receipt.duplicate <=> RepeatsKey(c, i)
    BY <1>3
  <2>5. Stands(c, i, receipt, e)
    BY <2>1, <2>3, <2>4 DEF Stands
  <2> QED
    BY <2>5
<1> QED
  BY <1>2, <1>3

(* A request that passes every check stores the rest of its batch at once. *)
LEMMA PostEventsInv ==
  ASSUME ServiceInv, NEW r \in requests, PostEvents(r)
  PROVE  ServiceInv'
<1> DEFINE new == NewEvents(r)
           c == r.call
<1>1. /\ ~Conflicts(c) /\ requests' = requests \ {r} /\ admitted' = admitted \ {r}
      /\ stored' = stored \cup new /\ UNCHANGED <<billing, month, apiKey, hits, required>>
  BY DEF PostEvents, Passes, EventChecks
<1>2. /\ TypeOK /\ BillingInv /\ Phases /\ Attempts /\ KeysOnce /\ BatchWhole /\ Answers /\ Clean
      /\ IsFiniteSet(stored)
  BY DEF ServiceInv
<1>3. /\ c \in Calls /\ r.attempt \in Nat \ {0} /\ r.attempt <= MaxAttempts
  BY <1>2, RequestTypes
<1>4. /\ \A e \in new :
           /\ e.call = c /\ e.attempt = r.attempt /\ ~IsStored(e.key) /\ e = NewEvent(r, e)
           /\ \E i \in DOMAIN Batch[c] : e.key = Batch[c][i].key /\ e.data = Batch[c][i].data
      /\ \A i \in DOMAIN Batch[c] :
           \/ IsStored(Batch[c][i].key)
           \/ \E e \in new : e.key = Batch[c][i].key /\ e.data = Batch[c][i].data
  BY <1>3, NewEventsHold
<1>5. IsFiniteSet(new)
  BY <1>3, NewEventsFinite
<1>6. /\ \A key : IsStored(key) => IsStored(key)'
      /\ \A key \in KeysOf(c) : IsStored(key)'
  <2>1. \A key : IsStored(key) => IsStored(key)'
    BY <1>1 DEF IsStored
  <2>2. ASSUME NEW key \in KeysOf(c)
        PROVE  IsStored(key)'
    <3>1. PICK i \in DOMAIN Batch[c] : key = Batch[c][i].key
      BY <1>3, BatchKeys DEF KeysOf
    <3> QED
      BY <1>1, <1>4, <2>1, <3>1 DEF IsStored
  <2> QED
    BY <2>1, <2>2
<1> HIDE DEF new
<1>7. PICK receipts : receipts = Receipts(r)
  OBVIOUS
<1>8. PICK status \in {200, 201} : Answer(r, status, receipts)
  <2>1. Status(c) \in {200, 201}
    BY DEF Status
  <2> QED
    BY <1>7, <2>1 DEF PostEvents, Receipts
<1>9. /\ calls' \in [Calls -> CallRecord]
      /\ \A d \in Calls :
           \/ calls'[d] = calls[d] /\ ~(d = c /\ IsAwaited(r))
           \/ /\ d = c /\ IsAwaited(r)
              /\ calls'[d].phase = "waiting" /\ calls'[d].attempt = calls[d].attempt
              /\ calls'[d].unsure = calls[d].unsure
              /\ calls'[d].answer.status = status /\ calls'[d].answer.receipts = receipts
  <2>1. CASE IsAwaited(r)
    <3>1. receipts \in Seq([key : Keys, duplicate : BOOLEAN])
      BY <1>3, <1>7, ReceiptsHold
    <3>2. status \in AnswerStatus
      BY DEF AnswerStatus
    <3>3. OnlyAnswers(r, status, receipts)
      BY <1>2, <1>8, <3>1, <3>2, AnswerTypes
    <3> QED
      BY <3>3 DEF OnlyAnswers
  <2>2. CASE ~IsAwaited(r)
    BY <1>2, <1>8, <2>2 DEF Answer, TypeOK
  <2> QED
    BY <2>1, <2>2
<1>10. \A d \in Calls : calls'[d].attempt = calls[d].attempt
  BY <1>9
<1>11. IsFiniteSet(stored') /\ Cardinality(stored) <= Cardinality(stored')
       /\ Cardinality(stored) \in Nat /\ Cardinality(stored') \in Nat
  <2>1. IsFiniteSet(stored') /\ stored \subseteq stored'
    BY <1>1, <1>2, <1>5, FS_Union
  <2> QED
    BY <1>2, <2>1, FS_Subset, FS_CardinalityType
<1>12. TypeOK'
  <2>1. BillingInv'
    BY <1>1, <1>2, BillingStepInv
  <2>2. requests' \subseteq [call : Calls, attempt : 1..MaxAttempts]
    BY <1>1, <1>2 DEF TypeOK
  <2>3. /\ admitted' \subseteq requests'
        /\ \A e \in stored' :
             /\ e.call \in Calls /\ e.attempt \in 1..MaxAttempts
             /\ \E event \in Range(Batch[e.call]) : e.key = event.key /\ e.data = event.data
    <3>1. \A e \in new :
            /\ e.call \in Calls /\ e.attempt \in 1..MaxAttempts
            /\ \E event \in Range(Batch[e.call]) : e.key = event.key /\ e.data = event.data
      <4>1. r.attempt \in 1..MaxAttempts
        BY <1>3, ServiceAssumption
      <4> QED
        BY <1>3, <1>4, <4>1, BatchKeys
    <3> QED
      BY <1>1, <1>2, <3>1 DEF TypeOK
  <2>4. month' \in [count : 0..MaxMonths, start : 0..Cardinality(stored')]
    BY <1>1, <1>2, <1>11 DEF TypeOK
  <2>5. hits' \in 0..MaxHits
    BY <1>1, <1>2 DEF TypeOK
  <2> QED
    BY <1>1, <1>2, <1>9, <2>1, <2>2, <2>3, <2>4, <2>5 DEF TypeOK, BillingInv
<1>13. Phases'
  BY <1>2, <1>9 DEF Phases, IsAwaited, IsOk
<1>14. Attempts'
  <2>1. \A q \in requests, e \in new : e.call = q.call /\ e.attempt = q.attempt => q = r
    BY <1>2, <1>4, RequestTypes
  <2>2. \A e \in new : e.attempt <= calls[e.call].attempt
    BY <1>2, <1>4 DEF Attempts
  <2>3. (\A q \in requests : q.attempt <= calls[q.call].attempt)'
    BY <1>1, <1>2, <1>10, RequestTypes DEF Attempts
  <2>4. (\A e \in stored : e.attempt <= calls[e.call].attempt)'
    <3>1. \A e \in stored' : /\ e.attempt <= calls[e.call].attempt
                             /\ e.call \in Calls
      BY <1>1, <1>2, <1>3, <1>4, <2>2, RequestTypes DEF Attempts
    <3> QED
      BY <1>10, <3>1
  <2>5. ASSUME NEW q \in requests', NEW e \in stored'
        PROVE  ~(e.call = q.call /\ e.attempt = q.attempt)
    <3>1. q \in requests /\ q # r
      BY <1>1
    <3> QED
      BY <1>1, <1>2, <2>1, <3>1 DEF Attempts
  <2> QED
    BY <2>3, <2>4, <2>5 DEF Attempts
<1>15. KeysOnce'
  <2>1. ASSUME NEW e \in new, NEW f \in new, e.key = f.key
        PROVE  e = f
    <3>1. PICK i \in DOMAIN Batch[c] : e.key = Batch[c][i].key /\ e.data = Batch[c][i].data
      BY <1>4
    <3>2. PICK j \in DOMAIN Batch[c] : f.key = Batch[c][j].key /\ f.data = Batch[c][j].data
      BY <1>4
    <3>3. Batch[c][i].key = Batch[c][j].key => Batch[c][i].data = Batch[c][j].data
      BY <1>1, <3>1, <3>2 DEF Conflicts
    <3>4. Batch[c][i].key = Batch[c][j].key
      BY <2>1, <3>1, <3>2
    <3>5. e.data = f.data
      BY <3>1, <3>2, <3>3, <3>4
    <3> QED
      BY <1>4, <2>1, <3>5 DEF NewEvent
  <2> QED
    BY <1>1, <1>2, <1>4, <2>1 DEF KeysOnce, IsStored
<1>16. BatchWhole'
  <2> SUFFICES ASSUME NEW e \in stored', NEW key \in KeysOf(e.call)
               PROVE  IsStored(key)'
    BY DEF BatchWhole
  <2>1. CASE e \in stored
    BY <1>2, <1>6, <2>1 DEF BatchWhole
  <2>2. CASE e \in new
    BY <1>4, <1>6, <2>2
  <2> QED
    BY <1>1, <2>1, <2>2
<1>17. Answers'
  <2> SUFFICES ASSUME NEW d \in Calls, IsOk(calls'[d].answer.status)
               PROVE  GoodReceipts(d)'
    BY DEF Answers
  <2>1. CASE calls'[d] = calls[d]
    <3>1. GoodReceipts(d)
      BY <1>2, <2>1 DEF Answers
    <3> QED
      BY <1>1, <2>1, <3>1 DEF GoodReceipts, Stands
  <2>2. CASE d = c /\ IsAwaited(r) /\ calls'[d].answer.receipts = receipts
    <3>1. /\ DOMAIN receipts = DOMAIN Batch[c]
          /\ \A i \in DOMAIN Batch[c] :
               /\ receipts[i].key = Batch[c][i].key
               /\ receipts[i].duplicate <=> IsStored(Batch[c][i].key) \/ RepeatsKey(c, i)
      BY <1>3, <1>7, ReceiptsHold
    <3>2. ASSUME NEW i \in DOMAIN Batch[c]
          PROVE  \E e \in stored' : Stands(c, i, receipts[i], e)'
      <4>1. PICK receipt : receipt = receipts[i]
        OBVIOUS
      <4>2. \E e \in stored \cup NewEvents(r) : Stands(c, i, receipt, e)
        BY <1>1, <1>3, <2>2, <3>1, <4>1, ReceiptsStand
      <4>3. PICK e \in stored' : Stands(c, i, receipts[i], e)
        BY <1>1, <4>1, <4>2 DEF new
      <4>4. Stands(c, i, receipts[i], e)'
        BY <1>3, <1>10, <4>3 DEF Stands
      <4> QED
        BY <4>4
    <3> QED
      BY <2>2, <3>1, <3>2 DEF GoodReceipts, Stands
  <2> QED
    BY <1>9, <2>1, <2>2
<1>18. Clean'
  <2> SUFFICES ASSUME NEW d \in Calls, ~calls'[d].unsure
               PROVE  /\ Refused(d)' \/ Unanswered(d)' => ~HasWritten(d)'
                      /\ \A q \in requests' : q.call = d =>
                           /\ ~Refused(d)'
                           /\ Unanswered(d)' => q.attempt = calls'[d].attempt
    BY DEF Clean
  <2>1. CASE d # c
    <3>1. calls'[d] = calls[d] /\ (HasWritten(d)' => HasWritten(d))
      BY <1>1, <1>4, <1>9, <2>1 DEF HasWritten
    <3>2. \A q \in requests' : q.call = d => q \in requests
      BY <1>1
    <3> QED
      BY <1>2, <3>1, <3>2, CleanCarries
  <2>2. CASE d = c /\ IsAwaited(r)
    <3>1. calls'[d].phase = "waiting" /\ calls'[d].answer.status \in {200, 201}
      BY <1>9, <2>2
    <3>2. ~Refused(d)' /\ ~Unanswered(d)'
      BY <3>1 DEF Refused, Unanswered
    <3> QED
      BY <3>2
  <2>3. CASE d = c /\ ~IsAwaited(r)
    <3>1. calls'[d] = calls[d] /\ ~calls[d].unsure
      BY <1>9, <2>3
    <3>2. ~Refused(d) /\ (Unanswered(d) => r.attempt = calls[d].attempt)
      BY <1>2, <2>3, <3>1 DEF Clean
    <3>3. ~Unanswered(d)
      BY <1>2, <2>3, <3>2 DEF Unanswered, IsAwaited, Phases
    <3>4. ~Refused(d)' /\ ~Unanswered(d)'
      BY <3>1, <3>2, <3>3 DEF Refused, Unanswered
    <3> QED
      BY <3>4
  <2> QED
    BY <2>1, <2>2, <2>3
<1>19. BillingInv'
  BY <1>1, <1>2, BillingStepInv
<1> QED
  BY <1>11, <1>12, <1>13, <1>14, <1>15, <1>16, <1>17, <1>18, <1>19 DEF ServiceInv

-------------------------------------------------------------------------------
(* The other steps.                                                        *)

(* They change nothing the calls depend on.                                *)
LEMMA OtherStepInv ==
  ASSUME ServiceInv, UNCHANGED <<calls, requests, stored>>, BillingInv', admitted' \subseteq requests,
         month' \in [count : 0..MaxMonths, start : 0..Cardinality(stored)],
         apiKey' \in [live : BOOLEAN, scopes : KeyScopes],
         hits' \in 0..MaxHits, required' \in BOOLEAN
  PROVE  ServiceInv'
<1>1. TypeOK'
  BY DEF ServiceInv, TypeOK, BillingInv
<1>2. Phases' /\ Attempts'
  BY DEF ServiceInv, Phases, Attempts
<1>3. KeysOnce' /\ BatchWhole' /\ Answers'
  BY DEF ServiceInv, KeysOnce, BatchWhole, Answers, GoodReceipts, Stands, IsStored
<1>4. Clean'
  <2>1. Clean /\ calls' = calls /\ requests' = requests /\ stored' = stored
    BY DEF ServiceInv
  <2>2. ASSUME NEW c \in Calls, ~calls'[c].unsure
        PROVE  /\ Refused(c)' \/ Unanswered(c)' => ~HasWritten(c)'
               /\ \A q \in requests' : q.call = c =>
                    /\ ~Refused(c)'
                    /\ Unanswered(c)' => q.attempt = calls'[c].attempt
    <3>1. HasWritten(c)' => HasWritten(c)
      BY <2>1 DEF HasWritten
    <3> QED
      BY <2>1, <2>2, <3>1, CleanCarries
  <2> QED
    BY <2>2 DEF Clean
<1> QED
  BY <1>1, <1>2, <1>3, <1>4 DEF ServiceInv

LEMMA ServiceStepInv == ServiceInv /\ [Next]_vars => ServiceInv'
<1> SUFFICES ASSUME ServiceInv, [Next]_vars
             PROVE  ServiceInv'
  OBVIOUS
<1>0. /\ TypeOK /\ BillingInv /\ IsFiniteSet(stored) /\ Cardinality(stored) \in Nat
      /\ month \in [count : 0..MaxMonths, start : 0..Cardinality(stored)]
      /\ apiKey \in [live : BOOLEAN, scopes : KeyScopes]
      /\ hits \in 0..MaxHits /\ required \in BOOLEAN /\ admitted \subseteq requests
  BY FS_CardinalityType DEF ServiceInv, TypeOK
<1>1. CASE \E c \in Calls : StartCall(c) \/ Resend(c)
  <2>0. \A c \in Calls : calls[c].phase = "new" => calls[c].attempt = 0
    BY DEF ServiceInv, Phases
  <2>1. PICK c \in Calls : /\ calls[c].phase \in {"new", "backoff"}
                           /\ Send(c, calls[c].attempt + 1)
    BY <1>1, <2>0 DEF StartCall, Resend
  <2> QED
    BY <2>1, SendInv
<1>2. CASE \E c \in Calls : TakeAnswer(c) \/ LoseBody(c) \/ TimeOut(c)
  BY <1>2, TakeAnswerInv, LoseInv
<1>9. CASE \E r \in requests : Admit(r)
  <2>1. PICK r \in requests : Admit(r)
    BY <1>9
  <2>2. BillingInv'
    BY <1>0, <2>1, BillingStepInv DEF Admit
  <2>3. hits' \in 0..MaxHits
    <3>1. ~EntryChecks[2].fails /\ hits' = hits + 1
      BY <2>1 DEF Admit, Passes
    <3> QED
      BY <1>0, <3>1, CheckStatus, ServiceAssumption
  <2> QED
    BY <1>0, <2>1, <2>2, <2>3, OtherStepInv DEF Admit
<1>10. CASE \E r \in requests : PostEvents(r) \/ ServerError(r) \/ GatewayError(r)
  BY <1>10, PostEventsInv, ServerErrorInv, GatewayErrorInv
<1>11. CASE \E r \in requests : \E n \in 1..3 : TurnAway(r, n) \/ Refuse(r, n)
  BY <1>11, RefusedInv
<1>3. CASE \E r \in requests : \/ Admit(r) \/ PostEvents(r) \/ ServerError(r) \/ GatewayError(r)
                              \/ \E n \in 1..3 : TurnAway(r, n) \/ Refuse(r, n)
  BY <1>3, <1>9, <1>10, <1>11
<1>4. CASE EndWindow
  <2>1. BillingInv'
    BY <1>0, <1>4, BillingStepInv DEF EndWindow
  <2>2. hits' \in 0..MaxHits
    BY <1>4, ServiceAssumption DEF EndWindow
  <2> QED
    BY <1>0, <1>4, <2>1, <2>2, OtherStepInv DEF EndWindow
<1>5. CASE NewMonth
  <2>1. BillingInv'
    BY <1>0, <1>5, BillingStepInv DEF NewMonth
  <2>2. month' \in [count : 0..MaxMonths, start : 0..Cardinality(stored)]
    BY <1>0, <1>5, ServiceAssumption DEF NewMonth
  <2> QED
    BY <1>0, <1>5, <2>1, <2>2, OtherStepInv DEF NewMonth
<1>6. CASE RevokeKey
  <2>1. BillingInv'
    BY <1>0, <1>6, BillingStepInv DEF RevokeKey
  <2>2. apiKey' \in [live : BOOLEAN, scopes : KeyScopes]
    BY <1>0, <1>6 DEF RevokeKey
  <2> QED
    BY <1>0, <1>6, <2>1, <2>2, OtherStepInv DEF RevokeKey
<1>7. CASE SetRequireClientSig
  <2>1. BillingInv'
    BY <1>0, <1>7, BillingStepInv DEF SetRequireClientSig
  <2>2. required' \in BOOLEAN
    BY <1>7 DEF SetRequireClientSig
  <2> QED
    BY <1>0, <1>7, <2>1, <2>2, OtherStepInv DEF SetRequireClientSig
<1>8. CASE (BillingNext \/ UNCHANGED billing) /\ UNCHANGED service
  <2>1. BillingInv'
    BY <1>0, <1>8, BillingStepInv
  <2> QED
    BY <1>0, <1>8, <2>1, OtherStepInv DEF service
<1> QED
  BY <1>1, <1>2, <1>3, <1>4, <1>5, <1>6, <1>7, <1>8 DEF Next, vars

-------------------------------------------------------------------------------
(* Theorems.                                                               *)

(* The inductive invariant holds in every reachable state.                 *)
THEOREM ServiceInvariant == Spec => []ServiceInv
<1>1. Init => ServiceInv
  BY ServiceInitInv
<1>2. ServiceInv /\ [Next]_vars => ServiceInv'
  BY ServiceStepInv
<1> QED
  BY <1>1, <1>2, PTL DEF Spec

(* Every variable keeps its type.                                          *)
THEOREM TypeCorrect == Spec => []TypeOK
<1>1. ServiceInv => TypeOK
  BY DEF ServiceInv
<1> QED
  BY <1>1, ServiceInvariant, PTL

(* However often the SDK resends and however late a request arrives, no    *)
(* key is stored twice, and a call that returns holds a receipt for each   *)
(* of its events, all of them stored with its data; a receipt is short     *)
(* exactly if an earlier attempt, another call or an earlier place in the  *)
(* batch stored the event (sdk #send; events.ts ingest).                   *)
THEOREM CallsDoLogOnce == Spec => []CallsLogOnce
<1>1. ServiceInv => CallsLogOnce
  <2> SUFFICES ASSUME ServiceInv
               PROVE  CallsLogOnce
    OBVIOUS
  <2>1. \A c \in Calls : calls[c].phase = "returned" => GoodReceipts(c)
    BY DEF ServiceInv, Phases, Answers
  <2> QED
    BY <2>1 DEF ServiceInv, KeysOnce, CallsLogOnce, GoodReceipts, Stands
<1> QED
  BY <1>1, ServiceInvariant, PTL

(* A call that failed with the server's own answer to each of its attempts *)
(* wrote nothing, and no call writes a part of its batch (app.ts, the      *)
(* checks before ingest; events.ts ingest, one transaction).               *)
THEOREM FailuresAreClean == Spec => []FailureIsClean
<1>1. ServiceInv => FailureIsClean
  <2> SUFFICES ASSUME ServiceInv, NEW c \in Calls
               PROVE  /\ calls[c].phase = "failed" /\ ~calls[c].unsure => WrittenBy(c) = {}
                      /\ \/ WrittenBy(c) = {}
                         \/ \A key \in KeysOf(c) : key \in WrittenBy(c) \/ SharesKey(c, key)
    BY DEF FailureIsClean
  <2>1. calls[c].phase = "failed" /\ ~calls[c].unsure => ~HasWritten(c)
    BY DEF ServiceInv, Clean, Refused
  <2>2. ~HasWritten(c) => WrittenBy(c) = {}
    BY DEF HasWritten, WrittenBy
  <2>3. ASSUME HasWritten(c), NEW key \in KeysOf(c)
        PROVE  key \in WrittenBy(c) \/ SharesKey(c, key)
    <3>1. PICK f \in stored : f.key = key
      BY <2>3 DEF ServiceInv, BatchWhole, HasWritten, IsStored
    <3>2. f.call \in Calls /\ key \in KeysOf(f.call)
      BY <3>1, RequestTypes DEF ServiceInv, TypeOK
    <3>3. CASE f.call = c
      BY <3>1, <3>3 DEF WrittenBy
    <3>4. CASE f.call # c
      BY <3>2, <3>4 DEF SharesKey
    <3> QED
      BY <3>3, <3>4
  <2> QED
    BY <2>1, <2>2, <2>3
<1> QED
  BY <1>1, ServiceInvariant, PTL

(* However Stripe's events were delivered and wherever a crash cut their   *)
(* handling, a paid plan is that of a subscription event handled to its    *)
(* end, with its customer known; and the plan that the newest event seen   *)
(* sets, if it was handled to its end, is not undone by an older event     *)
(* (billing.ts applyStripeEvent).                                          *)
THEOREM PlanAlwaysFollows == Spec => []PlanFollowsStripe
<1>1. ServiceInv => PlanFollowsStripe
  BY DEF ServiceInv, BillingInv, NewestDecides, PaidFor, PlanFollowsStripe
<1> QED
  BY <1>1, ServiceInvariant, PTL

===============================================================================
