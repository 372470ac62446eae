--------------------------------- MODULE Billing ---------------------------------
(***************************************************************************)
(* What a project pays for: Stripe's events about its checkouts and        *)
(* subscriptions arrive at POST /webhooks/stripe, any number of times and  *)
(* in any order, and set project.plan (packages/server/src/billing.ts).    *)
(*                                                                         *)
(* An event is its kind and the second it was created in.  The handler's   *)
(* statements commit one by one: "ran" says how many of the four did when  *)
(* the process died, four being a handler that returned.                   *)
(***************************************************************************)
EXTENDS Integers, Sequences

CONSTANTS
  Kinds,            \* what Stripe tells: [type, status, price]
  Prices,           \* prices the server is configured with, named by their plans
  MaxStripeEvents   \* bound: events Stripe creates

ASSUME BillingAssumption == MaxStripeEvents \in Nat /\ "free" \notin Prices

VARIABLES
  sent,      \* Stripe's events in the order of their creation: [kind, created]
  seen,      \* stripe_event: indices of the events recorded
  mark,      \* billing.last_event_created, 0 before the first event
  customer,  \* whether billing.customer_id is known
  plan,      \* project.plan
  cut        \* history: events whose handling a crash cut short

billing == <<sent, seen, mark, customer, plan, cut>>

BillingInit ==
  /\ sent = <<>> /\ seen = {} /\ mark = 0 /\ customer = FALSE /\ plan = "free" /\ cut = {}

Now == IF sent = <<>> THEN 1 ELSE sent[Len(sent)].created

(* Stripe creates an event, perhaps in the same second as the last. *)
StripeEvent(kind, later) ==
  /\ Len(sent) < MaxStripeEvents
  /\ sent' = Append(sent, [kind |-> kind, created |-> Now + later])
  /\ UNCHANGED <<seen, mark, customer, plan, cut>>

IsSubscription(kind) ==
  kind.type \in {"customer.subscription.created", "customer.subscription.updated"}

(* The plan an event sets, if it sets one. *)
PlanSet(kind) ==
  {p \in Prices : IsSubscription(kind) /\ kind.status \in {"active", "trialing"} /\ p = kind.price}
  \cup {p \in {"free"} : \/ IsSubscription(kind) /\ kind.status \in {"canceled", "unpaid"}
                         \/ kind.type = "customer.subscription.deleted"}

NamesCustomer(kind) == IsSubscription(kind) \/ kind.type = "checkout.session.completed"

(* Mutant: events are applied in the order they arrive. *)
IsFreshAlways(event) == TRUE

IsFresh(event) == event.created >= mark

(* POST /webhooks/stripe: the event is recorded as seen; unless it is older *)
(* than one applied before, the mark rises, the customer is noted and the   *)
(* plan set.  A repeated delivery does nothing.                             *)
ApplyStripeEvent(i, ran) ==
  LET event == sent[i]
      fresh == IsFresh(event)
  IN /\ i \notin seen
     /\ seen' = seen \cup {i}
     /\ mark' = IF fresh /\ ran >= 2 /\ event.created > mark THEN event.created ELSE mark
     /\ customer' = (customer \/ (fresh /\ ran >= 3 /\ NamesCustomer(event.kind)))
     /\ IF fresh /\ ran = 4 /\ PlanSet(event.kind) # {}
          THEN plan' \in PlanSet(event.kind) ELSE plan' = plan
     /\ cut' = IF ran < 4 THEN cut \cup {i} ELSE cut
     /\ UNCHANGED sent

BillingNext ==
  \/ \E kind \in Kinds, later \in 0..1 : StripeEvent(kind, later)
  \/ \E i \in DOMAIN sent, ran \in 1..4 : ApplyStripeEvent(i, ran)

-------------------------------------------------------------------------------
(* Properties.                                                             *)

BillingTypeOK ==
  /\ sent \in Seq([kind : Kinds, created : Nat \ {0}])
  /\ cut \subseteq seen /\ seen \subseteq DOMAIN sent
  /\ mark \in {0} \cup {sent[i].created : i \in seen}
  /\ customer \in BOOLEAN
  /\ plan \in Prices \cup {"free"}

(* The plan follows what Stripe told, in whatever order and however often  *)
(* that was delivered, and wherever a crash cut its handling short: a paid *)
(* plan is that of a subscription event handled to its end, and its        *)
(* customer is known; and if the newest event seen was handled to its end  *)
(* and sets a plan, that plan stands (billing.ts:95, "an older event must  *)
(* not undo a newer state").  The code does no more.  Of two events of one *)
(* second the later to arrive wins; an event that was cut short is lost,   *)
(* for its repetition counts as seen; and checkout.session.completed sets  *)
(* no plan, though docs/web-api.md:41 says it does, and when it is seen    *)
(* first, an older subscription event is dropped and the plan not begun.   *)
PlanFollowsStripe ==
  /\ plan # "free" => customer /\ \E i \in seen \ cut : plan \in PlanSet(sent[i].kind)
  /\ \A i \in seen \ cut :
       PlanSet(sent[i].kind) # {} /\ (\A j \in seen \ {i} : sent[j].created < sent[i].created)
         => plan \in PlanSet(sent[i].kind)
=================================================================================
