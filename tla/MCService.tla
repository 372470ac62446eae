------------------------------ MODULE MCService ------------------------------
(* A small instance of Service for TLC: a log(), a logBulk() that has the   *)
(* log's event and another one twice, and a log() that has the other key    *)
(* with other data; under a plan that admits three events a month or one    *)
(* that admits six, while Stripe sells the larger plan and ends it.         *)
EXTENDS Service

MCKinds ==
  {[type |-> "checkout.session.completed", status |-> "complete", price |-> "none"],
   [type |-> "customer.subscription.updated", status |-> "active", price |-> "pro"],
   [type |-> "customer.subscription.deleted", status |-> "canceled", price |-> "pro"]}
MCKeyScopes == {{"write"}, {"read"}}
Event(k, d) == [key |-> k, data |-> d]
MCBatch ==
  [c \in Calls |-> CASE c = "log" -> <<Event(1, "a")>>
                     [] c = "bulk" -> <<Event(1, "a"), Event(2, "b"), Event(2, "b")>>
                     [] c = "other" -> <<Event(2, "c")>>]

(* The bounds: two events of Stripe while no call has begun; then one of    *)
(* its events, handled to its end, or a new month, a revoked key, a changed *)
(* policy beside the log and the bulk; or nothing beside the bulk and the   *)
(* other log.                                                               *)
Disturbances ==
  Len(sent) + month.count + (IF apiKey.live THEN 0 ELSE 1) + (IF required THEN 1 ELSE 0)
Begun == {c \in Calls : calls[c].phase # "new"}
Bounded ==
  \/ Begun = {}
  \/ /\ Begun \subseteq {"log", "bulk"} /\ Disturbances <= 1
     /\ cut = {} /\ \A i \in DOMAIN sent : sent[i].created = 1
  \/ Begun \subseteq {"bulk", "other"} /\ Disturbances = 0

MCLimit == [p \in Prices \cup {"free"} |-> IF p = "free" THEN 3 ELSE 6]
===============================================================================
