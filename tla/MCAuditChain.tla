---------------------------- MODULE MCAuditChain ------------------------------
(* A small instance of AuditChain: two tenants, one idempotency key and the *)
(* empty one, two good bodies and a malformed one, one client key.          *)
EXTENDS AuditChain

CONSTANTS t1, t2, b1, b2, bad, k1, c1

From(t, body, key, sig) ==
  [tenant |-> t, action |-> "app", target |-> 0,
   data |-> [body |-> body, ref |-> 0], key |-> key, sig |-> sig]

(* A caller may log an action of the server's name. *)
LookAlike(t, body, id) ==
  [From(t, body, NoKey, NoSig) EXCEPT !.action = "payload.erased", !.target = id]

MCRequest ==
  {From(t1, b1, k1, NoSig), From(t1, b2, k1, c1), From(t1, bad, NoKey, NoSig),
   From(t1, b1, EmptyKey, NoSig), LookAlike(t2, b1, 1)}
===============================================================================
