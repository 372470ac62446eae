----------------------------- MODULE MCOtsAnchor -----------------------------
(* A small instance of OtsAnchor for TLC: three pools, each in front of a  *)
(* calendar of its own, one of which upgrade may not contact, not in the   *)
(* order of their names; block heights take up to three digits.            *)
EXTENDS OtsAnchor

MCPools == <<2, 1, 3>>
==============================================================================
