---------------------------- MODULE MCRekorAnchor ----------------------------
(* A small instance of RekorAnchor for TLC: two calls of two posts to each  *)
(* log, whose trees grow to five leaves.                                    *)
EXTENDS RekorAnchor
==============================================================================
