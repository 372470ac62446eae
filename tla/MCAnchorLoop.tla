---------------------------- MODULE MCAnchorLoop ------------------------------
(* A small instance of AnchorLoop: the server's own project, anchored at    *)
(* every tick, and a customer's that is wiped nightly and due every second  *)
(* one.                                                                     *)
EXTENDS AnchorLoop, TLC

CONSTANTS self, demo, rekor, ots, t1, t2

MCAnchors == <<rekor, ots>>
OneAnchor == <<ots>>
NoInterval == (self :> 0) @@ (demo :> 0)
MCInterval == (self :> 0) @@ (demo :> 1)
===============================================================================
