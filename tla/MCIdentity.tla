------------------------------ MODULE MCIdentity ------------------------------
(* A small instance of Identity for TLC: one user signs in twice, owns up   *)
(* to two projects and sees the sandbox; two grants to one client, of       *)
(* which a family can be rotated twice.                                     *)
EXTENDS Identity

MCRequests == {{"read"}, {"read", "write", "admin"}}
===============================================================================
