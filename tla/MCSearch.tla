------------------------------- MODULE MCSearch -------------------------------
(* A small instance of Search for TLC: three events of two tenants, at two  *)
(* moments, read in pages of one.                                           *)
EXTENDS Search
===============================================================================
