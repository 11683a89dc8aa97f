----------------------------- MODULE MCOnDemand -----------------------------
(* An instance of OnDemand for TLC.                                         *)
EXTENDS OnDemand
=============================================================================
