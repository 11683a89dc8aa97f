--------------------------- MODULE MCRefreshToken ---------------------------
(* Instances of RefreshToken for TLC.                                       *)
EXTENDS RefreshToken
=============================================================================
