--------------------------- MODULE MCGraphPoller ----------------------------
(* Instances of GraphPoller for TLC.                                        *)
EXTENDS GraphPoller
=============================================================================
