---------------------------- MODULE MCMailStore -----------------------------
(* Instances of MailStore for TLC.                                          *)
EXTENDS MailStore, TLC

ProcSymmetry == Permutations(Procs)

\* an hour count that is not positive, or that wraps
MCTTLs == {-1}
=============================================================================
