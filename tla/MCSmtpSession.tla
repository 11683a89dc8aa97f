--------------------------- MODULE MCSmtpSession -----------------------------
(* An instance of SmtpSession for TLC.                                      *)
EXTENDS SmtpSession, TLC

CONSTANTS exact, sub, elsewhere

\* nobody of ours, the envelope's address, another one of ours, ours second
MCHeaders == {<< >>, <<exact>>, <<sub, exact>>, <<elsewhere, exact>>}

ProcSymmetry == Permutations(Procs)
=============================================================================
