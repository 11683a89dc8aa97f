--------------------------- MODULE MCDirectSender ----------------------------
(* An instance of DirectSender for TLC: a domain with two exchangers, one   *)
(* with a null MX, and an address without a domain.                         *)
EXTENDS DirectSender, TLC

CONSTANTS alice, bob, noAt, d1, d2

MCDomainOf == (alice :> d1) @@ (bob :> d2) @@ (noAt :> NoDomain)
MCMX ==
    (d1 :> {[host |-> "mx1", pref |-> 10], [host |-> "mx2", pref |-> 20]})
    @@ (d2 :> {[host |-> Null, pref |-> 0]})
=============================================================================
