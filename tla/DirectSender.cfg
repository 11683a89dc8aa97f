CONSTANTS
    alice = alice
    bob = bob
    noAt = noAt
    d1 = d1
    d2 = d2
    Recipients = {alice, bob, noAt}
    Domains = {d1, d2}
    NoDomain = NoDomain
    DomainOf <- MCDomainOf
    MX <- MCMX
    Null = Null
    Relay = Relay
    Tries = 2
SPECIFICATION FairSpec
INVARIANTS
    TypeOK
    AcceptedMeansDelivered
    RejectedHasReason
    DuplicateOnlyIfExcused
PROPERTIES
    SendGetsOn
    SendEnds
