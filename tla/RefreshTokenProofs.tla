------------------------- MODULE RefreshTokenProofs -------------------------
(***************************************************************************)
(* RefreshToken for any lifetimes, any margin no shorter than the HTTP     *)
(* timeout, and any number of rotations, crashes and faults.               *)
(***************************************************************************)
EXTENDS RefreshToken, TLAPS

LEMMA InitType == Init => TypeOK
<1> SUFFICES ASSUME Init PROVE TypeOK
  OBVIOUS
<1>1. /\ file \in Files /\ (file.state = "none" <=> ~EnvFile)
      /\ file.state = "whole" => file.token # 0
  BY EnvFileAssumption DEF Init, Files, EnvToken
<1>2. reply \in Replies /\ 0 \in 0..MaxFaults
  BY BoundsAssumption DEF Init, Replies
<1>3. now \in Nat /\ valid \in Nat \ {0} /\ pc = "down" /\ refresh = 0
      /\ access \in Nat /\ expiry \in Int /\ handed = -1 /\ faults = 0
  BY DEF Init, EnvToken
<1>4. hurt \in BOOLEAN
  BY DEF Init
<1> QED
  BY <1>1, <1>2, <1>3, <1>4 DEF TypeOK

LEMMA TypeStep == TypeOK /\ [Next]_vars => TypeOK'
<1> SUFFICES ASSUME TypeOK, [Next]_vars PROVE TypeOK'
  OBVIOUS
<1> USE DEF TypeOK
<1>1. Fault => faults' \in 0..MaxFaults
  BY BoundsAssumption DEF Fault
<1>2. Lifetime \in Nat /\ Margin \in Nat /\ Lives \subseteq Nat
  BY LivesAssumption, MarginAssumption DEF Lifetime, Replies
<1>3. CASE StartRefused \/ UNCHANGED vars
  BY <1>3 DEF StartRefused, vars
<1>4. CASE Start
  <2>1. Stored \in Nat \ {0}
    BY <1>4 DEF Start, Stored, EnvToken, Files
  <2> QED
    BY <1>4, <2>1 DEF Start
<1>5. CASE UseCached
  BY <1>5 DEF UseCached
<1>6. CASE Exchange
  <2>1. PICK rotates \in BOOLEAN, l \in Lives :
          /\ valid' = IF rotates THEN valid + 1 ELSE valid
          /\ reply' = [refresh |-> IF rotates THEN valid' ELSE 0,
                       life |-> l, issued |-> now]
    BY <1>6 DEF Exchange
  <2>2. valid' \in Nat \ {0} /\ reply' \in Replies
    BY <1>2, <2>1 DEF Replies
  <2> QED
    BY <1>6, <2>2 DEF Exchange
<1>7. CASE ExchangeRefused
  BY <1>1, <1>7 DEF ExchangeRefused
<1>8. CASE ReplyLost
  BY <1>1, <1>8 DEF ReplyLost
<1>9. CASE Reply
  BY <1>9 DEF Reply, Rotated, Replies
<1>10. CASE Cache
  BY <1>2, <1>10 DEF Cache, NextExpiry, Replies
<1>11. CASE ReadEnv
  BY <1>11 DEF ReadEnv
<1>12. CASE TruncateEnv \/ WriteEnv
  <2>1. /\ file' \in Files /\ file'.state # "none" /\ EnvFile
        /\ file'.state = "whole" => file'.token # 0
    BY <1>12 DEF TruncateEnv, WriteEnv, Files
  <2> QED
    BY <1>12, <2>1 DEF TruncateEnv, WriteEnv
<1>13. CASE PersistFails
  BY <1>1, <1>13 DEF PersistFails
<1>14. CASE Tick
  BY <1>14 DEF Tick
<1>15. CASE Crash
  BY <1>1, <1>15 DEF Crash
<1> QED
  BY <1>3, <1>4, <1>5, <1>6, <1>7, <1>8, <1>9, <1>10, <1>11, <1>12, <1>13,
     <1>14, <1>15 DEF Next

-----------------------------------------------------------------------------
(* The access token                                                        *)

\* While an exchange runs, its response is no older than the HTTP timeout; the
\* cached token is dropped before it dies.
AliveInv ==
    /\ reply.life \in Lives \cup {0}
    /\ pc \notin {"down", "idle"} => now <= reply.issued + Delay
    /\ access # 0 => expiry <= access
    /\ HandedIsAlive

LEMMA AliveStep == TypeOK /\ AliveInv /\ [Next]_vars => AliveInv'
<1> SUFFICES ASSUME TypeOK, AliveInv, [Next]_vars PROVE AliveInv'
  OBVIOUS
<1> USE DEF TypeOK, Replies
<1>1. Margin \in Nat /\ Delay \in Nat /\ Delay <= Margin
  BY MarginAssumption
<1>2. CASE StartRefused \/ UNCHANGED vars
  BY <1>2 DEF StartRefused, vars, AliveInv, HandedIsAlive
<1>3. CASE Start
  BY <1>3 DEF Start, AliveInv, HandedIsAlive
<1>4. CASE UseCached
  BY <1>4 DEF UseCached, Cached, AliveInv, HandedIsAlive
<1>5. CASE Exchange
  BY <1>1, <1>5 DEF Exchange, AliveInv, HandedIsAlive
<1>6. CASE ExchangeRefused \/ ReplyLost \/ Reply
  BY <1>6 DEF ExchangeRefused, ReplyLost, Reply, AliveInv, HandedIsAlive
<1>7. CASE Cache
  <2>1. Lifetime \in Nat /\ Lifetime > Delay
    BY LivesAssumption DEF AliveInv, Lifetime
  <2>2. now <= reply.issued + Delay
    BY <1>7 DEF Cache, AliveInv
  <2> QED
    BY <1>1, <1>7, <2>1, <2>2 DEF Cache, NextExpiry, AliveInv, HandedIsAlive
<1>8. CASE ReadEnv \/ TruncateEnv \/ WriteEnv \/ PersistFails
  BY <1>8 DEF ReadEnv, TruncateEnv, WriteEnv, PersistFails, AliveInv, HandedIsAlive
<1>9. CASE Tick
  BY <1>1, <1>9 DEF Tick, AliveInv, HandedIsAlive
<1>10. CASE Crash
  BY <1>10 DEF Crash, AliveInv, HandedIsAlive
<1> QED
  BY <1>2, <1>3, <1>4, <1>5, <1>6, <1>7, <1>8, <1>9, <1>10 DEF Next

-----------------------------------------------------------------------------
(* The refresh token                                                       *)

\* Where the newest token is while it travels from the server to .env
GrantInv ==
    ~hurt =>
        /\ pc = "reply" =>
              /\ reply.refresh = 0 => refresh = valid
              /\ reply.refresh # 0 => reply.refresh = valid
        /\ pc \notin {"reply", "down"} => refresh = valid
        /\ pc \in {"reply", "read", "truncate"} => file.state = "whole"
        /\ pc = "reply" => file.token = refresh
        /\ pc \in {"idle", "down", "cache"} => file.state = "whole" /\ file.token = valid

LEMMA GrantStep ==
    ASSUME EnvFile
    PROVE  TypeOK /\ GrantInv /\ [Next]_vars => GrantInv'
<1> SUFFICES ASSUME TypeOK, GrantInv, [Next]_vars PROVE GrantInv'
  OBVIOUS
<1> USE DEF TypeOK, GrantInv
<1>1. CASE Start \/ StartRefused \/ UNCHANGED vars
  BY <1>1 DEF Start, StartRefused, Stored, vars
<1>2. CASE UseCached \/ ExchangeRefused \/ Tick
  BY <1>2 DEF UseCached, ExchangeRefused, Tick
<1>3. CASE Exchange
  <2>1. PICK rotates \in BOOLEAN, l \in Lives :
          /\ valid' = IF rotates THEN valid + 1 ELSE valid
          /\ reply' = [refresh |-> IF rotates THEN valid' ELSE 0,
                       life |-> l, issued |-> now]
    BY <1>3 DEF Exchange
  <2>2. /\ reply'.refresh = 0 => valid' = valid
        /\ reply'.refresh # 0 => reply'.refresh = valid'
    BY <2>1
  <2> QED
    BY <1>3, <2>2 DEF Exchange
<1>4. CASE ReplyLost \/ PersistFails
  BY <1>4 DEF ReplyLost, PersistFails
<1>5. CASE Reply
  BY <1>5 DEF Reply, Rotated
<1>6. CASE Cache
  BY <1>6 DEF Cache
<1>7. CASE ReadEnv
  BY <1>7 DEF ReadEnv
<1>8. CASE TruncateEnv \/ WriteEnv
  BY <1>8 DEF TruncateEnv, WriteEnv
<1>9. CASE Crash
  BY <1>9 DEF Crash
<1> QED
  BY <1>1, <1>2, <1>3, <1>4, <1>5, <1>6, <1>7, <1>8, <1>9 DEF Next

\* Types, and that the poller never runs on an empty refresh token.
THEOREM TypeCorrect == Spec => []TypeOK
  BY InitType, TypeStep, PTL DEF Spec

\* Every access token fetchAccessToken returns is alive at the server, whatever
\* lifetimes the server gives, as long as the HTTP timeout is within the margin.
THEOREM HandedIsAliveHolds == Spec => []HandedIsAlive
<1>1. Init => AliveInv
  BY DEF Init, AliveInv, HandedIsAlive
<1>2. AliveInv => HandedIsAlive
  BY DEF AliveInv
<1> QED
  BY <1>1, <1>2, TypeCorrect, AliveStep, PTL DEF Spec

\* With .env in the working directory the grant survives any number of
\* rotations and restarts, unless an exchange or its write is broken off.
THEOREM GrantSurvivesHolds ==
    ASSUME EnvFile
    PROVE  Spec => []GrantSurvives
<1>1. Init => GrantInv
  BY DEF Init, GrantInv
<1>2. GrantInv => GrantSurvives
  BY DEF GrantInv, GrantSurvives, Stored
<1> QED
  BY <1>1, <1>2, TypeCorrect, GrantStep, PTL DEF Spec

\* The run token_container refutes RotationIsSaved only because .env is missing:
\* with it, what an undisturbed exchange rotates is there for the next start.
THEOREM RotationIsSavedWithEnv ==
    ASSUME EnvFile
    PROVE  Spec => []RotationIsSaved
<1>1. GrantSurvives => RotationIsSaved
  BY DEF GrantSurvives, RotationIsSaved
<1> QED
  BY <1>1, GrantSurvivesHolds, PTL
=============================================================================
