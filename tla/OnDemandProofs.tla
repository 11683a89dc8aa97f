--------------------------- MODULE OnDemandProofs ---------------------------
(***************************************************************************)
(* The safety properties of OnDemand, for any number of callers, closers   *)
(* and calls.  The invariants of the runs are not inductive: IInv adds     *)
(* that exactly the record in o.inflight is unpublished, who is to spawn   *)
(* its goroutine, and that o.wg counts the goroutines that have not ended. *)
(***************************************************************************)
EXTENDS OnDemand, FiniteSetTheorems, Sequences, TLAPS

\* o.inflight names the one record that is not published yet.
FlightInv ==
    /\ \A c \in CallId : phase[c] \in Pending <=> c = inflight
    /\ inflight # 0 => inflight \in CallId
    /\ \A c \in CallId : c > ncalls => phase[c] = "none"

\* A registered record has exactly one caller about to spawn its goroutine.
SpawnInv ==
    /\ \A r \in Callers :
          pc[r] = "spawn" => mine[r] \in CallId /\ phase[mine[r]] = "registered"
    /\ \A r, q \in Callers : pc[r] = "spawn" /\ pc[q] = "spawn" => r = q
    /\ \A c \in CallId :
          phase[c] = "registered" => \E r \in Callers : pc[r] = "spawn" /\ mine[r] = c

\* o.wg counts the goroutines; Close has returned only after the last one.
GroupInv ==
    /\ wg = Cardinality(Active)
    /\ \A k \in Closers : cpc[k] # "open" => closed
    /\ \A k \in Closers : cpc[k] = "returned" => Active = {}
    /\ closed => fetchCtx # "live"

IInv == TypeOK /\ FlightInv /\ SpawnInv /\ GroupInv

-----------------------------------------------------------------------------
\* The goroutines are finitely many, so o.wg is a natural number.
LEMMA ActiveFinite == IsFiniteSet(Active) /\ Cardinality(Active) \in Nat
<1>1. IsFiniteSet(CallId)
  BY FS_Interval, MaxCallsNat DEF CallId
<1>2. Active \subseteq CallId
  BY DEF Active
<1> QED
  BY <1>1, <1>2, FS_Subset, FS_CardinalityType

LEMMA InitIInv == Init => IInv
<1> SUFFICES ASSUME Init PROVE IInv
  OBVIOUS
<1>1. Active = {}
  BY DEF Init, Active
<1>2. Cardinality(Active) = 0
  BY <1>1, FS_EmptySet
<1>3. TypeOK
  <2>1. phase \in [CallId -> Phase] /\ res \in [Callers -> Result]
    BY DEF Init, Phase, Result
  <2>2. 0 \in 0..MaxCalls /\ 0 \in Nat
    BY MaxCallsNat
  <2> QED
    BY <2>1, <2>2 DEF Init, TypeOK, Outcome
<1>4. FlightInv /\ SpawnInv
  BY MaxCallsNat DEF Init, FlightInv, SpawnInv, CallId, Pending
<1>5. GroupInv
  BY <1>1, <1>2 DEF Init, GroupInv
<1> QED
  BY <1>3, <1>4, <1>5 DEF IInv

\* What a step of one caller leaves of the invariant when it touches neither
\* the gate nor a goroutine: the caller leaves or enters a state other than
\* "spawn".
LEMMA CallerOnly ==
    ASSUME IInv, NEW r \in Callers, pc[r] # "spawn",
           NEW l \in {"idle", "enter", "lock", "wait"}, NEW n \in 0..MaxCalls,
           pc' = [pc EXCEPT ![r] = l], mine' = [mine EXCEPT ![r] = n],
           UNCHANGED <<gateVars, callVars, cpc>>
    PROVE  FlightInv' /\ SpawnInv' /\ GroupInv'
<1>1. Active' = Active
  BY DEF Active, callVars
<1>2. FlightInv'
  BY DEF IInv, FlightInv, gateVars, callVars, CallId
<1>3. SpawnInv'
  BY DEF IInv, SpawnInv, TypeOK, callVars, CallId
<1>4. GroupInv'
  BY <1>1 DEF IInv, GroupInv, gateVars
<1> QED
  BY <1>2, <1>3, <1>4

\* The record in flight is one that has been made.
LEMMA FinishedType ==
    ASSUME TypeOK, FlightInv
    PROVE  /\ Finished \in Nat /\ Finished <= MaxCalls
           /\ inflight = 0 => Finished = ncalls
           /\ inflight # 0 => ncalls = Finished + 1
<1>1. ncalls \in 0..MaxCalls /\ (inflight # 0 => inflight \in 1..MaxCalls)
  BY DEF TypeOK, FlightInv, CallId
<1>2. ASSUME inflight # 0 PROVE ncalls >= 1
  <2>1. phase[inflight] # "none"
    BY <1>1, <1>2 DEF FlightInv, CallId, Pending
  <2>2. ~(inflight > ncalls)
    BY <1>1, <1>2, <2>1 DEF FlightInv, CallId
  <2> QED
    BY <1>1, <1>2, <2>2, MaxCallsNat
<1> QED
  BY <1>1, <1>2, MaxCallsNat DEF Finished

\* Every step keeps the types; that wg stays a natural number is GroupInv's.
LEMMA TypeStep == TypeOK /\ FlightInv /\ wg' \in Nat /\ Next => TypeOK'
<1> SUFFICES ASSUME TypeOK, FlightInv, wg' \in Nat, Next PROVE TypeOK'
  OBVIOUS
<1> USE DEF TypeOK, gateVars, callVars, callerVars
<1>1. ASSUME NEW r \in Callers, Call(r) PROVE TypeOK'
  <2>1. Finished \in 0..MaxCalls
    BY FinishedType, MaxCallsNat
  <2> QED
    BY <1>1, <2>1, MaxCallsNat DEF Call, Result
<1>2. ASSUME NEW r \in Callers, CancelCtx(r) PROVE TypeOK'
  BY <1>2 DEF CancelCtx
<1>3. ASSUME NEW r \in Callers, NEW v \in Result, Return(r, v) PROVE TypeOK'
  BY <1>3, MaxCallsNat DEF Return
<1>4. ASSUME NEW r \in Callers, CallerSteps(r) PROVE TypeOK'
  <2>1. CASE EnterCancelled(r) \/ RefuseClosed(r) \/ WaitCancelled(r)
    BY <2>1, <1>3 DEF EnterCancelled, RefuseClosed, WaitCancelled, Result
  <2>2. CASE EnterLive(r)
    BY <2>2 DEF EnterLive
  <2>3. CASE JoinInflight(r)
    BY <2>3 DEF JoinInflight
  <2>4. CASE Coalesced(r)
    <3>1. lastErr \in Result
      BY DEF Result
    <3> QED
      BY <2>4, <1>3, <3>1 DEF Coalesced
  <2>5. CASE StartCall(r)
    <3>1. ncalls + 1 \in CallId /\ ncalls + 1 \in 0..MaxCalls
      BY <2>5, MaxCallsNat DEF StartCall, CallId
    <3> QED
      BY <2>5, <3>1 DEF StartCall, Phase, Pending
  <2>6. CASE SpawnFetch(r)
    BY <2>6 DEF SpawnFetch, Phase, Pending
  <2>7. CASE WaitDone(r)
    <3>1. cerr[mine[r]] \in Result
      BY <2>7 DEF WaitDone, Result
    <3> QED
      BY <2>7, <1>3, <3>1 DEF WaitDone
  <2> QED
    BY <1>4, <2>1, <2>2, <2>3, <2>4, <2>5, <2>6, <2>7 DEF CallerSteps
<1>5. ASSUME NEW c \in CallId, FetchBegin(c) \/ FetchReturns(c) PROVE TypeOK'
  BY <1>5 DEF FetchBegin, FetchReturns, Phase, Pending
<1>6. ASSUME NEW c \in CallId, Publish(c) \/ FetchExit(c) PROVE TypeOK'
  BY <1>6, MaxCallsNat DEF Publish, FetchExit, Phase
<1>7. ASSUME NEW k \in Closers, CloseLocked(k) \/ CloseReturns(k) PROVE TypeOK'
  BY <1>7 DEF CloseLocked, CloseReturns, CancelFetch
<1>8. CASE IntervalElapses
  BY <1>8 DEF IntervalElapses
<1>9. CASE Terminated
  BY <1>9 DEF Terminated, vars
<1> QED
  BY <1>1, <1>2, <1>4, <1>5, <1>6, <1>7, <1>8, <1>9 DEF Next

-----------------------------------------------------------------------------
\* Registering a record: the gate was free, so the new record is the only
\* unpublished one and its caller the only one about to spawn.
LEMMA StartStep ==
    ASSUME IInv, NEW r \in Callers, StartCall(r)
    PROVE  FlightInv' /\ SpawnInv' /\ GroupInv'
<1> DEFINE n == ncalls + 1
<1>1. n \in CallId /\ n # 0 /\ phase[n] = "none"
  BY MaxCallsNat DEF IInv, TypeOK, FlightInv, StartCall, CallId
<1>2. phase' = [phase EXCEPT ![n] = "registered"] /\ inflight = 0 /\ inflight' = n
  BY DEF StartCall, MayStart
<1>3. \A c \in CallId : phase[c] \notin Pending
  BY <1>2 DEF IInv, FlightInv, CallId
<1>4. FlightInv'
  BY <1>1, <1>2, <1>3 DEF IInv, TypeOK, FlightInv, StartCall, CallId, Pending
<1>5. \A q \in Callers : pc[q] # "spawn"
  BY <1>3 DEF IInv, SpawnInv, Pending
<1>6. SpawnInv'
  BY <1>1, <1>2, <1>3, <1>5 DEF IInv, TypeOK, SpawnInv, StartCall, Pending
<1>7. GroupInv'
  <2>1. Active' = Active \cup {n} /\ n \notin Active
    BY <1>1, <1>2 DEF IInv, TypeOK, Active
  <2>2. Cardinality(Active') = Cardinality(Active) + 1
    BY <2>1, ActiveFinite, FS_AddElement
  <2>3. ~closed
    BY DEF StartCall, MayStart
  <2> QED
    BY <2>2, <2>3 DEF IInv, GroupInv, StartCall
<1> QED
  BY <1>4, <1>6, <1>7

\* The goroutine is spawned by the one caller that registered it.
LEMMA SpawnStep ==
    ASSUME IInv, NEW r \in Callers, SpawnFetch(r)
    PROVE  FlightInv' /\ SpawnInv' /\ GroupInv'
<1>1. mine[r] \in CallId /\ phase[mine[r]] = "registered"
  BY DEF IInv, SpawnInv, SpawnFetch
<1>2. phase' = [phase EXCEPT ![mine[r]] = "spawned"]
  BY DEF SpawnFetch
<1>3. Active' = Active
  BY <1>1, <1>2 DEF IInv, TypeOK, Active
<1>4. FlightInv'
  BY <1>1, <1>2 DEF IInv, TypeOK, FlightInv, SpawnFetch, gateVars, Pending, CallId
<1>5. SpawnInv'
  BY <1>1, <1>2 DEF IInv, TypeOK, SpawnInv, SpawnFetch
<1>6. GroupInv'
  BY <1>3 DEF IInv, GroupInv, SpawnFetch, gateVars
<1> QED
  BY <1>4, <1>5, <1>6

\* The goroutine of a record advances; it is not the one being registered.
LEMMA FetchStep ==
    ASSUME IInv, NEW c \in CallId,
           FetchBegin(c) \/ FetchReturns(c) \/ Publish(c) \/ FetchExit(c)
    PROVE  FlightInv' /\ SpawnInv' /\ GroupInv'
<1> DEFINE l == phase'[c]
<1>1. /\ phase' = [phase EXCEPT ![c] = l]
      /\ phase[c] \in {"spawned", "fetching", "returned", "publish"}
      /\ l \in {"fetching", "returned", "publish", "exited"}
      /\ l \in Pending => phase[c] \in Pending /\ inflight' = inflight
      /\ l = "exited" <=> phase[c] = "publish"
  BY DEF IInv, TypeOK, FetchBegin, FetchReturns, Publish, FetchExit, gateVars, Pending
<1>2. UNCHANGED <<closed, fetchCtx, ncalls, pc, mine, cpc>>
  BY DEF FetchBegin, FetchReturns, Publish, FetchExit, gateVars, callerVars
<1>3. FlightInv'
  <2>1. CASE Publish(c)
    BY <1>1, <1>2, <2>1 DEF IInv, TypeOK, FlightInv, Publish, Pending, CallId
  <2>2. CASE ~Publish(c)
    <3>1. inflight' = inflight /\ (l \in Pending <=> phase[c] \in Pending)
      BY <2>2, <1>1 DEF IInv, TypeOK, FetchBegin, FetchReturns, FetchExit, gateVars, Pending
    <3>2. \A d \in CallId \ {c} : phase'[d] = phase[d]
      BY <1>1 DEF IInv, TypeOK
    <3>3. phase'[c] = l /\ l # "none" /\ phase[c] # "none"
      BY <1>1 DEF IInv, TypeOK
    <3>4. \A d \in CallId : phase'[d] \in Pending <=> phase[d] \in Pending
      BY <3>1, <3>2, <3>3
    <3>5. \A d \in CallId : phase'[d] = "none" <=> phase[d] = "none"
      BY <3>2, <3>3
    <3> QED
      BY <3>1, <3>4, <3>5, <1>2 DEF IInv, FlightInv
  <2> QED
    BY <2>1, <2>2
<1>4. SpawnInv'
  BY <1>1, <1>2 DEF IInv, TypeOK, SpawnInv
<1>5. GroupInv'
  <2>1. CASE FetchExit(c)
    <3>1. Active' = Active \ {c} /\ c \in Active
      BY <2>1, <1>1 DEF IInv, TypeOK, Active, FetchExit
    <3>2. Cardinality(Active') = Cardinality(Active) - 1
      BY <3>1, ActiveFinite, FS_RemoveElement
    <3> QED
      BY <2>1, <1>2, <3>1, <3>2 DEF IInv, GroupInv, FetchExit
  <2>2. CASE ~FetchExit(c)
    <3>1. Active' = Active /\ wg' = wg
      BY <2>2, <1>1 DEF IInv, TypeOK, Active, FetchBegin, FetchReturns, Publish, gateVars
    <3> QED
      BY <1>2, <3>1 DEF IInv, GroupInv
  <2> QED
    BY <2>1, <2>2
<1> QED
  BY <1>3, <1>4, <1>5

LEMMA CloseStep ==
    ASSUME IInv, NEW k \in Closers, CloseLocked(k) \/ CloseReturns(k)
    PROVE  FlightInv' /\ SpawnInv' /\ GroupInv'
<1>1. UNCHANGED <<inflight, ncalls, wg, phase, pc, mine>>
  BY DEF CloseLocked, CloseReturns, gateVars, callVars, callerVars
<1>2. Active' = Active
  BY <1>1 DEF Active
<1>3. FlightInv' /\ SpawnInv'
  BY <1>1 DEF IInv, FlightInv, SpawnInv
<1>4. CASE CloseLocked(k)
  BY <1>1, <1>2, <1>3, <1>4 DEF IInv, TypeOK, GroupInv, CloseLocked, CancelFetch
<1>5. CASE CloseReturns(k)
  <2>1. Active = {}
    BY <1>5, ActiveFinite, FS_EmptySet DEF IInv, GroupInv, CloseReturns, Drained
  <2> QED
    BY <1>1, <1>2, <1>3, <1>5, <2>1 DEF IInv, TypeOK, GroupInv, CloseReturns, gateVars
<1> QED
  BY <1>4, <1>5

LEMMA StepIInv == IInv /\ [Next]_vars => IInv'
<1> SUFFICES ASSUME IInv, [Next]_vars PROVE IInv'
  OBVIOUS
<1>1. CASE UNCHANGED vars
  <2>1. Active' = Active
    BY <1>1 DEF vars, Active
  <2> QED
    BY <1>1, <2>1 DEF vars, IInv, TypeOK, FlightInv, SpawnInv, GroupInv
<1>2. CASE Next
  <2>1. FlightInv' /\ SpawnInv' /\ GroupInv'
    <3>1. ASSUME NEW r \in Callers, Call(r) \/ CancelCtx(r) PROVE FlightInv' /\ SpawnInv' /\ GroupInv'
      <4>1. Active' = Active /\ UNCHANGED <<gateVars, phase, mine, cpc>>
        BY <3>1 DEF Call, CancelCtx, callVars, Active
      <4>2. \A q \in Callers : pc'[q] = "spawn" <=> pc[q] = "spawn"
        BY <3>1 DEF Call, CancelCtx, IInv, TypeOK
      <4> QED
        BY <4>1, <4>2 DEF IInv, FlightInv, SpawnInv, GroupInv, gateVars
    <3>2. ASSUME NEW r \in Callers, CallerSteps(r) PROVE FlightInv' /\ SpawnInv' /\ GroupInv'
      <4>1. 0 \in 0..MaxCalls /\ inflight \in 0..MaxCalls /\ mine[r] \in 0..MaxCalls
        BY MaxCallsNat DEF IInv, TypeOK
      <4>2. ASSUME NEW v, pc[r] # "spawn", Return(r, v)
            PROVE  FlightInv' /\ SpawnInv' /\ GroupInv'
        BY <4>1, <4>2, CallerOnly DEF Return
      <4>3. CASE EnterCancelled(r) \/ RefuseClosed(r) \/ Coalesced(r)
                 \/ WaitDone(r) \/ WaitCancelled(r)
        BY <4>2, <4>3 DEF EnterCancelled, RefuseClosed, Coalesced, WaitDone, WaitCancelled
      <4>4. CASE EnterLive(r)
        <5>1. mine' = [mine EXCEPT ![r] = mine[r]]
          BY <4>4 DEF EnterLive, IInv, TypeOK
        <5> QED
          BY <4>1, <4>4, <5>1, CallerOnly DEF EnterLive
      <4>5. CASE JoinInflight(r)
        BY <4>1, <4>5, CallerOnly DEF JoinInflight
      <4>6. CASE StartCall(r)
        BY <4>6, StartStep
      <4>7. CASE SpawnFetch(r)
        BY <4>7, SpawnStep
      <4> QED
        BY <3>2, <4>3, <4>4, <4>5, <4>6, <4>7 DEF CallerSteps
    <3>3. CASE IntervalElapses \/ Terminated
      <4>1. Active' = Active
            /\ UNCHANGED <<inflight, ncalls, closed, fetchCtx, wg, phase, pc, mine, cpc>>
        BY <3>3 DEF IntervalElapses, Terminated, vars, callVars, callerVars, Active
      <4> QED
        BY <4>1 DEF IInv, FlightInv, SpawnInv, GroupInv
    <3> QED
      BY <1>2, <3>1, <3>2, <3>3, FetchStep, CloseStep DEF Next
  <2>2. wg' \in Nat
    <3>1. IsFiniteSet(CallId)
      BY FS_Interval, MaxCallsNat DEF CallId
    <3>2. Active' \subseteq CallId
      BY DEF Active
    <3> QED
      BY <2>1, <3>1, <3>2, FS_Subset, FS_CardinalityType DEF GroupInv
  <2> QED
    BY <1>2, <2>1, <2>2, TypeStep DEF IInv
<1> QED
  BY <1>1, <1>2

LEMMA IInvHolds == Spec => []IInv
  BY InitIInv, StepIInv, PTL DEF Spec

-----------------------------------------------------------------------------
\* Every variable keeps its type, o.wg in particular never goes below zero.
THEOREM TypeCorrect == Spec => []TypeOK
<1>1. IInv => TypeOK
  BY DEF IInv
<1> QED
  BY <1>1, IInvHolds, PTL

\* At most one FetchOnce runs at any time (ingest/ondemand.go:18).
THEOREM SingleFetchHolds == Spec => []SingleFetch
<1>1. IInv => SingleFetch
  BY DEF IInv, FlightInv, SingleFetch, Pending
<1> QED
  BY <1>1, IInvHolds, PTL

\* The record every request joins is going to be published by somebody.
THEOREM NoOrphanFlightHolds == Spec => []NoOrphanFlight
<1>1. IInv => NoOrphanFlight
  BY DEF IInv, FlightInv, SpawnInv, NoOrphanFlight, Pending
<1> QED
  BY <1>1, IInvHolds, PTL

\* Close returns after the last goroutine, and no fetch has a live context
\* once Close has begun (ingest/ondemand.go:127).
THEOREM NoFetchOutlivesCloseHolds == Spec => []NoFetchOutlivesClose
<1>1. IInv => NoFetchOutlivesClose
  BY DEF IInv, GroupInv, NoFetchOutlivesClose
<1> QED
  BY <1>1, IInvHolds, PTL

-----------------------------------------------------------------------------
(* The gate implements SingleFlight                                        *)

\* Records are numbered by the fetches they stand for: the one in flight is the
\* last, the finished ones are those before it, the interval is that of the
\* last finished one, and a caller waits for a fetch that had not finished when
\* it asked.
HistoryInv ==
    /\ inflight # 0 => inflight = ncalls
    /\ done \subseteq 1..Finished
    /\ window = "open" => Finished >= 1 /\ lastErr = cerr[Finished]
    /\ \A r \in Callers : pc[r] # "idle" => from[r] <= Finished
    /\ \A r \in Callers : pc[r] \in {"spawn", "wait"} => mine[r] > from[r]

LEMMA InitHistory == Init => HistoryInv
  BY DEF Init, HistoryInv

LEMMA HistoryStep == IInv /\ HistoryInv /\ [Next]_vars => HistoryInv'
<1> SUFFICES ASSUME IInv, HistoryInv, [Next]_vars PROVE HistoryInv'
  OBVIOUS
<1> USE DEF gateVars, callVars, callerVars
<1>1. /\ Finished \in Nat /\ Finished <= MaxCalls
      /\ inflight = 0 => Finished = ncalls
      /\ inflight # 0 => ncalls = Finished + 1
  BY FinishedType DEF IInv
<1>2. TypeOK
  BY DEF IInv
<1>3. ASSUME UNCHANGED <<inflight, ncalls, cerr, done, lastErr>>,
             window' = window \/ window' # "open",
             \A r \in Callers :
                /\ pc'[r] # "idle" => from'[r] <= Finished
                /\ pc'[r] \in {"spawn", "wait"} => mine'[r] > from'[r]
      PROVE  HistoryInv'
  <2>1. Finished' = Finished
    BY <1>3 DEF Finished
  <2> QED
    BY <1>3, <2>1 DEF HistoryInv
<1>4. ASSUME NEW r \in Callers, Call(r) PROVE HistoryInv'
  BY <1>1, <1>2, <1>3, <1>4 DEF Call, HistoryInv, TypeOK
<1>5. ASSUME NEW r \in Callers, NEW v, Return(r, v) PROVE HistoryInv'
  BY <1>2, <1>3, <1>5 DEF Return, HistoryInv, TypeOK
<1>6. ASSUME NEW r \in Callers, CancelCtx(r) \/ EnterLive(r) \/ SpawnFetch(r)
      PROVE  HistoryInv'
  BY <1>2, <1>3, <1>6 DEF CancelCtx, EnterLive, SpawnFetch, HistoryInv, TypeOK
<1>7. ASSUME NEW r \in Callers, JoinInflight(r) PROVE HistoryInv'
  BY <1>1, <1>2, <1>3, <1>7 DEF JoinInflight, HistoryInv, TypeOK
<1>8. ASSUME NEW r \in Callers, StartCall(r) PROVE HistoryInv'
  <2>1. inflight = 0 /\ inflight' = ncalls + 1 /\ ncalls' = ncalls + 1 /\ ncalls \in Nat
    BY <1>2, <1>8 DEF StartCall, MayStart, TypeOK
  <2>2. Finished' = Finished
    BY <2>1 DEF Finished
  <2> QED
    BY <1>1, <1>2, <1>8, <2>1, <2>2 DEF StartCall, HistoryInv, TypeOK
<1>9. ASSUME NEW c \in CallId, FetchBegin(c) \/ FetchReturns(c) \/ FetchExit(c)
      PROVE  HistoryInv'
  BY <1>3, <1>9 DEF FetchBegin, FetchReturns, FetchExit, HistoryInv
<1>10. ASSUME NEW c \in CallId, Publish(c) PROVE HistoryInv'
  <2>1. c = inflight /\ c # 0 /\ c \in Nat
    BY <1>10 DEF IInv, FlightInv, Publish, Pending, CallId
  <2>2. c = ncalls /\ ncalls = Finished + 1 /\ Finished' = ncalls
    BY <1>1, <1>10, <2>1 DEF HistoryInv, Publish, Finished
  <2>3. done' \subseteq 1..Finished'
    BY <1>1, <1>10, <2>1, <2>2 DEF HistoryInv, Publish
  <2>4. lastErr' = cerr'[Finished'] /\ Finished' >= 1
    BY <1>1, <1>2, <1>10, <2>1, <2>2 DEF Publish, TypeOK
  <2>5. \A r \in Callers : pc[r] # "idle" => from[r] <= Finished'
    BY <1>1, <1>2, <2>2 DEF HistoryInv, TypeOK
  <2> QED
    BY <1>10, <2>3, <2>4, <2>5 DEF HistoryInv, Publish
<1>11. CASE IntervalElapses \/ Terminated \/ UNCHANGED vars
  BY <1>3, <1>11 DEF IntervalElapses, Terminated, vars, HistoryInv
<1>12. ASSUME NEW k \in Closers, CloseLocked(k) \/ CloseReturns(k) PROVE HistoryInv'
  BY <1>3, <1>12 DEF CloseLocked, CloseReturns, HistoryInv
<1>13. ASSUME NEW r \in Callers, CallerSteps(r) PROVE HistoryInv'
  BY <1>5, <1>6, <1>7, <1>8, <1>13 DEF CallerSteps, EnterCancelled, RefuseClosed, Coalesced,
     WaitDone, WaitCancelled
<1> QED
  BY <1>4, <1>6, <1>9, <1>10, <1>11, <1>12, <1>13 DEF Next

LEMMA HistoryHolds == Spec => []HistoryInv
  BY InitHistory, HistoryStep, IInvHolds, PTL DEF Spec

\* The finished fetches' outcomes, as SingleFlight sees them
Outcomes == [n \in 1..Finished |-> cerr[n]]

LEMMA OutcomesLen ==
    ASSUME TypeOK, FlightInv
    PROVE  Outcomes \in Seq(Outcome) /\ Len(Outcomes) = Finished
<1>1. Finished \in Nat /\ Finished <= MaxCalls
  BY FinishedType
<1>2. \A n \in 1..Finished : cerr[n] \in Outcome
  BY <1>1, MaxCallsNat DEF TypeOK, CallId
<1> QED
  BY <1>1, <1>2 DEF Outcomes

\* A step of the gate that changes no fetch and no interval: the questions and
\* the answers are all SingleFlight sees of it.
Quiet == UNCHANGED <<inflight, ncalls, cerr, window, closed>>

LEMMA QuietMeans ==
    ASSUME Quiet
    PROVE  /\ Finished' = Finished /\ Outcomes' = Outcomes
           /\ (inflight # 0)' = (inflight # 0)
           /\ (window = "open")' = (window = "open") /\ closed' = closed
  BY DEF Quiet, Finished, Outcomes

Asking == {r \in Callers : pc[r] # "idle"}
Gone == {r \in Callers : ctx[r] = "done"}

LEMMA InitRefines == Init => SF!Init
<1> SUFFICES ASSUME Init PROVE SF!Init
  OBVIOUS
<1>1. Finished = 0
  BY DEF Init, Finished
<1>2. [n \in 1..Finished |-> cerr[n]] = << >>
  BY <1>1
<1> QED
  BY <1>2 DEF Init, SF!Init

\* SyncContext returns: the question is answered.
LEMMA ReturnAnswers ==
    ASSUME TypeOK, NEW r \in Callers, pc[r] # "idle", NEW v, Return(r, v)
    PROVE  SF!Answer(r, v)
<1>1. Quiet /\ ctx' = ctx /\ from' = from /\ res' = [res EXCEPT ![r] = v]
  BY DEF Return, Quiet, gateVars, callVars
<1>2. Asking' = Asking \ {r} /\ r \in Asking
  BY DEF Return, Asking, TypeOK
<1>3. Gone' = Gone
  BY <1>1 DEF Gone
<1> QED
  BY <1>1, <1>2, <1>3, QuietMeans DEF SF!Answer, Asking, Gone, Outcomes

\* The answer of any fetch that had not been superseded is allowed.
LEMMA AnswerIsFresh ==
    ASSUME NEW r \in Callers, NEW v, SF!Answer(r, v),
           \E n \in SF!Fresh(r) : Outcomes[n] = v
    PROVE  SF!Next
<1>1. PICK n \in SF!Fresh(r) : [k \in 1..Finished |-> cerr[k]][n] = v
  BY DEF Outcomes
<1> QED
  BY <1>1 DEF SF!Next, SF!Answer

\* Whatever SyncContext answers, SingleFlight may answer.
LEMMA CallerRefines ==
    ASSUME IInv, HistoryInv, NEW r \in Callers, CallerSteps(r)
    PROVE  SF!Next \/ UNCHANGED SF!vars
<1>1. TypeOK /\ Finished \in Nat /\ Finished <= MaxCalls /\ Len(Outcomes) = Finished
  BY FinishedType, OutcomesLen DEF IInv
<1>2. ASSUME NEW n \in 1..Finished, n > from[r] \/ (n = from[r] /\ Coalesce)
      PROVE  n \in SF!Fresh(r) /\ Outcomes[n] = cerr[n]
  BY <1>1, <1>2 DEF SF!Fresh, Outcomes
<1>3. CASE EnterCancelled(r) \/ WaitCancelled(r)
  <2>1. r \in Gone /\ SF!Answer(r, "cancelled")
    BY <1>1, <1>3, ReturnAnswers DEF EnterCancelled, WaitCancelled, Gone
  <2> QED
    BY <2>1 DEF SF!Next, Gone
<1>4. CASE RefuseClosed(r)
  <2>1. closed /\ SF!Answer(r, "refused")
    BY <1>1, <1>4, ReturnAnswers DEF RefuseClosed
  <2> QED
    BY <2>1 DEF SF!Next
<1>5. CASE Coalesced(r)
  <2>1. Finished \in 1..Finished /\ lastErr = cerr[Finished] /\ Coalesce
        /\ from[r] <= Finished /\ from[r] \in Nat
    BY <1>1, <1>5 DEF Coalesced, WithinInterval, HistoryInv, TypeOK
  <2>2. Finished \in SF!Fresh(r) /\ Outcomes[Finished] = lastErr
    BY <1>2, <2>1
  <2>3. PICK v : v = lastErr
    OBVIOUS
  <2>4. Return(r, v) /\ pc[r] # "idle"
    BY <1>5, <2>3 DEF Coalesced, Return
  <2>5. SF!Answer(r, v)
    BY <1>1, <2>4, ReturnAnswers
  <2> QED
    BY <2>2, <2>3, <2>5, AnswerIsFresh
<1>6. CASE WaitDone(r)
  <2>1. mine[r] \in 1..Finished /\ mine[r] > from[r]
    BY <1>6 DEF WaitDone, HistoryInv
  <2>2. mine[r] \in SF!Fresh(r) /\ Outcomes[mine[r]] = cerr[mine[r]]
    BY <1>2, <2>1
  <2>3. PICK v : v = cerr[mine[r]]
    OBVIOUS
  <2>4. Return(r, v) /\ pc[r] # "idle"
    BY <1>6, <2>3 DEF WaitDone, Return
  <2>5. SF!Answer(r, v)
    BY <1>1, <2>4, ReturnAnswers
  <2> QED
    BY <2>2, <2>3, <2>5, AnswerIsFresh
<1>7. CASE EnterLive(r) \/ JoinInflight(r) \/ SpawnFetch(r)
  <2>1. Quiet /\ UNCHANGED <<ctx, from, res>>
    BY <1>7 DEF EnterLive, JoinInflight, SpawnFetch, Quiet, gateVars, callVars
  <2>2. Asking' = Asking /\ Gone' = Gone
    BY <1>1, <1>7, <2>1 DEF EnterLive, JoinInflight, SpawnFetch, Asking, Gone, TypeOK
  <2> QED
    BY <2>1, <2>2, QuietMeans DEF SF!vars, Asking, Gone, Outcomes
<1>8. CASE StartCall(r)
  <2>1. /\ inflight = 0 /\ inflight' = ncalls + 1 /\ ncalls' = ncalls + 1 /\ ncalls \in Nat
        /\ ~closed /\ (Coalesce => window # "open")
        /\ UNCHANGED <<cerr, window, closed, ctx, from, res>>
    BY <1>1, <1>8 DEF StartCall, MayStart, WithinInterval, TypeOK
  <2>2. Finished' = Finished /\ Outcomes' = Outcomes /\ inflight' # 0
    BY <2>1 DEF Finished, Outcomes
  <2>3. Asking' = Asking /\ Asking # {} /\ Gone' = Gone
    BY <1>1, <1>8, <2>1 DEF StartCall, Asking, Gone, TypeOK
  <2>4. SF!Start
    BY <2>1, <2>2, <2>3 DEF SF!Start, Asking, Gone, Outcomes
  <2> QED
    BY <2>4 DEF SF!Next
<1> QED
  BY <1>3, <1>4, <1>5, <1>6, <1>7, <1>8 DEF CallerSteps

\* Publishing the record in flight ends SingleFlight's fetch.
LEMMA PublishRefines ==
    ASSUME IInv, HistoryInv, NEW c \in CallId, Publish(c)
    PROVE  SF!Next
<1>1. TypeOK /\ Finished \in Nat /\ Finished <= MaxCalls
  BY FinishedType DEF IInv
<1>2. c = inflight /\ c # 0 /\ c = Finished + 1 /\ gerr[c] \in Outcome
  <2>1. c = inflight /\ c # 0 /\ gerr[c] \in Outcome
    <3>1. phase[c] \in Pending /\ c # 0 /\ gerr[c] \in Outcome
      BY <1>1, MaxCallsNat DEF Publish, Pending, CallId, TypeOK
    <3> QED
      BY <3>1 DEF IInv, FlightInv
  <2>2. inflight # 0 => ncalls = Finished + 1
    BY FinishedType DEF IInv
  <2> QED
    BY <2>1, <2>2 DEF HistoryInv
<1>3. inflight' = 0 /\ Finished' = Finished + 1
  BY <1>1, <1>2 DEF Publish, Finished, HistoryInv
<1>4. Outcomes \in Seq(Outcome) /\ Len(Outcomes) = Finished
  BY OutcomesLen DEF IInv
<1>5. Outcomes' = Append(Outcomes, gerr[c])
  <2>1. Outcomes' = [n \in 1..(Finished + 1) |-> IF n = c THEN gerr[c] ELSE cerr[n]]
    BY <1>1, <1>2, <1>3, MaxCallsNat DEF Outcomes, Publish, TypeOK, CallId
  <2>2. \A n \in 1..Finished : Outcomes[n] = cerr[n]
    BY DEF Outcomes
  <2>3. Append(Outcomes, gerr[c])
           = [n \in 1..(Finished + 1) |-> IF n = c THEN gerr[c] ELSE cerr[n]]
    BY <1>1, <1>2, <1>4, <2>2
  <2> QED
    BY <2>1, <2>3
<1>6. window' = "open" /\ UNCHANGED <<closed, ctx, from, res, pc>>
  BY DEF Publish, callerVars
<1>7. Asking' = Asking /\ Gone' = Gone
  BY <1>6 DEF Asking, Gone
<1>8. PICK e \in Outcome : e = gerr[c]
  BY <1>2
<1>9. SF!Finish(e)
  BY <1>2, <1>3, <1>5, <1>6, <1>7, <1>8 DEF SF!Finish, Asking, Gone, Outcomes
<1> QED
  BY <1>9 DEF SF!Next, Outcome

LEMMA StepRefines == IInv /\ HistoryInv /\ [Next]_vars => [SF!Next]_SF!vars
<1> SUFFICES ASSUME IInv, HistoryInv, [Next]_vars PROVE SF!Next \/ UNCHANGED SF!vars
  OBVIOUS
<1>1. TypeOK /\ Len(Outcomes) = Finished
  BY OutcomesLen DEF IInv
<1>2. ASSUME Quiet, UNCHANGED <<pc, ctx, from, res>> PROVE UNCHANGED SF!vars
  BY <1>2, QuietMeans DEF SF!vars, Outcomes
<1>3. ASSUME NEW r \in Callers, Call(r) PROVE SF!Next
  <2>1. Quiet /\ from' = [from EXCEPT ![r] = Finished] /\ res' = [res EXCEPT ![r] = "none"]
    BY <1>3 DEF Call, Quiet, gateVars, callVars
  <2>2. r \notin Asking /\ Asking' = Asking \cup {r} /\ Gone' = Gone \ {r}
    BY <1>1, <1>3 DEF Call, Asking, Gone, TypeOK
  <2>3. SF!Ask(r)
    BY <1>1, <2>1, <2>2, QuietMeans DEF SF!Ask, Asking, Gone, Outcomes
  <2> QED
    BY <2>3 DEF SF!Next
<1>4. ASSUME NEW r \in Callers, CancelCtx(r) PROVE SF!Next
  <2>1. Quiet /\ UNCHANGED <<pc, from, res>>
    BY <1>4 DEF CancelCtx, Quiet, gateVars, callVars
  <2>2. r \in Asking \ Gone /\ Asking' = Asking /\ Gone' = Gone \cup {r}
    BY <1>1, <1>4 DEF CancelCtx, Asking, Gone, TypeOK
  <2>3. SF!Leave(r)
    BY <2>1, <2>2, QuietMeans DEF SF!Leave, Asking, Gone, Outcomes
  <2> QED
    BY <2>3 DEF SF!Next
<1>5. ASSUME NEW c \in CallId, FetchBegin(c) \/ FetchReturns(c) \/ FetchExit(c)
      PROVE  UNCHANGED SF!vars
  BY <1>2, <1>5 DEF FetchBegin, FetchReturns, FetchExit, Quiet, gateVars, callerVars
<1>6. ASSUME NEW k \in Closers, CloseReturns(k) PROVE UNCHANGED SF!vars
  BY <1>2, <1>6 DEF CloseReturns, Quiet, gateVars, callVars, callerVars
<1>7. ASSUME NEW k \in Closers, CloseLocked(k) PROVE SF!Next \/ UNCHANGED SF!vars
  <2>1. UNCHANGED <<inflight, ncalls, cerr, window, pc, ctx, from, res>> /\ closed'
    BY <1>7 DEF CloseLocked, callVars, callerVars
  <2>2. closed' = TRUE
    BY <1>7 DEF CloseLocked
  <2>3. CASE closed
    <3>1. closed' = closed
      BY <1>1, <2>2, <2>3 DEF TypeOK
    <3> QED
      BY <1>2, <2>1, <3>1 DEF Quiet
  <2>4. CASE ~closed
    <3>1. Finished' = Finished /\ Outcomes' = Outcomes /\ Asking' = Asking /\ Gone' = Gone
      BY <2>1 DEF Finished, Outcomes, Asking, Gone
    <3>2. SF!Shut
      BY <2>1, <2>2, <2>4, <3>1 DEF SF!Shut, Outcomes, Asking, Gone
    <3> QED
      BY <3>2 DEF SF!Next
  <2> QED
    BY <2>3, <2>4
<1>8. CASE IntervalElapses
  <2>1. /\ UNCHANGED <<inflight, ncalls, cerr, closed, pc, ctx, from, res>>
        /\ window = "open" /\ window' # "open"
    BY <1>8 DEF IntervalElapses, callVars, callerVars
  <2>2. Finished' = Finished /\ Outcomes' = Outcomes /\ Asking' = Asking /\ Gone' = Gone
    BY <2>1 DEF Finished, Outcomes, Asking, Gone
  <2>3. SF!Elapse
    BY <2>1, <2>2 DEF SF!Elapse, Outcomes, Asking, Gone
  <2> QED
    BY <2>3 DEF SF!Next
<1>9. CASE Terminated \/ UNCHANGED vars
  BY <1>2, <1>9 DEF Terminated, vars, Quiet
<1> QED
  BY <1>3, <1>4, <1>5, <1>6, <1>7, <1>8, <1>9, CallerRefines, PublishRefines DEF Next

\* The gate implements SingleFlight: with any number of callers, closers and
\* calls an answer is the outcome of a fetch that had not been superseded when
\* the request was made, fetches do not overlap and keep their distance.
THEOREM GateImplementsSingleFlight == Spec => ImplementsSingleFlight
  BY InitRefines, StepRefines, IInvHolds, HistoryHolds, PTL
  DEF Spec, ImplementsSingleFlight, SF!Spec
=============================================================================
