------------------------------ MODULE OnDemand ------------------------------
(***************************************************************************)
(* ingest.OnDemand: the gate every mailbox request passes before it reads  *)
(* the database.  Requests share one in-flight fetch, a finished fetch     *)
(* answers the requests of the next MinInterval, and Close cancels the     *)
(* fetch and waits for its goroutine.                                      *)
(*                                                                         *)
(* Each critical section under o.mu is one action.  What the code does     *)
(* without the mutex is a step of its own: spawning the goroutine, the two *)
(* selects, and the stages of the goroutine and of its deferred calls.     *)
(***************************************************************************)
EXTENDS Naturals, FiniteSets

CONSTANTS
    Callers,    \* request goroutines that call SyncContext
    Closers,    \* goroutines that call Close
    MaxCalls,   \* bound: SyncContext calls made in one behaviour
    Coalesce    \* MinInterval > 0

ASSUME CallersFinite == IsFiniteSet(Callers)
ASSUME MaxCallsNat == MaxCalls \in Nat
ASSUME CoalesceBoolean == Coalesce \in BOOLEAN

CallId == 1..MaxCalls    \* the *call records, numbered as they are made

VARIABLES
    inflight,   \* o.inflight: a CallId, or 0 for nil
    window,     \* o.lastDone: never set, within MinInterval, or further back
    lastErr,    \* o.lastErr
    fetchCtx,   \* o.fetchCtx
    closed,     \* o.closed
    wg,         \* the counter of o.wg
    ncalls,     \* call records made so far
    gerr,       \* gerr[c]: the local err of the goroutine of record c
    cerr,       \* cerr[c]: c.err
    done,       \* the records whose done channel is closed
    phase,      \* phase[c]: how far the goroutine of record c is
    pc,         \* pc[r]: where caller r is in SyncContext
    mine,       \* mine[r]: the record caller r waits for
    ctx,        \* ctx[r]: the caller's context
    res,        \* res[r]: what SyncContext last returned to r
    asks,       \* SyncContext calls made so far (only for the bound)
    from,       \* from[r]: fetches finished when r made its call (history)
    cpc         \* cpc[k]: where closer k is in Close

gateVars == <<inflight, window, lastErr, fetchCtx, closed, wg, ncalls>>
callVars == <<gerr, cerr, done, phase>>
callerVars == <<pc, mine, ctx, res, asks, from>>
vars == <<inflight, window, lastErr, fetchCtx, closed, wg, ncalls,
          gerr, cerr, done, phase, pc, mine, ctx, res, asks, from, cpc>>

Outcome == {"ok", "err"}                            \* of one fetch
Result == {"none", "cancelled", "refused"} \cup Outcome
Pending == {"registered", "spawned", "fetching", "returned"}
Phase == {"none", "publish", "exited"} \cup Pending

Active == {c \in CallId : phase[c] \notin {"none", "exited"}}

TypeOK ==
    /\ inflight \in 0..MaxCalls
    /\ window \in {"zero", "open", "elapsed"}
    /\ lastErr \in Outcome
    /\ fetchCtx \in {"nil", "live", "cancelled"}
    /\ closed \in BOOLEAN
    /\ wg \in Nat
    /\ ncalls \in 0..MaxCalls
    /\ gerr \in [CallId -> Outcome]
    /\ cerr \in [CallId -> Outcome]
    /\ done \subseteq CallId
    /\ phase \in [CallId -> Phase]
    /\ pc \in [Callers -> {"idle", "enter", "lock", "spawn", "wait"}]
    /\ mine \in [Callers -> 0..MaxCalls]
    /\ ctx \in [Callers -> {"live", "done"}]
    /\ res \in [Callers -> Result]
    /\ asks \in 0..MaxCalls
    /\ from \in [Callers -> 0..MaxCalls]
    /\ cpc \in [Closers -> {"open", "waiting", "returned"}]

Init ==
    /\ inflight = 0 /\ window = "zero" /\ lastErr = "ok" /\ fetchCtx = "nil"
    /\ closed = FALSE /\ wg = 0 /\ ncalls = 0
    /\ gerr = [c \in CallId |-> "ok"]
    /\ cerr = [c \in CallId |-> "ok"]
    /\ done = {}
    /\ phase = [c \in CallId |-> "none"]
    /\ pc = [r \in Callers |-> "idle"]
    /\ mine = [r \in Callers |-> 0]
    /\ ctx = [r \in Callers |-> "live"]
    /\ res = [r \in Callers |-> "none"]
    /\ asks = 0
    /\ from = [r \in Callers |-> 0]
    /\ cpc = [k \in Closers |-> "open"]

\* Records are numbered in the order of their fetches: all are finished but
\* the one in flight.
Finished == IF inflight = 0 THEN ncalls ELSE ncalls - 1

-----------------------------------------------------------------------------
(* SyncContext, run by a caller r                                          *)

Call(r) ==
    /\ pc[r] = "idle" /\ asks < MaxCalls
    /\ pc' = [pc EXCEPT ![r] = "enter"]
    /\ ctx' = [ctx EXCEPT ![r] = "live"]
    /\ res' = [res EXCEPT ![r] = "none"]
    /\ asks' = asks + 1
    /\ from' = [from EXCEPT ![r] = Finished]
    /\ UNCHANGED <<gateVars, callVars, mine, cpc>>

\* The client hangs up, or the handler's timeout fires.
CancelCtx(r) ==
    /\ pc[r] # "idle" /\ ctx[r] = "live"
    /\ ctx' = [ctx EXCEPT ![r] = "done"]
    /\ UNCHANGED <<gateVars, callVars, pc, mine, res, asks, from, cpc>>

Return(r, v) ==
    /\ pc' = [pc EXCEPT ![r] = "idle"]
    /\ res' = [res EXCEPT ![r] = v]
    /\ mine' = [mine EXCEPT ![r] = 0]
    /\ UNCHANGED <<gateVars, callVars, ctx, asks, from, cpc>>

EnterCancelled(r) ==
    /\ pc[r] = "enter" /\ ctx[r] = "done"
    /\ Return(r, "cancelled")

EnterLive(r) ==
    /\ pc[r] = "enter" /\ ctx[r] = "live"
    /\ pc' = [pc EXCEPT ![r] = "lock"]
    /\ UNCHANGED <<gateVars, callVars, mine, ctx, res, asks, from, cpc>>

\* The four ways through the critical section.
RefuseClosed(r) ==
    /\ pc[r] = "lock" /\ closed
    /\ Return(r, "refused")

JoinInflight(r) ==
    /\ pc[r] = "lock" /\ ~closed /\ inflight # 0
    /\ pc' = [pc EXCEPT ![r] = "wait"]
    /\ mine' = [mine EXCEPT ![r] = inflight]
    /\ UNCHANGED <<gateVars, callVars, ctx, res, asks, from, cpc>>

\* o.lastDone is recent.  It is set by failed fetches too, so a broken relay
\* is not hammered; the mutant counts successes only.
WithinIntervalIfOk == Coalesce /\ window = "open" /\ lastErr = "ok"
WithinInterval == Coalesce /\ window = "open"

Coalesced(r) ==
    /\ pc[r] = "lock" /\ ~closed /\ inflight = 0
    /\ WithinInterval
    /\ Return(r, lastErr)

\* mutant: the in-flight test is forgotten
MayStartBeside == ~closed /\ ~WithinInterval
MayStart == ~closed /\ inflight = 0 /\ ~WithinInterval

StartCall(r) ==
    /\ pc[r] = "lock" /\ MayStart
    /\ ncalls < MaxCalls          \* implied: every call record needs an ask
    /\ ncalls' = ncalls + 1
    /\ fetchCtx' = IF fetchCtx = "nil" THEN "live" ELSE fetchCtx
    /\ inflight' = ncalls + 1
    /\ wg' = wg + 1
    /\ phase' = [phase EXCEPT ![ncalls + 1] = "registered"]
    /\ pc' = [pc EXCEPT ![r] = "spawn"]
    /\ mine' = [mine EXCEPT ![r] = ncalls + 1]
    /\ UNCHANGED <<window, lastErr, closed, gerr, cerr, done, ctx, res, asks, from, cpc>>

\* go o.fetch(c), after the mutex is released
SpawnFetch(r) ==
    /\ pc[r] = "spawn"
    /\ pc' = [pc EXCEPT ![r] = "wait"]
    /\ phase' = [phase EXCEPT ![mine[r]] = "spawned"]
    /\ UNCHANGED <<gateVars, gerr, cerr, done, mine, ctx, res, asks, from, cpc>>

\* The two cases of the select; either may be taken when both are ready.
WaitDone(r) ==
    /\ pc[r] = "wait" /\ mine[r] \in done
    /\ Return(r, cerr[mine[r]])

\* mutant: the waiter looks at its context only after the fetch has ended
WaitCancelledLate(r) ==
    /\ pc[r] = "wait" /\ mine[r] \in done /\ ctx[r] = "done"
    /\ Return(r, "cancelled")
WaitCancelled(r) ==
    /\ pc[r] = "wait" /\ ctx[r] = "done"
    /\ Return(r, "cancelled")

-----------------------------------------------------------------------------
(* fetch, the goroutine of record c, and time                              *)

FetchBegin(c) ==
    /\ phase[c] = "spawned"
    /\ phase' = [phase EXCEPT ![c] = "fetching"]
    /\ UNCHANGED <<gateVars, gerr, cerr, done, callerVars, cpc>>

\* FetchOnce returns, or panics: recover() turns the panic into an error, so
\* both failures reach the publishing step with err set.  In the mutant a
\* panic unwinds past it.
FetchPanicEscapes(c) ==
    /\ phase[c] = "fetching"
    /\ \E p \in {"returned", "publish"} : phase' = [phase EXCEPT ![c] = p]
    /\ UNCHANGED <<gateVars, gerr, cerr, done, callerVars, cpc>>
FetchReturns(c) ==
    /\ phase[c] = "fetching"
    /\ phase' = [phase EXCEPT ![c] = "returned"]
    /\ \E e \in Outcome : gerr' = [gerr EXCEPT ![c] = e]
    /\ UNCHANGED <<gateVars, cerr, done, callerVars, cpc>>

Publish(c) ==
    /\ phase[c] = "returned"
    /\ cerr' = [cerr EXCEPT ![c] = gerr[c]]
    /\ window' = "open"
    /\ lastErr' = gerr[c]
    /\ inflight' = 0
    /\ done' = done \cup {c}
    /\ phase' = [phase EXCEPT ![c] = "publish"]
    /\ UNCHANGED <<fetchCtx, closed, wg, ncalls, gerr, callerVars, cpc>>

\* the deferred cancel() and wg.Done(); the mutant runs Done more than once
FetchExitAgain(c) ==
    /\ phase[c] = "publish"
    /\ wg' = wg - 1
    /\ UNCHANGED <<inflight, window, lastErr, fetchCtx, closed, ncalls,
                   callVars, callerVars, cpc>>
FetchExit(c) ==
    /\ phase[c] = "publish"
    /\ phase' = [phase EXCEPT ![c] = "exited"]
    /\ wg' = wg - 1
    /\ UNCHANGED <<inflight, window, lastErr, fetchCtx, closed, ncalls,
                   gerr, cerr, done, callerVars, cpc>>

IntervalElapses ==
    /\ window = "open"
    /\ window' = "elapsed"
    /\ UNCHANGED <<inflight, lastErr, fetchCtx, closed, wg, ncalls,
                   callVars, callerVars, cpc>>

-----------------------------------------------------------------------------
(* Close, run by a closer k                                                *)

\* mutant: Close marks the gate closed and leaves the fetch alone
NoCancel == fetchCtx
CancelFetch == IF ~closed /\ fetchCtx = "live" THEN "cancelled" ELSE fetchCtx

CloseLocked(k) ==
    /\ cpc[k] = "open"
    /\ cpc' = [cpc EXCEPT ![k] = "waiting"]
    /\ closed' = TRUE
    /\ fetchCtx' = CancelFetch
    /\ UNCHANGED <<inflight, window, lastErr, wg, ncalls, callVars, callerVars>>

\* o.wg.Wait(); the mutant does not wait for the goroutine's last defers
Unpublished == inflight = 0
Drained == wg = 0

CloseReturns(k) ==
    /\ cpc[k] = "waiting" /\ Drained
    /\ cpc' = [cpc EXCEPT ![k] = "returned"]
    /\ UNCHANGED <<gateVars, callVars, callerVars>>

-----------------------------------------------------------------------------
CallerSteps(r) ==
    \/ EnterCancelled(r) \/ EnterLive(r)
    \/ RefuseClosed(r) \/ JoinInflight(r) \/ Coalesced(r) \/ StartCall(r)
    \/ SpawnFetch(r) \/ WaitDone(r) \/ WaitCancelled(r)

\* Every request has ended, every fetch has ended, every Close has returned.
Terminated ==
    /\ \A r \in Callers : pc[r] = "idle"
    /\ asks = MaxCalls /\ Active = {} /\ window # "open"
    /\ \A k \in Closers : cpc[k] = "returned"
    /\ UNCHANGED vars

Next ==
    \/ \E r \in Callers : Call(r) \/ CancelCtx(r) \/ CallerSteps(r)
    \/ \E c \in CallId :
          FetchBegin(c) \/ FetchReturns(c) \/ Publish(c) \/ FetchExit(c)
    \/ \E k \in Closers : CloseLocked(k) \/ CloseReturns(k)
    \/ IntervalElapses
    \/ Terminated

Spec == Init /\ [][Next]_vars

\* A runnable goroutine is eventually run.  FetchOnce is a network call: it is
\* only relied on to return once its context has been cancelled.
FetchReturnsOnCancel(c) == fetchCtx = "cancelled" /\ FetchReturns(c)

Fairness ==
    /\ \A r \in Callers : WF_vars(CallerSteps(r))
    /\ \A c \in CallId :
          /\ WF_vars(FetchBegin(c))
          /\ WF_vars(FetchReturnsOnCancel(c))
          /\ WF_vars(Publish(c))
          /\ WF_vars(FetchExit(c))
    /\ \A k \in Closers : WF_vars(CloseReturns(k))

FairSpec == Spec /\ Fairness

-----------------------------------------------------------------------------
(* Properties                                                              *)

\* "OnDemand runs at most one in-flight fetch": two FetchOnce calls never
\* overlap, although the goroutine of the previous one may still be exiting.
SingleFetch ==
    \A c, d \in CallId :
        phase[c] = "fetching" /\ phase[d] = "fetching" => c = d

\* A registered flight always has somebody left to publish it: the caller
\* about to spawn its goroutine or the goroutine itself.  Otherwise every
\* later request would join a fetch that never ends.
NoOrphanFlight ==
    inflight # 0 =>
        \/ phase[inflight] \in {"spawned", "fetching", "returned"}
        \/ \E r \in Callers : pc[r] = "spawn" /\ mine[r] = inflight

\* Once Close has returned no fetch goroutine is left that could use the
\* database or the relay connection, and once Close has begun no fetch runs
\* under a context that is still live.
NoFetchOutlivesClose ==
    /\ \A k \in Closers : cpc[k] = "returned" => Active = {}
    /\ closed => fetchCtx # "live"

\* Close returns, whatever fetch was in flight when it began.
CloseTerminates ==
    \A k \in Closers : cpc[k] = "waiting" ~> cpc[k] = "returned"

\* A request is let go when its client has gone, when the gate is closed, and
\* when the fetch it waits for has ended, with an error or a panic as well.
CallersReleased ==
    \A r \in Callers :
        (\/ ctx[r] = "done" \/ closed
         \/ (pc[r] = "wait" /\ phase[mine[r]] \in {"returned", "publish", "exited"}))
        ~> pc[r] = "idle"

-----------------------------------------------------------------------------
(* The gate implements SingleFlight, which knows no mutex, no call record  *)
(* and no goroutine.                                                       *)

SF == INSTANCE SingleFlight WITH
        running <- inflight # 0,
        outcome <- [n \in 1..Finished |-> cerr[n]],
        quiet   <- window = "open",
        shut    <- closed,
        asking  <- {r \in Callers : pc[r] # "idle"},
        gone    <- {r \in Callers : ctx[r] = "done"},
        since   <- from,
        answer  <- res

\* The answer a request gets is the outcome of a fetch that had not been
\* superseded when the request was made; fetches do not overlap, keep their
\* distance of MinInterval, and none starts after Close.
ImplementsSingleFlight == SF!Spec
=============================================================================
