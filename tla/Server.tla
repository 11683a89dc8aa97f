------------------------------- MODULE Server --------------------------------
(***************************************************************************)
(* main: a start, the HTTP handlers around the on-demand gate, and the     *)
(* shutdown: stop accepting, five seconds for the handlers under way, then *)
(* Close of the gate, then the end of the process with whatever still      *)
(* runs.  The gate is what module SingleFlight promises: one fetch at a    *)
(* time, shared, cancelled by Close and waited for.                        *)
(***************************************************************************)
EXTENDS ConfigLoad, Naturals

CONSTANTS
    Readers,    \* goroutines of handlers that sync before they read
    Senders,    \* goroutines of POST /api/send
    MaxStarts   \* bound: starts of the process

ASSUME MaxStartsAssumption == MaxStarts \in Nat

VARIABLES
    main,     \* where main is, or how the process ended
    gate,     \* onDemand is not nil
    usable,   \* whether the configuration of this start is of use (history)
    graced,   \* the five seconds of Shutdown are over
    fetch,    \* the shared fetch
    reader,   \* reader[r]: where a reading handler is
    sender,   \* sender[s]: where a sending handler is
    starts    \* starts so far (only for the bound)

vars == <<main, gate, usable, graced, fetch, reader, sender, starts>>

TypeOK ==
    /\ main \in {"down", "up", "draining", "closing", "exited", "crashed"}
    /\ gate \in BOOLEAN /\ graced \in BOOLEAN
    /\ usable \in {"yes", "nameless", "no"}
    /\ fetch \in {"none", "running", "cancelled"}
    /\ fetch # "none" => gate /\ main \in {"up", "draining", "closing"}
    /\ reader \in [Readers -> {"idle", "entered", "waiting", "reading"}]
    /\ \A r \in Readers : reader[r] = "waiting" => fetch # "none"
    /\ sender \in [Senders -> {"idle", "sending"}]
    /\ starts \in 0..MaxStarts

Handlerless ==
    /\ reader = [r \in Readers |-> "idle"]
    /\ sender = [s \in Senders |-> "idle"]

Init ==
    /\ main = "down" /\ gate = FALSE /\ usable = "yes" /\ graced = FALSE
    /\ fetch = "none" /\ starts = 0
    /\ Handlerless

-----------------------------------------------------------------------------
(* Start.  A configuration that does not load ends the process at once.    *)

Use(e) ==
    CASE Usable(e)                   -> "yes"
      [] ~Usable(e) /\ Nameless(e)   -> "nameless"
      [] OTHER                       -> "no"

Start ==
    /\ main \in {"down", "exited", "crashed"} /\ starts < MaxStarts
    /\ \E e \in Env :
        /\ Loads(e)
        /\ gate' = (Poller(e) # "none")
        /\ usable' = Use(e)
    /\ main' = "up"
    /\ graced' = FALSE
    /\ starts' = starts + 1
    /\ UNCHANGED <<fetch, reader, sender>>

-----------------------------------------------------------------------------
(* The handlers: accepted only while the listener is open                  *)

Read(r) ==
    /\ main = "up" /\ reader[r] = "idle"
    /\ reader' = [reader EXCEPT ![r] = "entered"]
    /\ UNCHANGED <<main, gate, usable, graced, fetch, sender, starts>>

\* SyncContext: starts a fetch or joins it, or passes at once: there is no
\* gate, it is closed, or a fetch ended within MinInterval.
Sync(r) ==
    /\ reader[r] = "entered"
    /\ \/ /\ gate /\ main \in {"up", "draining"}
          /\ fetch' = IF fetch = "none" THEN "running" ELSE fetch
          /\ reader' = [reader EXCEPT ![r] = "waiting"]
       \/ /\ ~gate \/ main = "closing" \/ fetch = "none"
          /\ reader' = [reader EXCEPT ![r] = "reading"]
          /\ UNCHANGED fetch
    /\ UNCHANGED <<main, gate, usable, graced, sender, starts>>

\* The client of a waiting handler goes: SyncContext lets it pass.
LetGo(r) ==
    /\ reader[r] = "waiting"
    /\ reader' = [reader EXCEPT ![r] = "reading"]
    /\ UNCHANGED <<main, gate, usable, graced, fetch, sender, starts>>

Respond(r) ==
    /\ reader[r] = "reading"
    /\ reader' = [reader EXCEPT ![r] = "idle"]
    /\ UNCHANGED <<main, gate, usable, graced, fetch, sender, starts>>

\* The end of the fetch releases all who wait for it.
Woken(r) == IF reader[r] = "waiting" THEN "reading" ELSE reader[r]

FetchEnds ==
    /\ fetch # "none"
    /\ fetch' = "none"
    /\ reader' = [r \in Readers |-> Woken(r)]
    /\ UNCHANGED <<main, gate, usable, graced, sender, starts>>

Send(s) ==
    /\ main = "up" /\ sender[s] = "idle"
    /\ sender' = [sender EXCEPT ![s] = "sending"]
    /\ UNCHANGED <<main, gate, usable, graced, fetch, reader, starts>>

Sent(s) ==
    /\ sender[s] = "sending"
    /\ sender' = [sender EXCEPT ![s] = "idle"]
    /\ UNCHANGED <<main, gate, usable, graced, fetch, reader, starts>>

-----------------------------------------------------------------------------
(* The shutdown                                                            *)

\* SIGINT or SIGTERM.  A second one stays in the channel, which has room for
\* it, and is never read.  The mutant closes the gate before the handlers.
CancelAtOnce == IF fetch = "running" THEN "cancelled" ELSE fetch
FetchAtSignal == fetch

Signal ==
    /\ main = "up"
    /\ main' = "draining"
    /\ fetch' = FetchAtSignal
    /\ UNCHANGED <<gate, usable, graced, reader, sender, starts>>

GraceEnds ==
    /\ main = "draining" /\ ~graced
    /\ graced' = TRUE
    /\ UNCHANGED <<main, gate, usable, fetch, reader, sender, starts>>

\* srv.Shutdown returns; then onDemand.Close cancels the fetch.  mutant: the
\* fetch is left alone
LeftAlone == fetch
Cancelled == IF fetch = "running" THEN "cancelled" ELSE fetch

ShutdownReturns ==
    /\ main = "draining" /\ (Handlerless \/ graced)
    /\ main' = "closing"
    /\ fetch' = Cancelled
    /\ UNCHANGED <<gate, usable, graced, reader, sender, starts>>

\* The process ends with every goroutine in it.
Ends(how) ==
    /\ main' = how
    /\ fetch' = "none"
    /\ reader' = [r \in Readers |-> "idle"]
    /\ sender' = [s \in Senders |-> "idle"]
    /\ UNCHANGED <<gate, usable, graced, starts>>

\* Close waits for the fetch.  mutant: it does not
NoWait == TRUE
GateDrained == fetch = "none"

Exit == main = "closing" /\ GateDrained /\ Ends("exited")

Crash == main \in {"up", "draining", "closing"} /\ Ends("crashed")

Next ==
    \/ Start
    \/ \E r \in Readers : Read(r) \/ Sync(r) \/ LetGo(r) \/ Respond(r)
    \/ FetchEnds
    \/ \E s \in Senders : Send(s) \/ Sent(s)
    \/ Signal \/ GraceEnds \/ ShutdownReturns \/ Exit
    \/ Crash

Spec == Init /\ [][Next]_vars

\* Shutdown's timer fires, main goes on, and a fetch that has been cancelled
\* returns.  No handler is relied on to end: a send has no deadline.
FairSpec ==
    /\ Spec
    /\ WF_vars(GraceEnds) /\ WF_vars(ShutdownReturns) /\ WF_vars(Exit)
    /\ WF_vars(fetch = "cancelled" /\ FetchEnds)

-----------------------------------------------------------------------------
(* Properties                                                              *)

\* config.go:272-320, main.go:73-134 and imap/poller.go:443-464: whatever
\* settings it was started with, a running server's configuration gives mail a
\* way in and the poller it has chosen all it logs in with, except that Load
\* does not ask for the IMAP_USER which connect names in oauth2 mode as well.
\* (An SMTP listener that fails is logged.)
StartedUsable == main # "down" => usable \in {"yes", "nameless"}

\* While the five seconds of Shutdown last, no handler is cut off and no fetch
\* is cancelled that a handler waits for; an orderly exit never cuts a fetch,
\* which may be exchanging the refresh token.
GraceIsKept ==
    [][/\ fetch = "running" /\ fetch' = "cancelled" =>
            graced \/ \A r \in Readers : reader[r] # "waiting"
       /\ main = "closing" /\ main' = "exited" =>
            fetch = "none" /\ (graced \/ Handlerless)]_vars

\* A signal ends the process, also with handlers that never end and with a
\* fetch that only ends when it is cancelled.
ShutdownEnds ==
    main \in {"draining", "closing"} ~> main \in {"exited", "crashed"}
=============================================================================
