------------------------------- MODULE Ingest --------------------------------
(***************************************************************************)
(* A client reads its mail: the handler asks the on-demand gate, which     *)
(* runs the Graph poller's FetchOnce or lets it pass, and then reads the   *)
(* database.  The gate is what SingleFlight promises of it; the poller is  *)
(* module GraphPoller, whose every step is one of a shared fetch.          *)
(***************************************************************************)
EXTENDS GraphPoller

CONSTANT Readers    \* handlers that call SyncContext and then read

VARIABLES
    quiet,    \* a fetch ended within MinInterval
    reader,   \* reader[r]: where a handler is
    owed,     \* owed[r]: the mail its answer has to show (history)
    last      \* the mail the last fetch answers for (history)

readVars == <<quiet, reader, owed, last>>
ingestVars == <<vars, readVars>>

IngestTypeOK ==
    /\ quiet \in BOOLEAN
    /\ reader \in [Readers -> {"idle", "waiting", "reading"}]
    /\ \A r \in Readers : reader[r] = "waiting" => pc # "idle"
    /\ owed \in [Readers -> SUBSET inbox]
    /\ last \subseteq inbox

IngestInit ==
    /\ Init
    /\ quiet = FALSE /\ last = {}
    /\ reader = [r \in Readers |-> "idle"]
    /\ owed = [r \in Readers |-> {}]

-----------------------------------------------------------------------------
(* MessageHandler.sync                                                     *)

Wait(r) ==
    /\ reader[r] = "idle"
    /\ reader' = [reader EXCEPT ![r] = "waiting"]
    /\ UNCHANGED <<quiet, owed, last>>

StartFetch(r) == pc = "idle" /\ ~quiet /\ FetchOnce /\ Wait(r)
JoinFetch(r) == pc # "idle" /\ Wait(r) /\ UNCHANGED vars

\* Within MinInterval the last fetch answers for this request as well.
Coalesced(r) ==
    /\ reader[r] = "idle" /\ pc = "idle" /\ quiet
    /\ reader' = [reader EXCEPT ![r] = "reading"]
    /\ owed' = [owed EXCEPT ![r] = last]
    /\ UNCHANGED <<vars, quiet, last>>

\* The client goes, or its patience ends: the handler reads what there is.
LetGo(r) ==
    /\ reader[r] = "waiting"
    /\ reader' = [reader EXCEPT ![r] = "reading"]
    /\ UNCHANGED <<vars, quiet, owed, last>>

\* The statements of ListMessages, see MailStore
Answer(r) ==
    /\ reader[r] = "reading"
    /\ reader' = [reader EXCEPT ![r] = "idle"]
    /\ owed' = [owed EXCEPT ![r] = {}]
    /\ UNCHANGED <<vars, quiet, last>>

-----------------------------------------------------------------------------
(* The end of a fetch releases all who wait for it, with its error or      *)
(* without; the handlers drop that error.                                  *)

\* mutant: the waiters are released by the first page
PageDone == pc = "store" /\ pc' # "store"
FetchDone == pc # "idle" /\ pc' = "idle"
Shown == IF failures' = failures THEN seen ELSE {}

Released ==
    IF FetchDone
    THEN /\ quiet' = TRUE
         /\ last' = Shown
         /\ reader' = [r \in Readers |->
                IF reader[r] = "waiting" THEN "reading" ELSE reader[r]]
         /\ owed' = [r \in Readers |->
                IF reader[r] = "waiting" THEN Shown ELSE owed[r]]
    ELSE UNCHANGED readVars

FetchSteps == PollerSteps /\ Released
FetchFaults == (RequestFails \/ \E m \in page : StoreFails(m)) /\ Released

IntervalElapses ==
    /\ quiet
    /\ quiet' = FALSE
    /\ UNCHANGED <<vars, reader, owed, last>>

Around == (DeleteMessage \/ Arrive \/ Tick) /\ UNCHANGED readVars

RestartServer ==
    /\ Restart
    /\ quiet' = FALSE /\ last' = {}
    /\ reader' = [r \in Readers |-> "idle"]
    /\ owed' = [r \in Readers |-> {}]

IngestNext ==
    \/ \E r \in Readers :
        StartFetch(r) \/ JoinFetch(r) \/ Coalesced(r) \/ LetGo(r) \/ Answer(r)
    \/ FetchSteps \/ FetchFaults \/ IntervalElapses
    \/ Around
    \/ RestartServer

IngestSpec == IngestInit /\ [][IngestNext]_ingestVars
\* A fetch that has begun keeps running; nobody has to ask.
FairIngestSpec == IngestSpec /\ WF_ingestVars(FetchSteps)

-----------------------------------------------------------------------------
(* Property                                                                *)

\* api.md:85, handlers/message.go:57-60: a read answered after a fetch that
\* succeeded - its own, one it joined, or the last one of MinInterval ago -
\* finds in the database all the mail that was in the relay inbox when that
\* fetch began, over however many pages it took, but for what failed to store,
\* is older than the look-back of this start, or lies in the second a partial
\* page ended with.
ReadShowsRelay ==
    \A r \in Readers : reader[r] = "reading" =>
        \A m \in owed[r] : Kept(m) \/ m.recv < floor \/ m.recv \in edges
=============================================================================
