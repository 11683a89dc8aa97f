---------------------------- MODULE GraphPoller -----------------------------
(***************************************************************************)
(* graph.Poller: one FetchOnce drains the relay inbox page by page behind  *)
(* a high-water mark that is kept in memory only.  Microsoft Graph is a    *)
(* set of messages with receive times in whole seconds; it answers with    *)
(* the oldest PageSize of those at or after the mark.                      *)
(***************************************************************************)
EXTENDS Naturals, FiniteSets, FiniteSetsExt

CONSTANTS
    PageSize,      \* pageSize, 50 in the code
    Lookback,      \* how far back a fresh poller starts: two minutes
    PerSecond,     \* environment: mail that arrives within one second
    MaxMail,       \* bound: messages that ever arrive
    MaxTime,       \* bound: the clock, in seconds
    MaxFailures    \* bound: failed requests, failed stores and restarts

ASSUME PageSizeAssumption == PageSize \in Nat \ {0}
ASSUME BoundsAssumption ==
    {Lookback, PerSecond, MaxMail, MaxTime, MaxFailures} \subseteq Nat

VARIABLES
    now,       \* the clock; it starts so that the look-back is not before 1
    inbox,     \* the relay inbox: messages [id, recv]
    since,     \* p.since; 0 is the zero time
    pc,        \* idle, in the drain loop before a request, or storing a page
    page,      \* the messages of the page not stored yet
    latest,    \* latest, of the page's messages handled so far
    full,      \* len(result.Value) >= pageSize
    rows,      \* ids that have a row in table messages
    stored,    \* ids that have ever had one (history)
    handled,   \* ids this process has stored or found stored (history)
    failed,    \* ids whose StoreGraphMessage failed at least once (history)
    seen,      \* the inbox when the running FetchOnce began (history)
    mark,      \* and p.since at that time (history)
    edges,     \* seconds at which a partial page ended (history)
    floor,     \* where the current since started from (history)
    failures   \* failures so far (only for the bound)

rowVars == <<rows, stored, handled>>
vars == <<now, inbox, since, pc, page, latest, full, rows, stored, handled,
          failed, seen, mark, edges, floor, failures>>

Mail == [id : 1..MaxMail, recv : Nat]
Ids(ms) == {m.id : m \in ms}

TypeOK ==
    /\ now \in Nat /\ inbox \subseteq Mail /\ since \in Nat
    /\ pc \in {"idle", "poll", "store"} /\ (pc # "idle" => since # 0)
    /\ page \subseteq inbox /\ latest \in Nat /\ full \in BOOLEAN
    /\ rows \subseteq stored /\ handled \subseteq stored
    /\ stored \subseteq Ids(inbox) /\ failed \subseteq Ids(inbox)
    /\ seen \subseteq inbox /\ mark \in Nat
    /\ edges \subseteq Nat /\ floor \in Nat /\ failures \in 0..MaxFailures

Init ==
    /\ now = Lookback + 1
    /\ inbox = {} /\ since = 0
    /\ pc = "idle" /\ page = {} /\ latest = 0 /\ full = FALSE
    /\ rows = {} /\ stored = {} /\ handled = {} /\ failed = {}
    /\ seen = {} /\ mark = 0 /\ edges = {} /\ floor = 0 /\ failures = 0

-----------------------------------------------------------------------------
(* FetchOnce and pollOnce                                                  *)

Waiting(t) == {m \in inbox : m.recv >= t}

StartMark == IF since = 0 THEN now - Lookback ELSE since

FetchOnce ==
    /\ pc = "idle"
    /\ since' = StartMark
    /\ floor' = IF since = 0 THEN StartMark ELSE floor
    /\ seen' = inbox /\ mark' = StartMark
    /\ pc' = "poll"
    /\ UNCHANGED <<now, inbox, page, latest, full, rowVars, failed, edges, failures>>

\* $filter receivedDateTime ge since, $orderby receivedDateTime asc, $top.
\* Graph promises no order among the messages of one second.
Pages ==
    {ms \in SUBSET Waiting(since) :
        /\ Cardinality(ms) = Min({PageSize, Cardinality(Waiting(since))})
        /\ \A m \in ms, n \in Waiting(since) \ ms : m.recv <= n.recv}

Return == pc' = "idle" /\ seen' = {} /\ mark' = 0

EmptyPage ==
    /\ pc = "poll" /\ Waiting(since) = {}
    /\ Return
    /\ UNCHANGED <<now, inbox, since, page, latest, full, rowVars, failed, edges, floor, failures>>

\* mutants: go on while there was work (hadWork instead of fullPage); off by one
HadWork(ms) == ms # {}
AlmostFull(ms) == Cardinality(ms) + 1 >= PageSize
IsFull(ms) == Cardinality(ms) >= PageSize

GetPage ==
    /\ pc = "poll" /\ Waiting(since) # {}
    /\ page' \in Pages
    /\ latest' = 0
    /\ full' = IsFull(page')
    /\ pc' = "store"
    /\ UNCHANGED <<now, inbox, since, rowVars, failed, seen, mark, edges, floor, failures>>

\* No token, no connection, a status other than 200, a body that does not parse.
RequestFails ==
    /\ pc = "poll" /\ failures < MaxFailures
    /\ failures' = failures + 1
    /\ Return
    /\ UNCHANGED <<now, inbox, since, page, latest, full, rowVars, failed, edges, floor>>

\* StoreGraphMessage for the next message of the page: stored, known already,
\* or failed, which is only logged.
Handled(m) ==
    /\ pc = "store" /\ m \in page /\ \A n \in page : m.recv <= n.recv
    /\ page' = page \ {m}
    /\ latest' = Max({latest, m.recv})
    /\ UNCHANGED <<now, inbox, since, pc, full, seen, mark, edges, floor>>

Store(m) ==
    /\ Handled(m)
    /\ rows' = rows \cup {m.id}
    /\ stored' = stored \cup {m.id}
    /\ handled' = handled \cup {m.id}
    /\ UNCHANGED <<failed, failures>>

StoreFails(m) ==
    /\ m.id \notin rows /\ failures < MaxFailures
    /\ Handled(m)
    /\ failed' = failed \cup {m.id}
    /\ failures' = failures + 1
    /\ UNCHANGED rowVars

\* The mark after a page.  mutants: past the second after a full page as well;
\* up to the clock instead of the newest message; the same after any page
MarkPastSecond == latest + 1
MarkFromClock == now + 1
MarkStays == latest
NextMark == IF full THEN latest ELSE latest + 1

\* Graph dates every message, so latest is never zero once a page is handled.
EndPage ==
    /\ pc = "store" /\ page = {}
    /\ since' = NextMark
    /\ edges' = IF full THEN edges ELSE edges \cup {latest}
    /\ IF full THEN pc' = "poll" /\ UNCHANGED <<seen, mark>> ELSE Return
    /\ UNCHANGED <<now, inbox, page, latest, full, rowVars, failed, floor, failures>>

-----------------------------------------------------------------------------
(* Around it: mail arrives, time passes, the process restarts              *)

Arrive ==
    /\ Cardinality(inbox) < MaxMail
    /\ Cardinality({m \in inbox : m.recv = now}) < PerSecond
    /\ inbox' = inbox \cup {[id |-> Cardinality(inbox) + 1, recv |-> now]}
    /\ UNCHANGED <<now, since, pc, page, latest, full, rowVars, failed,
                   seen, mark, edges, floor, failures>>

Tick ==
    /\ now < MaxTime
    /\ now' = now + 1
    /\ UNCHANGED <<inbox, since, pc, page, latest, full, rowVars, failed,
                   seen, mark, edges, floor, failures>>

Restart ==
    /\ failures < MaxFailures
    /\ failures' = failures + 1
    /\ since' = 0 /\ pc' = "idle" /\ page' = {} /\ latest' = 0 /\ full' = FALSE
    /\ seen' = {} /\ mark' = 0 /\ edges' = {} /\ floor' = 0
    /\ handled' = {}
    /\ UNCHANGED <<now, inbox, rows, stored, failed>>

\* A client deletes the message or its mailbox, or the cleaner does.
DeleteMessage ==
    /\ \E i \in rows : rows' = rows \ {i}
    /\ UNCHANGED <<now, inbox, since, pc, page, latest, full, stored, handled,
                   failed, seen, mark, edges, floor, failures>>

PollerSteps ==
    \/ EmptyPage \/ GetPage \/ EndPage
    \/ \E m \in page : Store(m)

Next ==
    \/ FetchOnce \/ PollerSteps
    \/ RequestFails \/ \E m \in page : StoreFails(m)
    \/ DeleteMessage \/ Arrive \/ Tick \/ Restart

Spec == Init /\ [][Next]_vars

\* A fetch that has begun keeps running; nobody has to begin one.
FairSpec == Spec /\ WF_vars(PollerSteps)

-----------------------------------------------------------------------------
(* Properties                                                              *)

\* A FetchOnce that returns nil has stored, or failed to store, everything
\* that was waiting at or after its mark when it began, over any number of
\* pages and whatever arrived in between.
ReturnsNil == pc # "idle" /\ pc' = "idle" /\ failures' = failures
Kept(m) == m.id \in stored \cup failed
BacklogCleared == [][ReturnsNil => \A m \in seen : m.recv >= mark => Kept(m)]_vars

\* Mail the poller will never ask for again (it lies before the mark and has
\* never had a row) failed to store, was older than the look-back when the process
\* started, or came in the very second a partial page ended with.
SkippedOnlyAtEdge ==
    \A m \in inbox :
        pc = "idle" /\ m.recv < since /\ m.id \notin stored =>
            \/ m.id \in failed
            \/ m.recv < floor
            \/ m.recv \in edges

\* A message that was deleted after this process had stored it comes back only
\* from the second a full page ended with (no partial page did), which is asked
\* for a second time; the dedup sees stored rows only.
DeletedStaysAway ==
    [][\A m \in inbox :
        m.id \in rows' \ rows /\ m.id \in handled =>
            m.recv = since /\ m.recv \notin edges]_vars

\* A drain gets on: each full page moves the mark, although it is asked for
\* with "at or after", as long as a second brings fewer messages than a page
\* holds.  The next page is never the same one again.
DrainGetsOn == [][pc = "store" /\ pc' = "poll" => since' > since]_vars

\* graph/poller.go:74: "Drain until a partial page so backlog is cleared in one
\* client request": a fetch that has begun ends.
DrainEnds == pc # "idle" ~> pc = "idle"

\* api.md:85: a read first triggers a fetch of the relay inbox.  What lies there
\* when a fetch begins, no older than where the poller started, is stored (or
\* its store has failed) when that fetch returns nil.
NewMailIsFetched == [][ReturnsNil => \A m \in seen : m.recv >= floor => Kept(m)]_vars
=============================================================================
