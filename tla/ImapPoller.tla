----------------------------- MODULE ImapPoller -----------------------------
(***************************************************************************)
(* imap.Poller: one FetchOnce searches the UNSEEN messages of the relay    *)
(* mailbox, streams and stores them, flags them \Seen and searches again   *)
(* until nothing is unseen.  The \Seen flag is the only memory of what has *)
(* been stored: there is no other test for duplicates.                     *)
(***************************************************************************)
EXTENDS Naturals, FiniteSets

CONSTANTS
    MaxMail,     \* bound: messages that ever arrive
    MaxRows,     \* bound: rows counted per message, "this many or more"
    MaxFaults    \* bound: cut streams, refused commands and stores, restarts

ASSUME BoundsAssumption ==
    {MaxMail, MaxFaults} \subseteq Nat /\ MaxRows \in Nat \ {0, 1}

MailId == 1..MaxMail

VARIABLES
    inbox,      \* messages in the mailbox
    ours,       \* those with a body and a recipient at our domains
    flagged,    \* those with the \Seen flag
    pc,         \* idle, before SELECT and SEARCH, streaming, before STORE
    todo,       \* searched and not delivered yet
    buffer,     \* delivered to the channel and not handled yet
    toMarkSeen, \* toMarkSeen
    cut,        \* the FETCH command has failed
    rows,       \* rows[m]: rows of table messages made from m
    failed,     \* messages whose StoreMessage failed (history)
    shaken,     \* messages in flight when something broke (history)
    faults      \* faults so far (only for the bound)

vars == <<inbox, ours, flagged, pc, todo, buffer, toMarkSeen, cut, rows,
          failed, shaken, faults>>

InFlight == todo \cup buffer \cup toMarkSeen

TypeOK ==
    /\ inbox \subseteq MailId /\ ours \subseteq inbox /\ flagged \subseteq inbox
    /\ pc \in {"idle", "search", "stream", "mark"}
    /\ InFlight \subseteq inbox
    /\ pc \notin {"stream", "mark"} => InFlight = {}
    /\ cut \in BOOLEAN
    /\ rows \in [MailId -> 0..MaxRows]
    /\ failed \subseteq ours /\ shaken \subseteq inbox
    /\ faults \in 0..MaxFaults

Init ==
    /\ inbox = {} /\ ours = {} /\ flagged = {}
    /\ pc = "idle" /\ todo = {} /\ buffer = {} /\ toMarkSeen = {} /\ cut = FALSE
    /\ rows = [m \in MailId |-> 0]
    /\ failed = {} /\ shaken = {} /\ faults = 0

Fault == faults < MaxFaults /\ faults' = faults + 1
Shake(ms) == shaken' = shaken \cup ms

-----------------------------------------------------------------------------
(* FetchOnce and fetchUnread                                               *)

\* A connection that cannot be made leaves everything as it is.
FetchOnce ==
    /\ pc = "idle"
    /\ pc' = "search"
    /\ UNCHANGED <<inbox, ours, flagged, todo, buffer, toMarkSeen, cut, rows,
                   failed, shaken, faults>>

Unseen == inbox \ flagged

SearchFindsNone ==
    /\ pc = "search" /\ Unseen = {}
    /\ pc' = "idle"
    /\ UNCHANGED <<inbox, ours, flagged, todo, buffer, toMarkSeen, cut, rows,
                   failed, shaken, faults>>

SearchFinds ==
    /\ pc = "search" /\ Unseen # {}
    /\ pc' = "stream"
    /\ todo' = Unseen /\ cut' = FALSE
    /\ UNCHANGED <<inbox, ours, flagged, buffer, toMarkSeen, rows, failed, shaken, faults>>

\* SELECT or SEARCH is refused, or the connection is lost.
SearchFails ==
    /\ pc = "search" /\ Fault
    /\ pc' = "idle"
    /\ UNCHANGED <<inbox, ours, flagged, todo, buffer, toMarkSeen, cut, rows, failed, shaken>>

\* The item asked for is RFC822, not a PEEK: a server that can will set \Seen
\* as it sends the message.
SetsFlags(ms) == flagged' \in {flagged, flagged \cup ms}

Deliver(m) ==
    /\ pc = "stream" /\ m \in todo
    /\ todo' = todo \ {m} /\ buffer' = buffer \cup {m}
    /\ SetsFlags({m})
    /\ UNCHANGED <<inbox, ours, pc, toMarkSeen, cut, rows, failed, shaken, faults>>

\* The loop over the channel.  What is not ours or has no body is skipped, a
\* failed StoreMessage is logged; each is to be flagged all the same.
Handled(m) ==
    /\ pc = "stream" /\ m \in buffer
    /\ buffer' = buffer \ {m}
    /\ toMarkSeen' = toMarkSeen \cup {m}
    /\ UNCHANGED <<inbox, ours, flagged, pc, todo, cut, shaken>>

Handle(m) ==
    /\ Handled(m)
    /\ rows' = IF m \in ours /\ rows[m] < MaxRows
               THEN [rows EXCEPT ![m] = @ + 1] ELSE rows
    /\ UNCHANGED <<failed, faults>>

StoreFails(m) ==
    /\ m \in ours /\ Handled(m) /\ Fault
    /\ failed' = failed \cup {m}
    /\ UNCHANGED rows

\* The stream breaks: what is in the channel is still handled, what is left of
\* the command is not, though the server may have flagged it.
StreamCut ==
    /\ pc = "stream" /\ ~cut /\ Fault
    /\ cut' = TRUE
    /\ todo' = {}
    /\ \E ms \in SUBSET todo : SetsFlags(ms)
    /\ Shake(InFlight)
    /\ UNCHANGED <<inbox, ours, pc, buffer, toMarkSeen, rows, failed>>

\* The channel is drained before the command's result is read.
StreamDone == pc = "stream" /\ todo = {} /\ buffer = {}

StreamEndsCut ==
    /\ StreamDone /\ cut
    /\ pc' = "idle"
    /\ toMarkSeen' = {}
    /\ UNCHANGED <<inbox, ours, flagged, todo, buffer, cut, rows, failed, shaken, faults>>

StreamEnds ==
    /\ StreamDone /\ ~cut
    /\ pc' = "mark"
    /\ UNCHANGED <<inbox, ours, flagged, todo, buffer, toMarkSeen, cut, rows,
                   failed, shaken, faults>>

\* mutants: only what was stored is flagged; nothing is, the server does it;
\* the whole mailbox is (STORE 1:*)
MarkStored == {m \in toMarkSeen : rows[m] > 0}
MarkNone == {}
MarkWholeBox == inbox
MarkAll == toMarkSeen

\* STORE +FLAGS \Seen, then fetchUnread reports len(ids) # 0: search again
MarkSeen ==
    /\ pc = "mark"
    /\ flagged' = flagged \cup MarkAll
    /\ toMarkSeen' = {} /\ pc' = "search"
    /\ UNCHANGED <<inbox, ours, todo, buffer, cut, rows, failed, shaken, faults>>

\* A refused STORE is only logged.
MarkRefused ==
    /\ pc = "mark" /\ Fault
    /\ Shake(toMarkSeen)
    /\ toMarkSeen' = {} /\ pc' = "search"
    /\ UNCHANGED <<inbox, ours, flagged, todo, buffer, cut, rows, failed>>

-----------------------------------------------------------------------------
(* Around it: mail arrives, the process restarts                           *)

Arrive ==
    /\ \E m \in MailId \ inbox :
        /\ \A n \in 1..(m - 1) : n \in inbox
        /\ inbox' = inbox \cup {m}
        /\ ours' \in {ours, ours \cup {m}}
    /\ UNCHANGED <<flagged, pc, todo, buffer, toMarkSeen, cut, rows, failed, shaken, faults>>

Restart ==
    /\ pc # "idle" /\ Fault
    /\ pc' = "idle" /\ todo' = {} /\ buffer' = {} /\ toMarkSeen' = {} /\ cut' = FALSE
    /\ Shake(InFlight)
    /\ UNCHANGED <<inbox, ours, flagged, rows, failed>>

PollerSteps ==
    \/ SearchFindsNone \/ SearchFinds
    \/ \E m \in todo : Deliver(m)
    \/ \E m \in buffer : Handle(m)
    \/ StreamEndsCut \/ StreamEnds
    \/ MarkSeen

Next ==
    \/ FetchOnce \/ PollerSteps
    \/ SearchFails \/ MarkRefused \/ StreamCut \/ \E m \in buffer : StoreFails(m)
    \/ Arrive \/ Restart

Spec == Init /\ [][Next]_vars

\* A fetch that has begun keeps running: every command has a timeout.
FairSpec == Spec /\ WF_vars(PollerSteps)

-----------------------------------------------------------------------------
(* Properties                                                              *)

\* A message of ours that the poller will not look at again (it is flagged and
\* not in the channel) has a row, unless its StoreMessage failed or something
\* broke while it was in flight.
LostOnlyIfShaken ==
    \A m \in (ours \cap flagged) \ buffer :
        rows[m] = 0 => m \in failed \cup shaken

\* A message is stored twice only if something broke between its first row
\* and its \Seen flag.
DuplicateOnlyIfShaken ==
    \A m \in inbox : rows[m] > 1 => m \in shaken

\* A drain gets on: as long as nothing breaks, a message the server has sent is
\* never sent again, neither one that is not ours nor one whose store failed,
\* and each one it sends is another.
Taken == flagged \cup buffer \cup toMarkSeen
DrainGetsOn ==
    [][pc # "idle" /\ pc' # "idle" /\ faults' = faults =>
          /\ Taken \subseteq Taken'
          /\ \A m \in buffer' \ buffer : m \notin Taken]_vars

\* A fetch ends once the server takes flags: nothing is searched again and
\* again, neither a message whose store failed nor one that is not ours.
DrainEnds == pc # "idle" ~> pc = "idle"
=============================================================================
