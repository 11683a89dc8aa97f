-------------------------- MODULE ImapPollerProofs --------------------------
(***************************************************************************)
(* ImapPoller for any number of messages and faults: what is flagged is    *)
(* filed, and filed once, but for what was in flight when something broke. *)
(***************************************************************************)
EXTENDS ImapPoller, TLAPS

\* The bounds are numbers.
LEMMA Bounds == MaxMail \in Nat /\ MaxFaults \in Nat /\ MaxRows \in Nat \ {0, 1}
  BY BoundsAssumption

\* A message is in one place of the pipe, and unseen while it waits to be sent;
\* the channel is empty before flags are stored; all that was in the pipe when
\* the stream broke counts as shaken.
ChannelInv ==
    /\ todo \cap buffer = {} /\ todo \cap toMarkSeen = {} /\ buffer \cap toMarkSeen = {}
    /\ todo \cap flagged = {}
    /\ pc = "mark" => todo = {} /\ buffer = {}
    /\ pc = "stream" /\ cut => InFlight \subseteq shaken

\* A message with a row is flagged, or waits for its flag, and is not about to
\* be handled again, unless it was shaken.
RowsInv ==
    /\ \A m \in MailId : rows[m] > 0 /\ m \notin shaken =>
         /\ m \in inbox /\ m \notin todo \cup buffer
         /\ m \in flagged \cup toMarkSeen
         /\ rows[m] = 1
    /\ \A m \in toMarkSeen \cap ours : rows[m] = 0 => m \in failed

PollInv == TypeOK /\ ChannelInv /\ RowsInv /\ LostOnlyIfShaken

LEMMA InitPollInv == Init => PollInv
<1> SUFFICES ASSUME Init PROVE PollInv
  OBVIOUS
<1> USE DEF Init
<1>1. rows \in [MailId -> 0..MaxRows] /\ faults \in 0..MaxFaults
  BY Bounds
<1>2. TypeOK
  BY <1>1 DEF TypeOK, InFlight
<1>3. ChannelInv /\ RowsInv /\ LostOnlyIfShaken
  BY DEF ChannelInv, RowsInv, LostOnlyIfShaken, InFlight
<1> QED
  BY <1>2, <1>3 DEF PollInv

-----------------------------------------------------------------------------
(* The steps that leave the pipe as it is, or empty it                     *)

LEMMA KeptByFetchOnce == PollInv /\ FetchOnce => PollInv'
<1> SUFFICES ASSUME PollInv, FetchOnce PROVE PollInv'
  OBVIOUS
<1> USE DEF PollInv, FetchOnce
<1>1. TypeOK' /\ ChannelInv'
  BY DEF TypeOK, ChannelInv, InFlight
<1>2. RowsInv' /\ LostOnlyIfShaken'
  BY DEF RowsInv, LostOnlyIfShaken
<1> QED
  BY <1>1, <1>2

LEMMA KeptBySearchFindsNone == PollInv /\ SearchFindsNone => PollInv'
<1> SUFFICES ASSUME PollInv, SearchFindsNone PROVE PollInv'
  OBVIOUS
<1> USE DEF PollInv, SearchFindsNone
<1>1. TypeOK' /\ ChannelInv'
  BY DEF TypeOK, ChannelInv, InFlight
<1>2. RowsInv' /\ LostOnlyIfShaken'
  BY DEF RowsInv, LostOnlyIfShaken
<1> QED
  BY <1>1, <1>2

\* A fault is counted within its bound.
LEMMA FaultType == TypeOK /\ Fault => faults' \in 0..MaxFaults
  BY Bounds DEF TypeOK, Fault

LEMMA KeptBySearchFails == PollInv /\ SearchFails => PollInv'
<1> SUFFICES ASSUME PollInv, SearchFails PROVE PollInv'
  OBVIOUS
<1> USE DEF PollInv, SearchFails
<1>1. TypeOK' /\ ChannelInv'
  BY FaultType DEF TypeOK, ChannelInv, InFlight
<1>2. RowsInv' /\ LostOnlyIfShaken'
  BY DEF RowsInv, LostOnlyIfShaken
<1> QED
  BY <1>1, <1>2

\* What is unseen has no row, unless it was shaken.
LEMMA KeptBySearchFinds == PollInv /\ SearchFinds => PollInv'
<1> SUFFICES ASSUME PollInv, SearchFinds PROVE PollInv'
  OBVIOUS
<1> USE DEF PollInv, SearchFinds
<1>0. todo = {} /\ buffer = {} /\ toMarkSeen = {} /\ todo' = inbox \ flagged
  BY DEF TypeOK, InFlight, Unseen
<1>1. TypeOK' /\ ChannelInv'
  BY <1>0 DEF TypeOK, ChannelInv, InFlight
<1>2. RowsInv' /\ LostOnlyIfShaken'
  BY <1>0 DEF RowsInv, LostOnlyIfShaken
<1> QED
  BY <1>1, <1>2

LEMMA KeptByStreamEnds == PollInv /\ StreamEnds => PollInv'
<1> SUFFICES ASSUME PollInv, StreamEnds PROVE PollInv'
  OBVIOUS
<1> USE DEF PollInv, StreamEnds, StreamDone
<1>1. TypeOK' /\ ChannelInv'
  BY DEF TypeOK, ChannelInv, InFlight
<1>2. RowsInv' /\ LostOnlyIfShaken'
  BY DEF RowsInv, LostOnlyIfShaken
<1> QED
  BY <1>1, <1>2

\* What is dropped unflagged has been shaken.
LEMMA KeptByStreamEndsCut == PollInv /\ StreamEndsCut => PollInv'
<1> SUFFICES ASSUME PollInv, StreamEndsCut PROVE PollInv'
  OBVIOUS
<1> USE DEF PollInv, StreamEndsCut, StreamDone
<1>1. TypeOK' /\ ChannelInv'
  BY DEF TypeOK, ChannelInv, InFlight
<1>2. toMarkSeen \subseteq shaken
  BY DEF ChannelInv, InFlight
<1>3. RowsInv' /\ LostOnlyIfShaken'
  BY <1>2 DEF RowsInv, LostOnlyIfShaken
<1> QED
  BY <1>1, <1>3

LEMMA KeptByMark == PollInv /\ (MarkSeen \/ MarkRefused) => PollInv'
<1> SUFFICES ASSUME PollInv, MarkSeen \/ MarkRefused PROVE PollInv'
  OBVIOUS
<1> USE DEF PollInv
<1>1. CASE MarkSeen
  <2>1. TypeOK' /\ ChannelInv'
    BY <1>1 DEF TypeOK, ChannelInv, InFlight, MarkSeen, MarkAll
  <2>2. RowsInv'
    BY <1>1 DEF RowsInv, MarkSeen, MarkAll
  <2>3. LostOnlyIfShaken'
    BY <1>1 DEF RowsInv, LostOnlyIfShaken, MarkSeen, MarkAll
  <2> QED
    BY <2>1, <2>2, <2>3
<1>2. CASE MarkRefused
  <2>1. TypeOK' /\ ChannelInv'
    BY <1>2, FaultType DEF TypeOK, ChannelInv, InFlight, MarkRefused, Shake
  <2>2. RowsInv' /\ LostOnlyIfShaken'
    BY <1>2 DEF RowsInv, LostOnlyIfShaken, MarkRefused, Shake
  <2> QED
    BY <2>1, <2>2
<1> QED
  BY <1>1, <1>2

-----------------------------------------------------------------------------
(* The steps of the pipe                                                   *)

LEMMA KeptByDeliver == ASSUME NEW m \in todo, PollInv, Deliver(m) PROVE PollInv'
<1> USE DEF PollInv, Deliver, SetsFlags
<1>1. m \in inbox /\ flagged' \subseteq inbox
  BY DEF TypeOK, InFlight
<1>2. TypeOK'
  BY <1>1 DEF TypeOK, InFlight
<1>3. ChannelInv'
  BY DEF ChannelInv, InFlight
<1>4. RowsInv' /\ LostOnlyIfShaken'
  BY DEF RowsInv, LostOnlyIfShaken
<1> QED
  BY <1>2, <1>3, <1>4

LEMMA KeptByHandle == ASSUME NEW m \in buffer, PollInv, Handle(m) PROVE PollInv'
<1> USE DEF PollInv, Handle, Handled
<1>1. m \in inbox /\ m \in MailId /\ rows \in [MailId -> 0..MaxRows] /\ ours \subseteq inbox
  BY DEF TypeOK, InFlight
<1>2. /\ rows' \in [MailId -> 0..MaxRows]
      /\ \A n \in MailId \ {m} : rows'[n] = rows[n]
      /\ rows'[m] = rows[m] \/ rows'[m] = rows[m] + 1
      /\ m \in ours => rows'[m] > 0
  BY <1>1, Bounds
<1>3. rows[m] > 0 => m \in shaken
  BY <1>1 DEF RowsInv
<1>4. TypeOK'
  BY <1>1, <1>2 DEF TypeOK, InFlight
<1>5. ChannelInv'
  BY DEF ChannelInv, InFlight
<1>6. RowsInv'
  <2>1. ASSUME NEW n \in MailId, rows'[n] > 0, n \notin shaken
        PROVE  /\ n \in inbox /\ n \notin todo \cup buffer'
               /\ n \in flagged \cup toMarkSeen' /\ rows'[n] = 1
    <3>1. CASE n = m
      <4>1. rows[m] = 0
        BY <1>1, <1>3, <2>1, <3>1
      <4>2. m \notin todo
        BY DEF ChannelInv
      <4> QED
        BY <1>1, <1>2, <2>1, <3>1, <4>1, <4>2
    <3>2. CASE n # m
      BY <1>2, <2>1, <3>2 DEF RowsInv
    <3> QED
      BY <3>1, <3>2
  <2>2. ASSUME NEW n \in toMarkSeen' \cap ours, rows'[n] = 0 PROVE n \in failed
    <3>1. n # m /\ n \in MailId
      BY <1>1, <1>2, <2>2 DEF TypeOK
    <3> QED
      BY <1>2, <2>2, <3>1 DEF RowsInv
  <2> QED
    BY <2>1, <2>2 DEF RowsInv
<1>7. LostOnlyIfShaken'
  <2> SUFFICES ASSUME NEW n \in (ours \cap flagged) \ buffer', rows'[n] = 0
               PROVE  n \in failed \cup shaken
    BY DEF LostOnlyIfShaken
  <2>1. n # m /\ n \in MailId
    BY <1>1, <1>2 DEF TypeOK
  <2> QED
    BY <1>2, <2>1 DEF LostOnlyIfShaken
<1> QED
  BY <1>4, <1>5, <1>6, <1>7

LEMMA KeptByStoreFails == ASSUME NEW m \in buffer, PollInv, StoreFails(m) PROVE PollInv'
<1> USE DEF PollInv, StoreFails, Handled
<1>1. rows[m] > 0 => m \in shaken
  BY DEF RowsInv, TypeOK, InFlight
<1>2. TypeOK'
  BY FaultType DEF TypeOK, InFlight
<1>3. ChannelInv'
  BY DEF ChannelInv, InFlight
<1>4. RowsInv'
  BY <1>1 DEF RowsInv
<1>5. LostOnlyIfShaken'
  BY DEF LostOnlyIfShaken
<1> QED
  BY <1>2, <1>3, <1>4, <1>5

LEMMA KeptByStreamCut == PollInv /\ StreamCut => PollInv'
<1> SUFFICES ASSUME PollInv, StreamCut PROVE PollInv'
  OBVIOUS
<1> USE DEF PollInv, StreamCut, SetsFlags, Shake
<1>1. flagged \subseteq flagged' /\ flagged' \subseteq flagged \cup todo
  OBVIOUS
<1>2. shaken' = shaken \cup todo \cup buffer \cup toMarkSeen /\ todo' = {}
  BY DEF InFlight
<1>3. TypeOK'
  BY <1>1, <1>2, FaultType DEF TypeOK, InFlight
<1>4. ChannelInv'
  BY <1>2 DEF ChannelInv, InFlight
<1>5. RowsInv'
  BY <1>1, <1>2 DEF RowsInv
<1>6. LostOnlyIfShaken'
  BY <1>1, <1>2 DEF LostOnlyIfShaken
<1> QED
  BY <1>3, <1>4, <1>5, <1>6

LEMMA KeptByRestart == PollInv /\ Restart => PollInv'
<1> SUFFICES ASSUME PollInv, Restart PROVE PollInv'
  OBVIOUS
<1> USE DEF PollInv, Restart, Shake
<1>1. shaken' = shaken \cup todo \cup buffer \cup toMarkSeen
  BY DEF InFlight
<1>2. TypeOK' /\ ChannelInv'
  BY FaultType DEF TypeOK, ChannelInv, InFlight
<1>3. RowsInv' /\ LostOnlyIfShaken'
  BY <1>1 DEF RowsInv, LostOnlyIfShaken
<1> QED
  BY <1>2, <1>3

LEMMA KeptByArrive == PollInv /\ Arrive => PollInv'
<1> SUFFICES ASSUME PollInv, Arrive PROVE PollInv'
  OBVIOUS
<1> USE DEF PollInv, Arrive
<1>1. PICK m \in MailId \ inbox : inbox' = inbox \cup {m} /\ ours' \in {ours, ours \cup {m}}
  OBVIOUS
<1>2. m \notin flagged \cup InFlight
  BY DEF TypeOK
<1>3. TypeOK'
  BY <1>1 DEF TypeOK, InFlight
<1>4. ChannelInv'
  BY DEF ChannelInv, InFlight
<1>5. RowsInv' /\ LostOnlyIfShaken'
  BY <1>1, <1>2 DEF RowsInv, LostOnlyIfShaken, InFlight
<1> QED
  BY <1>3, <1>4, <1>5

LEMMA NextPollInv == PollInv /\ [Next]_vars => PollInv'
<1> SUFFICES ASSUME PollInv, [Next]_vars PROVE PollInv'
  OBVIOUS
<1>1. CASE FetchOnce \/ SearchFindsNone \/ SearchFinds \/ SearchFails
  BY <1>1, KeptByFetchOnce, KeptBySearchFindsNone, KeptBySearchFinds, KeptBySearchFails
<1>2. CASE StreamEnds \/ StreamEndsCut \/ StreamCut \/ MarkSeen \/ MarkRefused
  BY <1>2, KeptByStreamEnds, KeptByStreamEndsCut, KeptByStreamCut, KeptByMark
<1>3. ASSUME NEW m \in todo, Deliver(m) PROVE PollInv'
  BY <1>3, KeptByDeliver
<1>4. ASSUME NEW m \in buffer, Handle(m) \/ StoreFails(m) PROVE PollInv'
  BY <1>4, KeptByHandle, KeptByStoreFails
<1>5. CASE Arrive \/ Restart
  BY <1>5, KeptByArrive, KeptByRestart
<1>6. CASE UNCHANGED vars
  <2> USE <1>6 DEF vars, PollInv
  <2>1. TypeOK' /\ ChannelInv'
    BY DEF TypeOK, ChannelInv, InFlight
  <2>2. RowsInv' /\ LostOnlyIfShaken'
    BY DEF RowsInv, LostOnlyIfShaken
  <2> QED
    BY <2>1, <2>2
<1> QED
  BY <1>1, <1>2, <1>3, <1>4, <1>5, <1>6 DEF Next, PollerSteps

\* The poller's invariant holds in every reachable state of its specification.
LEMMA PollInvHolds == Spec => []PollInv
  BY InitPollInv, NextPollInv, PTL DEF Spec

-----------------------------------------------------------------------------
(* What the poller keeps                                                   *)

\* What the server sends is new to the poller, and what it has sent is not
\* forgotten while the drain goes on and nothing breaks.
LEMMA DrainStep ==
    ASSUME PollInv, Next, pc # "idle", pc' # "idle", faults' = faults
    PROVE  Taken \subseteq Taken' /\ \A m \in buffer' \ buffer : m \notin Taken
<1> USE DEF Taken
<1>0. ~Fault
  BY Bounds DEF Fault, PollInv, TypeOK
<1>1. CASE SearchFinds \/ StreamEnds
  BY <1>1 DEF SearchFinds, StreamEnds
<1>2. ASSUME NEW m \in todo, Deliver(m) 
      PROVE  Taken \subseteq Taken' /\ \A n \in buffer' \ buffer : n \notin Taken
  BY <1>2 DEF Deliver, SetsFlags, PollInv, ChannelInv
<1>3. ASSUME NEW m \in buffer, Handle(m) 
      PROVE  Taken \subseteq Taken' /\ \A n \in buffer' \ buffer : n \notin Taken
  BY <1>3 DEF Handle, Handled
<1>4. CASE MarkSeen
  BY <1>4 DEF MarkSeen, MarkAll, PollInv, TypeOK, ChannelInv
<1>5. CASE Arrive
  BY <1>5 DEF Arrive
<1>6. ~(FetchOnce \/ SearchFindsNone \/ StreamEndsCut)
  BY DEF FetchOnce, SearchFindsNone, StreamEndsCut
<1>7. ~(SearchFails \/ MarkRefused \/ StreamCut \/ Restart \/ \E m \in buffer : StoreFails(m))
  BY <1>0 DEF SearchFails, MarkRefused, StreamCut, Restart, StoreFails
<1> QED
  BY <1>1, <1>2, <1>3, <1>4, <1>5, <1>6, <1>7 DEF Next, PollerSteps

\* A drain gets on while nothing breaks: each message the server sends is one it
\* has not sent before, so that the mailbox bounds their number.
THEOREM DrainGetsOnHolds == Spec => DrainGetsOn
<1>1. PollInv /\ [Next]_vars =>
        [pc # "idle" /\ pc' # "idle" /\ faults' = faults =>
            /\ Taken \subseteq Taken'
            /\ \A m \in buffer' \ buffer : m \notin Taken]_vars
  BY DrainStep
<1> QED
  BY <1>1, PollInvHolds, PTL DEF Spec, DrainGetsOn

\* The variables have their types: only messages of the relay mailbox are in
\* the pipe, and the pipe is empty outside of the stream and the flagging.
THEOREM TypeCorrect == Spec => []TypeOK
<1>1. PollInv => TypeOK
  BY DEF PollInv
<1> QED
  BY PollInvHolds, <1>1, PTL

\* A message of ours that will not be looked at again has a row, unless its
\* StoreMessage failed or something broke while it was in flight.
THEOREM LostOnlyIfShakenHolds == Spec => []LostOnlyIfShaken
<1>1. PollInv => LostOnlyIfShaken
  BY DEF PollInv
<1> QED
  BY PollInvHolds, <1>1, PTL

\* A message has a second row only if something broke between its first row
\* and its \Seen flag.
THEOREM DuplicateOnlyIfShakenHolds == Spec => []DuplicateOnlyIfShaken
<1>1. PollInv => DuplicateOnlyIfShaken
  BY DEF PollInv, TypeOK, RowsInv, DuplicateOnlyIfShaken, MailId
<1> QED
  BY PollInvHolds, <1>1, PTL
=============================================================================
