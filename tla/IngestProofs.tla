---------------------------- MODULE IngestProofs ----------------------------
(***************************************************************************)
(* GraphPoller for any page size, look-back, arrivals and failures, and    *)
(* Ingest for any readers on top of it.                                    *)
(***************************************************************************)
EXTENDS Ingest, FiniteSetTheorems, TLAPS

-----------------------------------------------------------------------------
(* The two operators of the library that the poller uses                   *)

LEMMA MaxOfTwo ==
    ASSUME NEW a \in Nat, NEW b \in Nat
    PROVE  /\ Max({a, b}) \in {a, b} /\ Max({a, b}) >= a /\ Max({a, b}) >= b
<1>1. CASE a >= b
  <2>1. \E x \in {a, b} : \A y \in {a, b} : x >= y
    BY <1>1
  <2> QED
    BY <2>1 DEF Max
<1>2. CASE ~(a >= b)
  <2>1. \E x \in {a, b} : \A y \in {a, b} : x >= y
    BY <1>2
  <2> QED
    BY <2>1 DEF Max
<1> QED
  BY <1>1, <1>2

LEMMA MinOfTwo ==
    ASSUME NEW a \in Nat, NEW b \in Nat
    PROVE  /\ Min({a, b}) \in {a, b} /\ Min({a, b}) <= a /\ Min({a, b}) <= b
<1>1. \E x \in {a, b} : \A y \in {a, b} : x =< y
  <2>1. CASE a <= b
    BY <2>1
  <2>2. CASE ~(a <= b)
    BY <2>2
  <2> QED
    BY <2>1, <2>2
<1> QED
  BY <1>1 DEF Min

LEMMA Bounds == /\ Lookback \in Nat /\ PerSecond \in Nat /\ MaxMail \in Nat
                /\ MaxTime \in Nat /\ MaxFailures \in Nat
  BY BoundsAssumption

-----------------------------------------------------------------------------
(* The invariant of the poller                                             *)

\* Mail has come once, with an id of its own, at or before the clock; the clock
\* is past the look-back.
InboxInv ==
    /\ IsFiniteSet(inbox)
    /\ \A m \in inbox : m.id <= Cardinality(inbox) /\ m.recv <= now
    /\ \A m, n \in inbox : m.id = n.id => m = n
    /\ now > Lookback

\* The mark only moves up.  It is past the clock for the rest of the second a
\* partial page ended with, and every such second lies before it.
MarkInv ==
    /\ since > now => since = now + 1 /\ now \in edges
    /\ \A e \in edges : e < since
    /\ since = 0 => floor = 0
    /\ latest <= now
    /\ pc = "store" => /\ latest = 0 \/ latest >= since
                       /\ page = {} => latest >= since
                       /\ \A m \in page : m.recv >= since

\* Why mail may not have a row although it lies before the mark
Explained(m) == Kept(m) \/ m.recv < floor \/ m.recv \in edges

\* Mail before the mark is explained; mail at or after it that is not in the
\* page is no older than the page, unless it was handled with it.
BehindInv ==
    /\ \A m \in inbox : m.recv < since => Explained(m)
    /\ pc = "store" =>
         \A n \in inbox : n.recv >= since /\ n \notin page /\ ~Kept(n) =>
            n.recv >= latest /\ \A m \in page : m.recv <= n.recv

\* What this process has handled lies before the mark or on it, or belongs to
\* the page being handled, which asks again for the mark's own second only.
HandledInv ==
    \A m \in inbox : m.id \in handled =>
        /\ m.recv <= since \/ (pc = "store" /\ m.recv <= latest)
        /\ pc = "store" /\ m \in page => m.recv = since

\* The mail a fetch answers for: it is kept as far as the mark has come, and a
\* partial page holds all of what is left.
SeenInv ==
    pc # "idle" =>
        /\ since >= mark
        /\ \A m \in seen : /\ m.recv >= mark /\ m.recv < since => Kept(m)
                           /\ m.recv < mark => Explained(m)
        /\ pc = "store" /\ ~full =>
            \A m \in seen : m.recv >= since /\ m \notin page => Kept(m)

PollInv == TypeOK /\ InboxInv /\ MarkInv /\ BehindInv /\ HandledInv /\ SeenInv

LEMMA InitPollInv == Init => PollInv
<1> SUFFICES ASSUME Init PROVE PollInv
  OBVIOUS
<1> USE DEF Init
<1>1. TypeOK
  <2>1. /\ now \in Nat /\ failures \in 0..MaxFailures
        /\ inbox \subseteq Mail /\ seen \subseteq inbox /\ page \subseteq inbox
    BY Bounds
  <2>2. /\ rows \subseteq stored /\ handled \subseteq stored
        /\ stored \subseteq Ids(inbox) /\ failed \subseteq Ids(inbox)
    OBVIOUS
  <2> QED
    BY <2>1, <2>2 DEF TypeOK
<1>2. InboxInv
  BY FS_EmptySet, Bounds DEF InboxInv
<1>3. MarkInv /\ BehindInv /\ HandledInv /\ SeenInv
  BY Bounds DEF MarkInv, BehindInv, HandledInv, SeenInv
<1> QED
  BY <1>1, <1>2, <1>3 DEF PollInv

-----------------------------------------------------------------------------
(* Pages                                                                   *)

\* A page is a part of what waits, and the oldest part; it is not empty, and
\* one that is not full is all of it.
LEMMA PageFacts ==
    ASSUME InboxInv, TypeOK, Waiting(since) # {}, NEW ms \in Pages
    PROVE  /\ ms \subseteq Waiting(since) /\ ms # {}
           /\ \A m \in ms, n \in Waiting(since) \ ms : m.recv <= n.recv
           /\ ~IsFull(ms) => ms = Waiting(since)
           /\ IsFull(ms) \in BOOLEAN
<1> DEFINE W == Waiting(since)
<1>1. IsFiniteSet(W) /\ Cardinality(W) \in Nat /\ Cardinality(W) # 0
  BY FS_Subset, FS_CardinalityType, FS_EmptySet DEF InboxInv, Waiting
<1>2. /\ ms \subseteq W
      /\ Cardinality(ms) = Min({PageSize, Cardinality(W)})
      /\ \A m \in ms, n \in W \ ms : m.recv <= n.recv
  BY DEF Pages
<1>3. IsFiniteSet(ms) /\ Cardinality(ms) \in {PageSize, Cardinality(W)}
  BY <1>1, <1>2, FS_Subset, MinOfTwo, PageSizeAssumption
<1>4. ms # {}
  BY <1>1, <1>3, FS_EmptySet, PageSizeAssumption
<1>5. ~IsFull(ms) => ms = W
  BY <1>1, <1>2, <1>3, FS_Subset, PageSizeAssumption DEF IsFull
<1> HIDE DEF W
<1> QED
  BY <1>2, <1>4, <1>5 DEF IsFull, W
-----------------------------------------------------------------------------
(* The invariant is kept by every action                                   *)

LEMMA KeptByFetchOnce == PollInv /\ FetchOnce => PollInv'
<1> SUFFICES ASSUME PollInv, FetchOnce PROVE PollInv'
  OBVIOUS
<1> USE DEF PollInv, FetchOnce, rowVars
<1>1. /\ StartMark \in Nat /\ StartMark # 0 /\ StartMark >= since
      /\ since # 0 => StartMark = since
      /\ since = 0 => StartMark <= now
  BY Bounds DEF TypeOK, InboxInv, StartMark
<1>2. TypeOK'
  <2>1. /\ now' \in Nat /\ failures' \in 0..MaxFailures /\ since' \in Nat
        /\ since' # 0 /\ floor' \in Nat /\ mark' \in Nat /\ latest' \in Nat
        /\ edges' \subseteq Nat
    BY <1>1 DEF TypeOK
  <2>2. /\ inbox' \subseteq Mail /\ seen' \subseteq inbox' /\ page' \subseteq inbox'
        /\ rows' \subseteq stored' /\ handled' \subseteq stored'
        /\ stored' \subseteq Ids(inbox)' /\ failed' \subseteq Ids(inbox)'
        /\ full' \in BOOLEAN
    BY DEF TypeOK, Ids
  <2> QED
    BY <2>1, <2>2 DEF TypeOK
<1>3. InboxInv'
  BY DEF InboxInv
<1>4. MarkInv'
  BY <1>1 DEF MarkInv, TypeOK, InboxInv
<1>5. BehindInv'
  BY <1>1 DEF BehindInv, Explained, Kept, TypeOK, Mail
<1>6. HandledInv'
  BY <1>1 DEF HandledInv, TypeOK, Mail
<1>7. SeenInv'
  BY <1>5, <1>1 DEF SeenInv, BehindInv, Explained, Kept, TypeOK, Mail
<1> QED
  BY <1>2, <1>3, <1>4, <1>5, <1>6, <1>7

LEMMA KeptByEmptyPage == PollInv /\ EmptyPage => PollInv'
<1> SUFFICES ASSUME PollInv, EmptyPage PROVE PollInv'
  OBVIOUS
<1> USE DEF PollInv, EmptyPage, Return, rowVars
<1>1. TypeOK'
  BY DEF TypeOK, Ids
<1>2. InboxInv' /\ MarkInv'
  BY DEF InboxInv, MarkInv
<1>3. BehindInv' /\ HandledInv' /\ SeenInv'
  BY DEF BehindInv, HandledInv, SeenInv, Explained, Kept
<1> QED
  BY <1>1, <1>2, <1>3

LEMMA KeptByRequestFails == PollInv /\ RequestFails => PollInv'
<1> SUFFICES ASSUME PollInv, RequestFails PROVE PollInv'
  OBVIOUS
<1> USE DEF PollInv, RequestFails, Return, rowVars
<1>1. TypeOK'
  <2>1. failures' \in 0..MaxFailures
    BY Bounds DEF TypeOK
  <2> QED
    BY <2>1 DEF TypeOK, Ids
<1>2. InboxInv' /\ MarkInv'
  BY DEF InboxInv, MarkInv
<1>3. BehindInv' /\ HandledInv' /\ SeenInv'
  BY DEF BehindInv, HandledInv, SeenInv, Explained, Kept
<1> QED
  BY <1>1, <1>2, <1>3

LEMMA KeptByGetPage == PollInv /\ GetPage => PollInv'
<1> SUFFICES ASSUME PollInv, GetPage PROVE PollInv'
  OBVIOUS
<1> USE DEF PollInv, GetPage, rowVars
<1>1. /\ page' \subseteq Waiting(since) /\ page' # {}
      /\ \A m \in page', n \in Waiting(since) \ page' : m.recv <= n.recv
      /\ ~full' => page' = Waiting(since)
      /\ full' \in BOOLEAN
  BY PageFacts
<1>2. /\ page' \subseteq inbox
      /\ \A m \in page' : m.recv >= since
      /\ \A m \in page', n \in inbox \ page' : n.recv >= since => m.recv <= n.recv
      /\ ~full' => \A m \in inbox : m.recv >= since => m \in page'
  BY <1>1 DEF Waiting
<1>3. TypeOK'
  BY <1>1, <1>2 DEF TypeOK, Ids
<1>4. InboxInv'
  BY DEF InboxInv
<1>5. MarkInv'
  BY <1>1, <1>2 DEF MarkInv, TypeOK
<1>6. BehindInv'
  BY <1>2 DEF BehindInv, Explained, Kept, TypeOK, Mail
<1>7. HandledInv'
  <2> SUFFICES ASSUME NEW m \in inbox, m.id \in handled
               PROVE  m.recv <= since /\ (m \in page' => m.recv = since)
    BY DEF HandledInv
  <2>1. m.recv \in Nat /\ since \in Nat /\ m.recv <= since
    BY DEF HandledInv, TypeOK, Mail
  <2> QED
    BY <2>1, <1>2
<1>8. SeenInv'
  BY <1>2 DEF SeenInv, Explained, Kept, TypeOK
<1> QED
  BY <1>3, <1>4, <1>5, <1>6, <1>7, <1>8

\* What Store and StoreFails share: the message leaves the page, is kept from
\* then on, and no message before it in time is left.
LEMMA KeptByHandled ==
    ASSUME PollInv, NEW m \in page, Handled(m),
           stored \subseteq stored', failed \subseteq failed', m.id \in stored' \cup failed'
    PROVE  /\ latest' \in Nat /\ page' \subseteq inbox' /\ m \in inbox
           /\ InboxInv' /\ MarkInv' /\ BehindInv' /\ SeenInv'
<1> USE DEF PollInv, Handled
<1>1. /\ m \in inbox /\ m.recv \in Nat /\ m.id \in Nat /\ m.recv <= now /\ m.recv >= since
      /\ since \in Nat /\ now \in Nat /\ latest \in Nat
  BY Bounds DEF TypeOK, InboxInv, MarkInv, Mail
<1>2. /\ latest' \in {latest, m.recv} /\ latest' >= latest /\ latest' >= m.recv
  BY <1>1, MaxOfTwo
<1>3. Kept(m)' /\ \A n : Kept(n) => Kept(n)'
  BY DEF Kept
<1>4. \A n : Kept(n) => Kept(n)'
  BY <1>3
<1>5. \A n : Explained(n) => Explained(n)'
  BY <1>4 DEF Explained
<1>6. InboxInv'
  BY DEF InboxInv
<1>7. MarkInv'
  BY <1>1, <1>2 DEF MarkInv
<1>8. BehindInv'
  <2>1. ASSUME NEW n \in inbox, n.recv < since PROVE Explained(n)'
    BY <2>1, <1>5 DEF BehindInv
  <2>2. ASSUME NEW n \in inbox, n.recv >= since, n \notin page', ~Kept(n)'
        PROVE  n.recv >= latest' /\ \A k \in page' : k.recv <= n.recv
    <3>1. n # m /\ n \notin page /\ ~Kept(n)
      BY <2>2, <1>3, <1>4
    <3>2. n.recv >= latest /\ \A k \in page : k.recv <= n.recv
      BY <3>1, <2>2 DEF BehindInv
    <3> QED
      BY <3>2, <1>2
  <2> QED
    BY <2>1, <2>2 DEF BehindInv
<1>9. SeenInv'
  <2> SUFFICES ASSUME NEW n \in seen
      PROVE  /\ since >= mark
             /\ n.recv >= mark /\ n.recv < since => Kept(n)'
             /\ n.recv < mark => Explained(n)'
             /\ ~full /\ n.recv >= since /\ n \notin page' => Kept(n)'
    BY DEF SeenInv
  <2>1. n.recv >= mark /\ n.recv < since => Kept(n)'
    BY <1>4 DEF SeenInv
  <2>2. since >= mark /\ (n.recv < mark => Explained(n)')
    BY <1>5 DEF SeenInv
  <2>3. ~full /\ n.recv >= since /\ n \notin page' => Kept(n)'
    BY <1>3, <1>4 DEF SeenInv
  <2> QED
    BY <2>1, <2>2, <2>3
<1>10. latest' \in Nat /\ page' \subseteq inbox'
  BY <1>1, <1>2 DEF TypeOK
<1> QED
  BY <1>1, <1>6, <1>7, <1>8, <1>9, <1>10

LEMMA KeptByStore == ASSUME NEW m \in page, PollInv, Store(m) PROVE PollInv'
<1> USE DEF PollInv, Store
<1>1. /\ latest' \in Nat /\ page' \subseteq inbox' /\ m \in inbox
      /\ InboxInv' /\ MarkInv' /\ BehindInv' /\ SeenInv'
  BY KeptByHandled
<1>2. TypeOK'
  <2>1. stored' \subseteq Ids(inbox)'
    BY <1>1 DEF TypeOK, Ids, Handled
  <2> QED
    BY <1>1, <2>1 DEF TypeOK, Ids, Handled
<1>3. HandledInv'
  <2> SUFFICES ASSUME NEW n \in inbox, n.id \in handled'
               PROVE  /\ n.recv <= since \/ n.recv <= latest'
                      /\ n \in page' => n.recv = since
    BY DEF HandledInv, Handled
  <2>1. /\ m.recv \in Nat /\ latest \in Nat /\ latest' >= latest /\ latest' >= m.recv
        /\ n.recv \in Nat /\ since \in Nat
    BY <1>1, MaxOfTwo DEF TypeOK, Mail, Handled
  <2>2. CASE n = m
    BY <2>1, <2>2 DEF Handled
  <2>3. CASE n # m
    <3>1. n.id \in handled
      BY <2>3, <1>1 DEF InboxInv
    <3>2. /\ n.recv <= since \/ n.recv <= latest
          /\ n \in page => n.recv = since
      BY <3>1 DEF HandledInv, Handled
    <3> QED
      BY <3>2, <2>1, <1>1 DEF Handled
  <2> QED
    BY <2>2, <2>3
<1> QED
  BY <1>1, <1>2, <1>3

LEMMA KeptByStoreFails == ASSUME NEW m \in page, PollInv, StoreFails(m) PROVE PollInv'
<1> USE DEF PollInv, StoreFails, rowVars
<1>1. failed \subseteq failed' /\ m.id \in failed' /\ stored' = stored
  OBVIOUS
<1>2. /\ latest' \in Nat /\ page' \subseteq inbox' /\ m \in inbox
      /\ InboxInv' /\ MarkInv' /\ BehindInv' /\ SeenInv'
  BY KeptByHandled, <1>1
<1>3. TypeOK'
  <2>1. failures' \in 0..MaxFailures
    BY Bounds DEF TypeOK
  <2>2. failed' \subseteq Ids(inbox)'
    BY <1>2 DEF TypeOK, Ids, Handled
  <2> QED
    BY <1>2, <2>1, <2>2 DEF TypeOK, Ids, Handled
<1>4. HandledInv'
  <2>1. /\ m.recv \in Nat /\ latest \in Nat /\ latest' >= latest /\ latest' >= m.recv
    BY <1>2, MaxOfTwo DEF TypeOK, Mail, Handled
  <2>2. \A n \in inbox : n.recv \in Nat
    BY DEF TypeOK, Mail
  <2> QED
    BY <1>2, <2>1, <2>2 DEF HandledInv, Handled
<1> QED
  BY <1>2, <1>3, <1>4

LEMMA KeptByEndPage == PollInv /\ EndPage => PollInv'
<1> SUFFICES ASSUME PollInv, EndPage PROVE PollInv'
  OBVIOUS
<1> USE DEF PollInv, EndPage, rowVars
<1>1. /\ latest \in Nat /\ since \in Nat /\ now \in Nat /\ latest <= now /\ since <= latest
      /\ full \in BOOLEAN /\ edges \subseteq Nat /\ since # 0
      /\ \A n \in inbox : n.recv \in Nat /\ n.recv <= now
  BY DEF TypeOK, MarkInv, InboxInv, Mail
<1>2. /\ since' \in Nat /\ since <= since' /\ since' # 0
      /\ full => since' = latest /\ edges' = edges
      /\ ~full => since' = latest + 1 /\ edges' = edges \cup {latest}
  BY <1>1 DEF NextMark
<1>3. TypeOK'
  BY <1>1, <1>2 DEF TypeOK, Ids, Return
<1>4. InboxInv'
  BY DEF InboxInv
<1>5. MarkInv'
  BY <1>1, <1>2 DEF MarkInv, Return
<1>6. \A n : Kept(n)' <=> Kept(n)
  BY DEF Kept
<1>7. \A n : Explained(n) => Explained(n)'
  BY <1>2, <1>6 DEF Explained
<1>8. BehindInv'
  <2> SUFFICES ASSUME NEW n \in inbox, n.recv < since' PROVE Explained(n)'
    BY DEF BehindInv, Return
  <2>1. CASE n.recv < since
    BY <2>1, <1>7 DEF BehindInv
  <2>2. CASE n.recv >= since /\ ~Kept(n)
    <3>1. n.recv >= latest
      BY <2>2 DEF BehindInv
    <3>2. ~full /\ n.recv = latest
      BY <3>1, <1>1, <1>2
    <3> QED
      BY <3>2, <1>2 DEF Explained
  <2>3. CASE Kept(n)
    BY <2>3, <1>7 DEF Explained
  <2> QED
    BY <2>1, <2>2, <2>3, <1>1
<1>9. HandledInv'
  BY <1>1, <1>2 DEF HandledInv, Return
<1>10. SeenInv'
  <2>0. since >= mark /\ mark \in Nat
    BY DEF SeenInv, TypeOK
  <2> SUFFICES ASSUME full, NEW n \in seen
               PROVE  /\ n.recv >= mark /\ n.recv < since' => Kept(n)
                      /\ n.recv < mark => Explained(n)'
    BY <1>1, <1>2, <1>6, <2>0 DEF SeenInv, Return
  <2>1. /\ since >= mark /\ mark \in Nat /\ n \in inbox
        /\ n.recv >= mark /\ n.recv < since => Kept(n)
        /\ n.recv < mark => Explained(n)
    BY DEF SeenInv, TypeOK
  <2>2. n.recv >= since /\ n.recv < latest => Kept(n)
    BY <2>1, <1>1 DEF BehindInv
  <2> QED
    BY <2>1, <2>2, <1>1, <1>2, <1>7
<1> QED
  BY <1>3, <1>4, <1>5, <1>8, <1>9, <1>10

LEMMA KeptByDelete == PollInv /\ DeleteMessage => PollInv'
<1> SUFFICES ASSUME PollInv, DeleteMessage PROVE PollInv'
  OBVIOUS
<1> USE DEF PollInv, DeleteMessage
<1>1. TypeOK'
  BY DEF TypeOK, Ids
<1>2. InboxInv' /\ MarkInv'
  BY DEF InboxInv, MarkInv
<1>3. BehindInv' /\ HandledInv' /\ SeenInv'
  BY DEF BehindInv, HandledInv, SeenInv, Explained, Kept
<1> QED
  BY <1>1, <1>2, <1>3

LEMMA KeptByTick == PollInv /\ Tick => PollInv'
<1> SUFFICES ASSUME PollInv, Tick PROVE PollInv'
  OBVIOUS
<1> USE DEF PollInv, Tick, rowVars
<1>1. TypeOK'
  BY DEF TypeOK, Ids
<1>2. InboxInv'
  BY Bounds DEF InboxInv, TypeOK, Mail
<1>3. MarkInv'
  BY DEF MarkInv, TypeOK
<1>4. BehindInv' /\ HandledInv' /\ SeenInv'
  BY DEF BehindInv, HandledInv, SeenInv, Explained, Kept
<1> QED
  BY <1>1, <1>2, <1>3, <1>4

LEMMA KeptByRestart == PollInv /\ Restart => PollInv'
<1> SUFFICES ASSUME PollInv, Restart PROVE PollInv'
  OBVIOUS
<1> USE DEF PollInv, Restart
<1>1. TypeOK'
  <2>1. failures' \in 0..MaxFailures
    BY Bounds DEF TypeOK
  <2> QED
    BY <2>1 DEF TypeOK, Ids
<1>2. InboxInv'
  BY DEF InboxInv
<1>3. MarkInv'
  BY DEF MarkInv, TypeOK
<1>4. BehindInv' /\ HandledInv' /\ SeenInv'
  BY DEF BehindInv, HandledInv, SeenInv, TypeOK, Mail
<1> QED
  BY <1>1, <1>2, <1>3, <1>4

\* A message comes with an id nobody had, at the clock: at or after the mark, or
\* in the second a partial page ended with.
LEMMA KeptByArrive == PollInv /\ Arrive => PollInv'
<1> SUFFICES ASSUME PollInv, Arrive PROVE PollInv'
  OBVIOUS
<1> USE DEF PollInv, Arrive, rowVars
<1>0. PICK new : new = [id |-> Cardinality(inbox) + 1, recv |-> now]
  OBVIOUS
<1>1. Cardinality(inbox) \in Nat /\ Cardinality(inbox) + 1 \in 1..MaxMail
  BY FS_CardinalityType, Bounds DEF InboxInv
<1>2. new \in Mail /\ new.recv = now /\ new.id = Cardinality(inbox) + 1
  BY <1>0, <1>1 DEF TypeOK, Mail
<1>3. inbox' = inbox \cup {new}
  BY <1>0
<1>4. \A m \in inbox : m.id # new.id /\ m.id \in Nat /\ m.recv \in Nat
  BY <1>1, <1>2, Bounds DEF InboxInv, TypeOK, Mail
<1>5. IsFiniteSet(inbox') /\ Cardinality(inbox') = Cardinality(inbox) + 1
  <2>1. new \notin inbox
    BY <1>4
  <2> QED
    BY <1>3, <2>1, FS_AddElement DEF InboxInv
<1>6. TypeOK'
  <2>1. inbox' \subseteq Mail /\ seen' \subseteq inbox' /\ page' \subseteq inbox'
    BY <1>2, <1>3 DEF TypeOK
  <2>2. stored' \subseteq Ids(inbox)' /\ failed' \subseteq Ids(inbox)'
    BY <1>3 DEF TypeOK, Ids
  <2> QED
    BY <2>1, <2>2 DEF TypeOK
<1>7. InboxInv'
  <2>1. \A m \in inbox' : m.id <= Cardinality(inbox') /\ m.recv <= now
    BY <1>1, <1>2, <1>3, <1>4, <1>5 DEF InboxInv, TypeOK
  <2>2. \A m, n \in inbox' : m.id = n.id => m = n
    BY <1>3, <1>4 DEF InboxInv
  <2> QED
    BY <2>1, <2>2, <1>5 DEF InboxInv
<1>8. MarkInv'
  BY DEF MarkInv
<1>9. now \in Nat /\ since \in Nat /\ latest \in Nat /\ (since > now => now \in edges)
  BY DEF MarkInv, TypeOK
<1>10. BehindInv'
  <2>1. new.recv < since => Explained(new)'
    BY <1>2, <1>9 DEF Explained
  <2>2. pc = "store" /\ new.recv >= since =>
           new.recv >= latest /\ \A m \in page : m.recv <= new.recv
    BY <1>2 DEF MarkInv, InboxInv, TypeOK
  <2>3. \A m \in inbox : m.recv < since => Explained(m)'
    BY DEF BehindInv, Explained, Kept
  <2>4. pc = "store" =>
          \A n \in inbox : n.recv >= since /\ n \notin page /\ ~Kept(n)' =>
             n.recv >= latest /\ \A m \in page : m.recv <= n.recv
    BY DEF BehindInv, Kept
  <2> QED
    BY <1>3, <2>1, <2>2, <2>3, <2>4 DEF BehindInv
<1>11. HandledInv'
  <2>1. new.id \notin handled
    BY <1>4 DEF TypeOK, Ids
  <2> QED
    BY <1>3, <2>1 DEF HandledInv
<1>12. SeenInv'
  BY DEF SeenInv, Explained, Kept
<1> QED
  BY <1>6, <1>7, <1>8, <1>10, <1>11, <1>12

LEMMA KeptByPollerSteps == PollInv /\ PollerSteps => PollInv'
  BY KeptByEmptyPage, KeptByGetPage, KeptByEndPage, KeptByStore DEF PollerSteps

LEMMA NextPollInv == PollInv /\ [Next]_vars => PollInv'
<1> SUFFICES ASSUME PollInv, [Next]_vars PROVE PollInv'
  OBVIOUS
<1>1. CASE FetchOnce
  BY <1>1, KeptByFetchOnce
<1>2. CASE PollerSteps
  BY <1>2, KeptByPollerSteps
<1>3. CASE RequestFails
  BY <1>3, KeptByRequestFails
<1>4. ASSUME NEW m \in page, StoreFails(m) PROVE PollInv'
  BY <1>4, KeptByStoreFails
<1>5. CASE DeleteMessage
  BY <1>5, KeptByDelete
<1>6. CASE Arrive
  BY <1>6, KeptByArrive
<1>7. CASE Tick
  BY <1>7, KeptByTick
<1>8. CASE Restart
  BY <1>8, KeptByRestart
<1>9. CASE UNCHANGED vars
  <2> USE <1>9 DEF vars, rowVars, PollInv
  <2>1. TypeOK'
    BY DEF TypeOK, Ids
  <2>2. InboxInv' /\ MarkInv'
    BY DEF InboxInv, MarkInv
  <2>3. BehindInv' /\ HandledInv' /\ SeenInv'
    BY DEF BehindInv, HandledInv, SeenInv, Explained, Kept
  <2> QED
    BY <2>1, <2>2, <2>3
<1> QED
  BY <1>1, <1>2, <1>3, <1>4, <1>5, <1>6, <1>7, <1>8, <1>9 DEF Next

\* The poller's invariant holds in every reachable state of its specification.
LEMMA PollInvHolds == Spec => []PollInv
  BY InitPollInv, NextPollInv, PTL DEF Spec

-----------------------------------------------------------------------------
(* What the poller keeps                                                   *)

\* The poller's variables have their types: in particular nothing is ever filed
\* that had not arrived, and a page holds mail of the relay inbox only.
THEOREM TypeCorrect == Spec => []TypeOK
<1>1. PollInv => TypeOK
  BY DEF PollInv
<1> QED
  BY PollInvHolds, <1>1, PTL

\* Mail the poller has passed without storing it failed to store, was older than
\* the look-back of this start, or lies in the second a partial page ended with.
THEOREM SkippedOnlyAtEdgeHolds == Spec => []SkippedOnlyAtEdge
<1>1. PollInv => SkippedOnlyAtEdge
  BY DEF PollInv, BehindInv, Explained, Kept, SkippedOnlyAtEdge
<1> QED
  BY PollInvHolds, <1>1, PTL

\* The two ways a drain ends without an error: an empty page, a partial page.
\* The mail that was there when it began is explained by then, and kept if it
\* lies at or after the mark of that moment.
LEMMA DrainKeeps ==
    ASSUME PollInv, EmptyPage \/ EndPage, pc' = "idle", NEW m \in seen
    PROVE  Explained(m)' /\ (m.recv >= mark => Kept(m)')
<1> USE DEF PollInv, rowVars
<1>1. /\ m \in inbox /\ m.recv \in Nat /\ since \in Nat /\ mark \in Nat
      /\ latest \in Nat /\ full \in BOOLEAN
  BY DEF TypeOK, Mail
<1>2. CASE EmptyPage
  <2>1. m.recv < since /\ pc # "idle"
    BY <1>1, <1>2 DEF EmptyPage, Waiting
  <2>2. Explained(m) /\ (m.recv >= mark => Kept(m))
    BY <1>1, <2>1 DEF BehindInv, SeenInv
  <2> QED
    BY <1>2, <2>2 DEF EmptyPage, Explained, Kept
<1>3. CASE EndPage
  <2>1. pc = "store" /\ page = {} /\ ~full
    BY <1>3 DEF EndPage
  <2>2. Kept(m)' <=> Kept(m)
    BY <1>3 DEF EndPage, Kept
  <2>3. m.recv >= since => Kept(m)
    BY <2>1 DEF SeenInv
  <2>4. m.recv < since => Explained(m) /\ (m.recv >= mark => Kept(m))
    BY <1>1, <2>1 DEF SeenInv, BehindInv
  <2>5. floor' = floor /\ edges \subseteq edges'
    BY <1>3 DEF EndPage
  <2>6. Explained(m)'
    BY <1>1, <2>2, <2>3, <2>4, <2>5 DEF Explained
  <2>7. m.recv >= mark => Kept(m)'
    BY <1>1, <2>2, <2>3, <2>4
  <2> QED
    BY <2>6, <2>7
<1> QED
  BY <1>2, <1>3

LEMMA OnlyDrainsReturn ==
    ASSUME PollInv, Next, ReturnsNil PROVE EmptyPage \/ EndPage
<1>1. failures # failures + 1
  BY Bounds DEF PollInv, TypeOK
<1>2. pc # "idle" /\ pc' = "idle" /\ failures' = failures
  BY DEF ReturnsNil
<1>3. ~FetchOnce /\ ~RequestFails /\ ~GetPage /\ ~Restart
  BY <1>1, <1>2 DEF FetchOnce, RequestFails, GetPage, Restart
<1>4. ~DeleteMessage /\ ~Arrive /\ ~Tick
  BY <1>2 DEF DeleteMessage, Arrive, Tick
<1>5. \A m \in page : ~Store(m) /\ ~StoreFails(m)
  BY <1>2 DEF Store, StoreFails, Handled
<1> QED
  BY <1>3, <1>4, <1>5 DEF Next, PollerSteps

\* A FetchOnce that returns nil has stored, or failed to store, all the mail
\* that waited at or after its mark when it began, over any number of pages.
THEOREM BacklogClearedHolds == Spec => BacklogCleared
<1>1. ASSUME PollInv, [Next]_vars
      PROVE  [ReturnsNil => \A m \in seen : m.recv >= mark => Kept(m)]_vars
  <2> SUFFICES ASSUME Next, ReturnsNil, NEW m \in seen, m.recv >= mark PROVE Kept(m)
    BY <1>1
  <2>1. EmptyPage \/ EndPage
    BY <1>1, OnlyDrainsReturn
  <2>2. Kept(m)'
    BY <1>1, <2>1, DrainKeeps DEF ReturnsNil
  <2> QED
    BY <2>1, <2>2 DEF Kept, EmptyPage, EndPage, rowVars
<1> QED
  BY PollInvHolds, <1>1, PTL DEF Spec, BacklogCleared

\* What was deleted after this process had stored it comes back only from the
\* second a full page ended with.
THEOREM DeletedStaysAwayHolds == Spec => DeletedStaysAway
<1>1. ASSUME PollInv, [Next]_vars
      PROVE  [\A m \in inbox : m.id \in rows' \ rows /\ m.id \in handled =>
                 m.recv = since /\ m.recv \notin edges]_vars
  <2> SUFFICES ASSUME Next, NEW m \in inbox, m.id \in rows' \ rows, m.id \in handled
               PROVE  m.recv = since /\ m.recv \notin edges
    BY <1>1
  <2>1. PICK n \in page : Store(n)
    BY DEF Next, PollerSteps, FetchOnce, RequestFails, EmptyPage, GetPage, EndPage,
           StoreFails, DeleteMessage, Arrive, Tick, Restart, rowVars
  <2>2. n \in inbox /\ m.id = n.id /\ pc = "store"
    BY <1>1, <2>1 DEF Store, Handled, PollInv, TypeOK
  <2>3. m = n
    BY <1>1, <2>2 DEF PollInv, InboxInv
  <2>4. m.recv = since
    BY <1>1, <2>2, <2>3 DEF PollInv, HandledInv
  <2>5. since \notin edges
    BY <1>1 DEF PollInv, MarkInv, TypeOK
  <2> QED
    BY <2>4, <2>5
<1> QED
  BY PollInvHolds, <1>1, PTL DEF Spec, DeletedStaysAway

-----------------------------------------------------------------------------
(* A drain gets on                                                         *)

Second(t) == {m \in inbox : m.recv = t}

\* A second has brought no more mail than it may.
SecondInv == \A t \in Nat : Cardinality(Second(t)) <= PerSecond

\* A full page reaches beyond the second of the mark.
AheadInv ==
    pc = "store" /\ full => latest > since \/ \E m \in page : m.recv > since

\* Mail that has not come yet has no second before the clock's.
LEMMA SecondStep == PollInv /\ SecondInv /\ [Next]_vars => SecondInv'
<1> SUFFICES ASSUME PollInv, SecondInv, [Next]_vars PROVE SecondInv'
  OBVIOUS
<1>1. CASE Arrive
  <2> SUFFICES ASSUME NEW t \in Nat PROVE Cardinality(Second(t)') <= PerSecond
    BY DEF SecondInv
  <2>1. PICK new : inbox' = inbox \cup {new} /\ new.recv = now
    <3> DEFINE new == [id |-> Cardinality(inbox) + 1, recv |-> now]
    <3>1. inbox' = inbox \cup {new} /\ new.recv = now
      BY <1>1 DEF Arrive
    <3> HIDE DEF new
    <3> QED
      BY <3>1
  <2>2. /\ IsFiniteSet(Second(t)) /\ Cardinality(Second(t)) \in Nat
        /\ Cardinality(Second(t)) <= PerSecond
    BY FS_Subset, FS_CardinalityType DEF PollInv, InboxInv, SecondInv, Second
  <2>3. CASE t = now
    <3>1. Second(t)' = Second(t) \cup {new}
      BY <2>1, <2>3 DEF Second
    <3>2. Cardinality(Second(t)) < PerSecond
      BY <1>1, <2>3 DEF Arrive, Second
    <3>3. Cardinality(Second(t) \cup {new}) <= Cardinality(Second(t)) + 1
      <4>1. CASE new \in Second(t)
        <5>1. Second(t) \cup {new} = Second(t)
          BY <4>1
        <5> QED
          BY <2>2, <5>1
      <4>2. CASE new \notin Second(t)
        BY <2>2, <4>2, FS_AddElement
      <4> QED
        BY <4>1, <4>2
    <3>4. Cardinality(Second(t) \cup {new}) \in Nat
      BY <2>2, FS_AddElement, FS_CardinalityType
    <3> QED
      BY <2>2, <3>1, <3>2, <3>3, <3>4, Bounds
  <2>4. CASE t # now
    <3>1. Second(t)' = Second(t)
      BY <2>1, <2>4 DEF Second
    <3> QED
      BY <2>2, <3>1
  <2> QED
    BY <2>3, <2>4
<1>2. CASE inbox' = inbox
  BY <1>2 DEF SecondInv, Second
<1> QED
  BY <1>1, <1>2 DEF Next, vars, PollerSteps, FetchOnce, EmptyPage, GetPage, EndPage, Store,
     StoreFails, Handled, RequestFails, DeleteMessage, Tick, Restart

LEMMA AheadStep ==
    ASSUME PerSecond < PageSize, PollInv, SecondInv, AheadInv, [Next]_vars
    PROVE  AheadInv'
<1>1. CASE GetPage
  <2> SUFFICES ASSUME full', \A m \in page' : ~(m.recv > since) PROVE FALSE
    BY <1>1 DEF GetPage, AheadInv
  <2>1. page' \subseteq Waiting(since)
    BY <1>1, PageFacts DEF GetPage, PollInv
  <2>2. since \in Nat /\ page' \subseteq Second(since)
    BY <2>1 DEF PollInv, TypeOK, Mail, Waiting, Second
  <2>3. /\ IsFiniteSet(Second(since)) /\ Cardinality(Second(since)) \in Nat
        /\ Cardinality(Second(since)) <= PerSecond
    BY <2>2, FS_Subset, FS_CardinalityType DEF PollInv, InboxInv, SecondInv, Second
  <2>4. Cardinality(page') \in Nat /\ Cardinality(page') <= Cardinality(Second(since))
    BY <2>2, <2>3, FS_Subset, FS_CardinalityType
  <2>5. Cardinality(page') >= PageSize
    BY <1>1 DEF GetPage, IsFull
  <2> QED
    BY <2>3, <2>4, <2>5, Bounds, PageSizeAssumption
<1>2. ASSUME NEW m \in page, Handled(m) PROVE AheadInv'
  <2>1. /\ m.recv \in Nat /\ latest \in Nat /\ latest' \in Nat /\ since \in Nat
        /\ latest' >= latest /\ latest' >= m.recv
    BY <1>2, MaxOfTwo DEF PollInv, TypeOK, Mail, Handled
  <2>2. /\ page' = page \ {m} /\ UNCHANGED <<pc, full, since>>
    BY <1>2 DEF Handled
  <2> QED
    BY <2>1, <2>2 DEF AheadInv
<1>3. CASE pc' # "store"
  BY <1>3 DEF AheadInv
<1>4. CASE UNCHANGED <<pc, full, latest, since, page>>
  BY <1>4 DEF AheadInv
<1> QED
  BY <1>1, <1>2, <1>3, <1>4 DEF Next, vars, PollerSteps, FetchOnce, EmptyPage, EndPage, Store,
     StoreFails, RequestFails, DeleteMessage, Arrive, Tick, Restart, Return

\* No page is asked for twice in a drain, as long as a second brings fewer
\* messages than a page holds: each full page moves the mark.
THEOREM DrainGetsOnHolds ==
    ASSUME PerSecond < PageSize
    PROVE  Spec => DrainGetsOn
<1>1. Init => SecondInv /\ AheadInv
  <2> SUFFICES ASSUME Init PROVE SecondInv /\ AheadInv
    OBVIOUS
  <2>1. ASSUME NEW t \in Nat PROVE Cardinality(Second(t)) = 0
    <3>1. Second(t) = {}
      BY DEF Init, Second
    <3> QED
      BY <3>1, FS_EmptySet
  <2> QED
    BY <2>1, Bounds DEF Init, SecondInv, AheadInv
<1>2. PollInv /\ SecondInv /\ AheadInv /\ [Next]_vars => SecondInv' /\ AheadInv'
  BY SecondStep, AheadStep
<1>3. PollInv /\ AheadInv /\ [Next]_vars => [pc = "store" /\ pc' = "poll" => since' > since]_vars
  <2> SUFFICES ASSUME PollInv, AheadInv, Next, pc = "store", pc' = "poll" PROVE since' > since
    BY DEF vars
  <2>1. EndPage
    BY DEF Next, PollerSteps, FetchOnce, EmptyPage, GetPage, Store, StoreFails, Handled,
       RequestFails, DeleteMessage, Arrive, Tick, Restart, Return
  <2>2. full /\ since' = latest
    BY <2>1 DEF EndPage, Return, NextMark
  <2> QED
    BY <2>1, <2>2 DEF EndPage, AheadInv
<1> QED
  BY <1>1, <1>2, <1>3, PollInvHolds, PTL DEF Spec, DrainGetsOn

-----------------------------------------------------------------------------
(* Ingest: the handlers around the poller                                  *)

\* What a handler has been promised, and what the last fetch answered for, is
\* explained.
OwedInv ==
    /\ IngestTypeOK
    /\ \A m \in last : Explained(m)
    /\ \A r \in Readers : \A m \in owed[r] : Explained(m)

LEMMA IngestStepIsPollerStep == [IngestNext]_ingestVars => [Next]_vars
  BY DEF IngestNext, ingestVars, StartFetch, JoinFetch, Coalesced, LetGo, Answer,
         FetchSteps, FetchFaults, IntervalElapses, Around, RestartServer, Next

\* The gate and its handlers use the poller as it is: every behaviour of the
\* composition is one of the poller's specification.
THEOREM IngestUsesPoller == IngestSpec => Spec
<1>1. IngestInit => Init
  BY DEF IngestInit
<1> QED
  BY <1>1, IngestStepIsPollerStep, PTL DEF IngestSpec, Spec

LEMMA IngestPollInv == IngestSpec => []PollInv
  BY IngestUsesPoller, PollInvHolds, PTL

LEMMA InitOwedInv == IngestInit => OwedInv
  BY DEF IngestInit, OwedInv, IngestTypeOK

\* What has an explanation keeps it until the process restarts.
LEMMA ExplainedStays ==
    ASSUME PollInv, [Next]_vars, ~Restart, NEW m \in inbox, Explained(m)
    PROVE  Explained(m)' /\ m \in inbox'
<1>1. /\ m.recv \in Nat /\ floor \in Nat /\ (since = 0 => floor = 0)
      /\ StartMark \in Nat
  BY Bounds DEF PollInv, TypeOK, MarkInv, InboxInv, Mail, StartMark
<1>2. stored \subseteq stored' /\ failed \subseteq failed' /\ edges \subseteq edges'
  BY DEF Next, vars, rowVars, PollerSteps, FetchOnce, EmptyPage, GetPage, EndPage, Store,
         StoreFails, Handled, RequestFails, DeleteMessage, Arrive, Tick
<1>3. floor' = floor \/ floor = 0
  BY <1>1 DEF Next, vars, PollerSteps, FetchOnce, EmptyPage, GetPage, EndPage, Store,
         StoreFails, Handled, RequestFails, DeleteMessage, Arrive, Tick
<1>4. inbox \subseteq inbox'
  BY DEF Next, vars, PollerSteps, FetchOnce, EmptyPage, GetPage, EndPage, Store,
         StoreFails, Handled, RequestFails, DeleteMessage, Arrive, Tick
<1> QED
  BY <1>1, <1>2, <1>3, <1>4 DEF Explained, Kept

\* The end of a fetch promises the handlers that wait for it nothing that is
\* not explained: nothing at all when the fetch failed.
LEMMA ShownIsExplained ==
    ASSUME PollInv, PollerSteps \/ RequestFails \/ \E m \in page : StoreFails(m),
           FetchDone, NEW m \in Shown
    PROVE  Explained(m)' /\ m \in inbox'
<1>1. failures # failures + 1
  BY Bounds DEF PollInv, TypeOK
<1>2. failures' = failures /\ m \in seen
  BY DEF Shown
<1>3. ~RequestFails /\ ~GetPage /\ \A n \in page : ~Store(n) /\ ~StoreFails(n)
  BY <1>1, <1>2 DEF RequestFails, FetchDone, GetPage, Store, StoreFails, Handled
<1>4. EmptyPage \/ EndPage
  BY <1>3 DEF PollerSteps
<1>5. m \in inbox' /\ pc' = "idle"
  BY <1>2, <1>4 DEF PollInv, TypeOK, EmptyPage, EndPage, FetchDone
<1> QED
  BY <1>2, <1>4, <1>5, DrainKeeps

LEMMA NextOwedInv == PollInv /\ OwedInv /\ [IngestNext]_ingestVars => OwedInv'
<1> SUFFICES ASSUME PollInv, OwedInv, [IngestNext]_ingestVars PROVE OwedInv'
  OBVIOUS
<1>1. [Next]_vars
  BY IngestStepIsPollerStep
<1>2. ASSUME ~Restart, NEW m \in inbox, Explained(m)
      PROVE  Explained(m)' /\ m \in inbox'
  BY <1>1, <1>2, ExplainedStays
<1>3. /\ quiet \in BOOLEAN
      /\ reader \in [Readers -> {"idle", "waiting", "reading"}]
      /\ \A r \in Readers : reader[r] = "waiting" => pc # "idle"
      /\ owed \in [Readers -> SUBSET inbox] /\ last \subseteq inbox
  BY DEF OwedInv, IngestTypeOK
<1>4. ASSUME ~Restart
      PROVE  /\ \A m \in last : Explained(m)' /\ m \in inbox'
             /\ \A r \in Readers : \A m \in owed[r] : Explained(m)' /\ m \in inbox'
  BY <1>2, <1>3, <1>4 DEF OwedInv
<1>5. ASSUME NEW r \in Readers, StartFetch(r) \/ JoinFetch(r) PROVE OwedInv'
  <2>1. ~Restart /\ pc' # "idle"
    BY <1>5, <1>3 DEF StartFetch, JoinFetch, FetchOnce, Restart, vars
  <2>2. UNCHANGED <<quiet, owed, last>> /\ reader' = [reader EXCEPT ![r] = "waiting"]
    BY <1>5 DEF StartFetch, JoinFetch, Wait
  <2>3. IngestTypeOK'
    BY <1>3, <1>4, <2>1, <2>2 DEF IngestTypeOK
  <2> QED
    BY <1>4, <2>1, <2>2, <2>3 DEF OwedInv
<1>6. ASSUME NEW r \in Readers, Coalesced(r) \/ LetGo(r) \/ Answer(r) PROVE OwedInv'
  <2>1. UNCHANGED vars /\ UNCHANGED <<quiet, last>>
    BY <1>6 DEF Coalesced, LetGo, Answer
  <2>2. \E st \in {"idle", "reading"} : reader' = [reader EXCEPT ![r] = st]
    BY <1>6 DEF Coalesced, LetGo, Answer
  <2>3. owed' = owed \/ (\E s \in {{}, last} : owed' = [owed EXCEPT ![r] = s])
    BY <1>6 DEF Coalesced, LetGo, Answer
  <2>4. IngestTypeOK'
    BY <1>3, <2>1, <2>2, <2>3 DEF IngestTypeOK, vars
  <2>5. \A m : Explained(m)' <=> Explained(m)
    BY <2>1 DEF Explained, Kept, vars, rowVars
  <2>6. \A k \in Readers : owed'[k] \in {owed[k], {}, last}
    BY <1>3, <2>3
  <2> QED
    BY <2>1, <2>4, <2>5, <2>6 DEF OwedInv
<1>7. CASE FetchSteps \/ FetchFaults
  <2>1. /\ PollerSteps \/ RequestFails \/ \E m \in page : StoreFails(m)
        /\ Released
    BY <1>7 DEF FetchSteps, FetchFaults
  <2>2. ~Restart
    BY <2>1, Bounds DEF PollerSteps, RequestFails, EmptyPage, GetPage, EndPage, Store,
       StoreFails, Handled, Restart, PollInv, TypeOK, MarkInv
  <2>3. CASE FetchDone
    <3>1. \A m \in Shown : Explained(m)' /\ m \in inbox'
      BY <2>1, <2>3, ShownIsExplained
    <3>2. /\ quiet' = TRUE /\ last' = Shown
          /\ reader' = [r \in Readers |->
                IF reader[r] = "waiting" THEN "reading" ELSE reader[r]]
          /\ owed' = [r \in Readers |->
                IF reader[r] = "waiting" THEN Shown ELSE owed[r]]
      BY <2>1, <2>3 DEF Released
    <3> HIDE DEF Shown
    <3>3. \A r \in Readers : owed'[r] \in {Shown, owed[r]}
      BY <3>2
    <3>4. \A r \in Readers : \A m \in owed'[r] : Explained(m)' /\ m \in inbox'
      BY <1>4, <2>2, <3>1, <3>3
    <3>5. IngestTypeOK'
      <4>1. owed' \in [Readers -> SUBSET inbox'] /\ last' \subseteq inbox'
        BY <3>1, <3>2, <3>4
      <4>2. reader' \in [Readers -> {"idle", "waiting", "reading"}]
            /\ \A r \in Readers : reader'[r] # "waiting"
        BY <1>3, <3>2
      <4> QED
        BY <3>2, <4>1, <4>2 DEF IngestTypeOK
    <3> QED
      BY <3>1, <3>2, <3>4, <3>5 DEF OwedInv
  <2>4. CASE ~FetchDone
    <3>1. UNCHANGED readVars
      BY <2>1, <2>4 DEF Released
    <3>2. pc # "idle" => pc' # "idle"
      BY <2>4 DEF FetchDone
    <3>3. IngestTypeOK'
      BY <1>3, <1>4, <2>2, <3>1, <3>2 DEF IngestTypeOK, readVars
    <3> QED
      BY <1>4, <2>2, <3>1, <3>3 DEF OwedInv, readVars
  <2> QED
    BY <2>3, <2>4
<1>8. CASE IntervalElapses \/ Around \/ UNCHANGED ingestVars
  <2>1. /\ UNCHANGED <<reader, owed, last, pc>> /\ quiet' \in BOOLEAN
        /\ inbox \subseteq inbox'
        /\ UNCHANGED <<stored, failed, floor, edges>>
    BY <1>3, <1>8 DEF IntervalElapses, Around, ingestVars, readVars, vars, rowVars, DeleteMessage,
       Arrive, Tick
  <2>2. IngestTypeOK'
    BY <1>3, <2>1 DEF IngestTypeOK
  <2>3. \A m : Explained(m)' <=> Explained(m)
    BY <2>1 DEF Explained, Kept
  <2> QED
    BY <2>1, <2>2, <2>3 DEF OwedInv
<1>9. CASE RestartServer
  BY <1>9 DEF RestartServer, Restart, OwedInv, IngestTypeOK
<1> QED
  BY <1>5, <1>6, <1>7, <1>8, <1>9 DEF IngestNext

LEMMA OwedInvHolds == IngestSpec => []OwedInv
  BY InitOwedInv, NextOwedInv, IngestPollInv, PTL DEF IngestSpec

\* A handler waits only while a fetch runs, and is owed only mail that has arrived.
THEOREM IngestTypeCorrect == IngestSpec => []IngestTypeOK
<1>1. OwedInv => IngestTypeOK
  BY DEF OwedInv
<1> QED
  BY OwedInvHolds, <1>1, PTL

\* A read answered after a fetch that succeeded finds all the mail that was in
\* the relay inbox when that fetch began, or there is one of the three reasons.
THEOREM ReadShowsRelayHolds == IngestSpec => []ReadShowsRelay
<1>1. OwedInv => ReadShowsRelay
  BY DEF OwedInv, ReadShowsRelay, Explained
<1> QED
  BY OwedInvHolds, <1>1, PTL

\* In the composition, too, the poller keeps what it promises on its own.
THEOREM IngestKeepsPoller ==
    IngestSpec => /\ []TypeOK /\ []SkippedOnlyAtEdge
                  /\ BacklogCleared /\ DeletedStaysAway
  BY IngestUsesPoller, TypeCorrect, SkippedOnlyAtEdgeHolds, BacklogClearedHolds,
     DeletedStaysAwayHolds, PTL

\* And each full page moves the mark, whoever waits for the fetch.
THEOREM IngestDrainGetsOn ==
    ASSUME PerSecond < PageSize
    PROVE  IngestSpec => DrainGetsOn
  BY IngestUsesPoller, DrainGetsOnHolds, PTL
=============================================================================
