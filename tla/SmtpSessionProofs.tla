-------------------------- MODULE SmtpSessionProofs --------------------------
(***************************************************************************)
(* SmtpSession for any mails, recipients and processes.  A session only    *)
(* takes steps of the store, so what MailStoreProofs shows of the store    *)
(* holds with a session in front of it.                                    *)
(***************************************************************************)
EXTENDS SmtpSession, MailStoreProofs, WellFoundedInduction

-----------------------------------------------------------------------------
(* findRecipient                                                           *)

\* A nonempty set of numbers has a least one.
LEMMA LeastBy ==
    ASSUME NEW S \in SUBSET Nat, S # {}, NEW R, IsWellFoundedOn(R, Nat),
           \A x, y \in Nat : y < x => <<y, x>> \in R
    PROVE  \E x \in S : \A y \in S : x <= y
<1>1. PICK x \in S : \A y \in S : ~(<<y, x>> \in R)
  BY WFMin
<1>2. \A y \in S : ~(y < x)
  BY <1>1
<1> QED
  BY <1>1, <1>2

LEMMA Least == ASSUME NEW S \in SUBSET Nat, S # {} PROVE \E x \in S : \A y \in S : x <= y
<1>1. PICK R : R = OpToRel(<, Nat)
  OBVIOUS
<1>2. R = {ss \in Nat \X Nat : ss[1] < ss[2]}
  BY <1>1 DEF OpToRel
<1>3. \A x, y \in Nat : y < x => <<y, x>> \in R
  BY <1>2
<1>4. IsWellFoundedOn(R, Nat)
  BY <1>1, NatLessThanWellFounded
<1> QED
  BY <1>3, <1>4, LeastBy

\* findRecipient, for header lists of any length: there is nobody exactly if all
\* addresses are elsewhere; otherwise it is one of ours with none before it.
THEOREM FirstOfOurs ==
    ASSUME NEW hdr \in Seq(Addrs \cup Foreign)
    PROVE  /\ FindRecipient(hdr) = None <=> \A k \in DOMAIN hdr : hdr[k] \in Foreign
           /\ FindRecipient(hdr) # None =>
                 \E k \in DOMAIN hdr :
                    /\ FindRecipient(hdr) = hdr[k] /\ hdr[k] \in Addrs
                    /\ \A j \in 1..(k - 1) : hdr[j] \in Foreign
<1> DEFINE ks == {k \in DOMAIN hdr : hdr[k] \in Addrs}
           first == CHOOSE k \in DOMAIN hdr :
                      hdr[k] \in Addrs /\ \A j \in 1..(k - 1) : hdr[j] \notin Addrs
<1>1. /\ DOMAIN hdr = 1..Len(hdr) /\ Len(hdr) \in Nat
      /\ \A k \in DOMAIN hdr : hdr[k] \in Foreign <=> hdr[k] \notin Addrs
  BY ForeignAssumption
<1>2. None \notin Addrs
  BY NamesAssumption DEF None
<1>3. CASE ks = {}
  BY <1>1, <1>3 DEF FindRecipient
<1>4. CASE ks # {}
  <2>0. ks \in SUBSET Nat
    BY <1>1
  <2>1. PICK k \in ks : \A j \in ks : k <= j
    <3> HIDE DEF ks
    <3> QED
      BY <1>4, <2>0, Least
  <2>2. \A j \in 1..(k - 1) : j \in DOMAIN hdr /\ hdr[j] \notin Addrs
    BY <1>1, <2>1
  <2>3. /\ first \in DOMAIN hdr /\ hdr[first] \in Addrs
        /\ \A j \in 1..(first - 1) : hdr[j] \notin Addrs
    BY <2>1, <2>2
  <2>4. FindRecipient(hdr) = hdr[first]
    BY <1>4 DEF FindRecipient
  <2> HIDE DEF first
  <2>5. \A j \in 1..(first - 1) : hdr[j] \in Foreign
    BY <1>1, <2>3
  <2> QED
    BY <1>1, <1>2, <2>3, <2>4, <2>5
<1> QED
  BY <1>3, <1>4

LEMMA SessionStepIsStoreStep == [SessionNext]_allVars => [Next]_vars
  BY DEF SessionNext, allVars, Queue, Envelope, Hear, Cut, DataUnstored, DataStores,
         WorkerStatement, OrphanStatement, Statement, Elsewhere, RestartServer, Next

\* Every behaviour of the server with a session is one of the mailbox store.
THEOREM SessionUsesStore == SessionSpec => Spec
<1>1. SessionInit => Init
  BY DEF SessionInit
<1> QED
  BY <1>1, SessionStepIsStoreStep, PTL DEF SessionSpec, Spec

LEMMA StoreTyped == SessionSpec => []TypeOK
  BY SessionUsesStore, TypeCorrect, PTL

-----------------------------------------------------------------------------
(* The inductive invariant                                                 *)

\* The mail has been filed and the remote host is about to hear of it.
Pending == phase = "reply" /\ verdict = "250" /\ FindRecipient(mail.hdr) # None

\* Before the mail is queued nothing has happened.
BeforeInv ==
    mail = NoMail => /\ due = {} /\ acked = {} /\ orphans = {}
                     /\ filed = 0 /\ unheard = 0

\* A row nobody was told of yet is the one of the pending answer, or one whose
\* answer was heard, after which nothing is due any more.
FiledInv ==
    /\ phase = "storing" => FindRecipient(mail.hdr) # None
    /\ IF Pending THEN filed = unheard + 1
       ELSE filed = unheard \/ (filed = unheard + 1 /\ due = {})

SessionInv == SessionTypeOK /\ BeforeInv /\ FiledInv /\ AckedIsFiled

LEMMA InitSessionInv == SessionInit => SessionInv
<1> SUFFICES ASSUME SessionInit PROVE SessionInv
  OBVIOUS
<1> USE DEF SessionInit
<1>1. SessionTypeOK
  BY DEF SessionTypeOK
<1>2. BeforeInv /\ FiledInv /\ AckedIsFiled
  BY DEF BeforeInv, FiledInv, AckedIsFiled, Pending
<1> QED
  BY <1>1, <1>2 DEF SessionInv

-----------------------------------------------------------------------------
(* What the store does to the requests of its processes                    *)

\* A statement leaves the requests of all the others alone, and its own until
\* it has answered it.
LEMMA StatementKeepsRequests ==
    ASSUME TypeOK, NEW p \in Procs, Statement(p)
    PROVE  /\ \A q \in Procs \ {p} : op'[q] = op[q]
           /\ pc'[p] # "idle" => op'[p] = op[p]
<1>1. Acts(p)
  BY DEF Statement, Acts
<1>2. PICK m \in [Procs -> SUBSET Events] :
        \/ \E l : Goto(p, l, m)
        \/ \E s, ms : End(p, s, ms, m)
  BY <1>1, ActsOnTables
<1>3. pc \in [Procs -> Labels] /\ DOMAIN op = Procs
  BY DEF TypeOK, Labels
<1> QED
  BY <1>2, <1>3 DEF Goto, End

\* A process that stores mail is not free.
LEMMA StoringIsBusy ==
    ASSUME TypeOK, NEW p \in Procs, op[p].kind = "mime"
    PROVE  pc[p] # "idle"
  BY DEF TypeOK, NoRequest

LEMMA RcptIsConfigured == \A a \in Addrs \cup Foreign : RcptAccepts(a) => a \in Configured
  BY AddrsAssumption DEF RcptAccepts, Configured

-----------------------------------------------------------------------------
(* The steps of the session                                                *)

LEMMA KeptByQueue == TypeOK /\ SessionInv /\ Queue => SessionInv'
<1> SUFFICES ASSUME TypeOK, SessionInv, Queue PROVE SessionInv'
  OBVIOUS
<1> USE DEF Queue, SessionInv
<1>1. /\ due = {} /\ acked = {} /\ filed = 0 /\ unheard = 0 /\ orphans = {}
      /\ phase = "none" /\ op' = op
  BY DEF BeforeInv, SessionTypeOK, vars
<1>2. mail' # NoMail
  BY DEF Mail, NoMail
<1>3. SessionTypeOK'
  BY <1>1 DEF SessionTypeOK
<1>4. BeforeInv' /\ FiledInv' /\ AckedIsFiled'
  BY <1>1, <1>2 DEF BeforeInv, FiledInv, AckedIsFiled, Pending
<1> QED
  BY <1>3, <1>4

LEMMA KeptByEnvelope == TypeOK /\ SessionInv /\ Envelope => SessionInv'
<1> SUFFICES ASSUME TypeOK, SessionInv, Envelope PROVE SessionInv'
  OBVIOUS
<1> USE DEF Envelope, SessionInv
<1>1. due' \subseteq Configured /\ due' \subseteq due /\ op' = op
  BY RcptIsConfigured DEF SessionTypeOK, vars
<1>2. phase' \in {"none", "data"} /\ (phase' # "none" => due' # {})
  OBVIOUS
<1>3. SessionTypeOK'
  BY <1>1, <1>2 DEF SessionTypeOK
<1>4. BeforeInv' /\ FiledInv' /\ AckedIsFiled'
  BY <1>1, <1>2 DEF BeforeInv, FiledInv, AckedIsFiled, Pending
<1> QED
  BY <1>3, <1>4

LEMMA KeptByHear == TypeOK /\ SessionInv /\ Hear => SessionInv'
<1> SUFFICES ASSUME TypeOK, SessionInv, Hear PROVE SessionInv'
  OBVIOUS
<1> USE DEF Hear, SessionInv
<1>1. op' = op /\ due' \subseteq due /\ acked' \subseteq acked \cup due /\ due \subseteq Configured
  BY DEF SessionTypeOK, vars
<1>2. SessionTypeOK'
  BY <1>1 DEF SessionTypeOK
<1>3. BeforeInv'
  BY DEF BeforeInv, SessionTypeOK
<1>4. FiledInv'
  BY DEF FiledInv, Pending
<1>5. AckedIsFiled'
  BY DEF AckedIsFiled, FiledInv, Pending, SessionTypeOK
<1> QED
  BY <1>2, <1>3, <1>4, <1>5

\* A session that ends without its answer heard leaves its row unheard.
LEMMA UntoldCounts ==
    ASSUME SessionInv, unheard' = Untold, filed' = filed, UNCHANGED <<mail, due, acked>>,
           phase' = "none"
    PROVE  /\ unheard' \in 0..filed' /\ FiledInv' /\ AckedIsFiled'
           /\ mail # NoMail => BeforeInv'
           /\ mail = NoMail => unheard' = 0
<1>1. unheard \in Nat /\ filed \in Nat /\ unheard <= filed
  BY DEF SessionInv, SessionTypeOK
<1>2. CASE Pending
  BY <1>1, <1>2 DEF SessionInv, FiledInv, Untold, Pending, AckedIsFiled, BeforeInv
<1>3. CASE ~Pending
  BY <1>1, <1>3 DEF SessionInv, FiledInv, Untold, Pending, AckedIsFiled, BeforeInv
<1> QED
  BY <1>2, <1>3

LEMMA KeptByCut == TypeOK /\ SessionInv /\ Cut => SessionInv'
<1> SUFFICES ASSUME TypeOK, SessionInv, Cut PROVE SessionInv'
  OBVIOUS
<1> USE DEF Cut, SessionInv
<1>1. unheard' \in 0..filed' /\ FiledInv' /\ AckedIsFiled' /\ mail # NoMail
  BY UntoldCounts DEF BeforeInv, SessionTypeOK
<1>2. op' = op
  BY DEF vars
<1>3. SessionTypeOK'
  <2>1. orphans' \subseteq Procs \ {worker'} /\ NoProc \notin Procs
    BY NamesAssumption DEF SessionTypeOK, NoProc
  <2>2. \A q \in orphans' \cup ({worker'} \ {NoProc}) : op'[q].kind = "mime"
    BY <1>2 DEF SessionTypeOK
  <2> QED
    BY <1>1, <2>1, <2>2 DEF SessionTypeOK
<1>4. BeforeInv'
  BY <1>1 DEF BeforeInv
<1> QED
  BY <1>1, <1>3, <1>4

LEMMA KeptByRestart == TypeOK /\ SessionInv /\ RestartServer => SessionInv'
<1> SUFFICES ASSUME TypeOK, SessionInv, RestartServer PROVE SessionInv'
  OBVIOUS
<1> USE DEF RestartServer, SessionInv
<1>1. unheard' \in 0..filed' /\ FiledInv' /\ AckedIsFiled' /\ (mail = NoMail => unheard' = 0)
  BY UntoldCounts
<1>2. SessionTypeOK'
  BY <1>1 DEF SessionTypeOK
<1>3. BeforeInv'
  BY <1>1 DEF BeforeInv
<1> QED
  BY <1>1, <1>2, <1>3

LEMMA KeptByDataUnstored == TypeOK /\ SessionInv /\ DataUnstored => SessionInv'
<1> SUFFICES ASSUME TypeOK, SessionInv, DataUnstored PROVE SessionInv'
  OBVIOUS
<1> USE DEF DataUnstored, SessionInv, Conclude
<1>1. op' = op /\ worker = NoProc /\ due # {}
  BY DEF SessionTypeOK, vars
<1>2. ~Pending'
  BY DEF Pending
<1>3. SessionTypeOK'
  BY <1>1 DEF SessionTypeOK
<1>4. BeforeInv'
  BY DEF BeforeInv
<1>5. FiledInv'
  BY <1>2 DEF FiledInv, Pending
<1>6. AckedIsFiled'
  BY DEF AckedIsFiled
<1> QED
  BY <1>3, <1>4, <1>5, <1>6

LEMMA KeptByDataStores ==
    ASSUME NEW p \in Procs, TypeOK, SessionInv, DataStores(p) PROVE SessionInv'
<1> USE DEF DataStores, SessionInv
<1>1. pc[p] = "idle" /\ DOMAIN op = Procs /\ \A q \in Procs \ {p} : op'[q] = op[q]
  BY DEF Begin, Busy, TypeOK
<1>2. p \notin orphans /\ worker = NoProc /\ p # NoProc
  BY <1>1, StoringIsBusy, NamesAssumption DEF SessionTypeOK, NoProc
<1>3. SessionTypeOK'
  <2>1. \A q \in orphans \cup {p} : op'[q].kind = "mime"
    BY <1>1, <1>2 DEF SessionTypeOK
  <2>2. orphans \subseteq Procs \ {p}
    BY <1>2 DEF SessionTypeOK
  <2> QED
    BY <1>2, <2>1, <2>2 DEF SessionTypeOK
<1>4. BeforeInv' /\ FiledInv' /\ AckedIsFiled'
  BY DEF BeforeInv, FiledInv, AckedIsFiled, Pending
<1> QED
  BY <1>3, <1>4

LEMMA KeptByWorker ==
    ASSUME NEW p \in Procs, TypeOK, SessionInv, WorkerStatement(p) PROVE SessionInv'
<1> USE DEF WorkerStatement, SessionInv, Conclude
<1>1. /\ \A q \in Procs \ {p} : op'[q] = op[q]
      /\ pc'[p] # "idle" => op'[p] = op[p]
  BY StatementKeepsRequests
<1>2. /\ p = worker /\ p # NoProc /\ phase = "storing" /\ due # {} /\ mail # NoMail
      /\ FindRecipient(mail.hdr) # None
      /\ filed = unheard /\ filed \in Nat
  BY NamesAssumption DEF NoProc, SessionTypeOK, BeforeInv, FiledInv, Pending
<1>3. CASE pc'[p] = "idle"
  <2>1. /\ worker' = NoProc /\ phase' = "reply"
        /\ \/ verdict' = "250" /\ filed' = filed + 1
           \/ verdict' = "450" /\ filed' = filed
    BY <1>3 DEF ReplyTo
  <2>2. SessionTypeOK'
    <3>1. \A q \in orphans : op'[q].kind = "mime" /\ q \in Procs /\ q # NoProc
      BY <1>1, <1>2, NamesAssumption DEF SessionTypeOK, NoProc
    <3>2. unheard' \in 0..filed' /\ filed' \in Nat
      BY <1>2, <2>1
    <3> QED
      BY <1>2, <2>1, <3>1, <3>2 DEF SessionTypeOK
  <2>3. BeforeInv' /\ FiledInv' /\ AckedIsFiled'
    BY <1>2, <2>1 DEF BeforeInv, FiledInv, AckedIsFiled, Pending
  <2> QED
    BY <2>2, <2>3
<1>4. CASE pc'[p] # "idle"
  <2>1. UNCHANGED <<phase, verdict, worker, filed>>
    BY <1>4
  <2>2. SessionTypeOK'
    BY <1>1, <1>4, <2>1 DEF SessionTypeOK
  <2>3. BeforeInv' /\ FiledInv' /\ AckedIsFiled'
    BY <2>1 DEF BeforeInv, FiledInv, AckedIsFiled, Pending
  <2> QED
    BY <2>2, <2>3
<1> QED
  BY <1>3, <1>4

LEMMA KeptByOrphan ==
    ASSUME NEW p \in Procs, TypeOK, SessionInv, OrphanStatement(p) PROVE SessionInv'
<1> USE DEF OrphanStatement, SessionInv
<1>1. /\ \A q \in Procs \ {p} : op'[q] = op[q]
      /\ pc'[p] # "idle" => op'[p] = op[p]
  BY StatementKeepsRequests
<1>2. /\ p \in orphans /\ p # worker /\ mail # NoMail
      /\ orphans' \subseteq orphans /\ (pc'[p] = "idle" => p \notin orphans')
      /\ filed \in Nat /\ unheard \in Nat /\ unheard <= filed
  BY DEF SessionTypeOK, BeforeInv
<1>3. PICK n \in {0, 1} : filed' = filed + n /\ unheard' = unheard + n
  OBVIOUS
<1>4. SessionTypeOK'
  <2>1. \A q \in orphans' \cup ({worker'} \ {NoProc}) : op'[q].kind = "mime"
    BY <1>1, <1>2 DEF SessionTypeOK
  <2>2. filed' \in Nat /\ unheard' \in 0..filed'
    BY <1>2, <1>3
  <2> QED
    BY <1>2, <2>1, <2>2 DEF SessionTypeOK
<1>5. BeforeInv' /\ FiledInv' /\ AckedIsFiled'
  BY <1>2, <1>3 DEF BeforeInv, FiledInv, AckedIsFiled, Pending
<1> QED
  BY <1>4, <1>5

LEMMA ElsewhereKeepsRequests ==
    ASSUME TypeOK, SessionTypeOK, Elsewhere
    PROVE  \A q \in orphans \cup ({worker} \ {NoProc}) : op'[q] = op[q] /\ q \in Procs
<1> USE DEF Elsewhere
<1>1. ASSUME NEW p \in Procs \ (orphans \cup {worker}), Begin(p)
      PROVE  \A q \in Procs \ {p} : op'[q] = op[q]
  BY <1>1 DEF Begin, TypeOK
<1>2. ASSUME NEW p \in Procs \ (orphans \cup {worker}), Statement(p)
      PROVE  \A q \in Procs \ {p} : op'[q] = op[q]
  BY <1>2, StatementKeepsRequests
<1>3. ASSUME \/ \E a \in Addrs : DeleteMailbox(a)
             \/ \E m \in messages : DeleteMessage(m)
             \/ CleanupExpired \/ CleanupOldMessages \/ Tick
      PROVE  op' = op
  BY <1>3 DEF DeleteMailbox, DeleteMessage, CleanupExpired, CleanupOldMessages, Tick, procs
<1>4. orphans \cup ({worker} \ {NoProc}) \subseteq Procs
  BY DEF SessionTypeOK
<1> QED
  BY <1>1, <1>2, <1>3, <1>4

LEMMA KeptElsewhere == TypeOK /\ SessionInv /\ Elsewhere => SessionInv'
<1> SUFFICES ASSUME TypeOK, SessionInv, Elsewhere PROVE SessionInv'
  OBVIOUS
<1> USE DEF SessionInv
<1>1. UNCHANGED smtpVars
  BY DEF Elsewhere
<1>2. \A q \in orphans \cup ({worker} \ {NoProc}) : op'[q] = op[q] /\ q \in Procs
  BY ElsewhereKeepsRequests
<1>3. SessionTypeOK'
  BY <1>1, <1>2 DEF SessionTypeOK, smtpVars
<1>4. BeforeInv' /\ FiledInv' /\ AckedIsFiled'
  BY <1>1 DEF BeforeInv, FiledInv, AckedIsFiled, Pending, smtpVars
<1> QED
  BY <1>3, <1>4

LEMMA NextSessionInv == TypeOK /\ SessionInv /\ [SessionNext]_allVars => SessionInv'
<1> SUFFICES ASSUME TypeOK, SessionInv, [SessionNext]_allVars PROVE SessionInv'
  OBVIOUS
<1>1. CASE Queue \/ Envelope \/ Hear \/ Cut \/ DataUnstored
  BY <1>1, KeptByQueue, KeptByEnvelope, KeptByHear, KeptByCut, KeptByDataUnstored
<1>2. ASSUME NEW p \in Procs, DataStores(p) \/ WorkerStatement(p) \/ OrphanStatement(p)
      PROVE  SessionInv'
  BY <1>2, KeptByDataStores, KeptByWorker, KeptByOrphan
<1>3. CASE Elsewhere \/ RestartServer
  BY <1>3, KeptElsewhere, KeptByRestart
<1>4. CASE UNCHANGED allVars
  <2>1. UNCHANGED smtpVars /\ op' = op
    BY <1>4 DEF allVars, vars
  <2>2. SessionTypeOK'
    BY <2>1 DEF SessionInv, SessionTypeOK, smtpVars
  <2>3. BeforeInv' /\ FiledInv' /\ AckedIsFiled'
    BY <2>1 DEF SessionInv, BeforeInv, FiledInv, AckedIsFiled, Pending, smtpVars
  <2> QED
    BY <2>2, <2>3 DEF SessionInv
<1> QED
  BY <1>1, <1>2, <1>3, <1>4 DEF SessionNext

\* The session's invariant holds in every reachable state.
LEMMA SessionInvHolds == SessionSpec => []SessionInv
  BY InitSessionInv, NextSessionInv, StoreTyped, PTL DEF SessionSpec

-----------------------------------------------------------------------------
(* What the session keeps                                                  *)

\* A session past RCPT has a recipient at a configured domain, and whoever
\* stores for a session, cut or not, stores mail.
THEOREM SessionTypeCorrect == SessionSpec => []SessionTypeOK
<1>1. SessionInv => SessionTypeOK
  BY DEF SessionInv
<1> QED
  BY SessionInvHolds, <1>1, PTL

\* A mail answered with 250 has been filed, or is addressed to nobody here.
THEOREM AckedIsFiledHolds == SessionSpec => []AckedIsFiled
<1>1. SessionInv => AckedIsFiled
  BY DEF SessionInv
<1> QED
  BY SessionInvHolds, <1>1, PTL

\* A mail has at most one row more than there were answers that got lost.
THEOREM FiledAgainOnlyIfUnheardHolds == SessionSpec => []FiledAgainOnlyIfUnheard
<1>1. SessionInv => FiledAgainOnlyIfUnheard
  BY DEF SessionInv, FiledInv, SessionTypeOK, FiledAgainOnlyIfUnheard
<1> QED
  BY SessionInvHolds, <1>1, PTL

\* With sessions that are cut and tried again, too, mail goes only by right.
THEOREM SessionMailStaysUntilDue == SessionSpec => MailStaysUntilDue
  BY SessionUsesStore, MailStaysUntilDueHolds, PTL

-----------------------------------------------------------------------------
(* A filed mail is in its mailbox                                          *)

\* Whoever stores for a session, cut or not, stores under the address that the
\* headers of the mail name first.
StoresFor(p) == p \in orphans \cup ({worker} \ {NoProc})
WorkerInv == \A p \in Procs : StoresFor(p) => op[p].addr = FindRecipient(mail.hdr)

LEMMA WorkerStep ==
    TypeOK /\ SessionInv /\ WorkerInv /\ [SessionNext]_allVars => WorkerInv'
<1> SUFFICES ASSUME TypeOK, SessionInv, WorkerInv, [SessionNext]_allVars,
                    NEW q \in Procs, StoresFor(q)'
             PROVE  (op[q].addr = FindRecipient(mail.hdr))'
  BY DEF WorkerInv
<1> USE DEF SessionInv, StoresFor
<1>1. ASSUME mail' = mail, op'[q] = op[q], StoresFor(q)
      PROVE  (op[q].addr = FindRecipient(mail.hdr))'
  BY <1>1 DEF WorkerInv
<1>2. CASE Queue
  <2>1. orphans = {} /\ worker = NoProc
    BY <1>2 DEF Queue, BeforeInv, SessionTypeOK
  <2> QED
    BY <1>2, <2>1 DEF Queue
<1>3. CASE Envelope \/ Hear \/ Cut \/ DataUnstored \/ UNCHANGED allVars
  BY <1>1, <1>3 DEF Envelope, Hear, Cut, DataUnstored, allVars, smtpVars, vars
<1>4. ASSUME NEW p \in Procs, DataStores(p) PROVE (op[q].addr = FindRecipient(mail.hdr))'
  <2>1. \A x \in Procs \ {p} : op'[x] = op[x]
    BY <1>4 DEF DataStores, Begin, TypeOK
  <2> QED
    BY <1>1, <1>4, <2>1 DEF DataStores
<1>5. ASSUME NEW p \in Procs, WorkerStatement(p) \/ OrphanStatement(p)
      PROVE  (op[q].addr = FindRecipient(mail.hdr))'
  <2>1. /\ \A x \in Procs \ {p} : op'[x] = op[x]
        /\ pc'[p] # "idle" => op'[p] = op[p]
    BY <1>5, StatementKeepsRequests DEF WorkerStatement, OrphanStatement
  <2>2. p = q => pc'[p] # "idle"
    BY <1>5, NamesAssumption DEF WorkerStatement, OrphanStatement, SessionTypeOK, NoProc
  <2> QED
    BY <1>1, <1>5, <2>1, <2>2 DEF WorkerStatement, OrphanStatement
<1>6. CASE Elsewhere
  <2>1. UNCHANGED smtpVars
    BY <1>6 DEF Elsewhere
  <2> QED
    BY <1>1, <1>6, <2>1, ElsewhereKeepsRequests DEF smtpVars
<1>7. CASE RestartServer
  BY <1>7 DEF RestartServer
<1> QED
  BY <1>2, <1>3, <1>4, <1>5, <1>6, <1>7 DEF SessionNext

\* A store of mail that succeeds has just inserted its row.
LEMMA OkInserts ==
    ASSUME IInv, NEW p \in Procs, op[p].kind = "mime", Statement(p),
           answer'.status = "ok"
    PROVE  \E m \in messages' \ messages : m.to = op[p].addr /\ m.gid = 0
<1>1. /\ TypeOK /\ RowInv /\ OwnInv(p) /\ pc[p] # "idle"
      /\ op[p].gid = 0
  <2>1. TypeOK /\ RowInv /\ OwnInv(p)
    BY DEF IInv
  <2>2. pc[p] # "idle"
    BY <2>1, StoringIsBusy
  <2> QED
    BY <2>1, <2>2, BusyRequest, RequestFields
<1>2. ASSUME NEW l, NEW m, Goto(p, l, m) PROVE FALSE
  BY <1>2 DEF Goto, NoAnswer
<1>3. ASSUME NEW s, NEW ms, NEW m, End(p, s, ms, m) PROVE s = "ok"
  BY <1>3 DEF End
<1>4. pc[p] \notin {"dedup", "count", "retry", "find"}
  BY <1>1 DEF TypeOK, OwnInv, MetInv, Reads
<1>5. ~Lookup(p)
  BY <1>2, <1>3 DEF Lookup, FoundBox
<1>6. ~InsertBox(p)
  BY <1>2, <1>3 DEF InsertBox, RefusedBox
<1>7. InsertMsg(p)
  BY <1>4, <1>5, <1>6 DEF Statement, Dedup, Count, Retry, Find
<1>8. PICK t \in Dates(p) :
        messages' = messages \cup
            {[id |-> lastMsg + 1, box |-> mb[p], to |-> op[p].addr,
              gid |-> op[p].gid, recv |-> t]}
  BY <1>3, <1>7 DEF InsertMsg
<1> DEFINE new == [id |-> lastMsg + 1, box |-> mb[p], to |-> op[p].addr,
                   gid |-> op[p].gid, recv |-> t]
<1>9. new.id = lastMsg + 1 /\ new.to = op[p].addr /\ new.gid = 0 /\ new \in messages'
  BY <1>1, <1>8
<1>10. \A m \in messages : m.id # lastMsg + 1
  BY <1>1 DEF TypeOK, Message, RowInv
<1> HIDE DEF new
<1> QED
  BY <1>9, <1>10

\* What the session counts as filed is a row in the mailbox of the first address
\* of ours in the headers, for any mail and whatever becomes of its session.
THEOREM FiledIsInItsMailboxHolds == SessionSpec => FiledIsInItsMailbox
<1>1. SessionInit => WorkerInv
  BY DEF SessionInit, WorkerInv, StoresFor
<1>2. SessionSpec => []WorkerInv
  BY <1>1, WorkerStep, SessionInvHolds, StoreTyped, PTL DEF SessionSpec
<1>3. SessionSpec => []IInv
  BY SessionUsesStore, IInvHolds, PTL
<1>4. IInv /\ IInv' /\ SessionInv /\ WorkerInv /\ [SessionNext]_allVars =>
        [filed' > filed =>
            \E m \in messages' \ messages :
                /\ m.to = FindRecipient(mail.hdr) /\ m.gid = 0
                /\ \E b \in mailboxes' : b.id = m.box /\ b.addr = m.to]_allVars
  <2> SUFFICES ASSUME IInv, IInv', SessionInv, WorkerInv, SessionNext, filed' > filed
               PROVE  \E m \in messages' \ messages :
                         /\ m.to = FindRecipient(mail.hdr) /\ m.gid = 0
                         /\ \E b \in mailboxes' : b.id = m.box /\ b.addr = m.to
    OBVIOUS
  <2>0. filed \in Nat
    BY DEF SessionInv, SessionTypeOK
  <2>1. PICK p \in Procs : StoresFor(p) /\ Statement(p) /\ answer'.status = "ok"
    <3>1. filed' # filed
      BY <2>0
    <3>2. ~(Queue \/ Envelope \/ Hear \/ Cut \/ DataUnstored \/ Elsewhere \/ RestartServer)
      BY <3>1 DEF Queue, Envelope, Hear, Cut, DataUnstored, Elsewhere, smtpVars, RestartServer
    <3>3. PICK p \in Procs : DataStores(p) \/ WorkerStatement(p) \/ OrphanStatement(p)
      BY <3>2 DEF SessionNext
    <3>4. ~DataStores(p)
      BY <3>1 DEF DataStores
    <3>5. CASE WorkerStatement(p)
      BY <3>1, <3>5, NamesAssumption DEF WorkerStatement, StoresFor, NoProc
    <3>6. CASE OrphanStatement(p)
      BY <2>0, <3>1, <3>6 DEF OrphanStatement, StoresFor
    <3> QED
      BY <3>3, <3>4, <3>5, <3>6
  <2>2. op[p].kind = "mime" /\ op[p].addr = FindRecipient(mail.hdr)
    BY <2>1 DEF StoresFor, WorkerInv, SessionInv, SessionTypeOK
  <2>3. PICK m \in messages' \ messages : m.to = op[p].addr /\ m.gid = 0
    BY <2>1, <2>2, OkInserts
  <2>4. \E b \in mailboxes' : b.id = m.box /\ b.addr = m.to
    BY <2>3 DEF IInv, RowInv, EveryMessageHasItsMailbox, RoutedToOwnMailbox, Exists
  <2> QED
    BY <2>2, <2>3, <2>4
<1> QED
  BY <1>2, <1>3, <1>4, SessionInvHolds, PTL DEF SessionSpec, FiledIsInItsMailbox

-----------------------------------------------------------------------------
(* What holds of the store holds with sessions in front of it              *)

\* Sessions that are cut and tried again do not file a Graph message twice.
THEOREM SessionDoubledOnlyUnread == SessionSpec => DoubledOnlyUnread
  BY SessionUsesStore, DoubledOnlyUnreadHolds, PTL

\* To the clients of the API, too, a server with sessions is a set of mailboxes
\* that answers each request at one moment.
THEOREM SessionImplementsMailboxes == SessionSpec => ImplementsMailboxes
  BY SessionUsesStore, StoreImplementsMailboxes, PTL
=============================================================================
