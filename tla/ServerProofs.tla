---------------------------- MODULE ServerProofs ----------------------------
(***************************************************************************)
(* Server for any handlers and any number of starts, and ConfigLoad for    *)
(* every combination of settings.                                          *)
(***************************************************************************)
EXTENDS Server, TLAPS

\* Which settings are missing for the login, in each mode
LEMMA MissingIs ==
    ASSUME NEW e \in Env
    PROVE  /\ Poller(e) = "graph" => (Missing(e) = {} <=> e.graphApp)
           /\ Poller(e) = "imap" /\ e.oauth2 =>
                /\ Missing(e) = {} <=> e.imapApp /\ e.imapUser
                /\ Missing(e) = {"imapUser"} <=> e.imapApp /\ ~e.imapUser
           /\ Poller(e) = "imap" /\ ~e.oauth2 =>
                (Missing(e) = {} <=> e.imapUser /\ e.imapPass)
           /\ Poller(e) = "none" => Missing(e) = {}
<1>1. CASE Poller(e) = "graph"
  BY <1>1 DEF Missing, Credentials
<1>2. CASE Poller(e) = "imap" /\ e.oauth2
  BY <1>2 DEF Missing, Credentials
<1>3. CASE Poller(e) = "imap" /\ ~e.oauth2
  BY <1>3 DEF Missing, Credentials
<1>4. CASE Poller(e) = "none"
  BY <1>4 DEF Missing, Credentials
<1> QED
  BY <1>1, <1>2, <1>3, <1>4

\* Whatever Load lets through gives the server a way for mail to come in, and
\* the poller that main chooses what it logs in with, but for IMAP_USER in
\* oauth2 mode.
THEOREM LoadsUsable == \A e \in Env : Loads(e) => Usable(e) \/ Nameless(e)
<1> SUFFICES ASSUME NEW e \in Env, Loads(e) PROVE Usable(e) \/ Nameless(e)
  OBVIOUS
<1>1. CASE e.graph
  <2>1. Poller(e) = "graph"
    BY <1>1 DEF Poller
  <2>2. e.graphApp
    BY <1>1 DEF Env, Loads, SmtpOnly
  <2> QED
    BY <2>1, <2>2, MissingIs DEF Usable
<1>2. CASE ~e.graph /\ HasImapHost(e)
  <2>1. Poller(e) = "imap"
    BY <1>2 DEF Env, Poller
  <2>2. IF e.oauth2 THEN e.imapApp ELSE e.imapUser /\ e.imapPass
    BY <1>2 DEF Env, Loads, SmtpOnly
  <2> QED
    BY <2>1, <2>2, MissingIs DEF Usable, Nameless
<1>3. CASE ~e.graph /\ ~HasImapHost(e)
  <2>1. Poller(e) = "none"
    BY <1>3 DEF Env, Poller
  <2>2. e.smtp \/ e.webhook
    BY <1>3 DEF Env, Loads, SmtpOnly
  <2> QED
    BY <2>1, <2>2, MissingIs DEF Usable
<1> QED
  BY <1>1, <1>2, <1>3

\* Nothing else is let through or refused: of the settings whose provider,
\* numbers, key and domains are in order, and where Graph is told its account,
\* Load refuses just those that are of no use, and lets every nameless one pass.
THEOREM LoadsExactly ==
    \A e \in Env :
        /\ e.provider # "unknown" /\ e.ints /\ e.apiKey /\ e.domains
        /\ e.graph => e.graphAccount
        => (Loads(e) <=> Usable(e) \/ Nameless(e))
<1> SUFFICES ASSUME NEW e \in Env,
                    e.provider # "unknown", e.ints, e.apiKey, e.domains,
                    e.graph => e.graphAccount,
                    Usable(e) \/ Nameless(e)
             PROVE  Loads(e)
  BY LoadsUsable
<1>1. CASE e.graph
  <2>1. Poller(e) = "graph"
    BY <1>1 DEF Poller
  <2>2. e.graphApp
    BY <2>1, MissingIs DEF Usable, Nameless
  <2> QED
    BY <1>1, <2>2 DEF Loads
<1>2. CASE ~e.graph /\ HasImapHost(e)
  <2>1. Poller(e) = "imap"
    BY <1>2 DEF Env, Poller
  <2>2. IF e.oauth2 THEN e.imapApp ELSE e.imapUser /\ e.imapPass
    BY <2>1, MissingIs DEF Env, Usable, Nameless
  <2> QED
    BY <1>2, <2>2 DEF Loads
<1>3. CASE ~e.graph /\ ~HasImapHost(e)
  <2>1. Poller(e) = "none"
    BY <1>3 DEF Env, Poller
  <2>2. e.smtp \/ e.webhook
    BY <2>1 DEF Usable, Nameless
  <2> QED
    BY <1>3, <2>2 DEF Env, Loads, SmtpOnly
<1> QED
  BY <1>1, <1>2, <1>3

\* The exception is real: there are settings without an IMAP_USER that load.
THEOREM NamelessLoads == \E e \in Env : Loads(e) /\ Nameless(e) /\ ~Usable(e)
<1> DEFINE e == [apiKey |-> TRUE, domains |-> TRUE, ints |-> TRUE,
                 webhook |-> FALSE, smtp |-> FALSE, graph |-> FALSE,
                 graphApp |-> FALSE, graphAccount |-> FALSE, imapHost |-> TRUE,
                 provider |-> "none", oauth2 |-> TRUE, imapApp |-> TRUE,
                 imapUser |-> FALSE, imapPass |-> FALSE]
<1>1. e \in Env
  BY DEF Env
<1>2. Poller(e) = "imap"
  BY DEF Poller, HasImapHost
<1>3. Loads(e)
  BY DEF Loads, HasImapHost
<1>4. Missing(e) = {"imapUser"}
  BY <1>1, <1>2, MissingIs
<1> QED
  BY <1>1, <1>2, <1>3, <1>4 DEF Nameless, Usable

\* Once Shutdown has returned no handler is left, unless the grace is over.
DrainedInv == main = "closing" => graced \/ Handlerless

Inv == TypeOK /\ StartedUsable /\ DrainedInv

LEMMA InitInv == Init => Inv
<1> SUFFICES ASSUME Init PROVE Inv
  OBVIOUS
<1>1. /\ reader = [r \in Readers |-> "idle"] /\ sender = [s \in Senders |-> "idle"]
      /\ 0 \in 0..MaxStarts
  BY MaxStartsAssumption DEF Init, Handlerless
<1>2. TypeOK
  BY <1>1 DEF Init, TypeOK
<1>3. StartedUsable /\ DrainedInv
  BY DEF Init, StartedUsable, DrainedInv
<1> QED
  BY <1>2, <1>3 DEF Inv

LEMMA NextInv == Inv /\ [Next]_vars => Inv'
<1> SUFFICES ASSUME Inv, [Next]_vars PROVE Inv'
  OBVIOUS
<1> USE DEF Inv, StartedUsable, DrainedInv
<1>1. CASE Start
  <2>1. PICK e \in Env : Loads(e) /\ gate' = (Poller(e) # "none") /\ usable' = Use(e)
    BY <1>1 DEF Start
  <2>2. Usable(e) \/ Nameless(e)
    BY <2>1, LoadsUsable
  <2>3. usable' \in {"yes", "nameless"}
    BY <2>1, <2>2 DEF Use
  <2>4. gate' \in BOOLEAN
    BY <2>1
  <2>5. /\ main' = "up" /\ graced' = FALSE /\ starts' \in 0..MaxStarts
        /\ fetch = "none" /\ UNCHANGED <<fetch, reader, sender>>
    BY <1>1, MaxStartsAssumption DEF Start, TypeOK
  <2>6. TypeOK'
    BY <2>3, <2>4, <2>5 DEF TypeOK
  <2> QED
    BY <2>3, <2>5, <2>6
<1>2. ASSUME NEW r \in Readers, Read(r) \/ Sync(r) \/ LetGo(r) \/ Respond(r)
      PROVE  Inv'
  <2>1. TypeOK'
    BY <1>2 DEF Read, Sync, LetGo, Respond, TypeOK
  <2>2. reader[r] = "idle" => main = "up"
    BY <1>2 DEF Read, Sync, LetGo, Respond
  <2>3. UNCHANGED <<main, usable, graced, sender>>
    BY <1>2 DEF Read, Sync, LetGo, Respond
  <2> QED
    BY <2>1, <2>2, <2>3 DEF Handlerless
<1>3. CASE FetchEnds
  BY <1>3 DEF FetchEnds, Woken, TypeOK, Handlerless
<1>4. ASSUME NEW s \in Senders, Send(s) \/ Sent(s) PROVE Inv'
  BY <1>4 DEF Send, Sent, TypeOK, Handlerless
<1>5. CASE Signal
  BY <1>5 DEF Signal, FetchAtSignal, TypeOK
<1>6. CASE GraceEnds
  BY <1>6 DEF GraceEnds, TypeOK
<1>7. CASE ShutdownReturns
  BY <1>7 DEF ShutdownReturns, Cancelled, TypeOK, Handlerless
<1>8. CASE Exit \/ Crash
  BY <1>8 DEF Exit, Crash, Ends, TypeOK
<1>9. CASE UNCHANGED vars
  BY <1>9 DEF vars, TypeOK, Handlerless
<1> QED
  BY <1>1, <1>2, <1>3, <1>4, <1>5, <1>6, <1>7, <1>8, <1>9 DEF Next

LEMMA InvHolds == Spec => []Inv
  BY InitInv, NextInv, PTL DEF Spec

\* The server keeps its types: nobody waits without a fetch, and there is no
\* fetch without a gate or outside of the process.
THEOREM TypeCorrect == Spec => []TypeOK
<1>1. Inv => TypeOK
  BY DEF Inv
<1> QED
  BY <1>1, InvHolds, PTL

\* A server that has started is of use, unless its IMAP poller has no name.
THEOREM StartedUsableHolds == Spec => []StartedUsable
<1>1. Inv => StartedUsable
  BY DEF Inv
<1> QED
  BY <1>1, InvHolds, PTL

LEMMA GraceStep ==
    ASSUME Inv, [Next]_vars
    PROVE  /\ fetch = "running" /\ fetch' = "cancelled" =>
                graced \/ \A r \in Readers : reader[r] # "waiting"
           /\ main = "closing" /\ main' = "exited" =>
                fetch = "none" /\ (graced \/ Handlerless)
<1>1. ASSUME fetch = "running", fetch' = "cancelled"
      PROVE  graced \/ \A r \in Readers : reader[r] # "waiting"
  <2>1. ShutdownReturns
    BY <1>1 DEF Next, vars, Start, Read, Sync, LetGo, Respond, FetchEnds, Send,
       Sent, Signal, FetchAtSignal, GraceEnds, Exit, Crash, Ends
  <2> QED
    BY <2>1 DEF ShutdownReturns, Handlerless
<1>2. ASSUME main = "closing", main' = "exited"
      PROVE  fetch = "none" /\ (graced \/ Handlerless)
  <2>1. Exit
    BY <1>2 DEF Next, vars, Start, Read, Sync, LetGo, Respond, FetchEnds, Send,
       Sent, Signal, GraceEnds, ShutdownReturns, Crash, Ends
  <2> QED
    BY <1>2, <2>1 DEF Exit, GateDrained, Inv, DrainedInv
<1> QED
  BY <1>1, <1>2

\* No handler is cut off within the grace, and no fetch by an orderly exit.
THEOREM GraceIsKeptHolds == Spec => GraceIsKept
<1>1. Inv /\ [Next]_vars =>
        [/\ fetch = "running" /\ fetch' = "cancelled" =>
              graced \/ \A r \in Readers : reader[r] # "waiting"
         /\ main = "closing" /\ main' = "exited" =>
              fetch = "none" /\ (graced \/ Handlerless)]_vars
  BY GraceStep
<1> QED
  BY <1>1, InvHolds, PTL DEF Spec, GraceIsKept
=============================================================================
