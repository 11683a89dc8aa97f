---------------------------- MODULE DirectSender -----------------------------
(***************************************************************************)
(* POST /api/send and the two senders behind it.  A client that wants one  *)
(* mail sent asks, and asks again when it was refused or heard nothing;    *)
(* every such try is a handler of its own.  With a relay the mail goes to  *)
(* one host in one transaction; without one, each domain's recipients go   *)
(* to its mail exchangers, best preference first, until one takes them.    *)
(***************************************************************************)
EXTENDS Naturals, FiniteSets

CONSTANTS
    Recipients,   \* addresses the mail may have
    Domains,      \* domains of recipients
    DomainOf,     \* DomainOf[r], NoDomain for an address without a domain
    NoDomain,
    MX,           \* MX[d]: the records [host, pref] in the DNS
    Null,         \* the host of a null MX record, "."
    Relay,        \* SMTP_SEND_HOST
    Tries         \* bound: requests for the mail are 1..Tries

ASSUME DomainsAssumption ==
    DomainOf \in [Recipients -> Domains \cup {NoDomain}] /\ NoDomain \notin Domains
ASSUME TriesAssumption == Tries \in Nat

VARIABLES
    relay,   \* NewSender: a relay is configured
    to,      \* the recipients of the mail
    pc,      \* pc[i]: how far try i is, or how it ended
    todo,    \* todo[i]: the groups of recipients not handled yet
    job,     \* job[i]: the group being handled
    left,    \* left[i]: its mail exchangers not tried yet
    errs,    \* errs[i]: a group has failed
    silent,  \* silent[i]: the peer of i no longer answers
    gone,    \* gone[i]: the client no longer waits for i
    got,     \* got[i]: recipients for whom a host has taken the mail of i
    copies,  \* copies[r]: how often a host has taken the mail for r
    unsure   \* recipients whose host took the mail and failed afterwards

sendState == <<pc, todo, job, left, errs, silent>>
history == <<got, copies, unsure>>
vars == <<relay, to, pc, todo, job, left, errs, silent, gone,
              got, copies, unsure>>

Try == 1..Tries
Stages == {"dial", "greet", "tls", "auth", "mail", "rcpt", "data", "body", "quit"}
Running == Stages \cup {"next", "host"}
Ended == {"ok", "failed", "bad", "killed"}    \* 200, 502, 400, no answer

Group(rs, d) == {r \in rs : DomainOf[r] = d}

\* a relay takes them all, an exchanger those of its domain
OneTransaction(g) ==
    relay \/ \E d \in Domains : \A r \in g : DomainOf[r] = d

TypeOK ==
    /\ relay \in BOOLEAN
    /\ to \subseteq Recipients
    /\ pc \in [Try -> {"new"} \cup Running \cup Ended]
    /\ todo \in [Try -> SUBSET SUBSET to]
    /\ job \in [Try -> SUBSET to]
    /\ \A i \in Try : pc[i] \in Stages \cup {"host"} => job[i] # {} /\ OneTransaction(job[i])
    /\ errs \in [Try -> BOOLEAN]
    /\ silent \in [Try -> BOOLEAN] /\ gone \in [Try -> BOOLEAN]
    /\ got \in [Try -> SUBSET to]
    /\ copies \in [Recipients -> Nat]
    /\ unsure \subseteq to

Init ==
    /\ relay \in BOOLEAN
    /\ to = {}
    /\ pc = [i \in Try |-> "new"]
    /\ todo = [i \in Try |-> {}]
    /\ job = [i \in Try |-> {}]
    /\ left = [i \in Try |-> {}]
    /\ errs = [i \in Try |-> FALSE]
    /\ silent = [i \in Try |-> FALSE]
    /\ gone = [i \in Try |-> FALSE]
    /\ got = [i \in Try |-> {}]
    /\ copies = [r \in Recipients |-> 0]
    /\ unsure = {}

-----------------------------------------------------------------------------
(* SendHandler.Send up to the sender                                       *)

\* The client asks again when it was told that everything was rejected, when
\* it heard nothing, and when it had asked for something impossible.
MayAsk(i) ==
    i > 1 => pc[i - 1] \in {"failed", "bad", "killed"} \/ gone[i - 1]

\* What the checks of the handler tell apart.  domainAllowed takes exact
\* domains only; an absent from is replaced by SMTP_SEND_FROM, which is
\* checked like any other.
Request == [json : BOOLEAN, from : {"ours", "foreign"}, body : BOOLEAN,
            to : SUBSET Recipients]
Acceptable(req) == req.json /\ req.from = "ours" /\ req.to # {} /\ req.body

Begin(i) ==
    /\ pc[i] = "new" /\ MayAsk(i)
    /\ UNCHANGED <<relay, job, left, errs, silent, gone, history>>

BadRequest(i) ==
    /\ Begin(i)
    /\ \E req \in Request : ~Acceptable(req)
    /\ pc' = [pc EXCEPT ![i] = "bad"]
    /\ UNCHANGED <<to, todo>>

\* directSender.Send refuses the whole mail for one address without a domain,
\* before anything is sent.  The mutant sends everything to everyone's host.
Ungrouped(rs) == {rs}
Groups(rs) ==
    IF relay THEN {rs}
    ELSE {Group(rs, d) : d \in {DomainOf[r] : r \in rs}}
Malformed(rs) == ~relay /\ \E r \in rs : DomainOf[r] = NoDomain

Accept(i) ==
    /\ Begin(i)
    /\ \E req \in Request :
        /\ Acceptable(req) /\ (to # {} => req.to = to)
        /\ to' = req.to
        /\ IF Malformed(req.to)
           THEN pc' = [pc EXCEPT ![i] = "failed"] /\ UNCHANGED todo
           ELSE /\ pc' = [pc EXCEPT ![i] = "next"]
                /\ todo' = [todo EXCEPT ![i] = Groups(req.to)]

-----------------------------------------------------------------------------
(* The loop over the groups: byDomain is a map, so in any order            *)

\* mxHosts: the records without null hosts, or the domain itself when there
\* are none and when the lookup failed.
Real(ms) == {m \in ms : m.host # Null}
MxHosts(d) ==
    {IF Real(ms) = {} THEN {[host |-> d, pref |-> 0]} ELSE Real(ms) : ms \in {MX[d], {}}}
HostsOf(g) ==
    IF relay THEN {{[host |-> Relay, pref |-> 0]}}
    ELSE UNION {MxHosts(DomainOf[r]) : r \in g}

NextGroup(i) ==
    /\ pc[i] = "next"
    /\ \E g \in todo[i] :
        /\ todo' = [todo EXCEPT ![i] = @ \ {g}]
        /\ job' = [job EXCEPT ![i] = g]
        /\ \E hs \in HostsOf(g) : left' = [left EXCEPT ![i] = hs]
    /\ pc' = [pc EXCEPT ![i] = "host"]
    /\ UNCHANGED <<relay, to, errs, silent, gone, history>>

\* The last group is done: 200, or 502 with "rejected" for everybody.
\* The mutant forgets the errors collected.
AnswerOk(i) == "ok"
AnswerOf(i) == IF errs[i] THEN "failed" ELSE "ok"

Answer(i) ==
    /\ pc[i] = "next" /\ todo[i] = {}
    /\ pc' = [pc EXCEPT ![i] = AnswerOf(i)]
    /\ UNCHANGED <<relay, to, todo, job, left, errs, silent, gone, history>>

-----------------------------------------------------------------------------
(* deliverToDomain and smtpClientSend: one host after the other            *)

\* mutant: a failed host is tried again
TriedAgain(i, m) == left[i]
Untried(i, m) == left[i] \ {m}

NextHost(i) ==
    /\ pc[i] = "host"
    /\ \E m \in left[i] :
        /\ \A n \in left[i] : m.pref <= n.pref
        /\ left' = [left EXCEPT ![i] = Untried(i, m)]
    /\ pc' = [pc EXCEPT ![i] = "dial"]
    /\ UNCHANGED <<relay, to, todo, job, errs, silent, gone, history>>

NoHostLeft(i) ==
    /\ pc[i] = "host" /\ left[i] = {}
    /\ errs' = [errs EXCEPT ![i] = TRUE]
    /\ pc' = [pc EXCEPT ![i] = "next"]
    /\ UNCHANGED <<relay, to, todo, job, left, silent, gone, history>>

\* One stage after the other.  Only a relay is logged in to.  A peer that
\* offers no STARTTLS, or refuses the command, is talked to in clear.
After(s) ==
    CASE s = "dial"  -> "greet"
      [] s = "greet" -> "tls"
      [] s = "tls"   -> IF relay THEN "auth" ELSE "mail"
      [] s = "auth"  -> "mail"
      [] s = "mail"  -> "rcpt"
      [] s = "rcpt"  -> "data"
      [] s = "data"  -> "body"

Advance(i) ==
    /\ pc[i] \in Stages \ {"body", "quit"} /\ ~silent[i]
    /\ pc' = [pc EXCEPT ![i] = After(pc[i])]
    /\ UNCHANGED <<relay, to, todo, job, left, errs, silent, gone, history>>

\* A host is given up for any failed stage: no connection by either protocol,
\* no greeting, a TLS handshake that fails (the connection is unusable then,
\* so MAIL fails although StartTLS's error is ignored), one refused recipient,
\* a refused body.
HostFails(i) ==
    /\ pc[i] \in Stages \ {"quit"} /\ ~silent[i]
    /\ pc' = [pc EXCEPT ![i] = "host"]
    /\ UNCHANGED <<relay, to, todo, job, left, errs, silent, gone, history>>

\* The host takes the mail; its answer to the body arrives or is lost.
Taken(i) ==
    /\ pc[i] = "body" /\ ~silent[i]
    /\ got' = [got EXCEPT ![i] = @ \cup job[i]]
    /\ copies' = [r \in Recipients |-> IF r \in job[i] THEN copies[r] + 1 ELSE copies[r]]
    /\ UNCHANGED <<relay, to, todo, job, left, errs, gone>>

HostTakes(i) ==
    /\ Taken(i)
    /\ pc' = [pc EXCEPT ![i] = "quit"]
    /\ UNCHANGED <<silent, unsure>>

HostTakesUnheard(i) ==
    /\ Taken(i)
    /\ unsure' = unsure \cup job[i]
    /\ \/ pc' = [pc EXCEPT ![i] = "host"] /\ UNCHANGED silent
       \/ silent' = [silent EXCEPT ![i] = TRUE] /\ UNCHANGED pc

\* c.Quit's error is the error of the delivery.  The mutant goes to the next
\* host after a success, too.
TriesOn(i) == "host"
WhenDelivered(i) == "next"

Quit(i) ==
    /\ pc[i] = "quit" /\ ~silent[i]
    /\ \/ pc' = [pc EXCEPT ![i] = WhenDelivered(i)] /\ UNCHANGED unsure
       \/ pc' = [pc EXCEPT ![i] = "host"] /\ unsure' = unsure \cup job[i]
    /\ UNCHANGED <<relay, to, todo, job, left, errs, silent, gone, got, copies>>

\* After the dial there is no deadline: a peer that falls silent is waited for.
FallSilent(i) ==
    /\ pc[i] \in Stages \ {"dial"} /\ ~silent[i]
    /\ silent' = [silent EXCEPT ![i] = TRUE]
    /\ UNCHANGED <<relay, to, pc, todo, job, left, errs, gone, history>>

-----------------------------------------------------------------------------
(* Around it: the client stops waiting, the process ends                   *)

\* The handler does not look at the request's context: it goes on.
ClientLeaves(i) ==
    /\ pc[i] \in Running /\ ~gone[i]
    /\ gone' = [gone EXCEPT ![i] = TRUE]
    /\ UNCHANGED <<relay, to, sendState, history>>

ProcessEnds ==
    /\ pc' = [i \in Try |-> IF pc[i] \in Running THEN "killed" ELSE pc[i]]
    /\ UNCHANGED <<relay, to, todo, job, left, errs, silent, gone, history>>

Steps(i) ==
    \/ NextGroup(i) \/ Answer(i) \/ NextHost(i) \/ NoHostLeft(i)
    \/ Advance(i) \/ HostFails(i)
    \/ HostTakes(i) \/ HostTakesUnheard(i) \/ Quit(i)

Next ==
    \/ \E i \in Try :
        \/ BadRequest(i) \/ Accept(i) \/ Steps(i)
        \/ FallSilent(i) \/ ClientLeaves(i)
    \/ ProcessEnds

Spec == Init /\ [][Next]_vars

\* Every exchange with a peer that answers ends; nothing else is relied on.
FairSpec == Spec /\ \A i \in Try : WF_vars(Steps(i))

-----------------------------------------------------------------------------
(* Properties                                                              *)

\* sender.go:138-146, send.go:95-99: a request answered with "accepted" has had
\* a host take the mail for each of its recipients, whatever domains and
\* exchangers failed on the way.
AcceptedMeansDelivered ==
    \A i \in Try : pc[i] = "ok" => to \subseteq got[i]

\* A request is not answered with "rejected" when every recipient's host has
\* taken the mail and said so up to QUIT.
RejectedHasReason ==
    \A i \in Try : pc[i] = "failed" => \E r \in to : r \notin got[i] \/ r \in unsure

\* A recipient has the mail twice only when a host took it and failed before
\* the end of QUIT, so that the next one was tried, or when the client asked
\* again after a request that had reached the recipient was answered with
\* "rejected", was left, or died with the process.
DuplicateOnlyIfExcused ==
    \A r \in Recipients : copies[r] > 1 =>
        \/ r \in unsure
        \/ \E i \in Try : r \in got[i] /\ (pc[i] \in {"failed", "killed"} \/ gone[i])

\* A request gets on: each of its steps handles one more group, or tries one
\* more host of the same group, or comes closer to the end with that host, and
\* no failure takes it back.
Place == [dial |-> 1, greet |-> 2, tls |-> 3, auth |-> 4, mail |-> 5, rcpt |-> 6,
          data |-> 7, body |-> 8, quit |-> 9, host |-> 10, next |-> 11,
          ok |-> 12, failed |-> 12, killed |-> 12]
Fewer(S, T) == S \subseteq T /\ S # T
Closer(i) ==
    \/ Fewer(todo'[i], todo[i])
    \/ todo'[i] = todo[i] /\ Fewer(left'[i], left[i])
    \/ todo'[i] = todo[i] /\ left'[i] = left[i] /\ Place[pc'[i]] > Place[pc[i]]
SendGetsOn ==
    [][\A i \in Try : pc[i] \in Running =>
          Closer(i) \/ UNCHANGED <<todo[i], left[i], pc[i]>>]_vars

\* A request ends unless its peer falls silent.
SendEnds == \A i \in Try : pc[i] \in Running ~> pc[i] \in Ended \/ silent[i]
=============================================================================
