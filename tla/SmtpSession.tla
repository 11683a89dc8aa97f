----------------------------- MODULE SmtpSession -----------------------------
(***************************************************************************)
(* The built-in SMTP server in front of the mailbox store: a remote host   *)
(* delivers one mail, and tries again until each recipient it has left is  *)
(* answered for.  RCPT looks at the envelope, DATA files the mail by its   *)
(* headers; the store's statements are those of module MailStore, taken by *)
(* one of its processes on behalf of the session.                          *)
(***************************************************************************)
EXTENDS MailStore, Sequences

CONSTANTS
    Foreign,   \* addresses elsewhere
    Headers,   \* header address lists a mail may have, see FindRecipient
    Beside     \* bound: the kinds of requests served beside the session

ASSUME ForeignAssumption == Foreign \cap Addrs = {}
ASSUME HeadersAssumption == Headers \subseteq Seq(Addrs \cup Foreign)
ASSUME NamesAssumption == "none" \notin Procs \cup Addrs

VARIABLES
    mail,      \* the mail, chosen when it is queued at the remote host
    due,       \* its envelope recipients the remote host still tries
    phase,     \* how far the session is: no session, DATA accepted, storing, reply
    worker,    \* the process that stores for the session
    orphans,   \* processes that store for a session that has been cut
    verdict,   \* what Data has returned
    acked,     \* recipients the remote host has been told 250 for (history)
    filed,     \* rows made from the mail (history)
    unheard    \* and those of them the remote host was not told of (history)

smtpVars == <<mail, due, phase, worker, orphans, verdict, acked, filed, unheard>>
allVars == <<vars, smtpVars>>

NoMail == [form |-> "none"]
NoProc == "none"
None == "none"

Mail == [form : {"fine", "broken", "huge"}, hdr : Headers]

SessionTypeOK ==
    /\ mail \in Mail \cup {NoMail}
    /\ due \subseteq Addrs \cup Foreign
    /\ phase \in {"none", "data", "storing", "reply"}
    /\ phase # "none" => due # {} /\ due \subseteq Configured
    /\ worker \in Procs \cup {NoProc}
    /\ worker # NoProc <=> phase = "storing"
    /\ orphans \subseteq Procs \ {worker}
    /\ \A p \in orphans \cup ({worker} \ {NoProc}) : op[p].kind = "mime"
    /\ verdict \in {"none", "250", "450", "552"}
    /\ acked \subseteq Configured
    /\ filed \in Nat /\ unheard \in 0..filed

SessionInit ==
    /\ Init
    /\ mail = NoMail /\ due = {} /\ phase = "none" /\ worker = NoProc
    /\ orphans = {} /\ verdict = "none"
    /\ acked = {} /\ filed = 0 /\ unheard = 0

-----------------------------------------------------------------------------
(* Whose mail it is                                                        *)

\* session.Rcpt; the mutant takes subdomains without being asked to
RcptAnySubdomain(a) == a \in Addrs
RcptAccepts(a) == a \in Exact \/ (AllowSubdomains /\ a \in Addrs)

\* findRecipient: the first address at our domains, or at a subdomain of them
\* whether or not subdomains are allowed.  A header list is the addresses of
\* To, Delivered-To, X-Forwarded-To and X-Original-To, in this order.
FindRecipient(hdr) ==
    IF \A k \in DOMAIN hdr : hdr[k] \notin Addrs THEN None
    ELSE hdr[CHOOSE k \in DOMAIN hdr :
                hdr[k] \in Addrs /\ \A j \in 1..(k - 1) : hdr[j] \notin Addrs]

-----------------------------------------------------------------------------
(* The remote host                                                         *)

Queue ==
    /\ mail = NoMail
    /\ mail' \in Mail
    /\ due' \in SUBSET (Addrs \cup Foreign) \ {{}}
    /\ UNCHANGED <<vars, phase, worker, orphans, verdict, acked, filed, unheard>>

\* NewSession, MAIL and a RCPT for each recipient that is due; a refused one
\* bounces.  Without any the session ends.
Envelope ==
    /\ phase = "none" /\ due # {}
    /\ due' = {a \in due : RcptAccepts(a)}
    /\ phase' = IF due' = {} THEN "none" ELSE "data"
    /\ UNCHANGED <<vars, mail, worker, orphans, verdict, acked, filed, unheard>>

\* The answer to DATA arrives: after 250 or 552 the mail is off the queue,
\* after 450 it is tried again.
Hear ==
    /\ phase = "reply"
    /\ phase' = "none"
    /\ verdict' = "none"
    /\ acked' = IF verdict = "250" THEN acked \cup due ELSE acked
    /\ due' = IF verdict = "450" THEN due ELSE {}
    /\ UNCHANGED <<vars, mail, worker, orphans, filed, unheard>>

\* The connection breaks, times out, or Close of the server cuts it.  A store
\* that has begun goes on without anybody to tell.
Untold == IF phase = "reply" /\ verdict = "250" /\ FindRecipient(mail.hdr) # None
          THEN unheard + 1 ELSE unheard

Cut ==
    /\ phase # "none"
    /\ phase' = "none"
    /\ verdict' = "none"
    /\ worker' = NoProc
    /\ orphans' = orphans \cup ({worker} \ {NoProc})
    /\ unheard' = Untold
    /\ UNCHANGED <<vars, mail, due, acked, filed>>

-----------------------------------------------------------------------------
(* session.Data                                                            *)

Conclude(v) == phase' = "reply" /\ verdict' = v

\* Too large for MaxMessageBytes, not parsable, or addressed to nobody here:
\* ErrNotForOurDomain is answered as a success.
DataUnstored ==
    /\ phase = "data"
    /\ \/ mail.form = "huge" /\ Conclude("552")
       \/ mail.form = "broken" /\ Conclude("450")
       \/ mail.form = "fine" /\ FindRecipient(mail.hdr) = None /\ Conclude("250")
    /\ UNCHANGED <<vars, mail, due, worker, orphans, acked, filed, unheard>>

DataStores(p) ==
    /\ phase = "data" /\ mail.form = "fine" /\ FindRecipient(mail.hdr) # None
    /\ Begin(p)
    /\ op'[p].kind = "mime" /\ op'[p].addr = FindRecipient(mail.hdr)
    /\ phase' = "storing"
    /\ worker' = p
    /\ UNCHANGED <<mail, due, orphans, verdict, acked, filed, unheard>>

Statement(p) ==
    \/ Dedup(p) \/ Count(p) \/ Lookup(p) \/ InsertBox(p)
    \/ Retry(p) \/ InsertMsg(p) \/ Find(p)

\* The reply to a store's result.  mutants: a failed store is acknowledged;
\* a stored mail is reported as a temporary failure.
AlwaysOk(status) == "250"
AlwaysRetry(status) == "450"
ReplyTo(status) == IF status = "ok" THEN "250" ELSE "450"

WorkerStatement(p) ==
    /\ p = worker
    /\ Statement(p)
    /\ IF pc'[p] = "idle"
       THEN /\ Conclude(ReplyTo(answer'.status))
            /\ worker' = NoProc
            /\ filed' = IF answer'.status = "ok" THEN filed + 1 ELSE filed
       ELSE UNCHANGED <<phase, verdict, worker, filed>>
    /\ UNCHANGED <<mail, due, orphans, acked, unheard>>

OrphanStatement(p) ==
    /\ p \in orphans
    /\ Statement(p)
    /\ orphans' = IF pc'[p] = "idle" THEN orphans \ {p} ELSE orphans
    /\ LET n == IF pc'[p] = "idle" /\ answer'.status = "ok" THEN 1 ELSE 0
       IN  filed' = filed + n /\ unheard' = unheard + n
    /\ UNCHANGED <<mail, due, phase, worker, verdict, acked>>

-----------------------------------------------------------------------------
(* The rest of the server: webhook, pollers, API and cleaner as in         *)
(* MailStore; a restart takes the session with it.                         *)

Elsewhere ==
    /\ \/ \E p \in Procs \ (orphans \cup {worker}) :
             \/ Begin(p) /\ op'[p].kind \in Beside
             \/ Statement(p)
       \/ \E a \in Addrs : DeleteMailbox(a)
       \/ \E m \in messages : DeleteMessage(m)
       \/ CleanupExpired \/ CleanupOldMessages \/ Tick
    /\ UNCHANGED smtpVars

RestartServer ==
    /\ Restart
    /\ phase' = "none" /\ verdict' = "none"
    /\ worker' = NoProc /\ orphans' = {}
    /\ unheard' = Untold
    /\ UNCHANGED <<mail, due, acked, filed>>

SessionNext ==
    \/ Queue \/ Envelope \/ Hear \/ Cut
    \/ DataUnstored
    \/ \E p \in Procs : DataStores(p) \/ WorkerStatement(p) \/ OrphanStatement(p)
    \/ Elsewhere
    \/ RestartServer

SessionSpec == SessionInit /\ [][SessionNext]_allVars

-----------------------------------------------------------------------------
(* Properties                                                              *)

\* smtp/server.go:109-131: a mail answered with 250 has been filed, by this or
\* by an earlier transaction, or none of its headers names an address of ours:
\* a failed store is never acknowledged.  (It is filed under the first such
\* address, for all of its envelope recipients together.)
AckedIsFiled ==
    acked # {} => filed > 0 \/ FindRecipient(mail.hdr) = None

\* handlers/store.go:15-39: what counts as filed is there.  A mail whose store
\* has succeeded is, in this step, a new row in the mailbox of the address its
\* headers name first, although that mailbox was looked up or made some
\* statements ago, may have gone since, and the session may have been cut.
FiledIsInItsMailbox ==
    [][filed' > filed =>
          \E m \in messages' \ messages :
              /\ m.to = FindRecipient(mail.hdr) /\ m.gid = 0
              /\ \E b \in mailboxes' : b.id = m.box /\ b.addr = m.to]_allVars

\* A mail is filed again only for an answer the remote host never got.
FiledAgainOnlyIfUnheard == filed <= unheard + 1
=============================================================================
