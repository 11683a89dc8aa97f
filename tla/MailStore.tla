----------------------------- MODULE MailStore ------------------------------
(***************************************************************************)
(* The mailbox store: the HTTP handlers, the two mail intakes and the      *)
(* cleaner as processes that share one SQLite database.                    *)
(*                                                                         *)
(* storage.Open skips gorm's transactions, so every statement commits on   *)
(* its own and a handler that issues several is interleaved with all the   *)
(* others between them.  One action is one statement together with the     *)
(* code up to the next one.                                                *)
(***************************************************************************)
EXTENDS Integers, FiniteSets

CONSTANTS
    Procs,            \* goroutines that handle a request or store a message
    Addrs,            \* addresses at our domains or at subdomains of them
    Exact,            \* those at a configured domain itself
    AllowSubdomains,  \* ALLOW_SUBDOMAINS
    GraphIds,         \* ids of Graph messages
    TTLs,             \* lifetimes CreateMailbox gives: TTLHours is unchecked and
                      \* ttl * time.Hour wraps, so they may be negative
    AutoTTL,          \* the year an auto-created mailbox lives
    MsgTTL,           \* MESSAGE_TTL_HOURS; 0 keeps messages
    Faults,           \* statements that may fail: {}, {"write"}, {"read"}, both
    MaxBoxes,         \* bound: rows ever inserted into mailboxes
    MaxMsgs,          \* bound: rows ever inserted into messages
    MaxTime           \* bound: the clock

ASSUME AddrsAssumption == Exact \subseteq Addrs /\ AllowSubdomains \in BOOLEAN
ASSUME GraphIdsAssumption == GraphIds \subseteq Nat \ {0}
ASSUME TimesAssumption == TTLs \subseteq Int /\ AutoTTL \in Nat /\ MsgTTL \in Nat
ASSUME FaultsAssumption == Faults \subseteq {"read", "write"}
ASSUME BoundsAssumption == MaxBoxes \in Nat /\ MaxMsgs \in Nat /\ MaxTime \in Nat

VARIABLES
    mailboxes,  \* table mailboxes: rows [id, addr, exp]
    messages,   \* table messages: rows [id, box, to, gid, recv]
    lastBox,    \* sqlite_sequence of the two tables
    lastMsg,
    now,        \* time.Now()
    cleaner,    \* runCleanup: between ticks, or past CleanupExpired
    pc,         \* pc[p]: the next statement of p
    op,         \* op[p]: what p was asked to do
    mb,         \* mb[p]: mb.ID of the handler, 0 while unset
    base,       \* base[p]: what a read of p's address had to show (history)
    met,        \* met[p]: what befell p and its address meanwhile (history)
    answer      \* the answer this step gave, with its request and its history

tables == <<mailboxes, messages, lastBox, lastMsg>>
procs == <<pc, op, mb, base, met>>
vars == <<mailboxes, messages, lastBox, lastMsg, now, cleaner,
          pc, op, mb, base, met, answer>>

\* isConfiguredAddress, on addresses of Addrs
Configured == IF AllowSubdomains THEN Addrs ELSE Exact

Mailbox == [id : Nat, addr : Addrs, exp : Int]
Message == [id : Nat, box : Nat, to : Addrs, gid : GraphIds \cup {0}, recv : Nat]

\* What the program may be asked: store a message (StoreMessage,
\* StoreGraphMessage), create a mailbox with a random name or with one of the
\* client's choice, read an address (ListMessages, GetMailbox).
Request(kinds, addrs, gids, ttls) ==
    [kind : kinds, addr : addrs, gid : gids, ttl : ttls]
Requests ==
    Request({"mime"}, Addrs, {0}, {AutoTTL})
    \cup Request({"graph"}, Exact, GraphIds, {AutoTTL})
    \cup Request({"create", "createNamed"}, Configured, {0}, TTLs)
    \cup Request({"list", "get"}, Addrs, {0}, {AutoTTL})
Stores == {"mime", "graph"}
Reads == {"list", "get"}

Events == {"created", "removed", "fault"}
Answer == [req : Requests, status : {"ok", "conflict", "notFound", "error"},
           shown : SUBSET Message, base : SUBSET Message, met : SUBSET Events]
NoAnswer == [status |-> "none"]
NoRequest == [kind |-> "none"]

TypeOK ==
    /\ mailboxes \subseteq Mailbox
    /\ messages \subseteq Message
    /\ lastBox \in Nat /\ lastMsg \in Nat /\ now \in Nat
    /\ cleaner \in {"idle", "old"}
    /\ pc \in [Procs -> {"idle", "dedup", "count", "lookup", "insertBox",
                         "retry", "insertMsg", "find"}]
    /\ op \in [Procs -> Requests \cup {NoRequest}]
    /\ \A p \in Procs :
          /\ pc[p] = "idle" <=> op[p] = NoRequest
          /\ pc[p] = "dedup" => op[p].kind = "graph"
          /\ pc[p] = "lookup" => op[p].kind \in Stores \cup Reads
          /\ pc[p] = "insertMsg" => op[p].kind \in Stores
          /\ pc[p] \in {"retry", "find"} => op[p].kind \in Reads
    /\ mb \in [Procs -> Nat]
    /\ base \in [Procs -> SUBSET Message]
    /\ met \in [Procs -> SUBSET Events]
    /\ answer = NoAnswer \/ answer \in Answer

Init ==
    /\ mailboxes = {} /\ messages = {} /\ lastBox = 0 /\ lastMsg = 0
    /\ now = 0 /\ cleaner = "idle"
    /\ pc = [p \in Procs |-> "idle"]
    /\ op = [p \in Procs |-> NoRequest]
    /\ mb = [p \in Procs |-> 0]
    /\ base = [p \in Procs |-> {}]
    /\ met = [p \in Procs |-> {}]
    /\ answer = NoAnswer

-----------------------------------------------------------------------------
(* The tables                                                              *)

At(a) == {b \in mailboxes : b.addr = a}
Exists(i) == \E b \in mailboxes : b.id = i
BoxOf(p) == At(op[p].addr)

\* INTEGER PRIMARY KEY AUTOINCREMENT: an id is never given twice.  In the
\* mutant ids of deleted rows come back.
ReusedBoxId ==
    CHOOSE i \in 1..(lastBox + 1) :
        ~Exists(i) /\ \A j \in 1..(i - 1) : Exists(j)
NextBoxId == lastBox + 1

\* the foreign key of messages, checked because _pragma=foreign_keys is ON
ForeignKeyOff(i) == TRUE
ForeignKeyHolds(i) == Exists(i)

Busy(p) == pc[p] # "idle"

\* met, once `what' has befallen the processes of the set ps
Meets(ps, what) ==
    [p \in Procs |-> IF p \in ps THEN met[p] \cup {what} ELSE met[p]]

\* DELETE FROM mailboxes, with the cascade to messages
Remove(boxes) ==
    /\ mailboxes' = mailboxes \ boxes
    /\ messages' = {m \in messages : \A b \in boxes : m.box # b.id}
    /\ met' = Meets({p \in Procs : Busy(p) /\ BoxOf(p) \cap boxes # {}}, "removed")
    /\ UNCHANGED <<lastBox, lastMsg, now>>

-----------------------------------------------------------------------------
(* A process: one request at a time, statement by statement                *)

\* The fetches that run StoreGraphMessage come one after the other through
\* ingest.OnDemand (SingleFetch of module OnDemand); the mutant is a second
\* poller on the same database.
TwoPollers == TRUE
GraphIdle == \A p \in Procs : Busy(p) => op[p].kind # "graph"

\* A random name is inserted at once, a custom one is counted first.
FirstStatement(kind) ==
    CASE kind = "graph"       -> "dedup"
      [] kind = "createNamed" -> "count"
      [] kind = "create"      -> "insertBox"
      [] OTHER                -> "lookup"

Begin(p) ==
    /\ ~Busy(p)
    /\ \E r \in Requests :
        /\ r.kind = "graph" => GraphIdle
        /\ op' = [op EXCEPT ![p] = r]
        /\ pc' = [pc EXCEPT ![p] = FirstStatement(r.kind)]
        /\ base' = [base EXCEPT ![p] =
                {m \in messages : r.kind \in Reads /\ m.to = r.addr}]
    /\ answer' = NoAnswer
    /\ UNCHANGED <<tables, now, cleaner, mb, met>>

\* p goes on to its next statement, or ends with a status and what it shows;
\* m is what has befallen the processes by then.
Goto(p, l, m) ==
    /\ pc' = [pc EXCEPT ![p] = l]
    /\ met' = m
    /\ answer' = NoAnswer
    /\ UNCHANGED <<now, cleaner, op, base>>

End(p, s, shown, m) ==
    /\ answer' = [req |-> op[p], status |-> s, shown |-> shown,
                  base |-> base[p], met |-> m[p]]
    /\ pc' = [pc EXCEPT ![p] = "idle"]
    /\ op' = [op EXCEPT ![p] = NoRequest]
    /\ mb' = [mb EXCEPT ![p] = 0]
    /\ base' = [base EXCEPT ![p] = {}]
    /\ met' = [m EXCEPT ![p] = {}]
    /\ UNCHANGED <<now, cleaner>>

\* A statement of p may fail for a reason of its own.
ReadFault == "read" \in Faults
WriteFault == "write" \in Faults
Fault(p) == Meets({p}, "fault")

\* StoreGraphMessage: the message is known already.  The error of this Count
\* and of the next is dropped, which leaves the count at 0.
Known(p) == \E m \in messages : m.gid = op[p].gid

Dedup(p) ==
    /\ pc[p] = "dedup"
    /\ \/ Known(p) /\ End(p, "ok", {}, met)
       \/ ~Known(p) /\ Goto(p, "lookup", met) /\ UNCHANGED mb
       \/ ReadFault /\ Goto(p, "lookup", Fault(p)) /\ UNCHANGED mb
    /\ UNCHANGED tables

\* CreateMailbox with a name of the client's choice
Count(p) ==
    /\ pc[p] = "count"
    /\ \/ BoxOf(p) # {} /\ End(p, "conflict", {}, met)
       \/ BoxOf(p) = {} /\ Goto(p, "insertBox", met) /\ UNCHANGED mb
       \/ ReadFault /\ Goto(p, "insertBox", Fault(p)) /\ UNCHANGED mb
    /\ UNCHANGED tables

\* Where a process goes once it has found or made its mailbox
WithBox(p) == IF op[p].kind \in Stores THEN "insertMsg" ELSE "find"

\* Whether an address without a mailbox gets one
AutoCreates(p) ==
    op[p].kind \in Stores \/ (op[p].kind = "list" /\ op[p].addr \in Configured)

FoundBox(p) ==
    \E b \in BoxOf(p) :
        mb' = [mb EXCEPT ![p] = b.id] /\ Goto(p, WithBox(p), met)

Lookup(p) ==
    /\ pc[p] = "lookup"
    /\ \/ FoundBox(p)
       \/ /\ BoxOf(p) = {}
          /\ IF AutoCreates(p)
             THEN Goto(p, "insertBox", met) /\ UNCHANGED mb
             ELSE End(p, "notFound", {}, met)
       \/ ReadFault /\ End(p, "error", {}, Fault(p))
    /\ UNCHANGED tables

\* Only ListMessages looks again after a refused insert; in the mutant nobody
\* does.
NoRetry(p) == FALSE
Retries(p) == op[p].kind = "list"

RefusedBox(p, m) ==
    /\ IF Retries(p)
       THEN Goto(p, "retry", m) /\ UNCHANGED mb
       ELSE End(p, "error", {}, m)
    /\ UNCHANGED tables

InsertBox(p) ==
    /\ pc[p] = "insertBox"
    /\ \/ /\ BoxOf(p) = {} /\ lastBox < MaxBoxes
          /\ lastBox' = lastBox + 1
          /\ mailboxes' = mailboxes \cup
                {[id |-> NextBoxId, addr |-> op[p].addr, exp |-> now + op[p].ttl]}
          /\ LET m == Meets({q \in Procs \ {p} :
                              Busy(q) /\ op[q].addr = op[p].addr}, "created")
             IN  IF op[p].kind \in {"create", "createNamed"}
                 THEN End(p, "ok", {}, m)
                 ELSE mb' = [mb EXCEPT ![p] = NextBoxId] /\ Goto(p, WithBox(p), m)
          /\ UNCHANGED <<messages, lastMsg>>
       \/ BoxOf(p) # {} /\ RefusedBox(p, met)        \* the unique index
       \/ WriteFault /\ RefusedBox(p, Fault(p))

Retry(p) ==
    /\ pc[p] = "retry"
    /\ \/ FoundBox(p)
       \/ BoxOf(p) = {} /\ End(p, "error", {}, met)
       \/ ReadFault /\ End(p, "error", {}, Fault(p))
    /\ UNCHANGED tables

\* Mail is dated on arrival, a Graph message by Graph.
Dates(p) == IF op[p].kind = "graph" THEN 0..now ELSE {now}

InsertMsg(p) ==
    /\ pc[p] = "insertMsg"
    /\ \/ /\ ForeignKeyHolds(mb[p]) /\ lastMsg < MaxMsgs
          /\ lastMsg' = lastMsg + 1
          /\ \E t \in Dates(p) :
                messages' = messages \cup
                    {[id |-> lastMsg + 1, box |-> mb[p], to |-> op[p].addr,
                      gid |-> op[p].gid, recv |-> t]}
          /\ End(p, "ok", {}, met)
       \/ /\ ~ForeignKeyHolds(mb[p]) /\ End(p, "error", {}, met)
          /\ UNCHANGED <<messages, lastMsg>>
       \/ /\ WriteFault /\ End(p, "error", {}, Fault(p))
          /\ UNCHANGED <<messages, lastMsg>>
    /\ UNCHANGED <<mailboxes, lastBox>>

\* The second statement of a read.  ListMessages drops its error and answers
\* 200 with an empty list.
Find(p) ==
    /\ pc[p] = "find"
    /\ \/ End(p, "ok", {m \in messages : m.box = mb[p]}, met)
       \/ ReadFault /\ End(p, IF op[p].kind = "list" THEN "ok" ELSE "error", {}, Fault(p))
    /\ UNCHANGED tables

-----------------------------------------------------------------------------
(* Handlers of one statement, the cleaner, time, a restart                 *)

DeleteMailbox(a) ==
    /\ At(a) # {} /\ Remove(At(a))
    /\ answer' = NoAnswer
    /\ UNCHANGED <<cleaner, pc, op, mb, base>>

DeleteMessage(m) ==
    /\ messages' = messages \ {m}
    /\ answer' = NoAnswer
    /\ UNCHANGED <<mailboxes, lastBox, lastMsg, now, cleaner, procs>>

\* runCleanup goes on to the messages also when the first delete has failed.
CleanupExpired ==
    /\ cleaner = "idle"
    /\ \/ Remove({b \in mailboxes : b.exp < now})
       \/ WriteFault /\ Remove({})
    /\ cleaner' = IF MsgTTL > 0 THEN "old" ELSE "idle"
    /\ answer' = NoAnswer
    /\ UNCHANGED <<pc, op, mb, base>>

TooOldAtOnce(m) == m.recv + MsgTTL <= now   \* mutant: one hour early
TooOld(m) == m.recv + MsgTTL < now

CleanupOldMessages ==
    /\ cleaner = "old"
    /\ \/ messages' = {m \in messages : ~TooOld(m)}
       \/ WriteFault /\ UNCHANGED messages
    /\ cleaner' = "idle"
    /\ answer' = NoAnswer
    /\ UNCHANGED <<mailboxes, lastBox, lastMsg, now, procs>>

Tick ==
    /\ now < MaxTime
    /\ now' = now + 1
    /\ answer' = NoAnswer
    /\ UNCHANGED <<tables, cleaner, procs>>

\* The tables survive; every request under way is gone without an answer.
Restart ==
    /\ cleaner' = "idle"
    /\ pc' = [p \in Procs |-> "idle"]
    /\ op' = [p \in Procs |-> NoRequest]
    /\ mb' = [p \in Procs |-> 0]
    /\ base' = [p \in Procs |-> {}]
    /\ met' = [p \in Procs |-> {}]
    /\ answer' = NoAnswer
    /\ UNCHANGED <<tables, now>>

Next ==
    \/ \E p \in Procs :
        \/ Begin(p) \/ Dedup(p) \/ Count(p) \/ Lookup(p)
        \/ InsertBox(p) \/ Retry(p) \/ InsertMsg(p) \/ Find(p)
    \/ \E a \in Addrs : DeleteMailbox(a)
    \/ \E m \in messages : DeleteMessage(m)
    \/ CleanupExpired \/ CleanupOldMessages
    \/ Tick
    \/ Restart

Spec == Init /\ [][Next]_vars

-----------------------------------------------------------------------------
(* Properties                                                              *)

\* No message is left behind when its mailbox goes, also not one whose
\* mailbox was deleted or reaped between StoreMessage's lookup and its insert.
EveryMessageHasItsMailbox ==
    \A m \in messages : Exists(m.box)

\* A message is filed in the mailbox of the address it was sent to, although
\* the handler remembers that mailbox by an id that may since have gone.
RoutedToOwnMailbox ==
    \A m \in messages, b \in mailboxes : m.box = b.id => b.addr = m.to

\* A Graph message has at most one row, however often it is polled (where reads
\* succeed, see the next property).
GraphIdUnique ==
    \A m, n \in messages : m.gid = n.gid /\ m.gid # 0 => m = n

\* A Graph message gets a second row only from a StoreGraphMessage whose own
\* look for the first one failed: no race, deleted mailbox or restart does it.
DoubledOnlyUnread ==
    [][\A m \in messages' \ messages :
          m.gid # 0 /\ (\E n \in messages : n.gid = m.gid) =>
              \E p \in Procs : Busy(p) /\ op[p].gid = m.gid /\ "fault" \in met[p]]_vars

\* Mail stays until it is due.  A message goes only when a client deletes it or
\* its own address's mailbox, when that mailbox has expired, or when the
\* message is older than a MsgTTL that is set.
GoneByRight(m) ==
    \/ DeleteMessage(m)
    \/ DeleteMailbox(m.to)
    \/ \E b \in At(m.to) : b.exp < now
    \/ MsgTTL > 0 /\ m.recv + MsgTTL < now
MailStaysUntilDue == [][\A m \in messages \ messages' : GoneByRight(m)]_vars

\* A successful read shows mail of its address only, and all of it that was
\* there when the request began and has not been removed since; only a failed
\* statement of its own, whose error ListMessages drops, excuses a gap.
ReadsAreComplete ==
    answer.status = "ok" /\ answer.req.kind \in Reads =>
        /\ \A m \in answer.shown : m.to = answer.req.addr
        /\ answer.base \cap messages \subseteq answer.shown \/ "fault" \in answer.met

\* No undisturbed request is answered with an error.  A store fails only when
\* the mailbox was created or removed beside it; ListMessages looks again, so
\* it takes both; a custom name that is taken fails only if it was free when
\* the request began.
ErrorsAreExplained ==
    answer.status = "error" =>
        \/ "fault" \in answer.met
        \/ answer.req.kind \in Stores /\ answer.met # {}
        \/ answer.req.kind = "list" /\ {"created", "removed"} \subseteq answer.met
        \/ answer.req.kind = "createNamed" /\ "created" \in answer.met
        \/ answer.req.kind = "create"

\* handlers/store.go:13-16 says of a missing mailbox that it is "auto-created
\* (with a long expiry) so nothing is lost": StoreMessage should then refuse a
\* message for one of our addresses only when the database fails or somebody
\* removes the mailbox under it.
NothingLost ==
    answer.status = "error" /\ answer.req.kind = "mime" =>
        answer.met \cap {"fault", "removed"} # {}

-----------------------------------------------------------------------------
(* The store implements Mailboxes, which knows no tables, no ids of        *)
(* mailboxes and no statements.                                            *)

\* what a client can tell of the tables, of its request and of an answer
Seen(m) == [id |-> m.id, to |-> m.to, gid |-> m.gid, recv |-> m.recv]
Owned == {b.addr : b \in mailboxes}
SeenMail == {Seen(m) : m \in messages}
Bereft == {p \in Procs : Busy(p) /\ "removed" \in met[p]}
Told == IF answer = NoAnswer THEN NoAnswer
        ELSE [req |-> answer.req, status |-> answer.status,
              shown |-> {Seen(m) : m \in answer.shown},
              hurt |-> "fault" \in answer.met]

MB == INSTANCE Mailboxes WITH
        Clients <- Procs,
        Silence <- NoAnswer,
        boxes   <- Owned,
        mail    <- SeenMail,
        asked   <- op,
        bereft  <- Bereft,
        told    <- Told

\* Whatever runs between its statements, a request is answered as if it were
\* one step: a read shows its address at one moment, one of several creators
\* gets the address, mail enters a mailbox that is there and leaves with it,
\* and a refusal tells the truth about the address.
ImplementsMailboxes == MB!Spec
=============================================================================
