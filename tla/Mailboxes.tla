------------------------------ MODULE Mailboxes ------------------------------
(***************************************************************************)
(* What the mailbox store promises its clients: an address has a mailbox   *)
(* or not, mail belongs to an address, and a request is answered as if all *)
(* of it happened in the step that answers it.  There are no tables, no    *)
(* ids of mailboxes and no statements between which others could run.      *)
(***************************************************************************)

CONSTANTS
    Clients,
    Requests,    \* [kind, addr, gid, ...]
    NoRequest,
    Silence

VARIABLES
    boxes,    \* the addresses that have a mailbox
    mail,     \* the mail there is: [id, to, gid, ...]
    asked,    \* asked[c]: the request c waits for an answer to
    bereft,   \* clients whose address has lost its mailbox since they asked
    told      \* what this step tells a client

vars == <<boxes, mail, asked, bereft, told>>

Init ==
    /\ boxes = {} /\ mail = {}
    /\ asked = [c \in Clients |-> NoRequest]
    /\ bereft = {}
    /\ told = Silence

Waits(c) == asked[c] # NoRequest
MailOf(a) == {m \in mail : m.to = a}
Known(gid) == \E m \in mail : m.gid = gid

-----------------------------------------------------------------------------
(* Steps that tell nobody anything                                         *)

Ask(c) ==
    /\ told' = Silence
    /\ ~Waits(c)
    /\ \E r \in Requests : asked' = [asked EXCEPT ![c] = r]
    /\ UNCHANGED <<boxes, mail, bereft>>

\* On the way to its answer a store or a list makes the mailbox it needs.
Open(c) ==
    /\ told' = Silence
    /\ asked[c].kind \in {"mime", "graph", "list"}
    /\ asked[c].addr \notin boxes
    /\ boxes' = boxes \cup {asked[c].addr}
    /\ UNCHANGED <<mail, asked, bereft>>

\* A mailbox goes with all its mail.
Remove(as) ==
    /\ told' = Silence
    /\ boxes' = boxes \ as
    /\ mail' = {m \in mail : m.to \notin as}
    /\ bereft' = bereft \cup {c \in Clients : Waits(c) /\ asked[c].addr \in as}
    /\ UNCHANGED asked

Drop ==
    /\ told' = Silence
    /\ mail' \subseteq mail
    /\ UNCHANGED <<boxes, asked, bereft>>

Crash ==
    /\ told' = Silence
    /\ asked' = [c \in Clients |-> NoRequest]
    /\ bereft' = {}
    /\ UNCHANGED <<boxes, mail>>

-----------------------------------------------------------------------------
(* Answers; hurt says that a statement of the request has failed           *)

Tell(c, status, shown, hurt) ==
    /\ Waits(c)
    /\ told' = [req |-> asked[c], status |-> status, shown |-> shown, hurt |-> hurt]
    /\ asked' = [asked EXCEPT ![c] = NoRequest]
    /\ bereft' = bereft \ {c}

\* Of several clients that want the same free address one gets it.
Create(c, hurt) ==
    /\ Tell(c, "ok", {}, hurt)
    /\ asked[c].kind \in {"create", "createNamed"}
    /\ asked[c].addr \notin boxes
    /\ boxes' = boxes \cup {asked[c].addr}
    /\ UNCHANGED mail

\* One mail more, in a mailbox that is there.  A Graph message is a new one.
Store(c, hurt) ==
    /\ Tell(c, "ok", {}, hurt)
    /\ asked[c].kind \in {"mime", "graph"}
    /\ asked[c].addr \in boxes
    /\ asked[c].kind = "graph" /\ Known(asked[c].gid) => hurt
    /\ \E m \in mail' :
          /\ m.to = asked[c].addr /\ m.gid = asked[c].gid
          /\ \A n \in mail : n.id # m.id
          /\ mail' = mail \cup {m}
    /\ UNCHANGED boxes

StoredBefore(c, hurt) ==
    /\ Tell(c, "ok", {}, hurt)
    /\ asked[c].kind = "graph" /\ Known(asked[c].gid)
    /\ UNCHANGED <<boxes, mail>>

\* A reader sees what its address has now.  It sees nothing if the mailbox has
\* gone since it asked, as was true then, or if a list's query has failed.
Read(c, hurt) ==
    /\ asked[c].kind \in {"list", "get"}
    /\ \/ asked[c].addr \in boxes /\ Tell(c, "ok", MailOf(asked[c].addr), hurt)
       \/ c \in bereft /\ Tell(c, "ok", {}, hurt)
       \/ asked[c].kind = "list" /\ hurt /\ Tell(c, "ok", {}, hurt)
    /\ UNCHANGED <<boxes, mail>>

\* Taken and missing are said only of addresses that are.
Refuse(c, hurt) ==
    /\ \/ /\ Tell(c, "conflict", {}, hurt)
          /\ asked[c].kind = "createNamed" /\ asked[c].addr \in boxes
       \/ /\ Tell(c, "notFound", {}, hurt)
          /\ asked[c].kind \in {"list", "get"} /\ asked[c].addr \notin boxes
       \/ Tell(c, "error", {}, hurt)
    /\ UNCHANGED <<boxes, mail>>

Next ==
    \/ Drop
    \/ \E c \in Clients : Ask(c) \/ Open(c)
    \/ \E c \in Clients, hurt \in BOOLEAN :
        \/ Create(c, hurt) \/ Store(c, hurt) \/ StoredBefore(c, hurt)
        \/ Read(c, hurt) \/ Refuse(c, hurt)
    \/ \E as \in SUBSET boxes : Remove(as)
    \/ Crash

Spec == Init /\ [][Next]_vars
=============================================================================
