-------------------------- MODULE MailStoreProofs ---------------------------
(***************************************************************************)
(* The safety properties of MailStore, for any number of processes,        *)
(* addresses, rows and ticks.                                              *)
(***************************************************************************)
EXTENDS MailStore, TLAPS

Labels == {"idle", "dedup", "count", "lookup", "insertBox", "retry",
           "insertMsg", "find"}

\* A process that is asked something is asked it with all its fields.
LEMMA RequestFields ==
    ASSUME NEW r \in Requests
    PROVE  /\ r.kind \in {"mime", "graph", "create", "createNamed", "list", "get"}
           /\ r.addr \in Addrs /\ r.gid \in GraphIds \cup {0} /\ r.ttl \in Int
           /\ r.kind = "graph" <=> r.gid # 0
           /\ r # NoRequest
<1>1. Configured \subseteq Addrs /\ Exact \subseteq Addrs
  BY AddrsAssumption DEF Configured
<1>2. AutoTTL \in Nat /\ TTLs \subseteq Int /\ GraphIds \subseteq Nat \ {0}
  BY TimesAssumption, GraphIdsAssumption
<1>3. CASE r \in Request({"mime"}, Addrs, {0}, {AutoTTL})
  BY <1>2, <1>3 DEF Request, NoRequest
<1>4. CASE r \in Request({"graph"}, Exact, GraphIds, {AutoTTL})
  <2>1. /\ r.kind = "graph" /\ r.addr \in Exact /\ r.gid \in GraphIds /\ r.ttl = AutoTTL
    BY <1>4 DEF Request
  <2> QED
    BY <1>1, <1>2, <2>1 DEF NoRequest
<1>5. CASE r \in Request({"create", "createNamed"}, Configured, {0}, TTLs)
  <2>1. /\ r.kind \in {"create", "createNamed"} /\ r.addr \in Configured
        /\ r.gid = 0 /\ r.ttl \in TTLs
    BY <1>5 DEF Request
  <2>2. r.kind # "none" /\ r.kind # "graph"
    BY <2>1
  <2>3. r.addr \in Addrs /\ r.ttl \in Int
    BY <1>1, <1>2, <2>1
  <2>4. r # NoRequest
    BY <2>2 DEF NoRequest
  <2> QED
    BY <2>1, <2>2, <2>3, <2>4
<1>6. CASE r \in Request({"list", "get"}, Addrs, {0}, {AutoTTL})
  BY <1>2, <1>6 DEF Request, NoRequest
<1> QED
  BY <1>3, <1>4, <1>5, <1>6 DEF Requests

LEMMA BusyRequest ==
    ASSUME TypeOK, NEW p \in Procs, pc[p] # "idle"
    PROVE  op[p] \in Requests
BY DEF TypeOK

LEMMA MeetsType ==
    ASSUME TypeOK, NEW ps, NEW what \in Events
    PROVE  Meets(ps, what) \in [Procs -> SUBSET Events]
BY DEF TypeOK, Meets

-----------------------------------------------------------------------------
(* Types                                                                   *)

LEMMA InitType == Init => TypeOK
BY DEF Init, TypeOK, NoRequest, NoAnswer

\* The tables keep their types in a step of process p.
TablesTyped ==
    /\ mailboxes' \subseteq Mailbox /\ messages' \subseteq Message
    /\ lastBox' \in Nat /\ lastMsg' \in Nat

LEMMA GotoType ==
    ASSUME TypeOK, TablesTyped, NEW p \in Procs, pc[p] # "idle",
           NEW l \in Labels \ {"idle", "dedup"},
           l = "lookup" => op[p].kind \in Stores \cup Reads,
           l = "insertMsg" => op[p].kind \in Stores,
           l \in {"retry", "find"} => op[p].kind \in Reads,
           NEW m \in [Procs -> SUBSET Events], Goto(p, l, m),
           mb' \in [Procs -> Nat]
    PROVE  TypeOK'
BY DEF TypeOK, TablesTyped, Goto, Labels

LEMMA EndType ==
    ASSUME TypeOK, TablesTyped, NEW p \in Procs, pc[p] # "idle",
           NEW s \in {"ok", "conflict", "notFound", "error"},
           NEW ms \in SUBSET Message,
           NEW m \in [Procs -> SUBSET Events], End(p, s, ms, m)
    PROVE  TypeOK'
<1>1. answer' \in Answer
  BY BusyRequest DEF TypeOK, End, Answer
<1>2. /\ pc' = [pc EXCEPT ![p] = "idle"] /\ op' = [op EXCEPT ![p] = NoRequest]
      /\ mb' = [mb EXCEPT ![p] = 0] /\ base' = [base EXCEPT ![p] = {}]
      /\ met' = [m EXCEPT ![p] = {}] /\ UNCHANGED <<now, cleaner>>
  BY DEF End
<1> QED
  BY <1>1, <1>2 DEF TypeOK, TablesTyped

LEMMA SameTables == TypeOK /\ UNCHANGED tables => TablesTyped
BY DEF TypeOK, tables, TablesTyped

LEMMA TypeStep == TypeOK /\ [Next]_vars => TypeOK'
<1> SUFFICES ASSUME TypeOK, [Next]_vars PROVE TypeOK'
  OBVIOUS
<1>1. ASSUME NEW p \in Procs, Begin(p) PROVE TypeOK'
  <2>1. PICK r \in Requests :
          /\ op' = [op EXCEPT ![p] = r]
          /\ pc' = [pc EXCEPT ![p] = FirstStatement(r.kind)]
          /\ base' = [base EXCEPT ![p] = {m \in messages : r.kind \in Reads /\ m.to = r.addr}]
    BY <1>1 DEF Begin
  <2>2. /\ FirstStatement(r.kind) \in {"dedup", "count", "lookup", "insertBox"}
        /\ FirstStatement(r.kind) = "dedup" => r.kind = "graph"
        /\ FirstStatement(r.kind) = "lookup" => r.kind \in Stores \cup Reads
    BY RequestFields DEF FirstStatement, Stores, Reads
  <2>3. r # NoRequest
    BY RequestFields
  <2> QED
    BY <1>1, <2>1, <2>2, <2>3 DEF TypeOK, Begin, tables
<1>2. ASSUME NEW p \in Procs, pc[p] # "idle",
             Dedup(p) \/ Count(p) \/ Lookup(p) \/ InsertBox(p) \/ Retry(p)
                 \/ InsertMsg(p) \/ Find(p)
      PROVE  TypeOK'
  <2> DEFINE r == op[p]
  <2>1. /\ r.kind \in {"mime", "graph", "create", "createNamed", "list", "get"}
        /\ r.addr \in Addrs /\ r.gid \in GraphIds \cup {0} /\ r.ttl \in Int
    BY <1>2, BusyRequest, RequestFields
  <2>2. /\ met \in [Procs -> SUBSET Events] /\ Fault(p) \in [Procs -> SUBSET Events]
        /\ mb \in [Procs -> Nat]
    BY MeetsType DEF TypeOK, Fault, Events
  <2>3. {} \in SUBSET Message /\ {m \in messages : m.box = mb[p]} \in SUBSET Message
    BY DEF TypeOK
  <2>4. WithBox(p) \in {"insertMsg", "find"} /\ (WithBox(p) = "insertMsg" <=> r.kind \in Stores)
    BY DEF WithBox
  <2>5. ASSUME FoundBox(p), UNCHANGED tables, r.kind \in Stores \cup Reads PROVE TypeOK'
    <3>1. PICK b \in BoxOf(p) :
            mb' = [mb EXCEPT ![p] = b.id] /\ Goto(p, WithBox(p), met)
      BY <2>5 DEF FoundBox
    <3>2. mb' \in [Procs -> Nat]
      BY <3>1, <2>2 DEF TypeOK, BoxOf, At, Mailbox
    <3> QED
      BY <1>2, <2>2, <2>4, <2>5, <3>1, <3>2, SameTables, GotoType DEF Labels
  <2>6. CASE Dedup(p)
    <3>1. r.kind \in Stores
      BY <2>6 DEF Dedup, TypeOK, Stores
    <3> QED
      BY <1>2, <2>2, <2>3, <2>6, <3>1, SameTables, GotoType, EndType DEF Dedup, Labels
  <2>7. CASE Count(p)
    BY <1>2, <2>2, <2>3, <2>7, SameTables, GotoType, EndType DEF Count, Labels
  <2>8. CASE Lookup(p)
    <3>1. r.kind \in Stores \cup Reads
      BY <2>8 DEF Lookup, TypeOK
    <3> QED
      BY <1>2, <2>2, <2>3, <2>5, <2>8, <3>1, SameTables, GotoType, EndType DEF Lookup, Labels
  <2>9. ASSUME NEW m \in [Procs -> SUBSET Events], RefusedBox(p, m) PROVE TypeOK'
    BY <1>2, <2>2, <2>3, <2>9, SameTables, GotoType, EndType
       DEF RefusedBox, Retries, Reads, Labels
  <2>10. CASE InsertBox(p)
    <3>1. ASSUME BoxOf(p) = {}, lastBox' = lastBox + 1,
                 mailboxes' = mailboxes \cup
                   {[id |-> NextBoxId, addr |-> r.addr, exp |-> now + r.ttl]},
                 UNCHANGED <<messages, lastMsg>>,
                 NEW ps, NEW m, m = Meets(ps, "created"),
                 IF r.kind \in {"create", "createNamed"}
                 THEN End(p, "ok", {}, m)
                 ELSE mb' = [mb EXCEPT ![p] = NextBoxId] /\ Goto(p, WithBox(p), m)
          PROVE  TypeOK'
      <4>1. m \in [Procs -> SUBSET Events]
        BY <3>1, MeetsType DEF Events
      <4>2. TablesTyped /\ NextBoxId \in Nat
        BY <2>1, <3>1 DEF TypeOK, TablesTyped, NextBoxId, Mailbox
      <4>3. r.kind \notin {"create", "createNamed"} => mb' \in [Procs -> Nat]
        BY <2>2, <3>1, <4>2
      <4>4. r.kind \notin {"create", "createNamed"} => r.kind \in Stores \cup Reads
        BY <2>1 DEF Stores, Reads
      <4> QED
        BY <1>2, <2>3, <2>4, <3>1, <4>1, <4>2, <4>3, <4>4, GotoType, EndType DEF Labels
    <3> QED
      BY <2>2, <2>9, <2>10, <3>1 DEF InsertBox
  <2>11. CASE Retry(p)
    <3>1. r.kind \in Reads
      BY <2>11 DEF Retry, TypeOK
    <3> QED
      BY <1>2, <2>2, <2>3, <2>5, <2>11, <3>1, SameTables, EndType DEF Retry
  <2>12. CASE InsertMsg(p)
    <3>1. CASE UNCHANGED <<messages, lastMsg>>
      BY <1>2, <2>2, <2>3, <2>12, <3>1, SameTables, EndType DEF InsertMsg, tables
    <3>2. ASSUME NEW t \in Dates(p),
                 messages' = messages \cup
                    {[id |-> lastMsg + 1, box |-> mb[p], to |-> r.addr,
                      gid |-> r.gid, recv |-> t]},
                 lastMsg' = lastMsg + 1, End(p, "ok", {}, met)
          PROVE  TypeOK'
      <4>1. t \in Nat
        BY <3>2 DEF TypeOK, Dates
      <4>2. TablesTyped
        BY <2>1, <2>12, <3>2, <4>1 DEF TypeOK, TablesTyped, InsertMsg, Message
      <4> QED
        BY <1>2, <2>2, <2>3, <3>2, <4>2, EndType
    <3> QED
      BY <2>12, <3>1, <3>2 DEF InsertMsg
  <2>13. CASE Find(p)
    BY <1>2, <2>2, <2>3, <2>13, SameTables, EndType DEF Find
  <2> QED
    BY <1>2, <2>6, <2>7, <2>8, <2>10, <2>11, <2>12, <2>13
<1>3. ASSUME NEW p \in Procs,
             Dedup(p) \/ Count(p) \/ Lookup(p) \/ InsertBox(p) \/ Retry(p)
                 \/ InsertMsg(p) \/ Find(p)
      PROVE  pc[p] # "idle"
  BY <1>3 DEF Dedup, Count, Lookup, InsertBox, Retry, InsertMsg, Find
<1>4. ASSUME NEW boxes, Remove(boxes), answer' = NoAnswer, cleaner' \in {"idle", "old"},
             UNCHANGED <<pc, op, mb, base>>
      PROVE  TypeOK'
  <2>1. met' \in [Procs -> SUBSET Events]
    BY <1>4, MeetsType DEF Remove, Events
  <2> QED
    BY <1>4, <2>1 DEF TypeOK, Remove
<1>5. ASSUME NEW a \in Addrs, DeleteMailbox(a) PROVE TypeOK'
  BY <1>4, <1>5 DEF DeleteMailbox, TypeOK
<1>6. ASSUME NEW m \in messages, DeleteMessage(m) PROVE TypeOK'
  BY <1>6 DEF DeleteMessage, TypeOK, procs
<1>7. CASE CleanupExpired
  BY <1>4, <1>7 DEF CleanupExpired
<1>8. CASE CleanupOldMessages
  BY <1>8 DEF CleanupOldMessages, TypeOK, procs
<1>9. CASE Tick
  BY <1>9 DEF Tick, TypeOK, tables, procs
<1>10. CASE Restart
  BY <1>10 DEF Restart, TypeOK, tables, NoRequest
<1>11. CASE UNCHANGED vars
  BY <1>11 DEF vars, TypeOK
<1> QED
  BY <1>1, <1>2, <1>3, <1>5, <1>6, <1>7, <1>8, <1>9, <1>10, <1>11 DEF Next

\* Every variable keeps its type, and no process reaches a statement that its
\* request does not have.
THEOREM TypeCorrect == Spec => []TypeOK
  BY InitType, TypeStep, PTL DEF Spec

-----------------------------------------------------------------------------
(* The inductive invariant                                                 *)

\* The tables: keys are unique and below the sequences, every message is in a
\* mailbox and in the right one.
RowInv ==
    /\ \A b \in mailboxes : b.id <= lastBox
    /\ \A b, c \in mailboxes : b.id = c.id \/ b.addr = c.addr => b = c
    /\ \A m \in messages : m.id <= lastMsg
    /\ EveryMessageHasItsMailbox
    /\ RoutedToOwnMailbox

\* The id a process remembers is an old one: whoever still has it has the
\* address the process was asked for.
BoxInv(p) ==
    pc[p] \in {"insertMsg", "find"} =>
        /\ mb[p] <= lastBox
        /\ \A b \in mailboxes : b.id = mb[p] => b.addr = op[p].addr

\* What a read has to show is in the mailbox it has found.
BaseInv(p) ==
    Busy(p) =>
        /\ \A m \in base[p] : m.to = op[p].addr /\ m.id <= lastMsg
        /\ pc[p] = "find" => \A m \in base[p] \cap messages : m.box = mb[p]

\* What a process takes for granted holds still, or it has met the reason.
MetInv(p) ==
    /\ pc[p] = "count" => op[p].kind = "createNamed"
    /\ pc[p] = "insertBox" =>
          /\ op[p].kind # "get"
          /\ op[p].kind # "create" =>
                BoxOf(p) = {} \/ "created" \in met[p] \/ "fault" \in met[p]
    /\ pc[p] \in {"insertMsg", "find"} => Exists(mb[p]) \/ "removed" \in met[p]
    /\ pc[p] = "retry" =>
          /\ op[p].kind = "list"
          /\ \/ "fault" \in met[p]
             \/ "created" \in met[p] /\ (BoxOf(p) # {} \/ "removed" \in met[p])

OwnInv(p) == BoxInv(p) /\ BaseInv(p) /\ MetInv(p)

\* One StoreGraphMessage at a time, and its message has no row once it has
\* looked, unless that look has failed.
GraphAlone ==
    \A p, q \in Procs :
        Busy(p) /\ Busy(q) /\ op[p].kind = "graph" /\ op[q].kind = "graph" => p = q
Unread(p) == "read" \in Faults /\ "fault" \in met[p]
Unknown(p) ==
    pc[p] \in {"lookup", "insertBox", "insertMsg"} /\ op[p].kind = "graph" =>
        Unread(p) \/ \A m \in messages : m.gid # op[p].gid
GraphInv ==
    /\ "read" \notin Faults => GraphIdUnique
    /\ \A p \in Procs : Unknown(p)

CleanerInv == cleaner = "old" => MsgTTL > 0

IInv ==
    /\ TypeOK /\ RowInv /\ GraphAlone /\ GraphInv /\ CleanerInv
    /\ \A p \in Procs : OwnInv(p)

-----------------------------------------------------------------------------
(* The kinds of change the tables undergo                                  *)

AddsBox(p) ==
    /\ BoxOf(p) = {} /\ lastBox' = lastBox + 1
    /\ mailboxes' = mailboxes \cup
          {[id |-> NextBoxId, addr |-> op[p].addr, exp |-> now + op[p].ttl]}
    /\ UNCHANGED <<messages, lastMsg>>

AddsMsg(p) ==
    /\ ForeignKeyHolds(mb[p]) /\ lastMsg' = lastMsg + 1
    /\ \E t \in Dates(p) :
          messages' = messages \cup
              {[id |-> lastMsg + 1, box |-> mb[p], to |-> op[p].addr,
                gid |-> op[p].gid, recv |-> t]}
    /\ UNCHANGED <<mailboxes, lastBox>>

Shrinks ==
    messages' \subseteq messages /\ UNCHANGED <<mailboxes, lastBox, lastMsg>>

LEMMA RowSame == RowInv /\ Shrinks => RowInv'
BY DEF RowInv, Shrinks, EveryMessageHasItsMailbox, RoutedToOwnMailbox, Exists

LEMMA RowAddsBox ==
    ASSUME TypeOK, RowInv, NEW p \in Procs, AddsBox(p)
    PROVE  RowInv'
<1> DEFINE new == [id |-> NextBoxId, addr |-> op[p].addr, exp |-> now + op[p].ttl]
<1>1. \A b \in mailboxes : b.id \in Nat /\ b.id < new.id /\ b.addr # new.addr
  BY DEF TypeOK, RowInv, Mailbox, AddsBox, BoxOf, At, NextBoxId
<1>2. new.id = lastBox' /\ mailboxes' = mailboxes \cup {new} /\ lastBox \in Nat
  BY DEF AddsBox, NextBoxId, TypeOK
<1>3. \A m \in messages : m.box # new.id
  BY <1>1 DEF RowInv, EveryMessageHasItsMailbox, Exists
<1>4. (\A b \in mailboxes : b.id <= lastBox)'
  BY <1>1, <1>2 DEF RowInv, AddsBox
<1>5. (\A b, c \in mailboxes : b.id = c.id \/ b.addr = c.addr => b = c)'
  BY <1>1, <1>2 DEF RowInv
<1>6. (EveryMessageHasItsMailbox /\ RoutedToOwnMailbox)'
  BY <1>2, <1>3 DEF RowInv, AddsBox, EveryMessageHasItsMailbox, RoutedToOwnMailbox, Exists
<1> QED
  BY <1>4, <1>5, <1>6 DEF RowInv, AddsBox

LEMMA RowAddsMsg ==
    ASSUME TypeOK, RowInv, NEW p \in Procs, BoxInv(p), pc[p] = "insertMsg", AddsMsg(p)
    PROVE  RowInv'
<1>1. PICK t \in Dates(p) :
        messages' = messages \cup
            {[id |-> lastMsg + 1, box |-> mb[p], to |-> op[p].addr,
              gid |-> op[p].gid, recv |-> t]}
  BY DEF AddsMsg
<1>2. (\A m \in messages : m.id <= lastMsg)'
  BY <1>1 DEF TypeOK, Message, RowInv, AddsMsg
<1>3. EveryMessageHasItsMailbox'
  BY <1>1 DEF RowInv, AddsMsg, ForeignKeyHolds, EveryMessageHasItsMailbox, Exists
<1>4. RoutedToOwnMailbox'
  BY <1>1 DEF RowInv, AddsMsg, BoxInv, RoutedToOwnMailbox
<1> QED
  BY <1>2, <1>3, <1>4 DEF RowInv, AddsMsg

LEMMA RowRemove ==
    ASSUME RowInv, NEW boxes \in SUBSET mailboxes, Remove(boxes)
    PROVE  RowInv'
BY DEF RowInv, Remove, EveryMessageHasItsMailbox, RoutedToOwnMailbox, Exists

-----------------------------------------------------------------------------
(* What a process may rely on while another one acts                       *)

\* q stays where it is; it only learns more.
Stays(q) ==
    /\ pc'[q] = pc[q] /\ op'[q] = op[q] /\ mb'[q] = mb[q] /\ base'[q] = base[q]
    /\ met[q] \subseteq met'[q]

LEMMA OwnSame ==
    ASSUME NEW q \in Procs, OwnInv(q), Stays(q), Shrinks
    PROVE  OwnInv(q)'
<1> USE DEF Stays, Shrinks, OwnInv
<1>1. BoxInv(q)' /\ BaseInv(q)'
  BY DEF BoxInv, BaseInv, Busy
<1>2. MetInv(q)'
  BY DEF MetInv, BoxOf, At, Exists
<1> QED
  BY <1>1, <1>2

LEMMA OwnAddsBox ==
    ASSUME TypeOK, NEW q \in Procs, OwnInv(q), Stays(q), NEW p \in Procs, AddsBox(p),
           Busy(q) /\ op[q].addr = op[p].addr => "created" \in met'[q]
    PROVE  OwnInv(q)'
<1> USE DEF Stays, OwnInv
<1> DEFINE new == [id |-> NextBoxId, addr |-> op[p].addr, exp |-> now + op[p].ttl]
<1>1. mailboxes' = mailboxes \cup {new} /\ lastBox' = lastBox + 1
      /\ lastBox \in Nat /\ new.id = lastBox + 1 /\ mb[q] \in Nat
  BY DEF AddsBox, NextBoxId, TypeOK
<1>2. BoxInv(q)'
  BY <1>1 DEF BoxInv
<1>3. BaseInv(q)'
  BY DEF BaseInv, Busy, AddsBox
<1>4. MetInv(q)'
  <2>1. op[q].addr # op[p].addr => BoxOf(q)' = BoxOf(q)
    BY <1>1 DEF BoxOf, At
  <2>2. BoxOf(q) # {} => BoxOf(q)' # {}
    BY <1>1 DEF BoxOf, At
  <2>3. Exists(mb[q]) => Exists(mb[q])'
    BY <1>1 DEF Exists
  <2> QED
    BY <2>1, <2>2, <2>3 DEF MetInv, Busy
<1> QED
  BY <1>2, <1>3, <1>4

LEMMA OwnAddsMsg ==
    ASSUME TypeOK, NEW q \in Procs, OwnInv(q), Stays(q), NEW p \in Procs, AddsMsg(p)
    PROVE  OwnInv(q)'
<1> USE DEF Stays, OwnInv
<1>1. BoxInv(q)' /\ MetInv(q)'
  BY DEF AddsMsg, BoxInv, MetInv, BoxOf, At, Exists
<1>2. BaseInv(q)'
  <2>1. PICK t \in Dates(p) :
          messages' = messages \cup
              {[id |-> lastMsg + 1, box |-> mb[p], to |-> op[p].addr,
                gid |-> op[p].gid, recv |-> t]}
    BY DEF AddsMsg
  <2>2. Busy(q) => base[q] \cap messages' \subseteq messages
    BY <2>1 DEF BaseInv, TypeOK
  <2>3. lastMsg \in Nat /\ lastMsg' = lastMsg + 1 /\ \A m \in base[q] : m.id \in Nat
    BY DEF TypeOK, AddsMsg, Message
  <2> QED
    BY <2>2, <2>3 DEF BaseInv, Busy
<1> QED
  BY <1>1, <1>2

LEMMA OwnRemove ==
    ASSUME TypeOK, NEW q \in Procs, OwnInv(q), NEW boxes \in SUBSET mailboxes,
           Remove(boxes), UNCHANGED <<pc, op, mb, base>>
    PROVE  OwnInv(q)'
<1> USE DEF OwnInv
<1>1. met'[q] = IF Busy(q) /\ BoxOf(q) \cap boxes # {}
                THEN met[q] \cup {"removed"} ELSE met[q]
  BY DEF Remove, Meets
<1>2. BoxInv(q)' /\ BaseInv(q)'
  BY DEF BoxInv, BaseInv, Busy, Remove
<1>3. MetInv(q)'
  <2>1. BoxOf(q) = {} => BoxOf(q)' = {}
    BY DEF BoxOf, At, Remove
  <2>2. Busy(q) /\ BoxOf(q) # {} => BoxOf(q)' # {} \/ "removed" \in met'[q]
    BY <1>1 DEF BoxOf, At, Remove
  <2>3. pc[q] \in {"insertMsg", "find"} /\ Exists(mb[q]) => Exists(mb[q])' \/ "removed" \in met'[q]
    BY <1>1 DEF BoxInv, BoxOf, At, Exists, Busy, Remove
  <2> QED
    BY <1>1, <2>1, <2>2, <2>3 DEF MetInv, Busy
<1> QED
  BY <1>2, <1>3

-----------------------------------------------------------------------------
(* The process that acts                                                   *)

\* What a statement of p leaves of the others
LEMMA OthersStay ==
    ASSUME TypeOK, NEW p \in Procs, NEW m \in [Procs -> SUBSET Events],
           \A q \in Procs : met[q] \subseteq m[q],
           \/ \E l, x : Goto(p, l, m) /\ (mb' = mb \/ mb' = [mb EXCEPT ![p] = x])
           \/ \E s, ms : End(p, s, ms, m),
           NEW q \in Procs, q # p
    PROVE  Stays(q) /\ met'[q] = m[q]
BY DEF Goto, End, Stays, TypeOK

\* A process that has ended relies on nothing.
LEMMA OwnEnd ==
    ASSUME TypeOK, NEW p \in Procs, NEW s, NEW ms, NEW m, End(p, s, ms, m)
    PROVE  OwnInv(p)'
BY DEF End, TypeOK, OwnInv, BoxInv, BaseInv, MetInv, Busy

LEMMA OwnBegin ==
    ASSUME TypeOK, RowInv, NEW p \in Procs, Begin(p)
    PROVE  OwnInv(p)'
<1>1. PICK r \in Requests :
        /\ op' = [op EXCEPT ![p] = r]
        /\ pc' = [pc EXCEPT ![p] = FirstStatement(r.kind)]
        /\ base' = [base EXCEPT ![p] = {m \in messages : r.kind \in Reads /\ m.to = r.addr}]
  BY DEF Begin
<1>2. /\ FirstStatement(r.kind) \in {"dedup", "count", "lookup", "insertBox"}
      /\ FirstStatement(r.kind) = "insertBox" => r.kind = "create"
      /\ FirstStatement(r.kind) = "count" => r.kind = "createNamed"
  BY RequestFields DEF FirstStatement
<1>3. pc'[p] = FirstStatement(r.kind) /\ op'[p] = r
      /\ base'[p] \subseteq {m \in messages : m.to = r.addr}
  BY <1>1 DEF TypeOK
<1>4. BoxInv(p)' /\ MetInv(p)'
  BY <1>2, <1>3 DEF BoxInv, MetInv
<1>5. BaseInv(p)'
  BY <1>2, <1>3 DEF BaseInv, RowInv, Begin, tables
<1> QED
  BY <1>4, <1>5 DEF OwnInv

\* The mailbox a process finds has an old id and its address, and all the
\* messages its read has to show are in it.
LEMMA OwnFound ==
    ASSUME TypeOK, RowInv, NEW p \in Procs, OwnInv(p), pc[p] # "idle",
           FoundBox(p), UNCHANGED tables
    PROVE  OwnInv(p)'
<1>1. PICK b \in BoxOf(p) : mb' = [mb EXCEPT ![p] = b.id] /\ Goto(p, WithBox(p), met)
  BY DEF FoundBox
<1>2. /\ pc'[p] = WithBox(p) /\ WithBox(p) \in {"insertMsg", "find"}
      /\ mb'[p] = b.id /\ op' = op /\ base' = base
      /\ b \in mailboxes /\ b.addr = op[p].addr
  BY <1>1 DEF Goto, WithBox, BoxOf, At, TypeOK
<1>3. UNCHANGED <<mailboxes, messages, lastBox, lastMsg>>
  BY DEF tables
<1>4. BoxInv(p)'
  BY <1>2, <1>3 DEF BoxInv, RowInv
<1>5. BaseInv(p)'
  <2>1. ASSUME NEW m \in base[p] \cap messages PROVE m.box = b.id
    <3>1. m.to = b.addr
      BY <1>2, <2>1 DEF OwnInv, BaseInv, Busy
    <3>2. PICK c \in mailboxes : c.id = m.box
      BY <2>1 DEF RowInv, EveryMessageHasItsMailbox, Exists
    <3>3. c.addr = b.addr
      BY <2>1, <3>1, <3>2 DEF RowInv, RoutedToOwnMailbox
    <3> QED
      BY <1>2, <3>2, <3>3 DEF RowInv
  <2> QED
    BY <1>2, <1>3, <2>1 DEF OwnInv, BaseInv, Busy
<1>6. MetInv(p)'
  BY <1>2, <1>3 DEF MetInv, Exists
<1> QED
  BY <1>4, <1>5, <1>6 DEF OwnInv

\* Going on to a statement that comes before the mailbox is known
LEMMA OwnGoto ==
    ASSUME TypeOK, NEW p \in Procs, OwnInv(p), pc[p] # "idle", UNCHANGED tables,
           NEW l \in {"lookup", "insertBox", "retry"},
           NEW m \in [Procs -> SUBSET Events], Goto(p, l, m),
           l = "insertBox" =>
               /\ op[p].kind # "get"
               /\ BoxOf(p) = {} \/ "created" \in m[p] \/ "fault" \in m[p],
           l = "retry" =>
               /\ op[p].kind = "list"
               /\ \/ "fault" \in m[p]
                  \/ "created" \in m[p] /\ BoxOf(p) # {}
    PROVE  OwnInv(p)'
<1>1. pc'[p] = l /\ op' = op /\ base' = base /\ met' = m
  BY DEF Goto, TypeOK
<1>2. UNCHANGED <<mailboxes, messages, lastBox, lastMsg>> /\ BoxOf(p)' = BoxOf(p)
  BY <1>1 DEF tables, BoxOf, At
<1>3. BoxInv(p)' /\ BaseInv(p)'
  BY <1>1, <1>2 DEF OwnInv, BoxInv, BaseInv, Busy
<1>4. MetInv(p)'
  BY <1>1, <1>2 DEF MetInv
<1> QED
  BY <1>3, <1>4 DEF OwnInv

Acts(p) ==
    \/ Dedup(p) \/ Count(p) \/ Lookup(p) \/ InsertBox(p) \/ Retry(p)
    \/ InsertMsg(p) \/ Find(p)

LEMMA ActsBusy == ASSUME NEW p \in Procs, Acts(p) PROVE pc[p] # "idle"
BY DEF Acts, Dedup, Count, Lookup, InsertBox, Retry, InsertMsg, Find

\* What a statement does to the tables, and what it tells the processes
LEMMA ActsOnTables ==
    ASSUME TypeOK, NEW p \in Procs, Acts(p)
    PROVE  \E m \in [Procs -> SUBSET Events] :
             /\ \A q \in Procs :
                   /\ met[q] \subseteq m[q]
                   /\ "removed" \in m[q] => "removed" \in met[q]
                   /\ q # p /\ ~Busy(q) => m[q] = met[q]
             /\ \/ \E l \in Labels \ {"idle"} : \E x :
                       Goto(p, l, m) /\ (mb' = mb \/ mb' = [mb EXCEPT ![p] = x])
                \/ \E s, ms : End(p, s, ms, m)
             /\ \/ UNCHANGED tables
                \/ /\ pc[p] = "insertBox" /\ AddsBox(p)
                   /\ \A q \in Procs \ {p} :
                         Busy(q) /\ op[q].addr = op[p].addr => "created" \in m[q]
                \/ /\ pc[p] = "insertMsg" /\ AddsMsg(p)
                   /\ \E s, ms : End(p, s, ms, m)
<1>1. /\ met \in [Procs -> SUBSET Events] /\ Fault(p) \in [Procs -> SUBSET Events]
      /\ \A q \in Procs :
            /\ met[q] \subseteq Fault(p)[q]
            /\ "removed" \in Fault(p)[q] => "removed" \in met[q]
            /\ q # p => Fault(p)[q] = met[q]
  BY MeetsType DEF TypeOK, Fault, Events, Meets
<1>2. CASE Dedup(p)
  BY <1>1, <1>2 DEF Dedup, Labels
<1>3. CASE Count(p)
  BY <1>1, <1>3 DEF Count, Labels
<1>4. CASE Lookup(p)
  BY <1>1, <1>4 DEF Lookup, FoundBox, WithBox, Labels
<1>5. CASE InsertBox(p)
  <2>1. ASSUME NEW m \in [Procs -> SUBSET Events], RefusedBox(p, m)
        PROVE  /\ UNCHANGED tables
               /\ \/ \E l \in Labels \ {"idle"} : \E x :
                         Goto(p, l, m) /\ (mb' = mb \/ mb' = [mb EXCEPT ![p] = x])
                  \/ \E s, ms : End(p, s, ms, m)
    BY <2>1 DEF RefusedBox, Labels
  <2>2. CASE RefusedBox(p, met) \/ RefusedBox(p, Fault(p))
    BY <1>1, <2>1, <2>2
  <2>3. CASE ~(RefusedBox(p, met) \/ RefusedBox(p, Fault(p)))
    <3> DEFINE ps == {q \in Procs \ {p} : Busy(q) /\ op[q].addr = op[p].addr}
               m == Meets(ps, "created")
    <3>1. /\ m \in [Procs -> SUBSET Events]
          /\ \A q \in Procs :
                /\ met[q] \subseteq m[q]
                /\ "removed" \in m[q] => "removed" \in met[q]
                /\ q # p /\ ~Busy(q) => m[q] = met[q]
          /\ \A q \in ps : "created" \in m[q]
      BY MeetsType DEF TypeOK, Events, Meets
    <3>2. /\ pc[p] = "insertBox" /\ AddsBox(p)
          /\ \/ End(p, "ok", {}, m)
             \/ mb' = [mb EXCEPT ![p] = NextBoxId] /\ Goto(p, WithBox(p), m)
          /\ WithBox(p) \in Labels \ {"idle"}
      BY <1>5, <2>3 DEF InsertBox, AddsBox, WithBox, Labels
    <3> HIDE DEF m
    <3> QED
      BY <3>1, <3>2
  <2> QED
    BY <2>2, <2>3
<1>6. CASE Retry(p)
  BY <1>1, <1>6 DEF Retry, FoundBox, WithBox, Labels
<1>7. CASE InsertMsg(p)
  BY <1>1, <1>7 DEF InsertMsg, AddsMsg, tables
<1>8. CASE Find(p)
  BY <1>1, <1>8 DEF Find
<1> QED
  BY <1>2, <1>3, <1>4, <1>5, <1>6, <1>7, <1>8 DEF Acts

\* A process that makes a mailbox goes on with its id.
LEMMA OwnMakesBox ==
    ASSUME TypeOK, RowInv, NEW p \in Procs, OwnInv(p), pc[p] = "insertBox",
           AddsBox(p), NEW m, mb' = [mb EXCEPT ![p] = NextBoxId],
           Goto(p, WithBox(p), m)
    PROVE  OwnInv(p)'
<1> DEFINE new == [id |-> NextBoxId, addr |-> op[p].addr, exp |-> now + op[p].ttl]
<1>1. /\ pc'[p] = WithBox(p) /\ WithBox(p) \in {"insertMsg", "find"}
      /\ mb'[p] = new.id /\ op' = op /\ base' = base
      /\ mailboxes' = mailboxes \cup {new} /\ lastBox' = new.id
      /\ messages' = messages /\ lastMsg' = lastMsg
      /\ new.addr = op[p].addr
  BY DEF Goto, WithBox, TypeOK, AddsBox, NextBoxId
<1>2. \A b \in mailboxes : b.id < new.id /\ b.addr # op[p].addr
  BY DEF TypeOK, RowInv, Mailbox, AddsBox, BoxOf, At, NextBoxId
<1>3. new.id \in Nat
  BY DEF TypeOK, NextBoxId
<1>4. BoxInv(p)'
  BY <1>1, <1>2, <1>3 DEF BoxInv
<1>5. BaseInv(p)'
  <2>1. base[p] \cap messages = {}
    <3> SUFFICES ASSUME NEW n \in base[p] \cap messages PROVE FALSE
      OBVIOUS
    <3>1. n.to = op[p].addr
      BY DEF OwnInv, BaseInv, Busy
    <3>2. PICK b \in mailboxes : b.id = n.box
      BY DEF RowInv, EveryMessageHasItsMailbox, Exists
    <3> QED
      BY <1>2, <3>1, <3>2 DEF RowInv, RoutedToOwnMailbox
  <2> QED
    BY <1>1, <2>1 DEF OwnInv, BaseInv, Busy
<1>6. MetInv(p)'
  BY <1>1 DEF MetInv, Exists
<1> QED
  BY <1>4, <1>5, <1>6 DEF OwnInv

LEMMA OwnActs ==
    ASSUME TypeOK, RowInv, NEW p \in Procs, OwnInv(p), Acts(p)
    PROVE  OwnInv(p)'
<1>1. /\ pc[p] # "idle"
      /\ met \in [Procs -> SUBSET Events] /\ Fault(p) \in [Procs -> SUBSET Events]
      /\ "fault" \in Fault(p)[p]
  BY ActsBusy, MeetsType DEF TypeOK, Fault, Events, Meets
<1>2. CASE Dedup(p)
  BY <1>1, <1>2, OwnEnd, OwnGoto DEF Dedup
<1>3. CASE Count(p)
  <2>1. op[p].kind # "get"
    BY <1>3 DEF Count, OwnInv, MetInv
  <2> QED
    BY <1>1, <1>3, <2>1, OwnEnd, OwnGoto DEF Count
<1>4. CASE Lookup(p)
  <2>1. AutoCreates(p) => op[p].kind # "get"
    BY DEF AutoCreates, Stores
  <2> QED
    BY <1>1, <1>4, <2>1, OwnEnd, OwnGoto, OwnFound DEF Lookup
<1>5. CASE InsertBox(p)
  <2>1. ASSUME RefusedBox(p, met), BoxOf(p) # {} PROVE OwnInv(p)'
    <3>1. Retries(p) => "created" \in met[p] \/ "fault" \in met[p]
      BY <1>5, <2>1 DEF OwnInv, MetInv, Retries, InsertBox
    <3> QED
      BY <1>1, <2>1, <3>1, OwnEnd, OwnGoto DEF RefusedBox, Retries
  <2>2. ASSUME RefusedBox(p, Fault(p)) PROVE OwnInv(p)'
    BY <1>1, <2>2, OwnEnd, OwnGoto DEF RefusedBox, Retries
  <2>3. ASSUME AddsBox(p), NEW m,
               \/ End(p, "ok", {}, m)
               \/ mb' = [mb EXCEPT ![p] = NextBoxId] /\ Goto(p, WithBox(p), m)
        PROVE  OwnInv(p)'
    BY <1>5, <2>3, OwnEnd, OwnMakesBox DEF InsertBox
  <2> QED
    BY <1>5, <2>1, <2>2, <2>3 DEF InsertBox, AddsBox
<1>6. CASE Retry(p)
  BY <1>1, <1>6, OwnEnd, OwnFound DEF Retry
<1>7. CASE InsertMsg(p)
  BY <1>7, OwnEnd DEF InsertMsg
<1>8. CASE Find(p)
  BY <1>8, OwnEnd DEF Find
<1> QED
  BY <1>2, <1>3, <1>4, <1>5, <1>6, <1>7, <1>8 DEF Acts

-----------------------------------------------------------------------------
(* The steps                                                               *)

LEMMA NextCases ==
    ASSUME Next
    PROVE  \/ \E p \in Procs : Begin(p) \/ Acts(p)
           \/ \E boxes \in SUBSET mailboxes :
                 Remove(boxes) /\ answer' = NoAnswer /\ UNCHANGED <<pc, op, mb, base>>
           \/ /\ Shrinks /\ answer' = NoAnswer
              /\ UNCHANGED procs
           \/ Restart
<1>1. ASSUME NEW a \in Addrs, DeleteMailbox(a)
      PROVE  \E boxes \in SUBSET mailboxes :
               Remove(boxes) /\ answer' = NoAnswer /\ UNCHANGED <<pc, op, mb, base>>
  BY <1>1 DEF DeleteMailbox, At
<1>2. CASE CleanupExpired
  BY <1>2 DEF CleanupExpired
<1>3. ASSUME \/ \E m \in messages : DeleteMessage(m)
             \/ CleanupOldMessages
             \/ Tick
      PROVE  Shrinks /\ answer' = NoAnswer /\ UNCHANGED procs
  BY <1>3 DEF DeleteMessage, CleanupOldMessages, Tick, Shrinks, tables
<1> QED
  BY <1>1, <1>2, <1>3 DEF Next, Acts

LEMMA RowStep ==
    ASSUME TypeOK, RowInv, \A p \in Procs : OwnInv(p), [Next]_vars
    PROVE  RowInv'
<1>1. CASE Shrinks
  BY <1>1, RowSame
<1>2. ASSUME NEW p \in Procs, Begin(p) PROVE Shrinks
  BY <1>2 DEF Begin, Shrinks, tables
<1>3. ASSUME NEW p \in Procs, Acts(p) PROVE RowInv'
  <2>1. CASE UNCHANGED tables
    BY <1>1, <2>1 DEF tables, Shrinks
  <2>2. CASE AddsBox(p)
    BY <2>2, RowAddsBox
  <2>3. CASE pc[p] = "insertMsg" /\ AddsMsg(p)
    BY <2>3, RowAddsMsg DEF OwnInv
  <2> QED
    BY <1>3, <2>1, <2>2, <2>3, ActsOnTables
<1>4. CASE Restart \/ UNCHANGED vars
  BY <1>1, <1>4 DEF Restart, Shrinks, tables, vars
<1> QED
  BY <1>1, <1>2, <1>3, <1>4, NextCases, RowRemove

LEMMA OwnStep ==
    ASSUME TypeOK, RowInv, \A p \in Procs : OwnInv(p), [Next]_vars, NEW q \in Procs
    PROVE  OwnInv(q)'
<1>1. ASSUME NEW p \in Procs, Begin(p) PROVE OwnInv(q)'
  <2>1. CASE q = p
    BY <1>1, <2>1, OwnBegin
  <2>2. CASE q # p
    <3>1. Stays(q) /\ Shrinks
      BY <1>1, <2>2 DEF Begin, Stays, Shrinks, tables, TypeOK
    <3> QED
      BY <3>1, OwnSame
  <2> QED
    BY <2>1, <2>2
<1>2. ASSUME NEW p \in Procs, Acts(p) PROVE OwnInv(q)'
  <2>1. CASE q = p
    BY <1>2, <2>1, OwnActs
  <2>2. CASE q # p
    <3>1. PICK m \in [Procs -> SUBSET Events] :
            /\ \A r \in Procs : met[r] \subseteq m[r]
            /\ \/ \E l, x : Goto(p, l, m) /\ (mb' = mb \/ mb' = [mb EXCEPT ![p] = x])
               \/ \E s, ms : End(p, s, ms, m)
            /\ \/ UNCHANGED tables
               \/ /\ AddsBox(p)
                  /\ \A r \in Procs \ {p} :
                        Busy(r) /\ op[r].addr = op[p].addr => "created" \in m[r]
               \/ AddsMsg(p)
      BY <1>2, ActsOnTables
    <3>2. Stays(q) /\ met'[q] = m[q]
      BY <2>2, <3>1, OthersStay
    <3>3. CASE UNCHANGED tables
      BY <3>2, <3>3, OwnSame DEF tables, Shrinks
    <3>4. CASE AddsMsg(p)
      BY <3>2, <3>4, OwnAddsMsg
    <3>5. CASE /\ AddsBox(p)
               /\ Busy(q) /\ op[q].addr = op[p].addr => "created" \in m[q]
      BY <3>2, <3>5, OwnAddsBox
    <3> QED
      BY <2>2, <3>1, <3>3, <3>4, <3>5
  <2> QED
    BY <2>1, <2>2
<1>3. CASE Shrinks /\ UNCHANGED procs
  BY <1>3, OwnSame DEF procs, Stays
<1>4. CASE Restart
  BY <1>4 DEF Restart, OwnInv, BoxInv, BaseInv, MetInv, Busy
<1>5. CASE UNCHANGED vars
  BY <1>3, <1>5 DEF vars, Shrinks, procs
<1> QED
  BY <1>1, <1>2, <1>3, <1>4, <1>5, NextCases, OwnRemove

LEMMA GraphAloneStep ==
    ASSUME TypeOK, GraphAlone, [Next]_vars
    PROVE  GraphAlone'
<1>1. ASSUME NEW p \in Procs, Begin(p) PROVE GraphAlone'
  BY <1>1 DEF Begin, GraphIdle, GraphAlone, Busy, TypeOK
<1>2. ASSUME NEW p \in Procs, Acts(p) PROVE GraphAlone'
  <2>1. PICK m : \/ \E l, x : Goto(p, l, m)
                \/ \E s, ms : End(p, s, ms, m)
    BY <1>2, ActsOnTables
  <2> QED
    BY <1>2, <2>1, ActsBusy DEF Goto, End, GraphAlone, Busy, TypeOK
<1>3. CASE UNCHANGED <<pc, op>>
  BY <1>3 DEF GraphAlone, Busy
<1>4. CASE Restart
  BY <1>4 DEF Restart, GraphAlone, Busy
<1> QED
  BY <1>1, <1>2, <1>3, <1>4, NextCases DEF procs, vars

LEMMA UnknownStays ==
    ASSUME NEW q \in Procs, Unknown(q), pc'[q] = pc[q], op'[q] = op[q],
           met[q] \subseteq met'[q], messages' \subseteq messages
    PROVE  Unknown(q)'
BY DEF Unknown, Unread

LEMMA UnknownActs ==
    ASSUME TypeOK, NEW p \in Procs, OwnInv(p), Unknown(p), Acts(p)
    PROVE  Unknown(p)'
<1>1. ASSUME NEW s, NEW ms, NEW m, End(p, s, ms, m) PROVE Unknown(p)'
  BY <1>1 DEF End, Unknown, TypeOK
<1>2. ASSUME NEW l, NEW m, Goto(p, l, m), messages' = messages,
             op[p].kind = "graph" =>
                 \/ "read" \in Faults /\ "fault" \in m[p]
                 \/ \A n \in messages : n.gid # op[p].gid
      PROVE  Unknown(p)'
  BY <1>2 DEF Goto, Unknown, Unread
<1>3. CASE Dedup(p)
  <2>1. "fault" \in Fault(p)[p]
    BY DEF Fault, Meets
  <2> QED
    BY <1>1, <1>2, <1>3, <2>1 DEF Dedup, ReadFault, Known, tables
<1>4. CASE Count(p)
  <2>1. op[p].kind # "graph"
    BY <1>4 DEF Count, OwnInv, MetInv
  <2> QED
    BY <1>1, <1>2, <1>4, <2>1 DEF Count, tables
<1>5. CASE Lookup(p)
  BY <1>1, <1>2, <1>5 DEF Lookup, FoundBox, Unknown, Unread, tables
<1>6. CASE InsertBox(p)
  <2>1. ASSUME NEW q \in SUBSET (Procs \ {p}) PROVE Meets(q, "created")[p] = met[p]
    BY DEF Meets
  <2>2. {q \in Procs \ {p} : Busy(q) /\ op[q].addr = op[p].addr} \in SUBSET (Procs \ {p})
    OBVIOUS
  <2>3. ASSUME NEW m, RefusedBox(p, m) PROVE Unknown(p)'
    BY <1>1, <1>2, <2>3 DEF RefusedBox, Retries, tables
  <2> QED
    BY <1>1, <1>2, <1>6, <2>1, <2>2, <2>3 DEF InsertBox, Unknown, Unread
<1>7. CASE InsertMsg(p)
  BY <1>1, <1>7 DEF InsertMsg
<1>8. CASE Retry(p) \/ Find(p)
  <2>1. op[p].kind # "graph"
    BY <1>8 DEF Retry, Find, TypeOK, Reads
  <2> QED
    BY <1>1, <1>2, <1>8, <2>1 DEF Retry, Find, FoundBox, tables
<1> QED
  BY <1>3, <1>4, <1>5, <1>6, <1>7, <1>8 DEF Acts

LEMMA GraphStep ==
    ASSUME TypeOK, \A p \in Procs : OwnInv(p), GraphAlone, GraphInv, [Next]_vars
    PROVE  GraphInv'
<1> DEFINE Once == "read" \notin Faults => GraphIdUnique
<1>1. Once /\ \A q \in Procs : Unknown(q)
  BY DEF GraphInv
<1> SUFFICES Once' /\ \A q \in Procs : Unknown(q)'
  BY DEF GraphInv
<1>2. messages' \subseteq messages => Once'
  BY <1>1 DEF GraphIdUnique
<1> HIDE DEF Once
<1>3. ASSUME messages' \subseteq messages, UNCHANGED <<pc, op>>,
             \A q \in Procs : met[q] \subseteq met'[q]
      PROVE  Once' /\ \A q \in Procs : Unknown(q)'
  BY <1>1, <1>2, <1>3, UnknownStays
<1>4. ASSUME NEW p \in Procs, Begin(p)
      PROVE  Once' /\ \A q \in Procs : Unknown(q)'
  <2>1. /\ messages' = messages /\ met' = met
        /\ \A q \in Procs \ {p} : pc'[q] = pc[q] /\ op'[q] = op[q]
    BY <1>4 DEF Begin, tables, TypeOK
  <2>2. Unknown(p)'
    <3>1. PICK r \in Requests :
            op' = [op EXCEPT ![p] = r] /\ pc' = [pc EXCEPT ![p] = FirstStatement(r.kind)]
      BY <1>4 DEF Begin
    <3>2. op'[p] = r /\ pc'[p] = FirstStatement(r.kind)
      BY <3>1 DEF TypeOK
    <3> QED
      BY <3>2 DEF Unknown, FirstStatement
  <2> QED
    BY <1>1, <1>2, <2>1, <2>2, UnknownStays
<1>5. ASSUME NEW p \in Procs, Acts(p)
      PROVE  Once' /\ \A q \in Procs : Unknown(q)'
  <2>1. Unknown(p)'
    BY <1>1, <1>5, UnknownActs
  <2>2. \A q \in Procs \ {p} :
            pc'[q] = pc[q] /\ op'[q] = op[q] /\ met[q] \subseteq met'[q]
    <3>1. PICK m \in [Procs -> SUBSET Events] :
            /\ \A q \in Procs : met[q] \subseteq m[q]
            /\ \/ \E l, x : Goto(p, l, m) /\ (mb' = mb \/ mb' = [mb EXCEPT ![p] = x])
               \/ \E s, ms : End(p, s, ms, m)
      BY <1>5, ActsOnTables
    <3> QED
      BY <3>1, OthersStay DEF Stays
  <2>3. CASE messages' \subseteq messages
    BY <1>1, <1>2, <2>1, <2>2, <2>3, UnknownStays
  <2>4. CASE pc[p] = "insertMsg" /\ AddsMsg(p)
    <3>1. PICK new : messages' = messages \cup {new} /\ new.gid = op[p].gid
      <4>1. PICK t \in Dates(p) :
              messages' = messages \cup
                  {[id |-> lastMsg + 1, box |-> mb[p], to |-> op[p].addr,
                    gid |-> op[p].gid, recv |-> t]}
        BY <2>4 DEF AddsMsg
      <4> DEFINE new == [id |-> lastMsg + 1, box |-> mb[p], to |-> op[p].addr,
                         gid |-> op[p].gid, recv |-> t]
      <4>2. messages' = messages \cup {new} /\ new.gid = op[p].gid
        BY <4>1
      <4> HIDE DEF new
      <4> QED
        BY <4>2
    <3>2. op[p].kind = "graph" <=> op[p].gid # 0
      BY <2>4, BusyRequest, RequestFields
    <3>3. "read" \notin Faults /\ op[p].gid # 0 => \A m \in messages : m.gid # op[p].gid
      BY <1>1, <2>4, <3>2 DEF Unknown, Unread
    <3>4. Once'
      BY <1>1, <3>1, <3>3 DEF Once, GraphIdUnique
    <3>5. ASSUME NEW q \in Procs \ {p}, Unknown(q) PROVE Unknown(q)'
      <4>1. CASE pc[q] \in {"lookup", "insertBox", "insertMsg"} /\ op[q].kind = "graph"
        <5>1. op[q].gid # 0
          BY <4>1, BusyRequest, RequestFields
        <5>2. op[p].kind # "graph"
          BY <2>4, <3>5, <4>1 DEF GraphAlone, Busy
        <5> QED
          BY <2>2, <3>1, <3>2, <3>5, <4>1, <5>1, <5>2 DEF Unknown, Unread
      <4>2. CASE ~(pc[q] \in {"lookup", "insertBox", "insertMsg"} /\ op[q].kind = "graph")
        BY <2>2, <3>5, <4>2 DEF Unknown
      <4> QED
        BY <4>1, <4>2
    <3> QED
      BY <1>1, <2>1, <3>4, <3>5
  <2> QED
    BY <1>5, <2>3, <2>4, ActsOnTables DEF tables, AddsBox
<1>6. CASE Restart
  BY <1>2, <1>6 DEF Restart, Unknown, tables
<1>7. ASSUME NEW boxes \in SUBSET mailboxes, Remove(boxes), UNCHANGED <<pc, op>>
      PROVE  Once' /\ \A q \in Procs : Unknown(q)'
  BY <1>3, <1>7 DEF Remove, Meets
<1>8. CASE Shrinks /\ UNCHANGED procs
  BY <1>3, <1>8 DEF Shrinks, procs
<1>9. CASE UNCHANGED vars
  BY <1>3, <1>9 DEF vars
<1> QED
  BY <1>4, <1>5, <1>6, <1>7, <1>8, <1>9, NextCases

LEMMA CleanerStep == CleanerInv /\ [Next]_vars => CleanerInv'
<1> SUFFICES ASSUME CleanerInv, [Next]_vars PROVE CleanerInv'
  OBVIOUS
<1>1. ASSUME NEW p \in Procs, Acts(p) PROVE cleaner' = cleaner
  BY <1>1 DEF Acts, Dedup, Count, Lookup, InsertBox, Retry, InsertMsg, Find,
              FoundBox, RefusedBox, Goto, End
<1>2. ASSUME NEW p \in Procs, Begin(p) PROVE cleaner' = cleaner
  BY <1>2 DEF Begin
<1>3. CASE CleanupExpired \/ CleanupOldMessages \/ Restart
  BY <1>3 DEF CleanupExpired, CleanupOldMessages, Restart, CleanerInv
<1>4. CASE \/ \E a \in Addrs : DeleteMailbox(a)
           \/ \E m \in messages : DeleteMessage(m)
           \/ Tick
           \/ UNCHANGED vars
  BY <1>4 DEF DeleteMailbox, DeleteMessage, Tick, CleanerInv, vars
<1> QED
  BY <1>1, <1>2, <1>3, <1>4 DEF Next, Acts, CleanerInv

\* The inductive invariant holds for every number of processes, addresses and
\* rows, and whatever statements may fail.
THEOREM IInvHolds == Spec => []IInv
<1>1. Init => IInv
  <2> SUFFICES ASSUME Init PROVE IInv
    OBVIOUS
  <2>1. RowInv /\ GraphAlone /\ GraphInv /\ CleanerInv
    BY DEF Init, CleanerInv, RowInv, EveryMessageHasItsMailbox, RoutedToOwnMailbox,
           GraphAlone, GraphInv, GraphIdUnique, Unknown, Busy
  <2>2. ASSUME NEW p \in Procs PROVE OwnInv(p)
    BY DEF Init, OwnInv, BoxInv, BaseInv, MetInv, Busy
  <2> QED
    BY <2>1, <2>2, InitType DEF IInv
<1>2. IInv /\ [Next]_vars => IInv'
  BY TypeStep, RowStep, OwnStep, GraphAloneStep, GraphStep, CleanerStep DEF IInv
<1> QED
  BY <1>1, <1>2, PTL DEF Spec

\* No message outlives its mailbox: the foreign key closes the gap between
\* StoreMessage's lookup and its insert.
THEOREM EveryMessageHasItsMailboxHolds == Spec => []EveryMessageHasItsMailbox
  BY IInvHolds, PTL DEF IInv, RowInv

\* Every message is in the mailbox of the address it was sent to, also when
\* that mailbox was deleted and made again while the message was on its way.
THEOREM RoutedToOwnMailboxHolds == Spec => []RoutedToOwnMailbox
  BY IInvHolds, PTL DEF IInv, RowInv

\* A Graph message has at most one row, provided that reads succeed: the
\* deduplication drops the error of its count.
THEOREM GraphIdUniqueHolds ==
    ASSUME "read" \notin Faults
    PROVE  Spec => []GraphIdUnique
<1>1. IInv => GraphIdUnique
  BY DEF IInv, GraphInv
<1> QED
  BY <1>1, IInvHolds, PTL

\* A Graph message gets a second row only from a store whose own look for the
\* first one failed, whatever else happens beside it.
THEOREM DoubledOnlyUnreadHolds == Spec => DoubledOnlyUnread
<1> DEFINE Excused(m) == \E p \in Procs :
             Busy(p) /\ op[p].gid = m.gid /\ "fault" \in met[p]
           Doubles(m) == m.gid # 0 /\ \E n \in messages : n.gid = m.gid
<1>1. IInv /\ [Next]_vars =>
          [\A m \in messages' \ messages : Doubles(m) => Excused(m)]_vars
  <2> SUFFICES ASSUME IInv, Next, NEW m \in messages' \ messages, Doubles(m)
               PROVE  Excused(m)
    BY DEF vars
  <2>1. PICK p \in Procs : Acts(p)
    BY NextCases DEF Begin, tables, Remove, Shrinks, Restart
  <2>2. pc[p] = "insertMsg" /\ AddsMsg(p)
    BY <2>1, ActsOnTables DEF IInv, tables, AddsBox
  <2>3. m.gid = op[p].gid
    BY <2>2 DEF AddsMsg
  <2>4. op[p].kind = "graph"
    BY <2>2, <2>3, BusyRequest, RequestFields DEF IInv
  <2> QED
    BY <2>2, <2>3, <2>4 DEF IInv, GraphInv, Unknown, Unread, Busy
<1> QED
  BY <1>1, IInvHolds, PTL DEF Spec, DoubledOnlyUnread

-----------------------------------------------------------------------------
(* Answers and removals                                                    *)

\* Only a process that ends gives an answer.
LEMMA AnswerCases ==
    ASSUME [Next]_vars, answer' # NoAnswer
    PROVE  UNCHANGED vars \/ \E p \in Procs : Acts(p)
BY NextCases DEF Begin, Restart

LEMMA ErrorStep ==
    ASSUME TypeOK, NEW p \in Procs, OwnInv(p), Acts(p)
    PROVE  ErrorsAreExplained'
<1> DEFINE Explained(m) ==
             \/ "fault" \in m[p]
             \/ op[p].kind \in Stores /\ m[p] # {}
             \/ op[p].kind = "list" /\ {"created", "removed"} \subseteq m[p]
             \/ op[p].kind = "createNamed" /\ "created" \in m[p]
             \/ op[p].kind = "create"
<1>1. ASSUME NEW s, NEW ms, NEW m, End(p, s, ms, m), s = "error" => Explained(m)
      PROVE  ErrorsAreExplained'
  <2>1. answer' = [req |-> op[p], status |-> s, shown |-> ms,
                   base |-> base[p], met |-> m[p]]
    BY <1>1 DEF End
  <2> QED
    BY <1>1, <2>1 DEF ErrorsAreExplained
<1>2. ASSUME NEW l, NEW m, Goto(p, l, m) PROVE ErrorsAreExplained'
  BY <1>2 DEF Goto, ErrorsAreExplained, NoAnswer
<1>3. Explained(Fault(p))
  BY DEF Fault, Meets
<1>4. CASE Dedup(p)
  BY <1>1, <1>2, <1>4 DEF Dedup
<1>5. CASE Count(p)
  BY <1>1, <1>2, <1>5 DEF Count
<1>6. CASE Lookup(p)
  BY <1>1, <1>2, <1>3, <1>6 DEF Lookup, FoundBox
<1>7. CASE InsertBox(p)
  <2>1. BoxOf(p) # {} /\ ~Retries(p) => Explained(met)
    <3>1. pc[p] = "insertBox" /\ op[p].kind \in {"mime", "graph", "create", "createNamed", "list", "get"}
      BY <1>7, BusyRequest, RequestFields DEF InsertBox
    <3> QED
      BY <3>1 DEF OwnInv, MetInv, Retries, Stores
  <2>2. CASE BoxOf(p) # {} /\ RefusedBox(p, met)
    BY <1>1, <1>2, <2>1, <2>2 DEF RefusedBox
  <2>3. CASE RefusedBox(p, Fault(p))
    BY <1>1, <1>2, <1>3, <2>3 DEF RefusedBox
  <2>4. ASSUME NEW m, End(p, "ok", {}, m) \/ Goto(p, WithBox(p), m)
        PROVE  ErrorsAreExplained'
    BY <1>1, <1>2, <2>4
  <2> QED
    BY <1>7, <2>2, <2>3, <2>4 DEF InsertBox
<1>8. CASE Retry(p)
  <2>1. BoxOf(p) = {} => Explained(met)
    BY <1>8 DEF Retry, OwnInv, MetInv
  <2> QED
    BY <1>1, <1>2, <1>3, <1>8, <2>1 DEF Retry, FoundBox
<1>9. CASE InsertMsg(p)
  <2>1. ~ForeignKeyHolds(mb[p]) => Explained(met)
    BY <1>9 DEF InsertMsg, OwnInv, MetInv, ForeignKeyHolds, TypeOK
  <2> QED
    BY <1>1, <1>3, <1>9, <2>1 DEF InsertMsg
<1>10. CASE Find(p)
  BY <1>1, <1>3, <1>10 DEF Find
<1> QED
  BY <1>4, <1>5, <1>6, <1>7, <1>8, <1>9, <1>10 DEF Acts

\* A request fails only for a reason: whatever the schedule, one that nobody
\* disturbs and whose statements work is not answered with an error.
THEOREM ErrorsAreExplainedHolds == Spec => []ErrorsAreExplained
<1>1. Init => ErrorsAreExplained
  BY DEF Init, ErrorsAreExplained, NoAnswer
<1>2. IInv /\ ErrorsAreExplained /\ [Next]_vars => ErrorsAreExplained'
  <2> SUFFICES ASSUME IInv, ErrorsAreExplained, [Next]_vars PROVE ErrorsAreExplained'
    OBVIOUS
  <2>1. CASE answer' = NoAnswer
    BY <2>1 DEF ErrorsAreExplained, NoAnswer
  <2>2. CASE UNCHANGED vars
    BY <2>2 DEF vars, ErrorsAreExplained
  <2>3. ASSUME NEW p \in Procs, Acts(p) PROVE ErrorsAreExplained'
    BY <2>3, ErrorStep DEF IInv
  <2> QED
    BY <2>1, <2>2, <2>3, AnswerCases
<1> QED
  BY <1>1, <1>2, IInvHolds, PTL DEF Spec

LEMMA ReadStep ==
    ASSUME TypeOK, RowInv, NEW p \in Procs, OwnInv(p), Acts(p)
    PROVE  ReadsAreComplete'
<1>1. ASSUME NEW s, NEW ms, NEW m, End(p, s, ms, m), s # "ok" \/ op[p].kind \notin Reads
      PROVE  ReadsAreComplete'
  <2>1. answer' = [req |-> op[p], status |-> s, shown |-> ms,
                   base |-> base[p], met |-> m[p]]
    BY <1>1 DEF End
  <2> QED
    BY <1>1, <2>1 DEF ReadsAreComplete
<1>2. ASSUME NEW l, NEW m, Goto(p, l, m) PROVE ReadsAreComplete'
  BY <1>2 DEF Goto, ReadsAreComplete, NoAnswer
<1>3. CASE Dedup(p)
  <2>1. op[p].kind = "graph"
    BY <1>3 DEF Dedup, TypeOK
  <2> QED
    BY <1>1, <1>2, <1>3, <2>1 DEF Dedup, Reads
<1>4. CASE Count(p)
  BY <1>1, <1>2, <1>4 DEF Count
<1>5. CASE Lookup(p)
  BY <1>1, <1>2, <1>5 DEF Lookup, FoundBox
<1>6. CASE InsertBox(p)
  <2>1. op[p].kind \in {"create", "createNamed"} => op[p].kind \notin Reads
    BY DEF Reads
  <2> QED
    BY <1>1, <1>2, <1>6, <2>1 DEF InsertBox, RefusedBox
<1>7. CASE Retry(p)
  BY <1>1, <1>2, <1>7 DEF Retry, FoundBox
<1>8. CASE InsertMsg(p)
  <2>1. op[p].kind \notin Reads
    BY <1>8 DEF InsertMsg, TypeOK, Stores, Reads
  <2> QED
    BY <1>1, <1>8, <2>1 DEF InsertMsg
<1>9. CASE Find(p)
  <2> DEFINE shown == {m \in messages : m.box = mb[p]}
  <2>1. messages' = messages
    BY <1>9 DEF Find, tables
  <2>2. ASSUME NEW m \in shown PROVE m.to = op[p].addr
    <3>1. PICK b \in mailboxes : b.id = m.box
      BY DEF RowInv, EveryMessageHasItsMailbox, Exists
    <3> QED
      BY <1>9, <3>1 DEF Find, OwnInv, BoxInv, RowInv, RoutedToOwnMailbox
  <2>3. base[p] \cap messages \subseteq shown
    BY <1>9 DEF Find, OwnInv, BaseInv, Busy
  <2>4. CASE End(p, "ok", shown, met)
    <3>1. answer' = [req |-> op[p], status |-> "ok", shown |-> shown,
                     base |-> base[p], met |-> met[p]]
      BY <2>4 DEF End
    <3> QED
      BY <2>1, <2>2, <2>3, <3>1 DEF ReadsAreComplete
  <2>5. ASSUME NEW s, End(p, s, {}, Fault(p)) PROVE ReadsAreComplete'
    <3>1. answer' = [req |-> op[p], status |-> s, shown |-> {},
                     base |-> base[p], met |-> Fault(p)[p]]
      BY <2>5 DEF End
    <3>2. "fault" \in Fault(p)[p]
      BY DEF Fault, Meets
    <3> QED
      BY <3>1, <3>2 DEF ReadsAreComplete
  <2> QED
    BY <1>9, <2>4, <2>5 DEF Find
<1> QED
  BY <1>3, <1>4, <1>5, <1>6, <1>7, <1>8, <1>9 DEF Acts

\* A successful read shows all the mail of its address, and no other, unless
\* its own statement failed: ListMessages drops the error of its second one.
THEOREM ReadsAreCompleteHolds == Spec => []ReadsAreComplete
<1>1. Init => ReadsAreComplete
  BY DEF Init, ReadsAreComplete, NoAnswer
<1>2. IInv /\ ReadsAreComplete /\ [Next]_vars => ReadsAreComplete'
  <2> SUFFICES ASSUME IInv, ReadsAreComplete, [Next]_vars PROVE ReadsAreComplete'
    OBVIOUS
  <2>1. CASE answer' = NoAnswer
    BY <2>1 DEF ReadsAreComplete, NoAnswer
  <2>2. CASE UNCHANGED vars
    BY <2>2 DEF vars, ReadsAreComplete
  <2>3. ASSUME NEW p \in Procs, Acts(p) PROVE ReadsAreComplete'
    BY <2>3, ReadStep DEF IInv
  <2> QED
    BY <2>1, <2>2, <2>3, AnswerCases
<1> QED
  BY <1>1, <1>2, IInvHolds, PTL DEF Spec

\* Mail goes only by right: no schedule of the handlers and the cleaner takes a
\* message that nobody deleted and that is not due.
THEOREM MailStaysUntilDueHolds == Spec => MailStaysUntilDue
<1>1. IInv /\ [Next]_vars => [\A m \in messages \ messages' : GoneByRight(m)]_vars
  <2> SUFFICES ASSUME IInv, Next, NEW m \in messages \ messages'
               PROVE  GoneByRight(m)
    BY DEF vars
  <2>1. ASSUME NEW p \in Procs, Begin(p) \/ Acts(p) PROVE FALSE
    BY <2>1, ActsOnTables DEF Begin, IInv, tables, AddsBox, AddsMsg
  <2>2. ASSUME NEW boxes \in SUBSET mailboxes, Remove(boxes)
        PROVE  \E b \in boxes : b.addr = m.to
    BY <2>2 DEF Remove, IInv, RowInv, RoutedToOwnMailbox
  <2>3. ASSUME NEW a \in Addrs, DeleteMailbox(a) PROVE GoneByRight(m)
    <3>1. a = m.to
      BY <2>2, <2>3 DEF DeleteMailbox, At
    <3> QED
      BY <2>3, <3>1 DEF GoneByRight
  <2>4. ASSUME NEW n \in messages, DeleteMessage(n) PROVE GoneByRight(m)
    <3>1. n = m
      BY <2>4 DEF DeleteMessage
    <3> QED
      BY <2>4, <3>1 DEF GoneByRight
  <2>5. CASE CleanupExpired
    BY <2>2, <2>5 DEF CleanupExpired, GoneByRight, At
  <2>6. CASE CleanupOldMessages
    BY <2>6 DEF CleanupOldMessages, TooOld, GoneByRight, IInv, CleanerInv
  <2>7. CASE Tick \/ Restart
    BY <2>7 DEF Tick, Restart, tables
  <2> QED
    BY <2>1, <2>3, <2>4, <2>5, <2>6, <2>7 DEF Next, Acts
<1> QED
  BY <1>1, IInvHolds, PTL DEF Spec, MailStaysUntilDue

-----------------------------------------------------------------------------
(* The refinement of Mailboxes                                             *)

\* A process that is asked nothing has met nothing.
IdleInv == \A p \in Procs : ~Busy(p) => met[p] = {}

LEMMA IdleStep == TypeOK /\ IdleInv /\ [Next]_vars => IdleInv'
<1> SUFFICES ASSUME TypeOK, IdleInv, [Next]_vars, NEW q \in Procs, ~Busy(q)'
             PROVE  met'[q] = {}
  BY DEF IdleInv
<1>1. ASSUME NEW p \in Procs, Begin(p) PROVE met'[q] = {}
  <2>1. PICK r \in Requests : pc' = [pc EXCEPT ![p] = FirstStatement(r.kind)]
    BY <1>1 DEF Begin
  <2>2. FirstStatement(r.kind) # "idle"
    BY DEF FirstStatement
  <2> QED
    BY <1>1, <2>1, <2>2 DEF Begin, IdleInv, Busy, TypeOK
<1>2. ASSUME NEW p \in Procs, Acts(p) PROVE met'[q] = {}
  <2>1. PICK m \in [Procs -> SUBSET Events] :
          /\ \A r \in Procs :
                /\ met[r] \subseteq m[r]
                /\ r # p /\ ~Busy(r) => m[r] = met[r]
          /\ \/ \E l \in Labels \ {"idle"} : \E x :
                   Goto(p, l, m) /\ (mb' = mb \/ mb' = [mb EXCEPT ![p] = x])
             \/ \E s, ms : End(p, s, ms, m)
    BY <1>2, ActsOnTables
  <2>2. CASE q # p
    BY <2>1, <2>2, OthersStay DEF Stays, IdleInv, Busy
  <2>3. CASE q = p
    BY <2>1, <2>3 DEF Goto, End, Busy, TypeOK
  <2> QED
    BY <2>2, <2>3
<1>3. ASSUME NEW boxes, Remove(boxes), UNCHANGED pc PROVE met'[q] = {}
  BY <1>3 DEF Remove, Meets, IdleInv, Busy
<1>4. CASE UNCHANGED procs \/ UNCHANGED vars \/ Restart
  BY <1>4 DEF procs, vars, Restart, IdleInv, Busy
<1> QED
  BY <1>1, <1>2, <1>3, <1>4, NextCases

LEMMA InitIdle == Init => IdleInv
BY DEF Init, IdleInv

\* A process that goes on has told nobody anything, and has lost no mailbox by
\* its own statement.
LEMMA GotoTells ==
    ASSUME TypeOK, NEW p \in Procs, pc[p] # "idle", NEW l, l # "idle",
           NEW m \in [Procs -> SUBSET Events], Goto(p, l, m),
           \A q \in Procs : "removed" \in m[q] <=> "removed" \in met[q]
    PROVE  Told' = NoAnswer /\ UNCHANGED <<op, Bereft>>
<1>1. \A q \in Procs : Busy(q)' <=> Busy(q)
  BY DEF Goto, Busy, TypeOK
<1>2. met' = m /\ op' = op /\ answer' = NoAnswer
  BY DEF Goto
<1> QED
  BY <1>1, <1>2 DEF Told, Bereft

LEMMA EndTells ==
    ASSUME TypeOK, NEW p \in Procs, pc[p] # "idle", NEW s, s # "none", NEW ms,
           NEW m \in [Procs -> SUBSET Events], End(p, s, ms, m),
           \A q \in Procs : "removed" \in m[q] <=> "removed" \in met[q]
    PROVE  MB!Tell(p, s, {Seen(n) : n \in ms}, "fault" \in m[p])
<1>1. /\ answer' = [req |-> op[p], status |-> s, shown |-> ms,
                    base |-> base[p], met |-> m[p]]
      /\ op' = [op EXCEPT ![p] = NoRequest]
  BY DEF End
<1>2. answer' # NoAnswer
  BY <1>1 DEF NoAnswer
<1>3. Told' = [req |-> op[p], status |-> s, shown |-> {Seen(n) : n \in ms},
               hurt |-> "fault" \in m[p]]
  BY <1>1, <1>2 DEF Told
<1>4. Bereft' = Bereft \ {p}
  <2>1. \A q \in Procs : Busy(q)' <=> Busy(q) /\ q # p
    BY DEF End, Busy, TypeOK
  <2>2. \A q \in Procs \ {p} : met'[q] = m[q]
    BY DEF End
  <2> QED
    BY <2>1, <2>2 DEF Bereft
<1>5. op[p] # NoRequest
  BY DEF TypeOK
<1> QED
  BY <1>1, <1>3, <1>4, <1>5 DEF MB!Tell, MB!Waits

\* An address has a mailbox exactly if the table has a row for it, and its mail
\* is what the rows of that mailbox show.
LEMMA OwnedBox == ASSUME NEW p PROVE op[p].addr \in Owned <=> BoxOf(p) # {}
BY DEF Owned, BoxOf, At

LEMMA KnownSeen == ASSUME NEW p PROVE MB!Known(op[p].gid) <=> Known(p)
<1>1. \A m \in messages : Seen(m).gid = m.gid
  BY DEF Seen
<1> QED
  BY <1>1 DEF MB!Known, Known, SeenMail

LEMMA SeenOfBox ==
    ASSUME RowInv, NEW b \in mailboxes
    PROVE  {Seen(m) : m \in {n \in messages : n.box = b.id}} = MB!MailOf(b.addr)
<1>1. ASSUME NEW m \in messages PROVE m.box = b.id <=> m.to = b.addr
  <2>1. PICK c \in mailboxes : c.id = m.box
    BY DEF RowInv, EveryMessageHasItsMailbox, Exists
  <2>2. c.addr = m.to
    BY <2>1 DEF RowInv, RoutedToOwnMailbox
  <2> QED
    BY <2>1, <2>2 DEF RowInv
<1>2. \A m \in messages : Seen(m).to = m.to
  BY DEF Seen
<1> QED
  BY <1>1, <1>2 DEF MB!MailOf, SeenMail

\* The answers of Mailboxes are among its steps.
LEMMA AnswerIsStep ==
    ASSUME NEW p \in Procs, NEW x, NEW S,
           \/ MB!Create(p, x \in S) \/ MB!Store(p, x \in S) \/ MB!StoredBefore(p, x \in S)
           \/ MB!Read(p, x \in S) \/ MB!Refuse(p, x \in S)
    PROVE  MB!Next
<1> DEFINE hurt == x \in S
<1>1. hurt \in BOOLEAN
  OBVIOUS
<1>2. \/ MB!Create(p, hurt) \/ MB!Store(p, hurt) \/ MB!StoredBefore(p, hurt)
      \/ MB!Read(p, hurt) \/ MB!Refuse(p, hurt)
  OBVIOUS
<1> HIDE DEF hurt
<1> QED
  BY <1>1, <1>2 DEF MB!Next

\* Every statement is a step of Mailboxes: most tell nobody anything and leave
\* the mailboxes alone, and one that ends its process is the whole request.
LEMMA ActsMaps ==
    ASSUME IInv, NEW p \in Procs, Acts(p)
    PROVE  MB!Next
<1> DEFINE r == op[p]
<1>1. /\ TypeOK /\ RowInv /\ OwnInv(p) /\ Unknown(p) /\ pc[p] # "idle"
      /\ r.kind \in {"mime", "graph", "create", "createNamed", "list", "get"}
      /\ r.kind = "graph" <=> r.gid # 0
  BY ActsBusy, BusyRequest, RequestFields DEF IInv, GraphInv
<1>2. /\ met \in [Procs -> SUBSET Events] /\ Fault(p) \in [Procs -> SUBSET Events]
      /\ "fault" \in Fault(p)[p]
      /\ \A q \in Procs : "removed" \in Fault(p)[q] <=> "removed" \in met[q]
  BY <1>1, MeetsType DEF TypeOK, Fault, Events, Meets
<1>3. /\ \A S : S \subseteq S
      /\ {Seen(n) : n \in {}} = {}
      /\ \A x : ("fault" \in x) \in BOOLEAN
  OBVIOUS
<1>4. ASSUME NEW l, l # "idle", NEW m \in {met, Fault(p)}, Goto(p, l, m), UNCHANGED tables
      PROVE  MB!Next
  <2>1. Told' = NoAnswer /\ UNCHANGED <<op, Bereft>>
    BY <1>1, <1>2, <1>4, GotoTells
  <2>2. UNCHANGED <<Owned, SeenMail>>
    BY <1>4 DEF tables, Owned, SeenMail
  <2> QED
    BY <2>1, <2>2 DEF MB!Next, MB!Drop
<1>5. ASSUME FoundBox(p), UNCHANGED tables PROVE MB!Next
  BY <1>4, <1>5 DEF FoundBox, WithBox
<1>6. ASSUME NEW s, s # "none", NEW ms, NEW m \in {met, Fault(p)}, End(p, s, ms, m)
      PROVE  MB!Tell(p, s, {Seen(n) : n \in ms}, "fault" \in m[p])
  BY <1>1, <1>2, <1>6, EndTells
<1>7. ASSUME NEW s, s # "none", NEW m \in {met, Fault(p)}, End(p, s, {}, m)
      PROVE  MB!Tell(p, s, {}, "fault" \in m[p])
  BY <1>3, <1>6, <1>7
<1>8. UNCHANGED tables => UNCHANGED <<Owned, SeenMail>>
  BY DEF tables, Owned, SeenMail
<1>9. ASSUME NEW m \in {met, Fault(p)}, End(p, "error", {}, m), UNCHANGED tables
      PROVE  MB!Next
  BY <1>7, <1>8, <1>9, AnswerIsStep DEF MB!Refuse
<1>10. CASE Dedup(p)
  <2>1. CASE Known(p) /\ End(p, "ok", {}, met)
    <3>1. r.kind = "graph" /\ MB!Known(r.gid) /\ UNCHANGED <<Owned, SeenMail>>
      BY <1>1, <1>8, <1>10, <2>1, KnownSeen DEF Dedup, TypeOK
    <3> QED
      BY <1>7, <2>1, <3>1, AnswerIsStep DEF MB!StoredBefore
  <2> QED
    BY <1>4, <1>10, <2>1 DEF Dedup
<1>11. CASE Count(p)
  <2>1. CASE BoxOf(p) # {} /\ End(p, "conflict", {}, met)
    <3>1. r.kind = "createNamed" /\ r.addr \in Owned /\ UNCHANGED <<Owned, SeenMail>>
      BY <1>1, <1>8, <1>11, <2>1, OwnedBox DEF Count, OwnInv, MetInv
    <3> QED
      BY <1>7, <2>1, <3>1, AnswerIsStep DEF MB!Refuse
  <2> QED
    BY <1>4, <1>11, <2>1 DEF Count
<1>12. CASE Lookup(p)
  <2>1. CASE BoxOf(p) = {} /\ ~AutoCreates(p) /\ End(p, "notFound", {}, met)
    <3>1. r.kind \in {"list", "get"} /\ r.addr \notin Owned /\ UNCHANGED <<Owned, SeenMail>>
      BY <1>1, <1>8, <1>12, <2>1, OwnedBox DEF Lookup, AutoCreates, Stores, Reads, TypeOK
    <3> QED
      BY <1>7, <2>1, <3>1, AnswerIsStep DEF MB!Refuse
  <2> QED
    BY <1>4, <1>5, <1>9, <1>12, <2>1 DEF Lookup
<1>13. CASE InsertBox(p)
  <2>1. ASSUME NEW m \in {met, Fault(p)}, RefusedBox(p, m) PROVE MB!Next
    BY <1>4, <1>9, <2>1 DEF RefusedBox
  <2>2. CASE ~(RefusedBox(p, met) \/ RefusedBox(p, Fault(p)))
    <3> DEFINE m == Meets({q \in Procs \ {p} : Busy(q) /\ op[q].addr = op[p].addr}, "created")
    <3>1. /\ AddsBox(p)
          /\ IF r.kind \in {"create", "createNamed"}
             THEN End(p, "ok", {}, m)
             ELSE mb' = [mb EXCEPT ![p] = NextBoxId] /\ Goto(p, WithBox(p), m)
      BY <1>13, <2>2 DEF InsertBox, AddsBox
    <3>2. /\ m \in [Procs -> SUBSET Events]
          /\ \A q \in Procs : "removed" \in m[q] <=> "removed" \in met[q]
      BY <1>1, <1>2, MeetsType DEF Events, Meets
    <3>3. r.addr \notin Owned /\ Owned' = Owned \cup {r.addr} /\ SeenMail' = SeenMail
      <4>1. BoxOf(p) = {} /\ messages' = messages
        BY <3>1 DEF AddsBox
      <4>2. PICK new : mailboxes' = mailboxes \cup {new} /\ new.addr = r.addr
        <5> DEFINE new == [id |-> NextBoxId, addr |-> r.addr, exp |-> now + r.ttl]
        <5>1. mailboxes' = mailboxes \cup {new} /\ new.addr = r.addr
          BY <3>1 DEF AddsBox
        <5> HIDE DEF new
        <5> QED
          BY <5>1
      <4> QED
        BY <4>1, <4>2, OwnedBox DEF Owned, SeenMail
    <3> HIDE DEF m
    <3>4. CASE r.kind \in {"create", "createNamed"}
      <4>1. MB!Tell(p, "ok", {Seen(n) : n \in {}}, "fault" \in m[p])
        BY <1>1, <3>1, <3>2, <3>4, EndTells
      <4>2. MB!Tell(p, "ok", {}, "fault" \in m[p])
        BY <1>3, <4>1
      <4> QED
        BY <3>3, <3>4, <4>2, AnswerIsStep DEF MB!Create
    <3>5. CASE r.kind \notin {"create", "createNamed"}
      <4>1. Told' = NoAnswer /\ UNCHANGED <<op, Bereft>>
        BY <1>1, <3>1, <3>2, <3>5, GotoTells DEF WithBox
      <4>2. r.kind \in {"mime", "graph", "list"}
        BY <1>1, <1>13, <3>5 DEF InsertBox, OwnInv, MetInv
      <4> QED
        BY <3>3, <4>1, <4>2 DEF MB!Next, MB!Open
    <3> QED
      BY <3>4, <3>5
  <2> QED
    BY <2>1, <2>2
<1>14. CASE Retry(p)
  BY <1>4, <1>5, <1>9, <1>14 DEF Retry
<1>15. CASE InsertMsg(p)
  <2>1. ASSUME NEW m \in {met, Fault(p)}, End(p, "error", {}, m), UNCHANGED <<messages, lastMsg>>
        PROVE  MB!Next
    BY <1>9, <1>15, <2>1 DEF InsertMsg, tables
  <2>2. ASSUME NEW t \in Dates(p), ForeignKeyHolds(mb[p]),
               messages' = messages \cup
                   {[id |-> lastMsg + 1, box |-> mb[p], to |-> r.addr,
                     gid |-> r.gid, recv |-> t]},
               End(p, "ok", {}, met)
        PROVE  MB!Next
    <3> DEFINE new == [id |-> lastMsg + 1, box |-> mb[p], to |-> r.addr,
                       gid |-> r.gid, recv |-> t]
    <3>1. MB!Tell(p, "ok", {}, "fault" \in met[p])
      BY <1>7, <2>2
    <3>2. r.kind \in {"mime", "graph"}
      BY <1>1, <1>15 DEF InsertMsg, TypeOK, Stores
    <3>3. r.addr \in Owned /\ Owned' = Owned
      BY <1>1, <1>15, <2>2 DEF InsertMsg, ForeignKeyHolds, Exists, OwnInv, BoxInv, Owned
    <3>4. r.kind = "graph" /\ MB!Known(r.gid) => "fault" \in met[p]
      BY <1>1, <1>15, KnownSeen DEF InsertMsg, Unknown, Unread, Known
    <3>5. /\ SeenMail' = SeenMail \cup {Seen(new)}
          /\ Seen(new).to = r.addr /\ Seen(new).gid = r.gid /\ Seen(new).id = lastMsg + 1
      BY <2>2 DEF SeenMail, Seen
    <3>6. \A n \in SeenMail : n.id # lastMsg + 1
      <4>1. \A n \in messages : n.id \in Nat /\ n.id <= lastMsg /\ lastMsg \in Nat
        BY <1>1 DEF TypeOK, RowInv, Message
      <4>2. \A n \in messages : Seen(n).id = n.id
        BY DEF Seen
      <4> QED
        BY <4>1, <4>2 DEF SeenMail
    <3> HIDE DEF new
    <3> QED
      BY <3>1, <3>2, <3>3, <3>4, <3>5, <3>6, AnswerIsStep DEF MB!Store
  <2> QED
    BY <1>15, <2>1, <2>2 DEF InsertMsg
<1>16. CASE Find(p)
  <2> DEFINE shown == {m \in messages : m.box = mb[p]}
  <2>1. UNCHANGED tables /\ UNCHANGED <<Owned, SeenMail>> /\ r.kind \in {"list", "get"}
    BY <1>1, <1>8, <1>16 DEF Find, TypeOK, Reads
  <2>2. CASE End(p, "ok", shown, met)
    <3>1. MB!Tell(p, "ok", {Seen(n) : n \in shown}, "fault" \in met[p])
      BY <1>6, <2>2
    <3>2. CASE Exists(mb[p])
      <4>1. PICK b \in mailboxes : b.id = mb[p]
        BY <3>2 DEF Exists
      <4>2. b.addr = r.addr /\ r.addr \in Owned
        BY <1>1, <1>16, <4>1 DEF Find, OwnInv, BoxInv, Owned
      <4>3. {Seen(n) : n \in shown} = MB!MailOf(r.addr)
        BY <1>1, <4>1, <4>2, SeenOfBox
      <4> QED
        BY <2>1, <3>1, <4>2, <4>3, AnswerIsStep DEF MB!Read
    <3>3. CASE ~Exists(mb[p])
      <4>1. shown = {}
        BY <1>1, <3>3 DEF RowInv, EveryMessageHasItsMailbox, Exists
      <4>2. p \in Bereft
        BY <1>1, <1>16, <3>3 DEF Find, OwnInv, MetInv, Bereft, Busy
      <4>3. MB!Tell(p, "ok", {}, "fault" \in met[p])
        BY <1>3, <3>1, <4>1
      <4> QED
        BY <2>1, <4>2, <4>3, AnswerIsStep DEF MB!Read
    <3> QED
      BY <3>2, <3>3
  <2>3. CASE End(p, "ok", {}, Fault(p)) /\ r.kind = "list"
    <3>1. MB!Tell(p, "ok", {}, TRUE)
      BY <1>2, <1>7, <2>3
    <3> QED
      BY <2>1, <2>3, <3>1, AnswerIsStep DEF MB!Read
  <2> QED
    BY <1>9, <1>16, <2>1, <2>2, <2>3 DEF Find
<1> QED
  BY <1>10, <1>11, <1>12, <1>13, <1>14, <1>15, <1>16 DEF Acts

LEMMA BeginMaps ==
    ASSUME TypeOK, IdleInv, NEW p \in Procs, Begin(p)
    PROVE  MB!Ask(p)
<1>1. PICK r \in Requests :
        op' = [op EXCEPT ![p] = r] /\ pc' = [pc EXCEPT ![p] = FirstStatement(r.kind)]
  BY DEF Begin
<1>2. ~Busy(p) /\ op[p] = NoRequest
  BY DEF Begin, TypeOK, Busy
<1>3. Told' = NoAnswer /\ UNCHANGED <<Owned, SeenMail>>
  BY DEF Begin, Told, Owned, SeenMail, tables
<1>4. Bereft' = Bereft
  BY <1>1, <1>2 DEF Begin, Bereft, IdleInv, Busy, TypeOK
<1> QED
  BY <1>1, <1>2, <1>3, <1>4 DEF MB!Ask, MB!Waits

LEMMA RemoveMaps ==
    ASSUME TypeOK, RowInv, NEW boxes \in SUBSET mailboxes, Remove(boxes),
           answer' = NoAnswer, UNCHANGED <<pc, op, mb, base>>
    PROVE  MB!Next
<1> DEFINE as == {b.addr : b \in boxes}
<1>1. as \in SUBSET Owned
  BY DEF Owned
<1>2. Told' = NoAnswer
  BY DEF Told
<1>3. Owned' = Owned \ as
  <2>1. \A b \in mailboxes : b \in boxes <=> b.addr \in as
    BY DEF RowInv
  <2> QED
    BY <2>1 DEF Owned, Remove
<1>4. SeenMail' = {m \in SeenMail : m.to \notin as}
  <2>1. \A m \in messages : Seen(m).to = m.to
    BY DEF Seen
  <2>2. ASSUME NEW m \in messages
        PROVE  (\A b \in boxes : m.box # b.id) <=> m.to \notin as
    <3>1. PICK c \in mailboxes : c.id = m.box
      BY DEF RowInv, EveryMessageHasItsMailbox, Exists
    <3>2. c.addr = m.to
      BY <3>1 DEF RowInv, RoutedToOwnMailbox
    <3> QED
      BY <3>1, <3>2 DEF RowInv
  <2> QED
    BY <2>1, <2>2 DEF Remove, SeenMail
<1>5. Bereft' = Bereft \cup {p \in Procs : MB!Waits(p) /\ op[p].addr \in as}
  <2>1. \A p \in Procs : Busy(p) <=> MB!Waits(p)
    BY DEF Busy, MB!Waits, TypeOK
  <2>2. \A p \in Procs : BoxOf(p) \cap boxes # {} <=> op[p].addr \in as
    BY DEF BoxOf, At
  <2> QED
    BY <2>1, <2>2 DEF Remove, Meets, Bereft, Busy
<1>6. MB!Remove(as)
  BY <1>2, <1>3, <1>4, <1>5 DEF MB!Remove
<1> QED
  BY <1>1, <1>6 DEF MB!Next

\* The store implements Mailboxes, for any number of requests, rows and
\* addresses, and whatever statements fail: although each handler issues its
\* statements one by one, no client can tell.
THEOREM StoreImplementsMailboxes == Spec => ImplementsMailboxes
<1>1. Init => MB!Init
  BY DEF Init, MB!Init, Owned, SeenMail, Bereft, Busy, Told
<1>2. IInv /\ IdleInv /\ [Next]_vars => [MB!Next]_(MB!vars)
  <2> SUFFICES ASSUME IInv, IdleInv, [Next]_vars PROVE [MB!Next]_(MB!vars)
    OBVIOUS
  <2>1. TypeOK /\ RowInv
    BY DEF IInv
  <2>2. ASSUME NEW p \in Procs, Begin(p) PROVE MB!Next
    BY <2>1, <2>2, BeginMaps DEF MB!Next
  <2>3. ASSUME NEW p \in Procs, Acts(p) PROVE MB!Next
    BY <2>3, ActsMaps
  <2>4. CASE Shrinks /\ answer' = NoAnswer /\ UNCHANGED procs
    <3>1. Told' = NoAnswer /\ UNCHANGED <<Owned, op, Bereft>> /\ SeenMail' \subseteq SeenMail
      BY <2>4 DEF Shrinks, procs, Told, Owned, SeenMail, Bereft, Busy
    <3> QED
      BY <3>1 DEF MB!Next, MB!Drop
  <2>5. CASE Restart
    <3>1. /\ Told' = NoAnswer /\ Bereft' = {} /\ UNCHANGED <<Owned, SeenMail>>
          /\ op' = [p \in Procs |-> NoRequest]
      BY <2>5 DEF Restart, tables, Told, Owned, SeenMail, Bereft, Busy
    <3> QED
      BY <3>1 DEF MB!Next, MB!Crash
  <2>6. CASE UNCHANGED vars
    BY <2>6 DEF vars, MB!vars, Told, Owned, SeenMail, Bereft, Busy
  <2> QED
    BY <2>1, <2>2, <2>3, <2>4, <2>5, <2>6, NextCases, RemoveMaps
<1>3. Spec => []IdleInv
  BY InitIdle, InitType, TypeStep, IdleStep, PTL DEF Spec
<1> QED
  BY <1>1, <1>2, <1>3, IInvHolds, PTL DEF Spec, MB!Spec, ImplementsMailboxes
=============================================================================
