------------------------- MODULE DirectSenderProofs -------------------------
(***************************************************************************)
(* DirectSender for any recipients, domains and mail exchangers, by relay  *)
(* or without, and for any number of tries.                                *)
(***************************************************************************)
EXTENDS DirectSender, TLAPS

Handling == Stages \cup {"host"}

\* A try that has not begun, or was refused as it stood, has reached nobody.
BegunInv(i) ==
    /\ pc[i] = "new" => todo[i] = {} /\ ~errs[i] /\ ~gone[i]
    /\ pc[i] \in {"new", "bad"} => got[i] = {}
    /\ pc[i] \notin {"new", "bad"} => to # {}

\* The groups ahead are apart from each other, from the group being handled,
\* and from everybody who has the mail of this try.
GroupInv(i) ==
    \A g \in todo[i] :
        /\ g # {} /\ OneTransaction(g)
        /\ g \cap got[i] = {}
        /\ pc[i] \in Handling => g \cap job[i] = {}
        /\ \A h \in todo[i] : g = h \/ g \cap h = {}

\* The group being handled has the mail once a host has said so.  While hosts
\* are still tried it has not, unless one took it and failed afterwards.
JobInv(i) ==
    pc[i] \in Handling =>
        IF pc[i] = "quit" THEN job[i] \subseteq got[i]
        ELSE job[i] \cap got[i] = {} \/ job[i] \subseteq unsure

\* r will not get the mail by what i has left to do.
Over(i, r) ==
    /\ \A g \in todo[i] : r \notin g
    /\ pc[i] \in Handling => r \notin job[i]

\* Who has not got it is ahead, as long as no group has failed; once one has,
\* there is somebody to whom that happened.
CoverInv(i) ==
    pc[i] \in Running =>
        IF errs[i] THEN \E r \in to : r \in unsure \/ (r \notin got[i] /\ Over(i, r))
        ELSE \A r \in to : r \in got[i] \/ ~Over(i, r)

TryInv(i) == BegunInv(i) /\ GroupInv(i) /\ JobInv(i) /\ CoverInv(i)

Excused(i) == pc[i] \in {"failed", "bad", "killed"} \/ gone[i]
\* All tries before the newest are over for the client.
AskInv == \A i, j \in Try : j < i /\ pc[i] # "new" => Excused(j)
CopyInv == \A r \in Recipients : copies[r] > 0 => \E i \in Try : r \in got[i]

Inv == /\ TypeOK /\ AskInv /\ CopyInv
       /\ \A i \in Try : TryInv(i)
       /\ AcceptedMeansDelivered /\ RejectedHasReason /\ DuplicateOnlyIfExcused

LEMMA InitInv == Init => Inv
<1> SUFFICES ASSUME Init PROVE Inv
  OBVIOUS
<1> USE DEF Init
<1>1. TypeOK
  BY DEF TypeOK, Stages, Running, Ended
<1>2. AskInv /\ CopyInv
  BY DEF AskInv, CopyInv
<1>3. ASSUME NEW i \in Try PROVE TryInv(i)
  BY DEF TryInv, BegunInv, GroupInv, JobInv, CoverInv, Handling, Running, Stages
<1>4. AcceptedMeansDelivered /\ RejectedHasReason /\ DuplicateOnlyIfExcused
  BY DEF AcceptedMeansDelivered, RejectedHasReason, DuplicateOnlyIfExcused
<1> QED
  BY <1>1, <1>2, <1>3, <1>4 DEF Inv

-----------------------------------------------------------------------------
(* What a step of one try leaves alone                                     *)

\* The mail of the other tries stands still, but for what is unsure.
LEMMA Bystander ==
    ASSUME NEW j \in Try, TryInv(j), to' = to, relay' = relay,
           unsure \subseteq unsure',
           pc'[j] = pc[j], todo'[j] = todo[j], job'[j] = job[j],
           errs'[j] = errs[j], got'[j] = got[j],
           gone'[j] = gone[j] \/ pc[j] # "new"
    PROVE  TryInv(j)'
<1>1. BegunInv(j)'
  BY DEF TryInv, BegunInv
<1>2. GroupInv(j)'
  BY DEF TryInv, GroupInv, OneTransaction
<1>3. JobInv(j)'
  BY DEF TryInv, JobInv
<1>4. CoverInv(j)'
  BY DEF TryInv, CoverInv, Over
<1> QED
  BY <1>1, <1>2, <1>3, <1>4 DEF TryInv

\* The grouping of directSender.Send
LEMMA Grouping ==
    ASSUME relay \in BOOLEAN, NEW rs \in SUBSET Recipients, rs # {}, ~Malformed(rs)
    PROVE  /\ Groups(rs) \subseteq SUBSET rs
           /\ \A g \in Groups(rs) : g # {} /\ OneTransaction(g)
           /\ \A g, h \in Groups(rs) : g = h \/ g \cap h = {}
           /\ \A r \in rs : \E g \in Groups(rs) : r \in g
<1>1. CASE relay
  BY <1>1 DEF Groups, OneTransaction
<1>2. CASE ~relay
  <2>1. \A r \in rs : DomainOf[r] \in Domains
    BY <1>2, DomainsAssumption DEF Malformed
  <2>2. Groups(rs) = {Group(rs, d) : d \in {DomainOf[r] : r \in rs}}
    BY <1>2 DEF Groups
  <2>3. \A g \in Groups(rs) : \E q \in rs : g = Group(rs, DomainOf[q])
    BY <2>2
  <2>4. \A r \in rs : Group(rs, DomainOf[r]) \in Groups(rs)
    BY <2>2
  <2>5. ASSUME NEW g \in Groups(rs)
        PROVE  g \subseteq rs /\ g # {} /\ OneTransaction(g)
    <3>1. PICK q \in rs : g = Group(rs, DomainOf[q])
      BY <2>3
    <3>2. q \in g /\ g \subseteq rs
      BY <3>1 DEF Group
    <3>3. \A r \in g : DomainOf[r] = DomainOf[q]
      BY <3>1 DEF Group
    <3> QED
      BY <2>1, <3>2, <3>3 DEF OneTransaction
  <2>6. ASSUME NEW g \in Groups(rs), NEW h \in Groups(rs), g \cap h # {}
        PROVE  g = h
    <3>1. PICK q \in rs, r \in rs : g = Group(rs, DomainOf[q]) /\ h = Group(rs, DomainOf[r])
      BY <2>3
    <3>2. DomainOf[q] = DomainOf[r]
      BY <2>6, <3>1 DEF Group
    <3> QED
      BY <3>1, <3>2
  <2>7. \A r \in rs : r \in Group(rs, DomainOf[r])
    BY DEF Group
  <2> QED
    BY <2>4, <2>5, <2>6, <2>7
<1> QED
  BY <1>1, <1>2

-----------------------------------------------------------------------------
(* One lemma per action                                                    *)

\* What all the actions of a delivery have in common: the mail, the copies and
\* the other tries stay, and i, which runs, ends with an answer or runs on.
LEMMA Inner ==
    ASSUME Inv, NEW i \in Try, pc[i] \in Running, TypeOK',
           to' = to, relay' = relay, copies' = copies, gone' = gone, got' = got,
           unsure \subseteq unsure',
           \A j \in Try \ {i} : /\ pc'[j] = pc[j] /\ todo'[j] = todo[j]
                                /\ job'[j] = job[j] /\ errs'[j] = errs[j],
           pc'[i] \in Running \cup {"ok", "failed"},
           GroupInv(i)', JobInv(i)', CoverInv(i)',
           pc'[i] = "ok" => to \subseteq got[i],
           pc'[i] = "failed" => \E r \in to : r \notin got[i] \/ r \in unsure
    PROVE  Inv'
<1>1. Running \cap ({"new", "ok"} \cup {"failed", "bad", "killed"}) = {}
  BY DEF Running, Stages
<1>2. TryInv(i)'
  BY <1>1 DEF TryInv, BegunInv, Inv
<1>3. \A j \in Try \ {i} : TryInv(j)'
  BY Bystander DEF Inv
<1>4. \A j \in Try : (Excused(j) => Excused(j)') /\ (pc'[j] = "new" <=> pc[j] = "new")
  BY <1>1 DEF Excused
<1>5. AskInv'
  BY <1>4 DEF AskInv, Inv
<1>6. CopyInv'
  BY DEF CopyInv, Inv
<1>7. AcceptedMeansDelivered'
  <2> SUFFICES ASSUME NEW j \in Try, pc'[j] = "ok" PROVE to \subseteq got[j]
    BY DEF AcceptedMeansDelivered
  <2> QED
    BY DEF AcceptedMeansDelivered, Inv
<1>8. RejectedHasReason'
  <2> SUFFICES ASSUME NEW j \in Try, pc'[j] = "failed"
               PROVE  \E r \in to : r \notin got[j] \/ r \in unsure'
    BY DEF RejectedHasReason
  <2> QED
    BY DEF RejectedHasReason, Inv
<1>9. DuplicateOnlyIfExcused'
  <2> SUFFICES ASSUME NEW r \in Recipients, copies[r] > 1, r \notin unsure
               PROVE  \E j \in Try : r \in got[j] /\ (pc'[j] \in {"failed", "killed"} \/ gone[j])
    BY DEF DuplicateOnlyIfExcused
  <2>1. PICK j \in Try : r \in got[j] /\ (pc[j] \in {"failed", "killed"} \/ gone[j])
    BY DEF DuplicateOnlyIfExcused, Inv
  <2> QED
    BY <1>1, <2>1
<1> QED
  BY <1>2, <1>3, <1>5, <1>6, <1>7, <1>8, <1>9 DEF Inv

LEMMA NextGroupStep == ASSUME Inv, NEW i \in Try, NextGroup(i) PROVE Inv'
<1> PICK g \in todo[i] : /\ todo' = [todo EXCEPT ![i] = @ \ {g}]
                         /\ job' = [job EXCEPT ![i] = g]
  BY DEF NextGroup
<1> USE DEF Inv, NextGroup, history
<1>1. pc[i] = "next" /\ pc' = [pc EXCEPT ![i] = "host"] /\ g \in todo[i]
  BY DEF TypeOK, Running, Stages, Ended
<1>2. g # {} /\ OneTransaction(g) /\ GroupInv(i) /\ CoverInv(i)
  <2>1. GroupInv(i) /\ CoverInv(i)
    BY DEF TryInv
  <2> QED
    BY <2>1 DEF GroupInv
<1>3. TypeOK'
  BY <1>1, <1>2 DEF TypeOK, OneTransaction, Running, Stages
<1>4. pc'[i] = "host" /\ todo'[i] = todo[i] \ {g} /\ job'[i] = g
  BY <1>1 DEF TypeOK
<1>5. GroupInv(i)'
  BY <1>2, <1>4 DEF GroupInv, OneTransaction
<1>6. JobInv(i)'
  BY <1>2, <1>4 DEF JobInv, GroupInv
<1>7. CoverInv(i)'
  <2>1. \A r : Over(i, r)' <=> Over(i, r)
    BY <1>1, <1>4 DEF Over, Handling, Stages
  <2> QED
    BY <1>1, <1>2, <2>1 DEF CoverInv, Running, TypeOK
<1> QED
  BY <1>1, <1>3, <1>4, <1>5, <1>6, <1>7, Inner DEF Running, TypeOK

LEMMA AnswerStep == ASSUME Inv, NEW i \in Try, Answer(i) PROVE Inv'
<1> USE DEF Inv, Answer, history
<1>1. pc[i] = "next" /\ todo[i] = {} /\ pc'[i] = AnswerOf(i) /\ AnswerOf(i) \in {"ok", "failed"}
  BY DEF TypeOK, AnswerOf
<1>2. TypeOK'
  BY <1>1 DEF TypeOK, OneTransaction, Running, Stages, Ended
<1>3. GroupInv(i)' /\ JobInv(i)' /\ CoverInv(i)'
  BY <1>1 DEF GroupInv, JobInv, CoverInv, Handling, Running, Stages
<1>4. CoverInv(i) /\ \A r : Over(i, r)
  BY <1>1 DEF TryInv, Over, Handling, Stages
<1>5. pc'[i] = "ok" => to \subseteq got[i]
  BY <1>1, <1>4 DEF CoverInv, AnswerOf, Running, TypeOK
<1>6. pc'[i] = "failed" => \E r \in to : r \notin got[i] \/ r \in unsure
  BY <1>1, <1>4 DEF CoverInv, AnswerOf, Running
<1> QED
  BY <1>1, <1>2, <1>3, <1>5, <1>6, Inner DEF Running, TypeOK

LEMMA HostStep ==
    ASSUME Inv, NEW i \in Try, NextHost(i) \/ Advance(i) \/ HostFails(i)
    PROVE  Inv'
<1> USE DEF Inv, history
<1>1. /\ pc[i] \in Handling \ {"quit"} /\ pc'[i] \in Handling
      /\ pc' = [pc EXCEPT ![i] = pc'[i]]
      /\ pc'[i] # "quit"
      /\ UNCHANGED <<relay, to, todo, job, errs, silent, gone, got, copies, unsure>>
  BY DEF NextHost, Advance, HostFails, Handling, Stages, After, TypeOK
<1>2. TypeOK'
  BY <1>1 DEF TypeOK, OneTransaction, Handling, Running
<1>3. GroupInv(i) /\ JobInv(i) /\ CoverInv(i)
  BY DEF TryInv
<1>4. GroupInv(i)' /\ JobInv(i)' /\ CoverInv(i)'
  BY <1>1, <1>3 DEF GroupInv, JobInv, CoverInv, Over, OneTransaction, Handling, Running
<1> QED
  BY <1>1, <1>2, <1>4, Inner DEF Running, Handling, Stages, TypeOK

LEMMA NoHostLeftStep == ASSUME Inv, NEW i \in Try, NoHostLeft(i) PROVE Inv'
<1> USE DEF Inv, NoHostLeft, history
<1>1. pc[i] = "host" /\ pc'[i] = "next" /\ errs'[i] = TRUE
  BY DEF TypeOK
<1>2. TypeOK'
  BY <1>1 DEF TypeOK, OneTransaction, Running, Stages
<1>3. GroupInv(i) /\ JobInv(i) /\ job[i] # {} /\ job[i] \subseteq to
  BY <1>1 DEF TryInv, TypeOK
<1>4. GroupInv(i)' /\ JobInv(i)'
  BY <1>1, <1>3 DEF GroupInv, JobInv, OneTransaction, Handling, Stages
<1>5. PICK r \in job[i] : r \in unsure \/ r \notin got[i]
  BY <1>1, <1>3 DEF JobInv, Handling
<1>6. \A g \in todo[i] : r \notin g
  BY <1>1, <1>3 DEF GroupInv, Handling
<1>7. CoverInv(i)'
  BY <1>1, <1>3, <1>5, <1>6 DEF CoverInv, Over, Handling, Stages
<1> QED
  BY <1>1, <1>2, <1>4, <1>7, Inner DEF Running, TypeOK

LEMMA QuitStep == ASSUME Inv, NEW i \in Try, Quit(i) PROVE Inv'
<1> USE DEF Inv, Quit
<1>1. /\ pc[i] = "quit" /\ pc'[i] \in {"next", "host"}
      /\ pc' = [pc EXCEPT ![i] = pc'[i]]
      /\ pc'[i] = "next" \/ unsure' = unsure \cup job[i]
      /\ unsure \subseteq unsure' /\ unsure' \subseteq unsure \cup job[i]
  BY DEF TypeOK, WhenDelivered
<1>2. TypeOK'
  BY <1>1 DEF TypeOK, OneTransaction, Running, Stages
<1>3. GroupInv(i) /\ JobInv(i) /\ CoverInv(i) /\ job[i] \subseteq got[i]
  BY <1>1 DEF TryInv, JobInv, Handling, Stages
<1>4. GroupInv(i)' /\ JobInv(i)'
  BY <1>1, <1>3 DEF GroupInv, JobInv, OneTransaction, Handling, Stages
<1>5. CoverInv(i)'
  BY <1>1, <1>3 DEF CoverInv, Over, Running, Handling, Stages
<1> QED
  BY <1>1, <1>2, <1>4, <1>5, Inner DEF Running, Stages, TypeOK

LEMMA FallSilentStep == ASSUME Inv, NEW i \in Try, FallSilent(i) PROVE Inv'
<1> USE DEF Inv, FallSilent, history
<1>1. pc[i] \in Running /\ pc'[i] = pc[i]
  BY DEF Running, TypeOK
<1>2. TypeOK'
  BY DEF TypeOK, OneTransaction
<1>3. GroupInv(i)' /\ JobInv(i)' /\ CoverInv(i)'
  BY DEF TryInv, GroupInv, JobInv, CoverInv, Over, OneTransaction
<1> QED
  BY <1>1, <1>2, <1>3, Inner DEF Running, Stages

\* A host takes the mail: the only step that makes copies.
LEMMA TakenStep ==
    ASSUME Inv, NEW i \in Try, HostTakes(i) \/ HostTakesUnheard(i)
    PROVE  Inv'
<1> USE DEF Inv
<1>1. /\ pc[i] = "body" /\ pc'[i] \in {"quit", "host", "body"}
      /\ pc' = [pc EXCEPT ![i] = pc'[i]]
      /\ pc'[i] = "quit" \/ unsure' = unsure \cup job[i]
      /\ unsure \subseteq unsure' /\ unsure' \subseteq unsure \cup job[i]
      /\ got' = [got EXCEPT ![i] = got[i] \cup job[i]]
      /\ copies' = [r \in Recipients |-> IF r \in job[i] THEN copies[r] + 1 ELSE copies[r]]
      /\ silent' \in [Try -> BOOLEAN]
      /\ UNCHANGED <<relay, to, todo, job, left, errs, gone>>
  BY DEF HostTakes, HostTakesUnheard, Taken, TypeOK
<1>2. TryInv(i) /\ job[i] \subseteq to /\ to # {} /\ pc[i] \in Running
  BY <1>1 DEF TryInv, BegunInv, TypeOK, Running, Stages
<1>3. GroupInv(i) /\ JobInv(i) /\ CoverInv(i)
  BY <1>2 DEF TryInv
<1>4. TypeOK'
  BY <1>1 DEF TypeOK, OneTransaction, Running, Stages
<1>5. pc'[i] \in Handling /\ pc'[i] \in Running /\ pc[i] \in Handling /\ got'[i] = got[i] \cup job[i]
  BY <1>1 DEF Handling, Running, Stages, TypeOK
<1>6. TryInv(i)'
  <2>1. BegunInv(i)'
    BY <1>1, <1>2 DEF BegunInv
  <2>2. GroupInv(i)'
    BY <1>1, <1>3, <1>5 DEF GroupInv, OneTransaction
  <2>3. JobInv(i)'
    BY <1>1, <1>5 DEF JobInv
  <2>4. \A r : Over(i, r)' <=> Over(i, r)
    BY <1>1, <1>5 DEF Over
  <2>5. CoverInv(i)'
    BY <1>1, <1>2, <1>3, <1>5, <2>4 DEF CoverInv, Over
  <2> QED
    BY <2>1, <2>2, <2>3, <2>5 DEF TryInv
<1>7. \A j \in Try \ {i} : pc'[j] = pc[j] /\ got'[j] = got[j]
  BY <1>1 DEF TypeOK
<1>8. \A j \in Try \ {i} : TryInv(j)'
  BY <1>1, <1>7, Bystander
<1>9. \A j \in Try : /\ Excused(j)' <=> Excused(j)
                     /\ pc'[j] = "new" <=> pc[j] = "new"
                     /\ got[j] \subseteq got'[j]
                     /\ pc'[j] \in {"failed", "killed"} <=> pc[j] \in {"failed", "killed"}
                     /\ pc'[j] \in {"ok", "failed"} => j # i
  BY <1>1, <1>5, <1>7 DEF Excused
<1>10. AskInv'
  BY <1>9 DEF AskInv
<1>11. CopyInv'
  <2> SUFFICES ASSUME NEW r \in Recipients, copies'[r] > 0
               PROVE  \E j \in Try : r \in got'[j]
    BY DEF CopyInv
  <2>1. CASE r \in job[i]
    BY <1>5, <2>1
  <2>2. CASE r \notin job[i]
    BY <1>1, <1>9, <2>2 DEF CopyInv
  <2> QED
    BY <2>1, <2>2
<1>12. AcceptedMeansDelivered' /\ RejectedHasReason'
  BY <1>1, <1>7, <1>9 DEF AcceptedMeansDelivered, RejectedHasReason
<1>13. DuplicateOnlyIfExcused'
  <2> SUFFICES ASSUME NEW r \in Recipients, copies'[r] > 1, r \notin unsure'
               PROVE  \E j \in Try : r \in got'[j]
                        /\ (pc'[j] \in {"failed", "killed"} \/ gone'[j])
    BY DEF DuplicateOnlyIfExcused
  <2>1. CASE copies[r] > 1
    <3>1. PICK j \in Try : r \in got[j] /\ (pc[j] \in {"failed", "killed"} \/ gone[j])
      BY <1>1, <2>1 DEF DuplicateOnlyIfExcused
    <3> QED
      BY <1>1, <1>9, <3>1
  <2>2. CASE ~(copies[r] > 1)
    <3>1. r \in job[i] /\ copies[r] > 0
      BY <1>1, <2>2 DEF TypeOK
    <3>2. PICK j \in Try : r \in got[j]
      BY <3>1 DEF CopyInv
    <3>3. j # i
      BY <1>1, <1>3, <1>5, <3>1, <3>2 DEF JobInv
    <3>4. pc[j] \notin {"new", "bad"}
      BY <3>2 DEF TryInv, BegunInv
    <3>5. CASE j < i
      <4>1. Excused(j)
        BY <1>1, <3>5 DEF AskInv
      <4> QED
        BY <1>1, <1>9, <3>2, <3>4, <4>1 DEF Excused
    <3>6. CASE i < j
      <4>1. Excused(i)
        BY <3>4, <3>6 DEF AskInv
      <4>2. gone[i]
        BY <1>1, <4>1 DEF Excused
      <4> QED
        BY <1>1, <1>5, <3>1, <4>2
    <3> QED
      BY <3>3, <3>5, <3>6, TriesAssumption DEF Try
  <2> QED
    BY <2>1, <2>2
<1> QED
  BY <1>4, <1>6, <1>8, <1>10, <1>11, <1>12, <1>13

\* The first step of a try: the earlier ones are over for the client.
LEMMA AskStep ==
    ASSUME Inv, NEW i \in Try, Begin(i), pc'[i] # "new",
           \A j \in Try \ {i} : pc'[j] = pc[j]
    PROVE  AskInv'
<1> USE DEF Inv
<1>1. pc[i] = "new" /\ gone' = gone
  BY DEF Begin
<1>2. \A j \in Try : Excused(j) => Excused(j)'
  BY <1>1 DEF Excused
<1>3. ASSUME NEW j \in Try, j < i PROVE Excused(j)
  <2>1. i \in Nat /\ j \in Nat /\ i > 1 /\ i - 1 \in Try
    BY <1>3, TriesAssumption DEF Try
  <2>2. Excused(i - 1)
    BY <2>1 DEF Begin, MayAsk, Excused
  <2>3. pc[i - 1] # "new"
    BY <2>1, <2>2 DEF Excused, TryInv, BegunInv
  <2>4. j = i - 1 \/ j < i - 1
    BY <1>3, <2>1
  <2> QED
    BY <2>1, <2>2, <2>3, <2>4 DEF AskInv
<1> QED
  BY <1>1, <1>2, <1>3 DEF AskInv

LEMMA BadRequestStep == ASSUME Inv, NEW i \in Try, BadRequest(i) PROVE Inv'
<1> USE DEF Inv, history
<1>1. /\ pc[i] = "new" /\ pc' = [pc EXCEPT ![i] = "bad"] /\ pc'[i] = "bad"
      /\ UNCHANGED <<relay, to, todo, job, left, errs, silent, gone, got, copies, unsure>>
  BY DEF BadRequest, Begin, TypeOK
<1>2. TypeOK'
  BY <1>1 DEF TypeOK, OneTransaction, Ended, Stages
<1>3. TryInv(i) /\ got[i] = {} /\ todo[i] = {}
  BY <1>1 DEF TryInv, BegunInv
<1>4. TryInv(i)'
  BY <1>1, <1>3
     DEF TryInv, BegunInv, GroupInv, JobInv, CoverInv, Handling, Running, Stages
<1>5. \A j \in Try \ {i} : pc'[j] = pc[j]
  BY <1>1 DEF TypeOK
<1>6. \A j \in Try \ {i} : TryInv(j)'
  BY <1>1, <1>5, Bystander
<1>7. AskInv'
  BY <1>1, <1>5, AskStep DEF BadRequest
<1>8. CopyInv' /\ AcceptedMeansDelivered' /\ RejectedHasReason'
  BY <1>1, <1>5 DEF CopyInv, AcceptedMeansDelivered, RejectedHasReason
<1>9. DuplicateOnlyIfExcused'
  BY <1>1, <1>3, <1>5 DEF DuplicateOnlyIfExcused
<1> QED
  BY <1>2, <1>4, <1>6, <1>7, <1>8, <1>9

\* The mail is fixed by the first request that is accepted.
LEMMA AcceptStep == ASSUME Inv, NEW i \in Try, Accept(i) PROVE Inv'
<1> USE DEF Inv, history
<1>1. PICK req \in Request :
        /\ Acceptable(req) /\ (to # {} => req.to = to)
        /\ to' = req.to
        /\ IF Malformed(req.to)
           THEN pc' = [pc EXCEPT ![i] = "failed"] /\ UNCHANGED todo
           ELSE /\ pc' = [pc EXCEPT ![i] = "next"]
                /\ todo' = [todo EXCEPT ![i] = Groups(req.to)]
  BY DEF Accept
<1>2. /\ pc[i] = "new" /\ to' = req.to /\ to' # {} /\ to' \subseteq Recipients
      /\ to \subseteq to' /\ (to # {} => to' = to) /\ relay \in BOOLEAN
      /\ UNCHANGED <<relay, job, left, errs, silent, gone, got, copies, unsure>>
  BY <1>1 DEF Accept, Begin, Acceptable, Request, TypeOK
<1>3. TryInv(i) /\ got[i] = {} /\ todo[i] = {} /\ ~errs[i] /\ ~gone[i]
  BY <1>2 DEF TryInv, BegunInv
<1>4. \/ /\ pc' = [pc EXCEPT ![i] = "failed"] /\ todo' = todo
         /\ pc'[i] = "failed"
      \/ /\ pc' = [pc EXCEPT ![i] = "next"] /\ todo' = [todo EXCEPT ![i] = Groups(to')]
         /\ pc'[i] = "next" /\ todo'[i] = Groups(to') /\ ~Malformed(to')
  BY <1>1, <1>2 DEF TypeOK
<1>5. \A j \in Try \ {i} : pc'[j] = pc[j] /\ todo'[j] = todo[j]
  BY <1>4 DEF TypeOK
<1>6. pc'[i] = "next" =>
        /\ todo'[i] \subseteq SUBSET to'
        /\ \A g \in todo'[i] : g # {} /\ OneTransaction(g)
        /\ \A g, h \in todo'[i] : g = h \/ g \cap h = {}
        /\ \A r \in to' : \E g \in todo'[i] : r \in g
  BY <1>2, <1>4, Grouping
<1>7. TypeOK'
  <2>1. todo' \in [Try -> SUBSET SUBSET to']
    BY <1>2, <1>4, <1>6 DEF TypeOK
  <2>2. pc' \in [Try -> {"new"} \cup Running \cup Ended]
    BY <1>4 DEF TypeOK, Running, Ended
  <2>3. \A j \in Try : pc'[j] \in Stages \cup {"host"} =>
            job[j] # {} /\ OneTransaction(job[j])'
    BY <1>2, <1>4, <1>5 DEF TypeOK, OneTransaction, Stages
  <2>4. /\ job' \in [Try -> SUBSET to'] /\ got' \in [Try -> SUBSET to']
        /\ unsure' \subseteq to'
    BY <1>2 DEF TypeOK
  <2> QED
    BY <1>2, <2>1, <2>2, <2>3, <2>4 DEF TypeOK
<1>8. TryInv(i)'
  <2>1. BegunInv(i)'
    BY <1>2, <1>4 DEF BegunInv
  <2>2. GroupInv(i)'
    BY <1>2, <1>3, <1>4, <1>6 DEF GroupInv, OneTransaction, Handling, Stages
  <2>3. JobInv(i)'
    BY <1>4 DEF JobInv, Handling, Stages
  <2>4. CoverInv(i)'
    BY <1>2, <1>3, <1>4, <1>6 DEF CoverInv, Over, Running, Stages
  <2> QED
    BY <2>1, <2>2, <2>3, <2>4 DEF TryInv
<1>9. ASSUME NEW j \in Try \ {i} PROVE TryInv(j)'
  <2>1. CASE pc[j] \in {"new", "bad"}
    <3>1. TryInv(j) /\ pc'[j] \in {"new", "bad"}
      BY <1>5, <2>1
    <3>2. BegunInv(j)'
      BY <1>2, <1>5, <2>1 DEF TryInv, BegunInv
    <3>3. GroupInv(j)'
      BY <1>2, <1>5, <3>1 DEF TryInv, GroupInv, OneTransaction
    <3>4. JobInv(j)' /\ CoverInv(j)'
      BY <3>1 DEF JobInv, CoverInv, Handling, Running, Stages
    <3> QED
      BY <3>2, <3>3, <3>4 DEF TryInv
  <2>2. CASE pc[j] \notin {"new", "bad"}
    <3>1. to' = to
      BY <1>2, <2>2 DEF TryInv, BegunInv
    <3> QED
      BY <1>2, <1>5, <3>1, Bystander
  <2> QED
    BY <2>1, <2>2
<1>10. AskInv'
  <2>1. Begin(i) /\ pc'[i] # "new"
    BY <1>4 DEF Accept
  <2> QED
    BY <1>5, <2>1, AskStep
<1>11. CopyInv'
  BY <1>2 DEF CopyInv
<1>12. AcceptedMeansDelivered'
  <2> SUFFICES ASSUME NEW j \in Try, pc'[j] = "ok" PROVE to' \subseteq got[j]
    BY <1>2 DEF AcceptedMeansDelivered
  <2>1. j # i /\ pc[j] = "ok"
    BY <1>4, <1>5
  <2>2. to' = to
    BY <1>2, <2>1 DEF TryInv, BegunInv
  <2> QED
    BY <2>1, <2>2 DEF AcceptedMeansDelivered
<1>13. RejectedHasReason'
  <2> SUFFICES ASSUME NEW j \in Try, pc'[j] = "failed"
               PROVE  \E r \in to' : r \notin got[j] \/ r \in unsure
    BY <1>2 DEF RejectedHasReason
  <2>1. CASE j = i
    BY <1>2, <1>3, <2>1
  <2>2. CASE j # i
    BY <1>2, <1>5, <2>2 DEF RejectedHasReason
  <2> QED
    BY <2>1, <2>2
<1>14. DuplicateOnlyIfExcused'
  <2> SUFFICES ASSUME NEW r \in Recipients, copies[r] > 1, r \notin unsure
               PROVE  \E j \in Try : r \in got[j] /\ (pc'[j] \in {"failed", "killed"} \/ gone[j])
    BY <1>2 DEF DuplicateOnlyIfExcused
  <2>1. PICK j \in Try : r \in got[j] /\ (pc[j] \in {"failed", "killed"} \/ gone[j])
    BY DEF DuplicateOnlyIfExcused
  <2> QED
    BY <1>3, <1>5, <2>1
<1> QED
  BY <1>7, <1>8, <1>9, <1>10, <1>11, <1>12, <1>13, <1>14

LEMMA ClientLeavesStep == ASSUME Inv, NEW i \in Try, ClientLeaves(i) PROVE Inv'
<1> USE DEF Inv, ClientLeaves, sendState, history
<1>1. pc[i] # "new" /\ gone' = [gone EXCEPT ![i] = TRUE]
  BY DEF Running, Stages
<1>2. TypeOK'
  BY DEF TypeOK, OneTransaction
<1>3. \A j \in Try : gone'[j] = gone[j] \/ pc[j] # "new"
  BY <1>1 DEF TypeOK
<1>4. \A j \in Try : TryInv(j)'
  BY <1>3, Bystander
<1>5. \A j \in Try : gone[j] => gone'[j]
  BY <1>1 DEF TypeOK
<1>6. AskInv' /\ CopyInv'
  BY <1>5 DEF AskInv, CopyInv, Excused
<1>7. AcceptedMeansDelivered' /\ RejectedHasReason' /\ DuplicateOnlyIfExcused'
  BY <1>5 DEF AcceptedMeansDelivered, RejectedHasReason, DuplicateOnlyIfExcused
<1> QED
  BY <1>2, <1>4, <1>6, <1>7

LEMMA ProcessEndsStep == ASSUME Inv, ProcessEnds PROVE Inv'
<1> USE DEF Inv, ProcessEnds, history
<1>1. \A j \in Try : /\ pc'[j] = IF pc[j] \in Running THEN "killed" ELSE pc[j]
                     /\ pc'[j] \in {"new"} \cup Ended
  BY DEF TypeOK, Ended
<1>2. Running \cap ({"new"} \cup Ended) = {}
  BY DEF Running, Stages, Ended
<1>3. TypeOK'
  BY <1>1, <1>2 DEF TypeOK, OneTransaction, Running, Ended
<1>4. ASSUME NEW j \in Try PROVE TryInv(j)'
  <2>1. BegunInv(j)'
    BY <1>1, <1>2 DEF TryInv, BegunInv, Ended
  <2>2. GroupInv(j)' /\ JobInv(j)' /\ CoverInv(j)'
    BY <1>1, <1>2 DEF TryInv, GroupInv, JobInv, CoverInv, OneTransaction, Handling, Running
  <2> QED
    BY <2>1, <2>2 DEF TryInv
<1>5. \A j \in Try : pc'[j] = "new" <=> pc[j] = "new"
  BY <1>1, <1>2
<1>6. \A j \in Try : pc[j] \in {"failed", "bad", "killed", "ok"} => pc'[j] = pc[j]
  BY <1>1, <1>2 DEF Ended
<1>7. \A j \in Try : pc'[j] \in {"failed", "ok"} => pc'[j] = pc[j]
  BY <1>1
<1>8. AskInv' /\ CopyInv'
  BY <1>5, <1>6 DEF AskInv, CopyInv, Excused
<1>9. AcceptedMeansDelivered' /\ RejectedHasReason' /\ DuplicateOnlyIfExcused'
  BY <1>6, <1>7 DEF AcceptedMeansDelivered, RejectedHasReason, DuplicateOnlyIfExcused
<1> QED
  BY <1>3, <1>4, <1>8, <1>9

-----------------------------------------------------------------------------
(* The theorems                                                            *)

LEMMA NextInv == Inv /\ [Next]_vars => Inv'
<1> SUFFICES ASSUME Inv, [Next]_vars PROVE Inv'
  OBVIOUS
<1>1. CASE UNCHANGED vars
  <2>1. \A i \in Try : TryInv(i)'
    BY <1>1, Bystander DEF vars, Inv
  <2>2. TypeOK' /\ AskInv' /\ CopyInv'
    BY <1>1 DEF vars, Inv, TypeOK, OneTransaction, AskInv, CopyInv, Excused
  <2>3. AcceptedMeansDelivered' /\ RejectedHasReason' /\ DuplicateOnlyIfExcused'
    BY <1>1 DEF vars, Inv, AcceptedMeansDelivered, RejectedHasReason, DuplicateOnlyIfExcused
  <2> QED
    BY <2>1, <2>2, <2>3 DEF Inv
<1>2. CASE ProcessEnds
  BY <1>2, ProcessEndsStep
<1>3. ASSUME NEW i \in Try, Steps(i) PROVE Inv'
  BY <1>3, NextGroupStep, AnswerStep, HostStep, NoHostLeftStep, TakenStep,
     QuitStep DEF Steps
<1>4. ASSUME NEW i \in Try, BadRequest(i) \/ Accept(i) \/ FallSilent(i) \/ ClientLeaves(i)
      PROVE Inv'
  BY <1>4, BadRequestStep, AcceptStep, FallSilentStep, ClientLeavesStep
<1> QED
  BY <1>1, <1>2, <1>3, <1>4 DEF Next

LEMMA InvHolds == Spec => []Inv
  BY InitInv, NextInv, PTL DEF Spec

\* left is a function on the tries.
LeftOK == left = [i \in Try |-> left[i]]

LEMMA LeftHolds == Spec => []LeftOK
<1>1. Init => LeftOK
  BY DEF Init, LeftOK
<1>2. LeftOK /\ [Next]_vars => LeftOK'
  <2> SUFFICES ASSUME LeftOK, [Next]_vars PROVE LeftOK'
    OBVIOUS
  <2>1. left' = left \/ \E i \in Try : \E hs : left' = [left EXCEPT ![i] = hs]
    <3>1. CASE UNCHANGED vars \/ ProcessEnds
      BY <3>1 DEF vars, ProcessEnds
    <3>2. ASSUME NEW i \in Try, Steps(i) 
          PROVE  left' = left \/ \E hs : left' = [left EXCEPT ![i] = hs]
      BY <3>2 DEF Steps, NextGroup, Answer, NextHost, NoHostLeft, Advance, HostFails,
                  HostTakes, HostTakesUnheard, Taken, Quit
    <3>3. ASSUME NEW i \in Try,
                 BadRequest(i) \/ Accept(i) \/ FallSilent(i) \/ ClientLeaves(i)
          PROVE  left' = left
      BY <3>3 DEF BadRequest, Accept, Begin, FallSilent, ClientLeaves, sendState
    <3> QED
      BY <3>1, <3>2, <3>3 DEF Next
  <2> QED
    BY <2>1 DEF LeftOK
<1> QED
  BY <1>1, <1>2, PTL DEF Spec

\* Where a try runs on it is closer to its end; killed, it is at its end.
LEMMA GetsOn ==
    ASSUME TypeOK, LeftOK, NEW i \in Try, pc[i] \in Running, Next
    PROVE  Closer(i) \/ UNCHANGED <<todo[i], left[i], pc[i]>>
<1>1. ASSUME NEW j \in Try, j # i,
             BadRequest(j) \/ Accept(j) \/ Steps(j) \/ FallSilent(j) \/ ClientLeaves(j)
      PROVE  UNCHANGED <<todo[i], left[i], pc[i]>>
  <2>1. CASE BadRequest(j) \/ Accept(j)
    <3>1. left' = left /\ i # j
      BY <1>1, <2>1 DEF BadRequest, Accept, Begin
    <3>2. \E x : pc' = [pc EXCEPT ![j] = x]
      BY <2>1 DEF BadRequest, Accept
    <3>3. todo' = todo \/ \E gs : todo' = [todo EXCEPT ![j] = gs]
      BY <2>1 DEF BadRequest, Accept
    <3> QED
      BY <3>1, <3>2, <3>3 DEF TypeOK
  <2>2. CASE NextGroup(j) \/ Answer(j) \/ NextHost(j) \/ NoHostLeft(j)
    BY <1>1, <2>2 DEF NextGroup, Answer, NextHost, NoHostLeft, TypeOK, LeftOK
  <2>3. CASE Advance(j) \/ HostFails(j) \/ Quit(j) \/ FallSilent(j)
    BY <1>1, <2>3 DEF Advance, HostFails, Quit, FallSilent, TypeOK
  <2>4. CASE HostTakes(j) \/ HostTakesUnheard(j)
    BY <1>1, <2>4 DEF HostTakes, HostTakesUnheard, Taken, TypeOK
  <2>5. CASE ClientLeaves(j)
    BY <2>5 DEF ClientLeaves, sendState
  <2> QED
    BY <1>1, <2>1, <2>2, <2>3, <2>4, <2>5 DEF Steps
<1>2. CASE NextGroup(i)
  BY <1>2 DEF NextGroup, Closer, Fewer, TypeOK
<1>3. CASE NextHost(i)
  <2>1. PICK m \in left[i] : left' = [left EXCEPT ![i] = left[i] \ {m}]
    BY <1>3 DEF NextHost, Untried
  <2>2. left'[i] = left[i] \ {m}
    BY <2>1 DEF LeftOK
  <2>3. todo'[i] = todo[i]
    BY <1>3 DEF NextHost
  <2> QED
    BY <2>2, <2>3 DEF Closer, Fewer
<1>4. CASE /\ todo'[i] = todo[i] /\ left'[i] = left[i]
           /\ \/ pc'[i] = pc[i]
              \/ Place[pc'[i]] > Place[pc[i]]
  BY <1>4 DEF Closer
<1>5. CASE Answer(i) \/ NoHostLeft(i)
  <2>1. \/ pc[i] = "next" /\ pc'[i] \in {"ok", "failed"}
        \/ pc[i] = "host" /\ pc'[i] = "next"
    BY <1>5 DEF Answer, AnswerOf, NoHostLeft, TypeOK
  <2>2. todo'[i] = todo[i] /\ left'[i] = left[i]
    BY <1>5 DEF Answer, NoHostLeft
  <2> QED
    BY <1>4, <2>1, <2>2 DEF Place
<1>6. CASE Advance(i)
  <2>1. pc[i] \in Stages \ {"body", "quit"} /\ pc'[i] = After(pc[i])
    BY <1>6 DEF Advance, TypeOK
  <2>2. todo'[i] = todo[i] /\ left'[i] = left[i]
    BY <1>6 DEF Advance
  <2>3. Place[After(pc[i])] > Place[pc[i]]
    BY <2>1 DEF Stages, After, Place
  <2> QED
    BY <1>4, <2>1, <2>2, <2>3
<1>7. CASE HostFails(i)
  <2>1. pc[i] \in Stages /\ pc'[i] = "host"
    BY <1>7 DEF HostFails, TypeOK
  <2>2. todo'[i] = todo[i] /\ left'[i] = left[i]
    BY <1>7 DEF HostFails
  <2> QED
    BY <1>4, <2>1, <2>2 DEF Place, Stages
<1>8. CASE HostTakes(i) \/ HostTakesUnheard(i) \/ Quit(i)
  <2>1. \/ pc[i] = "body" /\ pc'[i] \in {"quit", "host", "body"}
        \/ pc[i] = "quit" /\ pc'[i] \in {"next", "host"}
    BY <1>8 DEF HostTakes, HostTakesUnheard, Taken, Quit, WhenDelivered, TypeOK
  <2>2. todo'[i] = todo[i] /\ left'[i] = left[i]
    BY <1>8 DEF HostTakes, HostTakesUnheard, Taken, Quit
  <2> QED
    BY <1>4, <2>1, <2>2 DEF Place
<1>9. CASE FallSilent(i) \/ ClientLeaves(i)
  BY <1>9 DEF FallSilent, ClientLeaves, sendState
<1>10. CASE ProcessEnds
  <2>1. pc'[i] = "killed" /\ pc[i] \in Running
    BY <1>10 DEF ProcessEnds
  <2>2. todo'[i] = todo[i] /\ left'[i] = left[i]
    BY <1>10 DEF ProcessEnds
  <2> QED
    BY <1>4, <2>1, <2>2 DEF Place, Running, Stages
<1>11. ~(BadRequest(i) \/ Accept(i))
  BY DEF BadRequest, Accept, Begin, Running, Stages
<1> QED
  BY <1>1, <1>2, <1>3, <1>5, <1>6, <1>7, <1>8, <1>9, <1>10, <1>11 DEF Next, Steps

\* The senders keep their types, and a group is never given to a host that is
\* not its relay or an exchanger of its one domain.
THEOREM TypeCorrect == Spec => []TypeOK
<1>1. Inv => TypeOK
  BY DEF Inv
<1> QED
  BY <1>1, InvHolds, PTL

\* "accepted" is answered only when a host has taken the mail for everybody.
THEOREM AcceptedMeansDeliveredHolds == Spec => []AcceptedMeansDelivered
<1>1. Inv => AcceptedMeansDelivered
  BY DEF Inv
<1> QED
  BY <1>1, InvHolds, PTL

\* "rejected" is never answered when all hosts took the mail and said so.
THEOREM RejectedHasReasonHolds == Spec => []RejectedHasReason
<1>1. Inv => RejectedHasReason
  BY DEF Inv
<1> QED
  BY <1>1, InvHolds, PTL

\* Nobody gets the mail twice but by a lost answer or by asking again.
THEOREM DuplicateOnlyIfExcusedHolds == Spec => []DuplicateOnlyIfExcused
<1>1. Inv => DuplicateOnlyIfExcused
  BY DEF Inv
<1> QED
  BY <1>1, InvHolds, PTL

\* Each step of a running try takes it closer to its end, by groups, then hosts,
\* then stages, whatever fails and whatever the other tries do.
THEOREM SendGetsOnHolds == Spec => SendGetsOn
<1>1. Inv /\ LeftOK /\ [Next]_vars =>
        [\A i \in Try : pc[i] \in Running =>
            Closer(i) \/ UNCHANGED <<todo[i], left[i], pc[i]>>]_vars
  BY GetsOn DEF Inv
<1> QED
  BY <1>1, InvHolds, LeftHolds, PTL DEF Spec, SendGetsOn
=============================================================================
