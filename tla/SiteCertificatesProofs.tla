------------------------ MODULE SiteCertificatesProofs ------------------------
(***************************************************************************)
(* Type correctness of SiteCertificates; that a certificate is always       *)
(* stored with its own key when clients leave the certificate out of what   *)
(* they save; and that a site is not left with the certificate of another   *)
(* domain unless a request for its own was lost.                            *)
(***************************************************************************)
EXTENDS SiteCertificates, SequenceTheorems, TLAPS

\* A client that is not idle has a site, and what it is about to write is a whole row.
PayShape == \A o \in Operator : /\ op[o].pc # "idle" => op[o].site # 0
                                /\ op[o].pc = "update" => op[o].pay \in Row

\* A certificate that a request is about to write comes with its key.
PayFits == \A o \in Operator :
    (op[o].pc = "update" /\ op[o].pay.cert # Null) => op[o].pay.key = op[o].pay.cert

TInv == TypeOK /\ PayShape
IInv == CertMatchesKey /\ PayFits

-----------------------------------------------------------------------------
(* Rows, requests and the queue. *)

\* A status written over a row leaves a row.
LEMMA SetStatusRow ==
    ASSUME NEW r \in Row, NEW t \in {"queued", "syncing", "valid", "failed", "none"}
    PROVE  [r EXCEPT !.status = t] \in Row
BY DEF Row

\* Enqueue keeps the queue within its capacity.
LEMMA EnqueueType ==
    ASSUME queue \in Seq(1 .. lastSite), Len(queue) <= QueueCap, NEW s \in 1 .. lastSite,
           QueueCap \in Nat, lastSite \in Nat, Enqueue(s)
    PROVE  queue' \in Seq(1 .. lastSite) /\ Len(queue') <= QueueCap
<1>1. CASE Len(queue) < QueueCap
  <2>1. queue' = Append(queue, s)
    BY <1>1 DEF Enqueue
  <2>2. Append(queue, s) \in Seq(1 .. lastSite) /\ Len(Append(queue, s)) = Len(queue) + 1
    OBVIOUS
  <2>3. Len(queue) \in Nat
    OBVIOUS
  <2> QED BY <1>1, <2>1, <2>2, <2>3
<1>2. CASE ~(Len(queue) < QueueCap)
  BY <1>2 DEF Enqueue
<1> QED BY <1>1, <1>2

\* Writing a status touches nothing but that status.
LEMMA SetStatusType ==
    ASSUME lastSite \in Nat, Live \subseteq 1 .. lastSite, \A s \in Live : row[s] \in Row,
           NEW n, NEW t \in {"queued", "syncing", "valid", "failed", "none"}, SetStatus(n, t)
    PROVE  /\ Live' = Live
           /\ \A s \in Live : row'[s] \in Row
           /\ \A s \in Live : row'[s].cert = row[s].cert /\ row'[s].key = row[s].key
<1>1. CASE n \in Live
  <2>1. row' = [row EXCEPT ![n].status = t]
    BY <1>1 DEF SetStatus
  <2>2. \A s \in Live : row'[s] = IF s = n THEN [row[n] EXCEPT !.status = t] ELSE row[s]
    BY <2>1 DEF Live
  <2>3. [row[n] EXCEPT !.status = t] \in Row
    BY <1>1, SetStatusRow
  <2>4. /\ [row[n] EXCEPT !.status = t].cert = row[n].cert
        /\ [row[n] EXCEPT !.status = t].key = row[n].key
    BY <1>1 DEF Row
  <2> QED BY <2>1, <2>2, <2>3, <2>4 DEF Live
<1>2. CASE n \notin Live
  BY <1>2 DEF SetStatus, Live
<1> QED BY <1>1, <1>2

\* Job replaces what one client is doing.
LEMMA JobType ==
    ASSUME op \in [Operator -> Jobs], NEW o \in Operator, NEW j \in Jobs, Job(o, j)
    PROVE  /\ op' \in [Operator -> Jobs]
           /\ \A q \in Operator : op'[q] = IF q = o THEN j ELSE op[q]
BY DEF Job

\* A client and a worker at rest have their shapes.
LEMMA NoJobType == lastSite \in Nat => NoJob \in Jobs /\ NoWork \in Works
BY DEF NoJob, NoRow, NoWork, Jobs, Works

\* Moving a client on to another step keeps its shape.
LEMMA JobStep ==
    ASSUME NEW j \in Jobs, NEW pc \in {"idle", "page", "update", "reload", "mark", "send"}
    PROVE  [j EXCEPT !.pc = pc] \in Jobs
BY DEF Jobs

\* A request that starts afresh has the shape of a request.
LEMMA NewJob ==
    ASSUME lastSite \in Nat, NEW s \in 0 .. lastSite,
           NEW pc \in {"idle", "page", "update", "reload", "mark", "send"}
    PROVE  [NoJob EXCEPT !.pc = pc, !.site = s] \in Jobs
BY DEF NoJob, NoRow, Jobs

\* Moving the worker on to another step keeps its shape.
LEMMA WorkStep ==
    ASSUME NEW w \in Works,
           NEW pc \in {"idle", "load", "mark", "obtain", "fail", "store", "final"}
    PROVE  [w EXCEPT !.pc = pc] \in Works
BY DEF Works

\* The row that clearSiteSslConfiguration leaves is a row.
LEMMA RowDomain ==
    ASSUME NEW d \in Domain
    PROVE  [NoRow EXCEPT !.domain = d] \in Row
BY DEF NoRow, Row

-----------------------------------------------------------------------------
(* Saves. *)

\* What SaveAs is given is a row: so is what it leaves to be written.
LEMMA SaveAsType ==
    ASSUME op \in [Operator -> Jobs], PayShape, NEW o \in Operator, NEW pay \in Row,
           op[o].pc = "page", SaveAs(o, pay)
    PROVE  /\ op' \in [Operator -> Jobs]
           /\ PayShape'
           /\ op'[o].pay.cert = pay.cert /\ op'[o].pay.key = pay.key
           /\ \A q \in Operator \ {o} : op'[q] = op[q]
<1> DEFINE issue == ShouldIssue(row[op[o].site], pay.domain, pay.ssl)
           p == IF issue THEN [pay EXCEPT !.status = "queued"] ELSE pay
           j == [op[o] EXCEPT !.pc = "update", !.issue = issue, !.pay = p]
<1>1. p \in Row /\ p.cert = pay.cert /\ p.key = pay.key
  BY DEF Row
<1>2. issue \in BOOLEAN
  BY DEF ShouldIssue
<1> HIDE DEF p, issue
<1>3. op[o] \in Jobs
  OBVIOUS
<1>4. j \in Jobs /\ j.pay = p /\ j.site = op[o].site
  BY <1>1, <1>2, <1>3 DEF Jobs
<1>5. Job(o, j)
  BY DEF SaveAs, p, issue
<1> HIDE DEF j
<1>6. /\ op' \in [Operator -> Jobs]
      /\ \A q \in Operator : op'[q] = IF q = o THEN j ELSE op[q]
  BY <1>4, <1>5, JobType
<1> QED BY <1>1, <1>4, <1>6 DEF PayShape

\* Every kind of save makes a row.
LEMMA ManagedRow ==
    ASSUME NEW old \in Row, NEW v \in Row \cup {NoRow}, NEW d \in Domain,
           NEW c \in Pair \cup {Null}, NEW e \in Pair \cup {Null}
    PROVE  Managed(old, v, d, c, e) \in Row
<1>1. v.status \in {"queued", "syncing", "valid", "failed", "none"}
  BY DEF Row, NoRow
<1>2. old.cert \in Pair \cup {Null} /\ old.key \in Pair \cup {Null} /\ old.expiry \in Pair \cup {Null}
  BY DEF Row
<1> QED BY <1>1, <1>2 DEF Managed, Row

\* An uploaded certificate makes a row that holds that certificate and its key.
LEMMA CustomRow ==
    ASSUME NEW v \in Row \cup {NoRow}, NEW d \in Domain, NEW c \in Pair, NEW k \in Pair
    PROVE  Custom(v, d, c, k) \in Row /\ Custom(v, d, c, k).cert = c /\ Custom(v, d, c, k).key = k
<1>1. CASE v \in Row
  BY <1>1 DEF Custom, Row
<1>2. CASE v = NoRow
  BY <1>2 DEF Custom, Row, NoRow
<1> QED BY <1>1, <1>2

\* UpdateCertificate writes one pair, certificate and key, into a row.
LEMMA WithCertificateRow ==
    ASSUME NEW r \in Row, NEW p \in Pair \cup {Null}
    PROVE  /\ WithCertificate(r, p) \in Row
           /\ WithCertificate(r, p).cert = p /\ WithCertificate(r, p).key = p
BY DEF WithCertificate, Row

\* What sites.Update stores is a row with the certificate sent and the key kept or sent.
LEMMA StoredRow ==
    ASSUME NEW old \in Row, NEW pay \in Row
    PROVE  /\ [pay EXCEPT !.key = StoredKey(old, pay)] \in Row
           /\ [pay EXCEPT !.key = StoredKey(old, pay)].cert = pay.cert
           /\ [pay EXCEPT !.key = StoredKey(old, pay)].key = StoredKey(old, pay)
BY DEF StoredKey, Row

-----------------------------------------------------------------------------
(* Type correctness. *)

\* What TypeOK says of the variables that a step of a request leaves alone.
LEMMA OnlyJobs ==
    ASSUME TInv, UNCHANGED <<db, certFor, queue, issuer, due>>,
           aged' \subseteq Pair, op' \in [Operator -> Jobs], PayShape',
           events' \in 0 .. MaxEvent, faults' \in 0 .. MaxFault
    PROVE  TInv'
BY DEF TInv, TypeOK, db, Live, Jobs, Works

\* The same for a step that also writes a row of a site.
LEMMA JobsAndRow ==
    ASSUME TInv, UNCHANGED <<lastSite, certs, queue, issuer, due>>,
           Live' \subseteq Live, \A s \in Live' : row'[s] \in Row, rolledBack' \in BOOLEAN,
           op' \in [Operator -> Jobs], PayShape',
           events' \in 0 .. MaxEvent, faults' \in 0 .. MaxFault
    PROVE  TInv'
BY DEF TInv, TypeOK, certs, Jobs, Works

\* The same for a step of the worker or the renewal loop.
LEMMA WorkAndRow ==
    ASSUME TInv, UNCHANGED <<lastSite, rolledBack, op>>,
           Live' \subseteq Live, \A s \in Live' : row'[s] \in Row,
           certFor' \in [Pair -> Domain \cup {Null}], aged' \subseteq Pair,
           queue' \in Seq(1 .. lastSite), Len(queue') <= QueueCap,
           issuer' \in Works, due' \subseteq due,
           events' \in 0 .. MaxEvent, faults' \in 0 .. MaxFault
    PROVE  TInv'
BY DEF TInv, TypeOK, PayShape, Jobs, Works

\* Counting an event or a fault stays within its bound.
LEMMA Counters ==
    ASSUME TInv
    PROVE  /\ NoEvent => events' \in 0 .. MaxEvent /\ faults' \in 0 .. MaxFault
           /\ Event => events' \in 0 .. MaxEvent
           /\ Fault => faults' \in 0 .. MaxFault
           /\ UNCHANGED events => events' \in 0 .. MaxEvent
           /\ UNCHANGED faults => faults' \in 0 .. MaxFault
BY SizeAssumption DEF TInv, TypeOK, NoEvent, Event, Fault

\* A request that moves on to a step other than the update keeps the requests' shape.
LEMMA JobShape ==
    ASSUME TInv, NEW o \in Operator, NEW j \in Jobs, Job(o, j),
           j.pc # "update", j.pc # "idle" => j.site # 0
    PROVE  op' \in [Operator -> Jobs] /\ PayShape'
<1>1. /\ op' \in [Operator -> Jobs]
      /\ \A q \in Operator : op'[q] = IF q = o THEN j ELSE op[q]
  BY JobType DEF TInv, TypeOK
<1> QED BY <1>1 DEF TInv, PayShape

\* A fresh certificate is known for its domain, and none out of use is due.
LEMMA FreshType ==
    ASSUME TInv, NEW p \in Pair, NEW d \in Domain \cup {Null}, Fresh(p, d)
    PROVE  certFor' \in [Pair -> Domain \cup {Null}] /\ aged' \subseteq Pair
BY DEF TInv, TypeOK, Fresh

\* Every step of a client keeps the types.
LEMMA RequestTypes ==
    ASSUME TInv, NEW o \in Operator,
           \/ LoadPage(o) \/ RenewNow(o) \/ Reload(o) \/ Send(o) \/ Abort(o) \/ ClosePage(o)
    PROVE  TInv'
<1>0. op[o] \in Jobs /\ lastSite \in Nat /\ op[o].site \in 0 .. lastSite /\ Live \subseteq 1 .. lastSite
  BY SizeAssumption DEF TInv, TypeOK, Jobs
<1>1. CASE LoadPage(o)
  <2>1. PICK s \in Live : Job(o, [NoJob EXCEPT !.pc = "page", !.site = s,
                                              !.view = [row[s] EXCEPT !.key = Null]])
    BY <1>1 DEF LoadPage
  <2> DEFINE v == [row[s] EXCEPT !.key = Null]
             j == [NoJob EXCEPT !.pc = "page", !.site = s, !.view = v]
  <2>2. v \in Row
    BY DEF TInv, TypeOK, Row
  <2> HIDE DEF v
  <2>s. s \in 0 .. lastSite /\ s # 0
    BY <1>0
  <2>3. j \in Jobs /\ j.pc = "page" /\ j.site # 0
    BY <2>s, <2>2 DEF NoJob, NoRow, Jobs
  <2>4. Job(o, j)
    BY <2>1 DEF v
  <2> HIDE DEF j
  <2> QED BY <1>1, <2>3, <2>4, JobShape, Counters, OnlyJobs DEF LoadPage, certs, TInv, TypeOK
<1>2. CASE RenewNow(o)
  <2>1. PICK s \in Live : Job(o, [NoJob EXCEPT !.pc = "mark", !.site = s])
    BY <1>2 DEF RenewNow
  <2> DEFINE j == [NoJob EXCEPT !.pc = "mark", !.site = s]
  <2>s. s \in 0 .. lastSite /\ s # 0
    BY <1>0
  <2>2. j \in Jobs /\ j.pc = "mark" /\ j.site # 0
    BY <2>s DEF NoJob, NoRow, Jobs
  <2>3. Job(o, j)
    BY <2>1
  <2> HIDE DEF j
  <2> QED BY <1>2, <2>2, <2>3, JobShape, Counters, OnlyJobs DEF RenewNow, certs, TInv, TypeOK
<1>3. CASE Reload(o)
  <2> DEFINE j == IF LetsEncrypt(op[o].site)
                  THEN [NoJob EXCEPT !.pc = "mark", !.site = op[o].site] ELSE NoJob
  <2>1. j \in Jobs
    BY <1>0, NewJob, NoJobType
  <2>2. op[o].site # 0
    <3>1. op[o].pc = "reload"
      BY <1>3 DEF Reload
    <3>2. op[o].pc # "idle"
      BY <3>1
    <3>3. PayShape
      BY DEF TInv
    <3> QED BY <3>2, <3>3 DEF PayShape
  <2>3. j.pc # "update" /\ (j.pc # "idle" => j.site # 0)
    BY <2>2 DEF NoJob
  <2>4. Job(o, j)
    BY <1>3 DEF Reload
  <2> HIDE DEF j
  <2> QED BY <1>3, <2>1, <2>3, <2>4, JobShape, Counters, OnlyJobs DEF Reload, certs, TInv, TypeOK
<1>4. NoJob \in Jobs /\ NoJob.pc = "idle"
  BY <1>0, NoJobType DEF NoJob
<1>5. CASE Send(o)
  <2>1. op[o].site \in 1 .. lastSite
    <3>1. op[o].pc = "send"
      BY <1>5 DEF Send
    <3>2. op[o].site # 0
      BY <3>1 DEF TInv, PayShape
    <3> QED BY <1>0, <3>2
  <2>2. op' \in [Operator -> Jobs] /\ PayShape'
    BY <1>4, <1>5, JobShape DEF Send
  <2>3. queue' \in Seq(1 .. lastSite) /\ Len(queue') <= QueueCap
    BY <1>0, <1>5, <2>1, EnqueueType, SizeAssumption DEF Send, TInv, TypeOK
  <2> QED BY <1>5, <2>2, <2>3, Counters DEF Send, TInv, TypeOK, db, certs, Live, Jobs, Works
<1>6. CASE Abort(o)
  <2> DEFINE j == [op[o] EXCEPT !.pc = "send"]
  <2>1. CASE op[o].pc = "mark" /\ Job(o, j)
    <3>1. op[o].site # 0
      BY <2>1 DEF TInv, PayShape
    <3>2. j \in Jobs /\ j.pc = "send" /\ j.site # 0
      BY <1>0, <3>1 DEF Jobs
    <3> HIDE DEF j
    <3> QED BY <1>6, <2>1, <3>2, JobShape, Counters, OnlyJobs DEF Abort, certs, TInv, TypeOK
  <2>2. CASE Job(o, NoJob)
    BY <1>4, <1>6, <2>2, JobShape, Counters, OnlyJobs DEF Abort, certs, TInv, TypeOK
  <2> QED BY <1>6, <2>1, <2>2 DEF Abort
<1>7. CASE ClosePage(o)
  BY <1>4, <1>7, JobShape, Counters, OnlyJobs DEF ClosePage, certs, TInv, TypeOK
<1> QED BY <1>1, <1>2, <1>3, <1>5, <1>6, <1>7

\* Every save hands a whole row on to be written.
LEMMA SavePays ==
    ASSUME TInv, NEW o \in Operator, Save(o)
    PROVE  op[o].pc = "page" /\ op[o].site \in Live /\ \E pay \in Row : SaveAs(o, pay)
<1>0. op[o].view \in Row \cup {NoRow} /\ \A s \in Live : row[s] \in Row
  BY DEF TInv, TypeOK, Jobs
<1>1. CASE SaveManaged(o)
  <2> DEFINE v == op[o].view
             old == row[op[o].site]
             c == IF Echo THEN v.cert ELSE Null
             e == IF Echo THEN v.expiry ELSE Null
  <2>1. PICK d \in Domain : SaveAs(o, Managed(old, v, d, c, e))
    BY <1>1 DEF SaveManaged
  <2>2. v.cert \in Pair \cup {Null} /\ v.expiry \in Pair \cup {Null}
    BY <1>0 DEF Row, NoRow
  <2>3. old \in Row
    BY <1>0, <1>1 DEF SaveManaged
  <2>4. Managed(old, v, d, c, e) \in Row
    <3>1. c \in Pair \cup {Null} /\ e \in Pair \cup {Null} /\ v \in Row \cup {NoRow}
      BY <1>0, <2>2
    <3> HIDE DEF v, old, c, e
    <3> QED BY <2>3, <3>1, ManagedRow
  <2>5. op[o].pc = "page" /\ op[o].site \in Live
    BY <1>1 DEF SaveManaged
  <2> HIDE DEF v, old, c, e
  <2> QED BY <2>1, <2>4, <2>5
<1>2. CASE Upload(o)
  <2>1. PICK d \in Domain, p \in Pair : SaveAs(o, Custom(op[o].view, d, p, p))
    BY <1>2 DEF Upload
  <2>2. Custom(op[o].view, d, p, p) \in Row
    BY <1>0, CustomRow
  <2> QED BY <1>2, <2>1, <2>2 DEF Upload
<1>3. CASE SaveCustom(o)
  <2> DEFINE c == op[o].view.cert
             old == row[op[o].site]
  <2>1. PICK d \in Domain : SaveAs(o, Custom(op[o].view, d, c, old.key))
    BY <1>3 DEF SaveCustom
  <2>2. old \in Row /\ op[o].pc = "page" /\ op[o].site \in Live /\ c # Null /\ old.key # Null
    BY <1>0, <1>3 DEF SaveCustom
  <2>3. c \in Pair /\ old.key \in Pair
    BY <1>0, <2>2 DEF Row, NoRow
  <2> HIDE DEF c, old
  <2>4. Custom(op[o].view, d, c, old.key) \in Row
    BY <1>0, <2>3, CustomRow
  <2> QED BY <2>1, <2>2, <2>4
<1>4. CASE SaveNone(o)
  <2>1. PICK d \in Domain : SaveAs(o, [NoRow EXCEPT !.domain = d])
    BY <1>4 DEF SaveNone
  <2>2. [NoRow EXCEPT !.domain = d] \in Row
    BY RowDomain
  <2> QED BY <1>4, <2>1, <2>2 DEF SaveNone
<1> QED BY <1>1, <1>2, <1>3, <1>4 DEF Save

\* Every save keeps the types.
LEMMA SaveTypes ==
    ASSUME TInv, NEW o \in Operator, Save(o)
    PROVE  TInv'
<1>1. op' \in [Operator -> Jobs] /\ PayShape'
  BY SavePays, SaveAsType DEF TInv, TypeOK
<1>2. CASE Upload(o)
  <2>1. PICK d \in Domain, p \in Pair : Fresh(p, d)
    BY <1>2 DEF Upload
  <2>2. certFor' \in [Pair -> Domain \cup {Null}] /\ aged' \subseteq Pair
    BY <2>1, FreshType
  <2> QED BY <1>1, <1>2, <2>2, Counters DEF Upload, TInv, TypeOK, db, Live, Jobs, Works
<1>3. CASE SaveManaged(o) \/ SaveCustom(o) \/ SaveNone(o)
  BY <1>1, <1>3, Counters, OnlyJobs DEF SaveManaged, SaveCustom, SaveNone, certs, TInv, TypeOK
<1> QED BY <1>2, <1>3 DEF Save

\* Creating, writing and marking a row keeps the types.
LEMMA WriteTypes ==
    ASSUME TInv, NEW o \in Operator,
           \/ CreateSite(o) \/ UndoCreate(o) \/ Update(o) \/ MarkQueued(o)
    PROVE  TInv'
<1>0. /\ op[o] \in Jobs /\ lastSite \in Nat /\ op[o].site \in 0 .. lastSite
      /\ Live \subseteq 1 .. lastSite /\ \A x \in Live : row[x] \in Row
  BY SizeAssumption DEF TInv, TypeOK, Jobs
<1>1. NoJob \in Jobs /\ NoJob.pc = "idle"
  BY <1>0, NoJobType DEF NoJob
<1>2. \A x : row' = Without(x) => Live' \subseteq Live /\ \A y \in Live' : row'[y] \in Row
  BY <1>0 DEF Without, Live
<1>3. CASE CreateSite(o)
  <2> DEFINE n == lastSite + 1
             j == [NoJob EXCEPT !.pc = "reload", !.site = n]
  <2>1. PICK d \in Domain, ssl \in {"letsencrypt", "none"} :
           /\ row' = [x \in Live \cup {n} |-> IF x = n
                        THEN [NoRow EXCEPT !.domain = d, !.ssl = ssl,
                                           !.status = IF ssl = "none" THEN "none" ELSE "queued"]
                        ELSE row[x]]
           /\ lastSite' = n
           /\ Job(o, j)
    BY <1>3 DEF CreateSite
  <2>2. [NoRow EXCEPT !.domain = d, !.ssl = ssl,
                      !.status = IF ssl = "none" THEN "none" ELSE "queued"] \in Row
    BY DEF NoRow, Row
  <2>3. Live' = Live \cup {n} /\ \A x \in Live' : row'[x] \in Row
    BY <1>0, <2>1, <2>2 DEF Live
  <2>4. Live' \subseteq 1 .. lastSite' /\ lastSite' \in 0 .. MaxSite /\ 0 .. lastSite \subseteq 0 .. lastSite'
    <3>1. lastSite < MaxSite
      BY <1>3 DEF CreateSite
    <3>2. lastSite' = lastSite + 1 /\ Live' = Live \cup {lastSite + 1}
      BY <2>1, <2>3
    <3> QED BY <1>0, <3>1, <3>2, SizeAssumption
  <2>5. n \in 0 .. n /\ n # 0 /\ lastSite' = n
    BY <1>0, <2>1
  <2>6. j \in Jobs' /\ j.pc = "reload" /\ j.site # 0
    BY <2>5 DEF NoJob, NoRow, Jobs, Row
  <2>7. Jobs \subseteq Jobs' /\ Works \subseteq Works'
    BY <2>4 DEF Jobs, Works, Row, NoRow
  <2>8. /\ op' \in [Operator -> Jobs']
        /\ \A q \in Operator : op'[q] = IF q = o THEN j ELSE op[q]
    <3>1. op \in [Operator -> Jobs]
      BY DEF TInv, TypeOK
    <3> HIDE DEF j
    <3> QED BY <2>1, <2>6, <2>7, <3>1 DEF Job
  <2>9. PayShape'
    <3> HIDE DEF j
    <3> QED BY <2>6, <2>8 DEF TInv, PayShape, Row
  <2>10. queue' \in Seq(1 .. lastSite') /\ due' \subseteq 1 .. lastSite'
    <3>1. queue \in Seq(1 .. lastSite) /\ due \subseteq 1 .. lastSite /\ UNCHANGED <<queue, due>>
      BY <1>3 DEF CreateSite, TInv, TypeOK
    <3>2. 1 .. lastSite \subseteq 1 .. lastSite'
      BY <1>0, <2>5
    <3> QED BY <3>1, <3>2, SeqMonotonic
  <2>11. /\ issuer' \in Works' /\ rolledBack' \in BOOLEAN /\ Len(queue') <= QueueCap
         /\ certFor' \in [Pair -> Domain \cup {Null}] /\ aged' \subseteq Pair
         /\ events' \in 0 .. MaxEvent /\ faults' \in 0 .. MaxFault
    BY <1>3, <2>7, Counters DEF CreateSite, TInv, TypeOK, certs
  <2> QED BY <2>3, <2>4, <2>8, <2>9, <2>10, <2>11 DEF TInv, TypeOK
<1>4. CASE UndoCreate(o)
  BY <1>1, <1>2, <1>4, JobShape, Counters, JobsAndRow DEF UndoCreate, TInv, TypeOK
<1>5. CASE Update(o)
  <2> DEFINE n == op[o].site
             pay == op[o].pay
             new == [pay EXCEPT !.key = StoredKey(row[n], pay)]
             j == IF op[o].issue THEN [op[o] EXCEPT !.pc = "reload"] ELSE NoJob
  <2>1. op[o].pc = "update" /\ n # 0 /\ pay \in Row
    BY <1>5 DEF Update, TInv, PayShape
  <2>2. CASE n \in Live /\ ~Taken(pay.domain, n)
    <3>1. row' = [row EXCEPT ![n] = new] /\ Job(o, j) /\ rolledBack' \in BOOLEAN
      BY <1>5, <2>2 DEF Update, TInv, TypeOK
    <3>2. new \in Row
      BY <1>0, <2>1, <2>2, StoredRow
    <3>3. j \in Jobs /\ j.pc # "update" /\ (j.pc # "idle" => j.site # 0)
      BY <1>0, <1>1, <2>1, JobStep DEF Jobs
    <3> HIDE DEF new, j
    <3>4. Live' \subseteq Live /\ \A x \in Live' : row'[x] \in Row
      BY <1>0, <3>1, <3>2 DEF Live
    <3> QED BY <1>5, <3>1, <3>3, <3>4, JobShape, Counters, JobsAndRow DEF Update
  <2>3. CASE ~(n \in Live /\ ~Taken(pay.domain, n))
    <3>1. UNCHANGED <<row, rolledBack>> /\ Job(o, NoJob)
      BY <1>5, <2>3 DEF Update
    <3> QED BY <1>1, <1>5, <3>1, JobShape, Counters, OnlyJobs DEF Update, TInv, TypeOK, db, certs
  <2> QED BY <2>2, <2>3
<1>6. CASE MarkQueued(o)
  <2> DEFINE j == [op[o] EXCEPT !.pc = "send"]
  <2>1. op[o].pc = "mark" /\ Job(o, j) /\ SetStatus(op[o].site, "queued")
    BY <1>6 DEF MarkQueued
  <2>2. op[o].site # 0
    BY <2>1 DEF TInv, PayShape
  <2>3. j \in Jobs /\ j.pc = "send" /\ j.site # 0
    BY <1>0, <2>2 DEF Jobs
  <2> HIDE DEF j
  <2>4. Live' \subseteq Live /\ \A x \in Live' : row'[x] \in Row
    BY <1>0, <2>1, SetStatusType
  <2> QED BY <1>6, <2>1, <2>3, <2>4, JobShape, Counters, JobsAndRow DEF MarkQueued, TInv, TypeOK
<1> QED BY <1>3, <1>4, <1>5, <1>6

\* Every step of the worker keeps the types.
LEMMA WorkerTypes ==
    ASSUME TInv, Worker \/ WorkFails
    PROVE  TInv'
<1>0. /\ issuer \in Works /\ lastSite \in Nat /\ Live \subseteq 1 .. lastSite
      /\ \A x \in Live : row[x] \in Row
      /\ queue \in Seq(1 .. lastSite) /\ Len(queue) <= QueueCap
  BY SizeAssumption DEF TInv, TypeOK
<1>1. NoWork \in Works
  BY <1>0, NoJobType
<1> DEFINE Kept == /\ UNCHANGED <<lastSite, rolledBack, op>>
                   /\ Live' \subseteq Live /\ \A s \in Live' : row'[s] \in Row
           Still == UNCHANGED <<lastSite, rolledBack, certs, queue, due, op>> /\ NoEvent
           Status == \E t \in {"queued", "valid", "failed"} : SetStatus(issuer.site, t)
<1>2. ASSUME Kept, certFor' \in [Pair -> Domain \cup {Null}], aged' \subseteq Pair,
             issuer' \in Works, UNCHANGED <<queue, due>>,
             events' \in 0 .. MaxEvent, faults' \in 0 .. MaxFault
      PROVE  TInv'
  BY <1>0, <1>2, WorkAndRow DEF TInv, TypeOK
<1>3. ASSUME Still, issuer' \in Works, Status PROVE TInv'
  <2>1. Kept
    BY <1>0, <1>3, SetStatusType
  <2> QED BY <1>2, <1>3, <2>1, Counters DEF certs, TInv, TypeOK
<1>4. UNCHANGED <<db, op>> => Kept
  BY <1>0 DEF db, Live
<1> HIDE DEF Kept
<1>5. CASE TakeSite
  <2>1. PICK n : n = Head(queue) /\ issuer' = [NoWork EXCEPT !.pc = "load", !.site = n]
    BY <1>5 DEF TakeSite, Work
  <2>2. queue # <<>>
    BY <1>5 DEF TakeSite
  <2>3. n \in 1 .. lastSite /\ Tail(queue) \in Seq(1 .. lastSite) /\ Len(Tail(queue)) = Len(queue) - 1
    BY <1>0, <2>1, <2>2, HeadTailProperties
  <2>4. n \in 0 .. lastSite
    BY <2>3
  <2>5. issuer' \in Works
    BY <2>1, <2>4 DEF NoWork, Works
  <2>6. queue' \in Seq(1 .. lastSite) /\ Len(queue') <= QueueCap
    <3>1. Len(queue) \in Nat
      BY <1>0
    <3> QED BY <1>0, <1>5, <2>3, <3>1, SizeAssumption DEF TakeSite
  <2> QED BY <1>0, <1>5, <2>5, <2>6, Counters, WorkAndRow DEF TakeSite, db, certs, TInv, TypeOK, Live
<1>6. CASE LoadSite
  <2>1. row[issuer.site].domain \in Domain \/ ~LetsEncrypt(issuer.site)
    BY <1>0 DEF LetsEncrypt, Row
  <2>2. [issuer EXCEPT !.pc = "mark", !.domain = row[issuer.site].domain] \in Works
        \/ ~LetsEncrypt(issuer.site)
    BY <1>0, <2>1 DEF Works
  <2>3. issuer' \in Works
    BY <1>1, <1>6, <2>2 DEF LoadSite, Work
  <2> QED BY <1>2, <1>4, <1>6, <2>3, Counters DEF LoadSite, db, certs, TInv, TypeOK
<1>7. CASE Progress
  BY <1>0, <1>3, <1>7, WorkStep DEF Progress, Work
<1>8. CASE ObtainOk
  <2>1. PICK p \in Pair : Fresh(p, issuer.domain) /\ issuer' = [issuer EXCEPT !.pc = "store", !.pair = p]
    BY <1>8 DEF ObtainOk, Work
  <2>2. issuer' \in Works
    BY <1>0, <2>1 DEF Works
  <2>3. certFor' \in [Pair -> Domain \cup {Null}] /\ aged' \subseteq Pair
    <3>1. issuer.domain \in Domain \cup {Null}
      BY <1>0 DEF Works
    <3> QED BY <2>1, <3>1, FreshType
  <2> QED BY <1>2, <1>4, <1>8, <2>2, <2>3, Counters DEF ObtainOk, db, TInv, TypeOK
<1>9. CASE ObtainFail
  BY <1>0, <1>2, <1>4, <1>9, WorkStep, Counters DEF ObtainFail, Work, certs, TInv, TypeOK
<1>10. CASE MarkFailed
  BY <1>1, <1>3, <1>10 DEF MarkFailed, Work
<1>11. CASE StoreCertificate
  <2>1. CASE issuer.site \in Live
    <3>1. /\ row' = [row EXCEPT ![issuer.site] = WithCertificate(row[issuer.site], issuer.pair)]
          /\ issuer' = [issuer EXCEPT !.pc = "final"]
      BY <1>11, <2>1 DEF StoreCertificate, Work
    <3>2. WithCertificate(row[issuer.site], issuer.pair) \in Row
      <4>1. issuer.pair \in Pair \cup {Null}
        BY <1>0 DEF Works
      <4> QED BY <1>0, <2>1, <4>1, WithCertificateRow
    <3>3. Live' \subseteq Live /\ \A s \in Live' : row'[s] \in Row
      BY <1>0, <3>1, <3>2 DEF Live
    <3>4. Kept
      BY <1>11, <3>3 DEF Kept, StoreCertificate
    <3>5. issuer' \in Works
      BY <1>0, <3>1, WorkStep
    <3> QED BY <1>2, <1>11, <3>4, <3>5, Counters DEF StoreCertificate, certs, TInv, TypeOK
  <2>2. CASE issuer.site \notin Live
    <3>1. row' = row /\ issuer' = [issuer EXCEPT !.pc = "fail"]
      BY <1>11, <2>2 DEF StoreCertificate, Work
    <3>2. issuer' \in Works
      BY <1>0, <3>1, WorkStep
    <3> QED BY <1>2, <1>4, <1>11, <3>1, <3>2, Counters DEF StoreCertificate, db, certs, TInv, TypeOK
  <2> QED BY <2>1, <2>2
<1>12. CASE MarkIssued
  BY <1>1, <1>3, <1>12 DEF MarkIssued, Work
<1>13. CASE WorkFails
  BY <1>0, <1>1, <1>2, <1>4, <1>13, WorkStep, Counters DEF WorkFails, Work, certs, TInv, TypeOK
<1> QED BY <1>5, <1>6, <1>7, <1>8, <1>9, <1>10, <1>11, <1>12, <1>13 DEF Worker

\* The renewal loop and the environment keep the types.
LEMMA LoopTypes ==
    ASSUME TInv, RenewTick \/ RenewSend \/ (\E p \in Pair : FallDue(p)) \/ Restart
    PROVE  TInv'
<1>0. lastSite \in Nat /\ QueueCap \in Nat
  BY SizeAssumption DEF TInv, TypeOK
<1>1. CASE RenewTick
  <2>1. due' \subseteq 1 .. lastSite
    BY <1>1 DEF RenewTick, TInv, TypeOK
  <2>2. UNCHANGED <<db, certs, queue, issuer, op>> /\ NoEvent
    BY <1>1 DEF RenewTick
  <2> QED BY <2>1, <2>2, Counters DEF TInv, TypeOK, PayShape, db, certs, Live, Jobs, Works
<1>2. CASE RenewSend
  <2>1. PICK s \in due : Enqueue(s) /\ due' = due \ {s}
    BY <1>2 DEF RenewSend
  <2>2. queue' \in Seq(1 .. lastSite) /\ Len(queue') <= QueueCap
    BY <1>0, <2>1, EnqueueType DEF TInv, TypeOK
  <2> QED BY <1>2, <2>1, <2>2, Counters, WorkAndRow DEF RenewSend, TInv, TypeOK, db, certs, Live
<1>3. CASE \E p \in Pair : FallDue(p)
  BY <1>3, Counters DEF FallDue, TInv, TypeOK, PayShape, db, Live, Jobs, Works
<1>4. CASE Restart
  <2>1. NoJob \in Jobs /\ NoWork \in Works /\ NoJob.pc = "idle"
    BY <1>0, NoJobType DEF NoJob
  <2>2. op' \in [Operator -> Jobs] /\ PayShape'
    BY <1>4, <2>1 DEF Restart, TInv, TypeOK, PayShape
  <2>3. <<>> \in Seq(1 .. lastSite) /\ Len(<<>>) = 0
    OBVIOUS
  <2>4. queue' \in Seq(1 .. lastSite) /\ Len(queue') <= QueueCap
    BY <1>0, <1>4, <2>3 DEF Restart
  <2> QED BY <1>4, <2>1, <2>2, <2>4, Counters DEF Restart, TInv, TypeOK, db, certs, Live, Jobs, Works
<1> QED BY <1>1, <1>2, <1>3, <1>4

\* The types hold in every state, whatever the numbers of sites, clients and certificates.
THEOREM TInvHolds == Spec => []TInv
<1>1. Init => TInv
  <2> SUFFICES ASSUME Init PROVE TInv
    OBVIOUS
  <2>1. lastSite = 0 /\ queue = <<>> /\ due = {} /\ Live = {}
    BY DEF Init, Live
  <2>2. /\ op \in [Operator -> Jobs] /\ issuer \in Works
        /\ \A o \in Operator : op[o].pc = "idle"
    <3>1. NoJob \in Jobs /\ NoWork \in Works /\ NoJob.pc = "idle"
      BY <2>1, NoJobType DEF NoJob
    <3> QED BY <3>1 DEF Init
  <2>3. queue \in Seq(1 .. lastSite) /\ Len(queue) <= QueueCap
    <3>1. <<>> \in Seq(1 .. lastSite) /\ Len(<<>>) = 0
      OBVIOUS
    <3> QED BY <2>1, <3>1, SizeAssumption
  <2>4. PayShape
    BY <2>2 DEF PayShape
  <2>5. certFor \in [Pair -> Domain \cup {Null}] /\ aged \subseteq Pair /\ rolledBack \in BOOLEAN
    BY DEF Init
  <2>6. lastSite \in 0 .. MaxSite /\ events \in 0 .. MaxEvent /\ faults \in 0 .. MaxFault
    BY SizeAssumption DEF Init
  <2> QED BY <2>1, <2>2, <2>3, <2>4, <2>5, <2>6 DEF TInv, TypeOK
<1>2. TInv /\ [Next]_vars => TInv'
  <2> SUFFICES ASSUME TInv, [Next]_vars PROVE TInv'
    OBVIOUS
  <2>1. CASE UNCHANGED vars
    BY <2>1 DEF vars, db, certs, TInv, TypeOK, PayShape, Live, Jobs, Works
  <2>2. ASSUME NEW o \in Operator, CreateSite(o) \/ UndoCreate(o) \/ Update(o) \/ MarkQueued(o) PROVE TInv'
    BY <2>2, WriteTypes
  <2>3. ASSUME NEW o \in Operator,
               LoadPage(o) \/ RenewNow(o) \/ Reload(o) \/ Send(o) \/ Abort(o) \/ ClosePage(o)
        PROVE  TInv'
    BY <2>3, RequestTypes
  <2>4. ASSUME NEW o \in Operator, Save(o) PROVE TInv'
    BY <2>4, SaveTypes
  <2>5. ASSUME NEW s \in Site, DeleteSite(s) PROVE TInv'
    <3>1. Live' \subseteq Live /\ \A y \in Live' : row'[y] \in Row
      BY <2>5 DEF DeleteSite, Without, Live, TInv, TypeOK
    <3> QED BY <2>5, <3>1, Counters, JobsAndRow DEF DeleteSite, TInv, TypeOK, PayShape, Jobs
  <2> QED BY <2>1, <2>2, <2>3, <2>4, <2>5, WorkerTypes, LoopTypes DEF Next, Request
<1> QED BY <1>1, <1>2, PTL DEF Spec

\* Every variable keeps its type; in particular the queue stays within its capacity.
THEOREM TypeCorrect == Spec => []TypeOK
<1>1. TInv => TypeOK
  BY DEF TInv
<1> QED BY <1>1, TInvHolds, PTL

-----------------------------------------------------------------------------
(* A certificate is stored with its own key. *)

\* Nothing but a row's other columns changed, and no request is about to write more.
LEMMA KeysKept ==
    ASSUME IInv, Live' \subseteq Live,
           \A s \in Live' : row'[s].cert = row[s].cert /\ row'[s].key = row[s].key,
           \A o \in Operator : op'[o] = op[o] \/ op'[o].pc # "update"
    PROVE  IInv'
BY DEF IInv, CertMatchesKey, PayFits

\* A request that moves on to a step other than the update writes nothing yet.
LEMMA JobMoves ==
    ASSUME TInv, NEW o \in Operator, NEW j, Job(o, j), j.pc # "update"
    PROVE  \A q \in Operator : op'[q] = op[q] \/ op'[q].pc # "update"
BY DEF TInv, TypeOK, Job

\* What a save leaves to be written fits, as the row it has read does.
LEMMA SaveFits ==
    ASSUME ~Echo, TInv, IInv, NEW o \in Operator, Save(o)
    PROVE  IInv'
<1>0. op[o].view \in Row \cup {NoRow} /\ \A s \in Live : row[s] \in Row
  BY DEF TInv, TypeOK, Jobs
<1>1. ASSUME NEW pay \in Row, SaveAs(o, pay), UNCHANGED row, op[o].pc = "page",
             pay.cert # Null => pay.key = pay.cert
      PROVE  IInv'
  <2>1. /\ op'[o].pay.cert = pay.cert /\ op'[o].pay.key = pay.key
        /\ \A q \in Operator \ {o} : op'[q] = op[q]
    BY <1>1, SaveAsType DEF TInv, TypeOK
  <2> QED BY <1>1, <2>1 DEF IInv, CertMatchesKey, PayFits, Live
<1>2. CASE SaveManaged(o)
  <2> DEFINE v == op[o].view
             old == row[op[o].site]
             e == IF Echo THEN v.expiry ELSE Null
  <2>1. PICK d \in Domain : SaveAs(o, Managed(old, v, d, Null, Null))
    BY <1>2 DEF SaveManaged
  <2>2. old \in Row /\ (old.cert # Null => old.key = old.cert)
    BY <1>0, <1>2 DEF SaveManaged, IInv, CertMatchesKey
  <2>3. Managed(old, v, d, Null, Null) \in Row
    <3>1. v \in Row \cup {NoRow}
      BY <1>0
    <3> HIDE DEF v, old
    <3> QED BY <2>2, <3>1, ManagedRow
  <2>4. /\ Managed(old, v, d, Null, Null).cert = old.cert
        /\ Managed(old, v, d, Null, Null).key = old.key
    BY DEF Managed
  <2>5. UNCHANGED row /\ op[o].pc = "page"
    BY <1>2 DEF SaveManaged, db
  <2> HIDE DEF v, old
  <2> QED BY <1>1, <2>1, <2>2, <2>3, <2>4, <2>5
<1>3. CASE Upload(o)
  <2>1. PICK d \in Domain, p \in Pair : SaveAs(o, Custom(op[o].view, d, p, p))
    BY <1>3 DEF Upload
  <2> DEFINE pay == Custom(op[o].view, d, p, p)
  <2>2. pay \in Row /\ pay.cert = p /\ pay.key = p
    <3> DEFINE v == op[o].view
    <3>1. v \in Row \cup {NoRow}
      BY <1>0
    <3> HIDE DEF v
    <3>2. Custom(v, d, p, p) \in Row /\ Custom(v, d, p, p).cert = p /\ Custom(v, d, p, p).key = p
      BY <3>1, CustomRow
    <3> QED BY <3>2 DEF v
  <2>3. UNCHANGED row /\ op[o].pc = "page"
    BY <1>3 DEF Upload, db
  <2> HIDE DEF pay
  <2>4. SaveAs(o, pay)
    BY <2>1 DEF pay
  <2> QED BY <1>1, <2>2, <2>3, <2>4
<1>4. CASE SaveCustom(o)
  <2> DEFINE c == op[o].view.cert
             old == row[op[o].site]
  <2>1. PICK d \in Domain : SaveAs(o, Custom(op[o].view, d, c, old.key))
    BY <1>4 DEF SaveCustom
  <2>2. /\ old \in Row /\ op[o].pc = "page" /\ c # Null /\ old.key # Null /\ UNCHANGED row
        /\ c \in {old.cert, old.key}
    <3>1. op[o].site \in Live
      BY <1>4 DEF SaveCustom
    <3>2. op[o].pc = "page" /\ UNCHANGED row
      BY <1>4 DEF SaveCustom, db
    <3>3. c # Null /\ old.key # Null /\ c \in {old.cert, old.key}
      BY <1>4 DEF SaveCustom
    <3> QED BY <1>0, <3>1, <3>2, <3>3
  <2>3. old.cert # Null => old.key = old.cert
    BY <1>4 DEF SaveCustom, IInv, CertMatchesKey
  <2>4. c \in Pair /\ old.key \in Pair /\ c = old.key
    BY <2>2, <2>3 DEF Row
  <2> HIDE DEF c, old
  <2>5. /\ Custom(op[o].view, d, c, old.key) \in Row
        /\ Custom(op[o].view, d, c, old.key).cert = c
        /\ Custom(op[o].view, d, c, old.key).key = old.key
    <3>1. PICK v : v = op[o].view
      OBVIOUS
    <3>2. PICK p \in Pair : p = c /\ p = old.key
      BY <2>4
    <3>3. v \in Row \cup {NoRow}
      BY <1>0, <3>1
    <3>4. Custom(v, d, p, p) \in Row /\ Custom(v, d, p, p).cert = p /\ Custom(v, d, p, p).key = p
      BY <3>3, CustomRow
    <3> QED BY <3>1, <3>2, <3>4
  <2> DEFINE r == Custom(op[o].view, d, c, old.key)
  <2>6. r \in Row /\ r.cert = c /\ r.key = old.key /\ SaveAs(o, r)
    BY <2>1, <2>5
  <2> HIDE DEF r
  <2> QED BY <1>1, <2>2, <2>4, <2>6
<1>5. CASE SaveNone(o)
  <2>1. PICK d \in Domain : SaveAs(o, [NoRow EXCEPT !.domain = d])
    BY <1>5 DEF SaveNone
  <2> DEFINE pay == [NoRow EXCEPT !.domain = d]
  <2>2. pay \in Row /\ pay.cert = Null
    <3>1. pay \in Row
      BY RowDomain
    <3>2. pay.cert = Null
      BY DEF NoRow
    <3> QED BY <3>1, <3>2
  <2>3. UNCHANGED row /\ op[o].pc = "page"
    BY <1>5 DEF SaveNone, db
  <2>4. SaveAs(o, pay)
    BY <2>1
  <2> HIDE DEF pay
  <2> QED BY <1>1, <2>2, <2>3, <2>4
<1> QED BY <1>2, <1>3, <1>4, <1>5 DEF Save

\* Creating, writing and marking a row keeps certificates and keys together.
LEMMA WriteFits ==
    ASSUME TInv, IInv, NEW o \in Operator,
           CreateSite(o) \/ UndoCreate(o) \/ Update(o) \/ MarkQueued(o)
    PROVE  IInv'
<1>0. /\ op[o] \in Jobs /\ lastSite \in Nat /\ Live \subseteq 1 .. lastSite
      /\ \A x \in Live : row[x] \in Row
  BY SizeAssumption DEF TInv, TypeOK
<1>1. NoJob.pc = "idle"
  BY DEF NoJob
<1>2. CASE CreateSite(o)
  <2> DEFINE n == lastSite + 1
             j == [NoJob EXCEPT !.pc = "reload", !.site = n]
  <2>1. PICK d \in Domain, ssl \in {"letsencrypt", "none"} :
           /\ row' = [x \in Live \cup {n} |-> IF x = n
                        THEN [NoRow EXCEPT !.domain = d, !.ssl = ssl,
                                           !.status = IF ssl = "none" THEN "none" ELSE "queued"]
                        ELSE row[x]]
           /\ Job(o, j)
    BY <1>2 DEF CreateSite
  <2>2. CertMatchesKey'
    BY <2>1 DEF IInv, CertMatchesKey, NoRow, Live
  <2>3. j.pc = "reload"
    BY DEF NoJob
  <2> HIDE DEF j
  <2>4. \A q \in Operator : op'[q] = op[q] \/ op'[q].pc # "update"
    BY <2>1, <2>3, JobMoves
  <2> QED BY <2>2, <2>4 DEF IInv, PayFits
<1>3. CASE UndoCreate(o)
  <2>1. /\ Live' \subseteq Live
        /\ \A s \in Live' : row'[s].cert = row[s].cert /\ row'[s].key = row[s].key
    BY <1>3 DEF UndoCreate, Without, Live
  <2>2. \A q \in Operator : op'[q] = op[q] \/ op'[q].pc # "update"
    BY <1>1, <1>3, JobMoves DEF UndoCreate
  <2> QED BY <2>1, <2>2, KeysKept
<1>4. CASE Update(o)
  <2> DEFINE n == op[o].site
             pay == op[o].pay
             new == [pay EXCEPT !.key = StoredKey(row[n], pay)]
             j == IF op[o].issue THEN [op[o] EXCEPT !.pc = "reload"] ELSE NoJob
  <2>1. pay \in Row /\ (pay.cert # Null => pay.key = pay.cert)
    BY <1>4 DEF Update, TInv, PayShape, IInv, PayFits
  <2>2. CASE n \in Live /\ ~Taken(pay.domain, n)
    <3>1. row' = [row EXCEPT ![n] = new] /\ Job(o, j)
      BY <1>4, <2>2 DEF Update
    <3>2. new.cert = pay.cert /\ new.key = StoredKey(row[n], pay)
      BY <1>0, <2>1, <2>2, StoredRow
    <3>3. new.cert # Null => new.key = new.cert
      BY <2>1, <3>2 DEF StoredKey
    <3>4. j.pc # "update"
      BY <1>0, <1>1 DEF Jobs
    <3> HIDE DEF new, j
    <3>5. \A q \in Operator : op'[q] = op[q] \/ op'[q].pc # "update"
      BY <3>1, <3>4, JobMoves
    <3> QED BY <3>1, <3>3, <3>5 DEF IInv, CertMatchesKey, PayFits, Live
  <2>3. CASE ~(n \in Live /\ ~Taken(pay.domain, n))
    <3>1. row' = row /\ Job(o, NoJob)
      BY <1>4, <2>3 DEF Update
    <3>2. \A q \in Operator : op'[q] = op[q] \/ op'[q].pc # "update"
      BY <1>1, <3>1, JobMoves
    <3> QED BY <3>1, <3>2, KeysKept DEF Live
  <2> QED BY <2>2, <2>3
<1>5. CASE MarkQueued(o)
  <2> DEFINE j == [op[o] EXCEPT !.pc = "send"]
  <2>1. Job(o, j) /\ SetStatus(op[o].site, "queued")
    BY <1>5 DEF MarkQueued
  <2>2. j.pc = "send"
    BY <1>0 DEF Jobs
  <2> HIDE DEF j
  <2>3. \A q \in Operator : op'[q] = op[q] \/ op'[q].pc # "update"
    BY <2>1, <2>2, JobMoves
  <2>4. /\ Live' = Live
        /\ \A s \in Live : row'[s].cert = row[s].cert /\ row'[s].key = row[s].key
    BY <1>0, <2>1, SetStatusType
  <2> QED BY <2>3, <2>4, KeysKept
<1> QED BY <1>2, <1>3, <1>4, <1>5

\* Every step of the worker keeps certificates and keys together.
LEMMA WorkerFits ==
    ASSUME TInv, IInv, Worker \/ WorkFails
    PROVE  IInv'
<1>0. /\ issuer \in Works /\ lastSite \in Nat /\ Live \subseteq 1 .. lastSite
      /\ \A x \in Live : row[x] \in Row
  BY SizeAssumption DEF TInv, TypeOK
<1>1. ASSUME UNCHANGED row, op' = op PROVE IInv'
  BY <1>1, KeysKept DEF Live
<1>2. ASSUME NEW t \in {"queued", "valid", "failed"}, SetStatus(issuer.site, t), op' = op PROVE IInv'
  <2>1. /\ Live' = Live
        /\ \A s \in Live : row'[s].cert = row[s].cert /\ row'[s].key = row[s].key
    BY <1>0, <1>2, SetStatusType
  <2> QED BY <1>2, <2>1, KeysKept
<1>3. CASE StoreCertificate
  <2>1. CASE issuer.site \in Live
    <3>1. row' = [row EXCEPT ![issuer.site] = WithCertificate(row[issuer.site], issuer.pair)]
      BY <1>3, <2>1 DEF StoreCertificate
    <3>2. /\ WithCertificate(row[issuer.site], issuer.pair).cert = issuer.pair
          /\ WithCertificate(row[issuer.site], issuer.pair).key = issuer.pair
      <4>1. issuer.pair \in Pair \cup {Null}
        BY <1>0 DEF Works
      <4> QED BY <1>0, <2>1, <4>1, WithCertificateRow
    <3>3. CertMatchesKey'
      BY <3>1, <3>2 DEF IInv, CertMatchesKey, Live
    <3> QED BY <1>3, <3>3 DEF StoreCertificate, IInv, PayFits
  <2>2. CASE issuer.site \notin Live
    BY <1>1, <1>3, <2>2 DEF StoreCertificate
  <2> QED BY <2>1, <2>2
<1>4. CASE Progress \/ MarkFailed \/ MarkIssued
  BY <1>2, <1>4 DEF Progress, MarkFailed, MarkIssued
<1>5. CASE TakeSite \/ LoadSite \/ ObtainOk \/ ObtainFail \/ WorkFails
  BY <1>1, <1>5 DEF TakeSite, LoadSite, ObtainOk, ObtainFail, WorkFails, db
<1> QED BY <1>3, <1>4, <1>5 DEF Worker

\* For clients that leave the certificate out of what they save, a stored certificate is
\* always stored with its own private key: the COALESCE of sites.Update and the rewrite of
\* UpdateCertificate never mix two pairs, however saves and issuance overlap.
THEOREM CertificatesKeepTheirKey == ~Echo => (Spec => []CertMatchesKey)
<1> SUFFICES ASSUME ~Echo PROVE Spec => []CertMatchesKey
  OBVIOUS
<1>1. Init => IInv
  BY DEF Init, IInv, CertMatchesKey, PayFits, Live, NoJob
<1>2. TInv /\ IInv /\ [Next]_vars => IInv'
  <2> SUFFICES ASSUME TInv, IInv, [Next]_vars PROVE IInv'
    OBVIOUS
  <2>1. CASE UNCHANGED vars
    BY <2>1 DEF vars, db, IInv, CertMatchesKey, PayFits, Live
  <2>2. ASSUME NEW o \in Operator, CreateSite(o) \/ UndoCreate(o) \/ Update(o) \/ MarkQueued(o)
        PROVE  IInv'
    BY <2>2, WriteFits
  <2>3. ASSUME NEW o \in Operator, Save(o) PROVE IInv'
    BY <2>3, SaveFits
  <2>4. ASSUME NEW o \in Operator,
               LoadPage(o) \/ RenewNow(o) \/ Reload(o) \/ Send(o) \/ Abort(o) \/ ClosePage(o)
        PROVE  IInv'
    <3>1. NoJob.pc = "idle"
      BY DEF NoJob
    <3>2. PICK j : Job(o, j) /\ j.pc # "update"
      <4>1. CASE LoadPage(o)
        <5>1. PICK s \in Live : Job(o, [NoJob EXCEPT !.pc = "page", !.site = s,
                                                    !.view = [row[s] EXCEPT !.key = Null]])
          BY <4>1 DEF LoadPage
        <5>2. [NoJob EXCEPT !.pc = "page", !.site = s,
                            !.view = [row[s] EXCEPT !.key = Null]].pc = "page"
          BY DEF NoJob
        <5> QED BY <5>1, <5>2
      <4>2. CASE RenewNow(o)
        <5>1. PICK s \in Live : Job(o, [NoJob EXCEPT !.pc = "mark", !.site = s])
          BY <4>2 DEF RenewNow
        <5>2. [NoJob EXCEPT !.pc = "mark", !.site = s].pc = "mark"
          BY DEF NoJob
        <5> QED BY <5>1, <5>2
      <4>3. CASE Reload(o)
        <5>1. [NoJob EXCEPT !.pc = "mark", !.site = op[o].site].pc = "mark"
          BY DEF NoJob
        <5> QED BY <3>1, <4>3, <5>1 DEF Reload
      <4>4. CASE Abort(o)
        <5>1. [op[o] EXCEPT !.pc = "send"].pc = "send"
          BY DEF TInv, TypeOK, Jobs
        <5> QED BY <3>1, <4>4, <5>1 DEF Abort
      <4>5. CASE Send(o) \/ ClosePage(o)
        BY <3>1, <4>5 DEF Send, ClosePage
      <4> QED BY <2>4, <4>1, <4>2, <4>3, <4>4, <4>5
    <3>3. \A q \in Operator : op'[q] = op[q] \/ op'[q].pc # "update"
      BY <3>2, JobMoves
    <3>4. UNCHANGED row
      BY <2>4 DEF LoadPage, RenewNow, Reload, Send, Abort, ClosePage, db
    <3> QED BY <3>3, <3>4, KeysKept DEF Live
  <2>5. ASSUME NEW s \in Site, DeleteSite(s) PROVE IInv'
    <3>1. /\ Live' \subseteq Live
          /\ \A x \in Live' : row'[x].cert = row[x].cert /\ row'[x].key = row[x].key
      BY <2>5 DEF DeleteSite, Without, Live
    <3> QED BY <2>5, <3>1, KeysKept DEF DeleteSite
  <2>6. CASE RenewTick \/ RenewSend \/ (\E p \in Pair : FallDue(p))
    BY <2>6, KeysKept DEF RenewTick, RenewSend, FallDue, db, Live
  <2>7. CASE Restart
    <3>1. \A q \in Operator : op'[q] = op[q] \/ op'[q].pc # "update"
      BY <2>7 DEF Restart, NoJob
    <3> QED BY <2>7, <3>1, KeysKept DEF Restart, db, Live
  <2> QED BY <2>1, <2>2, <2>3, <2>4, <2>5, <2>6, <2>7, WorkerFits DEF Next, Request
<1>3. IInv => CertMatchesKey
  BY DEF IInv
<1> QED BY <1>1, <1>2, <1>3, TInvHolds, PTL DEF Spec

-----------------------------------------------------------------------------
(* No certificate of another domain, as long as no request is lost.          *)

\* One client of the panel.
OneClient == \A o, q \in Operator : o = q

Waiting == {queue[i] : i \in DOMAIN queue}

\* A step that loses no request for a certificate: no restart, the queue takes what it is
\* given or holds it already, a request is not cut off before it marks its site, and the
\* worker neither drops a site it has taken nor leaves a refusal unrecorded.
NothingLost ==
    /\ ~Restart
    /\ WorkFails => issuer.pc \notin {"load", "fail"}
    /\ \A o \in Operator : /\ Abort(o) => op[o].pc # "reload"
                           /\ Send(o) => op[o].site \in Waiting'
    /\ RenewSend => due \ due' \subseteq Waiting'

\* A certificate is still asked for: the worker has not read the site's domain yet.
Asked(s) ==
    \/ s \in Waiting \cup due
    \/ issuer.site = s /\ issuer.pc = "load"
    \/ \E o \in Operator : op[o].site = s /\ op[o].pc \in {"reload", "mark", "send"}

Foreign(s) == LetsEncrypt(s) /\ row[s].cert # Null /\ certFor[row[s].cert] # row[s].domain

\* When the worker has read another domain, the new one has been asked for since.
Outdated(s) ==
    LetsEncrypt(s) /\ issuer.site = s /\ issuer.pc \in {"mark", "obtain", "store", "final"}
                   /\ issuer.domain # row[s].domain => Asked(s)

\* A foreign certificate that looks valid is to be replaced, or the CA has refused one.
Replaced(s) ==
    Foreign(s) /\ row[s].status = "valid" =>
        \/ Asked(s)
        \/ issuer.site = s /\ issuer.pc \in {"mark", "obtain", "store"} /\ issuer.domain = row[s].domain
        \/ issuer.site = s /\ issuer.pc = "fail"

\* What the worker is about to call valid is not foreign, unless it is asked for again.
Finished(s) == Foreign(s) /\ issuer.site = s /\ issuer.pc = "final" => Asked(s)

\* What the worker is about to store was issued for the domain it has read.
Obtained == issuer.pc = "store" => issuer.pair # Null /\ certFor[issuer.pair] = issuer.domain

\* A save that asks for no certificate leaves provider and domain as they are.
Unasked(o) ==
    (op[o].pc = "update" /\ ~op[o].issue /\ op[o].pay.ssl = "letsencrypt" /\ op[o].site \in Live)
        => LetsEncrypt(op[o].site) /\ row[op[o].site].domain = op[o].pay.domain

Served(s) == Outdated(s) /\ Replaced(s) /\ Finished(s)
ForeignInv ==
    /\ Obtained /\ \A o \in Operator : Unasked(o)
    /\ ~rolledBack => \A s \in Live : Served(s)

\* The invariant implies the property.
LEMMA AskedOnItsWay == ASSUME TInv, ~rolledBack, ForeignInv PROVE NoForeignCertificate
<1> SUFFICES ASSUME NEW s \in Live, Foreign(s) PROVE OnItsWay(s)
  BY DEF NoForeignCertificate, Foreign
<1>1. CASE row[s].status # "valid"
  <2>1. row[s].status \in Unsettled
    BY <1>1 DEF TInv, TypeOK, Row, Unsettled, Issuing
  <2> QED BY <2>1 DEF OnItsWay, Needs
<1>2. CASE Asked(s)
  BY <1>2 DEF Asked, Waiting, OnItsWay
<1>3. CASE row[s].status = "valid" /\ ~Asked(s)
  BY <1>3 DEF ForeignInv, Served, Replaced, OnItsWay
<1> QED BY <1>1, <1>2, <1>3

\* Nothing that the invariant speaks of changed, but that statuses may have become others
\* than valid.
LEMMA RowsKept ==
    ASSUME ForeignInv, rolledBack => rolledBack', UNCHANGED issuer,
           \A s \in Live' : /\ s \in Live
                            /\ row'[s].domain = row[s].domain /\ row'[s].ssl = row[s].ssl
                            /\ row'[s].cert = row[s].cert
                            /\ row'[s].status = "valid" => row[s].status = "valid"
                            /\ row[s].cert # Null => certFor'[row[s].cert] = certFor[row[s].cert]
                            /\ LetsEncrypt(s) /\ Asked(s) => Asked(s)',
           issuer.pc = "store" => certFor'[issuer.pair] = certFor[issuer.pair],
           \A o \in Operator : Unasked(o)'
    PROVE  ForeignInv'
<1>1. Obtained'
  BY DEF ForeignInv, Obtained
<1>2. ASSUME NEW s \in Live', ~rolledBack' PROVE Served(s)'
  <2>1. Served(s) /\ ~rolledBack
    BY <1>2 DEF ForeignInv
  <2>2. LetsEncrypt(s)' => LetsEncrypt(s)
    BY DEF LetsEncrypt
  <2>3. Foreign(s)' => Foreign(s)
    BY <2>2 DEF Foreign
  <2>4. Outdated(s)'
    BY <2>1, <2>2 DEF Served, Outdated
  <2>5. Replaced(s)'
    BY <2>1, <2>2, <2>3 DEF Served, Replaced, Foreign
  <2>6. Finished(s)'
    BY <2>1, <2>2, <2>3 DEF Served, Finished, Foreign
  <2> QED BY <2>4, <2>5, <2>6 DEF Served
<1> QED BY <1>1, <1>2 DEF ForeignInv

\* The one client does what it is given to do next.
LEMMA OnlyClient ==
    ASSUME TInv, OneClient, NEW o \in Operator, NEW j, Job(o, j)
    PROVE  op'[o] = j /\ \A q \in Operator : q = o
BY DEF TInv, TypeOK, Job, OneClient

\* The certificates in use are still known for what they were issued for.
LEMMA KnownStill ==
    ASSUME TInv, NEW p \in Pair, NEW d, Fresh(p, d)
    PROVE  /\ \A s \in Live : row[s].cert # Null => certFor'[row[s].cert] = certFor[row[s].cert]
           /\ issuer.pair \in Pair => certFor'[issuer.pair] = certFor[issuer.pair]
<1>0. \A q \in Pair \cap InUse : certFor'[q] = certFor[q]
  BY DEF Fresh
<1>1. issuer.pair \in InUse /\ \A s \in Live : row[s].cert \in InUse
  BY DEF InUse
<1>2. \A s \in Live : row[s].cert \in Pair \cup {Null}
  BY DEF TInv, TypeOK, Row
<1> QED BY <1>0, <1>1, <1>2

\* Enqueue adds to what waits, or leaves it.
LEMMA EnqueueKeeps ==
    ASSUME TInv, NEW s, Enqueue(s)
    PROVE  Waiting \subseteq Waiting'
<1>1. CASE queue' = Append(queue, s)
  <2>1. queue \in Seq(Int)
    BY DEF TInv, TypeOK
  <2>2. DOMAIN queue \subseteq DOMAIN queue' /\ \A i \in DOMAIN queue : queue'[i] = queue[i]
    BY <1>1, <2>1
  <2> QED BY <2>2 DEF Waiting
<1>2. CASE queue' = queue
  BY <1>2 DEF Waiting
<1> QED BY <1>1, <1>2 DEF Enqueue

\* What SetStatus leaves alone.
LEMMA StatusOnly ==
    ASSUME TInv, NEW n, NEW t, SetStatus(n, t)
    PROVE  /\ Live' = Live
           /\ \A s \in Live : /\ row'[s].domain = row[s].domain /\ row'[s].ssl = row[s].ssl
                              /\ row'[s].cert = row[s].cert
                              /\ row'[s].status = IF s = n THEN t ELSE row[s].status
<1>1. \A s \in Live : row[s] \in Row
  BY DEF TInv, TypeOK
<1>2. CASE n \in Live
  <2>1. row' = [row EXCEPT ![n].status = t]
    BY <1>2 DEF SetStatus
  <2> QED BY <1>1, <2>1 DEF Live, Row
<1>3. CASE n \notin Live
  BY <1>3 DEF SetStatus, Live
<1> QED BY <1>2, <1>3

\* A client that moves on without touching the table.
LEMMA ClientKeeps ==
    ASSUME TInv, ForeignInv, OneClient, NEW o \in Operator, NEW j, Job(o, j), UNCHANGED <<issuer, due, certFor>>,
           \A s \in Live' : /\ s \in Live
                            /\ row'[s].domain = row[s].domain /\ row'[s].ssl = row[s].ssl
                            /\ row'[s].cert = row[s].cert
                            /\ row'[s].status = "valid" => row[s].status = "valid",
           Waiting \subseteq Waiting', rolledBack' = rolledBack,
           j.pc # "update",
           (op[o].pc \in {"reload", "mark", "send"} /\ LetsEncrypt(op[o].site) /\ op[o].site \in Live') =>
               op[o].site \in Waiting' \/ (j.site = op[o].site /\ j.pc \in {"reload", "mark", "send"})
    PROVE  ForeignInv'
<1>1. op'[o] = j /\ \A q \in Operator : q = o
  BY OnlyClient
<1>2. \A q \in Operator : Unasked(q)'
  BY <1>1 DEF Unasked
<1>3. ASSUME NEW s \in Live', LetsEncrypt(s), Asked(s) PROVE Asked(s)'
  BY <1>1, <1>3 DEF Asked
<1> QED BY <1>2, <1>3, RowsKept

\* A request that was on its way goes on to the queue.
LEMMA RequestKeeps ==
    ASSUME TInv, ForeignInv, OneClient, NothingLost, NEW o \in Operator,
           \/ LoadPage(o) \/ RenewNow(o) \/ Reload(o) \/ Send(o) \/ Abort(o) \/ ClosePage(o)
           \/ MarkQueued(o) \/ UndoCreate(o)
    PROVE  ForeignInv'
<1>0. op[o] \in Jobs /\ NoJob.pc = "idle" /\ NoJob.site = 0
  BY DEF TInv, TypeOK, NoJob
<1>1. CASE LoadPage(o)
  <2>1. PICK s \in Live : Job(o, [NoJob EXCEPT !.pc = "page", !.site = s,
                                              !.view = [row[s] EXCEPT !.key = Null]])
    BY <1>1 DEF LoadPage
  <2> DEFINE j == [NoJob EXCEPT !.pc = "page", !.site = s, !.view = [row[s] EXCEPT !.key = Null]]
  <2>2. j.pc = "page"
    BY DEF NoJob
  <2> HIDE DEF j
  <2>3. Job(o, j)
    BY <2>1 DEF j
  <2> QED BY <1>1, <2>2, <2>3, ClientKeeps DEF LoadPage, db, certs, Waiting, Live
<1>2. CASE RenewNow(o)
  <2>1. PICK s \in Live : Job(o, [NoJob EXCEPT !.pc = "mark", !.site = s])
    BY <1>2 DEF RenewNow
  <2> DEFINE j == [NoJob EXCEPT !.pc = "mark", !.site = s]
  <2>2. j.pc = "mark"
    BY DEF NoJob
  <2> HIDE DEF j
  <2>3. Job(o, j)
    BY <2>1 DEF j
  <2> QED BY <1>2, <2>2, <2>3, ClientKeeps DEF RenewNow, db, certs, Waiting, Live
<1>3. CASE Reload(o)
  <2> DEFINE j == IF LetsEncrypt(op[o].site)
                  THEN [NoJob EXCEPT !.pc = "mark", !.site = op[o].site] ELSE NoJob
  <2>1. j.pc # "update" /\ (LetsEncrypt(op[o].site) => j.pc = "mark" /\ j.site = op[o].site)
    BY DEF NoJob
  <2> HIDE DEF j
  <2>2. Job(o, j)
    BY <1>3 DEF Reload, j
  <2> QED BY <1>3, <2>1, <2>2, ClientKeeps DEF Reload, db, certs, Waiting, Live
<1>4. CASE Send(o)
  <2>1. op[o].site \in Waiting' /\ Job(o, NoJob) /\ UNCHANGED <<db, certs, issuer, due>>
    BY <1>4 DEF Send, NothingLost
  <2>2. Waiting \subseteq Waiting'
    BY <1>4, EnqueueKeeps DEF Send
  <2> QED BY <1>0, <2>1, <2>2, ClientKeeps DEF db, certs, Live
<1>5. CASE Abort(o)
  <2> DEFINE j == [op[o] EXCEPT !.pc = "send"]
  <2>1. CASE op[o].pc = "mark" /\ Job(o, j)
    <3>1. j.pc = "send" /\ j.site = op[o].site
      BY <1>0 DEF Jobs
    <3> HIDE DEF j
    <3> QED BY <1>5, <2>1, <3>1, ClientKeeps DEF Abort, db, certs, Waiting, Live
  <2>2. CASE op[o].pc \in {"update", "reload"} /\ Job(o, NoJob)
    <3>1. op[o].pc = "update"
      BY <1>5, <2>2 DEF NothingLost
    <3> QED BY <1>0, <1>5, <2>2, <3>1, ClientKeeps DEF Abort, db, certs, Waiting, Live
  <2> QED BY <1>5, <2>1, <2>2 DEF Abort
<1>6. CASE ClosePage(o)
  BY <1>0, <1>6, ClientKeeps DEF ClosePage, db, certs, Waiting, Live
<1>7. CASE MarkQueued(o)
  <2> DEFINE j == [op[o] EXCEPT !.pc = "send"]
  <2>1. j.pc = "send" /\ j.site = op[o].site
    BY <1>0 DEF Jobs
  <2> HIDE DEF j
  <2>2. Job(o, j) /\ SetStatus(op[o].site, "queued")
    BY <1>7 DEF MarkQueued, j
  <2>3. /\ Live' = Live
        /\ \A s \in Live : /\ row'[s].domain = row[s].domain /\ row'[s].ssl = row[s].ssl
                           /\ row'[s].cert = row[s].cert
                           /\ row'[s].status = "valid" => row[s].status = "valid"
    BY <2>2, StatusOnly
  <2> QED BY <1>7, <2>1, <2>2, <2>3, ClientKeeps DEF MarkQueued, certs, Waiting
<1>8. CASE UndoCreate(o)
  <2>1. Live' = Live \ {op[o].site} /\ \A s \in Live' : row'[s] = row[s]
    BY <1>8 DEF UndoCreate, Without, Live
  <2> QED BY <1>0, <1>8, <2>1, ClientKeeps DEF UndoCreate, certs, Waiting
<1> QED BY <1>1, <1>2, <1>3, <1>4, <1>5, <1>6, <1>7, <1>8

\* A save that asks for no certificate has read the provider and the domain it keeps.
LEMMA SaveKeeps ==
    ASSUME TInv, ForeignInv, OneClient, NEW o \in Operator, Save(o)
    PROVE  ForeignInv'
<1>1. PICK pay \in Row : SaveAs(o, pay)
  BY SavePays
<1> DEFINE issue == ShouldIssue(row[op[o].site], pay.domain, pay.ssl)
           p == IF issue THEN [pay EXCEPT !.status = "queued"] ELSE pay
           j == [op[o] EXCEPT !.pc = "update", !.issue = issue, !.pay = p]
<1>2. op[o].pc = "page" /\ op[o].site \in Live /\ op[o] \in Jobs
  BY SavePays DEF TInv, TypeOK
<1>3. p.ssl = pay.ssl /\ p.domain = pay.domain
  BY DEF Row
<1>4. ~issue /\ pay.ssl = "letsencrypt" => LetsEncrypt(op[o].site) /\ row[op[o].site].domain = pay.domain
  BY <1>2 DEF ShouldIssue, LetsEncrypt
<1> HIDE DEF p, issue
<1>5. j.pc = "update" /\ j.site = op[o].site /\ j.issue = issue /\ j.pay = p
  BY <1>2 DEF Jobs
<1>6. Job(o, j)
  BY <1>1 DEF SaveAs, p, issue
<1> HIDE DEF j
<1>7. op'[o] = j /\ \A q \in Operator : q = o
  BY <1>6, OnlyClient
<1>8. UNCHANGED <<db, queue, issuer, due>>
  BY DEF Save, SaveManaged, Upload, SaveCustom, SaveNone
<1>9. \A q \in Operator : Unasked(q)'
  BY <1>3, <1>4, <1>5, <1>7, <1>8 DEF Unasked, LetsEncrypt, Live, db
<1>10. \A s \in Live : Asked(s) => Asked(s)'
  BY <1>2, <1>7, <1>8 DEF Asked, Waiting
<1>11. /\ \A s \in Live : row[s].cert # Null => certFor'[row[s].cert] = certFor[row[s].cert]
       /\ issuer.pc = "store" => certFor'[issuer.pair] = certFor[issuer.pair]
  <2>1. CASE Upload(o)
    <3>1. PICK d \in Domain, q \in Pair : Fresh(q, d)
      BY <2>1 DEF Upload
    <3>2. issuer.pc = "store" => issuer.pair \in Pair
      BY DEF TInv, TypeOK, Works, ForeignInv, Obtained
    <3> QED BY <3>1, <3>2, KnownStill
  <2>2. CASE SaveManaged(o) \/ SaveCustom(o) \/ SaveNone(o)
    BY <2>2 DEF SaveManaged, SaveCustom, SaveNone, certs
  <2> QED BY <2>1, <2>2 DEF Save
<1> QED BY <1>8, <1>9, <1>10, <1>11, RowsKept DEF db, Live

\* A new site has no certificate, and its client is about to ask for one.
LEMMA CreateKeeps ==
    ASSUME TInv, ForeignInv, OneClient, NEW o \in Operator, CreateSite(o)
    PROVE  ForeignInv'
<1>0. PICK n : n = lastSite + 1
  OBVIOUS
<1> DEFINE j == [NoJob EXCEPT !.pc = "reload", !.site = n]
<1>1. PICK d \in Domain, ssl \in {"letsencrypt", "none"} :
         /\ row' = [x \in Live \cup {n} |-> IF x = n
                      THEN [NoRow EXCEPT !.domain = d, !.ssl = ssl,
                                         !.status = IF ssl = "none" THEN "none" ELSE "queued"]
                      ELSE row[x]]
         /\ Job(o, j)
  BY <1>0 DEF CreateSite
<1>2. j.pc = "reload" /\ j.site = n
  BY DEF NoJob
<1> HIDE DEF j
<1>3. op'[o] = j /\ \A q \in Operator : q = o
  BY <1>1, OnlyClient
<1>4. UNCHANGED <<rolledBack, certs, queue, issuer, due>> /\ op[o].pc = "idle"
  BY DEF CreateSite
<1>5. Live' = Live \cup {n} /\ row'[n].cert = Null /\ \A s \in Live : s # n => row'[s] = row[s]
  BY <1>1 DEF Live, NoRow
<1>6. Obtained' /\ \A q \in Operator : Unasked(q)'
  BY <1>2, <1>3, <1>4 DEF ForeignInv, Obtained, Unasked, certs
<1>7. ASSUME NEW s \in Live, s # n, Served(s) PROVE Served(s)'
  <2>1. (LetsEncrypt(s)' <=> LetsEncrypt(s)) /\ row'[s] = row[s]
    BY <1>5, <1>7 DEF LetsEncrypt
  <2>2. Asked(s) => Asked(s)'
    BY <1>3, <1>4 DEF Asked, Waiting
  <2> QED BY <1>4, <1>7, <2>1, <2>2 DEF Served, Outdated, Replaced, Finished, Foreign, certs
<1>8. Served(n)'
  <2>1. Asked(n)'
    BY <1>2, <1>3 DEF Asked
  <2> QED BY <2>1 DEF Served, Outdated, Replaced, Finished
<1> QED BY <1>4, <1>5, <1>6, <1>7, <1>8 DEF ForeignInv

\* What a save writes: another domain or provider only with a request for a certificate.
LEMMA UpdateKeeps ==
    ASSUME TInv, ForeignInv, OneClient, NEW o \in Operator, Update(o)
    PROVE  ForeignInv'
<1>n. PICK n : n = op[o].site
  OBVIOUS
<1> DEFINE pay == op[o].pay
           new == [pay EXCEPT !.key = StoredKey(row[n], pay)]
           j == IF op[o].issue THEN [op[o] EXCEPT !.pc = "reload"] ELSE NoJob
<1>0. op[o] \in Jobs /\ pay \in Row /\ op[o].pc = "update" /\ UNCHANGED <<certs, queue, issuer, due>>
  BY DEF TInv, TypeOK, PayShape, Update
<1>1. CASE n \in Live /\ ~Taken(pay.domain, n)
  <2>1. row' = [row EXCEPT ![n] = new] /\ Job(o, j)
    BY <1>n, <1>1 DEF Update
  <2>2. /\ new.domain = pay.domain /\ new.ssl = pay.ssl /\ new.cert = pay.cert /\ new.status = pay.status
    BY <1>0 DEF Row
  <2>3. j.pc # "update" /\ (op[o].issue => j.pc = "reload" /\ j.site = n)
    BY <1>n, <1>0 DEF Jobs, NoJob
  <2>4. rolledBack => rolledBack'
    BY <1>n, <1>1 DEF Update
  <2>5. ~rolledBack' /\ ~op[o].issue /\ pay.ssl = "letsencrypt" =>
           pay.cert = row[n].cert /\ pay.status = row[n].status
    BY <1>n, <1>1 DEF Update
  <2> HIDE DEF new, j
  <2>6. op'[o] = j /\ \A q \in Operator : q = o
    BY <2>1, OnlyClient
  <2>7. Live' = Live /\ row'[n] = new /\ \A s \in Live : s # n => row'[s] = row[s]
    BY <1>1, <2>1 DEF Live
  <2>8. Obtained' /\ \A q \in Operator : Unasked(q)'
    BY <1>0, <2>3, <2>6 DEF ForeignInv, Obtained, Unasked, certs
  <2>9. \A s : Asked(s) => Asked(s)'
    BY <1>0, <2>6 DEF Asked, Waiting
  <2>10. ASSUME NEW s \in Live, s # n, Served(s) PROVE Served(s)'
    <3>1. (LetsEncrypt(s)' <=> LetsEncrypt(s)) /\ row'[s] = row[s]
      BY <2>7, <2>10 DEF LetsEncrypt
    <3> QED BY <1>0, <2>9, <2>10, <3>1 DEF Served, Outdated, Replaced, Finished, Foreign, certs
  <2>11. ASSUME ~rolledBack', Served(n) PROVE Served(n)'
    <3>1. CASE op[o].issue
      <4>1. Asked(n)'
        BY <2>3, <2>6, <3>1 DEF Asked
      <4> QED BY <4>1 DEF Served, Outdated, Replaced, Finished
    <3>2. CASE pay.ssl # "letsencrypt"
      <4>1. ~LetsEncrypt(n)'
        BY <2>2, <2>7, <3>2 DEF LetsEncrypt
      <4> QED BY <4>1 DEF Served, Outdated, Replaced, Finished, Foreign
    <3>3. CASE ~op[o].issue /\ pay.ssl = "letsencrypt"
      <4>1. LetsEncrypt(n) /\ row[n].domain = pay.domain
        BY <1>n, <1>0, <1>1, <3>3 DEF ForeignInv, Unasked
      <4>2. /\ row'[n].domain = row[n].domain /\ row'[n].cert = row[n].cert
            /\ row'[n].status = row[n].status
        BY <2>2, <2>5, <2>7, <2>11, <3>3, <4>1
      <4>3. Foreign(n)' => Foreign(n)
        BY <1>0, <4>1, <4>2 DEF Foreign, certs
      <4>4. Outdated(n)'
        BY <1>0, <2>9, <2>11, <4>1, <4>2 DEF Served, Outdated
      <4>5. Replaced(n)'
        BY <1>0, <2>9, <2>11, <4>2, <4>3 DEF Served, Replaced
      <4>6. Finished(n)'
        BY <1>0, <2>9, <2>11, <4>3 DEF Served, Finished
      <4> QED BY <4>4, <4>5, <4>6 DEF Served
    <3> QED BY <3>1, <3>2, <3>3
  <2> QED BY <1>1, <2>4, <2>7, <2>8, <2>10, <2>11 DEF ForeignInv
<1>2. CASE ~(n \in Live /\ ~Taken(pay.domain, n))
  <2>1. UNCHANGED <<row, rolledBack>> /\ Job(o, NoJob)
    BY <1>n, <1>2 DEF Update
  <2>2. NoJob.pc = "idle"
    BY DEF NoJob
  <2> QED BY <1>0, <2>1, <2>2, ClientKeeps DEF certs, Waiting, Live
<1> QED BY <1>1, <1>2

\* The worker neither touches provider or domain nor what is asked of it.
LEMMA WorkerKeeps ==
    ASSUME TInv, ForeignInv, UNCHANGED <<lastSite, rolledBack, op>>, Obtained',
           Live' = Live, \A s \in Live : row'[s].domain = row[s].domain /\ row'[s].ssl = row[s].ssl,
           \A s \in Live : Served(s) => Served(s)'
    PROVE  ForeignInv'
<1>1. \A o \in Operator : Unasked(o)'
  BY DEF ForeignInv, Unasked, LetsEncrypt
<1> QED BY <1>1 DEF ForeignInv

\* The worker takes a site from the queue and reads its domain.
LEMMA TakeKeeps ==
    ASSUME TInv, ForeignInv, TakeSite \/ LoadSite
    PROVE  ForeignInv'
<1>0. UNCHANGED <<db, certs, due, op>>
  BY DEF TakeSite, LoadSite
<1>1. ASSUME Obtained', \A s \in Live : Served(s) => Served(s)' PROVE ForeignInv'
  BY <1>0, <1>1, WorkerKeeps DEF db, Live
<1>2. CASE TakeSite
  <2>1. issuer.pc = "idle" /\ issuer'.pc = "load" /\ issuer'.site = Head(queue)
    BY <1>2 DEF TakeSite, Work, NoWork
  <2>2. Waiting \subseteq Waiting' \cup {Head(queue)}
    <3>1. queue \in Seq(Int) /\ queue # <<>> /\ queue' = Tail(queue)
      BY <1>2 DEF TakeSite, TInv, TypeOK
    <3>2. ASSUME NEW i \in DOMAIN queue, i # 1 PROVE queue[i] \in Waiting'
      <4>1. i - 1 \in DOMAIN queue' /\ queue'[i - 1] = queue[i]
        BY <3>1, <3>2
      <4> QED BY <4>1 DEF Waiting
    <3>3. queue[1] = Head(queue)
      BY <3>1
    <3> QED BY <3>2, <3>3 DEF Waiting
  <2>3. \A s : Asked(s) => Asked(s)'
    BY <1>0, <2>1, <2>2 DEF Asked
  <2>4. ASSUME NEW s \in Live, Served(s) PROVE Served(s)'
    BY <1>0, <2>1, <2>3, <2>4 DEF Served, Outdated, Replaced, Finished, Foreign, LetsEncrypt, Live, db, certs
  <2> QED BY <1>1, <2>1, <2>4 DEF Obtained
<1>3. CASE LoadSite
  <2>0. issuer \in Works /\ issuer.pc = "load" /\ queue' = queue
    BY <1>3 DEF LoadSite, TInv, TypeOK
  <2>1. \A s \in Live : s # issuer.site /\ Asked(s) => Asked(s)'
    BY <1>0, <2>0 DEF Asked, Waiting
  <2>2. CASE LetsEncrypt(issuer.site)
    <3>1. /\ issuer'.pc = "mark" /\ issuer'.site = issuer.site
          /\ issuer'.domain = row[issuer.site].domain
      BY <1>3, <2>0, <2>2 DEF LoadSite, Work, Works
    <3>2. ASSUME NEW s \in Live, Served(s) PROVE Served(s)'
      BY <1>0, <2>0, <2>1, <3>1, <3>2
      DEF Served, Outdated, Replaced, Finished, Foreign, LetsEncrypt, Live, db, certs
    <3> QED BY <1>1, <3>1, <3>2 DEF Obtained
  <2>3. CASE ~LetsEncrypt(issuer.site)
    <3>1. issuer'.pc = "idle"
      BY <1>3, <2>3 DEF LoadSite, Work, NoWork
    <3>2. ASSUME NEW s \in Live, Served(s) PROVE Served(s)'
      BY <1>0, <2>0, <2>1, <2>3, <3>1, <3>2
      DEF Served, Outdated, Replaced, Finished, Foreign, LetsEncrypt, Live, db, certs
    <3> QED BY <1>1, <3>1, <3>2 DEF Obtained
  <2> QED BY <2>2, <2>3
<1> QED BY <1>2, <1>3

\* From the dialogue with the CA to the last status.
LEMMA IssueKeeps ==
    ASSUME TInv, ForeignInv, NothingLost,
           \/ Progress \/ ObtainOk \/ ObtainFail \/ MarkFailed \/ StoreCertificate \/ MarkIssued \/ WorkFails
    PROVE  ForeignInv'
<1>0. /\ UNCHANGED <<lastSite, rolledBack, queue, due, op>>
      /\ issuer \in Works /\ issuer.pc \in {"mark", "obtain", "fail", "store", "final"}
  BY DEF Progress, ObtainOk, ObtainFail, MarkFailed, StoreCertificate, MarkIssued, WorkFails, NothingLost,
         TInv, TypeOK, db
<1>1. \A s : Asked(s) => Asked(s)'
  BY <1>0 DEF Asked, Waiting
<1>2. ASSUME Live' = Live, Obtained',
             \A s \in Live : row'[s].domain = row[s].domain /\ row'[s].ssl = row[s].ssl,
             \A s \in Live : Served(s) => Served(s)'
      PROVE  ForeignInv'
  BY <1>0, <1>2, WorkerKeeps
\* A step that leaves the table alone.
<1>3. ASSUME UNCHANGED <<row, certFor>>, issuer'.pc # "final", issuer'.pc # "store",
             \/ issuer'.pc = "fail" /\ issuer'.site = issuer.site
             \/ issuer'.pc = "idle" /\ issuer.pc = "final"
             \/ /\ issuer'.pc = "obtain" /\ issuer.pc = "mark"
                /\ issuer'.site = issuer.site /\ issuer'.domain = issuer.domain
      PROVE  ForeignInv'
  <2>1. ASSUME NEW s \in Live, Served(s) PROVE Served(s)'
    BY <1>0, <1>1, <1>3, <2>1 DEF Served, Outdated, Replaced, Finished, Foreign, LetsEncrypt, Live
  <2> QED BY <1>2, <1>3, <2>1 DEF Obtained, Live
<1>4. CASE ObtainFail \/ WorkFails
  <2>1. UNCHANGED <<row, certFor>>
    BY <1>4 DEF ObtainFail, WorkFails, db, certs
  <2>2. CASE ObtainFail
    BY <1>0, <1>3, <2>1, <2>2 DEF ObtainFail, Work, Works
  <2>3. CASE WorkFails
    <3>1. issuer.pc \in {"store", "final", "mark"}
      BY <2>3 DEF WorkFails, NothingLost
    <3> QED BY <1>0, <1>3, <2>1, <2>3, <3>1 DEF WorkFails, Work, Works, NoWork
  <2> QED BY <1>4, <2>2, <2>3
<1>5. CASE Progress
  <2>1. /\ Live' = Live
        /\ \A s \in Live : /\ row'[s].domain = row[s].domain /\ row'[s].ssl = row[s].ssl
                           /\ row'[s].cert = row[s].cert
                           /\ row'[s].status = IF s = issuer.site THEN "queued" ELSE row[s].status
    BY <1>5, StatusOnly DEF Progress
  <2>2. /\ issuer'.pc = "obtain" /\ issuer'.site = issuer.site /\ issuer'.domain = issuer.domain
        /\ issuer.pc \in {"mark", "obtain"} /\ certFor' = certFor
    BY <1>0, <1>5 DEF Progress, Work, Works, certs
  <2>3. ASSUME NEW s \in Live, Served(s) PROVE Served(s)'
    BY <1>1, <2>1, <2>2, <2>3 DEF Served, Outdated, Replaced, Finished, Foreign, LetsEncrypt
  <2> QED BY <1>2, <2>1, <2>2, <2>3 DEF Obtained
<1>6. CASE MarkFailed
  <2>1. /\ Live' = Live
        /\ \A s \in Live : /\ row'[s].domain = row[s].domain /\ row'[s].ssl = row[s].ssl
                           /\ row'[s].cert = row[s].cert
                           /\ row'[s].status = IF s = issuer.site THEN "failed" ELSE row[s].status
    BY <1>6, StatusOnly DEF MarkFailed
  <2>2. issuer'.pc = "idle" /\ issuer.pc = "fail" /\ certFor' = certFor
    BY <1>6 DEF MarkFailed, Work, NoWork, certs
  <2>3. ASSUME NEW s \in Live, Served(s) PROVE Served(s)'
    BY <1>1, <2>1, <2>2, <2>3 DEF Served, Outdated, Replaced, Finished, Foreign, LetsEncrypt
  <2> QED BY <1>2, <2>1, <2>2, <2>3 DEF Obtained
<1>7. CASE MarkIssued
  <2>1. /\ Live' = Live
        /\ \A s \in Live : /\ row'[s].domain = row[s].domain /\ row'[s].ssl = row[s].ssl
                           /\ row'[s].cert = row[s].cert
                           /\ row'[s].status = IF s = issuer.site THEN "valid" ELSE row[s].status
    BY <1>7, StatusOnly DEF MarkIssued
  <2>2. issuer'.pc = "idle" /\ issuer.pc = "final" /\ certFor' = certFor
    BY <1>7 DEF MarkIssued, Work, NoWork, certs
  <2>3. ASSUME NEW s \in Live, Served(s) PROVE Served(s)'
    BY <1>1, <2>1, <2>2, <2>3 DEF Served, Outdated, Replaced, Finished, Foreign, LetsEncrypt
  <2> QED BY <1>2, <2>1, <2>2, <2>3 DEF Obtained
<1>8. CASE ObtainOk
  <2>1. PICK p \in Pair : Fresh(p, issuer.domain) /\ Work([issuer EXCEPT !.pc = "store", !.pair = p])
    BY <1>8 DEF ObtainOk
  <2>2. /\ issuer'.pc = "store" /\ issuer'.site = issuer.site /\ issuer'.domain = issuer.domain
        /\ issuer'.pair = p /\ issuer.pc = "obtain" /\ row' = row
    BY <1>0, <1>8, <2>1 DEF ObtainOk, Work, Works, db
  <2>3. Obtained'
    BY <2>1, <2>2, NullAssumption DEF Obtained, Fresh
  <2>4. \A s \in Live : row[s].cert # Null => certFor'[row[s].cert] = certFor[row[s].cert]
    BY <2>1, KnownStill
  <2>5. ASSUME NEW s \in Live, Served(s) PROVE Served(s)'
    <3>1. Foreign(s)' => Foreign(s)
      BY <2>2, <2>4 DEF Foreign, LetsEncrypt, Live
    <3> QED BY <1>1, <2>2, <2>5, <3>1 DEF Served, Outdated, Replaced, Finished, LetsEncrypt, Live
  <2> QED BY <1>2, <2>2, <2>3, <2>5 DEF Live
<1>9. CASE StoreCertificate
  <2>0. certFor' = certFor /\ issuer.pc = "store" /\ \A s \in Live : row[s] \in Row
    BY <1>9 DEF StoreCertificate, certs, TInv, TypeOK
  <2>1. CASE issuer.site \in Live
    <3>1. /\ row' = [row EXCEPT ![issuer.site] = WithCertificate(row[issuer.site], issuer.pair)]
          /\ issuer'.pc = "final" /\ issuer'.site = issuer.site /\ issuer'.domain = issuer.domain
      BY <1>0, <1>9, <2>1 DEF StoreCertificate, Work, Works
    <3>2. PICK r : r = WithCertificate(row[issuer.site], issuer.pair)
      OBVIOUS
    <3>3. /\ r.domain = row[issuer.site].domain /\ r.ssl = row[issuer.site].ssl
          /\ r.cert = issuer.pair /\ r.status = "syncing"
      BY <2>0, <2>1, <3>2 DEF WithCertificate, Row
    <3>4. Live' = Live /\ row'[issuer.site] = r /\ \A s \in Live : s # issuer.site => row'[s] = row[s]
      BY <2>1, <3>1, <3>2 DEF Live
    <3>5. issuer.pair # Null /\ certFor[issuer.pair] = issuer.domain
      BY <2>0 DEF ForeignInv, Obtained
    <3>6. ASSUME NEW s \in Live, Served(s), s # issuer.site PROVE Served(s)'
      BY <1>1, <2>0, <3>1, <3>4, <3>6 DEF Served, Outdated, Replaced, Finished, Foreign, LetsEncrypt
    <3>7. ASSUME NEW s \in Live, Served(s), s = issuer.site PROVE Served(s)'
      <4>1. LetsEncrypt(s)' => LetsEncrypt(s)
        BY <3>3, <3>4, <3>7 DEF LetsEncrypt
      <4>2. Outdated(s)'
        BY <1>1, <2>0, <3>1, <3>3, <3>4, <3>7, <4>1 DEF Served, Outdated
      <4>3. Replaced(s)'
        BY <3>3, <3>4, <3>7 DEF Replaced
      <4>4. Finished(s)'
        <5>1. Foreign(s)' => issuer.domain # row[s].domain
          BY <2>0, <3>3, <3>4, <3>5, <3>7 DEF Foreign
        <5> QED BY <1>1, <2>0, <3>7, <4>1, <5>1 DEF Finished, Foreign, Served, Outdated
      <4> QED BY <4>2, <4>3, <4>4 DEF Served
    <3> QED BY <1>2, <3>1, <3>3, <3>4, <3>6, <3>7 DEF Obtained
  <2>2. CASE issuer.site \notin Live
    BY <1>0, <1>3, <1>9, <2>0, <2>2 DEF StoreCertificate, Work, Works
  <2> QED BY <2>1, <2>2
<1> QED BY <1>4, <1>5, <1>6, <1>7, <1>8, <1>9

\* The renewal loop, a certificate that falls due, a site that is deleted.
LEMMA OthersKeep ==
    ASSUME TInv, ForeignInv, NothingLost,
           \/ RenewTick \/ RenewSend \/ (\E p \in Pair : FallDue(p)) \/ (\E s \in Site : DeleteSite(s))
    PROVE  ForeignInv'
<1>0. UNCHANGED <<rolledBack, certFor, issuer, op>>
  BY DEF RenewTick, RenewSend, FallDue, DeleteSite, db, certs
<1>1. Live' \subseteq Live /\ \A s \in Live' : row'[s] = row[s]
  BY DEF RenewTick, RenewSend, FallDue, DeleteSite, Without, Live, db
<1>2. Waiting \cup due \subseteq (Waiting \cup due)'
  <2>1. CASE RenewTick
    BY <2>1 DEF RenewTick, Waiting
  <2>2. CASE RenewSend
    <3>1. due \subseteq due' \cup (due \ due')
      OBVIOUS
    <3>2. Waiting \subseteq Waiting'
      BY <2>2, EnqueueKeeps DEF RenewSend
    <3> QED BY <2>2, <3>1, <3>2 DEF NothingLost
  <2>3. CASE (\E p \in Pair : FallDue(p)) \/ (\E s \in Site : DeleteSite(s))
    BY <2>3 DEF FallDue, DeleteSite, Waiting
  <2> QED BY <2>1, <2>2, <2>3
<1>3. \A s : Asked(s) => Asked(s)'
  BY <1>0, <1>2 DEF Asked
<1>4. \A o \in Operator : Unasked(o)'
  BY <1>0, <1>1 DEF ForeignInv, Unasked, LetsEncrypt
<1> QED BY <1>0, <1>1, <1>3, <1>4, RowsKept

\* The invariant is inductive.
LEMMA ForeignNext ==
    ASSUME TInv, ForeignInv, OneClient, [Next /\ NothingLost]_vars
    PROVE  ForeignInv'
<1>1. CASE UNCHANGED vars
  BY <1>1 DEF vars, db, certs, ForeignInv, Obtained, Unasked, Served, Outdated, Replaced, Finished, Foreign,
              Asked, Waiting, LetsEncrypt, Live
<1>2. CASE Next /\ NothingLost
  BY <1>2, RequestKeeps, SaveKeeps, CreateKeeps, UpdateKeeps, TakeKeeps, IssueKeeps, OthersKeep
  DEF Next, Request, Worker, NothingLost
<1> QED BY <1>1, <1>2

\* However many sites there are, whatever clients send and whichever calls fail: as long as
\* one client works at a time and no request for a certificate gets lost, a Let's Encrypt
\* site that has the certificate of another domain is on its way to one of its own.  So
\* ShouldIssue asks often enough: each change of the domain that overlaps an issuance is
\* followed by another one.
THEOREM ForeignOnlyWhenLost ==
    OneClient => (Spec /\ [][NothingLost]_vars => []NoForeignCertificate)
<1> SUFFICES ASSUME OneClient PROVE Spec /\ [][NothingLost]_vars => []NoForeignCertificate
  OBVIOUS
<1>1. Init => ForeignInv
  BY DEF Init, ForeignInv, Obtained, Unasked, NoWork, NoJob, Live
<1>2. TInv /\ ForeignInv /\ [Next]_vars /\ [NothingLost]_vars => ForeignInv'
  BY ForeignNext
<1>3. TInv /\ ForeignInv => NoForeignCertificate
  <2>1. CASE rolledBack
    BY <2>1 DEF NoForeignCertificate
  <2>2. CASE ~rolledBack
    BY <2>2, AskedOnItsWay
  <2> QED BY <2>1, <2>2
<1> QED BY <1>1, <1>2, <1>3, TInvHolds, PTL DEF Spec

\* With one site and no faults nothing can get lost: a queue that is full holds the site.
THEOREM NoForeignWithOneSite ==
    OneClient /\ MaxSite = 1 /\ MaxFault = 0 => (Spec => []NoForeignCertificate)
<1> SUFFICES ASSUME OneClient, MaxSite = 1, MaxFault = 0 PROVE Spec => []NoForeignCertificate
  OBVIOUS
<1>1. ASSUME TInv, [Next]_vars PROVE [NothingLost]_vars
  <2>1. ~Restart /\ ~WorkFails /\ \A o \in Operator : ~Abort(o)
    <3>1. faults \in 0 .. 0
      BY <1>1 DEF TInv, TypeOK
    <3>2. ~Fault
      BY <3>1 DEF Fault
    <3> QED BY <3>2 DEF Restart, WorkFails, Abort
  <2>2. ASSUME NEW s, s \in 1 .. lastSite, Enqueue(s) PROVE s \in Waiting'
    <3>1. s = 1 /\ queue \in Seq(1 .. lastSite) /\ \A i \in 1 .. lastSite : i = 1
      BY <1>1, <2>2 DEF TInv, TypeOK
    <3>2. CASE Len(queue) < QueueCap
      <4>1. queue' = Append(queue, s)
        BY <2>2, <3>2 DEF Enqueue
      <4>2. Len(queue) + 1 \in DOMAIN queue' /\ queue'[Len(queue) + 1] = s
        BY <3>1, <4>1
      <4> QED BY <4>2 DEF Waiting
    <3>3. CASE ~(Len(queue) < QueueCap)
      <4>1. queue' = queue /\ Len(queue) \in Nat /\ QueueCap \in Nat \ {0}
        BY <2>2, <3>1, <3>3, SizeAssumption DEF Enqueue
      <4>2. Len(queue) >= 1
        BY <3>3, <4>1
      <4>3. 1 \in 1 .. Len(queue) /\ DOMAIN queue = 1 .. Len(queue)
        BY <3>1, <4>1, <4>2
      <4>4. queue[1] \in 1 .. lastSite
        BY <3>1, <4>3, ElementOfSeq, <4>2
      <4> QED BY <3>1, <4>1, <4>3, <4>4 DEF Waiting
    <3> QED BY <3>2, <3>3
  <2>3. ASSUME NEW o \in Operator, Send(o) PROVE op[o].site \in Waiting'
    <3>1. op[o].site \in 1 .. lastSite
      <4>1. op[o].site \in 0 .. lastSite /\ op[o].site # 0 /\ lastSite \in Nat
        BY <1>1, <2>3, SizeAssumption DEF TInv, TypeOK, PayShape, Jobs, Send
      <4> QED BY <4>1
    <3> QED BY <2>2, <2>3, <3>1 DEF Send
  <2>4. ASSUME RenewSend PROVE due \ due' \subseteq Waiting'
    <3>1. PICK s \in due : Enqueue(s) /\ due' = due \ {s}
      BY <2>4 DEF RenewSend
    <3>2. s \in Waiting'
      BY <1>1, <2>2, <3>1 DEF TInv, TypeOK
    <3> QED BY <3>1, <3>2
  <2> QED BY <2>1, <2>3, <2>4 DEF NothingLost
<1>2. Spec => [][NothingLost]_vars
  BY <1>1, TInvHolds, PTL DEF Spec
<1> QED BY <1>2, ForeignOnlyWhenLost, PTL
=============================================================================
