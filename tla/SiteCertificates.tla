--------------------------- MODULE SiteCertificates ---------------------------
(***************************************************************************)
(* The certificate of a site: the row in the sites table (store/sites.go),  *)
(* the handlers that create, save, renew and delete it (api), and the ACME  *)
(* issuer (acme/issuer.go): a bounded queue, one worker and a renewal loop. *)
(* Every database command and every queue operation is a step of its own;   *)
(* between two of them the others run theirs.                               *)
(***************************************************************************)
EXTENDS Integers, Sequences

CONSTANTS
    MaxSite,      \* bound on the sites ever created
    Domain,       \* domain names
    Operator,     \* clients of the panel, each with one page or request at a time
    Pair,         \* certificates, each with its own private key
    Null,         \* NULL: no certificate, no key, no expiry
    QueueCap,     \* capacity of the issuer's queue
    Echo,         \* clients send the page's certificate and expiry back when they save
    Overlap,      \* the renewal loop may tick before the queue has drained
    MaxEvent,     \* bound on saves, requested renewals and deletes
    MaxFault      \* bound on restarts, failing calls and certificates falling due

ASSUME NullAssumption == Null \notin Pair
ASSUME FlagAssumption == Echo \in BOOLEAN /\ Overlap \in BOOLEAN
ASSUME SizeAssumption == MaxSite \in Nat /\ QueueCap \in Nat \ {0} /\ MaxEvent \in Nat /\ MaxFault \in Nat

VARIABLES
    row,          \* the sites table: id |-> site
    lastSite,     \* its AUTO_INCREMENT
    certFor,      \* the domain each certificate was issued for
    aged,         \* the certificates inside renewBefore of their expiry
    queue,        \* Issuer.queue
    issuer,       \* what the issuer's worker is doing
    due,          \* the sites the renewal loop has listed and not enqueued yet
    op,           \* what each client has on its page or in its request
    rolledBack,   \* history: a save wrote an older certificate or status over a newer one
    events,       \* bounded by MaxEvent
    faults        \* bounded by MaxFault

db == <<row, lastSite, rolledBack>>
certs == <<certFor, aged>>
vars == <<db, certs, queue, issuer, due, op, events, faults>>

-----------------------------------------------------------------------------
(* Sites. *)

Site == 1 .. MaxSite

\* queued stands for the statuses queued, pending, dns and validating, failed for failed
\* and expired, valid for valid and expiring: every decision treats them alike.
Issuing == {"queued", "syncing"}
Unsettled == Issuing \cup {"failed", "none"}

NoRow == [domain |-> Null, ssl |-> "none", cert |-> Null, key |-> Null,
          expiry |-> Null, status |-> "none"]

Live == DOMAIN row
LetsEncrypt(s) == s \in Live /\ row[s].ssl = "letsencrypt"
Taken(d, s) == \E x \in Live \ {s} : row[x].domain = d

Without(s) == [x \in Live \ {s} |-> row[x]]
SetStatus(s, status) ==
    row' = IF s \in Live THEN [row EXCEPT ![s].status = status] ELSE row

\* Regression: a status that a lost request left behind does not count.
NeedsUnlessQueued(r) ==
    \/ r.cert = Null \/ r.key = Null \/ r.expiry = Null
    \/ r.status \in {"failed", "none"}
    \/ r.expiry \in aged

\* siteNeedsIssuance
Needs(r) ==
    \/ r.cert = Null \/ r.key = Null \/ r.expiry = Null
    \/ r.status \in Unsettled
    \/ r.expiry \in aged

\* Regression: a new domain keeps the certificate of the old one.
ShouldIssueSameType(old, d, ssl) ==
    /\ ssl = "letsencrypt"
    /\ \/ old.ssl # "letsencrypt"
       \/ old.cert = Null \/ old.key = Null
       \/ old.status \in Unsettled

\* shouldIssueLetsEncrypt
ShouldIssue(old, d, ssl) ==
    /\ ssl = "letsencrypt"
    /\ \/ old.ssl # "letsencrypt"
       \/ old.domain # d
       \/ old.cert = Null \/ old.key = Null
       \/ old.status \in Unsettled

-----------------------------------------------------------------------------
(* The queue. *)

\* Regression: a full queue takes one more.
EnqueueAnyway(s) == queue' = IF Len(queue) <= QueueCap THEN Append(queue, s) ELSE queue

Enqueue(s) == queue' = IF Len(queue) < QueueCap THEN Append(queue, s) ELSE queue

NoWork == [pc |-> "idle", site |-> 0, domain |-> Null, pair |-> Null]
NoJob == [pc |-> "idle", site |-> 0, view |-> NoRow, pay |-> NoRow, issue |-> FALSE]

InUse == (UNION {{row[s].cert, row[s].key, row[s].expiry} : s \in Live})
         \cup (UNION {{op[o].view.cert, op[o].view.expiry, op[o].pay.cert,
                       op[o].pay.key, op[o].pay.expiry} : o \in Operator})
         \cup {issuer.pair}

\* A certificate and a key that did not exist before, for domain d: which one makes no
\* difference, and what was known of those out of use is forgotten.
Fresh(p, d) ==
    /\ p \notin InUse
    /\ p = CHOOSE q \in Pair \ InUse : TRUE
    /\ certFor' = [q \in Pair |-> IF q = p THEN d ELSE IF q \in InUse THEN certFor[q] ELSE Null]
    /\ aged' = aged \cap InUse

Event == events < MaxEvent /\ events' = events + 1
Fault == faults < MaxFault /\ faults' = faults + 1
NoEvent == UNCHANGED <<events, faults>>
Job(o, j) == op' = [op EXCEPT ![o] = j]

-----------------------------------------------------------------------------
(* The handlers of /sites. *)

\* POST /sites inserts the row; a site without a provider keeps no certificate.
CreateSite(o) ==
    /\ op[o].pc = "idle" /\ lastSite < MaxSite
    /\ \E d \in Domain, ssl \in {"letsencrypt", "none"} :
          LET r == [NoRow EXCEPT !.domain = d, !.ssl = ssl,
                                 !.status = IF ssl = "none" THEN "none" ELSE "queued"]
          IN  /\ ~Taken(d, 0)
              /\ row' = [x \in Live \cup {lastSite + 1} |-> IF x = lastSite + 1 THEN r ELSE row[x]]
              /\ lastSite' = lastSite + 1
              /\ Job(o, [NoJob EXCEPT !.pc = "reload", !.site = lastSite + 1])
    /\ UNCHANGED <<rolledBack, certs, queue, issuer, due>> /\ NoEvent

\* The edges could not be assigned: the handler deletes the row it has inserted.
UndoCreate(o) ==
    /\ op[o].pc = "reload" /\ op[o].pay = NoRow
    /\ Fault
    /\ row' = Without(op[o].site)
    /\ Job(o, NoJob)
    /\ UNCHANGED <<lastSite, rolledBack, certs, queue, issuer, due, events>>

\* GET /sites/{id}: the page shows everything but the private key.
LoadPage(o) ==
    /\ op[o].pc = "idle"
    /\ \E s \in Live : Job(o, [NoJob EXCEPT !.pc = "page", !.site = s,
                                            !.view = [row[s] EXCEPT !.key = Null]])
    /\ UNCHANGED <<db, certs, queue, issuer, due>> /\ NoEvent

\* PUT /sites/{id} reads the row it replaces and decides what to store.
\* preserveManagedCertificates, for a certificate c and an expiry e sent by the client.
Managed(old, v, d, c, e) ==
    [domain |-> d, ssl |-> "letsencrypt", status |-> v.status,
     cert |-> IF c = Null THEN old.cert ELSE c,
     key |-> IF c = Null THEN old.key ELSE Null,
     expiry |-> IF e = Null THEN old.expiry ELSE e]

SaveAs(o, pay) ==
    LET issue == ShouldIssue(row[op[o].site], pay.domain, pay.ssl) IN
    Job(o, [op[o] EXCEPT !.pc = "update", !.issue = issue,
                         !.pay = IF issue THEN [pay EXCEPT !.status = "queued"] ELSE pay])

SaveManaged(o) ==
    /\ op[o].pc = "page" /\ op[o].site \in Live
    /\ Event
    /\ \E d \in Domain :
          LET v == op[o].view
              old == row[op[o].site]
              c == IF Echo THEN v.cert ELSE Null
              e == IF Echo THEN v.expiry ELSE Null
          IN  SaveAs(o, Managed(old, v, d, c, e))
    /\ UNCHANGED <<db, certs, queue, issuer, due, faults>>

\* resolveCustomCertificate: an uploaded certificate comes with its key; a certificate
\* sent without one is paired with the stored key, if it is the stored one or fits it.
Custom(v, d, c, k) == [v EXCEPT !.domain = d, !.ssl = "custom", !.cert = c, !.key = k]

Upload(o) ==
    /\ op[o].pc = "page" /\ op[o].site \in Live
    /\ Event
    /\ \E d \in Domain, p \in Pair : Fresh(p, d) /\ SaveAs(o, Custom(op[o].view, d, p, p))
    /\ UNCHANGED <<db, queue, issuer, due, faults>>

SaveCustom(o) ==
    /\ op[o].pc = "page" /\ op[o].site \in Live
    /\ LET c == op[o].view.cert
           old == row[op[o].site]
       IN  /\ c # Null /\ old.key # Null
           /\ c \in {old.cert, old.key}
           /\ \E d \in Domain : SaveAs(o, Custom(op[o].view, d, c, old.key))
    /\ Event
    /\ UNCHANGED <<db, certs, queue, issuer, due, faults>>

\* clearSiteSslConfiguration
SaveNone(o) ==
    /\ op[o].pc = "page" /\ op[o].site \in Live
    /\ Event
    /\ \E d \in Domain : SaveAs(o, [NoRow EXCEPT !.domain = d])
    /\ UNCHANGED <<db, certs, queue, issuer, due, faults>>

\* COALESCE(?, ssl_cert_key), unless SSL is being turned off.
StoredKey(old, pay) ==
    IF pay.ssl = "none" \/ pay.key # Null THEN pay.key ELSE old.key

Update(o) ==
    /\ op[o].pc = "update"
    /\ LET s == op[o].site
           pay == op[o].pay
       IN  IF s \in Live /\ ~Taken(pay.domain, s)
           THEN /\ row' = [row EXCEPT ![s] = [pay EXCEPT !.key = StoredKey(row[s], pay)]]
                /\ Job(o, IF op[o].issue THEN [op[o] EXCEPT !.pc = "reload"] ELSE NoJob)
                /\ rolledBack' = (\/ rolledBack
                                  \/ /\ ~op[o].issue /\ pay.ssl = "letsencrypt"
                                     /\ <<pay.cert, pay.status>> # <<row[s].cert, row[s].status>>)
           ELSE UNCHANGED <<row, rolledBack>> /\ Job(o, NoJob)
    /\ UNCHANGED <<lastSite, certs, queue, issuer, due>> /\ NoEvent

\* The handler reads the row back, and enqueueLetsEncrypt looks at its provider.
Reload(o) ==
    /\ op[o].pc = "reload"
    /\ Job(o, IF LetsEncrypt(op[o].site)
              THEN [NoJob EXCEPT !.pc = "mark", !.site = op[o].site] ELSE NoJob)
    /\ UNCHANGED <<db, certs, queue, issuer, due>> /\ NoEvent

\* POST /sites/{id}/certificate/renew
RenewNow(o) ==
    /\ op[o].pc = "idle"
    /\ Event
    /\ \E s \in Live : /\ LetsEncrypt(s) /\ row[s].status \notin Issuing
                       /\ Job(o, [NoJob EXCEPT !.pc = "mark", !.site = s])
    /\ UNCHANGED <<db, certs, queue, issuer, due, faults>>

MarkQueued(o) ==
    /\ op[o].pc = "mark"
    /\ SetStatus(op[o].site, "queued")
    /\ Job(o, [op[o] EXCEPT !.pc = "send"])
    /\ UNCHANGED <<lastSite, rolledBack, certs, queue, issuer, due>> /\ NoEvent

Send(o) ==
    /\ op[o].pc = "send"
    /\ Enqueue(op[o].site)
    /\ Job(o, NoJob)
    /\ UNCHANGED <<db, certs, issuer, due>> /\ NoEvent

DeleteSite(s) ==
    /\ s \in Live
    /\ Event
    /\ row' = Without(s)
    /\ UNCHANGED <<lastSite, rolledBack, certs, queue, issuer, due, op, faults>>

\* A failing call, or a client that goes away, ends a request between two commands;
\* enqueueLetsEncrypt has a context of its own and goes on when the status is not written.
Abort(o) ==
    /\ \/ op[o].pc \in {"update", "reload"} /\ Job(o, NoJob)
       \/ op[o].pc = "mark" /\ Job(o, [op[o] EXCEPT !.pc = "send"])
    /\ Fault
    /\ UNCHANGED <<db, certs, queue, issuer, due, events>>

ClosePage(o) ==
    /\ op[o].pc = "page"
    /\ Job(o, NoJob)
    /\ UNCHANGED <<db, certs, queue, issuer, due>> /\ NoEvent

-----------------------------------------------------------------------------
(* The issuer's worker: issueSite. *)

Work(w) == issuer' = w

TakeSite ==
    /\ issuer.pc = "idle" /\ queue # <<>>
    /\ queue' = Tail(queue)
    /\ Work([NoWork EXCEPT !.pc = "load", !.site = Head(queue)])
    /\ UNCHANGED <<db, certs, due, op>> /\ NoEvent

\* A site that is gone, or that has another provider by now, is left alone.
LoadSite ==
    /\ issuer.pc = "load"
    /\ Work(IF LetsEncrypt(issuer.site)
            THEN [issuer EXCEPT !.pc = "mark", !.domain = row[issuer.site].domain]
            ELSE NoWork)
    /\ UNCHANGED <<db, certs, queue, due, op>> /\ NoEvent

\* The statuses queued, dns and validating, at any time until the CA answers.
Progress ==
    /\ issuer.pc \in {"mark", "obtain"}
    /\ SetStatus(issuer.site, "queued")
    /\ Work([issuer EXCEPT !.pc = "obtain"])
    /\ UNCHANGED <<lastSite, rolledBack, certs, queue, due, op>> /\ NoEvent

ObtainOk ==
    /\ issuer.pc = "obtain"
    /\ \E p \in Pair : /\ Fresh(p, issuer.domain)
                       /\ Work([issuer EXCEPT !.pc = "store", !.pair = p])
    /\ UNCHANGED <<db, queue, due, op>> /\ NoEvent

ObtainFail ==
    /\ issuer.pc = "obtain"
    /\ Work([issuer EXCEPT !.pc = "fail"])
    /\ UNCHANGED <<db, certs, queue, due, op>> /\ NoEvent

MarkFailed ==
    /\ issuer.pc = "fail"
    /\ SetStatus(issuer.site, "failed")
    /\ Work(NoWork)
    /\ UNCHANGED <<lastSite, rolledBack, certs, queue, due, op>> /\ NoEvent

\* Regression: the new certificate is stored under the old key.
Issued(r, p) == [r EXCEPT !.cert = p, !.expiry = p, !.status = "syncing"]

\* UpdateCertificate, whatever the row has become since it was loaded.
WithCertificate(r, p) == [r EXCEPT !.cert = p, !.key = p, !.expiry = p, !.status = "syncing"]

StoreCertificate ==
    /\ issuer.pc = "store"
    /\ IF issuer.site \in Live
       THEN /\ row' = [row EXCEPT ![issuer.site] = WithCertificate(@, issuer.pair)]
            /\ Work([issuer EXCEPT !.pc = "final"])
       ELSE row' = row /\ Work([issuer EXCEPT !.pc = "fail"])
    /\ UNCHANGED <<lastSite, rolledBack, certs, queue, due, op>> /\ NoEvent

\* After the push to the edges: certStatusForExpiry of the certificate just issued.
MarkIssued ==
    /\ issuer.pc = "final"
    /\ SetStatus(issuer.site, "valid")
    /\ Work(NoWork)
    /\ UNCHANGED <<lastSite, rolledBack, certs, queue, due, op>> /\ NoEvent

\* issueTimeout, a restart of MySQL: a command fails, and the worker gives up or goes on
\* without it.  The last status is written with the context that has timed out.
WorkFails ==
    /\ Fault
    /\ \/ issuer.pc = "store" /\ Work([issuer EXCEPT !.pc = "fail"])
       \/ issuer.pc \in {"load", "fail", "final"} /\ Work(NoWork)
       \/ issuer.pc = "mark" /\ Work([issuer EXCEPT !.pc = "obtain"])
    /\ UNCHANGED <<db, certs, queue, due, op, events>>

-----------------------------------------------------------------------------
(* The renewal loop: enqueueDue. *)

RenewTick ==
    /\ due = {}
    /\ Overlap \/ (queue = <<>> /\ issuer.pc = "idle")
    /\ due' = {s \in Live : LetsEncrypt(s) /\ Needs(row[s])}
    /\ due' # {}
    /\ UNCHANGED <<db, certs, queue, issuer, op>> /\ NoEvent

\* List returns the newest site first.
RenewSend ==
    /\ \E s \in due : /\ \A x \in due : x <= s
                      /\ Enqueue(s)
                      /\ due' = due \ {s}
    /\ UNCHANGED <<db, certs, issuer, op>> /\ NoEvent

-----------------------------------------------------------------------------
(* The environment. *)

\* A certificate comes within renewBefore of its expiry.
FallDue(p) ==
    /\ p \in InUse \ (aged \cup {Null})
    /\ Fault
    /\ aged' = aged \cup {p}
    /\ UNCHANGED <<db, certFor, queue, issuer, due, op, events>>

\* The process restarts: the queue, the worker and the requests are gone; the database
\* and the clients' pages stay.
Restart ==
    /\ Fault
    /\ queue' = <<>>
    /\ issuer' = NoWork
    /\ due' = {}
    /\ op' = [o \in Operator |-> IF op[o].pc = "page" THEN op[o] ELSE NoJob]
    /\ UNCHANGED <<db, certs, events>>

Init ==
    /\ row = [s \in {} |-> NoRow] /\ lastSite = 0 /\ rolledBack = FALSE
    /\ certFor = [p \in Pair |-> Null] /\ aged = {}
    /\ queue = <<>> /\ issuer = NoWork /\ due = {}
    /\ op = [o \in Operator |-> NoJob]
    /\ events = 0 /\ faults = 0

Save(o) == SaveManaged(o) \/ Upload(o) \/ SaveCustom(o) \/ SaveNone(o)
Request(o) == Update(o) \/ Reload(o) \/ MarkQueued(o) \/ Send(o)
Worker == TakeSite \/ LoadSite \/ Progress \/ ObtainOk \/ ObtainFail \/ MarkFailed
          \/ StoreCertificate \/ MarkIssued

Next ==
    \/ \E o \in Operator : \/ CreateSite(o) \/ UndoCreate(o) \/ LoadPage(o) \/ Save(o)
                           \/ RenewNow(o) \/ Request(o) \/ Abort(o) \/ ClosePage(o)
    \/ \E s \in Site : DeleteSite(s)
    \/ Worker \/ WorkFails
    \/ RenewTick \/ RenewSend
    \/ \E p \in Pair : FallDue(p)
    \/ Restart

Spec == Init /\ [][Next]_vars

\* Requests, the worker and the renewal loop keep going; issueTimeout ends every attempt;
\* a CA that is asked for a site again and again grants it in the end.
Granted(s) == issuer.site = s /\ ObtainOk

Fairness ==
    /\ \A o \in Operator : WF_vars(Request(o))
    /\ WF_vars(TakeSite) /\ WF_vars(LoadSite) /\ WF_vars(ObtainOk \/ ObtainFail)
    /\ WF_vars(issuer.pc = "mark" /\ Progress)
    /\ WF_vars(MarkFailed) /\ WF_vars(StoreCertificate) /\ WF_vars(MarkIssued)
    /\ WF_vars(RenewTick) /\ WF_vars(RenewSend)
    /\ \A s \in Site : SF_vars(Granted(s))

FairSpec == Spec /\ Fairness

-----------------------------------------------------------------------------
(* Properties. *)

Row == [domain: Domain, ssl: {"letsencrypt", "custom", "none"}, cert: Pair \cup {Null},
        key: Pair \cup {Null}, expiry: Pair \cup {Null},
        status: {"queued", "syncing", "valid", "failed", "none"}]
Works == [pc: {"idle", "load", "mark", "obtain", "fail", "store", "final"},
          site: 0 .. lastSite, domain: Domain \cup {Null}, pair: Pair \cup {Null}]
Jobs == [pc: {"idle", "page", "update", "reload", "mark", "send"}, site: 0 .. lastSite,
         view: Row \cup {NoRow}, pay: Row \cup {NoRow}, issue: BOOLEAN]

\* The queue never holds more than its capacity, and only ids the table has handed out.
TypeOK ==
    /\ lastSite \in 0 .. MaxSite
    /\ Live \subseteq 1 .. lastSite /\ \A s \in Live : row[s] \in Row
    /\ certFor \in [Pair -> Domain \cup {Null}] /\ aged \subseteq Pair
    /\ queue \in Seq(1 .. lastSite) /\ Len(queue) <= QueueCap
    /\ issuer \in Works /\ due \subseteq 1 .. lastSite /\ op \in [Operator -> Jobs]
    /\ rolledBack \in BOOLEAN
    /\ events \in 0 .. MaxEvent /\ faults \in 0 .. MaxFault

\* A stored certificate is stored with its own private key: whatever the issuer stores
\* between the moment a save reads the row and the moment it writes it, the edges are
\* never given a pair that does not fit (clients that leave the certificate out).
CertMatchesKey == \A s \in Live : row[s].cert # Null => row[s].key = row[s].cert

OnItsWay(s) ==
    \/ Needs(row[s])
    \/ s \in {queue[i] : i \in DOMAIN queue} \cup due
    \/ issuer.site = s /\ (issuer.domain = row[s].domain \/ issuer.pc \in {"load", "fail"})
    \/ \E o \in Operator : op[o].site = s /\ op[o].pc \in {"update", "reload", "mark", "send"}

\* A Let's Encrypt site never looks settled with the certificate of another domain: when
\* its domain changes while the worker obtains one for the old name, a request for the
\* new name is still waiting when the worker has stored it.
NoForeignCertificate ==
    ~rolledBack => \A s \in Live : (LetsEncrypt(s) /\ row[s].cert # Null /\ certFor[row[s].cert] # row[s].domain)
                      => OnItsWay(s)

\* A Let's Encrypt site that is short of a certificate in good standing.
Wanting(s) == /\ LetsEncrypt(s)
              /\ row[s].cert = Null \/ row[s].status # "valid" \/ row[s].expiry \in aged

\* Every Let's Encrypt site without a valid certificate gets one, or stops asking for it:
\* requests dropped by a full queue, lost in a restart, cut off after the status was
\* written, or refused by the CA are found again by the renewal loop.
EventuallyIssued == \A s \in Site : Wanting(s) ~> ~Wanting(s)
=============================================================================
