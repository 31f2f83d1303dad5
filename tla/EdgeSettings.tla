----------------------------- MODULE EdgeSettings -----------------------------
(***************************************************************************)
(* The settings of one site that the panel and its edges both write: the      *)
(* list of upstream servers (upstream_servers) and the compression settings.   *)
(* The handlers under /sites/{id} write the database and post to the assigned  *)
(* edges; every minute each edge reports what it serves, and the report is      *)
(* written over the database (api/edge_configure_report.go).  Every database    *)
(* command and every post is a step of its own.                                *)
(***************************************************************************)
EXTENDS Integers, Functions

CONSTANTS
    Edge,         \* edge servers
    Address,      \* addresses of upstream servers
    Mode,         \* compression settings
    Actor,        \* panel handlers that may run at the same time
    Id,           \* row ids
    Null,         \* no mode
    Reports,      \* the edges report what they serve
    MaxEvent,     \* bound on requests to the panel
    MaxFault      \* bound on posts and database calls that fail

ASSUME FlagAssumption == Reports \in BOOLEAN
ASSUME SizeAssumption == MaxEvent \in Nat /\ MaxFault \in Nat
ASSUME NullAssumption == Null \notin Mode

VARIABLES
    servers,      \* the edges the site is assigned to
    rows,         \* upstream_servers: id |-> address
    mode,         \* the compression settings of the site
    held,         \* what each edge serves
    op,           \* what each panel handler is doing
    rep,          \* the report of each edge, on its way or being written
    settled,      \* history: the settings whose last request ended well
    events,       \* bounded by MaxEvent
    faults        \* bounded by MaxFault

vars == <<servers, rows, mode, held, op, rep, settled, events, faults>>

-----------------------------------------------------------------------------
(* Rows, requests and reports. *)

Listed(r) == Range(r)
NoRows == [i \in {} |-> {}]
With(i, x) == [j \in DOMAIN rows \cup {i} |-> IF j = i THEN x ELSE rows[j]]
Without(S) == [j \in DOMAIN rows \ S |-> rows[j]]
\* UPDATE ... WHERE id = ? of a row that is gone changes nothing, and is no error.
Updated(i, x) == IF i \in DOMAIN rows THEN With(i, x) ELSE rows

NoJob == [pc |-> "idle", what |-> "none", ids |-> {}, to |-> {}, list |-> {}, mode |-> Null,
          before |-> NoRows, was |-> Null, todo |-> {}, ok |-> {}, bad |-> {}]
NoReport == [pc |-> "idle", list |-> {}, mode |-> Null, seen |-> NoRows, todo |-> {}]

Job(a, j) == op' = [op EXCEPT ![a] = j]
Report(e, r) == rep' = [rep EXCEPT ![e] = r]
Quiet == \A a \in Actor : op[a].pc = "idle"

Part == {"list", "mode"}
Parts(a) == CASE op[a].what = "mode" -> {"mode"} [] op[a].what = "full" -> Part [] OTHER -> {"list"}
EndsWell(a) == settled' = settled \cup Parts(a) /\ Job(a, NoJob)
EndsBadly(a) == settled' = settled \ Parts(a) /\ Job(a, NoJob)

InUse == DOMAIN rows \cup (UNION {op[a].ids \cup DOMAIN op[a].before : a \in Actor})
                     \cup (UNION {DOMAIN rep[e].seen : e \in Edge})
\* AUTO_INCREMENT: an id nobody has; which one makes no difference.
Fresh(i) == i \in Id \ InUse /\ i = CHOOSE j \in Id \ InUse : TRUE

Event == events < MaxEvent /\ events' = events + 1
Fault == faults < MaxFault /\ faults' = faults + 1
NoEvent == UNCHANGED <<events, faults>>

-----------------------------------------------------------------------------
(* Requests: what they read before they write. *)

Ready(a) == op[a].pc = "idle" /\ Event

\* POST /upstream-servers: an address on the list is refused.
BeginAdd(a) ==
    /\ Ready(a)
    /\ \E x \in Address \ Listed(rows) :
          Job(a, [NoJob EXCEPT !.pc = "write", !.what = "add", !.to = {x}, !.before = rows])
    /\ UNCHANGED <<servers, rows, mode, held, rep, settled, faults>>

\* PUT /upstream-servers/{id}
BeginEdit(a) ==
    /\ Ready(a)
    /\ \E i \in DOMAIN rows, x \in Address :
          /\ \A j \in DOMAIN rows \ {i} : rows[j] # x
          /\ Job(a, [NoJob EXCEPT !.pc = "write", !.what = "edit", !.ids = {i}, !.to = {x},
                                  !.before = rows])
    /\ UNCHANGED <<servers, rows, mode, held, rep, settled, faults>>

\* DELETE /upstream-servers/{id} and the batch, which may name no row of the site: the
\* list without the rows is posted first.
BeginRemove(a) ==
    /\ Ready(a)
    /\ \E S \in SUBSET DOMAIN rows :
          Job(a, [NoJob EXCEPT !.pc = "edges", !.what = "remove", !.ids = S,
                               !.list = Listed(Without(S)), !.before = rows])
    /\ UNCHANGED <<servers, rows, mode, held, rep, settled, faults>>

\* PUT /compress: posted first.
BeginMode(a) ==
    /\ Ready(a)
    /\ \E m \in Mode : Job(a, [NoJob EXCEPT !.pc = "edges", !.what = "mode", !.mode = m, !.was = mode])
    /\ UNCHANGED <<servers, rows, mode, held, rep, settled, faults>>

\* The whole site: a save that has assigned S, or the issuer's callback (S = servers).
BeginFull(a) ==
    /\ Ready(a)
    /\ \E S \in SUBSET Edge :
          /\ servers' = S
          /\ Job(a, [NoJob EXCEPT !.pc = "edges", !.what = "full"])
    /\ UNCHANGED <<rows, mode, held, rep, settled, faults>>

WriteRow(a) ==
    /\ op[a].pc = "write"
    /\ \E x \in op[a].to :
          \/ /\ op[a].what = "add"
             /\ \E i \in Id : /\ Fresh(i)
                              /\ rows' = With(i, x)
                              /\ Job(a, [op[a] EXCEPT !.pc = "list", !.ids = {i}])
          \/ /\ op[a].what = "edit"
             /\ \E i \in op[a].ids : rows' = Updated(i, x)
             /\ Job(a, [op[a] EXCEPT !.pc = "list"])
    /\ UNCHANGED <<servers, mode, held, rep, settled>> /\ NoEvent

\* Regression: the list read before the row was written is posted.
ListStale(a) ==
    /\ op[a].pc = "list"
    /\ Job(a, [op[a] EXCEPT !.pc = "edges", !.list = Listed(op[a].before)])
    /\ UNCHANGED <<servers, rows, mode, held, rep, settled>> /\ NoEvent

\* callL7UpdateUpstreamServers: one list for every edge.
ListRows(a) ==
    /\ op[a].pc = "list"
    /\ Job(a, [op[a] EXCEPT !.pc = "edges", !.list = Listed(rows)])
    /\ UNCHANGED <<servers, rows, mode, held, rep, settled>> /\ NoEvent

-----------------------------------------------------------------------------
(* Posts. *)

\* Regression: the whole site is posted as it was last built.
LoadBuilt(a) ==
    /\ op[a].pc = "edges"
    /\ Job(a, [op[a] EXCEPT !.pc = "post", !.todo = servers])
    /\ UNCHANGED <<servers, rows, mode, held, rep, settled>> /\ NoEvent

\* postL7ToSiteEdgeServers: the edges are read when the post begins.
LoadEdges(a) ==
    /\ op[a].pc = "edges"
    /\ Job(a, [op[a] EXCEPT !.pc = IF op[a].what = "full" THEN "body" ELSE "post", !.todo = servers])
    /\ UNCHANGED <<servers, rows, mode, held, rep, settled>> /\ NoEvent

\* buildL7SiteConfigPayload, for each edge anew: the compression first, then the list.
ReadMode(a) ==
    /\ op[a].pc = "body" /\ op[a].todo # {}
    /\ Job(a, [op[a] EXCEPT !.pc = "bodylist", !.mode = mode])
    /\ UNCHANGED <<servers, rows, mode, held, rep, settled>> /\ NoEvent

ReadList(a) ==
    /\ op[a].pc = "bodylist"
    /\ Job(a, [op[a] EXCEPT !.pc = "post", !.list = Listed(rows)])
    /\ UNCHANGED <<servers, rows, mode, held, rep, settled>> /\ NoEvent

\* What an edge that serves h serves after a post of handler a.
Effect(a, h) ==
    [list |-> IF op[a].what = "mode" THEN h.list ELSE op[a].list,
     mode |-> IF op[a].what \in {"mode", "full"} THEN op[a].mode ELSE h.mode]

Answered(a, e, how) ==
    Job(a, [op[a] EXCEPT !.pc = IF op[a].what = "full" THEN "body" ELSE "post",
                         !.todo = @ \ {e},
                         !.ok = IF how THEN @ \cup {e} ELSE @,
                         !.bad = IF how THEN @ ELSE @ \cup {e}])

\* A post is taken, fails, or is taken without an answer.
Post(a) ==
    /\ op[a].pc = "post"
    /\ \E e \in op[a].todo :
          \/ /\ held' = [held EXCEPT ![e] = Effect(a, @)]
             /\ Answered(a, e, TRUE)
             /\ UNCHANGED faults
          \/ /\ Fault
             /\ held' \in {held, [held EXCEPT ![e] = Effect(a, @)]}
             /\ Answered(a, e, FALSE)
    /\ UNCHANGED <<servers, rows, mode, rep, settled, events>>

Posted(a) == op[a].todo = {} /\ op[a].pc \in {"post", "body"}
Refused(a) == Posted(a) /\ op[a].bad # {} /\ op[a].what # "full"
Taken(a) == Posted(a) /\ op[a].bad = {}

\* The edges have taken the new list.
EndWrite(a) ==
    /\ Taken(a) /\ op[a].what \in {"add", "edit"}
    /\ EndsWell(a)
    /\ UNCHANGED <<servers, rows, mode, held, rep>> /\ NoEvent

\* POST and PUT: an edge has refused the list, or it could not be posted at all.
Undoes(a) ==
    /\ op[a].what \in {"add", "edit"}
    /\ \/ Refused(a) /\ EndsBadly(a) /\ UNCHANGED faults
       \/ op[a].pc \in {"list", "edges"} /\ Fault /\ Job(a, NoJob) /\ UNCHANGED settled

\* Regression: an edited row keeps the refused address.
UndoAddOnly(a) ==
    /\ Undoes(a)
    /\ rows' = IF op[a].what = "add" THEN Without(op[a].ids) ELSE rows
    /\ UNCHANGED <<servers, mode, held, rep, events>>

\* The row is put back, and nothing is posted any more.
UndoWrite(a) ==
    /\ Undoes(a)
    /\ rows' = IF op[a].what = "add" THEN Without(op[a].ids)
               ELSE LET i == CHOOSE i \in op[a].ids : TRUE IN Updated(i, op[a].before[i])
    /\ UNCHANGED <<servers, mode, held, rep, events>>

RemoveRows(a) ==
    /\ Taken(a) /\ op[a].what = "remove"
    /\ rows' = Without(op[a].ids)
    /\ EndsWell(a)
    /\ UNCHANGED <<servers, mode, held, rep>> /\ NoEvent

StoreMode(a) ==
    /\ Taken(a) /\ op[a].what = "mode"
    /\ mode' = op[a].mode
    /\ EndsWell(a)
    /\ UNCHANGED <<servers, rows, held, rep>> /\ NoEvent

\* The settings could not be stored: those read at first are, and nothing is posted.
RestoreMode(a) ==
    /\ Taken(a) /\ op[a].what = "mode"
    /\ Fault
    /\ mode' = op[a].was
    /\ EndsBadly(a)
    /\ UNCHANGED <<servers, rows, held, rep, events>>

\* Removals and compression settings that an edge has refused: an error, and that is all.
GiveUp(a) ==
    /\ Refused(a) /\ op[a].what \in {"remove", "mode"}
    /\ EndsBadly(a)
    /\ UNCHANGED <<servers, rows, mode, held, rep>> /\ NoEvent

\* applySiteEdgeSync: the edges that failed come off the site.
Apply(a) ==
    /\ Posted(a) /\ op[a].what = "full"
    /\ servers' = op[a].ok
    /\ EndsWell(a)
    /\ UNCHANGED <<rows, mode, held, rep>> /\ NoEvent

\* Nothing has been written or posted yet.
Untouched(a) ==
    \/ op[a].pc = "write"
    \/ op[a].what \in {"remove", "mode"} /\ op[a].ok \cup op[a].bad = {}

\* The handler is cut off: a database call fails, or the client goes away and takes along
\* the request's context, under which the undo would have run.
Abort(a) ==
    /\ op[a].pc # "idle"
    /\ Fault
    /\ IF Untouched(a) THEN Job(a, NoJob) /\ UNCHANGED settled ELSE EndsBadly(a)
    /\ UNCHANGED <<servers, rows, mode, held, rep, events>>

-----------------------------------------------------------------------------
(* Reports. *)

SendReport(e) ==
    /\ Reports /\ rep[e].pc = "idle"
    /\ Report(e, [NoReport EXCEPT !.pc = "check", !.list = held[e].list, !.mode = held[e].mode])
    /\ UNCHANGED <<servers, rows, mode, held, op, settled>> /\ NoEvent

\* Sites the edge is not assigned to are skipped.
CheckReport(e) ==
    /\ rep[e].pc = "check"
    /\ Report(e, IF e \in servers THEN [rep[e] EXCEPT !.pc = "mode"] ELSE NoReport)
    /\ UNCHANGED <<servers, rows, mode, held, op, settled>> /\ NoEvent

\* syncSiteCompress
ReportMode(e) ==
    /\ rep[e].pc = "mode"
    /\ mode' = rep[e].mode
    /\ Report(e, [rep[e] EXCEPT !.pc = "list"])
    /\ UNCHANGED <<servers, rows, held, op, settled>> /\ NoEvent

\* syncSiteUpstreams reads the rows ...
ReportList(e) ==
    /\ rep[e].pc = "list"
    /\ Report(e, [rep[e] EXCEPT !.pc = "rows", !.seen = rows, !.todo = rep[e].list])
    /\ UNCHANGED <<servers, rows, mode, held, op, settled>> /\ NoEvent

\* existingByAddr: of the rows read with an address, one; which one makes no difference.
Known(e, x) == CHOOSE i \in DOMAIN rep[e].seen : rep[e].seen[i] = x

\* ... updates or creates one for every reported address ...
ReportRow(e) ==
    /\ rep[e].pc = "rows"
    /\ \E x \in rep[e].todo :
          /\ IF x \in Listed(rep[e].seen) THEN rows' = Updated(Known(e, x), x)
             ELSE \E i \in Id : Fresh(i) /\ rows' = With(i, x)
          /\ Report(e, [rep[e] EXCEPT !.todo = @ \ {x}])
    /\ UNCHANGED <<servers, mode, held, op, settled>> /\ NoEvent

\* Regression: reports only ever add.
ReportKeeps(e) ==
    /\ rep[e].pc = "rows" /\ rep[e].todo = {}
    /\ Report(e, NoReport)
    /\ UNCHANGED <<servers, rows, mode, held, op, settled>> /\ NoEvent

\* ... and deletes those it has read whose address was not reported.
ReportDelete(e) ==
    /\ rep[e].pc = "rows" /\ rep[e].todo = {}
    /\ rows' = Without({Known(e, x) : x \in Listed(rep[e].seen) \ rep[e].list})
    /\ Report(e, NoReport)
    /\ UNCHANGED <<servers, mode, held, op, settled>> /\ NoEvent

\* A database call of the report fails: what it was for is left, the next report is due.
ReportFails(e) ==
    /\ rep[e].pc # "idle"
    /\ Fault
    /\ Report(e, IF rep[e].pc = "mode" THEN [rep[e] EXCEPT !.pc = "list"] ELSE NoReport)
    /\ UNCHANGED <<servers, rows, mode, held, op, settled, events>>

-----------------------------------------------------------------------------
Init ==
    /\ servers = Edge /\ rows = NoRows /\ mode \in Mode
    /\ held = [e \in Edge |-> [list |-> {}, mode |-> mode]]
    /\ op = [a \in Actor |-> NoJob] /\ rep = [e \in Edge |-> NoReport]
    /\ settled = Part /\ events = 0 /\ faults = 0

Begin(a) == BeginAdd(a) \/ BeginEdit(a) \/ BeginRemove(a) \/ BeginMode(a) \/ BeginFull(a)
Continue(a) ==
    \/ WriteRow(a) \/ ListRows(a) \/ LoadEdges(a) \/ ReadMode(a) \/ ReadList(a) \/ Post(a)
    \/ EndWrite(a) \/ UndoWrite(a) \/ RemoveRows(a) \/ StoreMode(a) \/ RestoreMode(a)
    \/ GiveUp(a) \/ Apply(a)
ReportStep(e) ==
    \/ SendReport(e) \/ CheckReport(e) \/ ReportMode(e) \/ ReportList(e)
    \/ ReportRow(e) \/ ReportDelete(e)

Next ==
    \/ \E a \in Actor : Begin(a) \/ Continue(a) \/ Abort(a)
    \/ \E e \in Edge : ReportStep(e) \/ ReportFails(e)

Spec == Init /\ [][Next]_vars

\* Handlers go on, and edges report again and again.
FairSpec ==
    /\ Spec
    /\ \A a \in Actor : WF_vars(Continue(a))
    /\ \A e \in Edge : WF_vars(ReportStep(e))

-----------------------------------------------------------------------------
(* Properties. *)

RowsOf(D) == UNION {[S -> Address] : S \in SUBSET D}
Jobs == [pc : {"idle", "write", "list", "edges", "body", "bodylist", "post"},
         what : {"none", "add", "edit", "remove", "mode", "full"},
         ids : SUBSET Id, to : SUBSET Address, list : SUBSET Address,
         mode : Mode \cup {Null}, before : RowsOf(Id), was : Mode \cup {Null},
         todo : SUBSET Edge, ok : SUBSET Edge, bad : SUBSET Edge]
Snapshots == [pc : {"idle", "check", "mode", "list", "rows"}, list : SUBSET Address,
              mode : Mode \cup {Null}, seen : RowsOf(Id), todo : SUBSET Address]

\* Rows, edges and handlers hold addresses and settings only.
TypeOK ==
    /\ servers \subseteq Edge /\ rows \in RowsOf(Id) /\ mode \in Mode
    /\ held \in [Edge -> [list : SUBSET Address, mode : Mode]]
    /\ op \in [Actor -> Jobs] /\ rep \in [Edge -> Snapshots]
    /\ settled \subseteq Part /\ events \in 0 .. MaxEvent /\ faults \in 0 .. MaxFault

Aligned == \A e \in servers : held[e] = [list |-> Listed(rows), mode |-> mode]

\* When the last request for the list (for the compression) ended well and no handler
\* runs, every assigned edge serves the list (the compression) of the database, whatever
\* failed before (one handler at a time, and no report in between).
SuccessMeansAligned ==
    Quiet => \A e \in servers :
                /\ "list" \in settled => held[e].list = Listed(rows)
                /\ "mode" \in settled => held[e].mode = mode

\* A change that an edge refused, or that could not be posted, leaves the list as it was
\* before (the undo of POST and PUT /upstream-servers, the order of DELETE), although a
\* whole push lies between the write and the undo.
RefusedChangeIsUndone ==
    [][\A a \in Actor :
         (/\ op[a].what \in {"add", "edit", "remove"} /\ op'[a].pc = "idle"
          /\ \/ Refused(a) /\ faults' = faults
             \/ op[a].pc \in {"list", "edges"} /\ "list" \in settled')
         => rows' = op[a].before]_vars

\* Once the requests have ended, the database and the assigned edges come to agree and
\* stay so (docs/ANGELOS_API.md:343 "reconciles MySQL/Redis for that server so panel and
\* edge stay aligned").
EventuallyAligned == <>[]Aligned
=============================================================================
