------------------------------- MODULE SiteEdges -------------------------------
(***************************************************************************)
(* One site and the edge servers it is assigned to: its row (sites), its     *)
(* assignment (site_servers), the edges with listening ports bound to it      *)
(* (site_listening_ports), and what each edge serves.  The handlers of /sites *)
(* and the issuer's callback write the database first and then post to the    *)
(* assigned edges one after the other (api/l7_site_push.go); every database   *)
(* command and every post is a step of its own.                               *)
(***************************************************************************)
EXTENDS Integers

CONSTANTS
    Edge,         \* edge servers
    Domain,       \* host names
    Actor,        \* handlers that may run at the same time
    Null,         \* no site
    MaxConf,      \* bound on the versions of the site row
    MaxFault      \* bound on posts and database calls that fail

Conf == [conf : 1 .. MaxConf, domain : Domain]

ASSUME NullAssumption == Null \notin Domain /\ Null \notin Conf
ASSUME SizeAssumption == MaxConf \in Nat /\ MaxFault \in Nat

VARIABLES
    site,         \* the row: its version and its domain, or Null
    servers,      \* the edges the site is assigned to
    bound,        \* the edges with listening ports selected for the site
    held,         \* what each edge serves: a version of the site, or Null
    op,           \* what each handler is doing
    lastConf,     \* the versions written so far
    left,         \* history: how an edge came off the site: by a save that kept its ports
                  \* ("kept"), because its last post failed ("failed"), or so and the handler
                  \* was cut off before it cleared the edge's ports ("cut")
    torn,         \* history: a handler was cut off, and no full push has begun alone since
    faults        \* bounded by MaxFault

vars == <<site, servers, bound, held, op, lastConf, left, torn, faults>>

-----------------------------------------------------------------------------
(* Handlers: what they do, the edges they assign, and the push they are in. *)

NoJob == [pc |-> "idle", what |-> "none", push |-> "none", view |-> Null, name |-> Null,
          pick |-> {}, todo |-> {}, ok |-> {}, bad |-> {}]

Job(a, j) == op' = [op EXCEPT ![a] = j]
Goto(a, pc) == Job(a, [op[a] EXCEPT !.pc = pc])
Quiet == \A a \in Actor : op[a].pc = "idle"
Off(S, how) == [e \in Edge |-> IF e \in S THEN how ELSE left[e]]
Alone(a) == \A b \in Actor \ {a} : op[b].pc = "idle"
Fault == faults < MaxFault /\ faults' = faults + 1

\* The row is written with its next version.
WriteRow(d) ==
    /\ lastConf < MaxConf /\ lastConf' = lastConf + 1
    /\ site' = [conf |-> lastConf + 1, domain |-> d]

\* A push begins: the site is read next.
Push(a, kind) ==
    Job(a, [op[a] EXCEPT !.pc = "load", !.push = kind, !.todo = {}, !.ok = {}, !.bad = {}])

-----------------------------------------------------------------------------
(* Writing the row and the assignment. *)

\* POST /sites
CreateSite(a) ==
    /\ op[a].pc = "idle" /\ lastConf = 0
    /\ \E d \in Domain, S \in SUBSET Edge :
          /\ WriteRow(d)
          /\ Job(a, [NoJob EXCEPT !.pc = "assign", !.what = "create", !.name = d, !.pick = S])
    /\ UNCHANGED <<servers, bound, held, left, torn, faults>>

\* PUT /sites/{id}: the row as it was is kept for its domain.
BeginSave(a) ==
    /\ op[a].pc = "idle" /\ site # Null
    /\ \E d \in Domain, S \in SUBSET Edge :
          Job(a, [NoJob EXCEPT !.pc = "row", !.what = "save", !.view = site, !.name = d, !.pick = S])
    /\ UNCHANGED <<site, servers, bound, held, lastConf, left, torn, faults>>

SaveRow(a) ==
    /\ op[a].pc = "row" /\ site # Null
    /\ WriteRow(op[a].name)
    /\ Goto(a, "assign")
    /\ UNCHANGED <<servers, bound, held, left, torn, faults>>

\* UpdateSiteServers: one transaction; the foreign key refuses the edges of a deleted site.
Assigned(S) ==
    /\ site # Null \/ S = {}
    /\ servers' = S

Assign(a) ==
    /\ op[a].pc = "assign"
    /\ Assigned(op[a].pick)
    /\ left' = [e \in Edge |-> IF e \in op[a].pick THEN "no" ELSE Off(servers, "kept")[e]]
    /\ Goto(a, "reload")
    /\ UNCHANGED <<site, bound, held, lastConf, torn, faults>>

\* A changed domain is announced to the edges before the whole site is.
Reload(a) ==
    /\ op[a].pc = "reload" /\ site # Null
    /\ IF op[a].what = "save" /\ op[a].view.domain # site.domain
       THEN Job(a, [op[a] EXCEPT !.pc = "load", !.push = "rename", !.name = site.domain])
       ELSE Push(a, "full")
    /\ UNCHANGED <<site, servers, bound, held, lastConf, left, torn, faults>>

\* The issuer's only worker has stored a certificate: its callback pushes the site.
Issued(a) ==
    /\ op[a].pc = "idle" /\ site # Null
    /\ \A b \in Actor : op[b].what # "issue"
    /\ WriteRow(site.domain)
    /\ Job(a, [NoJob EXCEPT !.pc = "load", !.what = "issue", !.push = "full"])
    /\ UNCHANGED <<servers, bound, held, left, torn, faults>>

\* Regression: the row is deleted before the edges are told.
DeleteBeforePush(a) ==
    /\ op[a].pc = "idle" /\ site # Null
    /\ site' = Null /\ servers' = {} /\ bound' = {}
    /\ Job(a, [NoJob EXCEPT !.pc = "load", !.what = "delete", !.push = "drop"])
    /\ UNCHANGED <<held, lastConf, left, torn, faults>>

\* DELETE /sites/{id} tells the edges first.
BeginDelete(a) ==
    /\ op[a].pc = "idle" /\ site # Null
    /\ Job(a, [NoJob EXCEPT !.pc = "load", !.what = "delete", !.push = "drop"])
    /\ UNCHANGED <<site, servers, bound, held, lastConf, left, torn, faults>>

-----------------------------------------------------------------------------
(* Pushes. *)

\* callL7UpdateSite, callL7UpdateDomain, callL7DeleteSite: no edges, nothing to do.
LoadSite(a) ==
    /\ op[a].pc = "load" /\ site # Null
    /\ Job(a, [op[a] EXCEPT !.pc = IF servers = {} THEN "post" ELSE "edges",
                            !.view = IF op[a].push = "full" THEN site ELSE @])
    /\ torn' = (torn /\ ~(op[a].push = "full" /\ Alone(a)))
    /\ UNCHANGED <<site, servers, bound, held, lastConf, left, faults>>

\* The edges are read again, after the site.
LoadEdges(a) ==
    /\ op[a].pc = "edges" /\ site # Null
    /\ Job(a, [op[a] EXCEPT !.pc = "post", !.todo = servers])
    /\ UNCHANGED <<site, servers, bound, held, lastConf, left, torn, faults>>

\* What an edge that serves h serves after a post of handler a.
Effect(a, h) ==
    CASE op[a].push = "full" -> op[a].view
      [] op[a].push = "drop" -> Null
      [] OTHER -> IF h = Null THEN Null ELSE [h EXCEPT !.domain = op[a].name]

Accepted(a, e) ==
    /\ held' = [held EXCEPT ![e] = Effect(a, @)]
    /\ Job(a, [op[a] EXCEPT !.todo = @ \ {e}, !.ok = @ \cup {e}])
    /\ UNCHANGED faults

\* The post fails; when only its answer was lost, the edge has taken it.
Failed(a, e) ==
    /\ Fault
    /\ held' \in {held, [held EXCEPT ![e] = Effect(a, @)]}
    /\ Job(a, [op[a] EXCEPT !.todo = @ \ {e}, !.bad = @ \cup {e}])

Post(a) ==
    /\ op[a].pc = "post"
    /\ \E e \in op[a].todo : Accepted(a, e) \/ Failed(a, e)
    /\ UNCHANGED <<site, servers, bound, lastConf, left, torn>>

Posted(a, kind) == op[a].pc = "post" /\ op[a].push = kind /\ op[a].todo = {}

\* Edges that would not rename the site are warnings only: the whole site follows.
EndRename(a) ==
    /\ Posted(a, "rename")
    /\ Push(a, "full")
    /\ UNCHANGED <<site, servers, bound, held, lastConf, left, torn, faults>>

\* Regression: the edges that failed stay assigned.
ApplyAll(a) ==
    /\ Posted(a, "full")
    /\ Assigned(op[a].ok \cup op[a].bad)
    /\ Job(a, NoJob)
    /\ UNCHANGED <<site, bound, held, lastConf, left, torn, faults>>

\* applySiteEdgeSync: the assignment becomes the edges that took the site.
Apply(a) ==
    /\ Posted(a, "full")
    /\ Assigned(op[a].ok)
    /\ left' = [e \in Edge |-> IF e \in op[a].ok THEN "no" ELSE Off(op[a].bad, "failed")[e]]
    /\ IF op[a].bad = {} THEN Job(a, NoJob) ELSE Goto(a, "clear")
    /\ UNCHANGED <<site, bound, held, lastConf, torn, faults>>

\* Regression: the ports of the edges that took the site are cleared.
ClearOthers(a) ==
    /\ op[a].pc = "clear"
    /\ bound' = bound \ op[a].ok
    /\ Job(a, NoJob)
    /\ UNCHANGED <<site, servers, held, lastConf, left, torn, faults>>

\* The edges that failed lose their listening ports.
ClearPorts(a) ==
    /\ op[a].pc = "clear"
    /\ bound' = bound \ op[a].bad
    /\ Job(a, NoJob)
    /\ UNCHANGED <<site, servers, held, lastConf, left, torn, faults>>

\* The row goes, its assignment and its ports with it; edges that failed are warnings.
DeleteRow(a) ==
    /\ Posted(a, "drop") /\ site # Null
    /\ site' = Null /\ servers' = {} /\ bound' = {}
    /\ left' = Off(op[a].bad, "failed")
    /\ Job(a, NoJob)
    /\ UNCHANGED <<held, lastConf, torn, faults>>

-----------------------------------------------------------------------------
(* Handlers that do not get to their end. *)

Writing(a) ==
    /\ op[a].pc \notin {"idle", "row", "bind"}
    /\ op[a].what = "delete" => op[a].ok \cup op[a].bad # {}

\* A database call fails, or the client goes away and takes the request's context along.  What
\* was committed stays: after the detach of the edges that failed, they keep their ports.
Abort(a) ==
    /\ op[a].pc # "idle"
    /\ Fault
    /\ Job(a, NoJob)
    /\ torn' = (torn \/ Writing(a))
    /\ left' = IF op[a].pc = "clear" THEN Off(op[a].bad, "cut") ELSE left
    /\ UNCHANGED <<site, servers, bound, held, lastConf>>

\* The site has been deleted under the handler.
Gone(a) ==
    /\ op[a].pc # "idle" /\ site = Null
    /\ \/ op[a].pc \in {"row", "reload", "load", "edges", "bind"}
       \/ op[a].pc = "assign" /\ op[a].pick # {}
       \/ Posted(a, "full") /\ op[a].ok # {}
       \/ Posted(a, "drop")
    /\ Job(a, NoJob)
    /\ UNCHANGED <<site, servers, bound, held, lastConf, left, torn, faults>>

\* POST /sites could not assign the edges or read the site back: the row is deleted.
UndoCreate(a) ==
    /\ op[a].what = "create" /\ op[a].pc \in {"assign", "reload"} /\ site # Null
    /\ Fault
    /\ site' = Null /\ servers' = {} /\ bound' = {}
    /\ Job(a, NoJob)
    /\ UNCHANGED <<held, lastConf, left, torn>>

-----------------------------------------------------------------------------
(* The listening ports of an edge, selected on the panel or reported by the edge. *)

BeginBind(a) ==
    /\ op[a].pc = "idle" /\ site # Null
    /\ \E e \in servers : Job(a, [NoJob EXCEPT !.pc = "bind", !.what = "ports", !.pick = {e}])
    /\ UNCHANGED <<site, servers, bound, held, lastConf, left, torn, faults>>

Bind(a) ==
    /\ op[a].pc = "bind" /\ site # Null
    /\ bound' \in {bound \cup op[a].pick, bound \ op[a].pick}
    /\ Job(a, NoJob)
    /\ UNCHANGED <<site, servers, held, lastConf, left, torn, faults>>

-----------------------------------------------------------------------------
Init ==
    /\ site = Null /\ servers = {} /\ bound = {}
    /\ held = [e \in Edge |-> Null]
    /\ op = [a \in Actor |-> NoJob]
    /\ lastConf = 0 /\ left = [e \in Edge |-> "no"] /\ torn = FALSE /\ faults = 0

Step(a) ==
    \/ CreateSite(a) \/ BeginSave(a) \/ SaveRow(a) \/ Assign(a) \/ Reload(a)
    \/ Issued(a) \/ BeginDelete(a) \/ LoadSite(a) \/ LoadEdges(a) \/ Post(a)
    \/ EndRename(a) \/ Apply(a) \/ ClearPorts(a) \/ DeleteRow(a)
    \/ Abort(a) \/ Gone(a) \/ UndoCreate(a) \/ BeginBind(a) \/ Bind(a)

Next == \E a \in Actor : Step(a)

Spec == Init /\ [][Next]_vars

-----------------------------------------------------------------------------
(* Properties. *)

Jobs == [pc : {"idle", "row", "assign", "reload", "load", "edges", "post", "clear", "bind"},
         what : {"none", "create", "save", "issue", "delete", "ports"},
         push : {"none", "rename", "full", "drop"},
         view : Conf \cup {Null}, name : Domain \cup {Null},
         pick : SUBSET Edge, todo : SUBSET Edge, ok : SUBSET Edge, bad : SUBSET Edge]

\* The database, the edges and the handlers hold versions of the site within the bound,
\* known domains and known edges only.
TypeOK ==
    /\ site \in Conf \cup {Null} /\ servers \subseteq Edge /\ bound \subseteq Edge
    /\ held \in [Edge -> Conf \cup {Null}] /\ op \in [Actor -> Jobs]
    /\ lastConf \in 0 .. MaxConf /\ left \in [Edge -> {"no", "kept", "failed", "cut"}] /\ torn \in BOOLEAN
    /\ faults \in 0 .. MaxFault

\* When no handler runs, every edge the site is assigned to serves the site as it is in
\* the database, whatever edges failed, unless a handler was cut off and no save has
\* completed since (applySiteEdgeSync keeps only edges that synced successfully).
AssignedServeTheSite ==
    (Quiet /\ ~torn /\ site # Null) => \A e \in servers : held[e] = site

\* An edge that serves the site without being assigned to it was taken off by a save or
\* failed to answer: a delete tells the edges while the assignment still names them
\* (callL7DeleteSite "must be called before the site is removed from the database").
StrayWasDropped == \A e \in Edge : held[e] # Null => (e \in servers \/ left[e] # "no")

\* Once the handlers have ended, listening ports are bound to the site on an edge that it is not
\* assigned to in two cases only: a save took the edge off (UpdateSiteServers leaves the ports
\* alone), or the handler was cut off between detaching the edges that failed and clearing their
\* ports.  Where it was not, applySiteEdgeSync "clears listening-port bindings for failed edges".
StrayPortsAreKnown == Quiet => \A e \in bound \ servers : left[e] \in {"kept", "cut"}

\* With handlers overlapping as they may, every assigned edge serves some version of the
\* site once they have all ended: no push leaves an edge assigned that never took it.
AssignedServeSomeVersion ==
    (Quiet /\ ~torn /\ site # Null) => \A e \in servers : held[e] # Null
=============================================================================
