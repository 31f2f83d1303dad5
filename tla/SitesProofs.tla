------------------------------ MODULE SitesProofs ------------------------------
(***************************************************************************)
(* Proofs about the sites: their edges (SiteEdges) and their rule sets          *)
(* (WafRuleSets), for any number of handlers, sites, edges, rule sets, rules.   *)
(***************************************************************************)
EXTENDS SiteEdges, WafRuleSets, TLAPS

-----------------------------------------------------------------------------
(* SiteEdges: type correctness for any number of handlers; for one handler at   *)
(* a time, that assigned edges serve the site of the database and that no edge  *)
(* serves it unnoticed; and, however many handlers overlap, that no edge is     *)
(* left assigned that serves nothing of the site.                               *)

-----------------------------------------------------------------------------
(* Types. *)

\* What a handler is doing is replaced as a whole.
LEMMA JobType ==
    ASSUME op \in [Actor -> Jobs], NEW a \in Actor, NEW j \in Jobs, Job(a, j)
    PROVE  op' \in [Actor -> Jobs] /\ op'[a] = j
BY DEF Job

\* A handler with nothing to do has a well-formed job.
LEMMA NoJobType == NoJob \in Jobs
BY DEF NoJob, Jobs

\* The row that is written is a version within the bound.
LEMMA WriteRowType ==
    ASSUME lastConf \in 0 .. MaxConf, NEW d \in Domain, WriteRow(d)
    PROVE  site' \in Conf /\ lastConf' \in 0 .. MaxConf
BY SizeAssumption DEF WriteRow, Conf

\* An edge serves a version of the site or nothing after a post.
LEMMA EffectType ==
    ASSUME op \in [Actor -> Jobs], NEW a \in Actor, NEW h \in Conf \cup {Null},
           op[a].push # "full" /\ op[a].push # "drop" => op[a].name \in Domain
    PROVE  Effect(a, h) \in Conf \cup {Null}
<1>1. op[a] \in Jobs
  OBVIOUS
<1>2. CASE op[a].push = "full"
  BY <1>1, <1>2 DEF Effect, Jobs
<1>3. CASE op[a].push = "drop"
  BY <1>3 DEF Effect
<1>4. CASE op[a].push \notin {"full", "drop"} /\ h = Null
  BY <1>4 DEF Effect
<1>5. CASE op[a].push \notin {"full", "drop"} /\ h # Null
  <2>1. op[a].push \in {"none", "rename"} /\ h \in Conf
    BY <1>1, <1>5 DEF Jobs
  <2>2. Effect(a, h) = [h EXCEPT !.domain = op[a].name]
    BY <1>5 DEF Effect
  <2>3. op[a].name \in Domain
    BY <2>1
  <2> QED BY <2>1, <2>2, <2>3 DEF Conf
<1> QED BY <1>2, <1>3, <1>4, <1>5

\* A handler that writes a row or renames a site has a name to write, and one that
\* posts is in a push.
Named(j) == /\ (j.pc = "row" \/ j.push = "rename") => j.name \in Domain
            /\ j.pc \in {"load", "edges", "post"} => j.push # "none"
TInv == TypeOK /\ \A a \in Actor : Named(op[a])

\* A step that gives one handler a well-formed job, and touches nothing else of op.
LEMMA StepJob ==
    ASSUME op \in [Actor -> Jobs], \A b \in Actor : Named(op[b]),
           NEW a \in Actor, NEW j \in Jobs, Named(j), Job(a, j)
    PROVE  op' \in [Actor -> Jobs] /\ \A b \in Actor : Named(op'[b])
<1>1. op' \in [Actor -> Jobs] /\ op'[a] = j
  BY JobType
<1>2. \A b \in Actor \ {a} : op'[b] = op[b]
  BY DEF Job
<1> QED BY <1>1, <1>2

\* The types hold at first.
LEMMA TypeInit == Init => TInv
<1> SUFFICES ASSUME Init PROVE TInv
  OBVIOUS
<1>1. op \in [Actor -> Jobs] /\ \A a \in Actor : Named(op[a])
  BY NoJobType DEF Init, NoJob, Named
<1>2. held \in [Edge -> Conf \cup {Null}] /\ left \in [Edge -> {"no", "kept", "failed", "cut"}]
  BY DEF Init
<1>3. lastConf \in 0 .. MaxConf /\ faults \in 0 .. MaxFault
  BY SizeAssumption DEF Init
<1>4. TypeOK
  BY <1>1, <1>2, <1>3 DEF Init, TypeOK
<1> QED BY <1>1, <1>4 DEF TInv

\* Every step of a handler keeps the types.
LEMMA TypeStep ==
    ASSUME TInv, NEW a \in Actor, Step(a)
    PROVE  TInv'
<1> DEFINE o == op[a]
<1> USE DEF TInv
<1>0. /\ op \in [Actor -> Jobs] /\ \A b \in Actor : Named(op[b])
      /\ o \in Jobs /\ Named(o) /\ TypeOK
      /\ lastConf \in 0 .. MaxConf /\ faults \in 0 .. MaxFault
  BY DEF TypeOK
<1>f. ASSUME Fault PROVE faults' \in 0 .. MaxFault
  BY <1>0, <1>f, SizeAssumption DEF Fault
<1>1. CASE CreateSite(a)
  <2>1. PICK d \in Domain, S \in SUBSET Edge :
          WriteRow(d) /\ Job(a, [NoJob EXCEPT !.pc = "assign", !.what = "create", !.name = d, !.pick = S])
    BY <1>1 DEF CreateSite
  <2>2. [NoJob EXCEPT !.pc = "assign", !.what = "create", !.name = d, !.pick = S] \in Jobs
    BY DEF NoJob, Jobs
  <2>3. Named([NoJob EXCEPT !.pc = "assign", !.what = "create", !.name = d, !.pick = S])
    BY DEF NoJob, Named
  <2>4. op' \in [Actor -> Jobs] /\ \A b \in Actor : Named(op'[b])
    BY <1>0, <2>1, <2>2, <2>3, StepJob
  <2>5. site' \in Conf /\ lastConf' \in 0 .. MaxConf
    BY <1>0, <2>1, WriteRowType
  <2> QED BY <1>0, <1>1, <2>4, <2>5 DEF CreateSite, TypeOK
<1>2. CASE BeginSave(a)
  <2>1. PICK d \in Domain, S \in SUBSET Edge :
          Job(a, [NoJob EXCEPT !.pc = "row", !.what = "save", !.view = site, !.name = d, !.pick = S])
    BY <1>2 DEF BeginSave
  <2>2. [NoJob EXCEPT !.pc = "row", !.what = "save", !.view = site, !.name = d, !.pick = S] \in Jobs
    BY <1>0 DEF NoJob, Jobs, TypeOK
  <2>3. Named([NoJob EXCEPT !.pc = "row", !.what = "save", !.view = site, !.name = d, !.pick = S])
    BY DEF NoJob, Named
  <2>4. op' \in [Actor -> Jobs] /\ \A b \in Actor : Named(op'[b])
    BY <1>0, <2>1, <2>2, <2>3, StepJob
  <2> QED BY <1>0, <1>2, <2>4 DEF BeginSave, TypeOK
<1>3. CASE SaveRow(a)
  <2>1. WriteRow(o.name) /\ o.name \in Domain
    BY <1>0, <1>3 DEF SaveRow, Named
  <2>2. [o EXCEPT !.pc = "assign"] \in Jobs /\ Named([o EXCEPT !.pc = "assign"])
    BY <1>0 DEF Jobs, Named
  <2>3. Job(a, [o EXCEPT !.pc = "assign"])
    BY <1>3 DEF SaveRow, Goto
  <2>4. op' \in [Actor -> Jobs] /\ \A b \in Actor : Named(op'[b])
    BY <1>0, <2>3, <2>2, StepJob
  <2>5. site' \in Conf /\ lastConf' \in 0 .. MaxConf
    BY <1>0, <2>1, WriteRowType
  <2> QED BY <1>0, <1>3, <2>4, <2>5 DEF SaveRow, TypeOK
<1>4. CASE Assign(a)
  <2>2. [o EXCEPT !.pc = "reload"] \in Jobs /\ Named([o EXCEPT !.pc = "reload"])
    BY <1>0 DEF Jobs, Named
  <2>3. Job(a, [o EXCEPT !.pc = "reload"])
    BY <1>4 DEF Assign, Goto
  <2>4. op' \in [Actor -> Jobs] /\ \A b \in Actor : Named(op'[b])
    BY <1>0, <2>3, <2>2, StepJob
  <2>5. servers' \subseteq Edge
    BY <1>0, <1>4 DEF Assign, Assigned, Jobs
  <2>6. left' \in [Edge -> {"no", "kept", "failed", "cut"}]
    BY <1>0, <1>4 DEF Assign, Off, TypeOK
  <2> QED BY <1>0, <1>4, <2>4, <2>5, <2>6 DEF Assign, TypeOK
<1>5. CASE Reload(a)
  <2>1. site \in Conf
    BY <1>0, <1>5 DEF Reload, TypeOK
  <2>2. PICK j \in Jobs : Job(a, j) /\ Named(j)
    <3>1. CASE o.what = "save" /\ o.view.domain # site.domain
      <4>1. [o EXCEPT !.pc = "load", !.push = "rename", !.name = site.domain] \in Jobs
        BY <1>0, <2>1 DEF Jobs, Conf
      <4>2. Named([o EXCEPT !.pc = "load", !.push = "rename", !.name = site.domain])
        BY <1>0, <2>1 DEF Jobs, Named, Conf
      <4> QED BY <1>5, <3>1, <4>1, <4>2 DEF Reload
    <3>2. CASE ~(o.what = "save" /\ o.view.domain # site.domain)
      <4>1. [o EXCEPT !.pc = "load", !.push = "full", !.todo = {}, !.ok = {}, !.bad = {}] \in Jobs
        BY <1>0 DEF Jobs
      <4>2. Named([o EXCEPT !.pc = "load", !.push = "full", !.todo = {}, !.ok = {}, !.bad = {}])
        BY <1>0 DEF Jobs, Named
      <4> QED BY <1>5, <3>2, <4>1, <4>2 DEF Reload, Push
    <3> QED BY <3>1, <3>2
  <2>4. op' \in [Actor -> Jobs] /\ \A b \in Actor : Named(op'[b])
    BY <1>0, <2>2, StepJob
  <2> QED BY <1>0, <1>5, <2>4 DEF Reload, TypeOK
<1>6. CASE Issued(a)
  <2>1. WriteRow(site.domain) /\ site.domain \in Domain
    BY <1>0, <1>6 DEF Issued, TypeOK, Conf
  <2>2. [NoJob EXCEPT !.pc = "load", !.what = "issue", !.push = "full"] \in Jobs
    BY DEF NoJob, Jobs
  <2>3. Named([NoJob EXCEPT !.pc = "load", !.what = "issue", !.push = "full"])
    BY DEF NoJob, Named
  <2>4. op' \in [Actor -> Jobs] /\ \A b \in Actor : Named(op'[b])
    BY <1>0, <1>6, <2>2, <2>3, StepJob DEF Issued
  <2>5. site' \in Conf /\ lastConf' \in 0 .. MaxConf
    BY <1>0, <2>1, WriteRowType
  <2> QED BY <1>0, <1>6, <2>4, <2>5 DEF Issued, TypeOK
<1>7. CASE BeginDelete(a)
  <2>2. [NoJob EXCEPT !.pc = "load", !.what = "delete", !.push = "drop"] \in Jobs
    BY DEF NoJob, Jobs
  <2>3. Named([NoJob EXCEPT !.pc = "load", !.what = "delete", !.push = "drop"])
    BY DEF NoJob, Named
  <2>4. op' \in [Actor -> Jobs] /\ \A b \in Actor : Named(op'[b])
    BY <1>0, <1>7, <2>2, <2>3, StepJob DEF BeginDelete
  <2> QED BY <1>0, <1>7, <2>4 DEF BeginDelete, TypeOK
<1>8. CASE LoadSite(a)
  <2> DEFINE j == [o EXCEPT !.pc = IF servers = {} THEN "post" ELSE "edges",
                            !.view = IF o.push = "full" THEN site ELSE @]
  <2>1. j \in Jobs /\ Named(j)
    BY <1>0, <1>8 DEF Jobs, Named, TypeOK, LoadSite
  <2>2. Job(a, j)
    BY <1>8 DEF LoadSite
  <2>4. op' \in [Actor -> Jobs] /\ \A b \in Actor : Named(op'[b])
    BY <1>0, <2>1, <2>2, StepJob
  <2>5. torn' \in BOOLEAN
    BY <1>8 DEF LoadSite
  <2> QED BY <1>0, <1>8, <2>4, <2>5 DEF LoadSite, TypeOK
<1>9. CASE LoadEdges(a)
  <2> DEFINE j == [o EXCEPT !.pc = "post", !.todo = servers]
  <2>1. j \in Jobs /\ Named(j)
    BY <1>0, <1>9 DEF Jobs, Named, TypeOK, LoadEdges
  <2>2. Job(a, j)
    BY <1>9 DEF LoadEdges
  <2>4. op' \in [Actor -> Jobs] /\ \A b \in Actor : Named(op'[b])
    BY <1>0, <2>1, <2>2, StepJob
  <2> QED BY <1>0, <1>9, <2>4 DEF LoadEdges, TypeOK
<1>10. CASE Post(a)
  <2>1. PICK e \in o.todo : Accepted(a, e) \/ Failed(a, e)
    BY <1>10 DEF Post
  <2>2. e \in Edge
    BY <1>0, <2>1 DEF Jobs
  <2>3. Effect(a, held[e]) \in Conf \cup {Null}
    <3>1. o.push # "full" /\ o.push # "drop" => o.name \in Domain
      BY <1>0, <1>10 DEF Post, Named, Jobs
    <3> QED BY <1>0, <2>2, <3>1, EffectType DEF TypeOK
  <2>4. [held EXCEPT ![e] = Effect(a, @)] \in [Edge -> Conf \cup {Null}]
    BY <1>0, <2>2, <2>3 DEF TypeOK
  <2>5. CASE Accepted(a, e)
    <3> DEFINE j == [o EXCEPT !.todo = @ \ {e}, !.ok = @ \cup {e}]
    <3>1. j \in Jobs /\ Named(j)
      BY <1>0, <2>2 DEF Jobs, Named
    <3>2. op' \in [Actor -> Jobs] /\ \A b \in Actor : Named(op'[b])
      BY <1>0, <2>5, <3>1, StepJob DEF Accepted
    <3> QED BY <1>0, <1>10, <2>4, <2>5, <3>2 DEF Post, Accepted, TypeOK
  <2>6. CASE Failed(a, e)
    <3> DEFINE j == [o EXCEPT !.todo = @ \ {e}, !.bad = @ \cup {e}]
    <3>1. j \in Jobs /\ Named(j)
      BY <1>0, <2>2 DEF Jobs, Named
    <3>2. op' \in [Actor -> Jobs] /\ \A b \in Actor : Named(op'[b])
      BY <1>0, <2>6, <3>1, StepJob DEF Failed
    <3>3. held' \in [Edge -> Conf \cup {Null}]
      BY <1>0, <2>4, <2>6 DEF Failed, TypeOK
    <3>4. faults' \in 0 .. MaxFault
      BY <2>6, <1>f DEF Failed
    <3> QED BY <1>0, <1>10, <3>2, <3>3, <3>4 DEF Post, TypeOK
  <2> QED BY <2>1, <2>5, <2>6
<1>11. CASE EndRename(a)
  <2> DEFINE j == [o EXCEPT !.pc = "load", !.push = "full", !.todo = {}, !.ok = {}, !.bad = {}]
  <2>1. j \in Jobs /\ Named(j)
    BY <1>0 DEF Jobs, Named
  <2>2. op' \in [Actor -> Jobs] /\ \A b \in Actor : Named(op'[b])
    BY <1>0, <1>11, <2>1, StepJob DEF EndRename, Push
  <2> QED BY <1>0, <1>11, <2>2 DEF EndRename, TypeOK
<1>12. CASE Apply(a)
  <2>1. op' \in [Actor -> Jobs] /\ \A b \in Actor : Named(op'[b])
    <3>1. [o EXCEPT !.pc = "clear"] \in Jobs /\ Named([o EXCEPT !.pc = "clear"])
      BY <1>0 DEF Jobs, Named
    <3>2. NoJob \in Jobs /\ Named(NoJob)
      BY NoJobType DEF NoJob, Named
    <3>3. Job(a, NoJob) \/ Job(a, [o EXCEPT !.pc = "clear"])
      BY <1>12 DEF Apply, Goto
    <3> QED BY <1>0, <3>1, <3>2, <3>3, StepJob
  <2>2. servers' \subseteq Edge
    BY <1>0, <1>12 DEF Apply, Assigned, Jobs
  <2>3. left' \in [Edge -> {"no", "kept", "failed", "cut"}]
    BY <1>0, <1>12 DEF Apply, Off, TypeOK
  <2> QED BY <1>0, <1>12, <2>1, <2>2, <2>3 DEF Apply, TypeOK
<1>n. NoJob \in Jobs /\ Named(NoJob)
  BY NoJobType DEF NoJob, Named
<1>m. ASSUME Job(a, NoJob) PROVE op' \in [Actor -> Jobs] /\ \A b \in Actor : Named(op'[b])
  BY <1>0, <1>n, <1>m, StepJob
<1>13. CASE ClearPorts(a)
  BY <1>0, <1>13, <1>m DEF ClearPorts, TypeOK
<1>14. CASE DeleteRow(a)
  <2>1. left' \in [Edge -> {"no", "kept", "failed", "cut"}]
    BY <1>0, <1>14 DEF DeleteRow, Off, TypeOK
  <2> QED BY <1>0, <1>14, <1>m, <2>1 DEF DeleteRow, TypeOK
<1>15. CASE Abort(a)
  <2>1. left' \in [Edge -> {"no", "kept", "failed", "cut"}]
    BY <1>0, <1>15 DEF Abort, Off, TypeOK
  <2>2. torn' \in BOOLEAN
    BY <1>0, <1>15 DEF Abort, TypeOK, Writing
  <2> QED BY <1>0, <1>15, <1>m, <1>f, <2>1, <2>2 DEF Abort, TypeOK
<1>16. CASE Gone(a)
  BY <1>0, <1>16, <1>m DEF Gone, TypeOK
<1>17. CASE UndoCreate(a)
  BY <1>0, <1>17, <1>m, <1>f DEF UndoCreate, TypeOK
<1>18. CASE BeginBind(a)
  <2>1. PICK e \in servers : Job(a, [NoJob EXCEPT !.pc = "bind", !.what = "ports", !.pick = {e}])
    BY <1>18 DEF BeginBind
  <2>2. [NoJob EXCEPT !.pc = "bind", !.what = "ports", !.pick = {e}] \in Jobs
    BY <1>0, <2>1 DEF NoJob, Jobs, TypeOK
  <2>3. Named([NoJob EXCEPT !.pc = "bind", !.what = "ports", !.pick = {e}])
    BY DEF NoJob, Named
  <2>4. op' \in [Actor -> Jobs] /\ \A b \in Actor : Named(op'[b])
    BY <1>0, <2>1, <2>2, <2>3, StepJob
  <2> QED BY <1>0, <1>18, <2>4 DEF BeginBind, TypeOK
<1>19. CASE Bind(a)
  <2>1. bound' \subseteq Edge
    BY <1>0, <1>19 DEF Bind, Jobs, TypeOK
  <2> QED BY <1>0, <1>19, <1>m, <2>1 DEF Bind, TypeOK
<1> QED BY <1>1, <1>2, <1>3, <1>4, <1>5, <1>6, <1>7, <1>8, <1>9, <1>10, <1>11, <1>12,
           <1>13, <1>14, <1>15, <1>16, <1>17, <1>18, <1>19 DEF Step

\* The types are an invariant, for any number of handlers.
THEOREM TypeCorrect == Spec => []TypeOK
<1>1. TInv /\ [Next]_vars => TInv'
  <2> SUFFICES ASSUME TInv, [Next]_vars PROVE TInv'
    OBVIOUS
  <2>1. CASE Next
    BY <2>1, TypeStep DEF Next
  <2>2. CASE UNCHANGED vars
    BY <2>2 DEF vars, TInv, TypeOK, Named
  <2> QED BY <2>1, <2>2
<1>2. Spec => []TInv
  BY TypeInit, <1>1, PTL DEF Spec
<1>3. TInv => TypeOK
  BY DEF TInv
<1> QED BY <1>2, <1>3, PTL

-----------------------------------------------------------------------------
(* One handler at a time. *)

\* The edges of a push: waiting, taken and failed, disjoint, and all that are assigned.
Lists(j) ==
    /\ j.pc \notin {"post", "clear"} => (j.todo = {} /\ j.ok = {} /\ j.bad = {})
    /\ j.pc = "post" => servers = j.todo \cup j.ok \cup j.bad
    /\ j.pc = "clear" => (servers = j.ok /\ j.push = "full")
    /\ j.todo \cap j.ok = {} /\ j.todo \cap j.bad = {} /\ j.ok \cap j.bad = {}
    /\ j.pc = "row" => j.what = "save"
    /\ j.pc = "bind" => j.pick \subseteq servers
    /\ j.what = "delete" <=> j.push = "drop"
    /\ j.what = "delete" => j.pc \in {"load", "edges", "post"}

\* The edges that have taken a push serve what it was to leave them with.
PushKnown(j) ==
    /\ (j.pc \in {"edges", "post", "clear"} /\ j.push = "full") => j.view = site
    /\ (j.pc \in {"post", "clear"} /\ j.push = "full") => \A e \in j.ok : held[e] = site
    /\ (j.pc = "post" /\ j.push = "drop") => \A e \in j.ok : held[e] = Null

\* Between requests, and before a request has written or posted, the assigned edges
\* serve the site.
Untouched(j) == j.pc \in {"idle", "row", "bind"} \/ (j.what = "delete" /\ j.ok \cup j.bad = {})
Served(j) == (Untouched(j) /\ ~torn) => \A e \in servers : held[e] = site

\* Nothing serves or names a site that does not exist yet.
Born(j) ==
    /\ lastConf = 0 => (site = Null /\ \A e \in Edge : held[e] = Null)
    /\ site = Null => (j.pc = "idle" /\ servers = {} /\ bound = {})
    /\ (j.what = "create" /\ j.pc \in {"assign", "reload"}) => \A e \in Edge : held[e] = Null

\* How edges came off the site.
Came(j) ==
    /\ \A e \in servers : left[e] = "no"
    /\ \A e \in bound \ servers :
          left[e] \in {"kept", "cut"} \/ (left[e] = "failed" /\ j.pc = "clear" /\ e \in j.bad)
    /\ StrayWasDropped

SInv(h) == TInv /\ Lists(op[h]) /\ PushKnown(op[h]) /\ Served(op[h]) /\ Born(op[h]) /\ Came(op[h])

\* Nothing is served before the first request.
LEMMA SerialInit == ASSUME NEW h \in Actor, Init PROVE SInv(h)
<1>1. op[h] = NoJob
  BY DEF Init
<1> QED BY <1>1, TypeInit
         DEF Init, NoJob, SInv, Lists, PushKnown, Served, Untouched, Born, Came, StrayWasDropped

\* Every step of the only handler keeps the invariant.
LEMMA SerialStep ==
    ASSUME NEW h, Actor = {h}, SInv(h), Step(h)
    PROVE  SInv(h)'
<1> DEFINE o == op[h]
           p == op'[h]
<1> USE DEF SInv, NoJob
<1>0. /\ op \in [Actor -> Jobs] /\ o \in Jobs /\ h \in Actor /\ Alone(h)
      /\ site \in Conf \cup {Null} /\ servers \subseteq Edge /\ bound \subseteq Edge
      /\ held \in [Edge -> Conf \cup {Null}] /\ lastConf \in 0 .. MaxConf
      /\ o.todo \subseteq Edge /\ o.ok \subseteq Edge /\ o.bad \subseteq Edge /\ o.pick \subseteq Edge
      /\ Lists(o) /\ PushKnown(o) /\ Served(o) /\ Born(o) /\ Came(o)
      /\ Named(o) /\ left \in [Edge -> {"no", "kept", "failed", "cut"}] /\ Null \notin Conf
  BY NullAssumption DEF TInv, TypeOK, Jobs, Alone
<1>t. TInv'
  BY <1>0, TypeStep
<1>1. CASE CreateSite(h)
  <2>1. PICK d \in Domain, S \in SUBSET Edge :
          p = [NoJob EXCEPT !.pc = "assign", !.what = "create", !.name = d, !.pick = S]
    BY <1>0, <1>1 DEF CreateSite, Job
  <2>0. PICK c \in Domain : WriteRow(c)
    BY <1>0, <1>1 DEF CreateSite, WriteRow
  <2>w. site' # Null /\ lastConf' # 0
    BY <1>0, <2>0, WriteRowType DEF WriteRow
  <2>2. Lists(op[h])'
    BY <1>0, <1>1, <2>1 DEF CreateSite, WriteRow, Lists
  <2>3. PushKnown(op[h])'
    BY <1>0, <1>1, <2>1 DEF CreateSite, WriteRow, Lists, PushKnown
  <2>4. Served(op[h])'
    BY <1>0, <1>1, <2>1 DEF CreateSite, WriteRow, Lists, PushKnown, Served, Untouched
  <2>5. Born(op[h])'
    BY <1>0, <1>1, <2>1, <2>w DEF CreateSite, WriteRow, Lists, Born
  <2>6. Came(op[h])'
    BY <1>0, <1>1, <2>1 DEF CreateSite, WriteRow, Lists, Came, StrayWasDropped
  <2> QED BY <1>t, <2>2, <2>3, <2>4, <2>5, <2>6
<1>2. CASE BeginSave(h)
  <2>1. PICK d \in Domain, S \in SUBSET Edge :
          p = [NoJob EXCEPT !.pc = "row", !.what = "save", !.view = site, !.name = d, !.pick = S]
    BY <1>0, <1>2 DEF BeginSave, Job
  <2>2. Lists(op[h])'
    BY <1>0, <1>2, <2>1 DEF BeginSave, Lists
  <2>3. PushKnown(op[h])'
    BY <1>0, <1>2, <2>1 DEF BeginSave, Lists, PushKnown
  <2>4. Served(op[h])'
    BY <1>0, <1>2, <2>1 DEF BeginSave, Lists, PushKnown, Served, Untouched
  <2>5. Born(op[h])'
    BY <1>0, <1>2, <2>1 DEF BeginSave, Lists, Born
  <2>6. Came(op[h])'
    BY <1>0, <1>2, <2>1 DEF BeginSave, Lists, Came, StrayWasDropped
  <2> QED BY <1>t, <2>2, <2>3, <2>4, <2>5, <2>6
<1>3. CASE SaveRow(h)
  <2>1. p = [o EXCEPT !.pc = "assign"]
    BY <1>0, <1>3 DEF SaveRow, Job, Goto
  <2>0. PICK c \in Domain : WriteRow(c)
    BY <1>0, <1>3 DEF SaveRow, Named
  <2>w. site' # Null /\ lastConf' # 0
    BY <1>0, <2>0, WriteRowType DEF WriteRow
  <2>2. Lists(op[h])'
    BY <1>0, <1>3, <2>1 DEF SaveRow, WriteRow, Lists
  <2>3. PushKnown(op[h])'
    BY <1>0, <1>3, <2>1 DEF SaveRow, WriteRow, Lists, PushKnown
  <2>4. Served(op[h])'
    BY <1>0, <1>3, <2>1 DEF SaveRow, WriteRow, Lists, PushKnown, Served, Untouched
  <2>5. Born(op[h])'
    BY <1>0, <1>3, <2>1, <2>w DEF SaveRow, WriteRow, Lists, Born
  <2>6. Came(op[h])'
    BY <1>0, <1>3, <2>1 DEF SaveRow, WriteRow, Lists, Came, StrayWasDropped
  <2> QED BY <1>t, <2>2, <2>3, <2>4, <2>5, <2>6
<1>4. CASE Assign(h)
  <2>1. p = [o EXCEPT !.pc = "reload"]
    BY <1>0, <1>4 DEF Assign, Job, Goto
  <2>2. Lists(op[h])'
    BY <1>0, <1>4, <2>1 DEF Assign, Assigned, Off, Lists
  <2>3. PushKnown(op[h])'
    BY <1>0, <1>4, <2>1 DEF Assign, Assigned, Off, Lists, PushKnown
  <2>4. Served(op[h])'
    BY <1>0, <1>4, <2>1 DEF Assign, Assigned, Off, Lists, PushKnown, Served, Untouched
  <2>5. Born(op[h])'
    BY <1>0, <1>4, <2>1 DEF Assign, Assigned, Off, Lists, Born
  <2>6. Came(op[h])'
    BY <1>0, <1>4, <2>1 DEF Assign, Assigned, Off, Lists, Came, StrayWasDropped
  <2> QED BY <1>t, <2>2, <2>3, <2>4, <2>5, <2>6
<1>5. CASE Reload(h)
  <2>1. \/ p = [o EXCEPT !.pc = "load", !.push = "rename", !.name = site.domain]
        \/ p = [o EXCEPT !.pc = "load", !.push = "full", !.todo = {}, !.ok = {}, !.bad = {}]
    BY <1>0, <1>5 DEF Reload, Push, Job
  <2>f. /\ p.todo = {} /\ p.ok = {} /\ p.bad = {} /\ p.pc = "load"
        /\ p.what = o.what /\ p.push \in {"rename", "full"} /\ o.what # "delete"
    <3>1. o.pc = "reload" /\ o.what # "delete" /\ o.todo = {} /\ o.ok = {} /\ o.bad = {}
      BY <1>0, <1>5 DEF Reload, Lists
    <3> QED BY <1>0, <2>1, <3>1, ZenonT(60) DEF Jobs
  <2>c. UNCHANGED <<site, servers, bound, held, lastConf, left>> /\ Born(o) /\ Came(o) /\ o.pc = "reload"
    BY <1>0, <1>5 DEF Reload
  <2>2. Lists(op[h])'
    BY <2>f DEF Lists
  <2>3. PushKnown(op[h])'
    BY <2>f DEF PushKnown
  <2>4. Served(op[h])'
    BY <2>f DEF Served, Untouched
  <2>5. Born(op[h])'
    BY <2>f, <2>c DEF Born
  <2>6. Came(op[h])'
    BY <2>f, <2>c DEF Came, StrayWasDropped
  <2> QED BY <1>t, <2>2, <2>3, <2>4, <2>5, <2>6
<1>6. CASE Issued(h)
  <2>1. p = [NoJob EXCEPT !.pc = "load", !.what = "issue", !.push = "full"]
    BY <1>0, <1>6 DEF Issued, Job
  <2>0. PICK c \in Domain : WriteRow(c)
    BY <1>0, <1>6 DEF Issued, Conf
  <2>w. site' # Null /\ lastConf' # 0
    BY <1>0, <2>0, WriteRowType DEF WriteRow
  <2>2. Lists(op[h])'
    BY <1>0, <1>6, <2>1 DEF Issued, WriteRow, Lists
  <2>3. PushKnown(op[h])'
    BY <1>0, <1>6, <2>1 DEF Issued, WriteRow, Lists, PushKnown
  <2>4. Served(op[h])'
    BY <1>0, <1>6, <2>1 DEF Issued, WriteRow, Lists, PushKnown, Served, Untouched
  <2>5. Born(op[h])'
    BY <1>0, <1>6, <2>1, <2>w DEF Issued, WriteRow, Lists, Born
  <2>6. Came(op[h])'
    BY <1>0, <1>6, <2>1 DEF Issued, WriteRow, Lists, Came, StrayWasDropped
  <2> QED BY <1>t, <2>2, <2>3, <2>4, <2>5, <2>6
<1>7. CASE BeginDelete(h)
  <2>1. p = [NoJob EXCEPT !.pc = "load", !.what = "delete", !.push = "drop"]
    BY <1>0, <1>7 DEF BeginDelete, Job
  <2>2. Lists(op[h])'
    BY <1>0, <1>7, <2>1 DEF BeginDelete, Lists
  <2>3. PushKnown(op[h])'
    BY <1>0, <1>7, <2>1 DEF BeginDelete, Lists, PushKnown
  <2>4. Served(op[h])'
    BY <1>0, <1>7, <2>1 DEF BeginDelete, Lists, PushKnown, Served, Untouched
  <2>5. Born(op[h])'
    BY <1>0, <1>7, <2>1 DEF BeginDelete, Lists, Born
  <2>6. Came(op[h])'
    BY <1>0, <1>7, <2>1 DEF BeginDelete, Lists, Came, StrayWasDropped
  <2> QED BY <1>t, <2>2, <2>3, <2>4, <2>5, <2>6
<1>8. CASE LoadSite(h)
  <2>1. p = [o EXCEPT !.pc = IF servers = {} THEN "post" ELSE "edges",
                          !.view = IF o.push = "full" THEN site ELSE @]
    BY <1>0, <1>8 DEF LoadSite, Job
  <2>2. Lists(op[h])'
    BY <1>0, <1>8, <2>1 DEF LoadSite, Alone, Lists
  <2>3. PushKnown(op[h])'
    BY <1>0, <1>8, <2>1 DEF LoadSite, Alone, Lists, PushKnown
  <2>4. Served(op[h])'
    BY <1>0, <1>8, <2>1 DEF LoadSite, Alone, Lists, Served, Untouched, Jobs
  <2>5. Born(op[h])'
    BY <1>0, <1>8, <2>1 DEF LoadSite, Alone, Lists, Born
  <2>6. Came(op[h])'
    BY <1>0, <1>8, <2>1 DEF LoadSite, Alone, Lists, Came, StrayWasDropped
  <2> QED BY <1>t, <2>2, <2>3, <2>4, <2>5, <2>6
<1>9. CASE LoadEdges(h)
  <2>1. p = [o EXCEPT !.pc = "post", !.todo = servers]
    BY <1>0, <1>9 DEF LoadEdges, Job
  <2>2. Lists(op[h])'
    BY <1>0, <1>9, <2>1 DEF LoadEdges, Lists
  <2>3. PushKnown(op[h])'
    BY <1>0, <1>9, <2>1 DEF LoadEdges, Lists, PushKnown
  <2>4. Served(op[h])'
    BY <1>0, <1>9, <2>1 DEF LoadEdges, Lists, PushKnown, Served, Untouched
  <2>5. Born(op[h])'
    BY <1>0, <1>9, <2>1 DEF LoadEdges, Lists, Born
  <2>6. Came(op[h])'
    BY <1>0, <1>9, <2>1 DEF LoadEdges, Lists, Came, StrayWasDropped
  <2> QED BY <1>t, <2>2, <2>3, <2>4, <2>5, <2>6
<1>10. CASE Post(h)
  <2>1. PICK e \in o.todo :
          /\ \/ p = [o EXCEPT !.todo = @ \ {e}, !.ok = @ \cup {e}]
                /\ held' = [held EXCEPT ![e] = Effect(h, @)]
             \/ p = [o EXCEPT !.todo = @ \ {e}, !.bad = @ \cup {e}]
                /\ held' \in {held, [held EXCEPT ![e] = Effect(h, @)]}
    BY <1>0, <1>10 DEF Post, Accepted, Failed, Job
  <2>e. /\ o.pc = "post" /\ e \in servers
        /\ o.push = "full" => Effect(h, held[e]) = site
        /\ o.push = "drop" => Effect(h, held[e]) = Null
    BY <1>0, <1>10, <2>1 DEF Post, Effect, Lists, PushKnown
  <2>2. Lists(op[h])'
    <3>1. /\ p.todo = o.todo \ {e} /\ p.pc = o.pc /\ p.what = o.what /\ p.push = o.push
          /\ \/ p.ok = o.ok \cup {e} /\ p.bad = o.bad
             \/ p.ok = o.ok /\ p.bad = o.bad \cup {e}
      BY <1>0, <2>1 DEF Jobs
    <3>2. servers' = servers
      BY <1>10 DEF Post
    <3> QED BY <1>0, <2>1, <2>e, <3>1, <3>2 DEF Lists
  <2>3. PushKnown(op[h])'
    <3>1. /\ p.pc = o.pc /\ p.push = o.push /\ p.view = o.view /\ site' = site
          /\ \A f \in p.ok \ {e} : held'[f] = held[f] /\ f \in o.ok
          /\ e \in p.ok => held'[e] = Effect(h, held[e])
      <4>1. CASE p = [o EXCEPT !.todo = @ \ {e}, !.ok = @ \cup {e}]
                 /\ held' = [held EXCEPT ![e] = Effect(h, @)]
        BY <1>0, <1>10, <4>1 DEF Post, Jobs
      <4>2. CASE p = [o EXCEPT !.todo = @ \ {e}, !.bad = @ \cup {e}]
                 /\ held' \in {held, [held EXCEPT ![e] = Effect(h, @)]}
        <5>1. p.ok = o.ok /\ p.pc = o.pc /\ p.push = o.push /\ p.view = o.view /\ e \notin o.ok
          BY <1>0, <2>1, <4>2 DEF Jobs, Lists
        <5>2. \A f \in Edge \ {e} : held'[f] = held[f]
          BY <1>0, <4>2
        <5>3. \A f \in p.ok : held'[f] = held[f] /\ f \in o.ok
          BY <1>0, <5>1, <5>2
        <5>4. site' = site
          BY <1>10 DEF Post
        <5> QED BY <5>1, <5>3, <5>4
      <4> QED BY <2>1, <4>1, <4>2
    <3> QED BY <1>0, <2>e, <3>1 DEF PushKnown
  <2>4. Served(op[h])'
    <3>1. p.pc = "post" /\ e \in p.ok \cup p.bad
      <4>1. CASE p = [o EXCEPT !.todo = @ \ {e}, !.ok = @ \cup {e}]
        BY <1>0, <2>e, <4>1 DEF Jobs
      <4>2. CASE p = [o EXCEPT !.todo = @ \ {e}, !.bad = @ \cup {e}]
        BY <1>0, <2>e, <4>2 DEF Jobs
      <4> QED BY <2>1, <4>1, <4>2
    <3> QED BY <3>1 DEF Served, Untouched
  <2>5. Born(op[h])'
    BY <1>0, <1>10, <2>1 DEF Post, Effect, Lists, Born, Jobs
  <2>6. Came(op[h])'
    BY <1>0, <1>10, <2>1, <2>e DEF Post, Effect, Lists, Came, StrayWasDropped, Jobs
  <2> QED BY <1>t, <2>2, <2>3, <2>4, <2>5, <2>6
<1>11. CASE EndRename(h)
  <2>1. p = [o EXCEPT !.pc = "load", !.push = "full", !.todo = {}, !.ok = {}, !.bad = {}]
    BY <1>0, <1>11 DEF EndRename, Job, Push
  <2>2. Lists(op[h])'
    BY <1>0, <1>11, <2>1 DEF EndRename, Posted, Lists
  <2>3. PushKnown(op[h])'
    BY <1>0, <1>11, <2>1 DEF EndRename, Posted, Lists, PushKnown
  <2>4. Served(op[h])'
    BY <1>0, <1>11, <2>1 DEF EndRename, Posted, Lists, PushKnown, Served, Untouched
  <2>5. Born(op[h])'
    BY <1>0, <1>11, <2>1 DEF EndRename, Posted, Lists, Born
  <2>6. Came(op[h])'
    BY <1>0, <1>11, <2>1 DEF EndRename, Posted, Lists, Came, StrayWasDropped
  <2> QED BY <1>t, <2>2, <2>3, <2>4, <2>5, <2>6
<1>12. CASE Apply(h)
  <2>1. p = IF o.bad = {} THEN NoJob ELSE [o EXCEPT !.pc = "clear"]
    BY <1>0, <1>12 DEF Apply, Goto, Job
  <2>2. Lists(op[h])'
    BY <1>0, <1>12, <2>1 DEF Apply, Posted, Assigned, Off, Lists
  <2>3. PushKnown(op[h])'
    BY <1>0, <1>12, <2>1 DEF Apply, Posted, Assigned, Off, Lists, PushKnown
  <2>4. Served(op[h])'
    BY <1>0, <1>12, <2>1 DEF Apply, Posted, Assigned, Off, Lists, PushKnown, Served, Untouched
  <2>5. Born(op[h])'
    BY <1>0, <1>12, <2>1 DEF Apply, Posted, Assigned, Off, Lists, Born
  <2>6. Came(op[h])'
    BY <1>0, <1>12, <2>1 DEF Apply, Posted, Assigned, Off, Lists, Came, StrayWasDropped
  <2> QED BY <1>t, <2>2, <2>3, <2>4, <2>5, <2>6
<1>13. CASE ClearPorts(h)
  <2>1. p = NoJob
    BY <1>0, <1>13 DEF ClearPorts, Job
  <2>2. Lists(op[h])'
    BY <1>0, <1>13, <2>1 DEF ClearPorts, Lists
  <2>3. PushKnown(op[h])'
    BY <1>0, <1>13, <2>1 DEF ClearPorts, Lists, PushKnown
  <2>4. Served(op[h])'
    BY <1>0, <1>13, <2>1 DEF ClearPorts, Lists, PushKnown, Served, Untouched
  <2>5. Born(op[h])'
    BY <1>0, <1>13, <2>1 DEF ClearPorts, Lists, Born
  <2>6. Came(op[h])'
    BY <1>0, <1>13, <2>1 DEF ClearPorts, Lists, Came, StrayWasDropped
  <2> QED BY <1>t, <2>2, <2>3, <2>4, <2>5, <2>6
<1>14. CASE DeleteRow(h)
  <2>1. p = NoJob
    BY <1>0, <1>14 DEF DeleteRow, Job
  <2>2. Lists(op[h])'
    BY <1>0, <1>14, <2>1 DEF DeleteRow, Posted, Off, Lists
  <2>3. PushKnown(op[h])'
    BY <1>0, <1>14, <2>1 DEF DeleteRow, Posted, Off, Lists, PushKnown
  <2>4. Served(op[h])'
    BY <1>0, <1>14, <2>1 DEF DeleteRow, Posted, Off, Lists, PushKnown, Served, Untouched
  <2>5. Born(op[h])'
    BY <1>0, <1>14, <2>1 DEF DeleteRow, Posted, Off, Lists, Born
  <2>6. Came(op[h])'
    BY <1>0, <1>14, <2>1 DEF DeleteRow, Posted, Off, Lists, PushKnown, Came, StrayWasDropped
  <2> QED BY <1>t, <2>2, <2>3, <2>4, <2>5, <2>6
<1>15. CASE Abort(h)
  <2>1. p = NoJob
    BY <1>0, <1>15 DEF Abort, Job
  <2>2. Lists(op[h])'
    BY <1>0, <1>15, <2>1 DEF Abort, Writing, Off, Lists
  <2>3. PushKnown(op[h])'
    BY <1>0, <1>15, <2>1 DEF Abort, Writing, Off, Lists, PushKnown
  <2>4. Served(op[h])'
    BY <1>0, <1>15, <2>1 DEF Abort, Writing, Off, Lists, PushKnown, Served, Untouched
  <2>5. Born(op[h])'
    BY <1>0, <1>15, <2>1 DEF Abort, Writing, Off, Lists, Born
  <2>6. Came(op[h])'
    BY <1>0, <1>15, <2>1 DEF Abort, Writing, Off, Lists, Came, StrayWasDropped
  <2> QED BY <1>t, <2>2, <2>3, <2>4, <2>5, <2>6
<1>16. CASE Gone(h)
  BY <1>0, <1>16 DEF Gone, Born
<1>17. CASE UndoCreate(h)
  <2>1. p = NoJob
    BY <1>0, <1>17 DEF UndoCreate, Job
  <2>2. Lists(op[h])'
    BY <1>0, <1>17, <2>1 DEF UndoCreate, Lists
  <2>3. PushKnown(op[h])'
    BY <1>0, <1>17, <2>1 DEF UndoCreate, Lists, PushKnown
  <2>4. Served(op[h])'
    BY <1>0, <1>17, <2>1 DEF UndoCreate, Lists, PushKnown, Served, Untouched
  <2>5. Born(op[h])'
    BY <1>0, <1>17, <2>1 DEF UndoCreate, Lists, Born
  <2>6. Came(op[h])'
    BY <1>0, <1>17, <2>1 DEF UndoCreate, Lists, Born, Came, StrayWasDropped
  <2> QED BY <1>t, <2>2, <2>3, <2>4, <2>5, <2>6
<1>18. CASE BeginBind(h)
  <2>1. PICK e \in servers : p = [NoJob EXCEPT !.pc = "bind", !.what = "ports", !.pick = {e}]
    BY <1>0, <1>18 DEF BeginBind, Job
  <2>2. Lists(op[h])'
    BY <1>0, <1>18, <2>1 DEF BeginBind, Lists
  <2>3. PushKnown(op[h])'
    BY <1>0, <1>18, <2>1 DEF BeginBind, Lists, PushKnown
  <2>4. Served(op[h])'
    BY <1>0, <1>18, <2>1 DEF BeginBind, Lists, PushKnown, Served, Untouched
  <2>5. Born(op[h])'
    BY <1>0, <1>18, <2>1 DEF BeginBind, Lists, Born
  <2>6. Came(op[h])'
    BY <1>0, <1>18, <2>1 DEF BeginBind, Lists, Came, StrayWasDropped
  <2> QED BY <1>t, <2>2, <2>3, <2>4, <2>5, <2>6
<1>19. CASE Bind(h)
  <2>1. p = NoJob
    BY <1>0, <1>19 DEF Bind, Job
  <2>2. Lists(op[h])'
    BY <1>0, <1>19, <2>1 DEF Bind, Lists
  <2>3. PushKnown(op[h])'
    BY <1>0, <1>19, <2>1 DEF Bind, Lists, PushKnown
  <2>4. Served(op[h])'
    BY <1>0, <1>19, <2>1 DEF Bind, Lists, PushKnown, Served, Untouched
  <2>5. Born(op[h])'
    BY <1>0, <1>19, <2>1 DEF Bind, Lists, Born
  <2>6. Came(op[h])'
    BY <1>0, <1>19, <2>1 DEF Bind, Lists, Came, StrayWasDropped
  <2> QED BY <1>t, <2>2, <2>3, <2>4, <2>5, <2>6
<1> QED BY <1>1, <1>2, <1>3, <1>4, <1>5, <1>6, <1>7, <1>8, <1>9, <1>10, <1>11, <1>12,
            <1>13, <1>14, <1>15, <1>16, <1>17, <1>18, <1>19 DEF Step

\* SInv is an invariant while one handler runs at a time.
LEMMA Serial == ASSUME NEW h, Actor = {h} PROVE Spec => []SInv(h)
<1>1. Init => SInv(h)
  BY SerialInit
<1>2. SInv(h) /\ [Next]_vars => SInv(h)'
  <2> SUFFICES ASSUME SInv(h), [Next]_vars PROVE SInv(h)'
    OBVIOUS
  <2>1. CASE Next
    BY <2>1, SerialStep DEF Next
  <2>2. CASE UNCHANGED vars
    BY <2>2 DEF vars, SInv, TInv, TypeOK, Named, Lists, PushKnown, Served, Untouched, Born, Came,
                StrayWasDropped
  <2> QED BY <2>1, <2>2
<1> QED BY <1>1, <1>2, PTL DEF Spec

\* One handler at a time leaves no edge assigned that does not serve the site of the
\* database, whatever posts failed, unless it was cut off.
THEOREM SerialAssigned == ASSUME NEW h, Actor = {h} PROVE Spec => []AssignedServeTheSite
<1>1. SInv(h) => AssignedServeTheSite
  BY DEF SInv, Served, Untouched, AssignedServeTheSite, Quiet
<1> QED BY <1>1, Serial, PTL

\* One handler at a time leaves no edge that serves the site unassigned, but those that a
\* save took off and those that failed.
THEOREM SerialStray == ASSUME NEW h, Actor = {h} PROVE Spec => []StrayWasDropped
<1>1. SInv(h) => StrayWasDropped
  BY DEF SInv, Came
<1> QED BY <1>1, Serial, PTL

\* One handler at a time leaves a listening port bound outside the assignment only on an
\* edge that a save took off, or whose clearing of ports was cut off.
THEOREM SerialPorts == ASSUME NEW h, Actor = {h} PROVE Spec => []StrayPortsAreKnown
<1>1. SInv(h) => StrayPortsAreKnown
  BY DEF SInv, Came, StrayPortsAreKnown, Quiet
<1> QED BY <1>1, Serial, PTL

-----------------------------------------------------------------------------
(* Any number of handlers at once: every edge that is left assigned has taken  *)
(* the site.  The property speaks of the moment when all handlers have ended;  *)
(* before that an assigned edge that serves nothing is owed something: a       *)
(* handler will write an assignment without it, or serve it first (Ends), or    *)
(* the site is on its way out (Dropping).                                       *)

Full(j) == j.pc = "post" /\ j.push = "full"

\* The handler's last write of the assignment will name e only if e has taken its push.
Ends(j, e) ==
    \/ j.pc = "reload"
    \/ j.pc \in {"load", "edges"} /\ j.push \in {"rename", "full"}
    \/ j.pc = "post" /\ j.push = "rename"
    \/ Full(j) /\ e \notin j.ok

\* The handler has told some edge that the site is gone: the row goes next.
Dropping(j) == j.pc = "post" /\ j.push = "drop" /\ j.ok \cup j.bad # {}

\* What a handler knows of its push.
InPush(j) ==
    /\ j.pc \in {"row", "assign", "reload", "load", "edges"} => j.ok = {} /\ j.bad = {}
    /\ j.ok \cap j.todo = {}
    /\ j.what = "delete" => j.push = "drop" /\ j.pc \in {"load", "edges", "post"}
    /\ j.pc \in {"edges", "post"} /\ j.push = "full" => j.view # Null

\* Nothing has happened before the site is created, and a site is created once.
Unborn == lastConf = 0 => site = Null /\ servers = {} /\ \A a \in Actor : op[a].pc = "idle"

Reached(e) == held[e] # Null \/ \E a \in Actor : Dropping(op[a])
Owed(e) == \E a \in Actor : Ends(op[a], e)
Owing ==
    /\ \A e \in servers : Reached(e) \/ Owed(e)
    /\ \A a \in Actor : Full(op[a]) => \A e \in op[a].ok : Reached(e)

OInv ==
    /\ TInv /\ Unborn /\ \A a \in Actor : InPush(op[a])
    /\ (site # Null /\ ~torn) => Owing

\* One handler's step, and what it leaves of what is owed.
LEMMA OwingStep ==
    ASSUME Owing, NEW a \in Actor, \A b \in Actor \ {a} : op'[b] = op[b],
           \A e \in Edge : held[e] # Null => held'[e] # Null \/ Dropping(op'[a]),
           Dropping(op[a]) => Dropping(op'[a]), servers \subseteq Edge, servers' \subseteq Edge,
           \A b \in Actor : op[b].ok \subseteq Edge,
           \A e \in servers' :
              \/ e \in servers /\ (Ends(op[a], e) => Ends(op'[a], e))
              \/ Ends(op'[a], e)
              \/ held'[e] # Null \/ Dropping(op'[a])
              \/ Full(op[a]) /\ e \in op[a].ok,
           Full(op'[a]) => \A e \in op'[a].ok : \/ Full(op[a]) /\ e \in op[a].ok
                                                \/ held'[e] # Null
    PROVE  Owing'
<1>1. ASSUME NEW e \in Edge, Reached(e)
      PROVE  held'[e] # Null \/ \E b \in Actor : Dropping(op'[b])
  <2>1. CASE held[e] # Null
    BY <2>1
  <2>2. CASE \E b \in Actor : Dropping(op[b])
    BY <2>2
  <2> QED BY <1>1, <2>1, <2>2 DEF Reached
<1>2. ASSUME NEW e \in servers'
      PROVE  (held'[e] # Null \/ \E b \in Actor : Dropping(op'[b])) \/ \E b \in Actor : Ends(op'[b], e)
  <2>1. CASE e \in servers /\ (Ends(op[a], e) => Ends(op'[a], e))
    <3>1. CASE Reached(e)
      BY <1>1, <3>1
    <3>2. CASE Owed(e)
      <4>1. PICK b \in Actor : Ends(op[b], e)
        BY <3>2 DEF Owed
      <4> QED BY <2>1, <4>1
    <3> QED BY <2>1, <3>1, <3>2 DEF Owing
  <2>2. CASE Full(op[a]) /\ e \in op[a].ok
    BY <1>1, <2>2 DEF Owing
  <2> QED BY <2>1, <2>2
<1>3. ASSUME NEW b \in Actor, Full(op'[b]), NEW e \in op'[b].ok
      PROVE  held'[e] # Null \/ \E c \in Actor : Dropping(op'[c])
  <2>1. CASE Full(op[b]) /\ e \in op[b].ok
    BY <1>1, <2>1 DEF Owing
  <2>2. CASE b = a /\ held'[e] # Null
    BY <2>2
  <2> QED BY <1>3, <2>1, <2>2
<1>4. (\A e \in servers : Reached(e) \/ Owed(e))'
  BY <1>2 DEF Reached, Owed
<1>5. (\A b \in Actor : Full(op[b]) => \A e \in op[b].ok : Reached(e))'
  BY <1>3 DEF Reached, Full
<1> QED BY <1>4, <1>5 DEF Owing

\* A handler with nothing to do owes nothing.
LEMMA NoJobInPush == InPush(NoJob) /\ ~Full(NoJob) /\ ~Dropping(NoJob)
BY DEF NoJob, InPush, Full, Dropping

\* What an edge serves is lost only to a delete.
LEMMA EffectKeeps ==
    ASSUME op \in [Actor -> Jobs], NEW a \in Actor, NEW h \in Conf, Named(op[a]), InPush(op[a]),
           op[a].pc = "post", op[a].push # "drop"
    PROVE  Effect(a, h) # Null
<1>1. op[a].push \in {"rename", "full"} /\ Null \notin Conf
  BY NullAssumption DEF Jobs, Named
<1>2. CASE op[a].push = "full"
  BY <1>2 DEF Effect, InPush
<1>3. CASE op[a].push = "rename"
  <2>1. Effect(a, h) = [h EXCEPT !.domain = op[a].name] /\ op[a].name \in Domain
    BY <1>1, <1>3 DEF Effect, Named
  <2>2. Effect(a, h) \in Conf
    BY <2>1 DEF Conf
  <2> QED BY <1>1, <2>2
<1> QED BY <1>1, <1>2, <1>3

\* Every handler keeps to what it may know of its push.
LEMMA PushStep ==
    ASSUME TInv, NEW a \in Actor, InPush(op[a]), Step(a)
    PROVE  InPush(op'[a]) /\ \A b \in Actor \ {a} : op'[b] = op[b]
<1> DEFINE o == op[a]
           p == op'[a]
<1>0. op \in [Actor -> Jobs] /\ o \in Jobs /\ Named(o) /\ InPush(o)
  BY DEF TInv, TypeOK
<1>j. ASSUME NEW j, Job(a, j) PROVE p = j /\ \A b \in Actor \ {a} : op'[b] = op[b]
  BY <1>0, <1>j DEF Job
<1>o. \A b \in Actor \ {a} : op'[b] = op[b]
  <2>1. \E j : Job(a, j)
    BY DEF Step, CreateSite, BeginSave, SaveRow, Assign, Reload, Issued, BeginDelete, LoadSite, LoadEdges, Post,
           EndRename, Apply, ClearPorts, DeleteRow, Abort, Gone, UndoCreate, BeginBind, Bind, Goto, Push, Accepted,
           Failed
  <2> QED BY <1>j, <2>1
<1> SUFFICES InPush(p)
  BY <1>o
<1>n. ASSUME Job(a, NoJob) PROVE InPush(p)
  BY <1>j, <1>n, NoJobInPush
<1>1. CASE CreateSite(a)
  <2>1. PICK d \in Domain, S \in SUBSET Edge :
          p = [NoJob EXCEPT !.pc = "assign", !.what = "create", !.name = d, !.pick = S]
    BY <1>0, <1>1 DEF CreateSite, Job
  <2> QED BY <2>1 DEF NoJob, InPush
<1>2. CASE BeginSave(a)
  <2>1. PICK d \in Domain, S \in SUBSET Edge :
          p = [NoJob EXCEPT !.pc = "row", !.what = "save", !.view = site, !.name = d, !.pick = S]
    BY <1>0, <1>2 DEF BeginSave, Job
  <2> QED BY <2>1 DEF NoJob, InPush
<1>3. CASE SaveRow(a)
  <2>1. o.pc = "row" /\ p = [o EXCEPT !.pc = "assign"]
    BY <1>0, <1>3 DEF SaveRow, Job, Goto
  <2> QED BY <1>0, <2>1 DEF InPush, Jobs
<1>4. CASE Assign(a)
  <2>1. o.pc = "assign" /\ p = [o EXCEPT !.pc = "reload"]
    BY <1>0, <1>4 DEF Assign, Job, Goto
  <2> QED BY <1>0, <2>1 DEF InPush, Jobs
<1>5. CASE Reload(a)
  <2>1. o.pc = "reload"
    BY <1>5 DEF Reload
  <2>2. CASE p = [o EXCEPT !.pc = "load", !.push = "rename", !.name = site.domain]
    BY <1>0, <2>1, <2>2 DEF InPush, Jobs
  <2>3. CASE p = [o EXCEPT !.pc = "load", !.push = "full", !.todo = {}, !.ok = {}, !.bad = {}]
    BY <1>0, <2>1, <2>3 DEF InPush, Jobs
  <2> QED BY <1>0, <1>5, <2>2, <2>3 DEF Reload, Job, Push
<1>6. CASE Issued(a)
  <2>1. p = [NoJob EXCEPT !.pc = "load", !.what = "issue", !.push = "full"]
    BY <1>0, <1>6 DEF Issued, Job
  <2> QED BY <2>1 DEF NoJob, InPush
<1>7. CASE BeginDelete(a)
  <2>1. p = [NoJob EXCEPT !.pc = "load", !.what = "delete", !.push = "drop"]
    BY <1>0, <1>7 DEF BeginDelete, Job
  <2> QED BY <2>1 DEF NoJob, InPush
<1>8. CASE LoadSite(a)
  <2>1. /\ o.pc = "load" /\ site # Null
        /\ p = [o EXCEPT !.pc = IF servers = {} THEN "post" ELSE "edges",
                            !.view = IF o.push = "full" THEN site ELSE @]
    BY <1>0, <1>8 DEF LoadSite, Job
  <2> QED BY <1>0, <2>1 DEF InPush, Jobs
<1>9. CASE LoadEdges(a)
  <2>1. o.pc = "edges" /\ p = [o EXCEPT !.pc = "post", !.todo = servers]
    BY <1>0, <1>9 DEF LoadEdges, Job
  <2> QED BY <1>0, <2>1 DEF InPush, Jobs
<1>10. CASE Post(a)
  <2>1. PICK e \in o.todo : Accepted(a, e) \/ Failed(a, e)
    BY <1>10 DEF Post
  <2>2. CASE p = [o EXCEPT !.todo = @ \ {e}, !.ok = @ \cup {e}]
    BY <1>0, <1>10, <2>2 DEF InPush, Jobs, Post
  <2>3. CASE p = [o EXCEPT !.todo = @ \ {e}, !.bad = @ \cup {e}]
    BY <1>0, <1>10, <2>3 DEF InPush, Jobs, Post
  <2> QED BY <1>0, <2>1, <2>2, <2>3 DEF Accepted, Failed, Job
<1>11. CASE EndRename(a)
  <2>1. /\ o.pc = "post" /\ o.push = "rename"
        /\ p = [o EXCEPT !.pc = "load", !.push = "full", !.todo = {}, !.ok = {}, !.bad = {}]
    BY <1>0, <1>11 DEF EndRename, Posted, Job, Push
  <2> QED BY <1>0, <2>1 DEF InPush, Jobs
<1>12. CASE Apply(a)
  <2>1. o.pc = "post" /\ o.push = "full"
    BY <1>12 DEF Apply, Posted
  <2>2. CASE Job(a, NoJob)
    BY <1>n, <2>2
  <2>3. CASE p = [o EXCEPT !.pc = "clear"]
    BY <1>0, <2>1, <2>3 DEF InPush, Jobs
  <2> QED BY <1>0, <1>12, <2>2, <2>3 DEF Apply, Job, Goto
<1>13. CASE ClearPorts(a) \/ DeleteRow(a) \/ Abort(a) \/ Gone(a) \/ UndoCreate(a) \/ Bind(a)
  BY <1>13, <1>n DEF ClearPorts, DeleteRow, Abort, Gone, UndoCreate, Bind
<1>14. CASE BeginBind(a)
  <2>1. PICK e \in servers : p = [NoJob EXCEPT !.pc = "bind", !.what = "ports", !.pick = {e}]
    BY <1>0, <1>14 DEF BeginBind, Job
  <2> QED BY <2>1 DEF NoJob, InPush
<1> QED BY <1>1, <1>2, <1>3, <1>4, <1>5, <1>6, <1>7, <1>8, <1>9, <1>10, <1>11, <1>12, <1>13, <1>14 DEF Step

\* After its first row, a site is never new again.
LEMMA BornStep == ASSUME TInv, Unborn, NEW a \in Actor, Step(a) PROVE lastConf' # 0
<1>0. lastConf \in 0 .. MaxConf /\ MaxConf \in Nat
  BY SizeAssumption DEF TInv, TypeOK
<1>1. lastConf' = lastConf \/ lastConf' = lastConf + 1
  BY DEF Step, CreateSite, BeginSave, SaveRow, Assign, Reload, Issued, BeginDelete, LoadSite, LoadEdges, Post,
         EndRename, Apply, ClearPorts, DeleteRow, Abort, Gone, UndoCreate, BeginBind, Bind, WriteRow
<1>2. CASE CreateSite(a)
  BY <1>0, <1>2 DEF CreateSite, WriteRow
<1>3. CASE ~CreateSite(a)
  <2>1. op[a].pc # "idle" \/ site # Null
    BY <1>3 DEF Step, BeginSave, SaveRow, Assign, Reload, Issued, BeginDelete, LoadSite, LoadEdges, Post,
                EndRename, Apply, ClearPorts, DeleteRow, Abort, Gone, UndoCreate, BeginBind, Bind, Posted
  <2>2. lastConf # 0
    BY <2>1 DEF Unborn
  <2> QED BY <1>0, <1>1, <2>2
<1> QED BY <1>2, <1>3

\* What every assigned edge is owed, every step leaves in place.
LEMMA CoverStep ==
    ASSUME OInv, NEW a \in Actor, Step(a), site' # Null, ~torn'
    PROVE  Owing'
<1> DEFINE o == op[a]
           p == op'[a]
<1>0. /\ op \in [Actor -> Jobs] /\ o \in Jobs /\ Named(o) /\ InPush(o) /\ TInv
      /\ held \in [Edge -> Conf \cup {Null}] /\ servers \subseteq Edge /\ Null \notin Conf
      /\ \A b \in Actor : op[b].ok \subseteq Edge
  BY NullAssumption DEF OInv, TInv, TypeOK, Jobs
<1>1. \A b \in Actor \ {a} : op'[b] = op[b]
  BY <1>0, PushStep
<1>t. servers' \subseteq Edge
  <2>1. TInv'
    BY <1>0, TypeStep
  <2> QED BY <2>1 DEF TInv, TypeOK
<1>2. CASE CreateSite(a)
  <2>1. PICK d \in Domain, S \in SUBSET Edge :
          p = [NoJob EXCEPT !.pc = "assign", !.what = "create", !.name = d, !.pick = S]
    BY <1>0, <1>2 DEF CreateSite, Job
  <2>2. servers' = {} /\ \A b \in Actor : op[b].pc = "idle"
    BY <1>2 DEF CreateSite, OInv, Unborn
  <2>3. \A b \in Actor : ~Full(op'[b])
    BY <1>1, <2>1, <2>2 DEF Full, NoJob
  <2>4. (\A e \in servers : Reached(e) \/ Owed(e))'
    BY <2>2
  <2>5. (\A b \in Actor : Full(op[b]) => \A e \in op[b].ok : Reached(e))'
    BY <2>3 DEF Full
  <2> QED BY <2>4, <2>5 DEF Owing
<1>s. ASSUME ~CreateSite(a) PROVE site # Null
  BY <1>s DEF Step, BeginSave, SaveRow, Assign, Reload, Issued, BeginDelete, LoadSite, LoadEdges, Post,
              EndRename, Apply, ClearPorts, DeleteRow, Abort, Gone, UndoCreate, BeginBind, Bind
<1>3. CASE LoadSite(a) /\ torn
  <2>1. o.push = "full" /\ o.pc = "load" /\ \A b \in Actor \ {a} : op[b].pc = "idle"
    BY <1>3 DEF LoadSite, Alone
  <2>2. p.pc \in {"post", "edges"} /\ p.push = "full" /\ p.ok = {}
    BY <1>0, <1>3, <2>1 DEF LoadSite, Job, Jobs, InPush
  <2>3. \A b \in Actor : Full(op'[b]) => op'[b].ok = {}
    BY <1>1, <2>1, <2>2 DEF Full
  <2>4. \A e : Ends(p, e)
    BY <2>2 DEF Ends, Full
  <2>5. (\A e \in servers : Reached(e) \/ Owed(e))'
    BY <2>4 DEF Owed
  <2>6. (\A b \in Actor : Full(op[b]) => \A e \in op[b].ok : Reached(e))'
    BY <2>3 DEF Full
  <2> QED BY <2>5, <2>6 DEF Owing
<1>o. ASSUME ~CreateSite(a), ~(LoadSite(a) /\ torn) PROVE Owing /\ ~torn
  <2>1. ~torn
    BY <1>o DEF Step, BeginSave, SaveRow, Assign, Reload, Issued, BeginDelete, LoadSite, LoadEdges, Post,
                EndRename, Apply, ClearPorts, DeleteRow, Abort, Gone, UndoCreate, BeginBind, Bind
  <2> QED BY <1>o, <1>s, <2>1 DEF OInv
<1>q. ASSUME Owing, UNCHANGED <<held, servers>>, \A e : Ends(o, e) => Ends(p, e), ~Dropping(o),
             ~Full(p) \/ p.ok = {}
      PROVE  Owing'
  BY <1>0, <1>1, <1>t, <1>q, OwingStep
<1>4. CASE BeginSave(a) \/ SaveRow(a) \/ Issued(a) \/ BeginDelete(a) \/ BeginBind(a) \/ Bind(a) \/ ClearPorts(a)
  <2>1. UNCHANGED <<held, servers>> /\ o.pc \in {"idle", "row", "bind", "clear"}
    BY <1>4 DEF BeginSave, SaveRow, Issued, BeginDelete, BeginBind, Bind, ClearPorts
  <2>2. p.pc \in {"row", "assign", "load", "bind", "idle"}
    <3>1. CASE BeginSave(a)
      BY <1>0, <3>1 DEF BeginSave, Job, NoJob
    <3>2. CASE SaveRow(a)
      BY <1>0, <3>2 DEF SaveRow, Job, Goto, Jobs
    <3>3. CASE Issued(a) \/ BeginDelete(a)
      BY <1>0, <3>3 DEF Issued, BeginDelete, Job, NoJob
    <3>4. CASE BeginBind(a)
      BY <1>0, <3>4 DEF BeginBind, Job, NoJob
    <3>5. CASE Bind(a) \/ ClearPorts(a)
      BY <1>0, <3>5 DEF Bind, ClearPorts, Job, NoJob
    <3> QED BY <1>4, <3>1, <3>2, <3>3, <3>4, <3>5
  <2>3. Owing
    BY <1>4 DEF BeginSave, SaveRow, Issued, BeginDelete, BeginBind, Bind, ClearPorts, OInv
  <2>4. ~Dropping(o) /\ ~Full(p) /\ \A e : ~Ends(o, e)
    BY <2>1, <2>2 DEF Dropping, Full, Ends
  <2> QED BY <1>q, <2>1, <2>3, <2>4
<1>5. CASE Assign(a)
  <2>1. UNCHANGED held /\ o.pc = "assign" /\ p.pc = "reload"
    BY <1>0, <1>5 DEF Assign, Job, Goto, Jobs
  <2>2. Owing
    BY <1>o, <2>1 DEF CreateSite, LoadSite
  <2>3. ~Dropping(o) /\ ~Full(p) /\ \A e : Ends(p, e)
    BY <2>1 DEF Dropping, Full, Ends
  <2> QED BY <1>0, <1>1, <1>t, <2>1, <2>2, <2>3, OwingStep
<1>6. CASE Reload(a)
  <2>1. UNCHANGED <<held, servers>> /\ o.pc = "reload"
    BY <1>6 DEF Reload
  <2>2. p.pc = "load" /\ p.push \in {"rename", "full"}
    <3>1. CASE p = [o EXCEPT !.pc = "load", !.push = "rename", !.name = site.domain]
      BY <1>0, <3>1 DEF Jobs
    <3>2. CASE p = [o EXCEPT !.pc = "load", !.push = "full", !.todo = {}, !.ok = {}, !.bad = {}]
      BY <1>0, <3>2 DEF Jobs
    <3> QED BY <1>0, <1>6, <3>1, <3>2 DEF Reload, Push, Job
  <2>3. Owing
    BY <1>o, <2>1 DEF CreateSite, LoadSite
  <2>4. ~Dropping(o) /\ ~Full(p) /\ \A e : Ends(p, e)
    BY <2>1, <2>2 DEF Dropping, Full, Ends
  <2> QED BY <1>q, <2>1, <2>3, <2>4
<1>7. CASE LoadSite(a) /\ ~torn
  <2>1. UNCHANGED <<held, servers>> /\ o.pc = "load"
    BY <1>7 DEF LoadSite
  <2>2. p.pc \in {"post", "edges"} /\ p.push = o.push /\ p.ok = {}
    BY <1>0, <1>7 DEF LoadSite, Job, Jobs, InPush
  <2>3. Owing
    BY <1>7, <1>o, <2>1 DEF CreateSite
  <2>4. ~Dropping(o) /\ \A e : Ends(o, e) => Ends(p, e)
    BY <2>1, <2>2 DEF Dropping, Full, Ends
  <2> QED BY <1>q, <2>1, <2>2, <2>3, <2>4
<1>8. CASE LoadEdges(a)
  <2>1. UNCHANGED <<held, servers>> /\ o.pc = "edges"
    BY <1>8 DEF LoadEdges
  <2>2. p.pc = "post" /\ p.push = o.push /\ p.ok = {}
    BY <1>0, <1>8 DEF LoadEdges, Job, Jobs, InPush
  <2>3. Owing
    BY <1>o, <2>1 DEF CreateSite, LoadSite
  <2>4. ~Dropping(o) /\ \A e : Ends(o, e) => Ends(p, e)
    BY <2>1, <2>2 DEF Dropping, Full, Ends
  <2> QED BY <1>q, <2>1, <2>2, <2>3, <2>4
<1>9. CASE EndRename(a)
  <2>1. UNCHANGED <<held, servers>> /\ o.pc = "post" /\ o.push = "rename"
    BY <1>9 DEF EndRename, Posted
  <2>2. p.pc = "load" /\ p.push = "full"
    BY <1>0, <1>9 DEF EndRename, Push, Job, Jobs
  <2>3. Owing
    BY <1>o, <2>1 DEF CreateSite, LoadSite
  <2>4. ~Dropping(o) /\ ~Full(p) /\ \A e : Ends(p, e)
    BY <2>1, <2>2 DEF Dropping, Full, Ends
  <2> QED BY <1>q, <2>1, <2>3, <2>4
<1>10. CASE Post(a)
  <2>1. PICK e \in o.todo : Accepted(a, e) \/ Failed(a, e)
    BY <1>10 DEF Post
  <2>2. UNCHANGED servers /\ o.pc = "post" /\ e \in Edge
    BY <1>0, <1>10, <2>1 DEF Post, Jobs
  <2>3. Owing
    BY <1>o, <2>2 DEF CreateSite, LoadSite
  <2>a. ASSUME Accepted(a, e)
        PROVE  p.pc = "post" /\ p.push = o.push /\ p.ok = o.ok \cup {e} /\ p.bad = o.bad
    <3>1. p = [o EXCEPT !.todo = @ \ {e}, !.ok = @ \cup {e}]
      BY <1>0, <2>a DEF Accepted, Job
    <3> QED BY <1>0, <2>2, <3>1 DEF Jobs
  <2>f. ASSUME Failed(a, e)
        PROVE  p.pc = "post" /\ p.push = o.push /\ p.ok = o.ok /\ p.bad = o.bad \cup {e}
    <3>1. p = [o EXCEPT !.todo = @ \ {e}, !.bad = @ \cup {e}]
      BY <1>0, <2>f DEF Failed, Job
    <3> QED BY <1>0, <2>2, <3>1 DEF Jobs
  <2>4. p.pc = "post" /\ p.push = o.push
    BY <2>1, <2>a, <2>f
  <2>5. \/ Accepted(a, e) /\ p.ok = o.ok \cup {e} /\ p.bad = o.bad
        \/ Failed(a, e) /\ p.ok = o.ok /\ p.bad = o.bad \cup {e}
    BY <2>1, <2>a, <2>f
  <2>6. /\ \A f \in Edge \ {e} : held'[f] = held[f]
        /\ held'[e] \in {held[e], Effect(a, held[e])}
        /\ Accepted(a, e) => held'[e] = Effect(a, held[e])
    BY <1>0, <2>1, <2>2 DEF Accepted, Failed
  <2>7. CASE o.push = "drop"
    <3>1. Dropping(p) /\ ~Full(p)
      BY <2>4, <2>5, <2>7 DEF Dropping, Full
    <3> QED BY <1>0, <1>1, <1>t, <2>3, <3>1, OwingStep
  <2>8. CASE o.push # "drop"
    <3>1. ~Dropping(o)
      BY <2>8 DEF Dropping
    <3>2. held[e] # Null => Effect(a, held[e]) # Null
      BY <1>0, <2>2, <2>8, EffectKeeps
    <3>3. \A f \in Edge : held[f] # Null => held'[f] # Null
      BY <2>6, <3>2
    <3>4. Full(p) => o.push = "full" /\ Full(o)
      BY <2>2, <2>4 DEF Full
    <3>5. o.push = "full" /\ Accepted(a, e) => held'[e] # Null
      BY <2>2, <2>6, <1>0 DEF Effect, InPush
    <3>6. \A f \in servers : Ends(o, f) => (Ends(p, f) \/ held'[f] # Null)
      <4>1. CASE o.push = "full"
        BY <2>2, <2>4, <2>5, <3>5, <4>1 DEF Ends, Full
      <4>2. CASE o.push # "full"
        BY <2>2, <2>4, <4>2 DEF Ends, Full
      <4> QED BY <4>1, <4>2
    <3>7. Full(p) => \A f \in p.ok : (Full(o) /\ f \in o.ok) \/ held'[f] # Null
      BY <2>5, <3>4, <3>5
    <3> QED BY <1>0, <1>1, <1>t, <2>2, <2>3, <3>1, <3>3, <3>6, <3>7, OwingStep
  <2> QED BY <2>7, <2>8
<1>11. CASE Apply(a)
  <2>1. UNCHANGED held /\ Full(o) /\ servers' = o.ok
    BY <1>11 DEF Apply, Posted, Full, Assigned
  <2>2. p.pc \in {"idle", "clear"}
    BY <1>0, <1>11 DEF Apply, Job, Goto, NoJob, Jobs
  <2>3. Owing
    BY <1>o, <1>11 DEF Apply, Posted, CreateSite, LoadSite
  <2>4. ~Dropping(o) /\ ~Full(p)
    BY <2>1, <2>2 DEF Dropping, Full
  <2> QED BY <1>0, <1>1, <1>t, <2>1, <2>3, <2>4, OwingStep
<1>12. CASE Abort(a)
  <2>1. UNCHANGED <<held, servers>> /\ ~Writing(a) /\ o.pc # "idle" /\ p = NoJob
    BY <1>0, <1>12 DEF Abort, Job
  <2>2. Owing
    BY <1>12 DEF Abort, OInv
  <2>3. ~Dropping(o) /\ \A e : ~Ends(o, e)
    BY <1>0, <2>1 DEF Writing, Dropping, Ends, Full, InPush
  <2> QED BY <1>q, <2>1, <2>2, <2>3, NoJobInPush
<1>13. CASE DeleteRow(a) \/ Gone(a) \/ UndoCreate(a)
  BY <1>13 DEF DeleteRow, Gone, UndoCreate
<1> QED BY <1>2, <1>3, <1>4, <1>5, <1>6, <1>7, <1>8, <1>9, <1>10, <1>11, <1>12, <1>13 DEF Step

LEMMA OwingInvariant == Spec => []OInv
<1>1. Init => OInv
  <2> SUFFICES ASSUME Init PROVE OInv
    OBVIOUS
  <2>1. site = Null /\ servers = {} /\ \A a \in Actor : op[a] = NoJob
    BY DEF Init
  <2>2. Unborn
    BY <2>1 DEF Unborn, NoJob
  <2> QED BY <2>1, <2>2, TypeInit, NoJobInPush DEF OInv
<1>2. OInv /\ [Next]_vars => OInv'
  <2>1. ASSUME OInv, NEW a \in Actor, Step(a) PROVE OInv'
    <3>1. TInv'
      BY <2>1, TypeStep DEF OInv
    <3>2. lastConf' # 0
      BY <2>1, BornStep DEF OInv
    <3>3. Unborn'
      BY <3>2 DEF Unborn
    <3>4. InPush(op'[a]) /\ \A b \in Actor \ {a} : op'[b] = op[b]
      BY <2>1, PushStep DEF OInv
    <3>5. \A b \in Actor : InPush(op'[b])
      BY <2>1, <3>4 DEF OInv
    <3>6. (\A b \in Actor : InPush(op[b]))'
      BY <3>5 DEF InPush
    <3>7. site' # Null /\ ~torn' => Owing'
      BY <2>1, CoverStep
    <3> QED BY <3>1, <3>3, <3>6, <3>7 DEF OInv
  <2>2. CASE UNCHANGED vars
    BY <2>2 DEF vars, OInv, TInv, TypeOK, Named, Unborn, InPush, Owing, Reached, Owed, Ends, Full, Dropping
  <2> QED BY <2>1, <2>2 DEF Next
<1> QED BY <1>1, <1>2, PTL DEF Spec

\* However many handlers overlap, no edge is left assigned that serves nothing of the site,
\* unless one of them was cut off.
THEOREM AssignedServeSome == Spec => []AssignedServeSomeVersion
<1>1. OInv => AssignedServeSomeVersion
  BY DEF OInv, Owing, Reached, Owed, Ends, Full, Dropping, AssignedServeSomeVersion, Quiet
<1> QED BY <1>1, OwingInvariant, PTL

-----------------------------------------------------------------------------
(* WafRuleSets: the database keeps its shape, an edit that was answered well    *)
(* is enforced, and a fork changes no rule of its site.                         *)
(*                                                                              *)
(* What an answer claims counts only when its request ran alone, so the         *)
(* argument has three parts.  At most one request is alone (OneAlone), and it   *)
(* knows what it has done (Knows): the sites it is through with are in step.    *)
(* Every other request withholds (Withholds): what it may still change at an    *)
(* edge, or take from a site, no answer claims any more.                        *)

-----------------------------------------------------------------------------
(* The shape of the database, of the edges and of a request. *)

RuleSetRecord == [role : {"predefined", "custom"}, rules : [Kind -> SUBSET Rule]]
Value == (SUBSET Rule) \cup Version \cup {NoRoutes}
EditRecord == [how : {"create", "update", "delete"}, old : SUBSET Rule, new : SUBSET Rule]

WorkRecord == [pc : {"idle", "delete", "copy", "ensure", "attach", "write", "sites", "load", "edges", "answer"},
        what : {"none", "delete", "fork", "template", "site", "read", "routes", "save"},
        set : RuleSet \cup {NoSet}, kind : Kind, edit : EditRecord, sites : SUBSET Site,
        at : Site \cup {NoSet}, body : Value, todo : SUBSET Server,
        ok : SUBSET (Site \cup Server), missed : BOOLEAN, alone : BOOLEAN]

\* Where a request of which sort may be, and what it then has.
Placed(j) ==
    /\ j.pc = "idle" => ~j.alone
    /\ j.pc = "delete" => j.set \in RuleSet
    /\ j.pc = "copy" => j.what = "fork" /\ j.at \in Site
    /\ j.pc = "ensure" => j.what \in {"site", "read"} /\ j.at \in Site
    /\ j.pc = "attach" => j.what \in {"fork", "site", "read"} /\ j.at \in Site /\ j.set \in RuleSet
    /\ j.pc = "write" => j.what \in {"template", "site"} /\ (j.what = "site" => j.at \in Site)
    /\ j.pc = "sites" => j.what = "template"
    /\ j.pc = "load" => j.what \in {"template", "site", "routes"}
    /\ j.pc = "edges" => j.what \in {"template", "site", "routes", "save"} /\ j.at \in Site
    /\ j.pc \in {"load", "edges"} /\ j.what = "site" => j.kind # AntiCc
    /\ j.pc = "edges" /\ j.what = "save" => j.sites = {}
    /\ j.pc = "edges" /\ j.what \in {"template", "site"} => j.body \in SUBSET Rule
    /\ j.pc = "answer" => j.what \in {"template", "site", "routes", "save"}
    /\ j.pc = "answer" /\ j.what = "save" => j.at \in Site
    /\ j.pc \in {"copy", "ensure", "attach", "write", "sites"} => j.ok = {}
    /\ IF j.what = "save" THEN j.ok \subseteq Server ELSE j.ok \subseteq Site

Database ==
    /\ DOMAIN ruleSets \subseteq RuleSet
    /\ ruleSets \in [DOMAIN ruleSets -> RuleSetRecord]
    /\ uses \in [Site -> DOMAIN ruleSets \cup {NoSet}]
    /\ assigned \in [Site -> SUBSET Server]
    /\ routes \in [Site -> Version \cup {NoRoutes}]

Requests == work \in [Worker -> WorkRecord] /\ \A a \in Worker : Placed(work[a])

TypeInv ==
    /\ Database /\ Requests
    /\ conf \in [Server \X Site -> [Part -> Value]]
    /\ claimed \subseteq Site \X Part

-----------------------------------------------------------------------------
(* The invariant. *)

OneAlone == \A a, b \in Worker : a # b /\ work[a].alone => Free(b)

\* No answer says that rules of the site are served.
Bare(s) == \A k \in Kind : <<s, k>> \notin claimed

PostsRules(j) == j.what \in {"template", "site"}

Withholds(j) ==
    /\ j.pc = "delete" => \A s \in Site : uses[s] = j.set => Bare(s)
    /\ j.pc = "write" /\ j.what = "site" => uses[j.at] = j.set \/ Bare(j.at)
    /\ j.pc = "sites" => \A s \in SitesOf(j.set) : <<s, j.kind>> \notin claimed
    /\ j.pc \in {"load", "edges"} /\ PostsRules(j) => \A s \in j.sites : <<s, j.kind>> \notin claimed
    /\ j.pc = "edges" /\ PostsRules(j) => <<j.at, j.kind>> \notin claimed
    /\ j.pc \in {"edges", "answer"} /\ j.what = "save" => Bare(j.at)

Follows(e, s, k) == Enforced(k, conf[<<e, s>>][k]) = Enforced(k, Stored(s, k))

Knows(j) ==
    /\ j.pc = "ensure" => uses[j.at] = NoSet
    /\ j.pc = "copy" => uses[j.at] = j.set
    /\ j.pc = "attach" => /\ j.set \in DOMAIN ruleSets
                          /\ \A k \in Kind : ruleSets[j.set].rules[k] = Stored(j.at, k)
    /\ j.pc \in {"load", "edges", "answer"} /\ PostsRules(j) /\ j.kind # AntiCc /\ ~j.missed
       => \A s \in j.ok : InStep(s, j.kind)
    /\ j.pc = "edges" /\ PostsRules(j) /\ j.kind # AntiCc /\ ~j.missed
       => /\ j.body = Stored(j.at, j.kind)
          /\ \A e \in assigned[j.at] \ j.todo : Follows(e, j.at, j.kind)
    /\ j.pc \in {"edges", "answer"} /\ j.what = "save"
       => \A e \in j.ok, k \in Kind : Follows(e, j.at, k)

RuleInv ==
    /\ OneAlone
    /\ AnsweredMeansServed
    /\ \A a \in Worker : Withholds(work[a])
    /\ \A a \in Worker : work[a].alone => Knows(work[a])

-----------------------------------------------------------------------------
(* Operators of the model. *)

\* The nine stores edit their rows alike.
LEMMA RowsAreEdited ==
    ASSUME NEW k \in Kind, NEW R, NEW ed PROVE Rows(k, R, ed) = Edited(R, ed)
BY KindAssumption DEF Tables, AntiCc, Rows, WhitelistRows, BlacklistRows, GeoRows, AntiCcRows,
   AntiHeaderRows, IntervalRows, SecondRows, ResponseRows, UserAgentRows

\* An edit of rules gives rules.
LEMMA EditType ==
    ASSUME NEW k \in Kind, NEW R \in SUBSET Rule, NEW ed \in EditRecord
    PROVE  Rows(k, R, ed) \in SUBSET Rule
BY RowsAreEdited DEF Edited, EditRecord

\* The edits a request may ask for.
LEMMA EditsAre ==
    ASSUME NEW R \in SUBSET Rule, NEW ed \in RuleEdits(R) PROVE ed \in EditRecord
BY DEF RuleEdits, EditRecord

\* A post of one table leaves the edge with the rules it would enforce anyway: what is left
\* out is what an edge passes over.
LEMMA PushedRules ==
    ASSUME NEW k \in Kind, k # AntiCc, NEW R \in SUBSET Rule
    PROVE  Pushed(k, R) \in SUBSET Rule /\ Enforced(k, Pushed(k, R)) = Enforced(k, R)
<1>1. Pushed(k, R) = R \/ Pushed(k, R) = R \cap Enabled
  BY KindAssumption DEF Tables, AntiCc, Pushed, PushWhitelist, PushBlacklist, PushGeo,
     PushAntiHeader, PushInterval, PushSecond, PushResponse, PushUserAgent
<1>2. k # Routes
  BY KindAssumption DEF Tables, Routes
<1> QED BY <1>1, <1>2 DEF Enforced

\* No table of rules is the part of the origin routes.
LEMMA KindsAreParts == Routes \notin Kind /\ Kind \subseteq Part /\ Routes \in Part /\ AntiCc \in Kind
BY KindAssumption DEF Tables, Routes, Part

\* What a site has in the database.
LEMMA StoredType ==
    ASSUME Database, NEW s \in Site
    PROVE  /\ \A k \in Kind : Stored(s, k) \in SUBSET Rule
           /\ \A p \in Part : Stored(s, p) \in Value
<1>1. uses[s] # NoSet => ruleSets[uses[s]] \in RuleSetRecord
  BY DEF Database
<1>2. \A k \in Kind : Stored(s, k) \in SUBSET Rule
  BY <1>1, KindsAreParts DEF Stored, RuleSetRecord
<1>3. Stored(s, Routes) \in Version \cup {NoRoutes}
  BY DEF Stored, Database
<1> QED BY <1>2, <1>3 DEF Part, Value

\* The whole site, as a save and as an edit of a template post it.
LEMMA WholeSiteType ==
    ASSUME Database, NEW s \in Site
    PROVE  /\ WholeSite(s) \in [Part -> Value] /\ WholeSiteOfTemplate(s) \in [Part -> Value]
           /\ \A k \in Kind : WholeSite(s)[k] = Stored(s, k) /\ WholeSiteOfTemplate(s)[k] = Stored(s, k)
<1>1. WholeSite(s) \in [Part -> Value] /\ NoRoutes \in Value
  BY StoredType DEF WholeSite, Value
<1> QED BY <1>1, KindsAreParts DEF WholeSite, WholeSiteOfTemplate

\* An empty rule set, and one like another.
LEMMA SetsAre ==
    /\ NoRules \in [Kind -> SUBSET Rule]
    /\ \A role \in {"predefined", "custom"}, rules \in [Kind -> SUBSET Rule] :
          /\ NewSet(role, rules) \in RuleSetRecord
          /\ NewSet(role, rules).rules = rules
BY DEF NoRules, NewSet, RuleSetRecord

\* A request that has nothing to do.
LEMMA Idle == NoWork \in WorkRecord /\ Placed(NoWork) /\ NoWork.pc = "idle" /\ ~NoWork.alone
BY KindsAreParts DEF NoWork, WorkRecord, Placed, NoEdit, EditRecord, Value

-----------------------------------------------------------------------------
(* Types. *)

\* A request moves on.
LEMMA WorkType ==
    ASSUME Requests, NEW a \in Worker, NEW j \in WorkRecord, Placed(j), Work(a, j)
    PROVE  Requests' /\ work'[a] = j /\ \A b \in Worker \ {a} : work'[b] = work[b]
<1>1. work' = [work EXCEPT ![a] = j]
  BY DEF Work
<1>2. work' \in [Worker -> WorkRecord] /\ work'[a] = j /\ \A b \in Worker \ {a} : work'[b] = work[b]
  BY <1>1 DEF Requests
<1> QED BY <1>2 DEF Requests

\* A request runs alone or does not; the rest of it stays.
LEMMA AloneType ==
    ASSUME NEW j \in WorkRecord, Placed(j), NEW x \in BOOLEAN, j.pc = "idle" => ~x
    PROVE  /\ [j EXCEPT !.alone = x] \in WorkRecord
           /\ Placed([j EXCEPT !.alone = x])
           /\ [j EXCEPT !.alone = x].alone = x
<1> DEFINE i == [j EXCEPT !.alone = x]
<1>1. /\ i \in WorkRecord /\ i.alone = x /\ i.pc = j.pc /\ i.what = j.what /\ i.set = j.set
      /\ i.kind = j.kind /\ i.sites = j.sites /\ i.at = j.at /\ i.ok = j.ok /\ i.body = j.body
  BY DEF WorkRecord
<1> HIDE DEF i
<1>2. Placed(i)
  BY <1>1 DEF Placed
<1> QED BY <1>1, <1>2 DEF i

\* A request arrives.
LEMMA ArriveType ==
    ASSUME Requests, NEW a \in Worker, NEW j \in WorkRecord, Placed(j), j.pc # "idle", Arrive(a, j)
    PROVE  /\ Requests' /\ Free(a)
           /\ work'[a] = [j EXCEPT !.alone = \A h \in Worker \ {a} : Free(h)]
           /\ \A b \in Worker \ {a} : work'[b] = [work[b] EXCEPT !.alone = FALSE]
<1>1. work' = [b \in Worker |->
                  IF b = a THEN [j EXCEPT !.alone = \A h \in Worker \ {a} : Free(h)]
                  ELSE [work[b] EXCEPT !.alone = FALSE]] /\ Free(a)
  BY DEF Arrive
<1>2. PICK x \in BOOLEAN : x = (\A h \in Worker \ {a} : Free(h))
  OBVIOUS
<1>3. /\ work'[a] = [j EXCEPT !.alone = x]
      /\ \A b \in Worker \ {a} : work'[b] = [work[b] EXCEPT !.alone = FALSE]
      /\ DOMAIN work' = Worker /\ work' = [b \in Worker |-> work'[b]]
  BY <1>1, <1>2
<1>4. work'[a] \in WorkRecord /\ Placed(work'[a])
  BY <1>3, AloneType
<1>5. ASSUME NEW b \in Worker \ {a}
      PROVE  work'[b] \in WorkRecord /\ Placed(work'[b])
  <2>1. work[b] \in WorkRecord /\ Placed(work[b])
    BY DEF Requests
  <2>2. [work[b] EXCEPT !.alone = FALSE] \in WorkRecord /\ Placed([work[b] EXCEPT !.alone = FALSE])
    BY <2>1, AloneType
  <2> QED BY <1>3, <2>2
<1>6. Requests'
  BY <1>3, <1>4, <1>5 DEF Requests
<1> QED BY <1>1, <1>6

\* A rule set is added.
LEMMA AddSetType ==
    ASSUME Database, NEW c \in RuleSet, NEW set \in RuleSetRecord, AddSet(c, set), c \notin DOMAIN ruleSets,
           UNCHANGED <<uses, assigned, routes>>
    PROVE  /\ Database' /\ DOMAIN ruleSets' = DOMAIN ruleSets \cup {c} /\ ruleSets'[c] = set
           /\ \A d \in DOMAIN ruleSets : ruleSets'[d] = ruleSets[d]
<1>1. ruleSets' = [d \in DOMAIN ruleSets \cup {c} |-> IF d = c THEN set ELSE ruleSets[d]]
  BY DEF AddSet
<1>2. /\ DOMAIN ruleSets' = DOMAIN ruleSets \cup {c} /\ ruleSets'[c] = set
      /\ \A d \in DOMAIN ruleSets : ruleSets'[d] = ruleSets[d]
      /\ ruleSets' = [d \in DOMAIN ruleSets' |-> ruleSets'[d]]
  BY <1>1
<1>3. ruleSets' \in [DOMAIN ruleSets' -> RuleSetRecord] /\ DOMAIN ruleSets' \subseteq RuleSet
  BY <1>2 DEF Database
<1>4. uses' \in [Site -> DOMAIN ruleSets' \cup {NoSet}]
  BY <1>2 DEF Database
<1> QED BY <1>2, <1>3, <1>4 DEF Database

\* The types hold at first.
LEMMA WafTypeInit == WafInit => TypeInv
<1> SUFFICES ASSUME WafInit PROVE TypeInv
  OBVIOUS
<1>1. PICK role \in {"predefined", "custom"}, r \in Rule :
         LET c == CHOOSE d \in RuleSet : TRUE
         IN /\ ruleSets = [d \in {c} |-> NewSet(role, [NoRules EXCEPT ![AntiCc] = {r}])]
            /\ uses \in [Site -> {c, NoSet}]
  BY DEF WafInit
<1>2. PICK c \in RuleSet : /\ ruleSets = [d \in {c} |-> NewSet(role, [NoRules EXCEPT ![AntiCc] = {r}])]
                           /\ uses \in [Site -> {c, NoSet}]
  BY <1>1, RuleSetAssumption
<1>3. [NoRules EXCEPT ![AntiCc] = {r}] \in [Kind -> SUBSET Rule]
  BY SetsAre
<1>4. NewSet(role, [NoRules EXCEPT ![AntiCc] = {r}]) \in RuleSetRecord
  BY <1>3, SetsAre
<1>5. Database
  BY <1>2, <1>4 DEF Database, WafInit
<1>6. Requests
  BY Idle DEF Requests, WafInit
<1>7. conf \in [Server \X Site -> [Part -> Value]]
  BY <1>5, WholeSiteType DEF WafInit
<1> QED BY <1>5, <1>6, <1>7 DEF TypeInv, WafInit

\* The types hold when a request about a whole rule set begins.
LEMMA SetType ==
    ASSUME TypeInv, NEW a \in Worker, CreateSet(a) \/ ChangeRole(a) \/ BeginDeleteSet(a) \/ BeginFork(a)
    PROVE  TypeInv'
<1>0. Database /\ Requests
  BY DEF TypeInv
<1>1. CASE CreateSet(a)
  <2>1. PICK c \in RuleSet, set \in RuleSetRecord : Fresh(c) /\ AddSet(c, set)
    <3>1. \A d \in DOMAIN ruleSets : ruleSets[d].rules \in [Kind -> SUBSET Rule]
      BY <1>0 DEF Database, RuleSetRecord
    <3> QED BY <1>1, <3>1, SetsAre DEF CreateSet
  <2>2. c \notin DOMAIN ruleSets
    BY <2>1 DEF Fresh
  <2>3. Database'
    BY <1>0, <1>1, <2>1, <2>2, AddSetType DEF CreateSet
  <2> QED BY <1>1, <2>3 DEF CreateSet, TypeInv, Requests
<1>2. CASE ChangeRole(a)
  <2>1. PICK c \in DOMAIN ruleSets, role \in {"predefined", "custom"} :
           ruleSets' = [ruleSets EXCEPT ![c].role = role]
    BY <1>2 DEF ChangeRole
  <2>2. ruleSets' \in [DOMAIN ruleSets -> RuleSetRecord]
    BY <1>0, <2>1 DEF Database, RuleSetRecord
  <2>3. DOMAIN ruleSets' = DOMAIN ruleSets
    BY <2>1
  <2>4. Database'
    BY <1>0, <1>2, <2>2, <2>3 DEF ChangeRole, Database
  <2> QED BY <1>2, <2>4 DEF ChangeRole, TypeInv, Requests
<1>3. CASE BeginDeleteSet(a)
  <2>1. PICK c \in DOMAIN ruleSets : Arrive(a, [NoWork EXCEPT !.pc = "delete", !.what = "delete", !.set = c])
    BY <1>3 DEF BeginDeleteSet
  <2> DEFINE j == [NoWork EXCEPT !.pc = "delete", !.what = "delete", !.set = c]
  <2>2. c \in RuleSet
    BY <1>0 DEF Database
  <2>3. j \in WorkRecord /\ Placed(j) /\ j.pc = "delete"
    BY <2>2, Idle DEF NoWork, WorkRecord, Placed
  <2>4. Requests'
    BY <1>0, <2>1, <2>3, ArriveType
  <2> QED BY <1>0, <1>3, <2>4 DEF BeginDeleteSet, TypeInv, Database
<1>4. CASE BeginFork(a)
  <2>1. PICK s \in Site : /\ uses[s] # NoSet
                          /\ Arrive(a, [NoWork EXCEPT !.pc = "copy", !.what = "fork", !.set = uses[s], !.at = s])
    BY <1>4 DEF BeginFork
  <2> DEFINE j == [NoWork EXCEPT !.pc = "copy", !.what = "fork", !.set = uses[s], !.at = s]
  <2>2. uses[s] \in RuleSet
    BY <1>0, <2>1 DEF Database
  <2>3. j \in WorkRecord /\ Placed(j) /\ j.pc = "copy"
    BY <2>2, Idle DEF NoWork, WorkRecord, Placed
  <2>4. Requests'
    BY <1>0, <2>1, <2>3, ArriveType
  <2> QED BY <1>0, <1>4, <2>4 DEF BeginFork, TypeInv, Database
<1> QED BY <1>1, <1>2, <1>3, <1>4

\* The types hold when a request that edits or reads rules begins.
LEMMA EditBeginsType ==
    ASSUME TypeInv, NEW a \in Worker, BeginTemplateEdit(a) \/ BeginSiteEdit(a) \/ BeginRead(a)
    PROVE  TypeInv'
<1>0. Database /\ Requests
  BY DEF TypeInv
<1>r. \A c \in DOMAIN ruleSets : c \in RuleSet /\ \A k \in Kind : ruleSets[c].rules[k] \in SUBSET Rule
  BY <1>0 DEF Database, RuleSetRecord
<1>1. CASE BeginTemplateEdit(a)
  <2>1. PICK k \in Kind : EditTemplate(a, k)
    BY <1>1 DEF BeginTemplateEdit, TemplateWhitelist, TemplateBlacklist, TemplateGeo, TemplateAntiCc,
       TemplateAntiHeader, TemplateInterval, TemplateSecond, TemplateResponse, TemplateUserAgent, EditTemplate
  <2>2. PICK c \in DOMAIN ruleSets : \E ed \in RuleEdits(ruleSets[c].rules[k]) :
          Arrive(a, [NoWork EXCEPT !.pc = "write", !.what = "template", !.set = c, !.kind = k, !.edit = ed])
    BY <2>1 DEF EditTemplate
  <2>3. PICK ed \in RuleEdits(ruleSets[c].rules[k]) :
          Arrive(a, [NoWork EXCEPT !.pc = "write", !.what = "template", !.set = c, !.kind = k, !.edit = ed])
    BY <2>2
  <2> DEFINE j == [NoWork EXCEPT !.pc = "write", !.what = "template", !.set = c, !.kind = k, !.edit = ed]
  <2>4. c \in RuleSet /\ ed \in EditRecord
    BY <1>r, EditsAre
  <2>5. j \in WorkRecord /\ Placed(j) /\ j.pc = "write"
    BY <2>4, Idle DEF NoWork, WorkRecord, Placed
  <2>6. Requests'
    BY <1>0, <2>3, <2>5, ArriveType
  <2> QED BY <1>0, <1>1, <2>6 DEF BeginTemplateEdit, TypeInv, Database
<1>2. CASE BeginSiteEdit(a)
  <2>1. PICK k \in Kind : EditOfSite(a, k)
    BY <1>2 DEF BeginSiteEdit, SiteWhitelist, SiteBlacklist, SiteGeo, SiteAntiCc, SiteAntiHeader,
       SiteInterval, SiteSecond, SiteResponse, SiteUserAgent, EditOfSite
  <2>2. Requests'
    <3>1. PICK s \in Site :
          \/ /\ uses[s] # NoSet /\ ruleSets[uses[s]].role = "custom"
             /\ \E ed \in RuleEdits(ruleSets[uses[s]].rules[k]) :
                   Arrive(a, [NoWork EXCEPT !.pc = "write", !.what = "site", !.set = uses[s],
                                          !.kind = k, !.edit = ed, !.at = s])
          \/ /\ uses[s] = NoSet
             /\ \E ed \in RuleEdits({}) :
                   Arrive(a, [NoWork EXCEPT !.pc = "ensure", !.what = "site", !.kind = k,
                                          !.edit = ed, !.at = s])
      BY <2>1 DEF EditOfSite
    <3>2. CASE uses[s] # NoSet
      <4>1. PICK ed \in RuleEdits(ruleSets[uses[s]].rules[k]) :
               Arrive(a, [NoWork EXCEPT !.pc = "write", !.what = "site", !.set = uses[s],
                                      !.kind = k, !.edit = ed, !.at = s])
        BY <3>1, <3>2
      <4> DEFINE j == [NoWork EXCEPT !.pc = "write", !.what = "site", !.set = uses[s],
                                     !.kind = k, !.edit = ed, !.at = s]
      <4>2. uses[s] \in DOMAIN ruleSets
        BY <1>0, <3>2 DEF Database
      <4>3. uses[s] \in RuleSet /\ ed \in EditRecord
        BY <1>r, <4>2, EditsAre
      <4>4. j \in WorkRecord /\ Placed(j) /\ j.pc = "write"
        BY <4>3, Idle DEF NoWork, WorkRecord, Placed
      <4> QED BY <1>0, <4>1, <4>4, ArriveType
    <3>3. CASE uses[s] = NoSet
      <4>1. PICK ed \in RuleEdits({}) :
               Arrive(a, [NoWork EXCEPT !.pc = "ensure", !.what = "site", !.kind = k, !.edit = ed, !.at = s])
        BY <3>1, <3>3
      <4> DEFINE j == [NoWork EXCEPT !.pc = "ensure", !.what = "site", !.kind = k, !.edit = ed, !.at = s]
      <4>2. ed \in EditRecord
        BY EditsAre
      <4>3. j \in WorkRecord /\ Placed(j) /\ j.pc = "ensure"
        BY <4>2, Idle DEF NoWork, WorkRecord, Placed
      <4> QED BY <1>0, <4>1, <4>3, ArriveType
    <3> QED BY <3>2, <3>3
  <2> QED BY <1>0, <1>2, <2>2 DEF BeginSiteEdit, TypeInv, Database
<1>3. CASE BeginRead(a)
  <2>1. PICK s \in Site : Arrive(a, [NoWork EXCEPT !.pc = "ensure", !.what = "read", !.at = s])
    BY <1>3 DEF BeginRead
  <2> DEFINE j == [NoWork EXCEPT !.pc = "ensure", !.what = "read", !.at = s]
  <2>2. j \in WorkRecord /\ Placed(j) /\ j.pc = "ensure"
    BY Idle DEF NoWork, WorkRecord, Placed
  <2>3. Requests'
    BY <1>0, <2>1, <2>2, ArriveType
  <2> QED BY <1>0, <1>3, <2>3 DEF BeginRead, TypeInv, Database
<1> QED BY <1>1, <1>2, <1>3

\* The types hold when a request about a site begins.
LEMMA SiteBeginsType ==
    ASSUME TypeInv, NEW a \in Worker, SaveSite(a) \/ BeginRoutes(a)
    PROVE  TypeInv'
<1>0. Database /\ Requests
  BY DEF TypeInv
<1>1. CASE SaveSite(a)
  <2>1. PICK s \in Site, c \in DOMAIN ruleSets \cup {NoSet}, E \in SUBSET Server :
          /\ Arrive(a, [NoWork EXCEPT !.pc = "edges", !.what = "save", !.at = s, !.todo = E])
          /\ uses' = [uses EXCEPT ![s] = c]
          /\ assigned' = [assigned EXCEPT ![s] = E]
          /\ claimed' = claimed \ PartsOf({s}, Part)
    BY <1>1 DEF SaveSite
  <2> DEFINE j == [NoWork EXCEPT !.pc = "edges", !.what = "save", !.at = s, !.todo = E]
  <2>2. j \in WorkRecord /\ Placed(j) /\ j.pc = "edges"
    BY Idle DEF NoWork, WorkRecord, Placed
  <2>3. Requests'
    BY <1>0, <2>1, <2>2, ArriveType
  <2>4. Database'
    BY <1>0, <1>1, <2>1 DEF Database, SaveSite
  <2> QED BY <1>1, <2>1, <2>3, <2>4 DEF SaveSite, TypeInv
<1>2. CASE BeginRoutes(a)
  <2>1. PICK s \in Site, v \in Version \cup {NoRoutes} :
          /\ Arrive(a, [NoWork EXCEPT !.pc = "load", !.what = "routes", !.sites = {s}])
          /\ routes' = [routes EXCEPT ![s] = v]
          /\ claimed' = claimed \ PartsOf({s}, {Routes})
    BY <1>2 DEF BeginRoutes
  <2> DEFINE j == [NoWork EXCEPT !.pc = "load", !.what = "routes", !.sites = {s}]
  <2>2. j \in WorkRecord /\ Placed(j) /\ j.pc = "load"
    BY Idle DEF NoWork, WorkRecord, Placed
  <2>3. Requests'
    BY <1>0, <2>1, <2>2, ArriveType
  <2>4. Database'
    BY <1>0, <1>2, <2>1 DEF Database, BeginRoutes
  <2> QED BY <1>2, <2>1, <2>3, <2>4 DEF BeginRoutes, TypeInv
<1> QED BY <1>1, <1>2

\* A request is answered and has nothing more to do.
LEMMA AnswerType ==
    ASSUME Requests, NEW a \in Worker, Work(a, NoWork)
    PROVE  Requests'
BY Idle, WorkType

\* An answer claims parts of sites.
LEMMA ClaimType ==
    ASSUME claimed \subseteq Site \X Part, NEW a, NEW C \in SUBSET (Site \X Part), AnswerWell(a, C) \/ AnswerBadly(a)
    PROVE  claimed' \subseteq Site \X Part
BY DEF AnswerWell, AnswerBadly

\* The types hold when a rule set is deleted, copied, made or given to a site.
LEMMA SetStepType ==
    ASSUME TypeInv, NEW a \in Worker, DeleteSet(a) \/ Copy(a) \/ Ensure(a) \/ Attach(a)
    PROVE  TypeInv'
<1>0. Database /\ Requests
  BY DEF TypeInv
<1>j. work[a] \in WorkRecord /\ Placed(work[a])
  BY <1>0 DEF Requests
<1>1. CASE DeleteSet(a)
  <2> DEFINE c == work[a].set
  <2>1. Requests'
    BY <1>0, <1>1, AnswerType DEF DeleteSet, AnswerWell
  <2>2. claimed' \subseteq Site \X Part
    BY <1>1, ClaimType DEF DeleteSet, TypeInv
  <2>3. ruleSets' = [d \in DOMAIN ruleSets \ {c} |-> ruleSets[d]]
    BY <1>1 DEF DeleteSet
  <2>4. /\ DOMAIN ruleSets' = DOMAIN ruleSets \ {c}
        /\ ruleSets' \in [DOMAIN ruleSets \ {c} -> RuleSetRecord]
    BY <1>0, <2>3 DEF Database
  <2>5. uses' \in [Site -> DOMAIN ruleSets' \cup {NoSet}]
    <3>1. uses' = [s \in Site |-> IF uses[s] = c THEN NoSet ELSE uses[s]]
      BY <1>1 DEF DeleteSet, Released
    <3>2. ASSUME NEW s \in Site, uses[s] # c
          PROVE  uses[s] \in DOMAIN ruleSets' \cup {NoSet}
      BY <1>0, <2>4, <3>2 DEF Database
    <3> QED BY <3>1, <3>2
  <2>6. Database'
    BY <1>0, <1>1, <2>4, <2>5 DEF Database, DeleteSet
  <2> QED BY <1>1, <2>1, <2>2, <2>6 DEF TypeInv, DeleteSet
<1>2. CASE Copy(a)
  <2>1. CASE work[a].set \in DOMAIN ruleSets /\ ruleSets[work[a].set].role = "predefined"
    <3>1. PICK c \in RuleSet :
             /\ Fresh(c)
             /\ AddSet(c, NewSet("custom", Copied(ruleSets[work[a].set].rules)))
             /\ Work(a, [work[a] EXCEPT !.pc = "attach", !.set = c])
             /\ UNCHANGED claimed
      BY <1>2, <2>1 DEF Copy
    <3> DEFINE j == [work[a] EXCEPT !.pc = "attach", !.set = c]
               set == NewSet("custom", Copied(ruleSets[work[a].set].rules))
    <3>2. work[a].pc = "copy"
      BY <1>2 DEF Copy
    <3>3. j \in WorkRecord /\ Placed(j)
      BY <1>j, <3>2 DEF WorkRecord, Placed
    <3>4. Requests'
      BY <1>0, <3>1, <3>3, WorkType
    <3>5. ruleSets[work[a].set].rules \in [Kind -> SUBSET Rule]
      BY <1>0, <2>1 DEF Database, RuleSetRecord
    <3>6. set \in RuleSetRecord
      BY <3>5, SetsAre DEF Copied
    <3>7. c \notin DOMAIN ruleSets
      BY <3>1 DEF Fresh
    <3>8. Database'
      BY <1>0, <1>2, <3>1, <3>6, <3>7, AddSetType DEF Copy
    <3> QED BY <1>2, <3>1, <3>4, <3>8 DEF TypeInv, Copy
  <2>2. CASE ~(work[a].set \in DOMAIN ruleSets /\ ruleSets[work[a].set].role = "predefined")
    <3>1. AnswerBadly(a) /\ UNCHANGED ruleSets
      BY <1>2, <2>2 DEF Copy
    <3>2. Requests'
      BY <1>0, <3>1, AnswerType DEF AnswerBadly
    <3> QED BY <1>0, <1>2, <3>1, <3>2 DEF TypeInv, Database, Copy, AnswerBadly
  <2> QED BY <2>1, <2>2
<1>3. CASE Ensure(a)
  <2>1. PICK c \in RuleSet :
           /\ Fresh(c)
           /\ AddSet(c, NewSet("custom", NoRules))
           /\ Work(a, [work[a] EXCEPT !.pc = "attach", !.set = c])
    BY <1>3 DEF Ensure
  <2> DEFINE j == [work[a] EXCEPT !.pc = "attach", !.set = c]
  <2>2. work[a].pc = "ensure"
    BY <1>3 DEF Ensure
  <2>3. j \in WorkRecord /\ Placed(j)
    BY <1>j, <2>2 DEF WorkRecord, Placed
  <2>4. Requests'
    BY <1>0, <2>1, <2>3, WorkType
  <2>5. NewSet("custom", NoRules) \in RuleSetRecord
    BY SetsAre
  <2>6. c \notin DOMAIN ruleSets
    BY <2>1 DEF Fresh
  <2>7. Database'
    BY <1>0, <1>3, <2>1, <2>5, <2>6, AddSetType DEF Ensure
  <2> QED BY <1>3, <2>1, <2>4, <2>7 DEF TypeInv, Ensure
<1>4. CASE Attach(a)
  <2>0. work[a].pc = "attach" /\ work[a].at \in Site
    BY <1>4, <1>j DEF Attach, Placed
  <2>1. CASE work[a].set \in DOMAIN ruleSets
    <3>1. /\ uses' = [uses EXCEPT ![work[a].at] = work[a].set]
          /\ claimed' = IF work[a].alone THEN claimed ELSE claimed \ PartsOf({work[a].at}, Part)
          /\ Work(a, IF work[a].what = "site" THEN [work[a] EXCEPT !.pc = "write"] ELSE NoWork)
      BY <1>4, <2>1 DEF Attach
    <3>2. Requests'
      <4>1. CASE work[a].what = "site"
        <5> DEFINE j == [work[a] EXCEPT !.pc = "write"]
        <5>1. j \in WorkRecord /\ Placed(j)
          BY <1>j, <2>0, <4>1 DEF WorkRecord, Placed
        <5> QED BY <1>0, <3>1, <4>1, <5>1, WorkType
      <4>2. CASE work[a].what # "site"
        BY <1>0, <3>1, <4>2, AnswerType
      <4> QED BY <4>1, <4>2
    <3>4. uses' \in [Site -> DOMAIN ruleSets \cup {NoSet}]
      BY <1>0, <2>1, <3>1 DEF Database
    <3>5. Database'
      BY <1>0, <1>4, <3>4 DEF Database, Attach
    <3> QED BY <1>4, <3>1, <3>2, <3>5 DEF TypeInv, Attach
  <2>2. CASE work[a].set \notin DOMAIN ruleSets
    <3>1. AnswerBadly(a) /\ UNCHANGED uses
      BY <1>4, <2>2 DEF Attach
    <3>2. Requests'
      BY <1>0, <3>1, AnswerType DEF AnswerBadly
    <3> QED BY <1>0, <1>4, <3>1, <3>2 DEF TypeInv, Database, Attach, AnswerBadly
  <2> QED BY <2>1, <2>2
<1> QED BY <1>1, <1>2, <1>3, <1>4

\* The types hold when rules are written.
LEMMA WriteType ==
    ASSUME TypeInv, NEW a \in Worker, Write(a)
    PROVE  TypeInv'
<1> DEFINE j == work[a]
<1>0. Database /\ Requests
  BY DEF TypeInv
<1>j. j \in WorkRecord /\ Placed(j) /\ j.pc = "write"
  BY <1>0 DEF Requests, Write
<1>1. CASE NotFound(j.set, j.kind, j.edit)
  <2>1. AnswerBadly(a) /\ UNCHANGED ruleSets
    BY <1>1 DEF Write
  <2>2. Requests'
    BY <1>0, <2>1, AnswerType DEF AnswerBadly
  <2> QED BY <1>0, <2>1, <2>2 DEF TypeInv, Database, Write, AnswerBadly
<1>2. CASE ~NotFound(j.set, j.kind, j.edit)
  <2>1. /\ ruleSets' = IF j.set \notin DOMAIN ruleSets THEN ruleSets
                       ELSE [ruleSets EXCEPT ![j.set].rules[j.kind] = Rows(j.kind, @, j.edit)]
        /\ claimed' = claimed \ PartsOf(SitesOf(j.set), {j.kind})
        /\ Work(a, AfterWrite(j))
    BY <1>2 DEF Write
  <2>2. j.kind \in Kind /\ j.edit \in EditRecord
    BY <1>j DEF WorkRecord
  <2>3. DOMAIN ruleSets' = DOMAIN ruleSets /\ ruleSets' \in [DOMAIN ruleSets -> RuleSetRecord]
    <3>1. CASE j.set \notin DOMAIN ruleSets
      BY <1>0, <2>1, <3>1 DEF Database
    <3>2. CASE j.set \in DOMAIN ruleSets
      <4> DEFINE R == Rows(j.kind, ruleSets[j.set].rules[j.kind], j.edit)
      <4>1. ruleSets[j.set] \in RuleSetRecord /\ ruleSets[j.set].rules[j.kind] \in SUBSET Rule
        BY <1>0, <2>2, <3>2 DEF Database, RuleSetRecord
      <4>2. R \in SUBSET Rule
        BY <2>2, <4>1, EditType
      <4>3. ruleSets' = [ruleSets EXCEPT ![j.set].rules[j.kind] = R]
        BY <2>1, <3>2
      <4> HIDE DEF R
      <4>4. [ruleSets[j.set] EXCEPT !.rules[j.kind] = R] \in RuleSetRecord
        BY <4>1, <4>2 DEF RuleSetRecord
      <4> QED BY <1>0, <3>2, <4>3, <4>4 DEF Database
    <3> QED BY <3>1, <3>2
  <2>4. Database'
    BY <1>0, <2>3 DEF Database, Write
  <2>5. AfterWrite(j) \in WorkRecord /\ Placed(AfterWrite(j))
    <3>1. CASE j.what = "template"
      <4> DEFINE i == [j EXCEPT !.pc = "sites"]
      <4>1. i \in WorkRecord /\ Placed(i)
        BY <1>j, <3>1 DEF WorkRecord, Placed
      <4> QED BY <3>1, <4>1 DEF AfterWrite
    <3>2. CASE j.what = "site" /\ j.kind = AntiCc
      <4> DEFINE i == [j EXCEPT !.pc = "answer", !.ok = {j.at}]
      <4>1. i \in WorkRecord /\ Placed(i)
        BY <1>j, <3>2 DEF WorkRecord, Placed
      <4> QED BY <3>2, <4>1 DEF AfterWrite
    <3>3. CASE j.what = "site" /\ j.kind # AntiCc
      <4> DEFINE i == [j EXCEPT !.pc = "load", !.sites = {j.at}]
      <4>1. i \in WorkRecord /\ Placed(i)
        BY <1>j, <3>3 DEF WorkRecord, Placed
      <4> QED BY <3>3, <4>1 DEF AfterWrite
    <3> QED BY <1>j, <3>1, <3>2, <3>3 DEF Placed
  <2>6. Requests'
    BY <1>0, <2>1, <2>5, WorkType
  <2> QED BY <2>1, <2>4, <2>6 DEF TypeInv, Write
<1> QED BY <1>1, <1>2

\* The types hold when a request lists and loads the sites it posts to.
LEMMA LoadType ==
    ASSUME TypeInv, NEW a \in Worker, ListSites(a) \/ Load(a)
    PROVE  TypeInv'
<1> DEFINE j == work[a]
<1>0. Database /\ Requests
  BY DEF TypeInv
<1>j. j \in WorkRecord /\ Placed(j)
  BY <1>0 DEF Requests
<1>1. CASE ListSites(a)
  <2> DEFINE S == Sites(j.set)
             i == [j EXCEPT !.pc = IF S = {} THEN "answer" ELSE "load", !.sites = S,
                            !.ok = IF S = {} THEN SitesOf(j.set) ELSE {}]
  <2>1. S \in SUBSET Site /\ SitesOf(j.set) \in SUBSET Site
    BY DEF Sites, SitesOf
  <2>2. j.pc = "sites" /\ Work(a, i)
    BY <1>1 DEF ListSites
  <2>3. i \in WorkRecord /\ Placed(i)
    <3> HIDE DEF S
    <3>1. i \in WorkRecord /\ i.pc \in {"answer", "load"} /\ i.ok \in SUBSET Site
      BY <1>j, <2>1 DEF WorkRecord
    <3>2. i.what = j.what /\ i.body = j.body /\ i.at = j.at /\ i.set = j.set
      BY <1>j DEF WorkRecord
    <3> QED BY <1>j, <2>2, <3>1, <3>2 DEF Placed
  <2>4. Requests'
    BY <1>0, <2>2, <2>3, WorkType
  <2> QED BY <1>0, <1>1, <2>4 DEF TypeInv, Database, ListSites
<1>2. CASE Load(a)
  <2>1. PICK s \in j.sites :
             IF uses[s] = NoSet /\ j.what \in {"template", "site"} /\ j.kind # AntiCc
             THEN Work(a, [j EXCEPT !.sites = @ \ {s}, !.missed = TRUE,
                                   !.pc = IF j.sites = {s} THEN "answer" ELSE "load"])
             ELSE Work(a, [j EXCEPT !.pc = "edges", !.at = s, !.todo = assigned[s],
                                   !.sites = @ \ {s},
                                   !.body = IF j.what = "routes" THEN routes[s] ELSE Stored(s, j.kind)])
    BY <1>2 DEF Load
  <2>2. j.pc = "load" /\ s \in Site
    BY <1>2, <1>j DEF Load, WorkRecord
  <2>3. Requests'
    <3>1. CASE uses[s] = NoSet /\ j.what \in {"template", "site"} /\ j.kind # AntiCc
      <4> DEFINE i == [j EXCEPT !.sites = @ \ {s}, !.missed = TRUE,
                                !.pc = IF j.sites = {s} THEN "answer" ELSE "load"]
      <4>1. i \in WorkRecord /\ Placed(i)
        BY <1>j, <2>2, <3>1, ZenonT(60) DEF WorkRecord, Placed
      <4> QED BY <1>0, <2>1, <3>1, <4>1, WorkType
    <3>2. CASE ~(uses[s] = NoSet /\ j.what \in {"template", "site"} /\ j.kind # AntiCc)
      <4> DEFINE x == IF j.what = "routes" THEN routes[s] ELSE Stored(s, j.kind)
                 i == [j EXCEPT !.pc = "edges", !.at = s, !.todo = assigned[s], !.sites = @ \ {s}, !.body = x]
      <4>1. j.kind \in Kind
        BY <1>j DEF WorkRecord
      <4>2. /\ x \in Value /\ assigned[s] \in SUBSET Server
            /\ j.what # "routes" => x \in SUBSET Rule
        BY <1>0, <2>2, <4>1, StoredType DEF Database, Value
      <4>3. Work(a, i)
        BY <2>1, <3>2
      <4>4. i \in WorkRecord /\ Placed(i)
        <5> HIDE DEF x
        <5> QED BY <1>j, <2>2, <4>2 DEF WorkRecord, Placed
      <4> QED BY <1>0, <4>3, <4>4, WorkType
    <3> QED BY <3>1, <3>2
  <2> QED BY <1>0, <1>2, <2>3 DEF TypeInv, Database, Load
<1> QED BY <1>1, <1>2

\* What an edge takes from a post has the shape of a site.
LEMMA TakenType ==
    ASSUME Database, NEW j \in WorkRecord, Placed(j), j.pc = "edges", NEW was \in [Part -> Value]
    PROVE  Taken(j, was) \in [Part -> Value]
<1>1. j.at \in Site /\ j.kind \in Kind /\ j.body \in Value
  BY DEF Placed, WorkRecord
<1>2. WholeSite(j.at) \in [Part -> Value] /\ WholeSiteOfTemplate(j.at) \in [Part -> Value]
  BY <1>1, WholeSiteType
<1>3. j.what \in {"template", "site", "routes", "save"}
  BY DEF Placed
<1>4. CASE j.what = "save"
  BY <1>2, <1>4 DEF Taken
<1>5. CASE j.what = "routes"
  <2>1. [was EXCEPT ![Routes] = j.body] \in [Part -> Value]
    BY <1>1
  <2> QED BY <1>5, <2>1 DEF Taken
<1>6. CASE j.what = "template" /\ j.kind = AntiCc
  BY <1>2, <1>6 DEF Taken
<1>7. CASE j.what \in {"template", "site"} /\ j.kind # AntiCc
  <2>1. Pushed(j.kind, j.body) \in Value
    BY <1>1, <1>7, PushedRules DEF Placed, Value
  <2>2. [was EXCEPT ![j.kind] = Pushed(j.kind, j.body)] \in [Part -> Value]
    BY <2>1
  <2> QED BY <1>7, <2>2 DEF Taken
<1> QED BY <1>3, <1>4, <1>5, <1>6, <1>7 DEF Placed

\* The types hold when a request posts to an edge and goes on to the next site.
LEMMA PostType ==
    ASSUME TypeInv, NEW a \in Worker, PostRules(a) \/ NextSite(a)
    PROVE  TypeInv'
<1> DEFINE j == work[a]
<1>0. Database /\ Requests
  BY DEF TypeInv
<1>j. j \in WorkRecord /\ Placed(j) /\ j.pc = "edges"
  BY <1>0 DEF Requests, PostRules, NextSite
<1>1. CASE PostRules(a)
  <2>1. PICK e \in j.todo :
             \/ /\ conf' = [conf EXCEPT ![<<e, j.at>>] = Taken(j, @)]
                /\ Work(a, [j EXCEPT !.todo = @ \ {e}, !.ok = IF j.what = "save" THEN @ \cup {e} ELSE @])
                /\ Within
             \/ /\ Work(a, [j EXCEPT !.todo = @ \ {e}, !.missed = Missed(j)])
                /\ UNCHANGED conf /\ Lost
    BY <1>1 DEF PostRules
  <2>2. e \in Server /\ j.at \in Site
    BY <1>j DEF WorkRecord, Placed
  <2>3. CASE /\ conf' = [conf EXCEPT ![<<e, j.at>>] = Taken(j, @)]
             /\ Work(a, [j EXCEPT !.todo = @ \ {e}, !.ok = IF j.what = "save" THEN @ \cup {e} ELSE @])
             /\ Within
    <3> DEFINE i == [j EXCEPT !.todo = @ \ {e}, !.ok = IF j.what = "save" THEN @ \cup {e} ELSE @]
    <3>1. i \in WorkRecord /\ Placed(i)
      BY <1>j, <2>2 DEF WorkRecord, Placed
    <3>2. Requests'
      BY <1>0, <2>3, <3>1, WorkType
    <3>3. conf[<<e, j.at>>] \in [Part -> Value]
      BY <2>2 DEF TypeInv
    <3>4. Taken(j, conf[<<e, j.at>>]) \in [Part -> Value]
      BY <1>0, <1>j, <3>3, TakenType
    <3>5. conf' \in [Server \X Site -> [Part -> Value]]
      BY <2>2, <2>3, <3>4 DEF TypeInv
    <3> QED BY <1>0, <1>1, <3>2, <3>5 DEF TypeInv, Database, PostRules
  <2>4. CASE /\ Work(a, [j EXCEPT !.todo = @ \ {e}, !.missed = Missed(j)])
             /\ UNCHANGED conf /\ Lost
    <3> DEFINE i == [j EXCEPT !.todo = @ \ {e}, !.missed = Missed(j)]
    <3>1. Missed(j) \in BOOLEAN
      BY <1>j DEF Missed, WorkRecord
    <3>2. i \in WorkRecord /\ Placed(i)
      BY <1>j, <3>1 DEF WorkRecord, Placed
    <3>3. Requests'
      BY <1>0, <2>4, <3>2, WorkType
    <3> QED BY <1>0, <1>1, <2>4, <3>3 DEF TypeInv, Database, PostRules
  <2> QED BY <2>1, <2>3, <2>4
<1>2. CASE NextSite(a)
  <2> DEFINE i == [j EXCEPT !.pc = IF j.sites = {} THEN "answer" ELSE "load",
                            !.ok = IF j.what = "save" THEN @ ELSE @ \cup {j.at}, !.body = {}]
  <2>1. Work(a, i)
    BY <1>2 DEF NextSite
  <2>2. j.at \in Site /\ {} \in Value /\ j.what \in {"template", "site", "routes", "save"}
    BY <1>j DEF Placed, Value
  <2>3. i \in WorkRecord /\ Placed(i)
    BY <1>j, <2>2, ZenonT(60) DEF WorkRecord, Placed
  <2>4. Requests'
    BY <1>0, <2>1, <2>3, WorkType
  <2> QED BY <1>0, <1>2, <2>4 DEF TypeInv, Database, NextSite
<1> QED BY <1>1, <1>2

\* The types hold when a request is answered or breaks off.
LEMMA EndType ==
    ASSUME TypeInv, NEW a \in Worker, Answer(a) \/ Break(a)
    PROVE  TypeInv'
<1> DEFINE j == work[a]
<1>0. Database /\ Requests
  BY DEF TypeInv
<1>j. j \in WorkRecord /\ Placed(j)
  BY <1>0 DEF Requests
<1>1. CASE Answer(a)
  <2>0. j.pc = "answer"
    BY <1>1 DEF Answer
  <2>1. CASE j.missed
    <3>1. AnswerBadly(a) /\ UNCHANGED assigned
      BY <1>1, <2>1 DEF Answer
    <3>2. Requests'
      BY <1>0, <3>1, AnswerType DEF AnswerBadly
    <3> QED BY <1>0, <1>1, <3>1, <3>2 DEF TypeInv, Database, Answer, AnswerBadly
  <2>2. CASE ~j.missed /\ j.what = "save"
    <3>1. assigned' = [assigned EXCEPT ![j.at] = j.ok] /\ AnswerWell(a, PartsOf({j.at}, Part))
      BY <1>1, <2>2 DEF Answer
    <3>2. j.at \in Site /\ j.ok \in SUBSET Server
      BY <1>j, <2>0, <2>2 DEF Placed
    <3>3. Requests'
      BY <1>0, <3>1, AnswerType DEF AnswerWell
    <3>4. PartsOf({j.at}, Part) \in SUBSET (Site \X Part)
      BY <3>2 DEF PartsOf
    <3>5. claimed' \subseteq Site \X Part
      BY <3>1, <3>4, ClaimType DEF TypeInv
    <3>6. Database'
      BY <1>0, <1>1, <3>1, <3>2 DEF Database, Answer
    <3> QED BY <1>1, <3>3, <3>5, <3>6 DEF TypeInv, Answer
  <2>3. CASE ~j.missed /\ j.what # "save"
    <3> DEFINE P == {IF j.what = "routes" THEN Routes ELSE j.kind}
    <3>1. UNCHANGED assigned /\ AnswerWell(a, PartsOf(j.ok, P))
      BY <1>1, <2>3 DEF Answer
    <3>2. j.ok \subseteq Site /\ P \subseteq Part
      BY <1>j, <2>3, KindsAreParts DEF Placed, WorkRecord
    <3>3. Requests'
      BY <1>0, <3>1, AnswerType DEF AnswerWell
    <3>4. PartsOf(j.ok, P) \in SUBSET (Site \X Part)
      BY <3>2 DEF PartsOf
    <3>5. claimed' \subseteq Site \X Part
      BY <3>1, <3>4, ClaimType DEF TypeInv
    <3>6. Database'
      BY <1>0, <1>1, <3>1 DEF Database, Answer
    <3> QED BY <1>1, <3>3, <3>5, <3>6 DEF TypeInv, Answer
  <2> QED BY <2>1, <2>2, <2>3
<1>2. CASE Break(a)
  <2>1. AnswerBadly(a)
    BY <1>2 DEF Break
  <2>2. Requests'
    BY <1>0, <2>1, AnswerType DEF AnswerBadly
  <2> QED BY <1>0, <1>2, <2>1, <2>2 DEF TypeInv, Database, Break, AnswerBadly
<1> QED BY <1>1, <1>2

\* Every step keeps the types.
LEMMA TypeNext == ASSUME TypeInv, [WafNext]_wVars PROVE TypeInv'
<1>1. CASE UNCHANGED wVars
  BY <1>1 DEF wVars, TypeInv, Database, Requests
<1>2. CASE WafNext
  BY <1>2, SetType, EditBeginsType, SiteBeginsType, SetStepType, WriteType, LoadType, PostType, EndType
     DEF WafNext
<1> QED BY <1>1, <1>2

\* Types: rule sets, sites and requests keep their shape, and no site uses a rule set that is
\* gone, for any number of handlers.
THEOREM WafTypeCorrect == WafSpec => []WafTypeOK
<1>1. TypeInv => WafTypeOK
  BY DEF TypeInv, Database, Requests, Placed, RuleSetRecord, WafTypeOK
<1>2. WafSpec => []TypeInv
  BY WafTypeInit, TypeNext, PTL DEF WafSpec
<1> QED BY <1>1, <1>2, PTL

-----------------------------------------------------------------------------
(* What a step of one request leaves of the others' knowledge. *)

\* What a site has in the database changes only with its rule set, and with the rows of it.
LEMMA StoredSame ==
    ASSUME NEW s \in Site, NEW k \in Kind, uses'[s] = uses[s],
           uses[s] # NoSet => ruleSets'[uses[s]].rules[k] = ruleSets[uses[s]].rules[k]
    PROVE  Stored(s, k)' = Stored(s, k)
BY KindsAreParts DEF Stored

\* An edge goes on following a table that changes neither in the database nor on the edge.
LEMMA FollowsSame ==
    ASSUME NEW e, NEW s, NEW k, Follows(e, s, k), conf' = conf, Stored(s, k)' = Stored(s, k)
    PROVE  Follows(e, s, k)'
BY DEF Follows, Enforced

\* A site stays in step as long as nothing that matters to it changes.
LEMMA InStepSame ==
    ASSUME NEW s \in Site, NEW k \in Kind, InStep(s, k), assigned[s] \subseteq Server,
           assigned'[s] = assigned[s], Stored(s, k)' = Stored(s, k),
           \A e \in Server : Enforced(k, conf'[<<e, s>>][k]) = Enforced(k, conf[<<e, s>>][k])
    PROVE  InStep(s, k)'
BY DEF InStep, Enforced

\* What was answered stays served as long as nothing that matters to it changes.
LEMMA StillServed ==
    ASSUME TypeInv, AnsweredMeansServed,
           \A s \in Site, k \in Kind : <<s, k>> \in claimed' =>
              /\ <<s, k>> \in claimed
              /\ assigned'[s] = assigned[s]
              /\ Stored(s, k)' = Stored(s, k)
              /\ \A e \in Server : Enforced(k, conf'[<<e, s>>][k]) = Enforced(k, conf[<<e, s>>][k])
    PROVE  AnsweredMeansServed'
<1> SUFFICES ASSUME NEW s \in Site, NEW k \in Kind \ {AntiCc}, <<s, k>> \in claimed'
             PROVE  InStep(s, k)'
  BY DEF AnsweredMeansServed
<1>1. InStep(s, k) /\ assigned[s] \subseteq Server
  BY DEF AnsweredMeansServed, TypeInv, Database
<1> QED BY <1>1, InStepSame

\* Claims only shrink, and a site that changes its rule set has none left.
Calm ==
    /\ claimed' \subseteq claimed
    /\ \A s \in Site : uses'[s] = uses[s] \/ Bare(s)'

\* What a request withholds it goes on withholding.
LEMMA WithholdsCalm ==
    ASSUME NEW j \in WorkRecord, Placed(j), Withholds(j), Calm
    PROVE  Withholds(j)'
<1>0. j.kind \in Kind /\ j.sites \subseteq Site
  BY DEF WorkRecord
<1>1. \A s : Bare(s) => Bare(s)'
  BY DEF Bare, Calm
<1>2. j.pc = "delete" => \A s \in Site : uses'[s] = j.set => Bare(s)'
  BY <1>1 DEF Calm, Withholds
<1>3. j.pc = "write" /\ j.what = "site" => uses'[j.at] = j.set \/ Bare(j.at)'
  BY <1>1 DEF Calm, Withholds, Placed
<1>4. j.pc = "sites" => \A s \in SitesOf(j.set)' : <<s, j.kind>> \notin claimed'
  BY <1>0 DEF Calm, Withholds, SitesOf, Bare
<1>5. j.pc \in {"load", "edges"} /\ PostsRules(j) => \A s \in j.sites : <<s, j.kind>> \notin claimed'
  BY DEF Calm, Withholds
<1>6. j.pc = "edges" /\ PostsRules(j) => <<j.at, j.kind>> \notin claimed'
  BY DEF Calm, Withholds
<1>7. j.pc \in {"edges", "answer"} /\ j.what = "save" => Bare(j.at)'
  BY <1>1 DEF Withholds
<1> QED BY <1>2, <1>3, <1>4, <1>5, <1>6, <1>7 DEF Withholds, PostsRules

\* Whether a request runs alone makes no difference to what it withholds and knows.
LEMMA AloneApart ==
    ASSUME NEW j \in WorkRecord, NEW x \in BOOLEAN
    PROVE  /\ [j EXCEPT !.alone = x].pc = j.pc /\ [j EXCEPT !.alone = x].alone = x
           /\ Withholds(j)' => Withholds([j EXCEPT !.alone = x])'
           /\ Knows(j)' => Knows([j EXCEPT !.alone = x])'
<1> DEFINE i == [j EXCEPT !.alone = x]
<1>1. /\ i.pc = j.pc /\ i.what = j.what /\ i.set = j.set /\ i.kind = j.kind /\ i.sites = j.sites
      /\ i.at = j.at /\ i.ok = j.ok /\ i.body = j.body /\ i.todo = j.todo /\ i.missed = j.missed
      /\ i.alone = x
  BY DEF WorkRecord
<1> HIDE DEF i
<1>2. Withholds(j)' => Withholds(i)'
  BY <1>1 DEF Withholds, PostsRules
<1>3. Knows(j)' => Knows(i)'
  BY <1>1 DEF Knows, PostsRules
<1> QED BY <1>1, <1>2, <1>3 DEF i

\* A request that goes on: the others know nothing, or it runs alone and they withhold nothing.
LEMMA Proceeds ==
    ASSUME TypeInv, RuleInv, NEW a \in Worker, ~Free(a), NEW i \in WorkRecord, Placed(i), Work(a, i),
           i.alone => work[a].alone, AnsweredMeansServed', Calm \/ work[a].alone,
           Withholds(i)', i.alone => Knows(i)'
    PROVE  RuleInv'
<1>0. /\ work \in [Worker -> WorkRecord] /\ \A b \in Worker : Placed(work[b])
      /\ OneAlone /\ \A b \in Worker : Withholds(work[b])
  BY DEF TypeInv, Requests, RuleInv
<1>1. work'[a] = i /\ \A b \in Worker \ {a} : work'[b] = work[b]
  BY WorkType DEF TypeInv
<1>2. OneAlone'
  BY <1>0, <1>1 DEF OneAlone, Free
<1>3. ASSUME NEW b \in Worker PROVE Withholds(work[b])'
  <2>1. PICK j \in WorkRecord : j = work[b]
    BY <1>0
  <2>2. CASE b = a
    BY <1>1, <2>2 DEF Withholds
  <2>3. CASE b # a /\ Calm
    <3>1. Withholds(j)'
      BY <1>0, <2>1, <2>3, WithholdsCalm
    <3>2. work'[b] = j
      BY <1>1, <2>1, <2>3
    <3> QED BY <3>1, <3>2 DEF Withholds
  <2>4. CASE b # a /\ work[a].alone
    <3>1. work'[b].pc = "idle"
      BY <1>0, <1>1, <2>4 DEF OneAlone, Free
    <3> QED BY <3>1 DEF Withholds
  <2> QED BY <2>2, <2>3, <2>4
<1>4. ASSUME NEW b \in Worker, work'[b].alone PROVE Knows(work[b])'
  <2>1. b = a
    BY <1>0, <1>1, <1>4 DEF OneAlone
  <2> QED BY <1>1, <1>4, <2>1 DEF Knows
<1> QED BY <1>2, <1>3, <1>4 DEF RuleInv

\* A request that arrives: no other runs alone from now on.
LEMMA Arrives ==
    ASSUME TypeInv, RuleInv, NEW a \in Worker, NEW i \in WorkRecord, Placed(i), i.pc # "idle", Arrive(a, i),
           AnsweredMeansServed', Calm, Withholds(i)', Knows(i)'
    PROVE  RuleInv'
<1>0. /\ work \in [Worker -> WorkRecord] /\ \A b \in Worker : Placed(work[b])
      /\ OneAlone /\ \A b \in Worker : Withholds(work[b])
  BY DEF TypeInv, Requests, RuleInv
<1>x. PICK x \in BOOLEAN : x = (\A h \in Worker \ {a} : Free(h))
  OBVIOUS
<1>1. /\ work'[a] = [i EXCEPT !.alone = x] /\ Free(a)
      /\ \A b \in Worker \ {a} : work'[b] = [work[b] EXCEPT !.alone = FALSE]
  BY <1>x, ArriveType DEF TypeInv
<1>2. /\ \A b \in Worker \ {a} : work'[b].pc = work[b].pc /\ ~work'[b].alone
      /\ work'[a].alone = x
  <2>1. ASSUME NEW b \in Worker \ {a} PROVE work'[b].pc = work[b].pc /\ ~work'[b].alone
    <3>1. work[b] \in WorkRecord /\ work'[b] = [work[b] EXCEPT !.alone = FALSE]
      BY <1>0, <1>1
    <3> QED BY <3>1 DEF WorkRecord
  <2> QED BY <1>1, <2>1, AloneApart
<1>3. OneAlone'
  BY <1>x, <1>2 DEF OneAlone, Free
<1>4. ASSUME NEW b \in Worker PROVE Withholds(work[b])'
  <2>1. PICK j \in WorkRecord : j = work[b]
    BY <1>0
  <2>2. CASE b = a
    <3>1. PICK n : n = [i EXCEPT !.alone = x]
      OBVIOUS
    <3>2. Withholds([i EXCEPT !.alone = x])'
      BY AloneApart
    <3> QED BY <1>1, <2>2, <3>2 DEF Withholds
  <2>3. CASE b # a
    <3>1. Withholds(j)'
      BY <1>0, <2>1, WithholdsCalm
    <3>2. Withholds([j EXCEPT !.alone = FALSE])'
      BY <3>1, AloneApart
    <3>3. work'[b] = [j EXCEPT !.alone = FALSE]
      BY <1>1, <2>1, <2>3
    <3> QED BY <3>2, <3>3 DEF Withholds
  <2> QED BY <2>2, <2>3
<1>5. ASSUME NEW b \in Worker, work'[b].alone PROVE Knows(work[b])'
  <2>1. b = a
    BY <1>2, <1>5
  <2>2. Knows([i EXCEPT !.alone = x])'
    BY AloneApart
  <2> QED BY <1>1, <2>1, <2>2 DEF Knows
<1> QED BY <1>3, <1>4, <1>5 DEF RuleInv

-----------------------------------------------------------------------------
(* Every step keeps the invariant. *)

\* At first the edges do what the database says, and nobody is at work.
LEMMA RuleInit == ASSUME WafInit, TypeInv PROVE RuleInv
<1>1. \A a \in Worker : work[a] = NoWork
  BY DEF WafInit
<1>2. OneAlone
  BY <1>1, Idle DEF OneAlone
<1>3. \A a \in Worker : Withholds(work[a]) /\ ~work[a].alone
  BY <1>1, Idle DEF Withholds, PostsRules
<1>4. AnsweredMeansServed
  <2>1. ASSUME NEW s \in Site, NEW k \in Kind PROVE InStep(s, k)
    <3>1. \A e \in Server : conf[<<e, s>>] = WholeSite(s)
      BY DEF WafInit
    <3>2. WholeSite(s)[k] = Stored(s, k) /\ assigned[s] = Server
      BY WholeSiteType DEF TypeInv, WafInit
    <3> QED BY <3>1, <3>2 DEF InStep
  <2> QED BY <2>1 DEF AnsweredMeansServed
<1> QED BY <1>2, <1>3, <1>4 DEF RuleInv

\* Rule sets that are added, or change their role, are no concern of any request.
LEMMA SetsAside ==
    ASSUME TypeInv, RuleInv, UNCHANGED <<uses, assigned, conf, claimed, work>>,
           DOMAIN ruleSets \subseteq DOMAIN ruleSets',
           \A d \in DOMAIN ruleSets : ruleSets'[d].rules = ruleSets[d].rules
    PROVE  RuleInv'
<1>0. Database /\ work \in [Worker -> WorkRecord] /\ \A a \in Worker : Placed(work[a])
  BY DEF TypeInv, Requests
<1>1. ASSUME NEW s \in Site, NEW k \in Kind PROVE Stored(s, k)' = Stored(s, k)
  <2>1. uses[s] # NoSet => uses[s] \in DOMAIN ruleSets
    BY <1>0 DEF Database
  <2> QED BY <2>1, StoredSame
<1>2. AnsweredMeansServed'
  BY <1>1, StillServed DEF RuleInv
<1>3. OneAlone'
  BY DEF RuleInv, OneAlone, Free
<1>4. ASSUME NEW b \in Worker PROVE Withholds(work[b])'
  <2>1. PICK j \in WorkRecord : j = work[b]
    BY <1>0
  <2>2. Withholds(j)'
    BY <1>0, <2>1, WithholdsCalm DEF Calm, RuleInv
  <2> QED BY <2>1, <2>2 DEF Withholds
<1>5. ASSUME NEW b \in Worker, work'[b].alone PROVE Knows(work[b])'
  <2>1. PICK j \in WorkRecord : j = work[b]
    BY <1>0
  <2>2. Knows(j) /\ Placed(j)
    BY <1>0, <1>5, <2>1 DEF RuleInv
  <2>3. j.pc \in {"attach", "edges"} => j.at \in Site
    BY <2>2 DEF Placed
  <2>4. j.pc = "answer" /\ j.what = "save" => j.at \in Site
    BY <2>2 DEF Placed
  <2>k. j.kind \in Kind /\ (j.pc = "edges" => assigned[j.at] \subseteq Server) /\ j.ok \subseteq Site \cup Server
    BY <1>0, <2>3 DEF WorkRecord, Database
  <2>5. j.pc \in {"load", "edges", "answer"} /\ PostsRules(j) /\ j.kind # AntiCc /\ ~j.missed
        => \A s \in j.ok : InStep(s, j.kind)'
    <3> SUFFICES ASSUME PostsRules(j), j.pc \in {"load", "edges", "answer"}, j.kind # AntiCc, ~j.missed, NEW s \in j.ok
                 PROVE  InStep(s, j.kind)'
      OBVIOUS
    <3>1. s \in Site /\ InStep(s, j.kind)
      BY <2>2 DEF Placed, PostsRules, Knows
    <3> QED BY <1>0, <1>1, <2>k, <3>1, InStepSame DEF Database
  <2>6. j.pc = "edges" /\ PostsRules(j) /\ j.kind # AntiCc /\ ~j.missed
        => /\ j.body = Stored(j.at, j.kind)'
           /\ \A e \in assigned'[j.at] \ j.todo : Follows(e, j.at, j.kind)'
    BY <1>1, <2>2, <2>3, <2>k DEF Knows, Follows, Enforced
  <2>7. j.pc \in {"edges", "answer"} /\ j.what = "save"
        => \A e \in j.ok, k \in Kind : Follows(e, j.at, k)'
    BY <1>1, <2>2, <2>3, <2>4 DEF Knows, Follows, Enforced
  <2>8. j.pc = "attach" => /\ j.set \in DOMAIN ruleSets'
                           /\ \A k \in Kind : ruleSets'[j.set].rules[k] = Stored(j.at, k)'
    BY <1>1, <2>2, <2>3 DEF Knows
  <2>9. Knows(j)'
    BY <2>2, <2>5, <2>6, <2>7, <2>8 DEF Knows, PostsRules
  <2> QED BY <2>1, <2>9 DEF Knows
<1> QED BY <1>2, <1>3, <1>4, <1>5 DEF RuleInv

\* Creating a rule set and changing its role keep the invariant.
LEMMA AsideKeeps ==
    ASSUME TypeInv, RuleInv, NEW a \in Worker, CreateSet(a) \/ ChangeRole(a)
    PROVE  RuleInv'
<1>0. Database
  BY DEF TypeInv
<1>1. CASE CreateSet(a)
  <2>1. PICK c \in RuleSet, set \in RuleSetRecord : Fresh(c) /\ AddSet(c, set)
    <3>1. \A d \in DOMAIN ruleSets : ruleSets[d].rules \in [Kind -> SUBSET Rule]
      BY <1>0 DEF Database, RuleSetRecord
    <3> QED BY <1>1, <3>1, SetsAre DEF CreateSet
  <2>2. c \notin DOMAIN ruleSets
    BY <2>1 DEF Fresh
  <2>3. /\ DOMAIN ruleSets' = DOMAIN ruleSets \cup {c}
        /\ \A d \in DOMAIN ruleSets : ruleSets'[d] = ruleSets[d]
    BY <1>0, <1>1, <2>1, <2>2, AddSetType DEF CreateSet
  <2> QED BY <1>1, <2>3, SetsAside DEF CreateSet
<1>2. CASE ChangeRole(a)
  <2>1. PICK c \in DOMAIN ruleSets, role \in {"predefined", "custom"} :
           ruleSets' = [ruleSets EXCEPT ![c].role = role]
    BY <1>2 DEF ChangeRole
  <2>2. DOMAIN ruleSets' = DOMAIN ruleSets
    BY <2>1
  <2>3. \A d \in DOMAIN ruleSets : ruleSets[d] \in RuleSetRecord
    BY <1>0 DEF Database
  <2>4. \A d \in DOMAIN ruleSets : ruleSets'[d].rules = ruleSets[d].rules
    BY <2>1, <2>3 DEF RuleSetRecord
  <2> QED BY <1>2, <2>2, <2>4, SetsAside DEF ChangeRole
<1> QED BY <1>1, <1>2

\* Requests that begin by reading keep the invariant.
LEMMA BeginsKeep ==
    ASSUME TypeInv, RuleInv, NEW a \in Worker,
           BeginDeleteSet(a) \/ BeginFork(a) \/ BeginTemplateEdit(a) \/ BeginSiteEdit(a) \/ BeginRead(a)
    PROVE  RuleInv'
<1>0. Database /\ Requests
  BY DEF TypeInv
<1>r. \A c \in DOMAIN ruleSets : c \in RuleSet /\ \A k \in Kind : ruleSets[c].rules[k] \in SUBSET Rule
  BY <1>0 DEF Database, RuleSetRecord
<1>u. UNCHANGED <<ruleSets, uses, assigned, routes, conf, claimed>>
  BY DEF BeginDeleteSet, BeginFork, BeginTemplateEdit, BeginSiteEdit, BeginRead
<1>c. Calm
  BY <1>u DEF Calm
<1>s. AnsweredMeansServed'
  <2>1. \A s \in Site, k \in Kind : Stored(s, k)' = Stored(s, k)
    BY <1>u, StoredSame
  <2> QED BY <1>u, <2>1, StillServed DEF RuleInv
<1>1. CASE BeginDeleteSet(a)
  <2>1. PICK c \in DOMAIN ruleSets :
           SitesOf(c) = {} /\ Arrive(a, [NoWork EXCEPT !.pc = "delete", !.what = "delete", !.set = c])
    BY <1>1 DEF BeginDeleteSet
  <2> DEFINE j == [NoWork EXCEPT !.pc = "delete", !.what = "delete", !.set = c]
  <2>2. j \in WorkRecord /\ Placed(j) /\ j.pc = "delete" /\ j.set = c
    BY <1>r, Idle DEF NoWork, WorkRecord, Placed
  <2> HIDE DEF j
  <2>3. Withholds(j)'
    BY <1>u, <2>1, <2>2 DEF Withholds, SitesOf
  <2>4. Knows(j)'
    BY <2>2 DEF Knows
  <2> QED BY <1>c, <1>s, <2>1, <2>2, <2>3, <2>4, Arrives DEF j
<1>2. CASE BeginFork(a)
  <2>1. PICK s \in Site : /\ uses[s] # NoSet
                          /\ Arrive(a, [NoWork EXCEPT !.pc = "copy", !.what = "fork", !.set = uses[s], !.at = s])
    BY <1>2 DEF BeginFork
  <2>u. PICK u \in RuleSet : u = uses[s]
    BY <1>0, <2>1 DEF Database
  <2> DEFINE j == [NoWork EXCEPT !.pc = "copy", !.what = "fork", !.set = u, !.at = s]
  <2>2. j \in WorkRecord /\ Placed(j) /\ j.pc = "copy" /\ j.set = u /\ j.at = s
    BY Idle DEF NoWork, WorkRecord, Placed
  <2>a. Arrive(a, j)
    BY <2>1, <2>u
  <2> HIDE DEF j
  <2>3. Withholds(j)'
    BY <2>2 DEF Withholds
  <2>4. Knows(j)'
    BY <1>u, <2>u, <2>2 DEF Knows
  <2> QED BY <1>c, <1>s, <2>a, <2>2, <2>3, <2>4, Arrives
<1>3. CASE BeginTemplateEdit(a)
  <2>1. PICK k \in Kind : EditTemplate(a, k)
    BY <1>3 DEF BeginTemplateEdit, TemplateWhitelist, TemplateBlacklist, TemplateGeo, TemplateAntiCc,
       TemplateAntiHeader, TemplateInterval, TemplateSecond, TemplateResponse, TemplateUserAgent, EditTemplate
  <2>2. PICK c \in DOMAIN ruleSets : \E ed \in RuleEdits(ruleSets[c].rules[k]) :
          Arrive(a, [NoWork EXCEPT !.pc = "write", !.what = "template", !.set = c, !.kind = k, !.edit = ed])
    BY <2>1 DEF EditTemplate
  <2>3. PICK ed \in RuleEdits(ruleSets[c].rules[k]) :
          Arrive(a, [NoWork EXCEPT !.pc = "write", !.what = "template", !.set = c, !.kind = k, !.edit = ed])
    BY <2>2
  <2> DEFINE j == [NoWork EXCEPT !.pc = "write", !.what = "template", !.set = c, !.kind = k, !.edit = ed]
  <2>4. c \in RuleSet /\ ed \in EditRecord
    BY <1>r, EditsAre
  <2>5. j \in WorkRecord /\ Placed(j) /\ j.pc = "write" /\ j.what = "template"
    BY <2>4, Idle DEF NoWork, WorkRecord, Placed
  <2> HIDE DEF j
  <2>6. Withholds(j)' /\ Knows(j)'
    BY <2>5 DEF Withholds, Knows
  <2> QED BY <1>c, <1>s, <2>3, <2>5, <2>6, Arrives DEF j
<1>4. CASE BeginSiteEdit(a)
  <2>1. PICK k \in Kind : EditOfSite(a, k)
    BY <1>4 DEF BeginSiteEdit, SiteWhitelist, SiteBlacklist, SiteGeo, SiteAntiCc, SiteAntiHeader,
       SiteInterval, SiteSecond, SiteResponse, SiteUserAgent, EditOfSite
  <2>2. PICK s \in Site :
          \/ /\ uses[s] # NoSet /\ ruleSets[uses[s]].role = "custom"
             /\ \E ed \in RuleEdits(ruleSets[uses[s]].rules[k]) :
                   Arrive(a, [NoWork EXCEPT !.pc = "write", !.what = "site", !.set = uses[s],
                                          !.kind = k, !.edit = ed, !.at = s])
          \/ /\ uses[s] = NoSet
             /\ \E ed \in RuleEdits({}) :
                   Arrive(a, [NoWork EXCEPT !.pc = "ensure", !.what = "site", !.kind = k,
                                          !.edit = ed, !.at = s])
    BY <2>1 DEF EditOfSite
  <2>3. CASE uses[s] # NoSet
    <3>u. PICK u \in RuleSet : u = uses[s] /\ u \in DOMAIN ruleSets
      BY <1>0, <2>3 DEF Database
    <3>1. PICK ed \in RuleEdits(ruleSets[u].rules[k]) :
             Arrive(a, [NoWork EXCEPT !.pc = "write", !.what = "site", !.set = u,
                                    !.kind = k, !.edit = ed, !.at = s])
      BY <2>2, <2>3, <3>u
    <3> DEFINE j == [NoWork EXCEPT !.pc = "write", !.what = "site", !.set = u, !.kind = k, !.edit = ed, !.at = s]
    <3>2. ed \in EditRecord
      BY <1>r, <3>u, EditsAre
    <3>3. j \in WorkRecord /\ Placed(j) /\ j.pc = "write" /\ j.what = "site" /\ j.set = u /\ j.at = s
      BY <3>2, Idle DEF NoWork, WorkRecord, Placed
    <3>a. Arrive(a, j)
      BY <3>1
    <3> HIDE DEF j
    <3>4. Withholds(j)' /\ Knows(j)'
      BY <1>u, <3>u, <3>3 DEF Withholds, Knows
    <3> QED BY <1>c, <1>s, <3>a, <3>3, <3>4, Arrives
  <2>4. CASE uses[s] = NoSet
    <3>1. PICK ed \in RuleEdits({}) :
             Arrive(a, [NoWork EXCEPT !.pc = "ensure", !.what = "site", !.kind = k, !.edit = ed, !.at = s])
      BY <2>2, <2>4
    <3> DEFINE j == [NoWork EXCEPT !.pc = "ensure", !.what = "site", !.kind = k, !.edit = ed, !.at = s]
    <3>2. ed \in EditRecord
      BY EditsAre
    <3>3. j \in WorkRecord /\ Placed(j) /\ j.pc = "ensure" /\ j.at = s
      BY <3>2, Idle DEF NoWork, WorkRecord, Placed
    <3>a. Arrive(a, j)
      BY <3>1
    <3> HIDE DEF j
    <3>4. Withholds(j)' /\ Knows(j)'
      BY <1>u, <2>4, <3>3 DEF Withholds, Knows
    <3> QED BY <1>c, <1>s, <3>a, <3>3, <3>4, Arrives
  <2> QED BY <2>3, <2>4
<1>5. CASE BeginRead(a)
  <2>1. PICK s \in Site : /\ uses[s] = NoSet
                          /\ Arrive(a, [NoWork EXCEPT !.pc = "ensure", !.what = "read", !.at = s])
    BY <1>5 DEF BeginRead
  <2> DEFINE j == [NoWork EXCEPT !.pc = "ensure", !.what = "read", !.at = s]
  <2>2. j \in WorkRecord /\ Placed(j) /\ j.pc = "ensure" /\ j.at = s
    BY Idle DEF NoWork, WorkRecord, Placed
  <2>a. Arrive(a, j)
    BY <2>1
  <2> HIDE DEF j
  <2>3. Withholds(j)' /\ Knows(j)'
    BY <1>u, <2>1, <2>2 DEF Withholds, Knows
  <2> QED BY <1>c, <1>s, <2>a, <2>2, <2>3, Arrives
<1> QED BY <1>1, <1>2, <1>3, <1>4, <1>5

\* Saving a site or its origin routes takes back what was said of them.
LEMMA SavesKeep ==
    ASSUME TypeInv, RuleInv, NEW a \in Worker, SaveSite(a) \/ BeginRoutes(a)
    PROVE  RuleInv'
<1>0. Database /\ Requests
  BY DEF TypeInv
<1>1. CASE SaveSite(a)
  <2>1. PICK s \in Site, c \in DOMAIN ruleSets \cup {NoSet}, E \in SUBSET Server :
          /\ Arrive(a, [NoWork EXCEPT !.pc = "edges", !.what = "save", !.at = s, !.todo = E])
          /\ uses' = [uses EXCEPT ![s] = c]
          /\ assigned' = [assigned EXCEPT ![s] = E]
          /\ claimed' = claimed \ PartsOf({s}, Part)
    BY <1>1 DEF SaveSite
  <2> DEFINE j == [NoWork EXCEPT !.pc = "edges", !.what = "save", !.at = s, !.todo = E]
  <2>2. j \in WorkRecord /\ Placed(j) /\ j.pc = "edges" /\ j.what = "save" /\ j.at = s /\ j.ok = {}
    BY Idle DEF NoWork, WorkRecord, Placed
  <2> HIDE DEF j
  <2>3. Bare(s)'
    BY <2>1, KindsAreParts DEF Bare, PartsOf
  <2>4. \A t \in Site \ {s} : uses'[t] = uses[t] /\ assigned'[t] = assigned[t]
    BY <1>0, <2>1 DEF Database
  <2>5. Calm
    BY <2>1, <2>3, <2>4 DEF Calm
  <2>6. AnsweredMeansServed'
    <3>1. ASSUME NEW t \in Site, NEW k \in Kind, <<t, k>> \in claimed'
          PROVE  t # s /\ Stored(t, k)' = Stored(t, k)
      <4>1. t # s
        BY <2>3, <3>1 DEF Bare
      <4> QED BY <1>1, <2>4, <4>1, StoredSame DEF SaveSite
    <3> QED BY <1>1, <2>1, <2>4, <3>1, StillServed DEF RuleInv, SaveSite
  <2>7. Withholds(j)' /\ Knows(j)'
    BY <2>2, <2>3 DEF Withholds, Knows, PostsRules
  <2> QED BY <2>1, <2>2, <2>5, <2>6, <2>7, Arrives DEF j
<1>2. CASE BeginRoutes(a)
  <2>1. PICK s \in Site, v \in Version \cup {NoRoutes} :
          /\ Arrive(a, [NoWork EXCEPT !.pc = "load", !.what = "routes", !.sites = {s}])
          /\ claimed' = claimed \ PartsOf({s}, {Routes})
    BY <1>2 DEF BeginRoutes
  <2> DEFINE j == [NoWork EXCEPT !.pc = "load", !.what = "routes", !.sites = {s}]
  <2>2. j \in WorkRecord /\ Placed(j) /\ j.pc = "load" /\ j.what = "routes"
    BY Idle DEF NoWork, WorkRecord, Placed
  <2> HIDE DEF j
  <2>3. Calm
    BY <1>2, <2>1 DEF Calm, BeginRoutes
  <2>4. AnsweredMeansServed'
    <3>1. \A t \in Site, k \in Kind : Stored(t, k)' = Stored(t, k)
      BY <1>2, StoredSame DEF BeginRoutes
    <3> QED BY <1>2, <2>1, <3>1, StillServed DEF RuleInv, BeginRoutes
  <2>5. Withholds(j)' /\ Knows(j)'
    BY <2>2 DEF Withholds, Knows, PostsRules
  <2> QED BY <2>1, <2>2, <2>3, <2>4, <2>5, Arrives DEF j
<1> QED BY <1>1, <1>2

\* A request that ends without a word.
LEMMA RequestEnds ==
    ASSUME TypeInv, RuleInv, NEW a \in Worker, ~Free(a), Work(a, NoWork), AnsweredMeansServed',
           Calm \/ work[a].alone
    PROVE  RuleInv'
<1>1. NoWork.pc = "idle" /\ NoWork \in WorkRecord /\ Placed(NoWork) /\ ~NoWork.alone
  BY Idle
<1>2. Withholds(NoWork)' 
  BY <1>1 DEF Withholds
<1> QED BY <1>1, <1>2, Proceeds

\* An answer that is an error takes nothing back and claims nothing.
LEMMA EndsBadly ==
    ASSUME TypeInv, RuleInv, NEW a \in Worker, ~Free(a), AnswerBadly(a),
           UNCHANGED <<ruleSets, uses, assigned, conf>>
    PROVE  RuleInv'
<1>1. \A s \in Site, k \in Kind : Stored(s, k)' = Stored(s, k)
  BY StoredSame
<1>2. AnsweredMeansServed'
  BY <1>1, StillServed DEF RuleInv, AnswerBadly
<1> QED BY <1>2, RequestEnds DEF AnswerBadly, Calm

\* Deleting a rule set: of the sites that lose it, nothing was said any more.
LEMMA DeleteKeeps ==
    ASSUME TypeInv, RuleInv, NEW a \in Worker, DeleteSet(a)
    PROVE  RuleInv'
<1> DEFINE c == work[a].set
<1>0. Database /\ Withholds(work[a]) /\ work[a].pc = "delete"
  BY DEF TypeInv, RuleInv, DeleteSet
<1>1. /\ ruleSets' = [d \in DOMAIN ruleSets \ {c} |-> ruleSets[d]]
      /\ uses' = [s \in Site |-> IF uses[s] = c THEN NoSet ELSE uses[s]]
      /\ claimed' = claimed /\ Work(a, NoWork) /\ UNCHANGED <<assigned, conf>>
  BY DEF DeleteSet, Released, AnswerWell
<1>2. \A s \in Site : uses[s] = c => Bare(s) /\ Bare(s)'
  BY <1>0, <1>1 DEF Withholds, Bare
<1>3. Calm
  BY <1>1, <1>2 DEF Calm
<1>4. ASSUME NEW s \in Site, NEW k \in Kind, <<s, k>> \in claimed
      PROVE  Stored(s, k)' = Stored(s, k)
  <2>1. uses[s] # c
    BY <1>2, <1>4 DEF Bare
  <2>2. uses'[s] = uses[s]
    BY <1>1, <2>1
  <2>3. uses[s] # NoSet => uses[s] \in DOMAIN ruleSets \ {c}
    BY <1>0, <2>1 DEF Database
  <2>4. uses[s] # NoSet => ruleSets'[uses[s]] = ruleSets[uses[s]]
    BY <1>1, <2>3
  <2> QED BY <2>2, <2>4, StoredSame
<1>5. AnsweredMeansServed'
  BY <1>1, <1>4, StillServed DEF RuleInv
<1> QED BY <1>0, <1>1, <1>3, <1>5, RequestEnds DEF Free

\* Adding a rule set changes nothing a site has.
LEMMA AddedKeeps ==
    ASSUME TypeInv, RuleInv, NEW c \in RuleSet, NEW set \in RuleSetRecord, AddSet(c, set),
           c \notin DOMAIN ruleSets, UNCHANGED <<uses, assigned, routes, conf, claimed>>
    PROVE  /\ AnsweredMeansServed' /\ Calm /\ c \in DOMAIN ruleSets' /\ ruleSets'[c] = set
           /\ \A s \in Site, k \in Kind : Stored(s, k)' = Stored(s, k)
<1>0. Database
  BY DEF TypeInv
<1>1. /\ DOMAIN ruleSets' = DOMAIN ruleSets \cup {c} /\ ruleSets'[c] = set
      /\ \A d \in DOMAIN ruleSets : ruleSets'[d] = ruleSets[d]
  BY <1>0, AddSetType
<1>2. ASSUME NEW s \in Site, NEW k \in Kind PROVE Stored(s, k)' = Stored(s, k)
  <2>1. uses[s] # NoSet => uses[s] \in DOMAIN ruleSets
    BY <1>0 DEF Database
  <2> QED BY <1>1, <2>1, StoredSame
<1>3. AnsweredMeansServed'
  BY <1>2, StillServed DEF RuleInv
<1> QED BY <1>1, <1>2, <1>3 DEF Calm

\* The copy a fork makes has the rules of its site, and so has the empty set made for a site
\* without one.
LEMMA CopyKeeps ==
    ASSUME TypeInv, RuleInv, NEW a \in Worker, Copy(a) \/ Ensure(a)
    PROVE  RuleInv'
<1>0. Database /\ Requests
  BY DEF TypeInv
<1>j. work[a] \in WorkRecord /\ Placed(work[a]) /\ (work[a].alone => Knows(work[a])) /\ ~Free(a)
  BY <1>0 DEF Requests, RuleInv, Copy, Ensure, Free
<1>1. CASE Copy(a) /\ ~(work[a].set \in DOMAIN ruleSets /\ ruleSets[work[a].set].role = "predefined")
  <2>1. AnswerBadly(a) /\ UNCHANGED <<ruleSets, uses, assigned, conf>>
    BY <1>1 DEF Copy
  <2> QED BY <1>j, <2>1, EndsBadly
<1>2. ASSUME NEW c \in RuleSet, NEW rules \in [Kind -> SUBSET Rule],
             work[a].pc \in {"copy", "ensure"},
             Fresh(c), AddSet(c, NewSet("custom", rules)), Work(a, [work[a] EXCEPT !.pc = "attach", !.set = c]),
             UNCHANGED <<uses, assigned, routes, conf, claimed>>,
             work[a].alone => \A k \in Kind : rules[k] = Stored(work[a].at, k)
      PROVE  RuleInv'
  <2>1. NewSet("custom", rules) \in RuleSetRecord /\ NewSet("custom", rules).rules = rules
    BY SetsAre
  <2>2. c \notin DOMAIN ruleSets
    BY <1>2 DEF Fresh
  <2>3. /\ AnsweredMeansServed' /\ Calm /\ c \in DOMAIN ruleSets' /\ ruleSets'[c] = NewSet("custom", rules)
        /\ \A s \in Site, k \in Kind : Stored(s, k)' = Stored(s, k)
    BY <1>2, <2>1, <2>2, AddedKeeps
  <2>4. PICK i : i = [work[a] EXCEPT !.pc = "attach", !.set = c]
    OBVIOUS
  <2>5. /\ i \in WorkRecord /\ Placed(i) /\ i.pc = "attach" /\ i.set = c /\ i.at = work[a].at
        /\ i.alone = work[a].alone /\ i.at \in Site
    BY <1>j, <1>2, <2>4 DEF WorkRecord, Placed
  <2>6. Withholds(i)'
    BY <2>5 DEF Withholds
  <2>7. ASSUME i.alone PROVE Knows(i)'
    <3>1. \A k \in Kind : ruleSets'[c].rules[k] = Stored(i.at, k)'
      BY <1>2, <2>1, <2>3, <2>5, <2>7
    <3> QED BY <2>3, <2>5, <3>1 DEF Knows
  <2> QED BY <1>j, <1>2, <2>3, <2>4, <2>5, <2>6, <2>7, Proceeds
<1>3. CASE Copy(a) /\ work[a].set \in DOMAIN ruleSets /\ ruleSets[work[a].set].role = "predefined"
  <2>1. PICK c \in RuleSet :
             /\ Fresh(c)
             /\ AddSet(c, NewSet("custom", Copied(ruleSets[work[a].set].rules)))
             /\ Work(a, [work[a] EXCEPT !.pc = "attach", !.set = c])
             /\ UNCHANGED <<uses, assigned, routes, conf, claimed>>
    BY <1>3 DEF Copy
  <2>2. PICK rules \in [Kind -> SUBSET Rule] : rules = ruleSets[work[a].set].rules
    BY <1>0, <1>3 DEF Database, RuleSetRecord
  <2>3. work[a].pc = "copy"
    BY <1>3 DEF Copy
  <2>4. work[a].alone => \A k \in Kind : rules[k] = Stored(work[a].at, k)
    <3>1. ASSUME work[a].alone PROVE uses[work[a].at] = work[a].set /\ work[a].set # NoSet
      BY <1>0, <1>3, <1>j, <2>3, <3>1, WafNullAssumption DEF Knows, Database
    <3> QED BY <2>2, <3>1, KindsAreParts DEF Stored
  <2> QED BY <1>2, <2>1, <2>2, <2>3, <2>4 DEF Copied
<1>4. CASE Ensure(a)
  <2>1. PICK c \in RuleSet :
           /\ Fresh(c)
           /\ AddSet(c, NewSet("custom", NoRules))
           /\ Work(a, [work[a] EXCEPT !.pc = "attach", !.set = c])
    BY <1>4 DEF Ensure
  <2>2. work[a].pc = "ensure" /\ UNCHANGED <<uses, assigned, routes, conf, claimed>>
    BY <1>4 DEF Ensure
  <2>3. NoRules \in [Kind -> SUBSET Rule] /\ \A k \in Kind : NoRules[k] = {}
    BY DEF NoRules
  <2>4. work[a].alone => \A k \in Kind : NoRules[k] = Stored(work[a].at, k)
    BY <1>j, <2>2, <2>3, KindsAreParts DEF Knows, Stored
  <2> QED BY <1>2, <2>1, <2>2, <2>3, <2>4
<1> QED BY <1>1, <1>3, <1>4

\* A site gets its own rule set: alone, one with the rules it has; else nothing is said of it
\* any more.
LEMMA AttachKeeps ==
    ASSUME TypeInv, RuleInv, NEW a \in Worker, Attach(a)
    PROVE  RuleInv'
<1>0. Database /\ Requests
  BY DEF TypeInv
<1>s. PICK s \in Site : s = work[a].at
  BY <1>0 DEF Requests, Attach, Placed
<1>j. /\ work[a] \in WorkRecord /\ Placed(work[a]) /\ (work[a].alone => Knows(work[a]))
      /\ work[a].pc = "attach" /\ ~Free(a)
  BY <1>0 DEF Requests, RuleInv, Attach, Free, Placed
<1>1. CASE work[a].set \notin DOMAIN ruleSets
  <2>1. AnswerBadly(a) /\ UNCHANGED <<ruleSets, uses, assigned, conf>>
    BY <1>1 DEF Attach
  <2> QED BY <1>j, <2>1, EndsBadly
<1>2. CASE work[a].set \in DOMAIN ruleSets
  <2>1. /\ uses' = [uses EXCEPT ![s] = work[a].set]
        /\ claimed' = IF work[a].alone THEN claimed ELSE claimed \ PartsOf({s}, Part)
        /\ Work(a, IF work[a].what = "site" THEN [work[a] EXCEPT !.pc = "write"] ELSE NoWork)
        /\ UNCHANGED <<ruleSets, assigned, conf>>
    BY <1>2, <1>s DEF Attach
  <2>2. /\ uses'[s] = work[a].set
        /\ \A t \in Site \ {s} : uses'[t] = uses[t]
    BY <1>0, <1>j, <2>1 DEF Database
  <2>3. ~work[a].alone => Bare(s)'
    BY <2>1, KindsAreParts DEF Bare, PartsOf
  <2>4. Calm \/ work[a].alone
    BY <2>1, <2>2, <2>3 DEF Calm
  <2>5. ASSUME NEW t \in Site, NEW k \in Kind, <<t, k>> \in claimed'
        PROVE  Stored(t, k)' = Stored(t, k)
    <3>1. CASE t # s
      BY <2>1, <2>2, <3>1, StoredSame
    <3>2. CASE t = s
      <4>1. work[a].alone
        BY <2>3, <2>5, <3>2 DEF Bare
      <4>2. ruleSets[work[a].set].rules[k] = Stored(s, k)
        BY <1>j, <1>s, <4>1 DEF Knows
      <4>3. work[a].set # NoSet
        BY <1>0, <1>2, WafNullAssumption DEF Database
      <4>4. Stored(s, k)' = ruleSets[work[a].set].rules[k]
        BY <2>1, <2>2, <4>3, KindsAreParts DEF Stored
      <4> QED BY <3>2, <4>2, <4>4
    <3> QED BY <3>1, <3>2
  <2>6. AnsweredMeansServed'
    BY <2>1, <2>5, StillServed DEF RuleInv
  <2>7. CASE work[a].what # "site"
    BY <1>j, <2>1, <2>4, <2>6, <2>7, RequestEnds
  <2>8. CASE work[a].what = "site"
    <3>1. PICK i : i = [work[a] EXCEPT !.pc = "write"]
      OBVIOUS
    <3>2. /\ i \in WorkRecord /\ Placed(i) /\ i.pc = "write" /\ i.what = "site" /\ i.at = s
          /\ i.set = work[a].set /\ i.alone = work[a].alone
      BY <1>j, <1>s, <2>8, <3>1 DEF WorkRecord, Placed
    <3>3. Withholds(i)' /\ Knows(i)'
      BY <2>2, <3>2 DEF Withholds, Knows
    <3> QED BY <1>j, <2>1, <2>4, <2>6, <2>8, <3>1, <3>2, <3>3, Proceeds
  <2> QED BY <2>7, <2>8
<1> QED BY <1>1, <1>2

\* Rules are written: of that table nothing is said any more, at any site of the set.
LEMMA WriteKeeps ==
    ASSUME TypeInv, RuleInv, NEW a \in Worker, Write(a)
    PROVE  RuleInv'
<1>0. Database /\ Requests
  BY DEF TypeInv
<1>j. PICK j \in WorkRecord : j = work[a]
  BY <1>0 DEF Requests
<1>k. /\ Placed(j) /\ Withholds(j) /\ j.pc = "write" /\ ~Free(a) /\ j.kind \in Kind
  BY <1>0, <1>j DEF Requests, RuleInv, Write, Free, WorkRecord
<1>1. CASE NotFound(j.set, j.kind, j.edit)
  <2>1. AnswerBadly(a) /\ UNCHANGED <<ruleSets, uses, assigned, conf>>
    BY <1>1, <1>j DEF Write
  <2> QED BY <1>k, <2>1, EndsBadly
<1>2. CASE ~NotFound(j.set, j.kind, j.edit)
  <2>1. /\ ruleSets' = IF j.set \notin DOMAIN ruleSets THEN ruleSets
                       ELSE [ruleSets EXCEPT ![j.set].rules[j.kind] = Rows(j.kind, @, j.edit)]
        /\ claimed' = claimed \ PartsOf(SitesOf(j.set), {j.kind})
        /\ Work(a, AfterWrite(j))
        /\ UNCHANGED <<uses, assigned, conf>>
    BY <1>2, <1>j DEF Write
  <2>2. \A s \in Site : uses[s] = j.set => <<s, j.kind>> \notin claimed'
    BY <2>1 DEF PartsOf, SitesOf
  <2>3. Calm
    BY <2>1 DEF Calm
  <2>4. ASSUME NEW s \in Site, NEW k \in Kind, <<s, k>> \in claimed'
        PROVE  Stored(s, k)' = Stored(s, k)
    <3>1. uses[s] # j.set \/ k # j.kind
      BY <2>2, <2>4
    <3>2. uses[s] # NoSet => uses[s] \in DOMAIN ruleSets /\ ruleSets[uses[s]] \in RuleSetRecord
      BY <1>0 DEF Database
    <3>3. uses[s] # NoSet => ruleSets'[uses[s]].rules[k] = ruleSets[uses[s]].rules[k]
      BY <1>0, <2>1, <3>1, <3>2 DEF Database, RuleSetRecord
    <3> QED BY <2>1, <3>3, StoredSame
  <2>5. AnsweredMeansServed'
    BY <2>1, <2>4, StillServed DEF RuleInv
  <2>6. PICK i : i = AfterWrite(j)
    OBVIOUS
  <2>7. CASE j.what = "template"
    <3>1. i = [j EXCEPT !.pc = "sites"]
      BY <2>6, <2>7 DEF AfterWrite
    <3>2. /\ i \in WorkRecord /\ Placed(i) /\ i.pc = "sites" /\ i.set = j.set /\ i.kind = j.kind
          /\ i.alone = j.alone
      BY <1>k, <2>7, <3>1 DEF WorkRecord, Placed
    <3>3. Withholds(i)' /\ Knows(i)'
      BY <2>1, <2>2, <3>2 DEF Withholds, Knows, SitesOf
    <3> QED BY <1>j, <1>k, <2>1, <2>3, <2>5, <2>6, <3>2, <3>3, Proceeds
  <2>8. CASE j.what = "site" /\ j.kind = AntiCc
    <3>1. i = [j EXCEPT !.pc = "answer", !.ok = {j.at}]
      BY <2>6, <2>8 DEF AfterWrite
    <3>2. /\ i \in WorkRecord /\ Placed(i) /\ i.pc = "answer" /\ i.what = "site" /\ i.kind = AntiCc
          /\ i.alone = j.alone
      BY <1>k, <2>8, <3>1 DEF WorkRecord, Placed
    <3>3. Withholds(i)' /\ Knows(i)'
      BY <3>2 DEF Withholds, Knows
    <3> QED BY <1>j, <1>k, <2>1, <2>3, <2>5, <2>6, <3>2, <3>3, Proceeds
  <2>9. CASE j.what = "site" /\ j.kind # AntiCc
    <3>1. i = [j EXCEPT !.pc = "load", !.sites = {j.at}]
      BY <2>6, <2>9 DEF AfterWrite
    <3>2. /\ i \in WorkRecord /\ Placed(i) /\ i.pc = "load" /\ i.what = "site" /\ i.kind = j.kind
          /\ i.sites = {j.at} /\ i.ok = {} /\ i.alone = j.alone /\ j.at \in Site
      BY <1>k, <2>9, <3>1 DEF WorkRecord, Placed
    <3>3. <<j.at, j.kind>> \notin claimed'
      BY <1>k, <2>1, <2>2, <2>9, <3>2 DEF Withholds, Bare
    <3>4. Withholds(i)' /\ Knows(i)'
      BY <3>2, <3>3 DEF Withholds, Knows
    <3> QED BY <1>j, <1>k, <2>1, <2>3, <2>5, <2>6, <3>2, <3>4, Proceeds
  <2> QED BY <1>k, <2>7, <2>8, <2>9 DEF Placed
<1> QED BY <1>1, <1>2

\* A request that reads what it will post.
LEMMA LoadKeeps ==
    ASSUME TypeInv, RuleInv, NEW a \in Worker, ListSites(a) \/ Load(a)
    PROVE  RuleInv'
<1>0. Database /\ Requests
  BY DEF TypeInv
<1>j. PICK j \in WorkRecord : j = work[a]
  BY <1>0 DEF Requests
<1>k. /\ Placed(j) /\ Withholds(j) /\ (j.alone => Knows(j)) /\ ~Free(a) /\ j.kind \in Kind
      /\ UNCHANGED <<ruleSets, uses, assigned, routes, conf, claimed>>
  BY <1>0, <1>j DEF Requests, RuleInv, ListSites, Load, Free, WorkRecord
<1>c. Calm
  BY <1>k DEF Calm
<1>t. \A s \in Site, k \in Part : Stored(s, k)' = Stored(s, k)
  BY <1>k DEF Stored
<1>s. AnsweredMeansServed'
  BY <1>k, <1>t, KindsAreParts, StillServed DEF RuleInv
<1>1. CASE ListSites(a)
  <2>1. PICK S \in SUBSET Site : S = SitesOf(j.set)
    BY DEF SitesOf
  <2>2. PICK i : i = [j EXCEPT !.pc = IF S = {} THEN "answer" ELSE "load", !.sites = S, !.ok = {}]
    OBVIOUS
  <2>3. j.pc = "sites" /\ Work(a, i)
    BY <1>1, <1>j, <2>1, <2>2 DEF ListSites, Sites
  <2>4. /\ i \in WorkRecord /\ Placed(i) /\ i.pc \in {"answer", "load"} /\ i.what = "template"
        /\ i.sites = S /\ i.ok = {} /\ i.alone = j.alone /\ i.kind = j.kind
    BY <1>k, <2>1, <2>2, <2>3 DEF WorkRecord, Placed
  <2>5. Withholds(i)'
    BY <1>k, <2>1, <2>3, <2>4 DEF Withholds
  <2>6. Knows(i)'
    BY <2>4 DEF Knows
  <2> QED BY <1>c, <1>j, <1>k, <1>s, <2>3, <2>4, <2>5, <2>6, Proceeds
<1>2. CASE Load(a)
  <2>1. PICK s \in j.sites :
             IF uses[s] = NoSet /\ j.what \in {"template", "site"} /\ j.kind # AntiCc
             THEN Work(a, [j EXCEPT !.sites = @ \ {s}, !.missed = TRUE,
                                   !.pc = IF j.sites = {s} THEN "answer" ELSE "load"])
             ELSE Work(a, [j EXCEPT !.pc = "edges", !.at = s, !.todo = assigned[s],
                                   !.sites = @ \ {s},
                                   !.body = IF j.what = "routes" THEN routes[s] ELSE Stored(s, j.kind)])
    BY <1>2, <1>j DEF Load
  <2>2. j.pc = "load" /\ s \in Site /\ j.what \in {"template", "site", "routes"}
    BY <1>2, <1>j, <1>k DEF Load, WorkRecord, Placed
  <2>3. CASE uses[s] = NoSet /\ j.what \in {"template", "site"} /\ j.kind # AntiCc
    <3>1. PICK i : i = [j EXCEPT !.sites = @ \ {s}, !.missed = TRUE,
                                 !.pc = IF j.sites = {s} THEN "answer" ELSE "load"]
      OBVIOUS
    <3>2. /\ i \in WorkRecord /\ Placed(i) /\ i.pc \in {"answer", "load"} /\ i.what = j.what
          /\ i.sites \subseteq j.sites /\ i.missed /\ i.kind = j.kind /\ i.alone = j.alone
      BY <1>k, <2>2, <2>3, <3>1, ZenonT(60) DEF WorkRecord, Placed
    <3>3. Withholds(i)'
      BY <1>k, <2>2, <3>2 DEF Withholds, PostsRules
    <3>4. Knows(i)'
      BY <2>2, <3>2 DEF Knows
    <3> QED BY <1>c, <1>j, <1>k, <1>s, <2>1, <2>3, <3>1, <3>2, <3>3, <3>4, Proceeds
  <2>4. CASE ~(uses[s] = NoSet /\ j.what \in {"template", "site"} /\ j.kind # AntiCc)
    <3>1. PICK x : x = IF j.what = "routes" THEN routes[s] ELSE Stored(s, j.kind)
      OBVIOUS
    <3>2. PICK E \in SUBSET Server : E = assigned[s]
      BY <1>0, <2>2 DEF Database
    <3>3. x \in Value /\ (j.what # "routes" => x \in SUBSET Rule)
      BY <1>0, <1>k, <2>2, <3>1, StoredType DEF Database, Value
    <3>4. PICK i : i = [j EXCEPT !.pc = "edges", !.at = s, !.todo = E, !.sites = @ \ {s}, !.body = x]
      OBVIOUS
    <3>5. /\ i \in WorkRecord /\ i.pc = "edges" /\ i.what = j.what /\ i.at = s /\ i.todo = E /\ i.ok = j.ok
          /\ i.sites \subseteq j.sites /\ i.kind = j.kind /\ i.alone = j.alone /\ i.missed = j.missed
          /\ i.body = x
      BY <1>k, <2>2, <3>3, <3>4 DEF WorkRecord
    <3>6. Placed(i)
      BY <1>k, <2>2, <3>3, <3>5 DEF Placed
    <3>7. Withholds(i)'
      BY <1>k, <2>1, <2>2, <3>5 DEF Withholds, PostsRules
    <3>8. ASSUME i.alone, PostsRules(i), i.kind # AntiCc, ~i.missed
          PROVE  \A t \in i.ok : InStep(t, i.kind)'
      <4> SUFFICES ASSUME NEW t \in j.ok PROVE InStep(t, j.kind)'
        BY <3>5
      <4>1. t \in Site /\ InStep(t, j.kind)
        BY <1>k, <2>2, <3>5, <3>8 DEF Placed, PostsRules, Knows
      <4>2. assigned[t] \subseteq Server
        BY <1>0, <4>1 DEF Database
      <4> QED BY <1>k, <1>t, <4>1, <4>2, KindsAreParts, InStepSame
    <3>9. ASSUME i.alone, PostsRules(i)
          PROVE  i.body = Stored(i.at, i.kind)' /\ assigned'[i.at] \ i.todo = {}
      BY <1>k, <1>t, <2>2, <3>1, <3>2, <3>5, <3>9, KindsAreParts DEF PostsRules
    <3>10. ASSUME i.alone PROVE Knows(i)'
      BY <2>2, <3>5, <3>8, <3>9, <3>10 DEF Knows, PostsRules
    <3> QED BY <1>c, <1>j, <1>k, <1>s, <2>1, <2>4, <3>1, <3>2, <3>4, <3>5, <3>6, <3>7, <3>10, Proceeds
  <2> QED BY <2>3, <2>4
<1> QED BY <1>1, <1>2

\* An edge takes a post.
Posts(j, e) == conf' = [conf EXCEPT ![<<e, j.at>>] = Taken(j, @)]

\* A post leaves every table of every site as it was, or with what the database holds, but the
\* one the request withholds.
LEMMA PostedTables ==
    ASSUME Database, conf \in [Server \X Site -> [Part -> Value]], NEW j \in WorkRecord, Placed(j), j.pc = "edges",
           NEW e \in Server, Posts(j, e)
    PROVE  \A f \in Server, s \in Site, k \in Kind :
              \/ conf'[<<f, s>>][k] = conf[<<f, s>>][k]
              \/ f = e /\ s = j.at /\ conf'[<<f, s>>][k] = Stored(s, k)
              \/ /\ f = e /\ s = j.at /\ k = j.kind /\ PostsRules(j) /\ k # AntiCc
                 /\ conf'[<<f, s>>][k] = Pushed(k, j.body)
<1> SUFFICES ASSUME NEW f \in Server, NEW s \in Site, NEW k \in Kind
             PROVE  \/ conf'[<<f, s>>][k] = conf[<<f, s>>][k]
                    \/ f = e /\ s = j.at /\ conf'[<<f, s>>][k] = Stored(s, k)
                    \/ /\ f = e /\ s = j.at /\ k = j.kind /\ PostsRules(j) /\ k # AntiCc
                       /\ conf'[<<f, s>>][k] = Pushed(k, j.body)
  OBVIOUS
<1>0. j.at \in Site /\ j.what \in {"template", "site", "routes", "save"} /\ j.kind \in Kind
  BY DEF Placed, WorkRecord
<1>1. CASE <<f, s>> # <<e, j.at>>
  BY <1>0, <1>1 DEF Posts
<1>2. CASE f = e /\ s = j.at
  <2>1. PICK was \in [Part -> Value] : was = conf[<<e, j.at>>]
    BY <1>0
  <2>2. conf'[<<f, s>>] = Taken(j, was)
    BY <1>0, <1>2, <2>1 DEF Posts
  <2>3. WholeSite(s)[k] = Stored(s, k) /\ WholeSiteOfTemplate(s)[k] = Stored(s, k)
    BY WholeSiteType
  <2>4. CASE j.what = "save"
    BY <1>2, <2>2, <2>3, <2>4 DEF Taken
  <2>5. CASE j.what = "routes"
    <3>1. [was EXCEPT ![Routes] = j.body][k] = was[k]
      BY KindsAreParts
    <3> QED BY <1>2, <2>1, <2>2, <2>5, <3>1 DEF Taken
  <2>6. CASE j.what = "template" /\ j.kind = AntiCc
    BY <1>2, <2>2, <2>3, <2>6 DEF Taken
  <2>7. CASE j.what \in {"template", "site"} /\ j.kind # AntiCc
    <3>1. Taken(j, was) = [was EXCEPT ![j.kind] = Pushed(j.kind, j.body)]
      BY <2>7 DEF Taken
    <3>2. k \in DOMAIN was
      BY KindsAreParts
    <3> QED BY <1>2, <2>1, <2>2, <2>7, <3>1, <3>2 DEF PostsRules
  <2> QED BY <1>0, <2>4, <2>5, <2>6, <2>7 DEF Placed
<1> QED BY <1>1, <1>2

\* A post that an edge takes, or does not.
LEMMA PostKeeps ==
    ASSUME TypeInv, RuleInv, NEW a \in Worker, PostRules(a)
    PROVE  RuleInv'
<1>0. Database /\ Requests /\ conf \in [Server \X Site -> [Part -> Value]]
  BY DEF TypeInv
<1>j. PICK j \in WorkRecord : j = work[a]
  BY <1>0 DEF Requests
<1>k. /\ Placed(j) /\ Withholds(j) /\ (j.alone => Knows(j)) /\ ~Free(a) /\ j.kind \in Kind
      /\ j.pc = "edges" /\ j.at \in Site /\ j.todo \subseteq Server
      /\ UNCHANGED <<ruleSets, uses, assigned, routes, claimed>>
  BY <1>0, <1>j DEF Requests, RuleInv, PostRules, Free, WorkRecord, Placed
<1>c. Calm
  BY <1>k DEF Calm
<1>t. \A s \in Site, k \in Part : Stored(s, k)' = Stored(s, k)
  BY <1>k DEF Stored
<1>1. PICK e \in j.todo :
           \/ /\ conf' = [conf EXCEPT ![<<e, j.at>>] = Taken(j, @)]
              /\ Work(a, [j EXCEPT !.todo = @ \ {e}, !.ok = IF j.what = "save" THEN @ \cup {e} ELSE @])
              /\ Within
           \/ /\ Work(a, [j EXCEPT !.todo = @ \ {e}, !.missed = Missed(j)])
              /\ UNCHANGED conf /\ Lost
  BY <1>j DEF PostRules
<1>e. e \in Server
  BY <1>k
<1>2. CASE /\ conf' = [conf EXCEPT ![<<e, j.at>>] = Taken(j, @)]
           /\ Work(a, [j EXCEPT !.todo = @ \ {e}, !.ok = IF j.what = "save" THEN @ \cup {e} ELSE @])
           /\ Within
  <2>1. \A f \in Server, s \in Site, k \in Kind :
           \/ conf'[<<f, s>>][k] = conf[<<f, s>>][k]
           \/ f = e /\ s = j.at /\ conf'[<<f, s>>][k] = Stored(s, k)
           \/ /\ f = e /\ s = j.at /\ k = j.kind /\ PostsRules(j) /\ k # AntiCc
              /\ conf'[<<f, s>>][k] = Pushed(k, j.body)
    <3>1. Posts(j, e)
      BY <1>2 DEF Posts
    <3>2. Placed(j) /\ j.pc = "edges"
      BY <1>k
    <3> QED BY <1>0, <1>e, <1>j, <3>1, <3>2, PostedTables, ZenonT(60)
  <2>p. PostsRules(j) /\ j.kind # AntiCc => Enforced(j.kind, Pushed(j.kind, j.body)) = Enforced(j.kind, j.body)
    <3>1. PostsRules(j) => j.body \in SUBSET Rule
      BY <1>k DEF Placed, PostsRules
    <3> QED BY <1>k, <3>1, PushedRules
  <2>f. ASSUME NEW f \in Server, NEW s \in Site, NEW k \in Kind, Follows(f, s, k),
               \/ <<s, k>> # <<j.at, j.kind>>
               \/ ~PostsRules(j)
               \/ j.body = Stored(s, k)
        PROVE  Follows(f, s, k)'
    <3>1. Stored(s, k)' = Stored(s, k)
      BY <1>t, KindsAreParts
    <3>2. Enforced(k, conf'[<<f, s>>][k]) = Enforced(k, conf[<<f, s>>][k])
          \/ Enforced(k, conf'[<<f, s>>][k]) = Enforced(k, Stored(s, k))
      BY <2>1, <2>f, <2>p
    <3>3. Enforced(k, conf'[<<f, s>>][k]) = Enforced(k, Stored(s, k)')
      BY <2>f, <3>1, <3>2 DEF Follows
    <3> QED BY <3>3 DEF Follows, Enforced
  <2>2. AnsweredMeansServed'
    <3> SUFFICES ASSUME NEW s \in Site, NEW k \in Kind \ {AntiCc}, <<s, k>> \in claimed'
                 PROVE  InStep(s, k)'
      BY DEF AnsweredMeansServed
    <3>1. InStep(s, k) /\ assigned[s] \subseteq Server
      BY <1>0, <1>k DEF RuleInv, AnsweredMeansServed, Database
    <3>2. <<s, k>> # <<j.at, j.kind>> \/ ~PostsRules(j)
      BY <1>k DEF Withholds
    <3>3. \A f \in assigned[s] : Follows(f, s, k)'
      BY <2>f, <3>1, <3>2 DEF InStep, Follows
    <3> QED BY <1>k, <3>3 DEF InStep, Follows
  <2>3. PICK i : i = [j EXCEPT !.todo = @ \ {e}, !.ok = IF j.what = "save" THEN @ \cup {e} ELSE @]
    OBVIOUS
  <2>4. /\ i \in WorkRecord /\ i.pc = "edges" /\ i.what = j.what /\ i.at = j.at /\ i.todo = j.todo \ {e}
        /\ i.ok = (IF j.what = "save" THEN j.ok \cup {e} ELSE j.ok)
        /\ i.sites = j.sites /\ i.kind = j.kind /\ i.alone = j.alone /\ i.missed = j.missed /\ i.body = j.body
    BY <1>e, <1>k, <2>3 DEF WorkRecord
  <2>5. Placed(i)
    BY <1>e, <1>k, <2>4 DEF Placed
  <2>6. Withholds(i)'
    BY <1>k, <2>4 DEF Withholds, PostsRules, Bare
  <2>7. ASSUME i.alone, PostsRules(i), i.kind # AntiCc, ~i.missed
        PROVE  /\ \A s \in i.ok : InStep(s, i.kind)'
               /\ i.body = Stored(i.at, i.kind)'
               /\ \A f \in assigned'[i.at] \ i.todo : Follows(f, i.at, i.kind)'
    <3>1. /\ j.body = Stored(j.at, j.kind)
          /\ \A f \in assigned[j.at] \ j.todo : Follows(f, j.at, j.kind)
          /\ \A s \in j.ok : s \in Site /\ InStep(s, j.kind)
          /\ assigned[j.at] \subseteq Server
      BY <1>0, <1>k, <2>4, <2>7 DEF Knows, PostsRules, Placed, Database
    <3>2. ASSUME NEW s \in j.ok PROVE InStep(s, j.kind)'
      <4>1. assigned[s] \subseteq Server
        BY <1>0, <3>1 DEF Database
      <4>2. \A f \in assigned[s] : Follows(f, s, j.kind)
        BY <3>1 DEF InStep, Follows
      <4>3. ASSUME NEW f \in assigned[s] PROVE Follows(f, s, j.kind)'
        BY <1>k, <2>f, <3>1, <4>1, <4>2
      <4> QED BY <1>k, <4>3 DEF InStep, Follows
    <3>3. j.body = Stored(j.at, j.kind)'
      BY <1>k, <1>t, <3>1, KindsAreParts
    <3>4. ASSUME NEW f \in assigned[j.at] \ (j.todo \ {e}) PROVE Follows(f, j.at, j.kind)'
      <4>1. CASE f # e
        BY <1>k, <2>f, <3>1, <3>4, <4>1
      <4>2. CASE f = e
        <5>1. conf'[<<e, j.at>>] = Taken(j, conf[<<e, j.at>>])
          BY <1>0, <1>2, <1>e, <1>k
        <5>2. Taken(j, conf[<<e, j.at>>]) = [conf[<<e, j.at>>] EXCEPT ![j.kind] = Pushed(j.kind, j.body)]
          BY <2>4, <2>7 DEF Taken, PostsRules
        <5>3. conf[<<e, j.at>>] \in [Part -> Value] /\ j.kind \in Part
          BY <1>0, <1>e, <1>k, KindsAreParts
        <5>4. conf'[<<e, j.at>>][j.kind] = Pushed(j.kind, j.body)
          BY <5>1, <5>2, <5>3
        <5>5. Enforced(j.kind, conf'[<<e, j.at>>][j.kind]) = Enforced(j.kind, j.body)
          BY <2>4, <2>7, <2>p, <5>4 DEF PostsRules
        <5> QED BY <3>3, <4>2, <5>5 DEF Follows, Enforced
      <4> QED BY <4>1, <4>2
    <3>5. i.ok = j.ok /\ i.kind = j.kind /\ i.at = j.at /\ i.body = j.body /\ i.todo = j.todo \ {e}
      BY <2>4, <2>7 DEF PostsRules
    <3>6. \A f \in assigned'[j.at] \ (j.todo \ {e}) : Follows(f, j.at, j.kind)'
      BY <1>k, <3>4
    <3> QED BY <3>2, <3>3, <3>5, <3>6
  <2>8. ASSUME i.alone, i.what = "save"
        PROVE  \A f \in i.ok, k \in Kind : Follows(f, i.at, k)'
    <3>1. /\ \A f \in j.ok, k \in Kind : f \in Server /\ Follows(f, j.at, k)
          /\ i.ok = j.ok \cup {e} /\ ~PostsRules(j)
      BY <1>k, <2>4, <2>8 DEF Knows, PostsRules, Placed
    <3>2. ASSUME NEW k \in Kind PROVE Follows(e, j.at, k)'
      <4>1. conf'[<<e, j.at>>] = Taken(j, conf[<<e, j.at>>])
        BY <1>0, <1>2, <1>e, <1>k
      <4>2. conf'[<<e, j.at>>] = WholeSite(j.at)
        BY <2>4, <2>8, <4>1 DEF Taken
      <4>3. conf'[<<e, j.at>>][k] = Stored(j.at, k)
        BY <1>0, <1>k, <4>2, WholeSiteType
      <4>4. Stored(j.at, k)' = Stored(j.at, k)
        BY <1>k, <1>t, KindsAreParts
      <4> QED BY <4>3, <4>4 DEF Follows, Enforced
    <3>3. ASSUME NEW f \in j.ok, NEW k \in Kind PROVE Follows(f, j.at, k)'
      BY <1>k, <2>f, <3>1
    <3> QED BY <2>4, <3>1, <3>2, <3>3
  <2>9. ASSUME i.alone PROVE Knows(i)'
    BY <2>4, <2>7, <2>8, <2>9 DEF Knows, PostsRules
  <2> QED BY <1>c, <1>j, <1>k, <1>2, <2>2, <2>3, <2>4, <2>5, <2>6, <2>9, Proceeds
<1>3. CASE /\ Work(a, [j EXCEPT !.todo = @ \ {e}, !.missed = Missed(j)])
           /\ UNCHANGED conf /\ Lost
  <2>1. AnsweredMeansServed'
    BY <1>k, <1>t, <1>3, KindsAreParts, StillServed DEF RuleInv
  <2>2. PICK m \in BOOLEAN : m = Missed(j)
    BY DEF Missed, WorkRecord
  <2>3. PICK i : i = [j EXCEPT !.todo = @ \ {e}, !.missed = m]
    OBVIOUS
  <2>4. /\ i \in WorkRecord /\ i.pc = "edges" /\ i.what = j.what /\ i.at = j.at /\ i.todo \subseteq j.todo
        /\ i.ok = j.ok /\ i.body = j.body
        /\ i.sites = j.sites /\ i.kind = j.kind /\ i.alone = j.alone /\ i.missed = m
    BY <1>k, <2>3 DEF WorkRecord
  <2>5. Placed(i)
    BY <1>k, <2>4 DEF Placed
  <2>6. Withholds(i)'
    BY <1>k, <2>4 DEF Withholds, PostsRules, Bare
  <2>7. PostsRules(i) /\ i.kind # AntiCc => i.missed
    BY <2>2, <2>4 DEF Missed, PostsRules
  <2>8. ASSUME i.alone, i.what = "save"
        PROVE  \A f \in i.ok, k \in Kind : Follows(f, i.at, k)'
    <3>1. \A f \in j.ok, k \in Kind : Follows(f, j.at, k)
      BY <1>k, <2>4, <2>8 DEF Knows
    <3>2. \A k \in Kind : Stored(j.at, k)' = Stored(j.at, k)
      BY <1>k, <1>t, KindsAreParts
    <3>3. i.ok = j.ok /\ i.at = j.at
      BY <2>4
    <3> QED BY <1>3, <3>1, <3>2, <3>3, FollowsSame
  <2>9. ASSUME i.alone PROVE Knows(i)'
    BY <2>4, <2>7, <2>8, <2>9 DEF Knows, PostsRules
  <2> QED BY <1>c, <1>j, <1>k, <1>3, <2>1, <2>2, <2>3, <2>4, <2>5, <2>6, <2>9, Proceeds
<1> QED BY <1>1, <1>2, <1>3

\* When all its edges have been asked, a site is in step or the request has missed one.
LEMMA NextSiteKeeps ==
    ASSUME TypeInv, RuleInv, NEW a \in Worker, NextSite(a)
    PROVE  RuleInv'
<1>0. Database /\ Requests
  BY DEF TypeInv
<1>j. PICK j \in WorkRecord : j = work[a]
  BY <1>0 DEF Requests
<1>k. /\ Placed(j) /\ Withholds(j) /\ (j.alone => Knows(j)) /\ ~Free(a) /\ j.kind \in Kind
      /\ j.pc = "edges" /\ j.at \in Site /\ j.todo = {}
      /\ UNCHANGED <<ruleSets, uses, assigned, routes, conf, claimed>>
  BY <1>0, <1>j DEF Requests, RuleInv, NextSite, Free, WorkRecord, Placed
<1>c. Calm
  BY <1>k DEF Calm
<1>t. \A s \in Site, k \in Kind : Stored(s, k)' = Stored(s, k)
  BY <1>k, StoredSame
<1>s. AnsweredMeansServed'
  BY <1>k, <1>t, StillServed DEF RuleInv
<1>1. PICK i : i = [j EXCEPT !.pc = IF j.sites = {} THEN "answer" ELSE "load",
                             !.ok = IF j.what = "save" THEN @ ELSE @ \cup {j.at}, !.body = {}]
  OBVIOUS
<1>2. Work(a, i)
  BY <1>1, <1>j DEF NextSite
<1>3. /\ i \in WorkRecord /\ i.pc = (IF j.sites = {} THEN "answer" ELSE "load") /\ i.what = j.what
      /\ i.at = j.at /\ i.sites = j.sites /\ i.kind = j.kind /\ i.alone = j.alone /\ i.missed = j.missed
      /\ i.ok = (IF j.what = "save" THEN j.ok ELSE j.ok \cup {j.at})
  <2>1. {} \in Value
    BY DEF Value
  <2> QED BY <1>1, <1>k, <2>1 DEF WorkRecord
<1>4. Placed(i)
  BY <1>3, <1>k DEF Placed
<1>5. Withholds(i)'
  BY <1>3, <1>k DEF Withholds, PostsRules, Bare
<1>6. ASSUME i.alone, PostsRules(i), i.kind # AntiCc, ~i.missed, NEW s \in i.ok
      PROVE  InStep(s, i.kind)'
  <2>1. /\ \A e \in assigned[j.at] : Follows(e, j.at, j.kind)
        /\ \A t \in j.ok : t \in Site /\ InStep(t, j.kind)
    BY <1>3, <1>6, <1>k DEF Knows, PostsRules, Placed
  <2>2. InStep(j.at, j.kind)
    BY <2>1 DEF InStep, Follows
  <2>3. s \in Site /\ InStep(s, j.kind)
    BY <1>3, <1>6, <1>k, <2>1, <2>2 DEF PostsRules
  <2>4. assigned[s] \subseteq Server
    BY <1>0, <2>3 DEF Database
  <2>5. InStep(s, j.kind)'
    BY <1>k, <1>t, <2>3, <2>4, InStepSame
  <2> QED BY <1>3, <2>5
<1>7. ASSUME i.alone, i.what = "save"
      PROVE  \A f \in i.ok, k \in Kind : Follows(f, i.at, k)'
  <2>1. \A f \in j.ok, k \in Kind : Follows(f, j.at, k)
    BY <1>3, <1>7, <1>k DEF Knows
  <2>2. i.ok = j.ok /\ i.at = j.at
    BY <1>3, <1>7
  <2>3. ASSUME NEW f \in j.ok, NEW k \in Kind PROVE Follows(f, j.at, k)'
    BY <1>k, <1>t, <2>1, FollowsSame
  <2> QED BY <2>2, <2>3
<1>8. ASSUME i.alone PROVE Knows(i)'
  BY <1>3, <1>6, <1>7, <1>8 DEF Knows, PostsRules
<1> QED BY <1>2, <1>3, <1>4, <1>5, <1>8, <1>c, <1>j, <1>k, <1>s, Proceeds

\* An answer claims what the request knows, if it ran alone.
LEMMA AnswerKeeps ==
    ASSUME TypeInv, RuleInv, NEW a \in Worker, Answer(a)
    PROVE  RuleInv'
<1>0. Database /\ Requests
  BY DEF TypeInv
<1>j. PICK j \in WorkRecord : j = work[a]
  BY <1>0 DEF Requests
<1>k. /\ Placed(j) /\ Withholds(j) /\ (j.alone => Knows(j)) /\ ~Free(a) /\ j.kind \in Kind
      /\ j.pc = "answer" /\ UNCHANGED <<ruleSets, uses, routes, conf>>
  BY <1>0, <1>j DEF Requests, RuleInv, Answer, Free, WorkRecord
<1>t. \A s \in Site, k \in Kind : Stored(s, k)' = Stored(s, k)
  BY <1>k, StoredSame
<1>1. CASE j.missed
  <2>1. AnswerBadly(a) /\ UNCHANGED assigned
    BY <1>1, <1>j DEF Answer
  <2> QED BY <1>k, <2>1, EndsBadly
<1>2. CASE ~j.missed /\ j.what = "save"
  <2>1. /\ assigned' = [assigned EXCEPT ![j.at] = j.ok]
        /\ claimed' = IF j.alone THEN claimed \cup PartsOf({j.at}, Part) ELSE claimed
        /\ Work(a, NoWork)
    BY <1>2, <1>j DEF Answer, AnswerWell
  <2>2. j.at \in Site /\ Bare(j.at) /\ j.ok \subseteq Server
    BY <1>2, <1>k DEF Placed, Withholds
  <2>3. Calm \/ j.alone
    BY <1>k, <2>1 DEF Calm
  <2>4. AnsweredMeansServed'
    <3> SUFFICES ASSUME NEW s \in Site, NEW k \in Kind \ {AntiCc}, <<s, k>> \in claimed'
                 PROVE  InStep(s, k)'
      BY DEF AnsweredMeansServed
    <3>1. CASE s = j.at
      <4>1. j.alone
        BY <2>1, <2>2, <3>1 DEF Bare
      <4>2. \A f \in j.ok : Follows(f, j.at, k)
        BY <1>2, <1>k, <4>1 DEF Knows
      <4>3. assigned'[s] = j.ok
        BY <1>0, <2>1, <3>1 DEF Database
      <4> QED BY <1>k, <1>t, <3>1, <4>2, <4>3 DEF InStep, Follows, Enforced
    <3>2. CASE s # j.at
      <4>1. <<s, k>> \in claimed
        BY <2>1, <3>2 DEF PartsOf
      <4>2. InStep(s, k) /\ assigned[s] \subseteq Server /\ assigned'[s] = assigned[s]
        BY <1>0, <2>1, <3>2, <4>1 DEF RuleInv, AnsweredMeansServed, Database
      <4> QED BY <1>k, <1>t, <4>2, InStepSame
    <3> QED BY <3>1, <3>2
  <2> QED BY <1>j, <1>k, <2>1, <2>3, <2>4, RequestEnds
<1>3. CASE ~j.missed /\ j.what # "save"
  <2> DEFINE p == IF j.what = "routes" THEN Routes ELSE j.kind
  <2>1. /\ UNCHANGED assigned
        /\ claimed' = IF j.alone THEN claimed \cup PartsOf(j.ok, {p}) ELSE claimed
        /\ Work(a, NoWork)
    BY <1>3, <1>j DEF Answer, AnswerWell
  <2>2. Calm \/ j.alone
    BY <1>k, <2>1 DEF Calm
  <2>3. AnsweredMeansServed'
    <3> SUFFICES ASSUME NEW s \in Site, NEW k \in Kind \ {AntiCc}, <<s, k>> \in claimed'
                 PROVE  InStep(s, k)'
      BY DEF AnsweredMeansServed
    <3>1. InStep(s, k)
      <4>1. CASE <<s, k>> \in claimed
        BY <4>1 DEF RuleInv, AnsweredMeansServed
      <4>2. CASE <<s, k>> \notin claimed
        <5>1. j.alone /\ s \in j.ok /\ k = p
          BY <2>1, <4>2 DEF PartsOf
        <5>2. j.what # "routes" /\ k = j.kind
          BY <5>1, KindsAreParts
        <5>3. PostsRules(j)
          BY <1>3, <1>k, <5>2 DEF Placed, PostsRules
        <5> QED BY <1>3, <1>k, <5>1, <5>2, <5>3 DEF Knows
      <4> QED BY <4>1, <4>2
    <3>2. assigned[s] \subseteq Server
      BY <1>0 DEF Database
    <3> QED BY <1>k, <1>t, <2>1, <3>1, <3>2, InStepSame
  <2> QED BY <1>j, <1>k, <2>1, <2>2, <2>3, RequestEnds
<1> QED BY <1>1, <1>2, <1>3

\* Every step keeps the invariant.
LEMMA RuleNext == ASSUME TypeInv, RuleInv, [WafNext]_wVars PROVE RuleInv'
<1>1. CASE UNCHANGED wVars
  BY <1>1, SetsAside DEF wVars
<1>2. CASE WafNext
  <2>1. PICK a \in Worker :
        \/ CreateSet(a) \/ ChangeRole(a) \/ BeginDeleteSet(a) \/ DeleteSet(a)
        \/ BeginFork(a) \/ Copy(a) \/ Ensure(a) \/ Attach(a)
        \/ BeginTemplateEdit(a) \/ BeginSiteEdit(a) \/ BeginRead(a) \/ Write(a)
        \/ ListSites(a) \/ Load(a) \/ PostRules(a) \/ NextSite(a) \/ Answer(a)
        \/ SaveSite(a) \/ BeginRoutes(a) \/ Break(a)
    BY <1>2 DEF WafNext
  <2>2. CASE Break(a)
    <3>1. ~Free(a) /\ AnswerBadly(a) /\ UNCHANGED <<ruleSets, uses, assigned, conf>>
      BY <2>2 DEF Break, Free
    <3> QED BY <3>1, EndsBadly
  <2> QED BY <2>1, <2>2, AsideKeeps, BeginsKeep, SavesKeep, DeleteKeeps, CopyKeeps, AttachKeeps, WriteKeeps,
             LoadKeeps, PostKeeps, NextSiteKeeps, AnswerKeeps
<1> QED BY <1>1, <1>2

\* The invariant holds throughout.
LEMMA RuleInvariant == WafSpec => [](TypeInv /\ RuleInv)
<1>1. WafInit => TypeInv /\ RuleInv
  BY WafTypeInit, RuleInit
<1>2. TypeInv /\ RuleInv /\ [WafNext]_wVars => (TypeInv /\ RuleInv)'
  BY TypeNext, RuleNext
<1> QED BY <1>1, <1>2, PTL DEF WafSpec

-----------------------------------------------------------------------------
(* The theorems. *)

\* A rule edit that was answered 2xx, by a request that ran alone, is enforced by every edge of
\* every site it is for until the set is edited again, whatever handlers overlap afterwards.
THEOREM AnsweredIsServed == WafSpec => []AnsweredMeansServed
<1>1. TypeInv /\ RuleInv => AnsweredMeansServed
  BY DEF RuleInv
<1> QED BY <1>1, RuleInvariant, PTL

\* Only a request itself ends its work.
LEMMA OwnEnd ==
    ASSUME TypeInv, NEW a \in Worker, work[a].pc = "attach", WafNext, work'[a] = NoWork
    PROVE  Attach(a) \/ Break(a)
<1>0. work \in [Worker -> WorkRecord] /\ NoWork.pc = "idle"
  BY Idle DEF TypeInv, Requests
<1>1. PICK b \in Worker :
        \/ CreateSet(b) \/ ChangeRole(b) \/ BeginDeleteSet(b) \/ DeleteSet(b)
        \/ BeginFork(b) \/ Copy(b) \/ Ensure(b) \/ Attach(b)
        \/ BeginTemplateEdit(b) \/ BeginSiteEdit(b) \/ BeginRead(b) \/ Write(b)
        \/ ListSites(b) \/ Load(b) \/ PostRules(b) \/ NextSite(b) \/ Answer(b)
        \/ SaveSite(b) \/ BeginRoutes(b) \/ Break(b)
  BY DEF WafNext
<1>2. work'[a] # work[a]
  BY <1>0
<1>3. ASSUME NEW i, Arrive(b, i) PROVE FALSE
  <2>1. b # a
    BY <1>3 DEF Arrive, Free
  <2>2. work'[a] = [work[a] EXCEPT !.alone = FALSE]
    BY <1>3, <2>1 DEF Arrive
  <2>3. work[a] \in WorkRecord
    BY <1>0
  <2>4. work'[a].pc = "attach"
    BY <2>2, <2>3 DEF WorkRecord
  <2> QED BY <1>0, <2>4
<1>4. ASSUME NEW i, Work(b, i) PROVE b = a
  BY <1>0, <1>2, <1>4 DEF Work
<1>5. ~(CreateSet(b) \/ ChangeRole(b))
  BY <1>2 DEF CreateSet, ChangeRole
<1>6. ~(BeginDeleteSet(b) \/ BeginFork(b) \/ BeginRead(b) \/ SaveSite(b) \/ BeginRoutes(b))
  BY <1>3 DEF BeginDeleteSet, BeginFork, BeginRead, SaveSite, BeginRoutes
<1>7. ~BeginTemplateEdit(b)
  BY <1>3 DEF BeginTemplateEdit, TemplateWhitelist, TemplateBlacklist, TemplateGeo, TemplateAntiCc,
     TemplateAntiHeader, TemplateInterval, TemplateSecond, TemplateResponse, TemplateUserAgent, EditTemplate
<1>8. ~BeginSiteEdit(b)
  BY <1>3 DEF BeginSiteEdit, SiteWhitelist, SiteBlacklist, SiteGeo, SiteAntiCc, SiteAntiHeader,
     SiteInterval, SiteSecond, SiteResponse, SiteUserAgent, EditOfSite
<1>9. ASSUME DeleteSet(b) \/ Copy(b) \/ Ensure(b) \/ Write(b) \/ ListSites(b) \/ Load(b)
             \/ PostRules(b) \/ NextSite(b) \/ Answer(b)
      PROVE  FALSE
  <2>1. work[b].pc # "attach"
    BY <1>9 DEF DeleteSet, Copy, Ensure, Write, ListSites, Load, PostRules, NextSite, Answer
  <2>2. \E i : Work(b, i)
    BY <1>9 DEF DeleteSet, Copy, Ensure, Write, ListSites, Load, PostRules, NextSite, Answer,
       AnswerWell, AnswerBadly
  <2> QED BY <1>4, <2>1, <2>2
<1>10. ASSUME Attach(b) \/ Break(b) PROVE b = a
  <2>1. \E i : Work(b, i)
    BY <1>10 DEF Attach, Break, AnswerBadly
  <2> QED BY <1>4, <2>1
<1> QED BY <1>1, <1>5, <1>6, <1>7, <1>8, <1>9, <1>10

\* A fork that runs alone changes no rule of its site, whatever tables there are.
THEOREM ForksKeepTheRules == WafSpec => ForkKeepsTheRules
<1> DEFINE P == \A a \in Worker, s \in Site, k \in Kind :
          work[a].pc = "attach" /\ work[a].what = "fork" /\ work[a].alone /\ work'[a] = NoWork
          => Stored(s, k)' = Stored(s, k)
<1>1. ASSUME TypeInv, RuleInv, [WafNext]_wVars PROVE P
  <2> SUFFICES ASSUME NEW a \in Worker, NEW s \in Site, NEW k \in Kind,
                      work[a].pc = "attach", work[a].alone, work'[a] = NoWork
               PROVE  Stored(s, k)' = Stored(s, k)
    OBVIOUS
  <2>0. Database /\ Requests /\ Knows(work[a]) /\ work[a] \in WorkRecord /\ Placed(work[a])
    BY <1>1 DEF TypeInv, Requests, RuleInv
  <2>1. CASE UNCHANGED wVars
    BY <2>1, StoredSame DEF wVars
  <2>2. CASE Break(a)
    BY <2>2, StoredSame DEF Break
  <2>3. CASE Attach(a)
    <3>1. CASE work[a].set \notin DOMAIN ruleSets
      BY <2>3, <3>1, StoredSame DEF Attach
    <3>2. CASE work[a].set \in DOMAIN ruleSets
      <4>1. uses' = [uses EXCEPT ![work[a].at] = work[a].set] /\ UNCHANGED ruleSets
        BY <2>3, <3>2 DEF Attach
      <4>2. CASE s = work[a].at
        <5>1. ruleSets[work[a].set].rules[k] = Stored(s, k)
          BY <2>0, <4>2 DEF Knows
        <5>2. uses'[s] = work[a].set /\ work[a].set # NoSet
          BY <2>0, <3>2, <4>1, <4>2, WafNullAssumption DEF Database
        <5>3. Stored(s, k)' = ruleSets[work[a].set].rules[k]
          BY <4>1, <5>2, KindsAreParts DEF Stored
        <5> QED BY <5>1, <5>3
      <4>3. CASE s # work[a].at
        <5>1. uses'[s] = uses[s]
          BY <2>0, <4>1, <4>3 DEF Database
        <5> QED BY <4>1, <5>1, StoredSame
      <4> QED BY <4>2, <4>3
    <3> QED BY <3>1, <3>2
  <2> QED BY <1>1, <2>1, <2>2, <2>3, OwnEnd
<1>2. [](TypeInv /\ RuleInv) /\ [][WafNext]_wVars => [][P]_wVars
  BY <1>1, PTL
<1> QED BY <1>2, RuleInvariant, PTL DEF WafSpec, ForkKeepsTheRules
=============================================================================
