---------------------------- MODULE SettingsProofs ----------------------------
(***************************************************************************)
(* EdgeSettings: type correctness for any number of handlers and reports; and, *)
(* for one handler and no report in between, that a request that ended well     *)
(* leaves the edges with what the database holds, and that a refused one leaves *)
(* the database as it was.                                                      *)
(*                                                                           *)
(* ServerSettings: type correctness for any number of handlers; and, with one    *)
(* panel handler at a time, against any reports and failures, that nothing an    *)
(* edge blocks for good is out of sight.                                        *)
(***************************************************************************)
EXTENDS EdgeSettings, ServerSettings, FiniteSetTheorems, TLAPS

-----------------------------------------------------------------------------
(* Rows. *)

\* Rows have ids and addresses.
LEMMA RowsAre ==
    ASSUME NEW r \in RowsOf(Id)
    PROVE  DOMAIN r \subseteq Id /\ r \in [DOMAIN r -> Address] /\ Listed(r) \subseteq Address
<1>1. PICK S \in SUBSET Id : r \in [S -> Address]
  BY DEF RowsOf
<1> QED BY <1>1 DEF Listed, Range

\* A function from ids to addresses is rows.
LEMMA AreRows ==
    ASSUME NEW S \in SUBSET Id, NEW r \in [S -> Address]
    PROVE  r \in RowsOf(Id)
BY DEF RowsOf

\* No rows are rows.
LEMMA NoRowsAre == NoRows \in RowsOf(Id)
<1>1. NoRows \in [{} -> Address]
  BY DEF NoRows
<1> QED BY <1>1, AreRows

\* An insert gives rows.
LEMMA WithRows ==
    ASSUME rows \in RowsOf(Id), NEW i \in Id, NEW x \in Address
    PROVE  With(i, x) \in RowsOf(Id)
<1>1. DOMAIN rows \cup {i} \in SUBSET Id /\ rows \in [DOMAIN rows -> Address]
  BY RowsAre
<1>2. With(i, x) \in [DOMAIN rows \cup {i} -> Address]
  BY <1>1 DEF With
<1> QED BY <1>1, <1>2, AreRows

\* An update gives rows.
LEMMA UpdatedRows ==
    ASSUME rows \in RowsOf(Id), NEW i, NEW x \in Address
    PROVE  Updated(i, x) \in RowsOf(Id)
<1>1. i \in DOMAIN rows => i \in Id
  BY RowsAre
<1> QED BY <1>1, WithRows DEF Updated

\* A delete gives rows.
LEMMA WithoutRows ==
    ASSUME rows \in RowsOf(Id), NEW S
    PROVE  Without(S) \in RowsOf(Id) /\ Listed(Without(S)) \subseteq Address
<1>1. DOMAIN rows \ S \in SUBSET Id /\ rows \in [DOMAIN rows -> Address]
  BY RowsAre
<1>2. Without(S) \in [DOMAIN rows \ S -> Address]
  BY <1>1 DEF Without
<1>3. Without(S) \in RowsOf(Id)
  BY <1>1, <1>2, AreRows
<1> QED BY <1>3, RowsAre

-----------------------------------------------------------------------------
(* Types. *)

\* The settings a request posts or stores are settings, and the rows it puts back are rows.
Formed(j) ==
    /\ j.what = "mode" => (j.mode \in Mode /\ j.was \in Mode)
    /\ (j.what = "full" /\ j.pc \in {"bodylist", "post"}) => j.mode \in Mode
    /\ j.what = "edit" => (j.ids # {} /\ j.ids \subseteq DOMAIN j.before)

TInv ==
    /\ TypeOK
    /\ \A a \in Actor : Formed(op[a])
    /\ \A e \in Edge : rep[e].pc # "idle" => rep[e].mode \in Mode

\* A handler that is given a well-formed job.
LEMMA StepJob ==
    ASSUME op \in [Actor -> Jobs], \A b \in Actor : Formed(op[b]),
           NEW a \in Actor, NEW j \in Jobs, Formed(j), Job(a, j)
    PROVE  op' \in [Actor -> Jobs] /\ \A b \in Actor : Formed(op'[b])
<1>1. op' \in [Actor -> Jobs] /\ op'[a] = j
  BY DEF Job
<1>2. \A b \in Actor \ {a} : op'[b] = op[b]
  BY DEF Job
<1> QED BY <1>1, <1>2

\* An edge whose report is replaced by a well-formed one.
LEMMA StepReport ==
    ASSUME rep \in [Edge -> Snapshots], \A f \in Edge : rep[f].pc # "idle" => rep[f].mode \in Mode,
           NEW e \in Edge, NEW r \in Snapshots, r.pc # "idle" => r.mode \in Mode, Report(e, r)
    PROVE  /\ rep' \in [Edge -> Snapshots]
             /\ \A f \in Edge : rep'[f].pc # "idle" => rep'[f].mode \in Mode
<1>1. rep' \in [Edge -> Snapshots] /\ rep'[e] = r
  BY DEF Report
<1>2. \A f \in Edge \ {e} : rep'[f] = rep[f]
  BY DEF Report
<1> QED BY <1>1, <1>2

\* Having nothing to do is well-formed.
LEMMA NoneType == NoJob \in Jobs /\ Formed(NoJob) /\ NoReport \in Snapshots /\ NoReport.pc = "idle"
<1>1. NoJob \in Jobs
  BY NoRowsAre DEF NoJob, Jobs
<1>2. NoReport \in Snapshots /\ NoReport.pc = "idle"
  BY NoRowsAre DEF NoReport, Snapshots
<1> QED BY <1>1, <1>2 DEF NoJob, Formed

\* The types hold at first.
LEMMA TypeInit == Init => TInv
<1> SUFFICES ASSUME Init PROVE TInv
  OBVIOUS
<1>1. op \in [Actor -> Jobs] /\ \A a \in Actor : Formed(op[a])
  BY NoneType DEF Init
<1>2. rep \in [Edge -> Snapshots] /\ \A e \in Edge : rep[e].pc = "idle"
  BY NoneType DEF Init
<1>3. held \in [Edge -> [list : SUBSET Address, mode : Mode]]
  BY DEF Init
<1>4. rows \in RowsOf(Id) /\ events \in 0 .. MaxEvent /\ faults \in 0 .. MaxFault
  BY NoRowsAre, SizeAssumption DEF Init
<1>5. TypeOK
  BY <1>1, <1>2, <1>3, <1>4 DEF Init, TypeOK
<1> QED BY <1>1, <1>2, <1>5 DEF TInv

\* Every step of a handler keeps the types.
LEMMA ActorType ==
    ASSUME TInv, NEW a \in Actor, Begin(a) \/ Continue(a) \/ Abort(a)
    PROVE  TInv'
<1> DEFINE o == op[a]
<1>0. /\ op \in [Actor -> Jobs] /\ o \in Jobs /\ Formed(o) /\ \A b \in Actor : Formed(op[b])
      /\ rows \in RowsOf(Id) /\ mode \in Mode /\ servers \subseteq Edge /\ settled \subseteq Part
      /\ held \in [Edge -> [list : SUBSET Address, mode : Mode]] /\ rep \in [Edge -> Snapshots]
      /\ events \in 0 .. MaxEvent /\ faults \in 0 .. MaxFault
      /\ \A e \in Edge : rep[e].pc # "idle" => rep[e].mode \in Mode
      /\ DOMAIN rows \subseteq Id /\ Listed(rows) \subseteq Address
  BY RowsAre DEF TInv, TypeOK
<1>e. ASSUME Event PROVE events' \in 0 .. MaxEvent
  BY <1>0, <1>e, SizeAssumption DEF Event
<1>f. ASSUME Fault PROVE faults' \in 0 .. MaxFault
  BY <1>0, <1>f, SizeAssumption DEF Fault
<1>j. ASSUME NEW j \in Jobs, Formed(j), Job(a, j)
      PROVE  op' \in [Actor -> Jobs] /\ \A b \in Actor : Formed(op'[b])
  BY <1>0, <1>j, StepJob
<1>n. ASSUME Job(a, NoJob)
      PROVE  op' \in [Actor -> Jobs] /\ \A b \in Actor : Formed(op'[b])
  BY <1>n, <1>j, NoneType
<1>p. Part \subseteq Part /\ Parts(a) \subseteq Part
  BY DEF Parts, Part
<1>w. ASSUME EndsWell(a)
      PROVE  settled' \subseteq Part /\ op' \in [Actor -> Jobs] /\ \A b \in Actor : Formed(op'[b])
  BY <1>0, <1>n, <1>p, <1>w DEF EndsWell
<1>b. ASSUME EndsBadly(a)
      PROVE  settled' \subseteq Part /\ op' \in [Actor -> Jobs] /\ \A b \in Actor : Formed(op'[b])
  BY <1>0, <1>n, <1>b DEF EndsBadly
<1>1. CASE BeginAdd(a)
  <2>1. PICK x \in Address :
          Job(a, [NoJob EXCEPT !.pc = "write", !.what = "add", !.to = {x}, !.before = rows])
    BY <1>1 DEF BeginAdd
  <2> DEFINE j == [NoJob EXCEPT !.pc = "write", !.what = "add", !.to = {x}, !.before = rows]
  <2>2. j \in Jobs
    BY <1>0, <2>1, NoneType DEF Jobs, NoJob
  <2>3. Formed(j)
    BY <1>0, <2>1 DEF Formed, Jobs, NoJob
  <2>4. op' \in [Actor -> Jobs] /\ \A b \in Actor : Formed(op'[b])
    BY <1>j, <2>1, <2>2, <2>3
  <2> QED BY <1>0, <1>1, <2>4, <1>e DEF BeginAdd, TInv, TypeOK, Ready
<1>2. CASE BeginEdit(a)
  <2>1. PICK i \in DOMAIN rows, x \in Address :
          Job(a, [NoJob EXCEPT !.pc = "write", !.what = "edit", !.ids = {i}, !.to = {x}, !.before = rows])
    BY <1>2 DEF BeginEdit
  <2> DEFINE j == [NoJob EXCEPT !.pc = "write", !.what = "edit", !.ids = {i}, !.to = {x}, !.before = rows]
  <2>2. j \in Jobs
    BY <1>0, <2>1, NoneType, ZenonT(60) DEF Jobs, NoJob
  <2>3. Formed(j)
    BY <1>0, <2>1 DEF Formed, Jobs, NoJob
  <2>4. op' \in [Actor -> Jobs] /\ \A b \in Actor : Formed(op'[b])
    BY <1>j, <2>1, <2>2, <2>3
  <2> QED BY <1>0, <1>2, <2>4, <1>e DEF BeginEdit, TInv, TypeOK, Ready
<1>3. CASE BeginRemove(a)
  <2>1. PICK S \in SUBSET DOMAIN rows :
          Job(a, [NoJob EXCEPT !.pc = "edges", !.what = "remove", !.ids = S,
                        !.list = Listed(Without(S)), !.before = rows])
    BY <1>3 DEF BeginRemove
  <2> DEFINE j == [NoJob EXCEPT !.pc = "edges", !.what = "remove", !.ids = S,
                        !.list = Listed(Without(S)), !.before = rows]
  <2>2. j \in Jobs
    BY <1>0, <2>1, NoneType, WithoutRows DEF Jobs, NoJob
  <2>3. Formed(j)
    BY <1>0, <2>1 DEF Formed, Jobs, NoJob
  <2>4. op' \in [Actor -> Jobs] /\ \A b \in Actor : Formed(op'[b])
    BY <1>j, <2>1, <2>2, <2>3
  <2> QED BY <1>0, <1>3, <2>4, <1>e DEF BeginRemove, TInv, TypeOK, Ready
<1>4. CASE BeginMode(a)
  <2>1. PICK m \in Mode :
          Job(a, [NoJob EXCEPT !.pc = "edges", !.what = "mode", !.mode = m, !.was = mode])
    BY <1>4 DEF BeginMode
  <2> DEFINE j == [NoJob EXCEPT !.pc = "edges", !.what = "mode", !.mode = m, !.was = mode]
  <2>2. j \in Jobs
    BY <1>0, <2>1, NoneType DEF Jobs, NoJob
  <2>3. Formed(j)
    BY <1>0, <2>1 DEF Formed, Jobs, NoJob
  <2>4. op' \in [Actor -> Jobs] /\ \A b \in Actor : Formed(op'[b])
    BY <1>j, <2>1, <2>2, <2>3
  <2> QED BY <1>0, <1>4, <2>4, <1>e DEF BeginMode, TInv, TypeOK, Ready
<1>5. CASE BeginFull(a)
  <2>1. Job(a, [NoJob EXCEPT !.pc = "edges", !.what = "full"])
    BY <1>5 DEF BeginFull
  <2>2. [NoJob EXCEPT !.pc = "edges", !.what = "full"] \in Jobs
    BY NoneType DEF Jobs, NoJob
  <2>3. Formed([NoJob EXCEPT !.pc = "edges", !.what = "full"])
    BY DEF Formed, NoJob
  <2>4. op' \in [Actor -> Jobs] /\ \A b \in Actor : Formed(op'[b])
    BY <1>j, <2>1, <2>2, <2>3
  <2> QED BY <1>0, <1>5, <2>4, <1>e DEF BeginFull, Ready, TInv, TypeOK
<1>6. CASE WriteRow(a)
  <2>1. PICK x \in o.to :
          \/ o.what = "add" /\ \E i \in Id :
                rows' = With(i, x) /\ Job(a, [o EXCEPT !.pc = "list", !.ids = {i}])
          \/ (\E i \in o.ids : rows' = Updated(i, x)) /\ Job(a, [o EXCEPT !.pc = "list"])
    BY <1>6 DEF WriteRow
  <2>2. x \in Address
    BY <1>0, <2>1 DEF Jobs
  <2>3. CASE o.what = "add" /\ \E i \in Id :
                rows' = With(i, x) /\ Job(a, [o EXCEPT !.pc = "list", !.ids = {i}])
    <3>1. PICK i \in Id : rows' = With(i, x) /\ Job(a, [o EXCEPT !.pc = "list", !.ids = {i}])
      BY <2>3
    <3>2. [o EXCEPT !.pc = "list", !.ids = {i}] \in Jobs
      BY <1>0 DEF Jobs
    <3>3. Formed([o EXCEPT !.pc = "list", !.ids = {i}])
      BY <1>0, <2>3 DEF Formed, Jobs
    <3>4. op' \in [Actor -> Jobs] /\ \A b \in Actor : Formed(op'[b])
      BY <1>j, <3>1, <3>2, <3>3
    <3>5. rows' \in RowsOf(Id)
      BY <1>0, <2>2, <3>1, WithRows
    <3> QED BY <1>0, <1>6, <3>4, <3>5 DEF WriteRow, NoEvent, TInv, TypeOK
  <2>4. CASE (\E i \in o.ids : rows' = Updated(i, x)) /\ Job(a, [o EXCEPT !.pc = "list"])
    <3>2. [o EXCEPT !.pc = "list"] \in Jobs
      BY <1>0 DEF Jobs
    <3>3. Formed([o EXCEPT !.pc = "list"])
      BY <1>0 DEF Formed, Jobs
    <3>4. op' \in [Actor -> Jobs] /\ \A b \in Actor : Formed(op'[b])
      BY <1>j, <2>4, <3>2, <3>3
    <3>5. rows' \in RowsOf(Id)
      BY <1>0, <2>2, <2>4, UpdatedRows
    <3> QED BY <1>0, <1>6, <3>4, <3>5 DEF WriteRow, NoEvent, TInv, TypeOK
  <2> QED BY <2>1, <2>3, <2>4
<1>7. CASE ListRows(a)
  <2> DEFINE j == [o EXCEPT !.pc = "edges", !.list = Listed(rows)]
  <2>1. Job(a, j)
    BY <1>7 DEF ListRows
  <2>2. j \in Jobs
    BY <1>0, <2>1, NoneType DEF Jobs
  <2>3. Formed(j)
    BY <1>0, <2>1, <1>7 DEF Formed, Jobs
  <2>4. op' \in [Actor -> Jobs] /\ \A b \in Actor : Formed(op'[b])
    BY <1>j, <2>1, <2>2, <2>3
  <2> QED BY <1>0, <1>7, <2>4 DEF ListRows, TInv, TypeOK, NoEvent
<1>8. CASE LoadEdges(a)
  <2> DEFINE j == [o EXCEPT !.pc = IF o.what = "full" THEN "body" ELSE "post", !.todo = servers]
  <2>1. Job(a, j)
    BY <1>8 DEF LoadEdges
  <2>2. j \in Jobs
    BY <1>0, <2>1, NoneType DEF Jobs
  <2>3. Formed(j)
    BY <1>0, <2>1, <1>8 DEF Formed, Jobs
  <2>4. op' \in [Actor -> Jobs] /\ \A b \in Actor : Formed(op'[b])
    BY <1>j, <2>1, <2>2, <2>3
  <2> QED BY <1>0, <1>8, <2>4 DEF LoadEdges, TInv, TypeOK, NoEvent
<1>9. CASE ReadMode(a)
  <2> DEFINE j == [o EXCEPT !.pc = "bodylist", !.mode = mode]
  <2>1. Job(a, j)
    BY <1>9 DEF ReadMode
  <2>2. j \in Jobs
    BY <1>0, <2>1, NoneType DEF Jobs
  <2>3. Formed(j)
    BY <1>0, <2>1, <1>9 DEF Formed, Jobs
  <2>4. op' \in [Actor -> Jobs] /\ \A b \in Actor : Formed(op'[b])
    BY <1>j, <2>1, <2>2, <2>3
  <2> QED BY <1>0, <1>9, <2>4 DEF ReadMode, TInv, TypeOK, NoEvent
<1>10. CASE ReadList(a)
  <2> DEFINE j == [o EXCEPT !.pc = "post", !.list = Listed(rows)]
  <2>1. Job(a, j)
    BY <1>10 DEF ReadList
  <2>2. j \in Jobs
    BY <1>0, <2>1, NoneType DEF Jobs
  <2>3. Formed(j)
    BY <1>0, <2>1, <1>10 DEF Formed, Jobs, ReadList
  <2>4. op' \in [Actor -> Jobs] /\ \A b \in Actor : Formed(op'[b])
    BY <1>j, <2>1, <2>2, <2>3
  <2> QED BY <1>0, <1>10, <2>4 DEF ReadList, TInv, TypeOK, NoEvent
<1>11. CASE Post(a)
  <2>1. PICK e \in o.todo :
          /\ held' \in {held, [held EXCEPT ![e] = Effect(a, @)]}
          /\ \E how \in BOOLEAN : Answered(a, e, how)
          /\ Fault \/ UNCHANGED faults
    BY <1>11 DEF Post
  <2>2. PICK how \in BOOLEAN : Answered(a, e, how)
    BY <2>1
  <2> DEFINE j == [o EXCEPT !.pc = IF o.what = "full" THEN "body" ELSE "post", !.todo = @ \ {e},
                            !.ok = IF how THEN @ \cup {e} ELSE @, !.bad = IF how THEN @ ELSE @ \cup {e}]
  <2>3. e \in Edge /\ o.pc = "post"
    BY <1>0, <1>11, <2>1 DEF Jobs, Post
  <2>4. j \in Jobs
    BY <1>0, <2>3 DEF Jobs
  <2>5. Formed(j)
    BY <1>0 DEF Formed, Jobs
  <2>6. op' \in [Actor -> Jobs] /\ \A b \in Actor : Formed(op'[b])
    BY <1>j, <2>2, <2>4, <2>5 DEF Answered
  <2>7. Effect(a, held[e]) \in [list : SUBSET Address, mode : Mode]
    <3>1. o.what \in {"mode", "full"} => o.mode \in Mode
      BY <1>0, <2>3 DEF Formed
    <3>2. o.list \in SUBSET Address /\ held[e].list \in SUBSET Address /\ held[e].mode \in Mode
      BY <1>0, <2>3 DEF Jobs
    <3> QED BY <3>1, <3>2 DEF Effect
  <2>8. held' \in [Edge -> [list : SUBSET Address, mode : Mode]]
    BY <1>0, <2>1, <2>3, <2>7
  <2>9. faults' \in 0 .. MaxFault
    BY <1>0, <1>f, <2>1
  <2> QED BY <1>0, <1>11, <2>6, <2>8, <2>9 DEF Post, TInv, TypeOK
<1>12. CASE EndWrite(a)
  BY <1>0, <1>12, <1>w DEF EndWrite, NoEvent, TInv, TypeOK
<1>13. CASE UndoWrite(a)
  <2>1. ASSUME o.what = "add" PROVE rows' \in RowsOf(Id)
    BY <1>0, <1>13, <2>1, WithoutRows DEF UndoWrite
  <2>2. ASSUME o.what = "edit" PROVE rows' \in RowsOf(Id)
    <3> DEFINE i == CHOOSE i \in o.ids : TRUE
    <3>1. i \in o.ids /\ i \in DOMAIN o.before
      BY <1>0, <2>2 DEF Formed
    <3>2. o.before \in RowsOf(Id)
      BY <1>0 DEF Jobs
    <3>3. o.before[i] \in Address
      BY <3>1, <3>2, RowsAre
    <3>4. rows' = Updated(i, o.before[i])
      BY <1>13, <2>2 DEF UndoWrite
    <3> QED BY <1>0, <3>3, <3>4, UpdatedRows
  <2>3. rows' \in RowsOf(Id)
    BY <1>13, <2>1, <2>2 DEF UndoWrite, Undoes
  <2>4. settled' \subseteq Part /\ op' \in [Actor -> Jobs] /\ \A b \in Actor : Formed(op'[b])
    BY <1>0, <1>13, <1>b, <1>n DEF UndoWrite, Undoes
  <2>5. faults' \in 0 .. MaxFault
    BY <1>0, <1>13, <1>f DEF UndoWrite, Undoes
  <2> QED BY <1>0, <1>13, <2>3, <2>4, <2>5 DEF UndoWrite, TInv, TypeOK
<1>14. CASE RemoveRows(a)
  <2>1. rows' \in RowsOf(Id)
    BY <1>0, <1>14, WithoutRows DEF RemoveRows
  <2> QED BY <1>0, <1>14, <1>w, <2>1 DEF RemoveRows, NoEvent, TInv, TypeOK
<1>15. CASE StoreMode(a)
  BY <1>0, <1>15, <1>w DEF StoreMode, NoEvent, Formed, TInv, TypeOK
<1>16. CASE RestoreMode(a)
  BY <1>0, <1>16, <1>b, <1>f DEF RestoreMode, Formed, TInv, TypeOK
<1>17. CASE GiveUp(a)
  BY <1>0, <1>17, <1>b DEF GiveUp, NoEvent, TInv, TypeOK
<1>18. CASE Apply(a)
  <2>1. servers' \subseteq Edge
    BY <1>0, <1>18 DEF Apply, Jobs
  <2> QED BY <1>0, <1>18, <1>w, <2>1 DEF Apply, NoEvent, TInv, TypeOK
<1>19. CASE Abort(a)
  <2>1. settled' \subseteq Part /\ op' \in [Actor -> Jobs] /\ \A b \in Actor : Formed(op'[b])
    BY <1>0, <1>19, <1>b, <1>n DEF Abort
  <2> QED BY <1>0, <1>19, <1>f, <2>1 DEF Abort, TInv, TypeOK
<1> QED BY <1>1, <1>2, <1>3, <1>4, <1>5, <1>6, <1>7, <1>8, <1>9, <1>10, <1>11, <1>12,
           <1>13, <1>14, <1>15, <1>16, <1>17, <1>18, <1>19 DEF Begin, Continue

\* Every step of a report keeps the types.
LEMMA ReportType ==
    ASSUME TInv, NEW e \in Edge, ReportStep(e) \/ ReportFails(e)
    PROVE  TInv'
<1> DEFINE r == rep[e]
<1>0. /\ op \in [Actor -> Jobs] /\ \A b \in Actor : Formed(op[b])
      /\ rows \in RowsOf(Id) /\ mode \in Mode /\ servers \subseteq Edge /\ settled \subseteq Part
      /\ held \in [Edge -> [list : SUBSET Address, mode : Mode]] /\ rep \in [Edge -> Snapshots]
      /\ events \in 0 .. MaxEvent /\ faults \in 0 .. MaxFault
      /\ r \in Snapshots /\ \A f \in Edge : rep[f].pc # "idle" => rep[f].mode \in Mode
  BY DEF TInv, TypeOK
<1>r. ASSUME NEW s \in Snapshots, s.pc # "idle" => s.mode \in Mode, Report(e, s)
      PROVE  /\ rep' \in [Edge -> Snapshots]
             /\ \A f \in Edge : rep'[f].pc # "idle" => rep'[f].mode \in Mode
  BY <1>0, <1>r, StepReport
<1>1. CASE SendReport(e)
  <2> DEFINE s == [NoReport EXCEPT !.pc = "check", !.list = held[e].list, !.mode = held[e].mode]
  <2>1. Report(e, s)
    BY <1>1 DEF SendReport
  <2>2. s \in Snapshots
    BY <1>0, NoneType DEF Snapshots, NoReport
  <2>3. s.pc # "idle" => s.mode \in Mode
    BY <1>0, <1>1, NoneType DEF Snapshots, SendReport, NoReport
  <2>4. /\ rep' \in [Edge -> Snapshots]
        /\ \A f \in Edge : rep'[f].pc # "idle" => rep'[f].mode \in Mode
    BY <1>r, <2>1, <2>2, <2>3
  <2> QED BY <1>0, <1>1, <2>4 DEF SendReport, TInv, TypeOK, NoEvent
<1>2. CASE CheckReport(e)
  <2> DEFINE s == (IF e \in servers THEN [r EXCEPT !.pc = "mode"] ELSE NoReport)
  <2>1. Report(e, s)
    BY <1>2 DEF CheckReport
  <2>2. s \in Snapshots
    BY <1>0, NoneType DEF Snapshots
  <2>3. s.pc # "idle" => s.mode \in Mode
    BY <1>0, <1>2, NoneType DEF Snapshots, CheckReport, NoReport
  <2>4. /\ rep' \in [Edge -> Snapshots]
        /\ \A f \in Edge : rep'[f].pc # "idle" => rep'[f].mode \in Mode
    BY <1>r, <2>1, <2>2, <2>3
  <2> QED BY <1>0, <1>2, <2>4 DEF CheckReport, TInv, TypeOK, NoEvent
<1>3. CASE ReportMode(e)
  <2> DEFINE s == [r EXCEPT !.pc = "list"]
  <2>1. Report(e, s)
    BY <1>3 DEF ReportMode
  <2>2. s \in Snapshots
    BY <1>0, NoneType DEF Snapshots
  <2>3. s.pc # "idle" => s.mode \in Mode
    BY <1>0, <1>3, NoneType DEF Snapshots, ReportMode
  <2>4. /\ rep' \in [Edge -> Snapshots]
        /\ \A f \in Edge : rep'[f].pc # "idle" => rep'[f].mode \in Mode
    BY <1>r, <2>1, <2>2, <2>3
  <2>5. mode' \in Mode
    BY <1>0, <1>3 DEF ReportMode
  <2> QED BY <1>0, <1>3, <2>4, <2>5 DEF ReportMode, TInv, TypeOK, NoEvent
<1>4. CASE ReportList(e)
  <2> DEFINE s == [r EXCEPT !.pc = "rows", !.seen = rows, !.todo = r.list]
  <2>1. Report(e, s)
    BY <1>4 DEF ReportList
  <2>2. s \in Snapshots
    BY <1>0, NoneType DEF Snapshots
  <2>3. s.pc # "idle" => s.mode \in Mode
    BY <1>0, <1>4, NoneType DEF Snapshots, ReportList
  <2>4. /\ rep' \in [Edge -> Snapshots]
        /\ \A f \in Edge : rep'[f].pc # "idle" => rep'[f].mode \in Mode
    BY <1>r, <2>1, <2>2, <2>3
  <2> QED BY <1>0, <1>4, <2>4 DEF ReportList, TInv, TypeOK, NoEvent
<1>5. CASE ReportRow(e)
  <2>1. PICK x \in r.todo :
          /\ rows' = Updated(Known(e, x), x) \/ \E i \in Id : rows' = With(i, x)
          /\ Report(e, [r EXCEPT !.todo = @ \ {x}])
    BY <1>5 DEF ReportRow
  <2>2. x \in Address /\ [r EXCEPT !.todo = @ \ {x}] \in Snapshots
    BY <1>0, <2>1 DEF Snapshots
  <2>3. [r EXCEPT !.todo = @ \ {x}].pc # "idle" => [r EXCEPT !.todo = @ \ {x}].mode \in Mode
    BY <1>0 DEF Snapshots
  <2>4. rep' \in [Edge -> Snapshots] /\ \A f \in Edge : rep'[f].pc # "idle" => rep'[f].mode \in Mode
    BY <1>r, <2>1, <2>2, <2>3
  <2>5. rows' \in RowsOf(Id)
    BY <1>0, <2>1, <2>2, UpdatedRows, WithRows
  <2> QED BY <1>0, <1>5, <2>4, <2>5 DEF ReportRow, TInv, TypeOK, NoEvent
<1>6. CASE ReportDelete(e)
  <2> DEFINE s == NoReport
  <2>1. Report(e, s)
    BY <1>6 DEF ReportDelete
  <2>2. s \in Snapshots
    BY <1>0, NoneType DEF Snapshots
  <2>3. s.pc # "idle" => s.mode \in Mode
    BY <1>0, <1>6, NoneType DEF Snapshots, ReportDelete, NoReport
  <2>4. /\ rep' \in [Edge -> Snapshots]
        /\ \A f \in Edge : rep'[f].pc # "idle" => rep'[f].mode \in Mode
    BY <1>r, <2>1, <2>2, <2>3
  <2>5. rows' \in RowsOf(Id)
    BY <1>0, <1>6, WithoutRows DEF ReportDelete
  <2> QED BY <1>0, <1>6, <2>4, <2>5 DEF ReportDelete, TInv, TypeOK, NoEvent
<1>7. CASE ReportFails(e)
  <2> DEFINE s == (IF r.pc = "mode" THEN [r EXCEPT !.pc = "list"] ELSE NoReport)
  <2>1. Report(e, s)
    BY <1>7 DEF ReportFails
  <2>2. s \in Snapshots
    BY <1>0, NoneType DEF Snapshots
  <2>3. s.pc # "idle" => s.mode \in Mode
    BY <1>0, <1>7, NoneType DEF Snapshots, ReportFails, NoReport
  <2>4. /\ rep' \in [Edge -> Snapshots]
        /\ \A f \in Edge : rep'[f].pc # "idle" => rep'[f].mode \in Mode
    BY <1>r, <2>1, <2>2, <2>3
  <2>5. faults' \in 0 .. MaxFault
    BY <1>0, <1>7, SizeAssumption DEF ReportFails, Fault
  <2> QED BY <1>0, <1>7, <2>4, <2>5 DEF ReportFails, TInv, TypeOK, NoEvent
<1> QED BY <1>1, <1>2, <1>3, <1>4, <1>5, <1>6, <1>7 DEF ReportStep

\* The types are an invariant, for any number of handlers and with edges reporting.
THEOREM TypeCorrect == Spec => []TypeOK
<1>1. TInv /\ [Next]_vars => TInv'
  <2> SUFFICES ASSUME TInv, [Next]_vars PROVE TInv'
    OBVIOUS
  <2>1. CASE Next
    BY <2>1, ActorType, ReportType DEF Next
  <2>2. CASE UNCHANGED vars
    BY <2>2 DEF vars, TInv, TypeOK, Formed
  <2> QED BY <2>1, <2>2
<1>2. Spec => []TInv
  BY TypeInit, <1>1, PTL DEF Spec
<1>3. TInv => TypeOK
  BY DEF TInv
<1> QED BY <1>2, <1>3, PTL

-----------------------------------------------------------------------------
(* One handler at a time, and no reports. *)

\* Which steps a request has, and its edges: waiting, taken and failed, disjoint.
Shape(j) ==
    /\ j.pc = "idle" <=> j.what = "none"
    /\ j.pc \in {"write", "list"} => j.what \in {"add", "edit"}
    /\ j.pc \in {"body", "bodylist"} => j.what = "full"
    /\ j.pc \in {"body", "bodylist", "post"} => servers = j.todo \cup j.ok \cup j.bad
    /\ j.pc \notin {"body", "bodylist", "post"} => (j.todo = {} /\ j.ok = {} /\ j.bad = {})
    /\ j.todo \cap j.ok = {} /\ j.todo \cap j.bad = {} /\ j.ok \cap j.bad = {}

\* What a request posts is what the database holds when it ends well.
Bodies(j) ==
    /\ (j.what \in {"add", "edit"} /\ j.pc \in {"edges", "post"}) => j.list = Listed(rows)
    /\ j.what = "remove" => j.list = Listed(Without(j.ids))
    /\ (j.what = "full" /\ j.pc \in {"bodylist", "post"}) => j.mode = mode
    /\ (j.what = "full" /\ j.pc = "post") => j.list = Listed(rows)

\* The edges that have taken it serve it.
Serving(j) ==
    \A e \in j.ok :
       /\ j.what \in {"add", "edit", "remove"} => held[e].list = j.list
       /\ j.what = "mode" => held[e].mode = j.mode
       /\ j.what = "full" => (held[e].list = Listed(rows) /\ held[e].mode = mode)

\* The undo of a request brings back the rows it found.
Undone(j) ==
    /\ (j.what = "remove" \/ j.pc = "write") => j.before = rows
    /\ (j.what = "add" /\ j.pc # "write") => Without(j.ids) = j.before
    /\ (j.what = "edit" /\ j.pc # "write") => \A i \in j.ids : With(i, j.before[i]) = j.before
    /\ j.what = "edit" => (j.ids \subseteq DOMAIN rows /\ \E i \in j.ids : j.ids = {i})

\* Nothing has been posted for the list (for the compression) yet.
Before(j, whats) == j.what \in whats /\ j.ok \cup j.bad = {}

\* What is settled is served, until a request has posted.
Settled(j) ==
    /\ ("list" \in settled /\ j.what \in {"add", "edit"} /\ j.pc # "post")
          => \A e \in servers : held[e].list = Listed(j.before)
    /\ ("list" \in settled /\ (j.what \in {"none", "mode"} \/ Before(j, {"remove"})))
          => \A e \in servers : held[e].list = Listed(rows)
    /\ ("mode" \in settled /\ (j.what \in {"none", "add", "edit", "remove"} \/ Before(j, {"mode"})))
          => \A e \in servers : held[e].mode = mode

SInv(h) ==
    /\ TInv /\ \A e \in Edge : rep[e].pc = "idle"
    /\ Shape(op[h]) /\ Bodies(op[h]) /\ Serving(op[h]) /\ Undone(op[h]) /\ Settled(op[h])

\* A row that is inserted and deleted again leaves the rows as they were.
LEMMA InsertDelete ==
    ASSUME rows \in RowsOf(Id), NEW i, i \notin DOMAIN rows, NEW x, rows' = With(i, x)
    PROVE  Without({i})' = rows
<1>1. rows \in [DOMAIN rows -> Address]
  BY RowsAre
<1>2. DOMAIN rows' = DOMAIN rows \cup {i} /\ \A j \in DOMAIN rows : rows'[j] = rows[j]
  BY <1>1 DEF With
<1>3. Without({i})' = [j \in DOMAIN rows' \ {i} |-> rows'[j]]
  BY DEF Without
<1>4. DOMAIN rows' \ {i} = DOMAIN rows
  BY <1>2
<1> QED BY <1>1, <1>2, <1>3, <1>4

\* A row that is changed and changed back leaves the rows as they were.
LEMMA ChangeBack ==
    ASSUME rows \in RowsOf(Id), NEW i \in DOMAIN rows, NEW x, rows' = With(i, x)
    PROVE  /\ DOMAIN rows' = DOMAIN rows
           /\ [j \in DOMAIN rows' \cup {i} |-> IF j = i THEN rows[i] ELSE rows'[j]] = rows
<1>1. rows \in [DOMAIN rows -> Address]
  BY RowsAre
<1>2. DOMAIN rows' = DOMAIN rows /\ \A j \in DOMAIN rows \ {i} : rows'[j] = rows[j]
  BY <1>1 DEF With
<1> QED BY <1>1, <1>2

\* Nothing is served before the first request.
LEMMA SerialInit == ASSUME NEW h \in Actor, Init PROVE SInv(h)
<1>1. op[h] = NoJob /\ \A e \in Edge : rep[e].pc = "idle"
  BY DEF Init, NoReport
<1>2. Listed(rows) = {}
  BY DEF Init, NoRows, Listed, Range
<1> QED BY <1>1, <1>2, TypeInit DEF Init, NoJob, SInv, Shape, Bodies, Serving, Undone, Before, Settled

\* The undo puts the rows back.
LEMMA UndoRows ==
    ASSUME NEW h \in Actor, op[h].what \in {"add", "edit"} => Undone(op[h]), Shape(op[h]), UndoWrite(h)
    PROVE  rows' = op[h].before
<1> DEFINE o == op[h]
<1>1. o.what \in {"add", "edit"} /\ o.pc # "write"
  BY DEF UndoWrite, Undoes, Refused, Posted
<1>2. CASE o.what = "add"
  BY <1>1, <1>2 DEF UndoWrite, Undone
<1>3. CASE o.what = "edit"
  <2>1. PICK i \in o.ids : o.ids = {i} /\ i \in DOMAIN rows /\ With(i, o.before[i]) = o.before
    BY <1>1, <1>3 DEF Undone
  <2>2. (CHOOSE k \in o.ids : TRUE) = i
    BY <2>1
  <2> QED BY <1>3, <2>1, <2>2 DEF UndoWrite, Updated
<1> QED BY <1>1, <1>2, <1>3

\* Every step of the only handler keeps the invariant.
LEMMA SerialStep ==
    ASSUME NEW h, Actor = {h}, SInv(h), Begin(h) \/ Continue(h) \/ Abort(h)
    PROVE  SInv(h)'
<1> DEFINE o == op[h]
           p == op'[h]
<1> USE DEF NoJob
<1>0. /\ op \in [Actor -> Jobs] /\ o \in Jobs /\ h \in Actor /\ Formed(o)
      /\ rows \in RowsOf(Id) /\ mode \in Mode /\ servers \subseteq Edge /\ settled \subseteq Part
      /\ held \in [Edge -> [list : SUBSET Address, mode : Mode]]
      /\ Shape(o) /\ Bodies(o) /\ Serving(o) /\ Undone(o) /\ Settled(o)
  BY DEF SInv, TInv, TypeOK
<1>t. TInv'
  BY ActorType DEF SInv
<1>r. \A e \in Edge : rep'[e].pc = "idle"
  <2>1. UNCHANGED rep
    BY DEF Begin, Continue, Abort, BeginAdd, BeginEdit, BeginRemove, BeginMode, BeginFull, WriteRow,
           ListRows, LoadEdges, ReadMode, ReadList, Post, EndWrite, UndoWrite, RemoveRows, StoreMode,
           RestoreMode, GiveUp, Apply
  <2> QED BY <2>1 DEF SInv
<1>1. CASE BeginAdd(h)
  <2>1. PICK x \in Address : p = [NoJob EXCEPT !.pc = "write", !.what = "add", !.to = {x}, !.before = rows]
    BY <1>0, <1>1 DEF BeginAdd, Ready, Job
  <2>2. Shape(op[h])'
    BY <1>0, <1>1, <2>1 DEF BeginAdd, Ready, Shape
  <2>3. Bodies(op[h])'
    BY <1>0, <1>1, <2>1 DEF BeginAdd, Ready, Shape, Bodies, Listed, Without
  <2>4. Serving(op[h])'
    BY <1>0, <1>1, <2>1 DEF BeginAdd, Ready, Shape, Serving, Listed
  <2>5. Undone(op[h])'
    BY <1>0, <1>1, <2>1 DEF BeginAdd, Ready, Shape, Undone, With, Without
  <2>6. Settled(op[h])'
    BY <1>0, <1>1, <2>1 DEF BeginAdd, Ready, Shape, Settled, Before
  <2> QED BY <1>t, <1>r, <2>2, <2>3, <2>4, <2>5, <2>6 DEF SInv
<1>2. CASE BeginEdit(h)
  <2>1. PICK i \in DOMAIN rows, x \in Address :
          p = [NoJob EXCEPT !.pc = "write", !.what = "edit", !.ids = {i}, !.to = {x}, !.before = rows]
    BY <1>0, <1>2 DEF BeginEdit, Ready, Job
  <2>2. Shape(op[h])'
    BY <1>0, <1>2, <2>1 DEF BeginEdit, Ready, Shape
  <2>3. Bodies(op[h])'
    BY <1>0, <1>2, <2>1 DEF BeginEdit, Ready, Shape, Bodies, Listed, Without
  <2>4. Serving(op[h])'
    BY <1>0, <1>2, <2>1 DEF BeginEdit, Ready, Shape, Serving, Listed
  <2>5. Undone(op[h])'
    BY <1>0, <1>2, <2>1 DEF BeginEdit, Ready, Shape, Undone, With, Without
  <2>6. Settled(op[h])'
    BY <1>0, <1>2, <2>1 DEF BeginEdit, Ready, Shape, Settled, Before
  <2> QED BY <1>t, <1>r, <2>2, <2>3, <2>4, <2>5, <2>6 DEF SInv
<1>3. CASE BeginRemove(h)
  <2>1. PICK S \in SUBSET DOMAIN rows :
          p = [NoJob EXCEPT !.pc = "edges", !.what = "remove", !.ids = S,
                            !.list = Listed(Without(S)), !.before = rows]
    BY <1>0, <1>3 DEF BeginRemove, Ready, Job
  <2>2. Shape(op[h])'
    BY <1>0, <1>3, <2>1 DEF BeginRemove, Ready, Shape
  <2>3. Bodies(op[h])'
    BY <1>0, <1>3, <2>1 DEF BeginRemove, Ready, Shape, Bodies, Listed, Without
  <2>4. Serving(op[h])'
    BY <1>0, <1>3, <2>1 DEF BeginRemove, Ready, Shape, Serving, Listed
  <2>5. Undone(op[h])'
    BY <1>0, <1>3, <2>1 DEF BeginRemove, Ready, Shape, Undone, With, Without
  <2>6. Settled(op[h])'
    BY <1>0, <1>3, <2>1 DEF BeginRemove, Ready, Shape, Settled, Before
  <2> QED BY <1>t, <1>r, <2>2, <2>3, <2>4, <2>5, <2>6 DEF SInv
<1>4. CASE BeginMode(h)
  <2>1. PICK m \in Mode : p = [NoJob EXCEPT !.pc = "edges", !.what = "mode", !.mode = m, !.was = mode]
    BY <1>0, <1>4 DEF BeginMode, Ready, Job
  <2>2. Shape(op[h])'
    BY <1>0, <1>4, <2>1 DEF BeginMode, Ready, Shape
  <2>3. Bodies(op[h])'
    BY <1>0, <1>4, <2>1 DEF BeginMode, Ready, Shape, Bodies, Listed, Without
  <2>4. Serving(op[h])'
    BY <1>0, <1>4, <2>1 DEF BeginMode, Ready, Shape, Serving, Listed
  <2>5. Undone(op[h])'
    BY <1>0, <1>4, <2>1 DEF BeginMode, Ready, Shape, Undone, With, Without
  <2>6. Settled(op[h])'
    BY <1>0, <1>4, <2>1 DEF BeginMode, Ready, Shape, Settled, Before
  <2> QED BY <1>t, <1>r, <2>2, <2>3, <2>4, <2>5, <2>6 DEF SInv
<1>5. CASE BeginFull(h)
  <2>1. p = [NoJob EXCEPT !.pc = "edges", !.what = "full"]
    BY <1>0, <1>5 DEF BeginFull, Job
  <2>2. Shape(op[h])'
    BY <1>0, <1>5, <2>1 DEF BeginFull, Shape
  <2>3. Bodies(op[h])'
    BY <1>0, <1>5, <2>1 DEF BeginFull, Shape, Bodies, Listed, Without
  <2>4. Serving(op[h])'
    BY <1>0, <1>5, <2>1 DEF BeginFull, Shape, Serving, Listed
  <2>5. Undone(op[h])'
    BY <1>0, <1>5, <2>1 DEF BeginFull, Shape, Undone, With, Without
  <2>6. Settled(op[h])'
    BY <1>0, <1>5, <2>1 DEF BeginFull, Shape, Settled, Before
  <2> QED BY <1>t, <1>r, <2>2, <2>3, <2>4, <2>5, <2>6 DEF SInv
<1>6. CASE WriteRow(h)
  <2>1. PICK x \in o.to :
          \/ o.what = "add" /\ \E i \in Id :
                Fresh(i) /\ rows' = With(i, x) /\ p = [o EXCEPT !.pc = "list", !.ids = {i}]
          \/ o.what = "edit" /\ (\E i \in o.ids : rows' = Updated(i, x)) /\ p = [o EXCEPT !.pc = "list"]
    BY <1>0, <1>6 DEF WriteRow, Job
  <2>2. /\ p.pc = "list" /\ p.what = o.what /\ p.what \in {"add", "edit"}
          /\ p.before = rows /\ o.before = rows
        /\ p.todo = {} /\ p.ok = {} /\ p.bad = {}
    BY <1>0, <1>6, <2>1 DEF WriteRow, Jobs, Shape, Undone
  <2>3. Undone(op[h])'
    <3>1. CASE o.what = "add"
      <4>1. PICK i \in Id : Fresh(i) /\ rows' = With(i, x) /\ p.ids = {i}
        BY <1>0, <2>1, <3>1 DEF Jobs
      <4>2. i \notin DOMAIN rows
        BY <4>1 DEF Fresh, InUse
      <4>3. Without({i})' = rows
        BY <1>0, <4>1, <4>2, InsertDelete
      <4>4. Without(op[h].ids)' = rows
        BY <4>1, <4>3
      <4> QED BY <2>2, <3>1, <4>4 DEF Undone
    <3>2. CASE o.what = "edit"
      <4>1. PICK i \in o.ids : rows' = Updated(i, x)
        BY <2>1, <3>2
      <4>2. p.ids = {i} /\ i \in DOMAIN rows
        BY <1>0, <2>1, <3>2, <4>1 DEF Jobs, Undone
      <4>3. /\ DOMAIN rows' = DOMAIN rows
            /\ [j \in DOMAIN rows' \cup {i} |-> IF j = i THEN rows[i] ELSE rows'[j]] = rows
        BY <1>0, <4>1, <4>2, ChangeBack DEF Updated
      <4>4. \A k \in p.ids :
              [j \in DOMAIN rows' \cup {k} |-> IF j = k THEN p.before[k] ELSE rows'[j]] = rows
        BY <2>2, <4>2, <4>3
      <4> QED BY <2>2, <3>2, <4>2, <4>3, <4>4 DEF Undone, With
    <3> QED BY <2>2, <3>1, <3>2
  <2>4. Shape(op[h])' /\ Bodies(op[h])' /\ Serving(op[h])'
    BY <2>2 DEF Shape, Bodies, Serving
  <2>5. Settled(op[h])'
    BY <1>0, <1>6, <2>2 DEF WriteRow, Shape, Settled, Before
  <2> QED BY <1>t, <1>r, <2>3, <2>4, <2>5 DEF SInv
<1>7. CASE ListRows(h)
  <2>1. p = [o EXCEPT !.pc = "edges", !.list = Listed(rows)]
    BY <1>0, <1>7 DEF ListRows, Job
  <2>2. Shape(op[h])'
    BY <1>0, <1>7, <2>1 DEF ListRows, Shape
  <2>3. Bodies(op[h])'
    BY <1>0, <1>7, <2>1 DEF ListRows, Shape, Bodies, Listed, Without
  <2>4. Serving(op[h])'
    BY <1>0, <1>7, <2>1 DEF ListRows, Shape, Serving, Listed
  <2>5. Undone(op[h])'
    BY <1>0, <1>7, <2>1 DEF ListRows, Shape, Undone, With, Without, Jobs
  <2>6. Settled(op[h])'
    BY <1>0, <1>7, <2>1 DEF ListRows, Shape, Settled, Before
  <2> QED BY <1>t, <1>r, <2>2, <2>3, <2>4, <2>5, <2>6 DEF SInv
<1>8. CASE LoadEdges(h)
  <2>1. p = [o EXCEPT !.pc = IF o.what = "full" THEN "body" ELSE "post", !.todo = servers]
    BY <1>0, <1>8 DEF LoadEdges, Job
  <2>2. Shape(op[h])'
    BY <1>0, <1>8, <2>1 DEF LoadEdges, Shape
  <2>3. Bodies(op[h])'
    BY <1>0, <1>8, <2>1 DEF LoadEdges, Shape, Bodies, Listed, Without
  <2>4. Serving(op[h])'
    BY <1>0, <1>8, <2>1 DEF LoadEdges, Shape, Serving, Listed
  <2>5. Undone(op[h])'
    <3>1. p.pc \in {"body", "post"} /\ p.what = o.what /\ p.ids = o.ids /\ p.before = o.before
      BY <1>0, <2>1 DEF Jobs
    <3>2. o.pc # "write" /\ rows' = rows
      BY <1>8 DEF LoadEdges
    <3> QED BY <1>0, <3>1, <3>2 DEF Undone, With, Without
  <2>6. Settled(op[h])'
    BY <1>0, <1>8, <2>1 DEF LoadEdges, Shape, Settled, Before
  <2> QED BY <1>t, <1>r, <2>2, <2>3, <2>4, <2>5, <2>6 DEF SInv
<1>9. CASE ReadMode(h)
  <2>1. p = [o EXCEPT !.pc = "bodylist", !.mode = mode]
    BY <1>0, <1>9 DEF ReadMode, Job
  <2>2. Shape(op[h])'
    BY <1>0, <1>9, <2>1 DEF ReadMode, Shape
  <2>3. Bodies(op[h])'
    BY <1>0, <1>9, <2>1 DEF ReadMode, Shape, Bodies, Listed, Without
  <2>4. Serving(op[h])'
    BY <1>0, <1>9, <2>1 DEF ReadMode, Shape, Serving, Listed
  <2>5. Undone(op[h])'
    BY <1>0, <1>9, <2>1 DEF ReadMode, Shape, Undone, With, Without, Jobs
  <2>6. Settled(op[h])'
    BY <1>0, <1>9, <2>1 DEF ReadMode, Shape, Settled, Before
  <2> QED BY <1>t, <1>r, <2>2, <2>3, <2>4, <2>5, <2>6 DEF SInv
<1>10. CASE ReadList(h)
  <2>1. p = [o EXCEPT !.pc = "post", !.list = Listed(rows)]
    BY <1>0, <1>10 DEF ReadList, Job
  <2>2. Shape(op[h])'
    BY <1>0, <1>10, <2>1 DEF ReadList, Shape
  <2>3. Bodies(op[h])'
    BY <1>0, <1>10, <2>1 DEF ReadList, Shape, Bodies, Listed, Without
  <2>4. Serving(op[h])'
    BY <1>0, <1>10, <2>1 DEF ReadList, Shape, Serving, Listed
  <2>5. Undone(op[h])'
    BY <1>0, <1>10, <2>1 DEF ReadList, Shape, Undone, With, Without, Jobs
  <2>6. Settled(op[h])'
    BY <1>0, <1>10, <2>1 DEF ReadList, Shape, Settled, Before
  <2> QED BY <1>t, <1>r, <2>2, <2>3, <2>4, <2>5, <2>6 DEF SInv
<1>11. CASE Post(h)
  <2>1. PICK e \in o.todo :
          \/ held' = [held EXCEPT ![e] = Effect(h, @)] /\ Answered(h, e, TRUE)
          \/ held' \in {held, [held EXCEPT ![e] = Effect(h, @)]} /\ Answered(h, e, FALSE)
    BY <1>11 DEF Post
  <2>2. /\ o.pc = "post" /\ e \in Edge /\ e \notin o.ok /\ e \in servers
        /\ rows' = rows /\ mode' = mode /\ servers' = servers /\ settled' = settled
    BY <1>0, <1>11, <2>1 DEF Post, Jobs, Shape
  <2>3. /\ p.pc = (IF o.what = "full" THEN "body" ELSE "post") /\ p.what = o.what /\ p.ids = o.ids
        /\ p.list = o.list /\ p.mode = o.mode /\ p.before = o.before /\ p.todo = o.todo \ {e}
    <3>1. PICK how \in BOOLEAN : Answered(h, e, how)
      BY <2>1
    <3> QED BY <1>0, <3>1 DEF Answered, Job, Jobs
  <2>4. \/ p.ok = o.ok \cup {e} /\ p.bad = o.bad /\ held'[e] = Effect(h, held[e])
        \/ p.ok = o.ok /\ p.bad = o.bad \cup {e} /\ held'[e] \in {held[e], Effect(h, held[e])}
    <3>1. CASE held' = [held EXCEPT ![e] = Effect(h, @)] /\ Answered(h, e, TRUE)
      BY <1>0, <2>2, <3>1 DEF Answered, Job, Jobs
    <3>2. CASE held' \in {held, [held EXCEPT ![e] = Effect(h, @)]} /\ Answered(h, e, FALSE)
      BY <1>0, <2>2, <3>2 DEF Answered, Job, Jobs
    <3> QED BY <2>1, <3>1, <3>2
  <2>5. \A f \in Edge \ {e} : held'[f] = held[f]
    BY <1>0, <2>1, <2>2
  <2>6. Shape(op[h])'
    BY <1>0, <2>1, <2>2, <2>3, <2>4 DEF Shape
  <2>7. Bodies(op[h])'
    <3>1. Without(op[h].ids)' = Without(o.ids) /\ Listed(rows)' = Listed(rows)
      BY <2>2, <2>3 DEF Without, Listed
    <3>2. Listed(Without(op[h].ids))' = Listed(Without(o.ids))
      BY <3>1, <2>2, <2>3 DEF Listed, Without
    <3> QED BY <1>0, <2>2, <2>3, <3>1, <3>2 DEF Bodies
  <2>8. Serving(op[h])'
    <3>1. Effect(h, held[e]).list = (IF o.what = "mode" THEN held[e].list ELSE o.list)
          /\ Effect(h, held[e]).mode = (IF o.what \in {"mode", "full"} THEN o.mode ELSE held[e].mode)
      BY DEF Effect
    <3>2. o.what = "full" => (o.list = Listed(rows) /\ o.mode = mode)
      BY <1>0, <2>2 DEF Bodies
    <3>3. o.ok \subseteq Edge
      BY <1>0 DEF Jobs
    <3>4. ASSUME NEW f \in p.ok
          PROVE  /\ p.what \in {"add", "edit", "remove"} => held'[f].list = p.list
                 /\ p.what = "mode" => held'[f].mode = p.mode
                 /\ p.what = "full" => (held'[f].list = Listed(rows)' /\ held'[f].mode = mode')
      <4>1. Listed(rows)' = Listed(rows)
        BY <2>2 DEF Listed
      <4>2. CASE f = e
        BY <2>2, <2>3, <2>4, <3>1, <3>2, <4>1, <4>2
      <4>3. CASE f # e
        <5>1. f \in o.ok /\ held'[f] = held[f]
          BY <2>4, <2>5, <3>3, <3>4, <4>3
        <5> QED BY <1>0, <2>2, <2>3, <4>1, <5>1 DEF Serving
      <4> QED BY <4>2, <4>3
    <3> QED BY <3>4 DEF Serving
  <2>9. Undone(op[h])'
    BY <1>0, <2>2, <2>3 DEF Undone, With, Without
  <2>10. Settled(op[h])'
    <3>1. Listed(rows)' = Listed(rows) /\ e \in p.ok \cup p.bad /\ servers \subseteq Edge
      BY <1>0, <2>2, <2>4 DEF Listed
    <3>2. o.what = "mode" => \A f \in Edge : held'[f].list = held[f].list
      BY <2>4, <2>5 DEF Effect
    <3>3. o.what \in {"add", "edit", "remove"} => \A f \in Edge : held'[f].mode = held[f].mode
      BY <2>4, <2>5 DEF Effect
    <3> QED BY <1>0, <2>2, <2>3, <3>1, <3>2, <3>3 DEF Settled, Before, Shape
  <2> QED BY <1>t, <1>r, <2>6, <2>7, <2>8, <2>9, <2>10 DEF SInv
<1>12. CASE EndWrite(h)
  <2>1. p = NoJob
    BY <1>0, <1>12 DEF EndWrite, EndsWell, Job
  <2>2. Shape(op[h])'
    BY <1>0, <1>12, <2>1 DEF EndWrite, Taken, Posted, EndsWell, Parts, Shape
  <2>3. Bodies(op[h])'
    BY <1>0, <1>12, <2>1 DEF EndWrite, Taken, Posted, EndsWell, Parts, Shape, Bodies, Listed, Without
  <2>4. Serving(op[h])'
    BY <1>0, <1>12, <2>1 DEF EndWrite, Taken, Posted, EndsWell, Parts, Shape, Serving, Listed
  <2>5. Undone(op[h])'
    BY <1>0, <1>12, <2>1 DEF EndWrite, Taken, Posted, EndsWell, Parts, Shape, Undone, With, Without
  <2>6. Settled(op[h])'
    BY <1>0, <1>12, <2>1 DEF EndWrite, Taken, Posted, EndsWell, Parts, Shape, Bodies, Serving, Settled, Before
  <2> QED BY <1>t, <1>r, <2>2, <2>3, <2>4, <2>5, <2>6 DEF SInv
<1>13. CASE UndoWrite(h)
  <2>1. /\ p = NoJob /\ o.pc # "write" /\ o.what \in {"add", "edit"}
        /\ servers' = servers /\ held' = held /\ mode' = mode
        /\ "list" \in settled' => ("list" \in settled /\ o.pc # "post")
        /\ "mode" \in settled' => "mode" \in settled
    BY <1>0, <1>13 DEF UndoWrite, Undoes, Refused, Posted, EndsBadly, Job, Parts
  <2>2. rows' = o.before
    BY <1>0, <1>13, UndoRows
  <2>3. Shape(op[h])' /\ Bodies(op[h])' /\ Serving(op[h])'
    BY <2>1 DEF Shape, Bodies, Serving
  <2>4. Undone(op[h])'
    BY <2>1 DEF Undone
  <2>5. Settled(op[h])'
    BY <1>0, <2>1, <2>2 DEF Settled, Before
  <2> QED BY <1>t, <1>r, <2>3, <2>4, <2>5 DEF SInv
<1>14. CASE RemoveRows(h)
  <2>1. p = NoJob
    BY <1>0, <1>14 DEF RemoveRows, EndsWell, Job
  <2>2. Shape(op[h])'
    BY <1>0, <1>14, <2>1 DEF RemoveRows, Taken, Posted, EndsWell, Parts, Shape
  <2>3. Bodies(op[h])'
    BY <1>0, <1>14, <2>1 DEF RemoveRows, Taken, Posted, EndsWell, Parts, Shape, Bodies, Listed, Without
  <2>4. Serving(op[h])'
    BY <1>0, <1>14, <2>1 DEF RemoveRows, Taken, Posted, EndsWell, Parts, Shape, Serving, Listed
  <2>5. Undone(op[h])'
    BY <1>0, <1>14, <2>1 DEF RemoveRows, Taken, Posted, EndsWell, Parts, Shape, Undone, With, Without
  <2>6. Settled(op[h])'
    BY <1>0, <1>14, <2>1
    DEF RemoveRows, Taken, Posted, EndsWell, Parts, Shape, Bodies, Serving, Settled, Before
  <2> QED BY <1>t, <1>r, <2>2, <2>3, <2>4, <2>5, <2>6 DEF SInv
<1>15. CASE StoreMode(h)
  <2>1. p = NoJob
    BY <1>0, <1>15 DEF StoreMode, EndsWell, Job
  <2>2. Shape(op[h])'
    BY <1>0, <1>15, <2>1 DEF StoreMode, Taken, Posted, EndsWell, Parts, Shape
  <2>3. Bodies(op[h])'
    BY <1>0, <1>15, <2>1 DEF StoreMode, Taken, Posted, EndsWell, Parts, Shape, Bodies, Listed, Without
  <2>4. Serving(op[h])'
    BY <1>0, <1>15, <2>1 DEF StoreMode, Taken, Posted, EndsWell, Parts, Shape, Serving, Listed
  <2>5. Undone(op[h])'
    BY <1>0, <1>15, <2>1 DEF StoreMode, Taken, Posted, EndsWell, Parts, Shape, Undone, With, Without
  <2>6. Settled(op[h])'
    BY <1>0, <1>15, <2>1 DEF StoreMode, Taken, Posted, EndsWell, Parts, Shape, Serving, Settled, Before
  <2> QED BY <1>t, <1>r, <2>2, <2>3, <2>4, <2>5, <2>6 DEF SInv
<1>16. CASE RestoreMode(h)
  <2>1. p = NoJob
    BY <1>0, <1>16 DEF RestoreMode, EndsBadly, Job
  <2>2. Shape(op[h])'
    BY <1>0, <1>16, <2>1 DEF RestoreMode, Taken, Posted, EndsBadly, Parts, Shape
  <2>3. Bodies(op[h])'
    BY <1>0, <1>16, <2>1 DEF RestoreMode, Taken, Posted, EndsBadly, Parts, Shape, Bodies, Listed, Without
  <2>4. Serving(op[h])'
    BY <1>0, <1>16, <2>1 DEF RestoreMode, Taken, Posted, EndsBadly, Parts, Shape, Serving, Listed
  <2>5. Undone(op[h])'
    BY <1>0, <1>16, <2>1 DEF RestoreMode, Taken, Posted, EndsBadly, Parts, Shape, Undone, With, Without
  <2>6. Settled(op[h])'
    BY <1>0, <1>16, <2>1 DEF RestoreMode, Taken, Posted, EndsBadly, Parts, Shape, Settled, Before
  <2> QED BY <1>t, <1>r, <2>2, <2>3, <2>4, <2>5, <2>6 DEF SInv
<1>17. CASE GiveUp(h)
  <2>1. p = NoJob
    BY <1>0, <1>17 DEF GiveUp, EndsBadly, Job
  <2>2. Shape(op[h])'
    BY <1>0, <1>17, <2>1 DEF GiveUp, Refused, Posted, EndsBadly, Parts, Shape
  <2>3. Bodies(op[h])'
    BY <1>0, <1>17, <2>1 DEF GiveUp, Refused, Posted, EndsBadly, Parts, Shape, Bodies, Listed, Without
  <2>4. Serving(op[h])'
    BY <1>0, <1>17, <2>1 DEF GiveUp, Refused, Posted, EndsBadly, Parts, Shape, Serving, Listed
  <2>5. Undone(op[h])'
    BY <1>0, <1>17, <2>1 DEF GiveUp, Refused, Posted, EndsBadly, Parts, Shape, Undone, With, Without
  <2>6. Settled(op[h])'
    BY <1>0, <1>17, <2>1 DEF GiveUp, Refused, Posted, EndsBadly, Parts, Shape, Settled, Before
  <2> QED BY <1>t, <1>r, <2>2, <2>3, <2>4, <2>5, <2>6 DEF SInv
<1>18. CASE Apply(h)
  <2>1. p = NoJob
    BY <1>0, <1>18 DEF Apply, EndsWell, Job
  <2>2. Shape(op[h])'
    BY <1>0, <1>18, <2>1 DEF Apply, Posted, EndsWell, Parts, Shape
  <2>3. Bodies(op[h])'
    BY <1>0, <1>18, <2>1 DEF Apply, Posted, EndsWell, Parts, Shape, Bodies, Listed, Without
  <2>4. Serving(op[h])'
    BY <1>0, <1>18, <2>1 DEF Apply, Posted, EndsWell, Parts, Shape, Serving, Listed
  <2>5. Undone(op[h])'
    BY <1>0, <1>18, <2>1 DEF Apply, Posted, EndsWell, Parts, Shape, Undone, With, Without
  <2>6. Settled(op[h])'
    BY <1>0, <1>18, <2>1 DEF Apply, Posted, EndsWell, Parts, Shape, Serving, Settled, Before
  <2> QED BY <1>t, <1>r, <2>2, <2>3, <2>4, <2>5, <2>6 DEF SInv
<1>19. CASE Abort(h)
  <2>1. p = NoJob
    BY <1>0, <1>19 DEF Abort, EndsBadly, Job
  <2>2. Shape(op[h])'
    BY <1>0, <1>19, <2>1 DEF Abort, EndsBadly, Parts, Untouched, Shape
  <2>3. Bodies(op[h])'
    BY <1>0, <1>19, <2>1 DEF Abort, EndsBadly, Parts, Untouched, Shape, Bodies, Listed, Without
  <2>4. Serving(op[h])'
    BY <1>0, <1>19, <2>1 DEF Abort, EndsBadly, Parts, Untouched, Shape, Serving, Listed
  <2>5. Undone(op[h])'
    BY <1>0, <1>19, <2>1 DEF Abort, EndsBadly, Parts, Untouched, Shape, Undone, With, Without
  <2>6. Settled(op[h])'
    <3>1. servers' = servers /\ held' = held /\ Listed(rows)' = Listed(rows) /\ mode' = mode
      BY <1>19 DEF Abort, Listed
    <3>2. CASE Untouched(h)
      <4>1. settled' = settled /\ (o.pc = "write" \/ Before(o, {"remove", "mode"}))
        BY <1>19, <3>2 DEF Abort, Untouched, Before
      <4>2. o.pc = "write" => (o.before = rows /\ o.what \in {"add", "edit"})
        BY <1>0 DEF Undone, Shape
      <4> QED BY <1>0, <2>1, <3>1, <4>1, <4>2 DEF Settled, Before
    <3>3. CASE ~Untouched(h)
      <4>1. settled' = settled \ Parts(h) /\ o.pc # "idle"
        BY <1>19, <3>3 DEF Abort, EndsBadly
      <4>2. o.what \in {"add", "edit", "remove"} => "list" \in Parts(h)
        BY DEF Parts
      <4>3. o.what = "mode" => "mode" \in Parts(h)
        BY DEF Parts
      <4>4. o.what = "full" => Parts(h) = {"list", "mode"}
        BY DEF Parts, Part
      <4>5. o.what \in {"add", "edit", "remove", "mode", "full"}
        BY <1>0, <4>1 DEF Shape, Jobs
      <4> QED BY <1>0, <2>1, <3>1, <4>1, <4>2, <4>3, <4>4, <4>5 DEF Settled, Before
    <3> QED BY <3>2, <3>3
  <2> QED BY <1>t, <1>r, <2>2, <2>3, <2>4, <2>5, <2>6 DEF SInv
<1> QED BY <1>1, <1>2, <1>3, <1>4, <1>5, <1>6, <1>7, <1>8, <1>9, <1>10, <1>11, <1>12,
           <1>13, <1>14, <1>15, <1>16, <1>17, <1>18, <1>19 DEF Begin, Continue

\* While nothing is reported, no report takes a step.
LEMMA NoReportSteps ==
    ASSUME NEW h, SInv(h), Reports = FALSE, NEW e \in Edge
    PROVE  ~ReportStep(e) /\ ~ReportFails(e)
BY DEF SInv, ReportStep, ReportFails, SendReport, CheckReport, ReportMode, ReportList, ReportRow,
       ReportDelete

\* SInv is an invariant while one handler runs at a time and nothing is reported.
LEMMA Serial == ASSUME NEW h, Actor = {h}, Reports = FALSE PROVE Spec => []SInv(h)
<1>1. Init => SInv(h)
  BY SerialInit
<1>2. SInv(h) /\ [Next]_vars => SInv(h)'
  <2> SUFFICES ASSUME SInv(h), [Next]_vars PROVE SInv(h)'
    OBVIOUS
  <2>1. CASE Next
    BY <2>1, SerialStep, NoReportSteps DEF Next
  <2>2. CASE UNCHANGED vars
    <3>1. TInv' /\ \A e \in Edge : rep'[e].pc = "idle"
      BY <2>2 DEF vars, SInv, TInv, TypeOK, Formed
    <3>2. Shape(op[h])'
      BY <2>2 DEF vars, SInv, Shape
    <3>3. Bodies(op[h])'
      BY <2>2 DEF vars, SInv, Bodies, Listed, Without
    <3>4. Serving(op[h])'
      BY <2>2 DEF vars, SInv, Serving, Listed
    <3>5. Undone(op[h])'
      BY <2>2 DEF vars, SInv, Undone, With, Without
    <3>6. Settled(op[h])'
      BY <2>2 DEF vars, SInv, Settled, Before, Listed
    <3> QED BY <3>1, <3>2, <3>3, <3>4, <3>5, <3>6 DEF SInv
  <2> QED BY <2>1, <2>2
<1> QED BY <1>1, <1>2, PTL DEF Spec

\* One request at a time that ended well leaves every assigned edge with what the database
\* holds, whatever failed before it.
THEOREM SerialAligned ==
    ASSUME NEW h, Actor = {h}, Reports = FALSE PROVE Spec => []SuccessMeansAligned
<1>1. SInv(h) => SuccessMeansAligned
  BY DEF SInv, Shape, Settled, SuccessMeansAligned, Quiet
<1> QED BY <1>1, Serial, PTL

\* One request at a time that an edge refused leaves the rows as it found them.
THEOREM SerialUndone ==
    ASSUME NEW h, Actor = {h}, Reports = FALSE PROVE Spec => RefusedChangeIsUndone
<1> DEFINE Ended == /\ op[h].what \in {"add", "edit", "remove"} /\ op'[h].pc = "idle"
                    /\ \/ Refused(h) /\ faults' = faults
                       \/ op[h].pc \in {"list", "edges"} /\ "list" \in settled'
<1>1. ASSUME SInv(h), Next, Ended PROVE rows' = op[h].before
  <2> DEFINE o == op[h]
  <2>0. /\ h \in Actor /\ op \in [Actor -> Jobs] /\ o \in Jobs /\ Shape(o) /\ Undone(o)
        /\ o.pc \in {"list", "edges", "post"} /\ faults \in 0 .. MaxFault
    BY <1>1 DEF SInv, TInv, TypeOK, Shape, Refused, Posted, Jobs
  <2>1. Continue(h) \/ Abort(h)
    BY <1>1, <2>0, NoReportSteps DEF Next, Begin, BeginAdd, BeginEdit, BeginRemove, BeginMode,
           BeginFull, Ready
  <2>2. CASE UndoWrite(h)
    BY <2>0, <2>2, UndoRows
  <2>3. CASE GiveUp(h)
    BY <1>1, <2>0, <2>3 DEF GiveUp, Undone
  <2>4. CASE Abort(h)
    <3>1. Fault /\ rows' = rows
      BY <2>4 DEF Abort
    <3>2. faults' # faults
      BY <2>0, <3>1 DEF Fault
    <3>3. CASE Untouched(h)
      BY <1>1, <2>0, <3>1, <3>3 DEF Untouched, Undone
    <3>4. CASE ~Untouched(h)
      BY <1>1, <2>4, <3>2, <3>4 DEF Abort, EndsBadly, Parts
    <3> QED BY <3>3, <3>4
  <2>5. CASE Taken(h) \/ o.pc \in {"write", "body", "bodylist"} \/ o.what \in {"mode", "full"}
    BY <1>1, <2>0, <2>5 DEF Taken, Posted, Refused
  <2>6. CASE ListRows(h) \/ LoadEdges(h) \/ Post(h)
    <3>1. ListRows(h) => op'[h].pc # "idle"
      BY <2>0 DEF ListRows, Job, Jobs
    <3>2. LoadEdges(h) => op'[h].pc # "idle"
      BY <2>0 DEF LoadEdges, Job, Jobs
    <3>3. ASSUME Post(h) PROVE op'[h].pc # "idle"
      <4>1. PICK e \in Edge, how \in BOOLEAN : Answered(h, e, how)
        BY <2>0, <3>3 DEF Post, Jobs
      <4> QED BY <2>0, <4>1 DEF Answered, Job, Jobs
    <3> QED BY <1>1, <2>6, <3>1, <3>2, <3>3
  <2>7. \/ UndoWrite(h) \/ GiveUp(h) \/ ListRows(h) \/ LoadEdges(h) \/ Post(h)
        \/ Taken(h) \/ o.pc \in {"write", "body", "bodylist"} \/ o.what \in {"mode", "full"}
        \/ Abort(h)
    BY <2>1 DEF Continue, WriteRow, ReadMode, ReadList, EndWrite, RemoveRows, StoreMode, RestoreMode, Apply
  <2> QED BY <2>2, <2>3, <2>4, <2>5, <2>6, <2>7
<1>2. SInv(h) /\ [Next]_vars =>
        [\A a \in Actor :
           (/\ op[a].what \in {"add", "edit", "remove"} /\ op'[a].pc = "idle"
            /\ \/ Refused(a) /\ faults' = faults
               \/ op[a].pc \in {"list", "edges"} /\ "list" \in settled')
           => rows' = op[a].before]_vars
  BY <1>1
<1> QED BY <1>2, Serial, PTL DEF Spec, RefusedChangeIsUndone

-----------------------------------------------------------------------------
(* The settings of a server.  A report rewrites the white list only; the black *)
(* list and the edge change with the handler's calls and statements.  What      *)
(* holds between a call and its statement is said of the handler (Due): a        *)
(* removal still has the row it was asked for, and the edge is rid of the        *)
(* address before the row goes.  A new row must not take the place of another,   *)
(* so the ids in use must stay finitely many (Finite), of a supply that is not.  *)

\* One request to the panel at a time.
OneHandler == \A c, d \in Desk : c = d

\* AUTO_INCREMENT does not run out.
IdsLast == ~IsFiniteSet(RowId)

TaskFields == {"pc", "what", "table", "ids", "item", "list", "values", "before"}
SheetFields == {"pc", "edge", "row", "seen", "todo", "synced"}
EdgeFields == {"white", "black", "l4", "guard", "ports", "serves"}

\* What a handler may be asked.
ListWork == {"add", "remove", "clear"}
Work == ListWork \cup {"l4", "guard", "port", "move", "close", "choose", "site"}

Shapes ==
    /\ desk = [d \in Desk |-> desk[d]] /\ \A d \in Desk : DOMAIN desk[d] = TaskFields
    /\ DOMAIN sheet = SheetFields
    /\ DOMAIN edge = EdgeFields
    /\ DOMAIN lists = Table

Finite ==
    /\ IsFiniteSet(DOMAIN lists["black"])
    /\ IsFiniteSet(DOMAIN ports) /\ IsFiniteSet(chosen)
    /\ IsFiniteSet(DOMAIN sheet.seen)
    /\ \A d \in Desk : IsFiniteSet(desk[d].ids)

\* Between the call and the statement of a change of the black list.
Due(j) ==
    /\ j.table \in Table
    /\ j.pc = "call" => j.what \in Work
    /\ j.pc \in {"write", "list", "undo"} => j.what \in Work \ ListWork
    /\ j.what = "add" => \E h \in Host : j.item = {h}
    /\ j.what = "remove" /\ j.table = "black" /\ j.pc \in {"call", "store"}
       => \A i \in j.ids \cap DOMAIN lists["black"] : lists["black"][i] \in j.item
    /\ j.what = "remove" /\ j.table = "black" /\ j.pc = "store" => j.item \cap edge.black = {}
    /\ j.what = "clear" /\ j.table = "black" /\ j.pc = "store" => edge.black = {}

\* NothingBlocksUnseen, address by address.
Seen ==
    \A x \in edge.black :
        \/ x \in Range(lists["black"]) \/ x \in doubt
        \/ \E d \in Desk : desk[d].pc = "store" /\ Blacklists(d) /\ x \in desk[d].item

BlockInv ==
    /\ Shapes /\ Finite /\ Seen
    /\ \A d \in Desk : Due(desk[d])

-----------------------------------------------------------------------------
(* Lemmas about the operators of the model. *)

\* A row that is put.
LEMMA PutIs ==
    ASSUME NEW f, NEW i, NEW x
    PROVE  /\ DOMAIN Put(f, i, x) = DOMAIN f \cup {i} /\ Put(f, i, x)[i] = x
           /\ \A j \in DOMAIN f : j # i => Put(f, i, x)[j] = f[j]
           /\ IsFiniteSet(DOMAIN f) => IsFiniteSet(DOMAIN Put(f, i, x))
<1>1. DOMAIN Put(f, i, x) = DOMAIN f \cup {i}
  BY DEF Put
<1>2. IsFiniteSet(DOMAIN f) => IsFiniteSet(DOMAIN f \cup {i})
  BY FS_AddElement
<1> QED BY <1>1, <1>2 DEF Put

\* Rows that are dropped.
LEMMA DropIs ==
    ASSUME NEW f, NEW S
    PROVE  /\ DOMAIN Drop(f, S) = DOMAIN f \ S
           /\ \A j \in DOMAIN f \ S : Drop(f, S)[j] = f[j]
           /\ IsFiniteSet(DOMAIN f) => IsFiniteSet(DOMAIN Drop(f, S))
<1>1. DOMAIN Drop(f, S) = DOMAIN f \ S
  BY DEF Drop
<1>2. IsFiniteSet(DOMAIN f) => IsFiniteSet(DOMAIN f \ S)
  BY FS_Subset
<1> QED BY <1>1, <1>2 DEF Drop

\* The ids in use are finitely many.
LEMMA HeldFinite == ASSUME Finite, OneHandler PROVE IsFiniteSet(Held)
<1> DEFINE ids == UNION {desk[d].ids : d \in Desk}
<1>1. IsFiniteSet(ids)
  <2>1. CASE Desk = {}
    <3>1. ids = {}
      BY <2>1
    <3> QED BY <3>1, FS_EmptySet
  <2>2. CASE Desk # {}
    <3>1. PICK d : d \in Desk
      BY <2>2
    <3>2. ids = desk[d].ids
      BY <3>1 DEF OneHandler
    <3> QED BY <3>1, <3>2 DEF Finite
  <2> QED BY <2>1, <2>2
<1>2. IsFiniteSet(ids \cup DOMAIN sheet.seen)
  BY <1>1, FS_Union DEF Finite
<1>3. IsFiniteSet(ids \cup DOMAIN sheet.seen \cup chosen)
  BY <1>2, FS_Union DEF Finite
<1> QED BY <1>3 DEF Held

\* A new row takes no row's place.
LEMMA NextIdIsFresh ==
    ASSUME Finite, OneHandler, IdsLast, NEW f, IsFiniteSet(DOMAIN f)
    PROVE  NextId(f) \notin DOMAIN f
<1>1. IsFiniteSet(DOMAIN f \cup Held)
  BY HeldFinite, FS_Union
<1>2. \E i \in RowId : i \notin DOMAIN f \cup Held
  <2> SUFFICES ASSUME RowId \subseteq DOMAIN f \cup Held PROVE FALSE
    OBVIOUS
  <2> QED BY <1>1, FS_Subset DEF IdsLast
<1> QED BY <1>2 DEF NextId

-----------------------------------------------------------------------------
(* Steps that leave the black list alone. *)

\* A handler is given a task.
LEMMA TaskSet ==
    ASSUME Shapes, NEW d \in Desk, NEW j, DOMAIN j = TaskFields, Sets(d, j)
    PROVE  /\ desk' = [c \in Desk |-> desk'[c]] /\ desk'[d] = j
           /\ \A c \in Desk : DOMAIN desk'[c] = TaskFields
           /\ \A c \in Desk \ {d} : desk'[c] = desk[c]
<1>1. desk' = [desk EXCEPT ![d] = j] /\ DOMAIN desk = Desk
  BY DEF Sets, Shapes
<1>2. desk' = [c \in Desk |-> IF c = d THEN j ELSE desk[c]]
  BY <1>1
<1> QED BY <1>2 DEF Shapes

\* A handler goes on, and neither the edge nor the black list changes.
LEMMA HandlerQuiet ==
    ASSUME BlockInv, OneHandler, NEW d \in Desk, NEW j, DOMAIN j = TaskFields, Sets(d, j),
           UNCHANGED <<edge, sheet>>, doubt \subseteq doubt', DOMAIN lists' = Table,
           lists'["black"] = lists["black"], IsFiniteSet(j.ids), Due(j),
           IsFiniteSet(DOMAIN ports'), IsFiniteSet(chosen'),
           desk[d].pc = "store" /\ Blacklists(d) => desk[d].item \subseteq doubt'
    PROVE  BlockInv'
<1>1. /\ desk' = [c \in Desk |-> desk'[c]] /\ desk'[d] = j /\ \A c \in Desk : DOMAIN desk'[c] = TaskFields
      /\ \A c \in Desk : c = d
  BY TaskSet DEF BlockInv, OneHandler
<1>2. Shapes'
  BY <1>1 DEF BlockInv, Shapes
<1>3. Finite'
  BY <1>1 DEF BlockInv, Finite
<1>4. Seen'
  <2> SUFFICES ASSUME NEW x \in edge.black
               PROVE  x \in Range(lists["black"])' \/ x \in doubt'
    BY DEF Seen
  <2>1. \/ x \in Range(lists["black"]) \/ x \in doubt
        \/ desk[d].pc = "store" /\ Blacklists(d) /\ x \in desk[d].item
    BY <1>1 DEF BlockInv, Seen
  <2> QED BY <2>1
<1>5. \A c \in Desk : Due(desk[c])'
  BY <1>1 DEF Due
<1> QED BY <1>2, <1>3, <1>4, <1>5 DEF BlockInv

\* A step of a report changes neither the edge nor the black list.
LEMMA ReportQuiet ==
    ASSUME BlockInv, UNCHANGED <<edge, desk, doubt>>, DOMAIN lists' = Table, lists'["black"] = lists["black"],
           DOMAIN sheet' = SheetFields, IsFiniteSet(DOMAIN sheet'.seen),
           IsFiniteSet(DOMAIN ports'), IsFiniteSet(chosen')
    PROVE  BlockInv'
<1>2. Shapes'
  BY DEF BlockInv, Shapes
<1>3. Finite'
  BY DEF BlockInv, Finite
<1>4. Seen'
  BY DEF BlockInv, Seen, Blacklists
<1>5. \A c \in Desk : Due(desk[c])'
  BY DEF BlockInv, Due
<1> QED BY <1>2, <1>3, <1>4, <1>5 DEF BlockInv

\* Having nothing to do.
LEMMA NoTaskIs ==
    /\ DOMAIN NoTask = TaskFields /\ IsFiniteSet(NoTask.ids) /\ Due(NoTask)
    /\ NoTask.pc = "idle" /\ NoTask.table = "white" /\ NoTask.what = "none"
    /\ DOMAIN NoSheet = SheetFields /\ IsFiniteSet(DOMAIN NoSheet.seen)
<1>1. DOMAIN NoTask = TaskFields /\ NoTask.pc = "idle" /\ NoTask.ids = {} /\ NoTask.table = "white" /\ NoTask.what = "none"
  BY DEF NoTask, TaskFields
<1>2. DOMAIN NoSheet = SheetFields /\ NoSheet.seen = Empty
  BY DEF NoSheet, SheetFields
<1>3. DOMAIN Empty = {}
  BY DEF Empty
<1> QED BY <1>1, <1>2, <1>3, FS_EmptySet DEF Due, Table

-----------------------------------------------------------------------------
(* The steps of a handler that leave the edge and the black list alone. *)

LEMMA BlockInit == ASSUME ServerInit PROVE BlockInv
<1>1. /\ lists = [t \in Table |-> Empty] /\ DOMAIN Empty = {} /\ DOMAIN edge = EdgeFields /\ edge.black = {}
      /\ desk = [d \in Desk |-> NoTask] /\ sheet = NoSheet
  BY DEF ServerInit, Empty, EdgeFields
<1>2. Shapes
  BY <1>1, NoTaskIs DEF Shapes
<1>3. IsFiniteSet(DOMAIN ports) /\ IsFiniteSet(chosen)
  <2>1. DOMAIN ports = {} \/ DOMAIN ports = {CHOOSE i \in RowId : TRUE}
    BY DEF ServerInit, Injection, IsInjective
  <2>2. IsFiniteSet(DOMAIN ports)
    <3>1. CASE DOMAIN ports = {}
      BY <3>1, FS_EmptySet
    <3>2. CASE DOMAIN ports = {CHOOSE i \in RowId : TRUE}
      <4>1. IsFiniteSet({CHOOSE i \in RowId : TRUE})
        BY FS_Singleton
      <4> QED BY <3>2, <4>1
    <3> QED BY <2>1, <3>1, <3>2
  <2>3. chosen \subseteq DOMAIN ports
    BY DEF ServerInit
  <2> QED BY <2>2, <2>3, FS_Subset
<1>4. Finite
  BY <1>1, <1>3, NoTaskIs, FS_EmptySet DEF Finite, Table
<1>5. Seen
  BY <1>1 DEF Seen
<1> QED BY <1>1, <1>2, <1>4, <1>5, NoTaskIs DEF BlockInv

\* A request changes nothing but its handler's task.
LEMMA AskQuiet ==
    ASSUME BlockInv, OneHandler, NEW d \in Desk, Asks(d), Asked, NEW j, DOMAIN j = TaskFields, Sets(d, j),
           IsFiniteSet(j.ids), Due(j)
    PROVE  BlockInv'
<1>1. desk[d].pc # "store"
  BY DEF Asks
<1>2. /\ UNCHANGED <<edge, sheet, doubt, lists, ports, chosen>>
  BY DEF Asked, Stored
<1>3. DOMAIN lists = Table /\ IsFiniteSet(DOMAIN ports) /\ IsFiniteSet(chosen)
  BY DEF BlockInv, Shapes, Finite
<1> QED BY <1>1, <1>2, <1>3, HandlerQuiet

LEMMA AskStep == ASSUME BlockInv, OneHandler, NEW d \in Desk, Ask(d) PROVE BlockInv'
<1>1. IsFiniteSet({}) /\ \A i : IsFiniteSet({i})
  BY FS_EmptySet, FS_Singleton
<1>0. \A S \in SUBSET DOMAIN ports : IsFiniteSet(S)
  BY FS_Subset DEF BlockInv, Finite
<1>2. CASE AskAdd(d)
  <2>1. PICK t \in Table, h \in Host :
           Sets(d, [NoTask EXCEPT !.pc = "call", !.what = "add", !.table = t, !.item = {h}])
    BY <1>2 DEF AskAdd
  <2> DEFINE j == [NoTask EXCEPT !.pc = "call", !.what = "add", !.table = t, !.item = {h}]
  <2>2. DOMAIN j = TaskFields /\ j.pc = "call" /\ j.what = "add" /\ j.table = t /\ j.item = {h} /\ j.ids = {}
    BY DEF NoTask, TaskFields
  <2>3. Asks(d) /\ Asked /\ Sets(d, j)
    BY <1>2, <2>1 DEF AskAdd
  <2> HIDE DEF j
  <2>4. Due(j)
    BY <2>2 DEF Due, Work, ListWork
  <2> QED BY <1>1, <2>2, <2>3, <2>4, AskQuiet
<1>3. CASE AskRemove(d)
  <2>1. PICK t \in Table : \E i \in DOMAIN lists[t] :
           Sets(d, [NoTask EXCEPT !.pc = "call", !.what = "remove", !.table = t,
                                  !.ids = {i}, !.item = {lists[t][i]}])
    BY <1>3 DEF AskRemove
  <2>2. PICK i \in DOMAIN lists[t] :
           Sets(d, [NoTask EXCEPT !.pc = "call", !.what = "remove", !.table = t,
                                  !.ids = {i}, !.item = {lists[t][i]}])
    BY <2>1
  <2> DEFINE j == [NoTask EXCEPT !.pc = "call", !.what = "remove", !.table = t,
                                 !.ids = {i}, !.item = {lists[t][i]}]
  <2>3. /\ DOMAIN j = TaskFields /\ j.pc = "call" /\ j.what = "remove" /\ j.table = t
        /\ j.item = {lists[t][i]} /\ j.ids = {i}
    BY DEF NoTask, TaskFields
  <2>4. Asks(d) /\ Asked /\ Sets(d, j)
    BY <1>3, <2>2 DEF AskRemove
  <2> HIDE DEF j
  <2>5. Due(j)
    BY <2>3 DEF Due, Work, ListWork
  <2> QED BY <1>1, <2>3, <2>4, <2>5, AskQuiet
<1>4. CASE AskClear(d)
  <2>1. PICK t \in Table : Sets(d, [NoTask EXCEPT !.pc = "call", !.what = "clear", !.table = t])
    BY <1>4 DEF AskClear
  <2> DEFINE j == [NoTask EXCEPT !.pc = "call", !.what = "clear", !.table = t]
  <2>2. DOMAIN j = TaskFields /\ j.pc = "call" /\ j.what = "clear" /\ j.table = t /\ j.ids = {}
    BY DEF NoTask, TaskFields
  <2>3. Asks(d) /\ Asked /\ Sets(d, j)
    BY <1>4, <2>1 DEF AskClear
  <2> HIDE DEF j
  <2>4. Due(j)
    BY <2>2 DEF Due, Work, ListWork
  <2> QED BY <1>1, <2>2, <2>3, <2>4, AskQuiet
<1>5. ASSUME AskL4(d) \/ AskGuard(d) \/ AskPort(d) \/ AskMove(d) \/ AskClose(d) \/ AskChoose(d) \/ AskSite(d)
      PROVE  /\ Asks(d) /\ Asked
             /\ \E j : /\ DOMAIN j = TaskFields /\ Sets(d, j) /\ IsFiniteSet(j.ids) /\ j.table \in Table
                       /\ j.what \in Work \ ListWork
  <2>1. CASE AskL4(d)
    <3>1. PICK v \in [Field -> Setting] :
             Sets(d, [NoTask EXCEPT !.pc = "call", !.what = "l4", !.values = v])
      BY <2>1 DEF AskL4
    <3> DEFINE j == [NoTask EXCEPT !.pc = "call", !.what = "l4", !.values = v]
    <3>2. DOMAIN j = TaskFields /\ j.what = "l4" /\ j.ids = {} /\ j.table = "white"
      BY DEF NoTask, TaskFields
    <3>3. Sets(d, j)
      BY <3>1
    <3> HIDE DEF j
    <3> QED BY <1>1, <2>1, <3>2, <3>3 DEF AskL4, Table, Work, ListWork
  <2>2. CASE AskGuard(d)
    <3>1. PICK g \in Setting : Sets(d, [NoTask EXCEPT !.pc = "call", !.what = "guard", !.item = {g}])
      BY <2>2 DEF AskGuard
    <3> DEFINE j == [NoTask EXCEPT !.pc = "call", !.what = "guard", !.item = {g}]
    <3>2. DOMAIN j = TaskFields /\ j.what = "guard" /\ j.ids = {} /\ j.table = "white"
      BY DEF NoTask, TaskFields
    <3>3. Sets(d, j)
      BY <3>1
    <3> HIDE DEF j
    <3> QED BY <1>1, <2>2, <3>2, <3>3 DEF AskGuard, Table, Work, ListWork
  <2>3. CASE AskPort(d)
    <3>1. PICK p \in Port \ Range(ports) :
             Sets(d, [NoTask EXCEPT !.pc = "write", !.what = "port", !.item = {p}])
      BY <2>3 DEF AskPort
    <3> DEFINE j == [NoTask EXCEPT !.pc = "write", !.what = "port", !.item = {p}]
    <3>2. DOMAIN j = TaskFields /\ j.what = "port" /\ j.ids = {} /\ j.table = "white"
      BY DEF NoTask, TaskFields
    <3>3. Sets(d, j)
      BY <3>1
    <3> HIDE DEF j
    <3> QED BY <1>1, <2>3, <3>2, <3>3 DEF AskPort, Table, Work, ListWork
  <2>4. CASE AskMove(d)
    <3>1. PICK i \in DOMAIN ports, p \in Port :
             Sets(d, [NoTask EXCEPT !.pc = "write", !.what = "move", !.ids = {i}, !.item = {p},
                                    !.before = [k \in {i} |-> ports[i]]])
      BY <2>4 DEF AskMove
    <3> DEFINE j == [NoTask EXCEPT !.pc = "write", !.what = "move", !.ids = {i}, !.item = {p},
                                   !.before = [k \in {i} |-> ports[i]]]
    <3>2. DOMAIN j = TaskFields /\ j.what = "move" /\ j.ids = {i} /\ j.table = "white"
      BY DEF NoTask, TaskFields
    <3>3. Sets(d, j)
      BY <3>1
    <3> HIDE DEF j
    <3> QED BY <1>1, <2>4, <3>2, <3>3 DEF AskMove, Table, Work, ListWork
  <2>5. CASE AskClose(d)
    <3>1. PICK S \in SUBSET DOMAIN ports :
             Sets(d, [NoTask EXCEPT !.pc = "call", !.what = "close", !.ids = S,
                                    !.list = Range(Drop(ports, S))])
      BY <2>5 DEF AskClose
    <3> DEFINE j == [NoTask EXCEPT !.pc = "call", !.what = "close", !.ids = S,
                                   !.list = Range(Drop(ports, S))]
    <3>2. DOMAIN j = TaskFields /\ j.what = "close" /\ j.ids = S /\ j.table = "white"
      BY DEF NoTask, TaskFields
    <3>3. Sets(d, j) /\ IsFiniteSet(S)
      BY <1>0, <3>1
    <3> HIDE DEF j
    <3> QED BY <2>5, <3>2, <3>3 DEF AskClose, Table, Work, ListWork
  <2>6. CASE AskChoose(d)
    <3>1. PICK S \in SUBSET DOMAIN ports :
             Sets(d, [NoTask EXCEPT !.pc = "write", !.what = "choose", !.ids = S])
      BY <2>6 DEF AskChoose
    <3> DEFINE j == [NoTask EXCEPT !.pc = "write", !.what = "choose", !.ids = S]
    <3>2. DOMAIN j = TaskFields /\ j.what = "choose" /\ j.ids = S /\ j.table = "white"
      BY DEF NoTask, TaskFields
    <3>3. Sets(d, j) /\ IsFiniteSet(S)
      BY <1>0, <3>1
    <3> HIDE DEF j
    <3> QED BY <2>6, <3>2, <3>3 DEF AskChoose, Table, Work, ListWork
  <2>7. CASE AskSite(d)
    <3> DEFINE j == [NoTask EXCEPT !.pc = "list", !.what = "site"]
    <3>2. DOMAIN j = TaskFields /\ j.what = "site" /\ j.ids = {} /\ j.table = "white"
      BY DEF NoTask, TaskFields
    <3>3. Sets(d, j)
      BY <2>7 DEF AskSite
    <3> HIDE DEF j
    <3> QED BY <1>1, <2>7, <3>2, <3>3 DEF AskSite, Table, Work, ListWork
  <2> QED BY <1>5, <2>1, <2>2, <2>3, <2>4, <2>5, <2>6, <2>7
<1>6. CASE ~AskAdd(d) /\ ~AskRemove(d) /\ ~AskClear(d)
  <2>1. AskL4(d) \/ AskGuard(d) \/ AskPort(d) \/ AskMove(d) \/ AskClose(d) \/ AskChoose(d) \/ AskSite(d)
    BY <1>6 DEF Ask
  <2>2. Asks(d) /\ Asked
    BY <1>5, <2>1
  <2>3. PICK j : /\ DOMAIN j = TaskFields /\ Sets(d, j) /\ IsFiniteSet(j.ids) /\ j.table \in Table
                 /\ j.what \in Work \ ListWork
    BY <1>5, <2>1
  <2>4. Due(j)
    BY <2>3 DEF Due, Work, ListWork
  <2> QED BY <2>2, <2>3, <2>4, AskQuiet
<1> QED BY <1>2, <1>3, <1>4, <1>6

\* A handler that is not about to store writes ports and selections, or goes on.
LEMMA WriteStep ==
    ASSUME BlockInv, OneHandler, NEW d \in Desk,
           WritePort(d) \/ WriteMove(d) \/ WriteChoice(d) \/ ReadBack(d) \/ UndoPort(d)
    PROVE  BlockInv'
<1>1. /\ desk[d].pc # "store" /\ UNCHANGED <<edge, sheet, doubt, lists>>
      /\ DOMAIN lists = Table /\ DOMAIN desk[d] = TaskFields /\ Due(desk[d])
      /\ IsFiniteSet(DOMAIN ports) /\ IsFiniteSet(chosen) /\ IsFiniteSet(desk[d].ids)
  BY DEF BlockInv, Shapes, Finite, WritePort, WriteMove, WriteChoice, ReadBack, UndoPort, Stored
<1>2. ASSUME NEW j, DOMAIN j = TaskFields, Sets(d, j), IsFiniteSet(j.ids), Due(j),
             IsFiniteSet(DOMAIN ports'), IsFiniteSet(chosen')
      PROVE  BlockInv'
  BY <1>1, <1>2, HandlerQuiet
<1>3. ASSUME Sets(d, NoTask), IsFiniteSet(DOMAIN ports'), IsFiniteSet(chosen') PROVE BlockInv'
  BY <1>2, <1>3, NoTaskIs
<1>4. CASE WritePort(d)
  <2>1. UNCHANGED chosen
    BY <1>4 DEF WritePort
  <2>2. CASE Sets(d, NoTask) /\ UNCHANGED ports
    BY <1>1, <1>3, <2>1, <2>2
  <2>3. CASE \E i, p : ports' = Put(ports, i, p) /\ Sets(d, [desk[d] EXCEPT !.pc = "list", !.ids = {i}])
    <3>1. PICK i, p : ports' = Put(ports, i, p) /\ Sets(d, [desk[d] EXCEPT !.pc = "list", !.ids = {i}])
      BY <2>3
    <3>2. PICK j : j = [desk[d] EXCEPT !.pc = "list", !.ids = {i}]
      OBVIOUS
    <3>3. /\ DOMAIN j = TaskFields /\ j.pc = "list" /\ j.ids = {i} /\ j.what = "port"
          /\ j.table = desk[d].table /\ j.item = desk[d].item
      BY <1>1, <1>4, <3>2 DEF TaskFields, WritePort
    <3>4. Due(j)
      BY <1>1, <3>3 DEF Due, Work, ListWork
    <3>5. IsFiniteSet(DOMAIN ports') /\ IsFiniteSet(chosen') /\ IsFiniteSet(j.ids)
      <4>1. IsFiniteSet({i})
        BY FS_Singleton
      <4>2. IsFiniteSet(DOMAIN ports')
        BY <1>1, <3>1, PutIs
      <4> QED BY <1>1, <2>1, <3>3, <4>1, <4>2
    <3>6. Sets(d, j)
      BY <3>1, <3>2
    <3> QED BY <1>2, <3>3, <3>4, <3>5, <3>6
  <2> QED BY <1>4, <2>2, <2>3 DEF WritePort
<1>5. CASE WriteMove(d)
  <2>1. UNCHANGED chosen
    BY <1>5 DEF WriteMove
  <2>2. CASE Sets(d, NoTask) /\ UNCHANGED ports
    BY <1>1, <1>3, <2>1, <2>2
  <2>3. CASE \E i, p : ports' = Put(ports, i, p) /\ Sets(d, [desk[d] EXCEPT !.pc = "list"])
    <3>1. PICK i, p : ports' = Put(ports, i, p) /\ Sets(d, [desk[d] EXCEPT !.pc = "list"])
      BY <2>3
    <3>2. PICK j : j = [desk[d] EXCEPT !.pc = "list"]
      OBVIOUS
    <3>3. /\ DOMAIN j = TaskFields /\ j.pc = "list" /\ j.ids = desk[d].ids /\ j.what = "move"
          /\ j.table = desk[d].table /\ j.item = desk[d].item
      BY <1>1, <1>5, <3>2 DEF TaskFields, WriteMove
    <3>4. Due(j)
      BY <1>1, <3>3 DEF Due, Work, ListWork
    <3>5. IsFiniteSet(DOMAIN ports') /\ IsFiniteSet(chosen') /\ IsFiniteSet(j.ids)
      BY <1>1, <2>1, <3>1, <3>3, PutIs
    <3>6. Sets(d, j)
      BY <3>1, <3>2
    <3> QED BY <1>2, <3>3, <3>4, <3>5, <3>6
  <2> QED BY <1>5, <2>2, <2>3 DEF WriteMove
<1>6. CASE WriteChoice(d)
  <2>1. IsFiniteSet(DOMAIN ports') /\ IsFiniteSet(chosen')
    BY <1>1, <1>6 DEF WriteChoice
  <2>2. CASE Sets(d, NoTask)
    BY <1>3, <2>1, <2>2
  <2>3. CASE Sets(d, [desk[d] EXCEPT !.pc = "list"])
    <3>2. PICK j : j = [desk[d] EXCEPT !.pc = "list"]
      OBVIOUS
    <3>3. /\ DOMAIN j = TaskFields /\ j.pc = "list" /\ j.ids = desk[d].ids /\ j.what = "choose"
          /\ j.table = desk[d].table /\ j.item = desk[d].item
      BY <1>1, <1>6, <3>2 DEF TaskFields, WriteChoice
    <3>4. Due(j)
      BY <1>1, <3>3 DEF Due, Work, ListWork
    <3>5. IsFiniteSet(j.ids) /\ Sets(d, j)
      BY <1>1, <2>3, <3>2, <3>3
    <3> QED BY <1>2, <2>1, <3>3, <3>4, <3>5
  <2> QED BY <1>6, <2>2, <2>3 DEF WriteChoice
<1>7. CASE ReadBack(d)
  <2>1. PICK s : Sets(d, [desk[d] EXCEPT !.pc = "call", !.list = s])
    BY <1>7 DEF ReadBack
  <2>2. PICK j : j = [desk[d] EXCEPT !.pc = "call", !.list = s]
    OBVIOUS
  <2>3. /\ DOMAIN j = TaskFields /\ j.pc = "call" /\ j.ids = desk[d].ids /\ j.what = desk[d].what
        /\ j.table = desk[d].table /\ j.item = desk[d].item
    BY <1>1, <2>2 DEF TaskFields
  <2>4. desk[d].pc = "list" /\ UNCHANGED <<ports, chosen>>
    BY <1>7 DEF ReadBack, Stored
  <2>5. Due(j)
    BY <1>1, <2>3, <2>4 DEF Due, Work, ListWork
  <2>6. IsFiniteSet(j.ids) /\ Sets(d, j) /\ IsFiniteSet(DOMAIN ports') /\ IsFiniteSet(chosen')
    BY <1>1, <2>1, <2>2, <2>3, <2>4
  <2> QED BY <1>2, <2>3, <2>5, <2>6
<1>8. CASE UndoPort(d)
  <2>1. Sets(d, NoTask)
    BY <1>8 DEF UndoPort
  <2>2. CASE ports' = Drop(ports, desk[d].ids) /\ chosen' = chosen \ desk[d].ids
    <3>1. IsFiniteSet(chosen')
      BY <1>1, <2>2, FS_Subset
    <3> QED BY <1>1, <1>3, <2>1, <2>2, <3>1, DropIs
  <2>3. CASE /\ \E i, p : ports' = IF Moves(i, p) THEN Put(ports, i, p) ELSE ports
             /\ UNCHANGED chosen
    <3>1. PICK i, p : ports' = IF Moves(i, p) THEN Put(ports, i, p) ELSE ports
      BY <2>3
    <3>2. IsFiniteSet(DOMAIN ports')
      BY <1>1, <3>1, PutIs
    <3> QED BY <1>1, <1>3, <2>1, <2>3, <3>2
  <2> QED BY <1>8, <2>2, <2>3 DEF UndoPort
<1> QED BY <1>4, <1>5, <1>6, <1>7, <1>8

\* What is stored beside the lists, and a handler that is cut off.
LEMMA StoreStep ==
    ASSUME BlockInv, OneHandler, NEW d \in Desk, StoreL4(d) \/ StoreGuard(d) \/ StoreClose(d) \/ CutOff(d)
    PROVE  BlockInv'
<1>1. /\ UNCHANGED <<edge, sheet, lists>> /\ Sets(d, NoTask) /\ doubt \subseteq doubt'
      /\ DOMAIN lists = Table
      /\ IsFiniteSet(DOMAIN ports) /\ IsFiniteSet(chosen)
  BY DEF BlockInv, Shapes, Finite, StoreL4, StoreGuard, StoreClose, CutOff, Stores, Stored, Doubts
<1>2. desk[d].pc = "store" /\ Blacklists(d) => desk[d].item \subseteq doubt'
  BY DEF StoreL4, StoreGuard, StoreClose, CutOff, Stores, Blacklists, Doubts
<1>3. IsFiniteSet(DOMAIN ports') /\ IsFiniteSet(chosen')
  <2>1. CASE StoreClose(d)
    <3>1. ports' = Drop(ports, desk[d].ids) /\ chosen' = chosen \ desk[d].ids
      BY <2>1 DEF StoreClose
    <3>2. IsFiniteSet(chosen')
      BY <1>1, <3>1, FS_Subset
    <3> QED BY <1>1, <3>1, <3>2, DropIs
  <2>2. CASE StoreL4(d) \/ StoreGuard(d) \/ CutOff(d)
    BY <1>1, <2>2 DEF StoreL4, StoreGuard, CutOff, Stored
  <2> QED BY <2>1, <2>2
<1> QED BY <1>1, <1>2, <1>3, NoTaskIs, HandlerQuiet

-----------------------------------------------------------------------------
(* The steps that change the edge. *)

\* What a call leaves of the edge's black list.
LEMMA TakingIs ==
    ASSUME BlockInv, NEW d \in Desk
    PROVE  /\ desk[d].what \in Work
              => DOMAIN Taking(d) = EdgeFields
           /\ Blacklists(d) => Taking(d).black = edge.black \cup desk[d].item
           /\ desk[d].table = "black" /\ desk[d].what = "remove"
              => Taking(d).black = edge.black \ desk[d].item
           /\ desk[d].table = "black" /\ desk[d].what = "clear" => Taking(d).black = {}
           /\ /\ desk[d].what \in Work
              /\ desk[d].table # "black" \/ desk[d].what \notin ListWork
              => Taking(d).black = edge.black
<1>1. DOMAIN edge = EdgeFields /\ desk[d].table \in {"white", "black"}
  BY DEF BlockInv, Shapes, Due, Table
<1>2. CASE desk[d].what = "add"
  <2>1. Taking(d) = [edge EXCEPT ![desk[d].table] = @ \cup desk[d].item]
    BY <1>2 DEF Taking
  <2> QED BY <1>1, <1>2, <2>1 DEF EdgeFields, Blacklists, ListWork
<1>3. CASE desk[d].what = "remove"
  <2>1. Taking(d) = [edge EXCEPT ![desk[d].table] = @ \ desk[d].item]
    BY <1>3 DEF Taking
  <2> QED BY <1>1, <1>3, <2>1 DEF EdgeFields, Blacklists, ListWork
<1>4. CASE desk[d].what = "clear"
  <2>1. Taking(d) = [edge EXCEPT ![desk[d].table] = {}]
    BY <1>4 DEF Taking
  <2> QED BY <1>1, <1>4, <2>1 DEF EdgeFields, Blacklists, ListWork
<1>5. CASE desk[d].what \in {"l4", "guard", "port", "move", "close", "choose", "site"}
  <2>1. \/ Taking(d) = [edge EXCEPT !.l4 = desk[d].values]
        \/ Taking(d) = [edge EXCEPT !.guard = CHOOSE g \in desk[d].item : TRUE]
        \/ Taking(d) = [edge EXCEPT !.ports = desk[d].list]
        \/ Taking(d) = [edge EXCEPT !.serves = desk[d].list]
    BY <1>5 DEF Taking
  <2> QED BY <1>1, <1>5, <2>1 DEF EdgeFields, Blacklists, ListWork
<1> QED BY <1>2, <1>3, <1>4, <1>5 DEF Blacklists, Work, ListWork

\* A call of the edge, taken or not, after which the handler has task j.
LEMMA EdgeStep ==
    ASSUME BlockInv, OneHandler, NEW d \in Desk, desk[d].pc = "call", edge' \in {edge, Taking(d)},
           NEW j, Sets(d, j), DOMAIN j = TaskFields, IsFiniteSet(j.ids), Due(j)',
           UNCHANGED <<lists, ports, chosen, sheet>>, doubt \subseteq doubt',
           Blacklists(d) => \/ desk[d].item \subseteq doubt'
                            \/ j.pc = "store" /\ j.table = "black" /\ j.what = "add" /\ j.item = desk[d].item
    PROVE  BlockInv'
<1>1. /\ desk' = [c \in Desk |-> desk'[c]] /\ desk'[d] = j /\ \A c \in Desk : DOMAIN desk'[c] = TaskFields
      /\ \A c \in Desk : c = d
  BY TaskSet DEF BlockInv, OneHandler
<1>2. desk[d].what \in Work /\ DOMAIN edge = EdgeFields /\ desk[d].table \in Table
  BY DEF BlockInv, Due, Shapes
<1>3. Shapes'
  BY <1>1, <1>2, TakingIs DEF BlockInv, Shapes
<1>4. Finite'
  BY <1>1 DEF BlockInv, Finite
<1>5. Seen'
  <2> SUFFICES ASSUME NEW x \in (edge.black)'
               PROVE  \/ x \in Range(lists["black"]) \/ x \in doubt'
                      \/ j.pc = "store" /\ j.table = "black" /\ j.what = "add" /\ x \in j.item
    BY <1>1 DEF Seen, Blacklists
  <2>1. CASE x \in edge.black
    BY <1>1, <2>1 DEF BlockInv, Seen
  <2>2. CASE x \notin edge.black
    <3>1. x \in Taking(d).black
      BY <2>2
    <3>2. Blacklists(d) /\ x \in desk[d].item
      BY <1>2, <2>2, <3>1, TakingIs DEF Blacklists, ListWork
    <3> QED BY <3>2
  <2> QED BY <2>1, <2>2
<1>6. \A c \in Desk : Due(desk[c])'
  BY <1>1 DEF Due
<1> QED BY <1>3, <1>4, <1>5, <1>6 DEF BlockInv

LEMMA NothingDue == Due(NoTask)'
BY NoTaskIs DEF Due, Table

LEMMA CallStep == ASSUME BlockInv, OneHandler, NEW d \in Desk, Call(d) PROVE BlockInv'
<1>1. /\ desk[d].pc = "call" /\ edge' = Taking(d) /\ UNCHANGED <<lists, ports, chosen, sheet, doubt>>
      /\ Due(desk[d]) /\ DOMAIN desk[d] = TaskFields /\ IsFiniteSet(desk[d].ids) /\ desk[d].what \in Work
  BY DEF Call, Stored, BlockInv, Due, Shapes, Finite
<1>2. CASE desk[d].what \in {"port", "move", "choose", "site"} /\ Sets(d, NoTask)
  <2>1. ~Blacklists(d)
    BY <1>2 DEF Blacklists
  <2> QED BY <1>1, <1>2, <2>1, NoTaskIs, NothingDue, EdgeStep
<1>3. CASE Sets(d, [desk[d] EXCEPT !.pc = "store"])
  <2>1. PICK j : j = [desk[d] EXCEPT !.pc = "store"]
    OBVIOUS
  <2>2. /\ DOMAIN j = TaskFields /\ j.pc = "store" /\ j.what = desk[d].what /\ j.ids = desk[d].ids
        /\ j.table = desk[d].table /\ j.item = desk[d].item
    BY <1>1, <2>1 DEF TaskFields
  <2>3. /\ desk[d].table = "black" /\ desk[d].what = "remove" => edge'.black = edge.black \ desk[d].item
        /\ desk[d].table = "black" /\ desk[d].what = "clear" => edge'.black = {}
    BY <1>1, TakingIs
  <2>4. Due(j)'
    BY <1>1, <2>2, <2>3 DEF Due
  <2>5. Sets(d, j) /\ IsFiniteSet(j.ids)
    BY <1>1, <1>3, <2>1, <2>2
  <2> QED BY <1>1, <2>2, <2>4, <2>5, EdgeStep DEF Blacklists
<1> QED BY <1>2, <1>3 DEF Call

LEMMA CallFailsStep == ASSUME BlockInv, OneHandler, NEW d \in Desk, CallFails(d) PROVE BlockInv'
<1>1. /\ desk[d].pc = "call" /\ edge' \in {edge, Taking(d)} /\ UNCHANGED <<lists, ports, chosen, sheet>>
      /\ Due(desk[d]) /\ DOMAIN desk[d] = TaskFields /\ IsFiniteSet(desk[d].ids)
      /\ doubt \subseteq doubt' /\ (Blacklists(d) => desk[d].item \subseteq doubt')
  BY DEF CallFails, Stored, BlockInv, Shapes, Finite, Doubts
<1>2. CASE Sets(d, NoTask)
  BY <1>1, <1>2, NoTaskIs, NothingDue, EdgeStep
<1>3. CASE desk[d].what \in {"port", "move"} /\ Sets(d, [desk[d] EXCEPT !.pc = "undo"])
  <2>1. PICK j : j = [desk[d] EXCEPT !.pc = "undo"]
    OBVIOUS
  <2>2. /\ DOMAIN j = TaskFields /\ j.pc = "undo" /\ j.what = desk[d].what /\ j.ids = desk[d].ids
        /\ j.table = desk[d].table /\ j.item = desk[d].item
    BY <1>1, <2>1 DEF TaskFields
  <2>3. Due(j)'
    BY <1>1, <1>3, <2>2 DEF Due, Work, ListWork
  <2>4. Sets(d, j) /\ IsFiniteSet(j.ids)
    BY <1>1, <1>3, <2>1, <2>2
  <2> QED BY <1>1, <2>2, <2>3, <2>4, EdgeStep
<1> QED BY <1>2, <1>3 DEF CallFails

-----------------------------------------------------------------------------
(* The statements that change the black list. *)

\* A statement of the white list, or of the black list that loses no address the edge blocks.
LEMMA ListStep ==
    ASSUME BlockInv, OneHandler, NEW d \in Desk, Sets(d, NoTask),
           UNCHANGED <<edge, ports, chosen, sheet, doubt>>,
           DOMAIN lists' = Table, IsFiniteSet(DOMAIN lists'["black"]),
           Range(lists["black"]) \cap edge.black \subseteq Range(lists'["black"]),
           desk[d].pc = "store" /\ Blacklists(d) => desk[d].item \subseteq Range(lists'["black"])
    PROVE  BlockInv'
<1>1. /\ desk' = [c \in Desk |-> desk'[c]] /\ desk'[d] = NoTask /\ \A c \in Desk : DOMAIN desk'[c] = TaskFields
      /\ \A c \in Desk : c = d
  BY TaskSet, NoTaskIs DEF BlockInv, OneHandler
<1>2. Shapes'
  BY <1>1 DEF BlockInv, Shapes
<1>3. Finite'
  BY <1>1, NoTaskIs DEF BlockInv, Finite
<1>4. Seen'
  <2> SUFFICES ASSUME NEW x \in edge.black
               PROVE  x \in Range(lists'["black"]) \/ x \in doubt
    BY DEF Seen
  <2>1. \/ x \in Range(lists["black"]) \/ x \in doubt
        \/ desk[d].pc = "store" /\ Blacklists(d) /\ x \in desk[d].item
    BY <1>1 DEF BlockInv, Seen
  <2> QED BY <2>1
<1>5. \A c \in Desk : Due(desk[c])'
  BY <1>1, NoTaskIs DEF Due, Table
<1> QED BY <1>2, <1>3, <1>4, <1>5 DEF BlockInv

LEMMA RowsStep ==
    ASSUME BlockInv, OneHandler, IdsLast, NEW d \in Desk, StoreEntry(d) \/ StoreRemoval(d) \/ StoreClear(d)
    PROVE  BlockInv'
<1>1. /\ Sets(d, NoTask) /\ UNCHANGED <<edge, ports, chosen, sheet, doubt>> /\ desk[d].pc = "store"
      /\ Finite /\ DOMAIN lists = Table /\ IsFiniteSet(DOMAIN lists["black"])
      /\ Due(desk[d]) /\ desk[d].table \in {"white", "black"}
  BY DEF BlockInv, Shapes, Finite, Due, StoreEntry, StoreRemoval, StoreClear, Stores, Table
<1>2. \A f : lists' = [lists EXCEPT !["white"] = f] => DOMAIN lists' = Table /\ lists'["black"] = lists["black"]
  BY <1>1 DEF Table
<1>3. \A f : lists' = [lists EXCEPT !["black"] = f] => DOMAIN lists' = Table /\ lists'["black"] = f
  BY <1>1 DEF Table
<1>4. ASSUME DOMAIN lists' = Table, lists'["black"] = lists["black"], ~Blacklists(d) PROVE BlockInv'
  BY <1>1, <1>4, ListStep
<1>5. CASE StoreEntry(d)
  <2>1. PICK h : desk[d].item = {h}
    BY <1>1, <1>5 DEF Due, StoreEntry, Stores
  <2>2. lists' = [lists EXCEPT ![desk[d].table] = Put(lists[desk[d].table], NextId(lists[desk[d].table]), h)]
    BY <1>5, <2>1 DEF StoreEntry
  <2>3. CASE desk[d].table = "white"
    BY <1>2, <1>4, <2>2, <2>3 DEF Blacklists
  <2>4. CASE desk[d].table = "black"
    <3>1. PICK i : i = NextId(lists["black"])
      OBVIOUS
    <3>2. i \notin DOMAIN lists["black"]
      BY <1>1, <3>1, NextIdIsFresh
    <3>3. DOMAIN lists' = Table /\ lists'["black"] = Put(lists["black"], i, h)
      BY <1>3, <2>2, <2>4, <3>1
    <3>4. /\ DOMAIN lists'["black"] = DOMAIN lists["black"] \cup {i} /\ lists'["black"][i] = h
          /\ \A k \in DOMAIN lists["black"] : lists'["black"][k] = lists["black"][k]
          /\ IsFiniteSet(DOMAIN lists'["black"])
      <4>1. PICK f : f = lists["black"]
        OBVIOUS
      <4>2. IsFiniteSet(DOMAIN f) /\ i \notin DOMAIN f /\ lists'["black"] = Put(f, i, h)
        BY <1>1, <3>2, <3>3, <4>1
      <4>3. /\ DOMAIN Put(f, i, h) = DOMAIN f \cup {i} /\ Put(f, i, h)[i] = h
            /\ \A k \in DOMAIN f : k # i => Put(f, i, h)[k] = f[k]
        BY DEF Put
      <4>4. IsFiniteSet(DOMAIN Put(f, i, h))
        BY <4>2, PutIs
      <4> QED BY <4>1, <4>2, <4>3, <4>4
    <3>5. Range(lists["black"]) \subseteq Range(lists'["black"]) /\ h \in Range(lists'["black"])
      BY <3>4 DEF Range
    <3> QED BY <1>1, <2>1, <3>3, <3>4, <3>5, ListStep
  <2> QED BY <1>1, <2>3, <2>4
<1>6. CASE StoreRemoval(d)
  <2>1. /\ lists' = [lists EXCEPT ![desk[d].table] = Drop(lists[desk[d].table], desk[d].ids)]
        /\ desk[d].what = "remove" /\ ~Blacklists(d)
    BY <1>6 DEF StoreRemoval, Stores, Blacklists
  <2>2. CASE desk[d].table = "white"
    BY <1>2, <1>4, <2>1, <2>2
  <2>3. CASE desk[d].table = "black"
    <3>1. /\ \A i \in desk[d].ids \cap DOMAIN lists["black"] : lists["black"][i] \in desk[d].item
          /\ desk[d].item \cap edge.black = {}
      BY <1>1, <2>1, <2>3 DEF Due
    <3>2. DOMAIN lists' = Table /\ lists'["black"] = Drop(lists["black"], desk[d].ids)
      BY <1>3, <2>1, <2>3
    <3>3. /\ DOMAIN lists'["black"] = DOMAIN lists["black"] \ desk[d].ids
          /\ \A k \in DOMAIN lists["black"] \ desk[d].ids : lists'["black"][k] = lists["black"][k]
          /\ IsFiniteSet(DOMAIN lists'["black"])
      <4>1. PICK f, S : f = lists["black"] /\ S = desk[d].ids
        OBVIOUS
      <4>2. IsFiniteSet(DOMAIN f) /\ lists'["black"] = Drop(f, S)
        BY <1>1, <3>2, <4>1
      <4>3. /\ DOMAIN Drop(f, S) = DOMAIN f \ S /\ \A k \in DOMAIN f \ S : Drop(f, S)[k] = f[k]
            /\ IsFiniteSet(DOMAIN Drop(f, S))
        BY <4>2, DropIs
      <4> QED BY <4>1, <4>2, <4>3
    <3>4. Range(lists["black"]) \cap edge.black \subseteq Range(lists'["black"])
      BY <3>1, <3>3 DEF Range
    <3> QED BY <1>1, <2>1, <3>2, <3>3, <3>4, ListStep
  <2> QED BY <1>1, <2>2, <2>3
<1>7. CASE StoreClear(d)
  <2>1. lists' = [lists EXCEPT ![desk[d].table] = Empty] /\ desk[d].what = "clear" /\ ~Blacklists(d)
    BY <1>7 DEF StoreClear, Stores, Blacklists
  <2>2. CASE desk[d].table = "white"
    BY <1>2, <1>4, <2>1, <2>2
  <2>3. CASE desk[d].table = "black"
    <3>1. edge.black = {}
      BY <1>1, <2>1, <2>3 DEF Due
    <3>2. DOMAIN lists' = Table /\ lists'["black"] = Empty
      BY <1>3, <2>1, <2>3
    <3>3. IsFiniteSet(DOMAIN lists'["black"])
      BY <3>2, FS_EmptySet DEF Empty
    <3> QED BY <1>1, <2>1, <3>1, <3>2, <3>3, ListStep
  <2> QED BY <1>1, <2>2, <2>3
<1> QED BY <1>5, <1>6, <1>7

-----------------------------------------------------------------------------
(* Reports. *)

\* A report goes on: the sheet keeps its fields, and what it has read stays finite.
LEMMA SheetIs ==
    ASSUME BlockInv
    PROVE  /\ DOMAIN sheet = SheetFields /\ IsFiniteSet(DOMAIN sheet.seen)
           /\ DOMAIN NoPortMap = SheetFields /\ DOMAIN NoPortMap.seen = {}
           /\ \A p, i : DOMAIN Synced(p, i) = SheetFields /\ Synced(p, i).seen = sheet.seen
<1>1. DOMAIN sheet = SheetFields /\ IsFiniteSet(DOMAIN sheet.seen)
  BY DEF BlockInv, Shapes, Finite
<1>2. DOMAIN NoPortMap = SheetFields /\ NoPortMap.seen = Empty
  BY <1>1 DEF NoPortMap, SheetFields
<1>3. \A p, i : DOMAIN Synced(p, i) = SheetFields /\ Synced(p, i).seen = sheet.seen
  BY <1>1 DEF Synced, SheetFields
<1> QED BY <1>1, <1>2, <1>3 DEF Empty

LEMMA SheetKeeps == ASSUME BlockInv, SheetStep \/ SheetFails PROVE BlockInv'
<1>1. UNCHANGED <<edge, desk, doubt>>
  BY DEF SheetStep, SheetFails, SendSheet, SheetWhite, SheetL4, SheetL4Row, SheetPorts, SheetPort, SheetClose,
         SheetGuard, SheetSite
<1>2. DOMAIN lists = Table /\ IsFiniteSet(DOMAIN ports) /\ IsFiniteSet(chosen) /\ IsFiniteSet({})
  BY FS_EmptySet DEF BlockInv, Shapes, Finite
<1>3. DOMAIN lists' = Table /\ lists'["black"] = lists["black"]
  <2>1. CASE SheetWhite
    <3>1. \E f : lists' = [lists EXCEPT !["white"] = f]
      BY <2>1 DEF SheetWhite
    <3> QED BY <1>2, <3>1 DEF Table
  <2>2. CASE ~SheetWhite
    <3>1. UNCHANGED lists
      BY <2>2 DEF SheetStep, SheetFails, SendSheet, SheetL4, SheetL4Row, SheetPorts, SheetPort, SheetClose,
                  SheetGuard, SheetSite, Stored
    <3> QED BY <1>2, <3>1
  <2> QED BY <2>1, <2>2
<1>4. DOMAIN sheet' = SheetFields /\ IsFiniteSet(DOMAIN sheet'.seen)
  <2>1. DOMAIN sheet = SheetFields /\ IsFiniteSet(DOMAIN sheet.seen)
    BY SheetIs
  <2>2. \A e, p : /\ DOMAIN [NoSheet EXCEPT !.pc = p, !.edge = e] = SheetFields
                  /\ [NoSheet EXCEPT !.pc = p, !.edge = e].seen = NoSheet.seen
    BY NoTaskIs DEF SheetFields
  <2>3. \A p : DOMAIN [sheet EXCEPT !.pc = p] = SheetFields /\ [sheet EXCEPT !.pc = p].seen = sheet.seen
    BY <2>1 DEF SheetFields
  <2>4. CASE SendSheet
    BY <2>2, <2>4, NoTaskIs DEF SendSheet, Files
  <2>5. CASE SheetWhite \/ SheetL4Row \/ SheetGuard
    BY <2>1, <2>3, <2>5 DEF SheetWhite, SheetL4Row, SheetGuard, Files
  <2>6. CASE SheetL4
    <3>1. sheet' = [sheet EXCEPT !.pc = "l4row", !.row = Overlaid(l4, sheet.edge.l4)]
      BY <2>6 DEF SheetL4, Files
    <3>2. DOMAIN sheet' = SheetFields /\ sheet'.seen = sheet.seen
      BY <2>1, <3>1 DEF SheetFields
    <3> QED BY <2>1, <3>2
  <2>7. CASE SheetPorts
    <3>1. sheet' = [sheet EXCEPT !.pc = "port", !.seen = ports, !.todo = sheet.edge.ports]
      BY <2>7 DEF SheetPorts, Files
    <3>2. DOMAIN sheet' = SheetFields /\ sheet'.seen = ports
      BY <2>1, <3>1 DEF SheetFields
    <3> QED BY <1>2, <3>2
  <2>8. CASE SheetPort
    <3>1. sheet' = NoPortMap \/ \E p, i : sheet' = Synced(p, i)
      BY <2>8 DEF SheetPort, Files
    <3> QED BY <1>2, <2>1, <3>1, SheetIs
  <2>9. CASE SheetClose
    <3>1. sheet' = [sheet EXCEPT !.pc = "guard", !.seen = Empty]
      BY <2>9 DEF SheetClose, Files
    <3>2. DOMAIN sheet' = SheetFields /\ sheet'.seen = Empty /\ DOMAIN Empty = {}
      BY <2>1, <3>1 DEF SheetFields, Empty
    <3> QED BY <1>2, <3>2
  <2>10. CASE SheetSite
    BY <2>10, NoTaskIs DEF SheetSite, Files
  <2>11. CASE SheetFails
    <3>1. sheet' = NoSheet \/ sheet' = NoPortMap \/ \E p : sheet' = [sheet EXCEPT !.pc = p]
      BY <2>11 DEF SheetFails, Files
    <3>2. CASE sheet' = NoSheet
      BY <3>2, NoTaskIs
    <3>3. CASE sheet' = NoPortMap
      BY <1>2, <3>3, SheetIs
    <3>4. CASE \E p : sheet' = [sheet EXCEPT !.pc = p]
      BY <2>1, <2>3, <3>4
    <3> QED BY <3>1, <3>2, <3>3, <3>4
  <2> QED BY <2>4, <2>5, <2>6, <2>7, <2>8, <2>9, <2>10, <2>11 DEF SheetStep
<1>5. IsFiniteSet(DOMAIN ports')
  <2>1. \/ UNCHANGED ports \/ \E i, p : ports' = Put(ports, i, p) \/ \E S : ports' = Drop(ports, S)
    BY DEF SheetStep, SheetFails, SendSheet, SheetWhite, SheetL4, SheetL4Row, SheetPorts, SheetPort, SheetClose,
           SheetGuard, SheetSite, Stored
  <2>2. \A i, p : IsFiniteSet(DOMAIN Put(ports, i, p))
    BY <1>2, PutIs
  <2>3. \A S : IsFiniteSet(DOMAIN Drop(ports, S))
    BY <1>2, DropIs
  <2> QED BY <1>2, <2>1, <2>2, <2>3
<1>6. IsFiniteSet(chosen')
  <2>1. CASE SheetSite
    <3>1. UNCHANGED ports /\ (chosen' \subseteq DOMAIN ports \/ UNCHANGED chosen)
      BY <2>1 DEF SheetSite
    <3> QED BY <1>2, <3>1, FS_Subset
  <2>2. CASE SheetClose
    <3>1. chosen' \subseteq chosen
      BY <2>2 DEF SheetClose
    <3> QED BY <1>2, <3>1, FS_Subset
  <2>3. CASE ~SheetSite /\ ~SheetClose
    <3>1. UNCHANGED chosen
      BY <2>3 DEF SheetStep, SheetFails, SendSheet, SheetWhite, SheetL4, SheetL4Row, SheetPorts, SheetPort,
                  SheetGuard, Stored
    <3> QED BY <1>2, <3>1
  <2> QED BY <2>1, <2>2, <2>3
<1> QED BY <1>1, <1>3, <1>4, <1>5, <1>6, ReportQuiet

-----------------------------------------------------------------------------
(* The theorem. *)

LEMMA BlockNext == ASSUME BlockInv, OneHandler, IdsLast, [ServerNext]_serverVars PROVE BlockInv'
<1>1. CASE UNCHANGED serverVars
  BY <1>1 DEF serverVars, BlockInv, Shapes, Finite, Seen, Due, Blacklists
<1>2. ASSUME NEW d \in Desk, Ask(d) \/ GoOn(d) \/ CallFails(d) \/ CutOff(d) PROVE BlockInv'
  <2>1. CASE Ask(d)
    BY <2>1, AskStep
  <2>2. CASE WritePort(d) \/ WriteMove(d) \/ WriteChoice(d) \/ ReadBack(d) \/ UndoPort(d)
    BY <2>2, WriteStep
  <2>3. CASE Call(d)
    BY <2>3, CallStep
  <2>4. CASE StoreEntry(d) \/ StoreRemoval(d) \/ StoreClear(d)
    BY <2>4, RowsStep
  <2>5. CASE StoreL4(d) \/ StoreGuard(d) \/ StoreClose(d) \/ CutOff(d)
    BY <2>5, StoreStep
  <2>6. CASE CallFails(d)
    BY <2>6, CallFailsStep
  <2> QED BY <1>2, <2>1, <2>2, <2>3, <2>4, <2>5, <2>6 DEF GoOn
<1>3. CASE SheetStep \/ SheetFails
  BY <1>3, SheetKeeps
<1> QED BY <1>1, <1>2, <1>3 DEF ServerNext

\* One handler at a time: whatever an edge blocks for good has a row on the panel, unless its
\* blacklisting ended in an error or its row is about to be stored.
THEOREM SerialBlocksSeen ==
    ASSUME OneHandler, IdsLast
    PROVE  ServerSpec => []NothingBlocksUnseen
<1>1. ServerInit => BlockInv
  BY BlockInit
<1>2. BlockInv /\ [ServerNext]_serverVars => BlockInv'
  BY BlockNext
<1>3. BlockInv => NothingBlocksUnseen
  BY DEF BlockInv, Seen, NothingBlocksUnseen
<1> QED BY <1>1, <1>2, <1>3, PTL DEF ServerSpec

-----------------------------------------------------------------------------
(* Types of a server's settings, for any number of handlers, with reports and   *)
(* failures in between.  PortsOK is more than a type: no port has two rows, and  *)
(* a site is served on ports that have one, which every statement must keep by   *)
(* itself.  A new row needs a free id: rows and ids in hand are finitely many.   *)

\* Rows with values in S.
Rows(f, S) == f \in [DOMAIN f -> S] /\ DOMAIN f \subseteq RowId /\ IsFiniteSet(DOMAIN f)

\* The tables.  Ports are unique and a selection is of rows that exist.
ListsOK == DOMAIN lists = Table /\ \A t \in Table : Rows(lists[t], Host)
PortsOK == Rows(ports, Port) /\ IsInjective(ports) /\ chosen \subseteq DOMAIN ports
Db == ListsOK /\ PortsOK /\ l4 \in [Field -> Setting] /\ guard \in Setting

\* What an edge has: its white list can be given rows.
EdgeOK(e) ==
    /\ e \in [white : SUBSET Host, black : SUBSET Host, l4 : [Field -> Setting], guard : Setting,
              ports : SUBSET Port, serves : SUBSET Port]
    /\ IsFiniteSet(e.white)

\* What a handler may have in hand.
TaskOK(j) ==
    /\ DOMAIN j = TaskFields /\ j.table \in Table
    /\ j.ids \subseteq RowId /\ IsFiniteSet(j.ids) /\ j.list \subseteq Port
    /\ j.pc # "idle" => j.what \in Work
    /\ j.pc = "undo" => j.what \in {"port", "move"}
    /\ j.what = "add" => \E h \in Host : j.item = {h}
    /\ j.what = "guard" => \E g \in Setting : j.item = {g}
    /\ j.what \in {"port", "move"} => \E p \in Port : j.item = {p}
    /\ j.what = "l4" => j.values \in [Field -> Setting]
    /\ j.what = "move" => \A i \in j.ids : j.before[i] \in Port

\* What a report may have in hand: what it has read of the ports was unique then.
SheetOK(s) ==
    /\ DOMAIN s = SheetFields
    /\ s.pc # "idle" => EdgeOK(s.edge)
    /\ s.pc = "l4row" => s.row \in [Field -> Setting]
    /\ Rows(s.seen, Port) /\ IsInjective(s.seen) /\ s.todo \subseteq Port

Desks == desk = [d \in Desk |-> desk[d]] /\ \A d \in Desk : TaskOK(desk[d])

ServerTypeInv ==
    /\ Db /\ EdgeOK(edge) /\ Desks /\ SheetOK(sheet) /\ doubt \subseteq Host
    /\ requests \in 0 .. MaxRequest /\ losses \in 0 .. MaxLoss

\* Finitely many handlers.
FewHandlers == IsFiniteSet(Desk)

-----------------------------------------------------------------------------
(* Rows. *)

LEMMA EmptyRows == ASSUME NEW S PROVE DOMAIN Empty = {} /\ Rows(Empty, S) /\ IsInjective(Empty)
<1>1. DOMAIN Empty = {} /\ Empty \in [{} -> S]
  BY DEF Empty
<1> QED BY <1>1, FS_EmptySet DEF Rows, IsInjective

LEMMA PutRows ==
    ASSUME NEW S, NEW f, Rows(f, S), NEW i \in RowId, NEW x \in S
    PROVE  /\ Rows(Put(f, i, x), S) /\ DOMAIN f \subseteq DOMAIN Put(f, i, x)
           /\ IsInjective(f) /\ (\A k \in DOMAIN f : k # i => f[k] # x) => IsInjective(Put(f, i, x))
<1>1. PICK g : g = Put(f, i, x)
  OBVIOUS
<1>2. /\ DOMAIN g = DOMAIN f \cup {i} /\ g[i] = x /\ \A k \in DOMAIN f : k # i => g[k] = f[k]
      /\ IsFiniteSet(DOMAIN g)
  <2>1. IsFiniteSet(DOMAIN f)
    BY DEF Rows
  <2>2. DOMAIN g = DOMAIN f \cup {i} /\ g[i] = x /\ \A k \in DOMAIN f : k # i => g[k] = f[k]
    BY <1>1 DEF Put
  <2>3. IsFiniteSet(DOMAIN f \cup {i})
    BY <2>1, FS_AddElement
  <2> QED BY <2>2, <2>3
<1>3. g \in [DOMAIN g -> S]
  <2>1. g = [k \in DOMAIN g |-> g[k]]
    BY <1>1 DEF Put
  <2>2. \A k \in DOMAIN g : g[k] \in S
    BY <1>2 DEF Rows
  <2> QED BY <2>1, <2>2
<1>4. Rows(g, S)
  BY <1>2, <1>3 DEF Rows
<1>5. ASSUME IsInjective(f), \A k \in DOMAIN f : k # i => f[k] # x PROVE IsInjective(g)
  BY <1>2, <1>5 DEF IsInjective
<1> QED BY <1>1, <1>2, <1>4, <1>5

LEMMA DropRows ==
    ASSUME NEW S, NEW f, Rows(f, S), NEW I
    PROVE  /\ Rows(Drop(f, I), S) /\ DOMAIN Drop(f, I) = DOMAIN f \ I
           /\ IsInjective(f) => IsInjective(Drop(f, I))
<1>1. PICK g : g = Drop(f, I)
  OBVIOUS
<1>2. /\ DOMAIN g = DOMAIN f \ I /\ \A k \in DOMAIN f \ I : g[k] = f[k]
      /\ IsFiniteSet(DOMAIN g)
  BY <1>1, DropIs DEF Rows
<1>3. g \in [DOMAIN g -> S]
  <2>1. g = [k \in DOMAIN g |-> g[k]]
    BY <1>1 DEF Drop
  <2>2. \A k \in DOMAIN g : g[k] \in S
    BY <1>2 DEF Rows
  <2> QED BY <2>1, <2>2
<1>4. Rows(g, S)
  BY <1>2, <1>3 DEF Rows
<1>5. ASSUME IsInjective(f) PROVE IsInjective(g)
  BY <1>2, <1>5 DEF IsInjective
<1> QED BY <1>1, <1>2, <1>4, <1>5

\* The ids in use are finitely many, however many handlers have some in hand.
LEMMA HeldIsFinite == ASSUME ServerTypeInv, FewHandlers PROVE IsFiniteSet(Held)
<1>1. PICK ids : ids = [d \in Desk |-> desk[d].ids]
  OBVIOUS
<1>2. IsFiniteSet({desk[d].ids : d \in Desk})
  <2>1. PICK T : T = {desk[d].ids : d \in Desk}
    OBVIOUS
  <2>2. ids \in Surjection(Desk, T)
    BY <1>1, <2>1 DEF Surjection
  <2> QED BY <2>1, <2>2, FS_Surjection DEF FewHandlers
<1>3. \A S \in {desk[d].ids : d \in Desk} : IsFiniteSet(S)
  BY DEF ServerTypeInv, Desks, TaskOK
<1>4. IsFiniteSet(UNION {desk[d].ids : d \in Desk})
  BY <1>2, <1>3, FS_UNION
<1>5. IsFiniteSet(DOMAIN sheet.seen) /\ IsFiniteSet(chosen)
  BY FS_Subset DEF ServerTypeInv, SheetOK, Rows, Db, ListsOK, PortsOK
<1>6. IsFiniteSet((UNION {desk[d].ids : d \in Desk}) \cup DOMAIN sheet.seen)
  BY <1>4, <1>5, FS_Union
<1>7. IsFiniteSet((UNION {desk[d].ids : d \in Desk}) \cup DOMAIN sheet.seen \cup chosen)
  BY <1>5, <1>6, FS_Union
<1> QED BY <1>7 DEF Held

LEMMA NextIdIs ==
    ASSUME ServerTypeInv, FewHandlers, IdsLast, NEW f, IsFiniteSet(DOMAIN f)
    PROVE  NextId(f) \in RowId \ DOMAIN f
<1>1. IsFiniteSet(DOMAIN f \cup Held)
  BY HeldIsFinite, FS_Union
<1>2. \E i \in RowId : i \notin DOMAIN f \cup Held
  <2> SUFFICES ASSUME RowId \subseteq DOMAIN f \cup Held PROVE FALSE
    OBVIOUS
  <2> QED BY <1>1, FS_Subset DEF IdsLast
<1> QED BY <1>2 DEF NextId

\* A set of subsets of a finite set has a member that contains no other.
LEMMA LeastSubset ==
    ASSUME NEW D, IsFiniteSet(D), NEW T, T \subseteq SUBSET D, T # {}
    PROVE  \E t \in T : \A u \in SUBSET t : u # t => u \notin T
<1>1. IsWellFoundedOn(StrictSubsetOrdering(D), FiniteSubsetsOf(D)) /\ FiniteSubsetsOf(D) = SUBSET D
  BY FS_StrictSubsetOrderingWellFounded, FS_FiniteSubsetsOfFinite
<1>2. PICK t \in T : \A y \in T : ~(<<y, t>> \in StrictSubsetOrdering(D))
  BY <1>1, WFMin
<1>3. ASSUME NEW u \in SUBSET t, u # t, u \in T PROVE FALSE
  BY <1>2, <1>3 DEF StrictSubsetOrdering
<1> QED BY <1>2, <1>3

\* There are rows for any finite set of addresses.
LEMMA NewRows ==
    ASSUME NEW W, IsFiniteSet(W), NEW F, ~IsFiniteSet(F)
    PROVE  \E S \in SUBSET F : Bijection(S, W) # {}
<1> DEFINE Has(V) == \E S \in SUBSET F : \E f \in [S -> V] : f \in Bijection(S, V)
           T == {V \in SUBSET W : ~Has(V)}
<1>1. SUFFICES ASSUME T # {} PROVE FALSE
  <2>1. Has(W)
    BY <1>1
  <2> QED BY <2>1
<1>2. PICK V \in T : \A U \in SUBSET V : U # V => U \notin T
  <2>1. T \subseteq SUBSET W
    OBVIOUS
  <2> HIDE DEF T
  <2> QED BY <1>1, <2>1, LeastSubset
<1>3. PICK x : x \in V
  <2>1. SUFFICES ASSUME V = {} PROVE FALSE
    OBVIOUS
  <2>2. [i \in {} |-> {}] \in Bijection({}, {})
    BY DEF Bijection, Injection, Surjection, IsInjective
  <2>3. [i \in {} |-> {}] \in [{} -> {}]
    OBVIOUS
  <2> QED BY <2>1, <2>2, <2>3
<1>4. Has(V \ {x})
  BY <1>2, <1>3
<1>5. PICK S, f : S \in SUBSET F /\ f \in [S -> V \ {x}] /\ f \in Bijection(S, V \ {x})
  BY <1>4
<1>6. PICK y : y \in F \ S
  <2>1. IsFiniteSet(V \ {x})
    BY FS_Subset
  <2>2. IsFiniteSet(S)
    BY <1>5, <2>1, FS_Injection DEF Bijection
  <2> QED BY <1>5, <2>2
<1>7. PICK g : g = [k \in S \cup {y} |-> IF k = y THEN x ELSE f[k]]
  OBVIOUS
<1>8. g \in Bijection(S \cup {y}, V)
  <2>1. \A k \in S : f[k] \in V \ {x}
    BY <1>5
  <2>2. \A a, b \in S : f[a] = f[b] => a = b
    BY <1>5 DEF Bijection, Injection, IsInjective
  <2>3. \A v \in V \ {x} : \E k \in S : f[k] = v
    BY <1>5 DEF Bijection, Surjection
  <2>4. g \in [S \cup {y} -> V]
    BY <1>3, <1>7, <2>1
  <2>5. \A a, b \in S \cup {y} : g[a] = g[b] => a = b
    BY <1>6, <1>7, <2>1, <2>2
  <2>6. \A v \in V : \E k \in S \cup {y} : g[k] = v
    BY <1>6, <1>7, <2>3
  <2> QED BY <2>4, <2>5, <2>6 DEF Bijection, Injection, Surjection, IsInjective
<1>9. Has(V)
  <2>1. S \cup {y} \in SUBSET F /\ g \in [S \cup {y} -> V]
    BY <1>5, <1>6, <1>8 DEF Bijection, Injection
  <2> QED BY <1>8, <2>1
<1> QED BY <1>2, <1>9

-----------------------------------------------------------------------------
(* Handlers. *)

\* A handler is given a task.
LEMMA TaskGiven ==
    ASSUME Desks, NEW d \in Desk, NEW j, TaskOK(j), Sets(d, j)
    PROVE  Desks'
<1>1. desk' = [c \in Desk |-> IF c = d THEN j ELSE desk[c]]
  BY DEF Sets, Desks
<1>2. desk' = [c \in Desk |-> desk'[c]]
  BY <1>1
<1>3. \A c \in Desk : TaskOK(desk'[c])
  BY <1>1 DEF Desks
<1> QED BY <1>2, <1>3 DEF Desks

\* Nothing to do, and nothing reported.
LEMMA NothingTypes == TaskOK(NoTask) /\ SheetOK(NoSheet)
<1>1. TaskOK(NoTask)
  <2>1. PICK j : j = NoTask
    OBVIOUS
  <2>2. /\ DOMAIN j = TaskFields /\ j.pc = "idle" /\ j.what = "none" /\ j.table = "white" /\ j.ids = {}
        /\ j.list = {}
    BY <2>1 DEF NoTask, TaskFields
  <2> QED BY <2>1, <2>2, FS_EmptySet DEF TaskOK, Table
<1>2. SheetOK(NoSheet)
  <2>1. PICK s : s = NoSheet
    OBVIOUS
  <2>2. DOMAIN s = SheetFields /\ s.pc = "idle" /\ s.seen = Empty /\ s.todo = {}
    BY <2>1 DEF NoSheet, SheetFields
  <2> QED BY <2>1, <2>2, EmptyRows DEF SheetOK
<1> QED BY <1>1, <1>2

\* A handler's next step finds its task as it was.
LEMMA GoesOn ==
    ASSUME NEW j, TaskOK(j), j.pc # "idle", NEW x, x = "undo" => j.what \in {"port", "move"}
    PROVE  TaskOK([j EXCEPT !.pc = x])
<1>1. PICK k : k = [j EXCEPT !.pc = x]
  OBVIOUS
<1>2. /\ DOMAIN k = TaskFields /\ k.pc = x /\ k.what = j.what /\ k.table = j.table /\ k.ids = j.ids
      /\ k.item = j.item
      /\ k.list = j.list /\ k.values = j.values /\ k.before = j.before
  BY <1>1 DEF TaskOK, TaskFields
<1>3. TaskOK(k)
  BY <1>2 DEF TaskOK
<1> QED BY <1>1, <1>3

\* The ports there are.
LEMMA ListTypes ==
    ASSUME PortsOK
    PROVE  /\ Range(ports) \subseteq Port /\ {ports[i] : i \in chosen} \subseteq Port
           /\ \A S : Range(Drop(ports, S)) \subseteq Port
           /\ \A S \in SUBSET DOMAIN ports : S \subseteq RowId /\ IsFiniteSet(S)
<1>1. Rows(ports, Port) /\ chosen \subseteq DOMAIN ports
  BY DEF PortsOK
<1>2. Range(ports) \subseteq Port /\ {ports[i] : i \in chosen} \subseteq Port
  BY <1>1 DEF Rows, Range
<1>3. ASSUME NEW S PROVE Range(Drop(ports, S)) \subseteq Port
  BY <1>1 DEF Rows, Range, Drop
<1>4. ASSUME NEW S \in SUBSET DOMAIN ports PROVE S \subseteq RowId /\ IsFiniteSet(S)
  BY <1>1, FS_Subset DEF Rows
<1> QED BY <1>2, <1>3, <1>4

\* A request gives its handler a task.
LEMMA AskedTask == ASSUME ServerTypeInv, NEW d \in Desk, Ask(d) PROVE \E j : TaskOK(j) /\ Sets(d, j)
<1>1. /\ Db /\ \A t \in Table : Rows(lists[t], Host)
      /\ NoTask.pc = "idle" /\ DOMAIN NoTask = TaskFields /\ NoTask.table = "white" /\ "white" \in Table
      /\ NoTask.ids = {} /\ NoTask.list = {} /\ IsFiniteSet({}) /\ \A i : IsFiniteSet({i})
  BY FS_EmptySet, FS_Singleton DEF ServerTypeInv, Db, ListsOK, PortsOK, NoTask, TaskFields, Table
<1>2. CASE AskAdd(d)
  <2>1. PICK t \in Table, h \in Host :
           Sets(d, [NoTask EXCEPT !.pc = "call", !.what = "add", !.table = t, !.item = {h}])
    BY <1>2 DEF AskAdd
  <2>2. PICK j : j = [NoTask EXCEPT !.pc = "call", !.what = "add", !.table = t, !.item = {h}]
    OBVIOUS
  <2>3. /\ DOMAIN j = TaskFields /\ j.pc # "undo" /\ j.what = "add" /\ j.table = t /\ j.item = {h}
        /\ j.ids = {} /\ j.list = {}
    BY <1>1, <2>2 DEF TaskFields
  <2>4. TaskOK(j)
    BY <1>1, <2>3 DEF TaskOK, Work, ListWork
  <2> QED BY <2>1, <2>2, <2>4
<1>3. CASE AskRemove(d)
  <2>1. PICK t \in Table : \E i \in DOMAIN lists[t] :
           Sets(d, [NoTask EXCEPT !.pc = "call", !.what = "remove", !.table = t,
                                  !.ids = {i}, !.item = {lists[t][i]}])
    BY <1>3 DEF AskRemove
  <2>2. PICK i \in DOMAIN lists[t] :
           Sets(d, [NoTask EXCEPT !.pc = "call", !.what = "remove", !.table = t,
                                  !.ids = {i}, !.item = {lists[t][i]}])
    BY <2>1
  <2>3. PICK j : j = [NoTask EXCEPT !.pc = "call", !.what = "remove", !.table = t,
                                    !.ids = {i}, !.item = {lists[t][i]}]
    OBVIOUS
  <2>4. /\ DOMAIN j = TaskFields /\ j.pc # "undo" /\ j.what = "remove" /\ j.table = t /\ j.ids = {i}
        /\ j.list = {}
    BY <1>1, <2>3 DEF TaskFields
  <2>5. i \in RowId
    BY <1>1, <2>2 DEF Rows
  <2>6. TaskOK(j)
    BY <1>1, <2>4, <2>5 DEF TaskOK, Work, ListWork
  <2> QED BY <2>2, <2>3, <2>6
<1>4. CASE AskClear(d)
  <2>1. PICK t \in Table : Sets(d, [NoTask EXCEPT !.pc = "call", !.what = "clear", !.table = t])
    BY <1>4 DEF AskClear
  <2>2. PICK j : j = [NoTask EXCEPT !.pc = "call", !.what = "clear", !.table = t]
    OBVIOUS
  <2>3. /\ DOMAIN j = TaskFields /\ j.pc # "undo" /\ j.what = "clear" /\ j.table = t /\ j.ids = {}
        /\ j.list = {}
    BY <1>1, <2>2 DEF TaskFields
  <2>4. TaskOK(j)
    BY <1>1, <2>3 DEF TaskOK, Work, ListWork
  <2> QED BY <2>1, <2>2, <2>4
<1>5. CASE AskL4(d)
  <2>1. PICK v \in [Field -> Setting] :
           Sets(d, [NoTask EXCEPT !.pc = "call", !.what = "l4", !.values = v])
    BY <1>5 DEF AskL4
  <2>2. PICK j : j = [NoTask EXCEPT !.pc = "call", !.what = "l4", !.values = v]
    OBVIOUS
  <2>3. /\ DOMAIN j = TaskFields /\ j.pc # "undo" /\ j.what = "l4" /\ j.table = "white" /\ j.ids = {}
        /\ j.list = {} /\ j.values = v
    BY <1>1, <2>2 DEF TaskFields
  <2>4. TaskOK(j)
    BY <1>1, <2>1, <2>3 DEF TaskOK, Work, ListWork
  <2> QED BY <2>1, <2>2, <2>4
<1>6. CASE AskGuard(d)
  <2>1. PICK g \in Setting : Sets(d, [NoTask EXCEPT !.pc = "call", !.what = "guard", !.item = {g}])
    BY <1>6 DEF AskGuard
  <2>2. PICK j : j = [NoTask EXCEPT !.pc = "call", !.what = "guard", !.item = {g}]
    OBVIOUS
  <2>3. /\ DOMAIN j = TaskFields /\ j.pc # "undo" /\ j.what = "guard" /\ j.table = "white" /\ j.ids = {}
        /\ j.list = {} /\ j.item = {g}
    BY <1>1, <2>2 DEF TaskFields
  <2>4. TaskOK(j)
    BY <1>1, <2>1, <2>3 DEF TaskOK, Work, ListWork
  <2> QED BY <2>1, <2>2, <2>4
<1>7. CASE AskPort(d)
  <2>1. PICK p \in Port \ Range(ports) :
           Sets(d, [NoTask EXCEPT !.pc = "write", !.what = "port", !.item = {p}])
    BY <1>7 DEF AskPort
  <2>2. PICK j : j = [NoTask EXCEPT !.pc = "write", !.what = "port", !.item = {p}]
    OBVIOUS
  <2>3. /\ DOMAIN j = TaskFields /\ j.pc # "undo" /\ j.what = "port" /\ j.table = "white" /\ j.ids = {}
        /\ j.list = {} /\ j.item = {p}
    BY <1>1, <2>2 DEF TaskFields
  <2>4. TaskOK(j)
    BY <1>1, <2>1, <2>3 DEF TaskOK, Work, ListWork
  <2> QED BY <2>1, <2>2, <2>4
<1>8. CASE AskMove(d)
  <2>1. PICK i \in DOMAIN ports, p \in Port :
           Sets(d, [NoTask EXCEPT !.pc = "write", !.what = "move", !.ids = {i}, !.item = {p},
                                  !.before = [k \in {i} |-> ports[i]]])
    BY <1>8 DEF AskMove
  <2>2. PICK j : j = [NoTask EXCEPT !.pc = "write", !.what = "move", !.ids = {i}, !.item = {p},
                                    !.before = [k \in {i} |-> ports[i]]]
    OBVIOUS
  <2>3. /\ DOMAIN j = TaskFields /\ j.pc # "undo" /\ j.what = "move" /\ j.table = "white" /\ j.ids = {i}
        /\ j.list = {}
        /\ j.item = {p} /\ j.before[i] = ports[i]
    BY <1>1, <2>2 DEF TaskFields
  <2>4. i \in RowId /\ ports[i] \in Port
    BY <1>1, <2>1 DEF Db, ListsOK, PortsOK, Rows
  <2>5. TaskOK(j)
    BY <1>1, <2>1, <2>3, <2>4 DEF TaskOK, Work, ListWork
  <2> QED BY <2>1, <2>2, <2>5
<1>9. CASE AskClose(d)
  <2>1. PICK S \in SUBSET DOMAIN ports :
           Sets(d, [NoTask EXCEPT !.pc = "call", !.what = "close", !.ids = S, !.list = Range(Drop(ports, S))])
    BY <1>9 DEF AskClose
  <2>2. PICK j : j = [NoTask EXCEPT !.pc = "call", !.what = "close", !.ids = S,
                                    !.list = Range(Drop(ports, S))]
    OBVIOUS
  <2>3. /\ DOMAIN j = TaskFields /\ j.pc # "undo" /\ j.what = "close" /\ j.table = "white" /\ j.ids = S
        /\ j.list = Range(Drop(ports, S))
    BY <1>1, <2>2 DEF TaskFields
  <2>4. S \subseteq RowId /\ IsFiniteSet(S) /\ j.list \subseteq Port
    BY <1>1, <2>1, <2>3, ListTypes DEF Db
  <2>5. TaskOK(j)
    BY <1>1, <2>3, <2>4 DEF TaskOK, Work, ListWork
  <2> QED BY <2>1, <2>2, <2>5
<1>10. CASE AskChoose(d)
  <2>1. PICK S \in SUBSET DOMAIN ports :
           Sets(d, [NoTask EXCEPT !.pc = "write", !.what = "choose", !.ids = S])
    BY <1>10 DEF AskChoose
  <2>2. PICK j : j = [NoTask EXCEPT !.pc = "write", !.what = "choose", !.ids = S]
    OBVIOUS
  <2>3. /\ DOMAIN j = TaskFields /\ j.pc # "undo" /\ j.what = "choose" /\ j.table = "white" /\ j.ids = S
        /\ j.list = {}
    BY <1>1, <2>2 DEF TaskFields
  <2>4. S \subseteq RowId /\ IsFiniteSet(S)
    BY <1>1, <2>1, ListTypes DEF Db
  <2>5. TaskOK(j)
    BY <1>1, <2>3, <2>4 DEF TaskOK, Work, ListWork
  <2> QED BY <2>1, <2>2, <2>5
<1>11. CASE AskSite(d)
  <2>1. PICK j : j = [NoTask EXCEPT !.pc = "list", !.what = "site"]
    OBVIOUS
  <2>2. /\ DOMAIN j = TaskFields /\ j.pc # "undo" /\ j.what = "site" /\ j.table = "white" /\ j.ids = {}
        /\ j.list = {}
    BY <1>1, <2>1 DEF TaskFields
  <2>3. TaskOK(j)
    BY <1>1, <2>2 DEF TaskOK, Work, ListWork
  <2>4. Sets(d, j)
    BY <1>11, <2>1 DEF AskSite
  <2> QED BY <2>3, <2>4
<1> QED BY <1>2, <1>3, <1>4, <1>5, <1>6, <1>7, <1>8, <1>9, <1>10, <1>11 DEF Ask

\* Whatever a handler does, it has a task of this form next.
LEMMA NextTask ==
    ASSUME ServerTypeInv, FewHandlers, IdsLast, NEW d \in Desk, Ask(d) \/ GoOn(d) \/ CallFails(d) \/ CutOff(d)
    PROVE  \E j : TaskOK(j) /\ Sets(d, j)
<1>1. TaskOK(desk[d]) /\ TaskOK(NoTask) /\ PortsOK
  BY NothingTypes DEF ServerTypeInv, Desks, Db
<1>2. ASSUME NEW x, desk[d].pc # "idle", x = "undo" => desk[d].what \in {"port", "move"},
             Sets(d, [desk[d] EXCEPT !.pc = x])
      PROVE  \E j : TaskOK(j) /\ Sets(d, j)
  <2>1. PICK j : j = desk[d]
    OBVIOUS
  <2>2. TaskOK(j) /\ j.pc # "idle" /\ (x = "undo" => j.what \in {"port", "move"})
    BY <1>1, <1>2, <2>1
  <2>3. TaskOK([j EXCEPT !.pc = x])
    BY <2>2, GoesOn
  <2> QED BY <1>2, <2>1, <2>3
<1>3. CASE Ask(d)
  BY <1>3, AskedTask
<1>4. CASE WritePort(d)
  <2>1. \/ Sets(d, NoTask)
        \/ Sets(d, [desk[d] EXCEPT !.pc = "list", !.ids = {NextId(ports)}])
    BY <1>4 DEF WritePort
  <2>2. PICK k, i : k = desk[d] /\ i = NextId(ports)
    OBVIOUS
  <2>3. PICK j : j = [k EXCEPT !.pc = "list", !.ids = {i}]
    OBVIOUS
  <2>4. TaskOK(k) /\ k.pc = "write" /\ k.what = "port"
    BY <1>1, <1>4, <2>2 DEF WritePort
  <2>5. /\ DOMAIN j = TaskFields /\ j.pc # "undo" /\ j.what = "port" /\ j.table = k.table /\ j.ids = {i}
        /\ j.item = k.item
        /\ j.list = k.list
    BY <2>3, <2>4 DEF TaskOK, TaskFields
  <2>6. i \in RowId /\ IsFiniteSet({i})
    <3>1. IsFiniteSet(DOMAIN ports)
      BY <1>1 DEF PortsOK, Rows
    <3> QED BY <2>2, <3>1, NextIdIs, FS_Singleton
  <2>7. TaskOK(j)
    BY <2>4, <2>5, <2>6 DEF TaskOK
  <2> QED BY <1>1, <2>1, <2>2, <2>3, <2>7
<1>5. CASE WriteMove(d) \/ WriteChoice(d)
  <2>1. desk[d].pc = "write" /\ (Sets(d, NoTask) \/ Sets(d, [desk[d] EXCEPT !.pc = "list"]))
    BY <1>5 DEF WriteMove, WriteChoice
  <2> QED BY <1>1, <1>2, <2>1
<1>6. CASE ReadBack(d)
  <2>1. PICK s \in SUBSET Port : Sets(d, [desk[d] EXCEPT !.pc = "call", !.list = s])
    BY <1>1, <1>6, ListTypes DEF ReadBack
  <2>2. PICK k : k = desk[d]
    OBVIOUS
  <2>3. PICK j : j = [k EXCEPT !.pc = "call", !.list = s]
    OBVIOUS
  <2>4. TaskOK(k) /\ k.pc # "idle"
    BY <1>1, <1>6, <2>2 DEF ReadBack
  <2>5. /\ DOMAIN j = TaskFields /\ j.pc # "undo" /\ j.what = k.what /\ j.table = k.table
        /\ j.ids = k.ids /\ j.item = k.item
        /\ j.list = s /\ j.values = k.values /\ j.before = k.before
    BY <2>3, <2>4 DEF TaskOK, TaskFields
  <2>6. TaskOK(j)
    BY <2>4, <2>5 DEF TaskOK
  <2> QED BY <2>1, <2>2, <2>3, <2>6
<1>7. CASE Call(d)
  <2>1. desk[d].pc = "call" /\ (Sets(d, NoTask) \/ Sets(d, [desk[d] EXCEPT !.pc = "store"]))
    BY <1>7 DEF Call
  <2> QED BY <1>1, <1>2, <2>1
<1>8. CASE CallFails(d)
  <2>1. /\ desk[d].pc = "call"
        /\ \/ Sets(d, NoTask)
           \/ desk[d].what \in {"port", "move"} /\ Sets(d, [desk[d] EXCEPT !.pc = "undo"])
    BY <1>8 DEF CallFails
  <2> QED BY <1>1, <1>2, <2>1
<1>9. CASE \/ UndoPort(d) \/ StoreEntry(d) \/ StoreRemoval(d) \/ StoreClear(d) \/ StoreL4(d)
           \/ StoreGuard(d) \/ StoreClose(d) \/ CutOff(d)
  <2>1. Sets(d, NoTask)
    BY <1>9 DEF UndoPort, StoreEntry, StoreRemoval, StoreClear, StoreL4, StoreGuard, StoreClose, Stores, CutOff
  <2> QED BY <1>1, <2>1
<1> QED BY <1>3, <1>4, <1>5, <1>6, <1>7, <1>8, <1>9 DEF GoOn

LEMMA DesksKept == ASSUME ServerTypeInv, FewHandlers, IdsLast, ServerNext PROVE Desks'
<1>1. ASSUME NEW d \in Desk, Ask(d) \/ GoOn(d) \/ CallFails(d) \/ CutOff(d) PROVE Desks'
  <2>1. PICK j : TaskOK(j) /\ Sets(d, j)
    BY <1>1, NextTask
  <2> QED BY <2>1, TaskGiven DEF ServerTypeInv
<1>2. CASE SheetStep \/ SheetFails
  <2>1. UNCHANGED desk
    BY <1>2 DEF SheetStep, SheetFails, SendSheet, SheetWhite, SheetL4, SheetL4Row, SheetPorts, SheetPort,
                SheetClose, SheetGuard, SheetSite
  <2> QED BY <2>1 DEF ServerTypeInv, Desks
<1> QED BY <1>1, <1>2 DEF ServerNext

-----------------------------------------------------------------------------
(* The edge, and the counters. *)

\* What the edge has after a call.
LEMMA TakingTypes == ASSUME ServerTypeInv, NEW d \in Desk, desk[d].pc = "call" PROVE EdgeOK(Taking(d))
<1>1. PICK k, e : k = desk[d] /\ e = edge
  OBVIOUS
<1>2. /\ TaskOK(k) /\ EdgeOK(e) /\ k.what \in Work /\ k.table \in {"white", "black"}
      /\ DOMAIN e = EdgeFields
  BY <1>1 DEF ServerTypeInv, Desks, TaskOK, EdgeOK, EdgeFields, Table
<1>3. PICK g : g = Taking(d)
  OBVIOUS
<1>4. CASE k.what \in ListWork
  <2>1. PICK T : /\ g = [e EXCEPT ![k.table] = T] /\ T \in SUBSET Host
                 /\ k.table = "white" => IsFiniteSet(T)
    <3>1. CASE k.what = "add"
      <4>1. PICK h \in Host : k.item = {h}
        BY <1>2, <3>1 DEF TaskOK
      <4>2. PICK T : T = e[k.table] \cup {h}
        OBVIOUS
      <4>3. g = [e EXCEPT ![k.table] = T]
        BY <1>1, <1>3, <3>1, <4>1, <4>2 DEF Taking
      <4>4. e[k.table] \in SUBSET Host
        BY <1>2 DEF EdgeOK
      <4>5. k.table = "white" => IsFiniteSet(T)
        BY <1>2, <4>2, FS_AddElement DEF EdgeOK
      <4> QED BY <4>2, <4>3, <4>4, <4>5
    <3>2. CASE k.what = "remove"
      <4>1. PICK T : T = e[k.table] \ k.item
        OBVIOUS
      <4>2. g = [e EXCEPT ![k.table] = T]
        BY <1>1, <1>3, <3>2, <4>1 DEF Taking
      <4>3. e[k.table] \in SUBSET Host
        BY <1>2 DEF EdgeOK
      <4>4. k.table = "white" => IsFiniteSet(T)
        BY <1>2, <4>1, FS_Subset DEF EdgeOK
      <4> QED BY <4>1, <4>2, <4>3, <4>4
    <3>3. CASE k.what = "clear"
      <4>1. g = [e EXCEPT ![k.table] = {}]
        BY <1>1, <1>3, <3>3 DEF Taking
      <4> QED BY <4>1, FS_EmptySet
    <3> QED BY <1>4, <3>1, <3>2, <3>3 DEF ListWork
  <2>2. CASE k.table = "white"
    <3>1. /\ DOMAIN g = EdgeFields /\ g = [f \in EdgeFields |-> g[f]] /\ g.white = T /\ g.black = e.black
          /\ g.l4 = e.l4 /\ g.guard = e.guard /\ g.ports = e.ports /\ g.serves = e.serves
      BY <1>2, <2>1, <2>2 DEF EdgeFields
    <3> QED BY <1>2, <1>3, <2>1, <2>2, <3>1 DEF EdgeOK, EdgeFields
  <2>3. CASE k.table = "black"
    <3>1. /\ DOMAIN g = EdgeFields /\ g = [f \in EdgeFields |-> g[f]] /\ g.white = e.white /\ g.black = T
          /\ g.l4 = e.l4 /\ g.guard = e.guard /\ g.ports = e.ports /\ g.serves = e.serves
      BY <1>2, <2>1, <2>3 DEF EdgeFields
    <3> QED BY <1>2, <1>3, <2>1, <3>1 DEF EdgeOK, EdgeFields
  <2> QED BY <1>2, <2>2, <2>3
<1>5. CASE k.what = "l4"
  <2>1. g = [e EXCEPT !.l4 = k.values] /\ k.values \in [Field -> Setting]
    BY <1>1, <1>2, <1>3, <1>5 DEF Taking, TaskOK
  <2> QED BY <1>2, <1>3, <2>1 DEF EdgeOK
<1>6. CASE k.what = "guard"
  <2>1. PICK x \in Setting : k.item = {x}
    BY <1>2, <1>6 DEF TaskOK
  <2>2. g = [e EXCEPT !.guard = x]
    BY <1>1, <1>3, <1>6, <2>1 DEF Taking
  <2> QED BY <1>2, <1>3, <2>2 DEF EdgeOK
<1>7. CASE k.what \in {"port", "move", "close"}
  <2>1. g = [e EXCEPT !.ports = k.list] /\ k.list \in SUBSET Port
    BY <1>1, <1>2, <1>3, <1>7 DEF Taking, TaskOK
  <2> QED BY <1>2, <1>3, <2>1 DEF EdgeOK
<1>8. CASE k.what \in {"choose", "site"}
  <2>1. g = [e EXCEPT !.serves = k.list] /\ k.list \in SUBSET Port
    BY <1>1, <1>2, <1>3, <1>8 DEF Taking, TaskOK
  <2> QED BY <1>2, <1>3, <2>1 DEF EdgeOK
<1> QED BY <1>2, <1>4, <1>5, <1>6, <1>7, <1>8 DEF Work

LEMMA EdgeKept == ASSUME ServerTypeInv, ServerNext PROVE EdgeOK(edge')
<1>1. ASSUME NEW d \in Desk, Ask(d) \/ GoOn(d) \/ CallFails(d) \/ CutOff(d) PROVE EdgeOK(edge')
  <2>1. UNCHANGED edge \/ (desk[d].pc = "call" /\ edge' = Taking(d))
    BY <1>1 DEF Ask, AskAdd, AskRemove, AskClear, AskL4, AskGuard, AskPort, AskMove, AskClose, AskChoose,
                AskSite, Asked, GoOn, WritePort, WriteMove, WriteChoice, ReadBack, UndoPort, Call, StoreEntry,
                StoreRemoval, StoreClear, StoreL4, StoreGuard, StoreClose, CallFails, CutOff
  <2> QED BY <2>1, TakingTypes DEF ServerTypeInv
<1>2. CASE SheetStep \/ SheetFails
  <2>1. UNCHANGED edge
    BY <1>2 DEF SheetStep, SheetFails, SendSheet, SheetWhite, SheetL4, SheetL4Row, SheetPorts, SheetPort,
                SheetClose, SheetGuard, SheetSite
  <2> QED BY <2>1 DEF ServerTypeInv
<1> QED BY <1>1, <1>2 DEF ServerNext

\* The addresses in doubt, and the bounds on requests and failures.
LEMMA CountsKept ==
    ASSUME ServerTypeInv, ServerNext
    PROVE  doubt' \subseteq Host /\ requests' \in 0 .. MaxRequest /\ losses' \in 0 .. MaxLoss
<1>1. doubt \subseteq Host /\ requests \in 0 .. MaxRequest /\ losses \in 0 .. MaxLoss
      /\ MaxRequest \in Nat /\ MaxLoss \in Nat
  BY BoundAssumption DEF ServerTypeInv
<1>2. ASSUME NEW d \in Desk, Ask(d)
      PROVE  requests < MaxRequest /\ requests' = requests + 1 /\ losses' = losses
  BY <1>2 DEF Ask, AskAdd, AskRemove, AskClear, AskL4, AskGuard, AskPort, AskMove, AskClose, AskChoose, AskSite,
              Asks, Asked
<1>3. ASSUME NEW d \in Desk, GoOn(d) \/ CallFails(d) \/ CutOff(d)
      PROVE  requests' = requests /\ (losses' = losses \/ (losses < MaxLoss /\ losses' = losses + 1))
  <2>1. CASE WritePort(d)
    BY <2>1 DEF WritePort, NoLoss
  <2>2. CASE WriteMove(d) \/ WriteChoice(d)
    BY <2>2 DEF WriteMove, WriteChoice, NoLoss
  <2>3. CASE ReadBack(d) \/ Call(d) \/ UndoPort(d)
    BY <2>3 DEF ReadBack, Call, UndoPort, NoLoss
  <2>4. CASE StoreEntry(d) \/ StoreRemoval(d) \/ StoreClear(d)
    BY <2>4 DEF StoreEntry, StoreRemoval, StoreClear, NoLoss
  <2>5. CASE StoreL4(d) \/ StoreGuard(d) \/ StoreClose(d)
    BY <2>5 DEF StoreL4, StoreGuard, StoreClose, NoLoss
  <2>6. CASE CallFails(d) \/ CutOff(d)
    BY <2>6 DEF CallFails, CutOff, Loss
  <2> QED BY <1>3, <2>1, <2>2, <2>3, <2>4, <2>5, <2>6 DEF GoOn
<1>5. CASE SheetStep \/ SheetFails
  <2>1. requests' = requests /\ (losses' = losses \/ (losses < MaxLoss /\ losses' = losses + 1))
    <3>1. CASE SendSheet \/ SheetWhite \/ SheetL4
      BY <3>1 DEF SendSheet, SheetWhite, SheetL4, NoLoss
    <3>2. CASE SheetL4Row \/ SheetPorts
      BY <3>2 DEF SheetL4Row, SheetPorts, NoLoss
    <3>3. CASE SheetPort
      BY <3>3 DEF SheetPort, NoLoss
    <3>4. CASE SheetClose \/ SheetGuard \/ SheetSite
      BY <3>4 DEF SheetClose, SheetGuard, SheetSite, NoLoss
    <3>5. CASE SheetFails
      BY <3>5 DEF SheetFails, Loss
    <3> QED BY <1>5, <3>1, <3>2, <3>3, <3>4, <3>5 DEF SheetStep
  <2>2. UNCHANGED doubt
    BY <1>5 DEF SheetStep, SheetFails, SendSheet, SheetWhite, SheetL4, SheetL4Row, SheetPorts, SheetPort,
                SheetClose, SheetGuard, SheetSite
  <2> QED BY <1>1, <2>1, <2>2
<1>6. ASSUME NEW d \in Desk, Ask(d) \/ GoOn(d) \/ CallFails(d) \/ CutOff(d)
      PROVE  doubt' \subseteq Host
  <2>1. CASE Ask(d)
    <3>1. UNCHANGED doubt
      BY <2>1 DEF Ask, AskAdd, AskRemove, AskClear, AskL4, AskGuard, AskPort, AskMove, AskClose, AskChoose,
                  AskSite, Asked
    <3> QED BY <1>1, <3>1
  <2>2. CASE GoOn(d) \/ CallFails(d) \/ CutOff(d)
    <3>1. UNCHANGED doubt \/ Doubts(d)
      BY <2>2 DEF GoOn, WritePort, WriteMove, WriteChoice, ReadBack, UndoPort, Call, StoreEntry, StoreRemoval,
                  StoreClear, StoreL4, StoreGuard, StoreClose, CallFails, CutOff
    <3>2. Blacklists(d) => desk[d].item \subseteq Host
      BY DEF ServerTypeInv, Desks, TaskOK, Blacklists
    <3> QED BY <1>1, <3>1, <3>2 DEF Doubts
  <2> QED BY <1>6, <2>1, <2>2
<1> QED BY <1>1, <1>2, <1>3, <1>5, <1>6 DEF ServerNext

-----------------------------------------------------------------------------
(* The lists, the L4 configuration and the guard. *)

\* The rows a report gives the white list.
LEMMA WhiteRows ==
    ASSUME ServerTypeInv, FewHandlers, IdsLast, SheetWhite
    PROVE  \E f : Rows(f, Host) /\ lists' = [lists EXCEPT !["white"] = f]
<1>1. PICK F, W : F = RowId \ (DOMAIN lists["white"] \cup Held) /\ W = sheet.edge.white
  OBVIOUS
<1>2. W \subseteq Host /\ IsFiniteSet(W)
  BY <1>1 DEF ServerTypeInv, SheetOK, SheetWhite, EdgeOK
<1>3. ~IsFiniteSet(F)
  <2>1. IsFiniteSet(DOMAIN lists["white"])
    BY DEF ServerTypeInv, Db, ListsOK, Rows, Table
  <2>2. IsFiniteSet(DOMAIN lists["white"] \cup Held)
    BY <2>1, HeldIsFinite, FS_Union
  <2>3. SUFFICES ASSUME IsFiniteSet(F) PROVE FALSE
    OBVIOUS
  <2>4. IsFiniteSet(F \cup (DOMAIN lists["white"] \cup Held))
    BY <2>2, <2>3, FS_Union
  <2>5. RowId \subseteq F \cup (DOMAIN lists["white"] \cup Held)
    BY <1>1
  <2> QED BY <2>4, <2>5, FS_Subset DEF IdsLast
<1>4. PICK B : B = UNION {Bijection(S, W) : S \in SUBSET F}
  OBVIOUS
<1>5. PICK f : f \in B /\ lists' = [lists EXCEPT !["white"] = f]
  <2>1. \E f : f \in B
    BY <1>2, <1>3, <1>4, NewRows
  <2>2. (CHOOSE f \in B : TRUE) \in B
    BY <2>1
  <2>3. lists' = [lists EXCEPT !["white"] = CHOOSE f \in B : TRUE]
    BY <1>1, <1>4 DEF SheetWhite
  <2> QED BY <2>2, <2>3
<1>6. PICK S \in SUBSET F : f \in Bijection(S, W)
  BY <1>4, <1>5
<1>7. f \in [S -> W] /\ IsFiniteSet(S)
  <2>1. f \in Injection(S, W)
    BY <1>6 DEF Bijection
  <2>2. IsFiniteSet(S)
    BY <1>2, <2>1, FS_Injection
  <2> QED BY <2>1, <2>2 DEF Injection
<1>8. Rows(f, Host)
  BY <1>1, <1>2, <1>7 DEF Rows
<1> QED BY <1>5, <1>8

LEMMA ListsKept == ASSUME ServerTypeInv, FewHandlers, IdsLast, ServerNext PROVE ListsOK'
<1>1. ASSUME NEW t \in Table, NEW f, Rows(f, Host), lists' = [lists EXCEPT ![t] = f] PROVE ListsOK'
  BY <1>1 DEF ServerTypeInv, Db, ListsOK
<1>2. ASSUME NEW d \in Desk, Ask(d) \/ GoOn(d) \/ CallFails(d) \/ CutOff(d) PROVE ListsOK'
  <2>1. PICK t, f : t = desk[d].table /\ f = lists[t]
    OBVIOUS
  <2>2. t \in Table /\ Rows(f, Host) /\ IsFiniteSet(DOMAIN f)
    BY <2>1 DEF ServerTypeInv, Db, ListsOK, Desks, TaskOK, Rows
  <2>3. CASE StoreEntry(d)
    <3>1. PICK h \in Host : desk[d].item = {h}
      BY <2>3 DEF StoreEntry, Stores, ServerTypeInv, Desks, TaskOK
    <3>2. PICK i : i = NextId(f)
      OBVIOUS
    <3>3. i \in RowId
      BY <2>2, <3>2, NextIdIs
    <3>4. Rows(Put(f, i, h), Host)
      BY <2>2, <3>3, PutRows
    <3>5. lists' = [lists EXCEPT ![t] = Put(f, i, h)]
      BY <2>1, <2>3, <3>1, <3>2 DEF StoreEntry
    <3> QED BY <1>1, <2>2, <3>4, <3>5
  <2>4. CASE StoreRemoval(d)
    <3>1. lists' = [lists EXCEPT ![t] = Drop(f, desk[d].ids)]
      BY <2>1, <2>4 DEF StoreRemoval
    <3>2. Rows(Drop(f, desk[d].ids), Host)
      BY <2>2, DropRows
    <3> QED BY <1>1, <2>2, <3>1, <3>2
  <2>5. CASE StoreClear(d)
    <3>1. lists' = [lists EXCEPT ![t] = Empty]
      BY <2>1, <2>5 DEF StoreClear
    <3> QED BY <1>1, <2>2, <3>1, EmptyRows
  <2>6. CASE ~StoreEntry(d) /\ ~StoreRemoval(d) /\ ~StoreClear(d)
    <3>1. UNCHANGED lists
      BY <1>2, <2>6 DEF Ask, AskAdd, AskRemove, AskClear, AskL4, AskGuard, AskPort, AskMove, AskClose, AskChoose,
                        AskSite, Asked, GoOn, WritePort, WriteMove, WriteChoice, ReadBack, UndoPort, Call,
                        StoreL4, StoreGuard, StoreClose, CallFails, CutOff, Stored
    <3> QED BY <3>1 DEF ServerTypeInv, Db, ListsOK
  <2> QED BY <2>3, <2>4, <2>5, <2>6
<1>3. CASE SheetStep \/ SheetFails
  <2>1. CASE SheetWhite
    <3>1. "white" \in Table
      BY DEF Table
    <3> QED BY <1>1, <2>1, <3>1, WhiteRows
  <2>2. CASE ~SheetWhite
    <3>1. UNCHANGED lists
      BY <1>3, <2>2 DEF SheetStep, SheetFails, SendSheet, SheetL4, SheetL4Row, SheetPorts, SheetPort,
                        SheetClose, SheetGuard, SheetSite, Stored
    <3> QED BY <3>1 DEF ServerTypeInv, Db, ListsOK
  <2> QED BY <2>1, <2>2
<1> QED BY <1>2, <1>3 DEF ServerNext

\* The L4 configuration and the guard.
LEMMA FieldsKept ==
    ASSUME ServerTypeInv, ServerNext
    PROVE  l4' \in [Field -> Setting] /\ guard' \in Setting
<1>1. l4 \in [Field -> Setting] /\ guard \in Setting
  BY DEF ServerTypeInv, Db
<1>2. ASSUME NEW d \in Desk, Ask(d) \/ GoOn(d) \/ CallFails(d) \/ CutOff(d)
      PROVE  l4' \in [Field -> Setting] /\ guard' \in Setting
  <2>1. CASE StoreL4(d)
    BY <1>1, <2>1 DEF StoreL4, Stores, ServerTypeInv, Desks, TaskOK
  <2>2. CASE StoreGuard(d)
    BY <1>1, <2>2 DEF StoreGuard, Stores, ServerTypeInv, Desks, TaskOK
  <2>3. CASE ~StoreL4(d) /\ ~StoreGuard(d)
    <3>1. UNCHANGED <<l4, guard>>
      BY <1>2, <2>3 DEF Ask, AskAdd, AskRemove, AskClear, AskL4, AskGuard, AskPort, AskMove, AskClose, AskChoose,
                        AskSite, Asked, GoOn, WritePort, WriteMove, WriteChoice, ReadBack, UndoPort, Call,
                        StoreEntry, StoreRemoval, StoreClear, StoreClose, CallFails, CutOff, Stored
    <3> QED BY <1>1, <3>1
  <2> QED BY <2>1, <2>2, <2>3
<1>3. CASE SheetStep \/ SheetFails
  <2>1. CASE SheetL4Row
    BY <1>1, <2>1 DEF SheetL4Row, ServerTypeInv, SheetOK
  <2>2. CASE SheetGuard
    BY <1>1, <2>2 DEF SheetGuard, ServerTypeInv, SheetOK, EdgeOK
  <2>3. CASE ~SheetL4Row /\ ~SheetGuard
    <3>1. UNCHANGED <<l4, guard>>
      BY <1>3, <2>3 DEF SheetStep, SheetFails, SendSheet, SheetWhite, SheetL4, SheetPorts, SheetPort,
                        SheetClose, SheetSite, Stored
    <3> QED BY <1>1, <3>1
  <2> QED BY <2>1, <2>2, <2>3
<1> QED BY <1>2, <1>3 DEF ServerNext

-----------------------------------------------------------------------------
(* The ports and the selection. *)

\* A row is put for a port no other row has.
LEMMA PortPut ==
    ASSUME PortsOK, NEW i \in RowId, NEW p \in Port, \A k \in DOMAIN ports : k # i => ports[k] # p,
           ports' = Put(ports, i, p), UNCHANGED chosen
    PROVE  PortsOK'
<1>1. /\ Rows(Put(ports, i, p), Port) /\ DOMAIN ports \subseteq DOMAIN Put(ports, i, p)
      /\ IsInjective(Put(ports, i, p))
  BY PutRows DEF PortsOK
<1> QED BY <1>1 DEF PortsOK

\* Rows go, and the selection of them.
LEMMA PortsDropped ==
    ASSUME PortsOK, NEW S, ports' = Drop(ports, S), chosen' = chosen \ S
    PROVE  PortsOK'
<1>1. Rows(Drop(ports, S), Port) /\ DOMAIN Drop(ports, S) = DOMAIN ports \ S /\ IsInjective(Drop(ports, S))
  BY DropRows DEF PortsOK
<1> QED BY <1>1 DEF PortsOK

LEMMA HandlerPorts ==
    ASSUME ServerTypeInv, FewHandlers, IdsLast, NEW d \in Desk,
           WritePort(d) \/ WriteMove(d) \/ WriteChoice(d) \/ UndoPort(d) \/ StoreClose(d)
    PROVE  PortsOK'
<1>1. PortsOK /\ TaskOK(desk[d])
  BY DEF ServerTypeInv, Db, Desks
<1>2. ASSUME UNCHANGED <<ports, chosen>> PROVE PortsOK'
  BY <1>1, <1>2 DEF PortsOK
<1>3. CASE WritePort(d)
  <2>1. PICK p \in Port : desk[d].item = {p}
    BY <1>1, <1>3 DEF WritePort, TaskOK
  <2>2. CASE desk[d].item \subseteq Range(ports)
    BY <1>2, <1>3, <2>2 DEF WritePort
  <2>3. CASE ~(desk[d].item \subseteq Range(ports))
    <3>1. PICK i : i = NextId(ports)
      OBVIOUS
    <3>2. i \in RowId
      <4>1. IsFiniteSet(DOMAIN ports)
        BY <1>1 DEF PortsOK, Rows
      <4> QED BY <3>1, <4>1, NextIdIs
    <3>3. \A k \in DOMAIN ports : ports[k] # p
      BY <2>1, <2>3 DEF Range
    <3>4. ports' = Put(ports, i, p) /\ UNCHANGED chosen
      BY <1>3, <2>1, <2>3, <3>1 DEF WritePort
    <3> QED BY <1>1, <3>2, <3>3, <3>4, PortPut
  <2> QED BY <2>2, <2>3
<1>4. CASE WriteMove(d)
  <2>1. PICK i \in desk[d].ids, p \in desk[d].item :
           IF Moves(i, p) THEN ports' = Put(ports, i, p) ELSE UNCHANGED ports
    BY <1>4 DEF WriteMove
  <2>2. i \in RowId /\ p \in Port /\ UNCHANGED chosen
    BY <1>1, <1>4, <2>1 DEF WriteMove, TaskOK
  <2>3. CASE Moves(i, p)
    BY <1>1, <2>1, <2>2, <2>3, PortPut DEF Moves
  <2> QED BY <1>2, <2>1, <2>2, <2>3
<1>5. CASE WriteChoice(d)
  BY <1>1, <1>5 DEF WriteChoice, PortsOK
<1>6. CASE UndoPort(d)
  <2>1. CASE desk[d].what = "port"
    <3>1. ports' = Drop(ports, desk[d].ids) /\ chosen' = chosen \ desk[d].ids
      BY <1>6, <2>1 DEF UndoPort
    <3> QED BY <1>1, <3>1, PortsDropped
  <2>2. CASE desk[d].what # "port"
    <3>1. PICK i \in desk[d].ids :
             ports' = IF Moves(i, desk[d].before[i]) THEN Put(ports, i, desk[d].before[i]) ELSE ports
      BY <1>6, <2>2 DEF UndoPort
    <3>2. PICK p : p = desk[d].before[i]
      OBVIOUS
    <3>3. i \in RowId /\ UNCHANGED chosen
      BY <1>1, <1>6, <2>2, <3>1 DEF UndoPort, TaskOK
    <3>4. CASE Moves(i, p)
      <4>1. p \in Port
        BY <1>1, <1>6, <2>2, <3>1, <3>2 DEF UndoPort, TaskOK
      <4> QED BY <1>1, <3>1, <3>2, <3>3, <3>4, <4>1, PortPut DEF Moves
    <3> QED BY <1>2, <3>1, <3>2, <3>3, <3>4
  <2> QED BY <2>1, <2>2
<1>7. CASE StoreClose(d)
  <2>1. ports' = Drop(ports, desk[d].ids) /\ chosen' = chosen \ desk[d].ids
    BY <1>7 DEF StoreClose
  <2> QED BY <1>1, <2>1, PortsDropped
<1> QED BY <1>3, <1>4, <1>5, <1>6, <1>7

LEMMA ReportPorts ==
    ASSUME ServerTypeInv, FewHandlers, IdsLast, SheetPort \/ SheetClose \/ SheetSite
    PROVE  PortsOK'
<1>1. PortsOK /\ SheetOK(sheet)
  BY DEF ServerTypeInv, Db
<1>2. CASE SheetPort
  <2>1. PICK p \in sheet.todo :
           LET rows_ == {i \in DOMAIN sheet.seen : sheet.seen[i] = p /\ Found(i, p)}
               i == IF rows_ # {} THEN CHOOSE j \in rows_ : TRUE ELSE NextId(ports)
           IN  IF p \in Range(Drop(ports, rows_)) THEN UNCHANGED ports /\ Files(NoPortMap)
               ELSE ports' = Put(ports, i, p) /\ Files(Synced(p, i))
    BY <1>2 DEF SheetPort
  <2>2. PICK T : T = {i \in DOMAIN sheet.seen : sheet.seen[i] = p /\ Found(i, p)}
    OBVIOUS
  <2>3. PICK i : i = IF T # {} THEN CHOOSE j \in T : TRUE ELSE NextId(ports)
    OBVIOUS
  <2>4. IF p \in Range(Drop(ports, T)) THEN UNCHANGED ports ELSE ports' = Put(ports, i, p)
    BY <2>1, <2>2, <2>3
  <2>5. UNCHANGED chosen
    BY <1>2 DEF SheetPort
  <2>6. CASE p \in Range(Drop(ports, T))
    BY <1>1, <2>4, <2>5, <2>6 DEF PortsOK
  <2>7. CASE p \notin Range(Drop(ports, T))
    <3>1. i \in RowId
      <4>1. CASE T # {}
        BY <1>1, <2>2, <2>3, <4>1 DEF Found, PortsOK, Rows
      <4>2. CASE T = {}
        <5>1. IsFiniteSet(DOMAIN ports)
          BY <1>1 DEF PortsOK, Rows
        <5> QED BY <2>3, <4>2, <5>1, NextIdIs
      <4> QED BY <4>1, <4>2
    <3>2. T \subseteq {i}
      BY <1>1, <2>2, <2>3 DEF SheetOK, IsInjective
    <3>3. \A k \in DOMAIN ports \ T : ports[k] # p
      BY <2>7, DropIs DEF Range
    <3>4. \A k \in DOMAIN ports : k # i => ports[k] # p
      BY <3>2, <3>3
    <3>5. p \in Port
      BY <1>1 DEF SheetOK
    <3>6. ports' = Put(ports, i, p)
      BY <2>4, <2>7
    <3> QED BY <1>1, <2>5, <3>1, <3>4, <3>5, <3>6, PortPut
  <2> QED BY <2>6, <2>7
<1>3. CASE SheetClose
  <2>1. PICK S : ports' = Drop(ports, S) /\ chosen' = chosen \ S
    BY <1>3 DEF SheetClose
  <2> QED BY <1>1, <2>1, PortsDropped
<1>4. CASE SheetSite
  <2>1. UNCHANGED ports /\ (chosen' \subseteq DOMAIN ports \/ UNCHANGED chosen)
    BY <1>4 DEF SheetSite
  <2> QED BY <1>1, <2>1 DEF PortsOK
<1> QED BY <1>2, <1>3, <1>4

LEMMA PortsKept == ASSUME ServerTypeInv, FewHandlers, IdsLast, ServerNext PROVE PortsOK'
<1>1. ASSUME UNCHANGED <<ports, chosen>> PROVE PortsOK'
  BY <1>1 DEF ServerTypeInv, Db, PortsOK
<1>2. ASSUME NEW d \in Desk, Ask(d) \/ GoOn(d) \/ CallFails(d) \/ CutOff(d) PROVE PortsOK'
  <2>1. CASE WritePort(d) \/ WriteMove(d) \/ WriteChoice(d) \/ UndoPort(d) \/ StoreClose(d)
    BY <2>1, HandlerPorts
  <2>2. CASE Ask(d)
    <3>1. UNCHANGED <<ports, chosen>>
      BY <2>2 DEF Ask, AskAdd, AskRemove, AskClear, AskL4, AskGuard, AskPort, AskMove, AskClose, AskChoose,
                  AskSite, Asked, Stored
    <3> QED BY <1>1, <3>1
  <2>3. CASE \/ ReadBack(d) \/ Call(d) \/ CallFails(d) \/ CutOff(d)
             \/ StoreEntry(d) \/ StoreRemoval(d) \/ StoreClear(d) \/ StoreL4(d) \/ StoreGuard(d)
    <3>1. UNCHANGED <<ports, chosen>>
      BY <2>3 DEF ReadBack, Call, CallFails, CutOff, StoreEntry, StoreRemoval, StoreClear, StoreL4,
                  StoreGuard, Stored
    <3> QED BY <1>1, <3>1
  <2> QED BY <1>2, <2>1, <2>2, <2>3 DEF GoOn
<1>3. CASE SheetPort \/ SheetClose \/ SheetSite
  BY <1>3, ReportPorts
<1>4. CASE SheetFails \/ (SheetStep /\ ~SheetPort /\ ~SheetClose /\ ~SheetSite)
  <2>1. UNCHANGED <<ports, chosen>>
    BY <1>4 DEF SheetStep, SheetFails, SendSheet, SheetWhite, SheetL4, SheetL4Row, SheetPorts, SheetGuard, Stored
  <2> QED BY <1>1, <2>1
<1> QED BY <1>2, <1>3, <1>4 DEF ServerNext

-----------------------------------------------------------------------------
(* Reports. *)

\* A report that goes on keeps what it carries and has read.
LEMMA ReportGoesOn ==
    ASSUME NEW s, SheetOK(s), s.pc # "idle", NEW x, x # "l4row"
    PROVE  SheetOK([s EXCEPT !.pc = x])
<1>1. PICK k : k = [s EXCEPT !.pc = x]
  OBVIOUS
<1>2. DOMAIN k = SheetFields /\ k.pc = x /\ k.edge = s.edge /\ k.seen = s.seen /\ k.todo = s.todo
  BY <1>1 DEF SheetOK, SheetFields
<1>3. SheetOK(k)
  BY <1>2 DEF SheetOK
<1> QED BY <1>1, <1>3

LEMMA ReportKept == ASSUME ServerTypeInv, ServerNext PROVE SheetOK(sheet')
<1>1. SheetOK(sheet) /\ SheetOK(NoSheet) /\ EdgeOK(edge) /\ PortsOK
  BY NothingTypes DEF ServerTypeInv, Db
<1>2. PICK s : s = sheet
  OBVIOUS
<1>3. ASSUME NEW x, x # "l4row", s.pc # "idle", sheet' = [s EXCEPT !.pc = x] PROVE SheetOK(sheet')
  BY <1>1, <1>2, <1>3, ReportGoesOn
\* A report with fields as they should be.
<1>4. ASSUME NEW k, DOMAIN k = SheetFields, EdgeOK(k.edge), k.pc # "l4row", Rows(k.seen, Port),
             IsInjective(k.seen), k.todo \subseteq Port, sheet' = k
      PROVE  SheetOK(sheet')
  BY <1>4 DEF SheetOK
<1>5. CASE \E d \in Desk : Ask(d) \/ GoOn(d) \/ CallFails(d) \/ CutOff(d)
  <2>1. PICK d \in Desk : Ask(d) \/ GoOn(d) \/ CallFails(d) \/ CutOff(d)
    BY <1>5
  <2>2. UNCHANGED sheet
    BY <2>1 DEF Ask, AskAdd, AskRemove, AskClear, AskL4, AskGuard, AskPort, AskMove, AskClose, AskChoose,
                AskSite, Asked, GoOn, WritePort, WriteMove, WriteChoice, ReadBack, UndoPort, Call, StoreEntry,
                StoreRemoval, StoreClear, StoreL4, StoreGuard, StoreClose, CallFails, CutOff
  <2> QED BY <1>1, <2>2
<1>6. CASE SendSheet
  <2>1. PICK n, k : n = NoSheet /\ k = [n EXCEPT !.pc = "white", !.edge = edge]
    OBVIOUS
  <2>2. DOMAIN k = SheetFields /\ k.pc = "white" /\ k.edge = edge /\ k.seen = n.seen /\ k.todo = n.todo
    BY <1>1, <2>1 DEF SheetOK, SheetFields
  <2>3. Rows(k.seen, Port) /\ IsInjective(k.seen) /\ k.todo \subseteq Port
    BY <1>1, <2>1, <2>2 DEF SheetOK
  <2>4. sheet' = k
    BY <1>6, <2>1 DEF SendSheet, Files
  <2> QED BY <1>1, <1>4, <2>2, <2>3, <2>4
<1>7. CASE SheetWhite \/ SheetL4Row \/ SheetGuard
  <2>1. /\ s.pc # "idle"
        /\ \/ sheet' = [s EXCEPT !.pc = "l4"] \/ sheet' = [s EXCEPT !.pc = "ports"]
           \/ sheet' = [s EXCEPT !.pc = "site"]
    BY <1>2, <1>7 DEF SheetWhite, SheetL4Row, SheetGuard, Files
  <2> QED BY <1>3, <2>1
<1>8. CASE SheetL4
  <2>1. PICK r : r = Overlaid(l4, s.edge.l4)
    OBVIOUS
  <2>2. PICK k : k = [s EXCEPT !.pc = "l4row", !.row = r]
    OBVIOUS
  <2>3. SheetOK(s) /\ EdgeOK(s.edge) /\ sheet' = k
    BY <1>1, <1>2, <1>8, <2>1, <2>2 DEF SheetL4, SheetOK, Files
  <2>4. r \in [Field -> Setting]
    <3>1. s.edge.l4 \in [Field -> Setting] /\ l4 \in [Field -> Setting]
      BY <2>3 DEF EdgeOK, ServerTypeInv, Db
    <3> QED BY <2>1, <3>1, FieldAssumption DEF Overlaid
  <2>5. DOMAIN k = SheetFields /\ k.row = r /\ k.edge = s.edge /\ k.seen = s.seen /\ k.todo = s.todo
    BY <2>2, <2>3 DEF SheetOK, SheetFields
  <2>6. SheetOK(k)
    BY <2>3, <2>4, <2>5 DEF SheetOK
  <2> QED BY <2>3, <2>6
<1>9. CASE SheetPorts
  <2>1. PICK k : k = [s EXCEPT !.pc = "port", !.seen = ports, !.todo = s.edge.ports]
    OBVIOUS
  <2>2. SheetOK(s) /\ EdgeOK(s.edge) /\ sheet' = k
    BY <1>1, <1>2, <1>9, <2>1 DEF SheetPorts, SheetOK, Files
  <2>3. /\ DOMAIN k = SheetFields /\ k.pc = "port" /\ k.edge = s.edge /\ k.seen = ports
        /\ k.todo = s.edge.ports
    BY <2>1, <2>2 DEF SheetOK, SheetFields
  <2>4. Rows(k.seen, Port) /\ IsInjective(k.seen) /\ k.todo \subseteq Port
    BY <1>1, <2>2, <2>3 DEF PortsOK, EdgeOK
  <2> QED BY <1>4, <2>2, <2>3, <2>4
\* The port map is lost.
<1>10. ASSUME s.pc # "idle", sheet' = NoPortMap PROVE SheetOK(sheet')
  <2>1. PICK k : k = [s EXCEPT !.pc = "guard", !.synced = Empty, !.todo = {}, !.seen = Empty]
    OBVIOUS
  <2>2. SheetOK(s) /\ EdgeOK(s.edge) /\ sheet' = k
    BY <1>1, <1>2, <1>10, <2>1 DEF NoPortMap, SheetOK
  <2>3. DOMAIN k = SheetFields /\ k.pc = "guard" /\ k.edge = s.edge /\ k.seen = Empty /\ k.todo = {}
    BY <2>1, <2>2 DEF SheetOK, SheetFields
  <2>4. Rows(k.seen, Port) /\ IsInjective(k.seen) /\ k.todo \subseteq Port
    BY <2>3, EmptyRows
  <2> QED BY <1>4, <2>2, <2>3, <2>4
<1>11. CASE SheetPort
  <2>1. s.pc = "port" /\ (sheet' = NoPortMap \/ \E p, i : sheet' = Synced(p, i))
    BY <1>2, <1>11 DEF SheetPort, Files
  <2>2. CASE \E p, i : sheet' = Synced(p, i)
    <3>1. PICK p, i : sheet' = Synced(p, i)
      BY <2>2
    <3>2. PICK m : m = Put(s.synced, p, i)
      OBVIOUS
    <3>3. PICK k : k = [s EXCEPT !.todo = s.todo \ {p}, !.synced = m]
      OBVIOUS
    <3>4. SheetOK(s) /\ EdgeOK(s.edge) /\ sheet' = k
      BY <1>1, <1>2, <2>1, <3>1, <3>2, <3>3 DEF Synced, SheetOK
    <3>5. /\ DOMAIN k = SheetFields /\ k.pc = s.pc /\ k.edge = s.edge /\ k.seen = s.seen
          /\ k.todo = s.todo \ {p}
      BY <3>3, <3>4 DEF SheetOK, SheetFields
    <3>6. Rows(k.seen, Port) /\ IsInjective(k.seen) /\ k.todo \subseteq Port
      BY <3>4, <3>5 DEF SheetOK
    <3> QED BY <1>4, <2>1, <3>4, <3>5, <3>6
  <2> QED BY <1>10, <2>1, <2>2
<1>12. CASE SheetClose
  <2>1. PICK k : k = [s EXCEPT !.pc = "guard", !.seen = Empty]
    OBVIOUS
  <2>2. SheetOK(s) /\ EdgeOK(s.edge) /\ sheet' = k
    BY <1>1, <1>2, <1>12, <2>1 DEF SheetClose, SheetOK, Files
  <2>3. DOMAIN k = SheetFields /\ k.pc = "guard" /\ k.edge = s.edge /\ k.seen = Empty /\ k.todo = s.todo
    BY <2>1, <2>2 DEF SheetOK, SheetFields
  <2>4. Rows(k.seen, Port) /\ IsInjective(k.seen) /\ k.todo \subseteq Port
    BY <2>2, <2>3, EmptyRows DEF SheetOK
  <2> QED BY <1>4, <2>2, <2>3, <2>4
<1>13. CASE SheetSite
  BY <1>1, <1>13 DEF SheetSite, Files
<1>14. CASE SheetFails
  <2>1. /\ s.pc # "idle"
        /\ \/ sheet' = NoSheet \/ sheet' = NoPortMap
           \/ sheet' = [s EXCEPT !.pc = "ports"] \/ sheet' = [s EXCEPT !.pc = "site"]
    BY <1>2, <1>14 DEF SheetFails, Files
  <2> QED BY <1>1, <1>3, <1>10, <2>1
<1> QED BY <1>5, <1>6, <1>7, <1>8, <1>9, <1>11, <1>12, <1>13, <1>14 DEF ServerNext, SheetStep

-----------------------------------------------------------------------------
(* The theorem. *)

LEMMA ServerTypeInit == ASSUME ServerInit PROVE ServerTypeInv
<1>1. Default \in Setting /\ MaxRequest \in Nat /\ MaxLoss \in Nat
  BY DefaultAssumption, BoundAssumption
<1>2. ListsOK
  <2>1. lists = [t \in Table |-> Empty]
    BY DEF ServerInit
  <2> QED BY <2>1, EmptyRows DEF ListsOK
<1>3. l4 \in [Field -> Setting] /\ guard \in Setting
  BY <1>1 DEF ServerInit
<1>4. PortsOK
  <2>1. PICK S \in SUBSET RowId : /\ ports \in Injection(S, Port)
                                  /\ S \in {{}, {CHOOSE i \in RowId : TRUE}}
    BY DEF ServerInit
  <2>2. IsFiniteSet(S)
    <3>1. CASE S = {}
      BY <3>1, FS_EmptySet
    <3>2. CASE S = {CHOOSE i \in RowId : TRUE}
      <4>1. IsFiniteSet({CHOOSE i \in RowId : TRUE})
        BY FS_Singleton
      <4> QED BY <3>2, <4>1
    <3> QED BY <2>1, <3>1, <3>2
  <2>3. ports \in [S -> Port] /\ IsInjective(ports)
    BY <2>1 DEF Injection
  <2>4. Rows(ports, Port)
    BY <2>1, <2>2, <2>3 DEF Rows
  <2>5. chosen \subseteq DOMAIN ports
    BY DEF ServerInit
  <2> QED BY <2>3, <2>4, <2>5 DEF PortsOK
<1>5. EdgeOK(edge)
  <2>1. edge = [white |-> {}, black |-> {}, l4 |-> l4, guard |-> guard,
                ports |-> Range(ports), serves |-> {ports[i] : i \in chosen}]
    BY DEF ServerInit
  <2>2. Range(ports) \subseteq Port /\ {ports[i] : i \in chosen} \subseteq Port
    BY <1>4, ListTypes
  <2> QED BY <1>3, <2>1, <2>2, FS_EmptySet DEF EdgeOK
<1>6. Desks
  <2>1. desk = [d \in Desk |-> NoTask]
    BY DEF ServerInit
  <2> QED BY <2>1, NothingTypes DEF Desks
<1>7. SheetOK(sheet) /\ doubt \subseteq Host /\ requests \in 0 .. MaxRequest /\ losses \in 0 .. MaxLoss
  BY <1>1, NothingTypes DEF ServerInit
<1> QED BY <1>2, <1>3, <1>4, <1>5, <1>6, <1>7 DEF ServerTypeInv, Db

\* Any number of handlers, reports and failures in between: every variable keeps its type, no
\* port ever has two rows, and a site is never selected on a port without one.
THEOREM ServerTypeCorrect ==
    ASSUME FewHandlers, IdsLast
    PROVE  ServerSpec => []ServerTypeInv
<1>1. ServerInit => ServerTypeInv
  BY ServerTypeInit
<1>2. ServerTypeInv /\ [ServerNext]_serverVars => ServerTypeInv'
  <2>1. CASE ServerTypeInv /\ ServerNext
    BY <2>1, ListsKept, FieldsKept, PortsKept, EdgeKept, DesksKept, ReportKept, CountsKept
    DEF ServerTypeInv, Db
  <2>2. CASE ServerTypeInv /\ UNCHANGED serverVars
    BY <2>2 DEF serverVars, ServerTypeInv, Db, ListsOK, PortsOK, Desks
  <2> QED BY <2>1, <2>2
<1> QED BY <1>1, <1>2, PTL DEF ServerSpec
=============================================================================
