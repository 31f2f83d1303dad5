---------------------------- MODULE ServerSettings ----------------------------
(***************************************************************************)
(* The settings of one edge server: its L4 configuration (l4_ddos_defense),   *)
(* its permanent white- and blacklist, its L7 guard, its listening ports and   *)
(* the ports one of its sites is served on.  The handlers under /servers/{id}   *)
(* (api/handlers.go, api/l7_guard.go) and PUT /sites/{id}/ports change them     *)
(* from the panel; every minute the edge reports its own, and the report is     *)
(* written over the database (api/edge_configure_report.go).  Every database    *)
(* command and every call of the edge is a step of its own.                    *)
(***************************************************************************)
EXTENDS Integers, Functions

CONSTANTS
    Host,         \* addresses on the white- and blacklist
    Field,        \* fields of the L4 configuration
    Reported,     \* those an edge's firewall_config carries
    Setting,      \* values of a field and of the L7 guard
    Default,      \* the guard's default settings
    Port,         \* ports, with their protocol
    Desk,         \* panel handlers that may run at the same time
    RowId,        \* row ids
    MaxRequest,   \* bound on requests to the panel
    MaxLoss       \* bound on calls of edge or database that fail

ASSUME FieldAssumption == Reported \subseteq Field
ASSUME DefaultAssumption == Default \in Setting
ASSUME BoundAssumption == MaxRequest \in Nat /\ MaxLoss \in Nat

Table == {"white", "black"}

VARIABLES
    edge,         \* what the edge has
    lists,        \* l4_whitelist, l4_blacklist: id |-> address
    l4,           \* l4_ddos_defense: field |-> value
    guard,        \* l7_guard_settings, the default when there is no row
    ports,        \* listening_ports: id |-> port, unique
    chosen,       \* site_listening_ports: ids
    desk,         \* what each panel handler is doing
    sheet,        \* the edge's report, on its way or being written
    doubt,        \* history: addresses whose blacklisting ended in an error
    requests,     \* bounded by MaxRequest
    losses        \* bounded by MaxLoss

serverVars == <<edge, lists, l4, guard, ports, chosen, desk, sheet, doubt, requests, losses>>

-----------------------------------------------------------------------------
Put(f, i, x) == [j \in DOMAIN f \cup {i} |-> IF j = i THEN x ELSE f[j]]
Drop(f, S) == [j \in DOMAIN f \ S |-> f[j]]
Empty == [i \in {} |-> {}]
\* AUTO_INCREMENT: an id no handler or report holds; which one makes no difference.
Held == (UNION {desk[d].ids : d \in Desk}) \cup DOMAIN sheet.seen \cup chosen
NextId(f) == CHOOSE i \in RowId : i \notin DOMAIN f \cup Held

NoTask == [pc |-> "idle", what |-> "none", table |-> "white", ids |-> {}, item |-> {},
           list |-> {}, values |-> Empty, before |-> Empty]
NoSheet == [pc |-> "idle", edge |-> Empty, row |-> Empty, seen |-> Empty, todo |-> {}, synced |-> Empty]

Sets(d, task) == desk' = [desk EXCEPT ![d] = task]
Files(s) == sheet' = s
Loss == losses < MaxLoss /\ losses' = losses + 1
NoLoss == UNCHANGED losses
Stored == <<lists, l4, guard, ports, chosen>>

-----------------------------------------------------------------------------
(* Requests: what each reads before it calls the edge or writes. *)

Asks(d) == desk[d].pc = "idle" /\ requests < MaxRequest /\ requests' = requests + 1
Asked == UNCHANGED <<edge, Stored, sheet, doubt, losses>>

\* POST .../l4/whitelist and .../l4/blacklist: the edge first.
AskAdd(d) ==
    /\ Asks(d) /\ Asked
    /\ \E t \in Table, h \in Host :
          Sets(d, [NoTask EXCEPT !.pc = "call", !.what = "add", !.table = t, !.item = {h}])

\* POST .../remove/{id}: the address of the row is looked up.
AskRemove(d) ==
    /\ Asks(d) /\ Asked
    /\ \E t \in Table : \E i \in DOMAIN lists[t] :
          Sets(d, [NoTask EXCEPT !.pc = "call", !.what = "remove", !.table = t,
                                 !.ids = {i}, !.item = {lists[t][i]}])

\* POST .../clear
AskClear(d) ==
    /\ Asks(d) /\ Asked
    /\ \E t \in Table : Sets(d, [NoTask EXCEPT !.pc = "call", !.what = "clear", !.table = t])

\* PUT .../l4: the whole configuration.
AskL4(d) ==
    /\ Asks(d) /\ Asked
    /\ \E v \in [Field -> Setting] :
          Sets(d, [NoTask EXCEPT !.pc = "call", !.what = "l4", !.values = v])

\* PUT .../l7-guard: settings, or the defaults by a reset.
AskGuard(d) ==
    /\ Asks(d) /\ Asked
    /\ \E g \in Setting : Sets(d, [NoTask EXCEPT !.pc = "call", !.what = "guard", !.item = {g}])

\* POST .../listening-ports: validateListeningPortAvailable has found the port free.
AskPort(d) ==
    /\ Asks(d) /\ Asked
    /\ \E p \in Port \ Range(ports) :
          Sets(d, [NoTask EXCEPT !.pc = "write", !.what = "port", !.item = {p}])

\* PUT .../listening-ports/{id}
AskMove(d) ==
    /\ Asks(d) /\ Asked
    /\ \E i \in DOMAIN ports, p \in Port :
          /\ \A j \in DOMAIN ports \ {i} : ports[j] # p
          /\ Sets(d, [NoTask EXCEPT !.pc = "write", !.what = "move", !.ids = {i}, !.item = {p},
                                    !.before = [j \in {i} |-> ports[i]]])

\* DELETE .../listening-ports/{id} and the batch: the ports that remain are sent first.
AskClose(d) ==
    /\ Asks(d) /\ Asked
    /\ \E S \in SUBSET DOMAIN ports :
          Sets(d, [NoTask EXCEPT !.pc = "call", !.what = "close", !.ids = S,
                                 !.list = Range(Drop(ports, S))])

\* PUT /sites/{id}/ports: validateSitePortSelections has found the ids.
AskChoose(d) ==
    /\ Asks(d) /\ Asked
    /\ \E S \in SUBSET DOMAIN ports :
          Sets(d, [NoTask EXCEPT !.pc = "write", !.what = "choose", !.ids = S])

\* The whole site is saved and pushed: buildL7SiteConfigPayload reads the selection.
AskSite(d) ==
    /\ Asks(d) /\ Asked
    /\ Sets(d, [NoTask EXCEPT !.pc = "list", !.what = "site"])

-----------------------------------------------------------------------------
(* Ports and selections are written before the edge is called. *)

\* listeningPortStore.Create: a port there is already is refused by the unique key.
WritePort(d) ==
    /\ desk[d].pc = "write" /\ desk[d].what = "port"
    /\ IF desk[d].item \subseteq Range(ports) THEN Sets(d, NoTask) /\ UNCHANGED ports
       ELSE LET i == NextId(ports) IN
            /\ ports' = Put(ports, i, CHOOSE p \in desk[d].item : TRUE)
            /\ Sets(d, [desk[d] EXCEPT !.pc = "list", !.ids = {i}])
    /\ UNCHANGED <<edge, lists, l4, guard, chosen, sheet, doubt, requests>> /\ NoLoss

Moves(i, p) == i \in DOMAIN ports /\ \A j \in DOMAIN ports \ {i} : ports[j] # p

\* listeningPortStore.Update: a row that is gone or a port that is taken ends the request.
WriteMove(d) ==
    /\ desk[d].pc = "write" /\ desk[d].what = "move"
    /\ \E i \in desk[d].ids, p \in desk[d].item :
          IF Moves(i, p) THEN ports' = Put(ports, i, p) /\ Sets(d, [desk[d] EXCEPT !.pc = "list"])
          ELSE Sets(d, NoTask) /\ UNCHANGED ports
    /\ UNCHANGED <<edge, lists, l4, guard, chosen, sheet, doubt, requests>> /\ NoLoss

\* siteListeningPortStore.ReplaceForServer: all the ids, or none.
WriteChoice(d) ==
    /\ desk[d].pc = "write" /\ desk[d].what = "choose"
    /\ IF desk[d].ids \subseteq DOMAIN ports
       THEN chosen' = desk[d].ids /\ Sets(d, [desk[d] EXCEPT !.pc = "list"])
       ELSE UNCHANGED chosen /\ Sets(d, NoTask)
    /\ UNCHANGED <<edge, lists, l4, guard, ports, sheet, doubt, requests>> /\ NoLoss

\* ListByServer, ListSelectedForServer: what is sent is read after the write.
ReadBack(d) ==
    /\ desk[d].pc = "list"
    /\ Sets(d, [desk[d] EXCEPT !.pc = "call",
                               !.list = IF desk[d].what \in {"port", "move"} THEN Range(ports)
                                        ELSE {ports[i] : i \in chosen}])
    /\ UNCHANGED <<edge, Stored, sheet, doubt, requests>> /\ NoLoss

-----------------------------------------------------------------------------
(* Calls of the edge. *)

\* What the edge has when it has taken the call.
Taking(d) ==
    LET t == desk[d].table IN
    CASE desk[d].what = "add"    -> [edge EXCEPT ![t] = @ \cup desk[d].item]
      [] desk[d].what = "remove" -> [edge EXCEPT ![t] = @ \ desk[d].item]
      [] desk[d].what = "clear"  -> [edge EXCEPT ![t] = {}]
      [] desk[d].what = "l4"     -> [edge EXCEPT !.l4 = desk[d].values]
      [] desk[d].what = "guard"  -> [edge EXCEPT !.guard = CHOOSE g \in desk[d].item : TRUE]
      [] desk[d].what \in {"port", "move", "close"} -> [edge EXCEPT !.ports = desk[d].list]
      [] desk[d].what \in {"choose", "site"}        -> [edge EXCEPT !.serves = desk[d].list]

Blacklists(d) == desk[d].table = "black" /\ desk[d].what = "add"
Doubts(d) == doubt' = IF Blacklists(d) THEN doubt \cup desk[d].item ELSE doubt

\* The edge takes the call and says so: what the database lacks is stored next.
Call(d) ==
    /\ desk[d].pc = "call"
    /\ edge' = Taking(d)
    /\ Sets(d, IF desk[d].what \in {"port", "move", "choose", "site"} THEN NoTask
               ELSE [desk[d] EXCEPT !.pc = "store"])
    /\ UNCHANGED <<Stored, sheet, doubt, requests>> /\ NoLoss

\* Regression: what the edge has refused is stored all the same.
CallUnheeded(d) ==
    /\ desk[d].pc = "call" /\ Loss
    /\ edge' \in {edge, Taking(d)}
    /\ Sets(d, [desk[d] EXCEPT !.pc = "store"])
    /\ UNCHANGED <<Stored, sheet, doubt, requests>>

\* The call fails, or is taken without an answer: a port is put back, the rest ends there.
CallFails(d) ==
    /\ desk[d].pc = "call" /\ Loss
    /\ edge' \in {edge, Taking(d)}
    /\ Sets(d, IF desk[d].what \in {"port", "move"} THEN [desk[d] EXCEPT !.pc = "undo"] ELSE NoTask)
    /\ Doubts(d)
    /\ UNCHANGED <<Stored, sheet, requests>>

UndoPort(d) ==
    /\ desk[d].pc = "undo"
    /\ IF desk[d].what = "port"
       THEN ports' = Drop(ports, desk[d].ids) /\ chosen' = chosen \ desk[d].ids
       ELSE /\ \E i \in desk[d].ids :
                  LET p == desk[d].before[i] IN
                  ports' = IF Moves(i, p) THEN Put(ports, i, p) ELSE ports
            /\ UNCHANGED chosen
    /\ Sets(d, NoTask)
    /\ UNCHANGED <<edge, lists, l4, guard, sheet, doubt, requests>> /\ NoLoss

-----------------------------------------------------------------------------
(* What the edge has taken is stored. *)

Stores(d, what) == desk[d].pc = "store" /\ desk[d].what = what /\ Sets(d, NoTask)

StoreEntry(d) ==
    /\ Stores(d, "add")
    /\ \E h \in desk[d].item :
          lists' = [lists EXCEPT ![desk[d].table] = Put(@, NextId(@), h)]
    /\ UNCHANGED <<edge, l4, guard, ports, chosen, sheet, doubt, requests>> /\ NoLoss

StoreRemoval(d) ==
    /\ Stores(d, "remove")
    /\ lists' = [lists EXCEPT ![desk[d].table] = Drop(@, desk[d].ids)]
    /\ UNCHANGED <<edge, l4, guard, ports, chosen, sheet, doubt, requests>> /\ NoLoss

\* DeleteAll
StoreClear(d) ==
    /\ Stores(d, "clear")
    /\ lists' = [lists EXCEPT ![desk[d].table] = Empty]
    /\ UNCHANGED <<edge, l4, guard, ports, chosen, sheet, doubt, requests>> /\ NoLoss

\* UpdateByServerID writes the whole row.
StoreL4(d) ==
    /\ Stores(d, "l4")
    /\ l4' = desk[d].values
    /\ UNCHANGED <<edge, lists, guard, ports, chosen, sheet, doubt, requests>> /\ NoLoss

StoreGuard(d) ==
    /\ Stores(d, "guard")
    /\ guard' \in desk[d].item
    /\ UNCHANGED <<edge, lists, l4, ports, chosen, sheet, doubt, requests>> /\ NoLoss

\* DELETE FROM listening_ports takes the selections of the rows along.
StoreClose(d) ==
    /\ Stores(d, "close")
    /\ ports' = Drop(ports, desk[d].ids) /\ chosen' = chosen \ desk[d].ids
    /\ UNCHANGED <<edge, lists, l4, guard, sheet, doubt, requests>> /\ NoLoss

\* A database call fails or the client goes away: the handler ends where it is.
CutOff(d) ==
    /\ desk[d].pc # "idle" /\ Loss
    /\ Sets(d, NoTask)
    /\ IF desk[d].pc = "store" THEN Doubts(d) ELSE UNCHANGED doubt
    /\ UNCHANGED <<edge, Stored, sheet, requests>>

-----------------------------------------------------------------------------
(* Reports: reportEdgeConfigureHandler, one database command at a time. *)

SendSheet ==
    /\ sheet.pc = "idle"
    /\ Files([NoSheet EXCEPT !.pc = "white", !.edge = edge])
    /\ UNCHANGED <<edge, Stored, desk, doubt, requests>> /\ NoLoss

\* L4WhitelistStore.ReplaceByServer: every entry gets a new id.
SheetWhite ==
    /\ sheet.pc = "white"
    /\ LET free == RowId \ (DOMAIN lists["white"] \cup Held)
       IN  lists' = [lists EXCEPT !["white"] =
                       CHOOSE f \in UNION {Bijection(S, sheet.edge.white) : S \in SUBSET free} : TRUE]
    /\ Files([sheet EXCEPT !.pc = "l4"])
    /\ UNCHANGED <<edge, l4, guard, ports, chosen, desk, doubt, requests>> /\ NoLoss

\* The fields an edge reports replace the row's own.
Overlaid(row, reported) == [f \in Field |-> IF f \in Reported THEN reported[f] ELSE row[f]]

\* The row is read ...
SheetL4 ==
    /\ sheet.pc = "l4"
    /\ Files([sheet EXCEPT !.pc = "l4row", !.row = Overlaid(l4, sheet.edge.l4)])
    /\ UNCHANGED <<edge, Stored, desk, doubt, requests>> /\ NoLoss

\* ... and the whole row is written back.
SheetL4Row ==
    /\ sheet.pc = "l4row"
    /\ l4' = sheet.row
    /\ Files([sheet EXCEPT !.pc = "ports"])
    /\ UNCHANGED <<edge, lists, guard, ports, chosen, desk, doubt, requests>> /\ NoLoss

\* ListeningPortStore.ReplaceByServer reads the rows ...
SheetPorts ==
    /\ sheet.pc = "ports"
    /\ Files([sheet EXCEPT !.pc = "port", !.seen = ports, !.todo = sheet.edge.ports])
    /\ UNCHANGED <<edge, Stored, desk, doubt, requests>> /\ NoLoss

Synced(p, i) == [sheet EXCEPT !.todo = @ \ {p}, !.synced = Put(@, p, i)]
\* The port map is lost: the sites' selections are synced without it.
NoPortMap == [sheet EXCEPT !.pc = "guard", !.synced = Empty, !.todo = {}, !.seen = Empty]

\* Regression: an update that changes nothing counts as a row that is gone.
FoundChanged(i, p) == i \in DOMAIN ports /\ ports[i] # p

\* Update of a row that holds what is written already affects none, and is no error: the
\* row is looked up again.
Found(i, p) == i \in DOMAIN ports

\* ... updates the row of every reported port or creates one ...
SheetPort ==
    /\ sheet.pc = "port"
    /\ \E p \in sheet.todo :
          LET rows == {i \in DOMAIN sheet.seen : sheet.seen[i] = p /\ Found(i, p)}
              i == IF rows # {} THEN CHOOSE j \in rows : TRUE ELSE NextId(ports)
          IN  IF p \in Range(Drop(ports, rows)) THEN UNCHANGED ports /\ Files(NoPortMap)
              ELSE ports' = Put(ports, i, p) /\ Files(Synced(p, i))
    /\ UNCHANGED <<edge, lists, l4, guard, chosen, desk, doubt, requests>> /\ NoLoss

\* ... and deletes the others it has read.
SheetClose ==
    /\ sheet.pc = "port" /\ sheet.todo = {}
    /\ LET gone == {i \in DOMAIN sheet.seen : sheet.seen[i] \notin sheet.edge.ports}
       IN  ports' = Drop(ports, gone) /\ chosen' = chosen \ gone
    /\ Files([sheet EXCEPT !.pc = "guard", !.seen = Empty])
    /\ UNCHANGED <<edge, lists, l4, guard, desk, doubt, requests>> /\ NoLoss

SheetGuard ==
    /\ sheet.pc = "guard"
    /\ guard' = sheet.edge.guard
    /\ Files([sheet EXCEPT !.pc = "site"])
    /\ UNCHANGED <<edge, lists, l4, ports, chosen, desk, doubt, requests>> /\ NoLoss

\* syncSiteListeningSelection: ports the map lacks are skipped; an id that is gone by now
\* leaves the selection as it was.
SheetSite ==
    /\ sheet.pc = "site"
    /\ LET ids == {sheet.synced[p] : p \in sheet.edge.serves \cap DOMAIN sheet.synced}
       IN  chosen' = IF ids \subseteq DOMAIN ports THEN ids ELSE chosen
    /\ Files(NoSheet)
    /\ UNCHANGED <<edge, lists, l4, guard, ports, desk, doubt, requests>> /\ NoLoss

\* A database command of the report fails.  The white list and the temporary list end the
\* report with an error; the rest is logged and skipped.
SheetFails ==
    /\ sheet.pc # "idle" /\ Loss
    /\ \/ sheet.pc \in {"white", "guard", "site"} /\ Files(NoSheet)
       \/ sheet.pc \in {"l4", "l4row"} /\ Files([sheet EXCEPT !.pc = "ports"])
       \/ sheet.pc \in {"ports", "port"} /\ Files(NoPortMap)
       \/ sheet.pc = "guard" /\ Files([sheet EXCEPT !.pc = "site"])
    /\ UNCHANGED <<edge, Stored, desk, doubt, requests>>

-----------------------------------------------------------------------------
\* Panel and edge agree; one port may be listening already.
ServerInit ==
    /\ lists = [t \in Table |-> Empty] /\ l4 = [f \in Field |-> Default] /\ guard = Default
    /\ \E S \in SUBSET RowId : ports \in Injection(S, Port) /\ S \in {{}, {CHOOSE i \in RowId : TRUE}}
    /\ chosen \in SUBSET DOMAIN ports
    /\ edge = [white |-> {}, black |-> {}, l4 |-> l4, guard |-> guard,
               ports |-> Range(ports), serves |-> {ports[i] : i \in chosen}]
    /\ desk = [d \in Desk |-> NoTask] /\ sheet = NoSheet
    /\ doubt = {} /\ requests = 0 /\ losses = 0

Ask(d) ==
    \/ AskAdd(d) \/ AskRemove(d) \/ AskClear(d) \/ AskL4(d) \/ AskGuard(d)
    \/ AskPort(d) \/ AskMove(d) \/ AskClose(d) \/ AskChoose(d) \/ AskSite(d)
GoOn(d) ==
    \/ WritePort(d) \/ WriteMove(d) \/ WriteChoice(d) \/ ReadBack(d) \/ Call(d) \/ UndoPort(d)
    \/ StoreEntry(d) \/ StoreRemoval(d) \/ StoreClear(d) \/ StoreL4(d) \/ StoreGuard(d) \/ StoreClose(d)
SheetStep ==
    \/ SendSheet \/ SheetWhite \/ SheetL4 \/ SheetL4Row \/ SheetPorts \/ SheetPort
    \/ SheetClose \/ SheetGuard \/ SheetSite

ServerNext ==
    \/ \E d \in Desk : Ask(d) \/ GoOn(d) \/ CallFails(d) \/ CutOff(d)
    \/ SheetStep \/ SheetFails

ServerSpec == ServerInit /\ [][ServerNext]_serverVars

\* Handlers go on, and the edge reports every minute.
FairServerSpec ==
    ServerSpec /\ WF_serverVars(SheetStep) /\ \A d \in Desk : WF_serverVars(GoOn(d))

-----------------------------------------------------------------------------
(* Properties. *)

\* An address the edge blocks for good has a row on the panel, from which it can be
\* unblocked, unless its blacklisting ended in an error (one handler at a time): a removal
\* or a clear the edge has refused must not take the row, and of two rows for one address
\* the removal of one is enough.
NothingBlocksUnseen ==
    edge.black \subseteq
        Range(lists["black"]) \cup doubt
        \cup UNION {desk[d].item : d \in {c \in Desk : desk[c].pc = "store" /\ Blacklists(c)}}

Mirrors ==
    /\ Range(lists["white"]) = edge.white
    /\ \A f \in Reported : l4[f] = edge.l4[f]
    /\ guard = edge.guard
    /\ Range(ports) = edge.ports
    /\ {ports[i] : i \in chosen} = edge.serves \cap edge.ports

\* Once the requests have ended, the minutely reports bring the panel's copy of the white
\* list, the reported L4 fields, the guard, the ports and the selection to what the edge
\* has, and keep it there: stale reports, lost port maps and refused calls are repaired.
MirrorsInTheEnd == <>[]Mirrors
=============================================================================
