------------------------------ MODULE WafRuleSets ------------------------------
(***************************************************************************)
(* WAF rule sets (waf_rule and the nine tables of its rules), the sites that  *)
(* use them (sites.waf_id), and what the edges enforce.  Rules are edited by   *)
(* the handlers of /waf-rules/{id}/waf/* (api/waf_rule_predefined_waf_         *)
(* handlers.go), which push to every site of the set, and by those of          *)
(* /sites/{id}/waf/* (api/site_detail_handlers.go), which push to their own     *)
(* site.  All of them write first and push afterwards, and nothing is undone    *)
(* when a push fails.  A handler is a work that moves from one database write    *)
(* or post to the next; consecutive reads are one step.                         *)
(***************************************************************************)
EXTENDS Integers, Functions

CONSTANTS
    Site,         \* sites
    Server,         \* edge servers
    RuleSet,      \* ids of waf_rule
    Kind,         \* the tables of rules in play
    Rule,         \* rules, by their content
    Enabled,      \* the rules whose status is ENABLE
    Version,      \* origin routes a site may have
    NoRoutes,     \* a site without origin routes
    NoSet,        \* no rule set, no site
    Worker,      \* requests that may be served at the same time
    MaxWafRequest,   \* bound on requests
    MaxLost       \* bound on posts and database calls that fail

Tables == {"whitelist", "blacklist", "geolocation", "anti-cc", "anti-header",
           "interval-freq-limit", "second-freq-limit", "response-freq", "user-agent"}
\* The table whose rules travel only with the whole site.
AntiCc == "anti-cc"

ASSUME KindAssumption == Kind \subseteq Tables /\ AntiCc \in Kind
ASSUME EnabledAssumption == Enabled \subseteq Rule
ASSUME RuleSetAssumption == RuleSet # {}
ASSUME WafNullAssumption == NoSet \notin RuleSet \cup Site
ASSUME WafSizeAssumption == MaxWafRequest \in Nat /\ MaxLost \in Nat

Routes == "routes"
Part == Kind \cup {Routes}

VARIABLES
    ruleSets,     \* waf_rule: id |-> its role and its rules
    uses,         \* sites.waf_id
    assigned,     \* site_servers
    routes,       \* site_origin_routes
    conf,         \* what each edge does for each site
    work,          \* what each handler is doing
    claimed,      \* history: the parts of a site that an answer said are served
    requests,     \* bounded by MaxWafRequest
    lost          \* bounded by MaxLost

wVars == <<ruleSets, uses, assigned, routes, conf, work, claimed, requests, lost>>

-----------------------------------------------------------------------------
(* Rule sets, and the configuration a site has in the database. *)

NoRules == [k \in Kind |-> {}]
NewSet(role, rules) == [role |-> role, rules |-> rules]
Stored(s, p) == IF p = Routes THEN routes[s]
                ELSE IF uses[s] = NoSet THEN {} ELSE ruleSets[uses[s]].rules[p]
\* An edge passes over a rule that is not enabled.
Enforced(p, has) == IF p = Routes THEN has ELSE has \cap Enabled
InStep(s, p) == \A e \in assigned[s] : Enforced(p, conf[<<e, s>>][p]) = Enforced(p, Stored(s, p))
SitesOf(c) == {s \in Site : uses[s] = c}
PartsOf(S, P) == {<<s, p>> : s \in S, p \in P}

\* buildL7SiteConfigPayload
WholeSite(s) == [p \in Part |-> Stored(s, p)]
\* The stores the handlers of /waf-rules build the payload from hold no origin routes.
WholeSiteOfTemplate(s) == [WholeSite(s) EXCEPT ![Routes] = NoRoutes]

RuleEdits(rules) ==
    [how : {"create"}, old : {{}}, new : {{r} : r \in Rule \ rules}]
    \cup [how : {"update"}, old : {{r} : r \in rules}, new : {{r} : r \in Rule}]
    \cup [how : {"delete"}, old : SUBSET rules, new : {{}}]
Edited(rules, ed) ==
    IF ed.how = "update" /\ ~(ed.old \subseteq rules) THEN rules ELSE (rules \ ed.old) \cup ed.new
\* The nine tables, each with a store of its own.
WhitelistRows(R, ed) == Edited(R, ed)
BlacklistRows(R, ed) == Edited(R, ed)
GeoRows(R, ed) == Edited(R, ed)
AntiCcRows(R, ed) == Edited(R, ed)
AntiHeaderRows(R, ed) == Edited(R, ed)
IntervalRows(R, ed) == Edited(R, ed)
SecondRows(R, ed) == Edited(R, ed)
ResponseRows(R, ed) == Edited(R, ed)
UserAgentRows(R, ed) == Edited(R, ed)

Rows(k, R, ed) ==
    CASE k = "whitelist" -> WhitelistRows(R, ed)           [] k = "blacklist" -> BlacklistRows(R, ed)
      [] k = "geolocation" -> GeoRows(R, ed)               [] k = AntiCc -> AntiCcRows(R, ed)
      [] k = "anti-header" -> AntiHeaderRows(R, ed)        [] k = "interval-freq-limit" -> IntervalRows(R, ed)
      [] k = "second-freq-limit" -> SecondRows(R, ed)      [] k = "response-freq" -> ResponseRows(R, ed)
      [] k = "user-agent" -> UserAgentRows(R, ed)

\* An UPDATE that changes no row is answered "not found", and so is an INSERT for a set
\* that is gone; a DELETE of nothing is not an error.
NotFound(c, k, ed) ==
    \/ ed.how = "create" /\ c \notin DOMAIN ruleSets
    \/ ed.how = "update" /\ (c \in DOMAIN ruleSets =>
                                Rows(k, ruleSets[c].rules[k], ed) = ruleSets[c].rules[k])

\* The post of one table: three are sent whole, the others without the rules that are not
\* enabled, which only the post of the whole site has.
PushWhitelist(R) == R
PushBlacklist(R) == R
PushGeo(R) == R
PushAntiHeader(R) == R \cap Enabled
PushInterval(R) == R \cap Enabled
PushSecond(R) == R \cap Enabled
PushResponse(R) == R \cap Enabled
PushUserAgent(R) == R \cap Enabled

Pushed(k, R) ==
    CASE k = "whitelist" -> PushWhitelist(R)               [] k = "blacklist" -> PushBlacklist(R)
      [] k = "geolocation" -> PushGeo(R)                   [] k = "anti-header" -> PushAntiHeader(R)
      [] k = "interval-freq-limit" -> PushInterval(R)      [] k = "second-freq-limit" -> PushSecond(R)
      [] k = "response-freq" -> PushResponse(R)            [] k = "user-agent" -> PushUserAgent(R)

-----------------------------------------------------------------------------
(* Jobs. *)

NoEdit == [how |-> "delete", old |-> {}, new |-> {}]
NoWork == [pc |-> "idle", what |-> "none", set |-> NoSet, kind |-> AntiCc, edit |-> NoEdit,
          sites |-> {}, at |-> NoSet, body |-> {}, todo |-> {}, ok |-> {},
          missed |-> FALSE, alone |-> FALSE]

Free(b) == work[b].pc = "idle"
Work(a, j) == work' = [work EXCEPT ![a] = j]
Request == requests < MaxWafRequest /\ requests' = requests + 1 /\ UNCHANGED lost
Lost == lost < MaxLost /\ lost' = lost + 1 /\ UNCHANGED requests
Within == UNCHANGED <<requests, lost>>

\* A request arrives: it and those in flight no longer run alone.
Arrive(a, j) ==
    /\ Free(a) /\ Request
    /\ work' = [b \in Worker |->
                  IF b = a THEN [j EXCEPT !.alone = \A h \in Worker \ {a} : Free(h)]
                  ELSE [work[b] EXCEPT !.alone = FALSE]]

\* The answer: what it claims is served counts when the request ran alone.
AnswerWell(a, C) == claimed' = (IF work[a].alone THEN claimed \cup C ELSE claimed) /\ Work(a, NoWork)
AnswerBadly(a) == UNCHANGED claimed /\ Work(a, NoWork)

Fresh(c) == c \in RuleSet \ (DOMAIN ruleSets \cup {work[b].set : b \in Worker})
            /\ c = CHOOSE d \in RuleSet \ (DOMAIN ruleSets \cup {work[b].set : b \in Worker}) : TRUE
AddSet(c, set) == ruleSets' = [d \in DOMAIN ruleSets \cup {c} |-> IF d = c THEN set ELSE ruleSets[d]]

-----------------------------------------------------------------------------
(* Requests about whole rule sets. *)

\* POST /waf-rules makes a template, POST /waf-rules/{id}/duplicate a copy of one for
\* sites.
CreateSet(a) ==
    /\ Free(a) /\ Request
    /\ \E c \in RuleSet :
          /\ Fresh(c)
          /\ \/ AddSet(c, NewSet("predefined", NoRules))
             \/ \E d \in DOMAIN ruleSets :
                   /\ ruleSets[d].role = "predefined"
                   /\ AddSet(c, NewSet("custom", ruleSets[d].rules))
    /\ UNCHANGED <<uses, assigned, routes, conf, work, claimed>>

\* PUT /waf-rules/{id} may change the role.
ChangeRole(a) ==
    /\ Free(a) /\ Request
    /\ \E c \in DOMAIN ruleSets, role \in {"predefined", "custom"} :
          ruleSets' = [ruleSets EXCEPT ![c].role = role]
    /\ UNCHANGED <<uses, assigned, routes, conf, work, claimed>>

\* DELETE /waf-rules/{id}: refused while a site uses the set.
BeginDeleteSet(a) ==
    /\ \E c \in DOMAIN ruleSets :
          SitesOf(c) = {} /\ Arrive(a, [NoWork EXCEPT !.pc = "delete", !.what = "delete", !.set = c])
    /\ UNCHANGED <<ruleSets, uses, assigned, routes, conf, claimed>>

\* Regression: no foreign key.
ReleasedNone(c) == uses

\* The rows go by cascade, and a site that has come to use the set since it was counted
\* loses it (ON DELETE SET NULL).
Released(c) == [s \in Site |-> IF uses[s] = c THEN NoSet ELSE uses[s]]

DeleteSet(a) ==
    /\ work[a].pc = "delete"
    /\ ruleSets' = [d \in DOMAIN ruleSets \ {work[a].set} |-> ruleSets[d]]
    /\ uses' = Released(work[a].set)
    /\ AnswerWell(a, {})
    /\ UNCHANGED <<assigned, routes, conf>> /\ Within

\* POST /sites/{id}/waf/fork: a site that uses a template gets a copy of it.
BeginFork(a) ==
    /\ \E s \in Site : /\ uses[s] # NoSet /\ ruleSets[uses[s]].role = "predefined"
                       /\ Arrive(a, [NoWork EXCEPT !.pc = "copy", !.what = "fork", !.set = uses[s],
                                                 !.at = s])
    /\ UNCHANGED <<ruleSets, uses, assigned, routes, conf, claimed>>

\* Regression: a table was forgotten.
CopiedButOne(rules) == [rules EXCEPT ![AntiCc] = {}]

\* copyWafSubRules: every table, in one transaction.
Copied(rules) == rules

Copy(a) ==
    /\ work[a].pc = "copy"
    /\ IF work[a].set \in DOMAIN ruleSets /\ ruleSets[work[a].set].role = "predefined"
       THEN \E c \in RuleSet :
               /\ Fresh(c)
               /\ AddSet(c, NewSet("custom", Copied(ruleSets[work[a].set].rules)))
               /\ Work(a, [work[a] EXCEPT !.pc = "attach", !.set = c])
               /\ UNCHANGED claimed
       ELSE AnswerBadly(a) /\ UNCHANGED ruleSets
    /\ UNCHANGED <<uses, assigned, routes, conf>> /\ Within

\* EnsureWafRule: a site without a set gets an empty one, then points to it.
Ensure(a) ==
    /\ work[a].pc = "ensure"
    /\ \E c \in RuleSet :
          /\ Fresh(c)
          /\ AddSet(c, NewSet("custom", NoRules))
          /\ Work(a, [work[a] EXCEPT !.pc = "attach", !.set = c])
    /\ UNCHANGED <<uses, assigned, routes, conf, claimed>> /\ Within

\* UPDATE sites SET waf_id = ?, which fails when the set is gone.
Attach(a) ==
    /\ work[a].pc = "attach"
    /\ IF work[a].set \in DOMAIN ruleSets
       THEN /\ uses' = [uses EXCEPT ![work[a].at] = work[a].set]
            /\ claimed' = IF work[a].alone THEN claimed ELSE claimed \ PartsOf({work[a].at}, Part)
            /\ Work(a, IF work[a].what = "site" THEN [work[a] EXCEPT !.pc = "write"] ELSE NoWork)
       ELSE AnswerBadly(a) /\ UNCHANGED uses
    /\ UNCHANGED <<ruleSets, assigned, routes, conf>> /\ Within

-----------------------------------------------------------------------------
(* Requests about the rules of a set. *)

\* The set must exist; its role is not asked.
EditTemplate(a, k) ==
    /\ k \in Kind
    /\ \E c \in DOMAIN ruleSets : \E ed \in RuleEdits(ruleSets[c].rules[k]) :
          Arrive(a, [NoWork EXCEPT !.pc = "write", !.what = "template", !.set = c, !.kind = k,
                                  !.edit = ed])

\* One handler for each table, alike but for the row and the post.
TemplateWhitelist(a) == EditTemplate(a, "whitelist")
TemplateBlacklist(a) == EditTemplate(a, "blacklist")
TemplateGeo(a) == EditTemplate(a, "geolocation")
TemplateAntiCc(a) == EditTemplate(a, AntiCc)
TemplateAntiHeader(a) == EditTemplate(a, "anti-header")
TemplateInterval(a) == EditTemplate(a, "interval-freq-limit")
TemplateSecond(a) == EditTemplate(a, "second-freq-limit")
TemplateResponse(a) == EditTemplate(a, "response-freq")
TemplateUserAgent(a) == EditTemplate(a, "user-agent")

\* /waf-rules/{id}/waf/{table}
BeginTemplateEdit(a) ==
    /\ \/ TemplateWhitelist(a) \/ TemplateBlacklist(a) \/ TemplateGeo(a) \/ TemplateAntiCc(a)
       \/ TemplateAntiHeader(a) \/ TemplateInterval(a) \/ TemplateSecond(a)
       \/ TemplateResponse(a) \/ TemplateUserAgent(a)
    /\ UNCHANGED <<ruleSets, uses, assigned, routes, conf, claimed>>

\* resolveSiteWafRuleID: a template is refused, a site without a set gets one.
EditOfSite(a, k) ==
    /\ k \in Kind
    /\ \E s \in Site :
          \/ /\ uses[s] # NoSet /\ ruleSets[uses[s]].role = "custom"
             /\ \E ed \in RuleEdits(ruleSets[uses[s]].rules[k]) :
                   Arrive(a, [NoWork EXCEPT !.pc = "write", !.what = "site", !.set = uses[s],
                                          !.kind = k, !.edit = ed, !.at = s])
          \/ /\ uses[s] = NoSet
             /\ \E ed \in RuleEdits({}) :
                   Arrive(a, [NoWork EXCEPT !.pc = "ensure", !.what = "site", !.kind = k,
                                          !.edit = ed, !.at = s])

SiteWhitelist(a) == EditOfSite(a, "whitelist")
SiteBlacklist(a) == EditOfSite(a, "blacklist")
SiteGeo(a) == EditOfSite(a, "geolocation")
SiteAntiCc(a) == EditOfSite(a, AntiCc)
SiteAntiHeader(a) == EditOfSite(a, "anti-header")
SiteInterval(a) == EditOfSite(a, "interval-freq-limit")
SiteSecond(a) == EditOfSite(a, "second-freq-limit")
SiteResponse(a) == EditOfSite(a, "response-freq")
SiteUserAgent(a) == EditOfSite(a, "user-agent")

\* /sites/{id}/waf/{table}
BeginSiteEdit(a) ==
    /\ \/ SiteWhitelist(a) \/ SiteBlacklist(a) \/ SiteGeo(a) \/ SiteAntiCc(a)
       \/ SiteAntiHeader(a) \/ SiteInterval(a) \/ SiteSecond(a)
       \/ SiteResponse(a) \/ SiteUserAgent(a)
    /\ UNCHANGED <<ruleSets, uses, assigned, routes, conf, claimed>>

\* A GET of a table makes the set too.
BeginRead(a) ==
    /\ \E s \in Site : /\ uses[s] = NoSet
                       /\ Arrive(a, [NoWork EXCEPT !.pc = "ensure", !.what = "read", !.at = s])
    /\ UNCHANGED <<ruleSets, uses, assigned, routes, conf, claimed>>

\* The anti-CC handler of a site pushes nothing; a template is pushed to its sites.
AfterWrite(j) ==
    CASE j.what = "template" -> [j EXCEPT !.pc = "sites"]
      [] j.what = "site" /\ j.kind = AntiCc -> [j EXCEPT !.pc = "answer", !.ok = {j.at}]
      [] OTHER -> [j EXCEPT !.pc = "load", !.sites = {j.at}]

Write(a) ==
    LET j == work[a]
    IN /\ j.pc = "write"
       /\ IF NotFound(j.set, j.kind, j.edit)
          THEN AnswerBadly(a) /\ UNCHANGED ruleSets
          ELSE /\ ruleSets' = IF j.set \notin DOMAIN ruleSets THEN ruleSets
                              ELSE [ruleSets EXCEPT ![j.set].rules[j.kind] = Rows(j.kind, @, j.edit)]
               /\ claimed' = claimed \ PartsOf(SitesOf(j.set), {j.kind})
               /\ Work(a, AfterWrite(j))
       /\ UNCHANGED <<uses, assigned, routes, conf>> /\ Within

\* Regression: only the database is written.
SitesNone(c) == {}

\* syncWafRuleToAssignedSites
Sites(c) == SitesOf(c)

ListSites(a) ==
    /\ work[a].pc = "sites"
    /\ LET S == Sites(work[a].set)
       IN Work(a, [work[a] EXCEPT !.pc = IF S = {} THEN "answer" ELSE "load", !.sites = S,
                                !.ok = IF S = {} THEN SitesOf(work[a].set) ELSE {}])
    /\ UNCHANGED <<ruleSets, uses, assigned, routes, conf, claimed>> /\ Within

\* The next site: the set it uses now, its rules, its edges.
Load(a) ==
    LET j == work[a]
    IN /\ j.pc = "load"
       /\ \E s \in j.sites :
             IF uses[s] = NoSet /\ j.what \in {"template", "site"} /\ j.kind # AntiCc
             THEN Work(a, [j EXCEPT !.sites = @ \ {s}, !.missed = TRUE,
                                   !.pc = IF j.sites = {s} THEN "answer" ELSE "load"])
             ELSE Work(a, [j EXCEPT !.pc = "edges", !.at = s, !.todo = assigned[s],
                                   !.sites = @ \ {s},
                                   !.body = IF j.what = "routes" THEN routes[s] ELSE Stored(s, j.kind)])
       /\ UNCHANGED <<ruleSets, uses, assigned, routes, conf, claimed>> /\ Within

\* What an edge has after a post of the handler.
Taken(j, was) ==
    CASE j.what = "save" -> WholeSite(j.at)
      [] j.what = "routes" -> [was EXCEPT ![Routes] = j.body]
      [] j.what = "template" /\ j.kind = AntiCc -> WholeSiteOfTemplate(j.at)
      [] OTHER -> [was EXCEPT ![j.kind] = Pushed(j.kind, j.body)]

\* An edge that fails is passed over, and makes the answer a 502; the report of the whole
\* site, which the anti-CC handler of a template sends, is not looked at, and the save of a
\* site takes the edge off the site.
Missed(j) == j.missed \/ ~(j.what = "save" \/ (j.what = "template" /\ j.kind = AntiCc))

PostRules(a) ==
    LET j == work[a]
    IN /\ j.pc = "edges"
       /\ \E e \in j.todo :
             \/ /\ conf' = [conf EXCEPT ![<<e, j.at>>] = Taken(j, @)]
                /\ Work(a, [j EXCEPT !.todo = @ \ {e}, !.ok = IF j.what = "save" THEN @ \cup {e} ELSE @])
                /\ Within
             \/ /\ Work(a, [j EXCEPT !.todo = @ \ {e}, !.missed = Missed(j)])
                /\ UNCHANGED conf /\ Lost
       /\ UNCHANGED <<ruleSets, uses, assigned, routes, claimed>>

NextSite(a) ==
    LET j == work[a]
    IN /\ j.pc = "edges" /\ j.todo = {}
       /\ Work(a, [j EXCEPT !.pc = IF j.sites = {} THEN "answer" ELSE "load",
                           !.ok = IF j.what = "save" THEN @ ELSE @ \cup {j.at}, !.body = {}])
       /\ UNCHANGED <<ruleSets, uses, assigned, routes, conf, claimed>> /\ Within

Answer(a) ==
    LET j == work[a]
    IN /\ j.pc = "answer"
       /\ IF j.missed THEN AnswerBadly(a) /\ UNCHANGED assigned
          ELSE IF j.what = "save"
          THEN /\ assigned' = [assigned EXCEPT ![j.at] = j.ok]
               /\ AnswerWell(a, PartsOf({j.at}, Part))
          ELSE /\ AnswerWell(a, PartsOf(j.ok, {IF j.what = "routes" THEN Routes ELSE j.kind}))
               /\ UNCHANGED assigned
       /\ UNCHANGED <<ruleSets, uses, routes, conf>> /\ Within

-----------------------------------------------------------------------------
(* Requests about a site. *)

\* PUT /sites/{id}: the row and its edges are written, and the whole site is pushed.
SaveSite(a) ==
    /\ \E s \in Site, c \in DOMAIN ruleSets \cup {NoSet}, E \in SUBSET Server :
          /\ Arrive(a, [NoWork EXCEPT !.pc = "edges", !.what = "save", !.at = s, !.todo = E])
          /\ uses' = [uses EXCEPT ![s] = c]
          /\ assigned' = [assigned EXCEPT ![s] = E]
          /\ claimed' = claimed \ PartsOf({s}, Part)
    /\ UNCHANGED <<ruleSets, routes, conf>>

\* PUT /sites/{id}/origin-routes: written, then pushed.
BeginRoutes(a) ==
    /\ \E s \in Site, v \in Version \cup {NoRoutes} :
          /\ Arrive(a, [NoWork EXCEPT !.pc = "load", !.what = "routes", !.sites = {s}])
          /\ routes' = [routes EXCEPT ![s] = v]
          /\ claimed' = claimed \ PartsOf({s}, {Routes})
    /\ UNCHANGED <<ruleSets, uses, assigned, conf>>

\* A statement fails, or the client goes away, between two steps.
Break(a) ==
    /\ work[a].pc \in {"attach", "sites", "load"} /\ Lost
    /\ AnswerBadly(a)
    /\ UNCHANGED <<ruleSets, uses, assigned, routes, conf>>

-----------------------------------------------------------------------------
\* A rule set with a rule, and sites whose last save ended well.
WafInit ==
    /\ \E role \in {"predefined", "custom"}, r \in Rule :
          LET c == CHOOSE d \in RuleSet : TRUE
          IN /\ ruleSets = [d \in {c} |-> NewSet(role, [NoRules EXCEPT ![AntiCc] = {r}])]
             /\ uses \in [Site -> {c, NoSet}]
    /\ assigned = [s \in Site |-> Server]
    /\ routes \in [Site -> Version]
    /\ conf = [es \in Server \X Site |-> WholeSite(es[2])]
    /\ work = [a \in Worker |-> NoWork]
    /\ claimed = Site \X Part
    /\ requests = 0 /\ lost = 0

WafNext ==
    \E a \in Worker :
        \/ CreateSet(a) \/ ChangeRole(a) \/ BeginDeleteSet(a) \/ DeleteSet(a)
        \/ BeginFork(a) \/ Copy(a) \/ Ensure(a) \/ Attach(a)
        \/ BeginTemplateEdit(a) \/ BeginSiteEdit(a) \/ BeginRead(a) \/ Write(a)
        \/ ListSites(a) \/ Load(a) \/ PostRules(a) \/ NextSite(a) \/ Answer(a)
        \/ SaveSite(a) \/ BeginRoutes(a) \/ Break(a)

WafSpec == WafInit /\ [][WafNext]_wVars

-----------------------------------------------------------------------------
\* Types: every site uses a stored rule set or none (the foreign key of sites.waf_id), and
\* a handler that posts has a site to post.
WafTypeOK ==
    /\ \A c \in DOMAIN ruleSets : /\ c \in RuleSet
                                  /\ ruleSets[c].role \in {"predefined", "custom"}
                                  /\ ruleSets[c].rules \in [Kind -> SUBSET Rule]
    /\ uses \in [Site -> DOMAIN ruleSets \cup {NoSet}]
    /\ assigned \in [Site -> SUBSET Server]
    /\ routes \in [Site -> Version \cup {NoRoutes}]
    /\ \A a \in Worker : work[a].pc = "edges" => work[a].at \in Site
    /\ claimed \subseteq Site \X Part

\* A rule edit that was answered 2xx is enforced: every edge of every site the edit is for
\* has the rules of the site's set, from then on until the set is edited through another
\* site.  (RuleEdits of anti-CC rules and origin routes: see FullPushIsFull.)
AnsweredMeansServed ==
    \A s \in Site, k \in Kind \ {AntiCc} : <<s, k>> \in claimed => InStep(s, k)

\* The handlers' word for the whole site: "pushes the full site configuration to every
\* assigned edge server" (callL7UpdateSite).
FullPushIsFull ==
    \A s \in Site : <<s, Routes>> \in claimed => InStep(s, Routes)

\* A fork that runs alone changes no rule of its site.
ForkKeepsTheRules ==
    [][\A a \in Worker, s \in Site, k \in Kind :
          work[a].pc = "attach" /\ work[a].what = "fork" /\ work[a].alone /\ work'[a] = NoWork
          => Stored(s, k)' = Stored(s, k)]_wVars
=============================================================================
